-------------------------- MODULE BookReadingStats --------------------------
(***************************************************************************)
(* The reading statistics of one book                                      *)
(* (src/src/activities/reader/BookReadingStats.cpp): stats_v5.bin, replaced*)
(* through a .tmp and a .bak that a load recovers from, with the files of  *)
(* older versions behind them; and the reset that deletes them all.        *)
(*                                                                         *)
(* Statistics are an opaque document; a file of the version its name says  *)
(* is whole or Torn.  A loss of power may come between any two operations  *)
(* on the card.                                                            *)
(***************************************************************************)
EXTENDS SdCard

CONSTANTS
    Canonical,  \* stats_v5.bin
    Tmp,        \* stats_v5.bin.tmp
    Bak,        \* stats_v5.bin.bak
    Previous,   \* stats_v4.bin
    Legacy,     \* stats.bin
    Fresh       \* default-constructed statistics

ASSUME PathAssumption ==
    /\ Paths = {Canonical, Tmp, Bak, Previous, Legacy}
    /\ Canonical \notin {Tmp, Bak, Previous, Legacy}
    /\ Tmp \notin {Bak, Previous, Legacy}
    /\ Bak \notin {Previous, Legacy} /\ Previous # Legacy
ASSUME StatsAssumption == Fresh \in Docs

VARIABLES
    pc,         \* where the task is in save() or remove()
    opened,     \* the book's statistics were loaded since the device started
    data,       \* the statistics being saved
    hadOriginal,
    ok,         \* local of remove()
    op,         \* history: the operation that began last
    base,       \* history: what a load would have read when it began
    source,     \* history: ... and from which file
    outcome,    \* history: how it ended
    kept        \* history: stats_v5.bin was published and not reset since

locals == <<data, hadOriginal, ok>>
history == <<op, base, source, outcome, kept>>
vars == <<files, faults, pc, opened, locals, history>>

-----------------------------------------------------------------------------
(* What load() reads.                                                      *)

Complete(path) == files[path] \in Docs

\* mutant: the temporary file is trusted before it is complete
CandidatesUnchecked == <<Exists(Canonical), Exists(Tmp), Exists(Bak)>>

\* Which files openRecoverableStatsFile() accepts: the file itself, else a
\* complete temporary file, else the backup.
Candidates == <<Exists(Canonical), Complete(Tmp), Exists(Bak)>>

\* openStatsFileForRead().
Opens ==
    IF Candidates[1] THEN Canonical
    ELSE IF Candidates[2] THEN Tmp
    ELSE IF Candidates[3] THEN Bak
    ELSE IF Exists(Previous) THEN Previous
    ELSE Legacy

\* What load() returns.
Stats == IF Complete(Opens) THEN files[Opens] ELSE Fresh

-----------------------------------------------------------------------------
SaveSteps == {"clean", "open", "write", "abandon", "look", "backUp", "publish",
              "restore", "discard", "tidy"}

ResetSteps == {"rmLegacy", "rmPrevious", "rmTmp", "rmBak", "rmCanonical"}

TypeOK ==
    /\ CardType
    /\ pc \in SaveSteps \cup ResetSteps \cup {"idle"}
    /\ opened \in BOOLEAN /\ hadOriginal \in BOOLEAN /\ ok \in BOOLEAN
    /\ op \in {"none", "save", "reset"} /\ source \in Paths /\ kept \in BOOLEAN
    /\ data \in Docs /\ base \in Docs
    /\ outcome \in {"none", "saved", "reset", "notReset"}

\* The book was read with this version and older ones, or with none.
Init ==
    /\ files \in [Paths -> Docs \cup {Absent}]
    /\ ~Exists(Tmp) /\ ~Exists(Bak)
    /\ faults = 0
    /\ pc = "idle" /\ opened = FALSE
    /\ data = Fresh /\ hadOriginal = FALSE /\ ok = TRUE
    /\ op = "none" /\ base = Stats /\ source = Opens /\ outcome = "none"
    /\ kept = Exists(Canonical)

\* load(): what it recovers from is moved back in place if it can be.
Load ==
    /\ pc = "idle"
    /\ opened' = TRUE
    /\ IF Opens \in {Tmp, Bak} THEN MayRename(Opens, Canonical) ELSE Untouched
    /\ UNCHANGED <<pc, locals, history>>

-----------------------------------------------------------------------------
(* save().                                                                 *)

Goto(step) == pc' = step /\ UNCHANGED <<opened, data, ok, op, base, source, outcome>>

Return(result) ==
    /\ pc' = "idle" /\ outcome' = result
    /\ UNCHANGED <<opened, data, ok, op, base, source>>

\* Whoever saves has loaded the statistics first and changed them.
SaveBegin ==
    /\ pc = "idle" /\ opened
    /\ data' \in Docs \ {Fresh}
    /\ pc' = "clean"
    /\ op' = "save" /\ base' = Stats /\ source' = Opens /\ outcome' = "none"
    /\ Untouched
    /\ UNCHANGED <<opened, hadOriginal, ok, kept>>

SaveClean ==
    /\ pc = "clean"
    /\ \/ Cleared(Tmp) /\ Goto("open")
       \/ ClearFails(Tmp) /\ Return("none")
    /\ UNCHANGED <<hadOriginal, kept>>

SaveOpen ==
    /\ pc = "open"
    /\ \/ Opened(Tmp) /\ Goto("write")
       \/ Fails /\ Return("none")
    /\ UNCHANGED <<hadOriginal, kept>>

\* write(), sync() and close(): each is checked.
SaveWrite ==
    /\ pc = "write"
    /\ \/ Written(Tmp, data) /\ Goto("look")
       \/ Fails /\ Goto("abandon")
    /\ UNCHANGED <<hadOriginal, kept>>

SaveAbandon ==
    /\ pc = "abandon"
    /\ MayRemove(Tmp) /\ Return("none")
    /\ UNCHANGED <<hadOriginal, kept>>

\* mutant: a stale backup is removed whether or not there is an original
SaveLookAlways ==
    /\ pc = "look"
    /\ hadOriginal' = Exists(Canonical)
    /\ \/ Cleared(Bak) /\ Goto(IF Exists(Canonical) THEN "backUp" ELSE "publish")
       \/ ClearFails(Bak) /\ Goto("abandon")
    /\ UNCHANGED kept

SaveLook ==
    /\ pc = "look"
    /\ hadOriginal' = Exists(Canonical)
    /\ \/ ~Exists(Canonical) /\ Untouched /\ Goto("publish")
       \/ Exists(Canonical) /\ Cleared(Bak) /\ Goto("backUp")
       \/ Exists(Canonical) /\ ClearFails(Bak) /\ Goto("abandon")
    /\ UNCHANGED kept

SaveBackUp ==
    /\ pc = "backUp"
    /\ \/ Renamed(Canonical, Bak) /\ Goto("publish")
       \/ RenameFails(Canonical, Bak) /\ Goto("abandon")
    /\ UNCHANGED <<hadOriginal, kept>>

SavePublish ==
    /\ pc = "publish"
    /\ \/ Renamed(Tmp, Canonical) /\ Goto("tidy") /\ kept' = TRUE
       \/ /\ RenameFails(Tmp, Canonical)
          /\ Goto(IF hadOriginal THEN "restore" ELSE "discard")
          /\ UNCHANGED kept
    /\ UNCHANGED hadOriginal

SaveRestore ==
    /\ pc = "restore"
    /\ MayRename(Bak, Canonical) /\ Goto("discard")
    /\ UNCHANGED <<hadOriginal, kept>>

\* The temporary file goes only when the original is back in place.
SaveDiscard ==
    /\ pc = "discard"
    /\ IF hadOriginal /\ Exists(Canonical) THEN MayRemove(Tmp) ELSE Untouched
    /\ Return("none")
    /\ UNCHANGED <<hadOriginal, kept>>

SaveTidy ==
    /\ pc = "tidy"
    /\ IF hadOriginal THEN MayRemove(Bak) ELSE Untouched
    /\ Return("saved")
    /\ UNCHANGED <<hadOriginal, kept>>

-----------------------------------------------------------------------------
(* remove(): from the oldest source to the newest.                         *)

ResetBegin ==
    /\ pc = "idle"
    /\ pc' = "rmLegacy"
    /\ ok' = TRUE
    /\ op' = "reset" /\ base' = Stats /\ source' = Opens /\ outcome' = "none"
    /\ kept' = FALSE
    /\ Untouched
    /\ UNCHANGED <<opened, data, hadOriginal>>

RemoveOne(step, path, next) ==
    /\ pc = step
    /\ \/ Cleared(path) /\ UNCHANGED ok
       \/ ClearFails(path) /\ ok' = FALSE
    /\ pc' = next
    /\ UNCHANGED <<opened, data, hadOriginal, history>>

ResetFallbacks ==
    \/ RemoveOne("rmLegacy", Legacy, "rmPrevious")
    \/ RemoveOne("rmPrevious", Previous, "rmTmp")
    \/ RemoveOne("rmTmp", Tmp, "rmBak")
    \/ RemoveOne("rmBak", Bak, "rmCanonical")

\* mutant: the file goes although a recovery source is left
ResetCanonicalAnyway ==
    /\ pc = "rmCanonical"
    /\ \/ Cleared(Canonical) /\ Return(IF ok THEN "reset" ELSE "notReset")
       \/ ClearFails(Canonical) /\ Return("notReset")
    /\ UNCHANGED <<hadOriginal, kept>>

ResetCanonical ==
    /\ pc = "rmCanonical"
    /\ \/ ok /\ Cleared(Canonical) /\ Return("reset")
       \/ ok /\ ClearFails(Canonical) /\ Return("notReset")
       \/ ~ok /\ Untouched /\ Return("notReset")
    /\ UNCHANGED <<hadOriginal, kept>>

-----------------------------------------------------------------------------
\* Power fails and the device starts again.
PowerLoss ==
    /\ PowerFails
    /\ pc' = "idle" /\ opened' = FALSE
    /\ hadOriginal' = FALSE /\ ok' = TRUE
    /\ outcome' = "none"
    /\ UNCHANGED <<data, op, base, source, kept>>

Save ==
    \/ SaveBegin \/ SaveClean \/ SaveOpen \/ SaveWrite \/ SaveAbandon
    \/ SaveLook \/ SaveBackUp \/ SavePublish
    \/ SaveRestore \/ SaveDiscard \/ SaveTidy

Next == Load \/ Save \/ ResetBegin \/ ResetFallbacks \/ ResetCanonical \/ PowerLoss

Spec == Init /\ [][Next]_vars

-----------------------------------------------------------------------------
(* Properties.                                                             *)

\* Once statistics are in stats_v5.bin, and until they are reset, a load finds
\* whole ones in that file or in what it recovers from, whatever failed and
\* whenever power was lost: "can never leave stats_v5.bin truncated; load()
\* [...] would otherwise silently wipe the book's history"
\* (BookReadingStats.cpp:296).
StatsSurvive == kept => Opens \in {Canonical, Tmp, Bak} /\ Complete(Opens)

\* What remove() reports is what a load then reads: nothing is left to revive
\* after a success, and after a failure stats_v5.bin still says what it did.
\* About deletions that fail: a reset that power cuts off reports nothing.
ResetOutcome ==
    /\ outcome = "reset" => Stats = Fresh
    /\ outcome = "notReset" /\ source = Canonical => Stats = base

\* From the moment a save begins, whatever fails and whenever power is lost, a
\* load reads the statistics from before it or the ones it was given: "Saves
\* stats to cachePath/stats_v5.bin through recoverable .tmp/.bak files"
\* (BookReadingStats.h:28).  A temporary file that is still the newest copy
\* when the next save begins is the exception: that save deletes it first.
RecoverableSave == op = "save" /\ source # Tmp => Stats \in {base, data}
=============================================================================
