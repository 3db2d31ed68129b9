-------------------------- MODULE RecentBooksStore --------------------------
(***************************************************************************)
(* The list of recent books (src/src/RecentBooksStore.cpp) and the writer  *)
(* and reader it keeps its file with (PersistableStore.cpp):               *)
(* recent.json is replaced through recent.json.tmp and recent.json.bak, so *)
(* that a loss of power between any two operations leaves one whole list.  *)
(*                                                                         *)
(* One task uses the store: a save holds storeMutex from the snapshot to   *)
(* the last file operation.  A list is an opaque document; an operation of *)
(* the store replaces it by another one, or finds nothing to change.       *)
(***************************************************************************)
EXTENDS SdCard

CONSTANTS
    Path,       \* recent.json
    Tmp,        \* recent.json.tmp
    Bak,        \* recent.json.bak
    Bin,        \* recent.bin, the list older firmware kept
    BinBak,     \* recent.bin.bak
    EmptyList,  \* no recent books; also what is listed when no file is read
    LegacyList, \* what recent.bin holds at first, or Absent
    Nothing     \* no list is being saved

ASSUME PathAssumption ==
    /\ Paths = {Path, Tmp, Bak, Bin, BinBak}
    /\ Path \notin {Tmp, Bak, Bin, BinBak}
    /\ Tmp \notin {Bak, Bin, BinBak}
    /\ Bak \notin {Bin, BinBak} /\ Bin # BinBak
ASSUME ListAssumption ==
    /\ EmptyList \in Docs
    /\ LegacyList \in Docs \cup {Absent}
    /\ Nothing \notin Docs

VARIABLES
    pc,         \* where the task is in the store
    op,         \* "update": a failed save is logged; "move": it is undone
    migrating,  \* the save is loadFromFile()'s, of the list in recent.bin
    loaded,     \* loadAttempted_
    books,      \* recentBooks
    original,   \* updatePath()'s copy of what it changed
    json,       \* the snapshot that is being written
    hadOriginal,
    outcome,    \* how the last save ended
    base,       \* history: what the card held when that save began
    agreed      \* history: the memory and the card agreed before the operation

store == <<op, loaded, books, original>>
writer == <<migrating, json, hadOriginal, outcome, base>>
vars == <<files, faults, pc, store, writer, agreed>>

\* What readDocFromFile() finds: the file, else its backup.
Source == IF Exists(Path) THEN files[Path] ELSE files[Bak]
List == IF Source \in Docs THEN Source ELSE EmptyList

SaveSteps == {"clean", "open", "write", "look", "backUp", "publish",
              "restore", "discard", "tidy"}

TypeOK ==
    /\ CardType
    /\ pc \in SaveSteps \cup {"idle", "load", "legacy", "retire", "edit"}
    /\ op \in {"update", "move"}
    /\ books \in Docs /\ original \in Docs /\ json \in Docs /\ base \in Docs
    /\ migrating \in BOOLEAN /\ loaded \in BOOLEAN /\ hadOriginal \in BOOLEAN
    /\ agreed \in BOOLEAN
    /\ outcome \in {"none", "ok", "failed"}

Init ==
    /\ files \in {[p \in Paths |-> IF p = Bin THEN LegacyList
                                   ELSE IF p = Path THEN c ELSE Absent] :
                      c \in Docs \cup {Absent}}
    /\ faults = 0
    /\ pc = "idle" /\ op = "update"
    /\ migrating = FALSE /\ loaded = FALSE /\ hadOriginal = FALSE
    /\ books = EmptyList /\ original = EmptyList
    /\ json = EmptyList /\ base = List
    /\ outcome = "none"
    /\ agreed = FALSE

-----------------------------------------------------------------------------
(* The operations of the store.                                            *)

\* addOrUpdateBook(), updateBook(), removeByPath() or updatePath() begins;
\* ensureLoaded() marks the load as attempted before it reads anything.
Start ==
    /\ pc = "idle"
    /\ op' \in {"update", "move"}
    /\ pc' = IF loaded THEN "edit" ELSE "load"
    /\ loaded' = TRUE
    /\ Untouched
    /\ UNCHANGED <<books, original, writer, agreed>>

\* loadFromFile() reads the file or, when there is none, its backup, which it
\* moves back in place if it can.  recent.bin is looked at only if there was
\* no recent.json at first.
Load ==
    /\ pc = "load"
    /\ IF Exists(Path) \/ ~Exists(Bak) THEN Untouched ELSE MayRename(Bak, Path)
    /\ IF Source \in Docs
       THEN books' = Source /\ pc' = "edit"
       ELSE books' = books /\ pc' = IF Exists(Path) THEN "edit" ELSE "legacy"
    /\ UNCHANGED <<op, loaded, original, writer, agreed>>

SnapshotOf(list) ==
    /\ json' = list
    /\ base' = List
    /\ outcome' = "none"
    /\ pc' = "clean"
    /\ UNCHANGED hadOriginal

\* mutant: recent.bin is renamed first
LoadLegacyRetiresFirst ==
    /\ pc = "legacy"
    /\ UNCHANGED <<op, loaded, original, agreed>>
    /\ IF files[Bin] \in Docs
       THEN /\ MayRename(Bin, BinBak)
            /\ books' = files[Bin] /\ migrating' = TRUE /\ SnapshotOf(files[Bin])
       ELSE pc' = "edit" /\ UNCHANGED <<books, writer>> /\ Untouched

\* The rest of loadFromFile(): the list is taken from recent.bin and saved.
LoadLegacy ==
    /\ pc = "legacy"
    /\ Untouched
    /\ UNCHANGED <<op, loaded, original, agreed>>
    /\ IF files[Bin] \in Docs
       THEN books' = files[Bin] /\ migrating' = TRUE /\ SnapshotOf(files[Bin])
       ELSE pc' = "edit" /\ UNCHANGED <<books, writer>>

\* recent.bin is put aside, whether or not its list was saved.
Retire ==
    /\ pc = "retire"
    /\ MayRename(Bin, BinBak)
    /\ migrating' = FALSE
    /\ pc' = "edit"
    /\ UNCHANGED <<store, json, hadOriginal, outcome, base, agreed>>

\* The list is changed and saved.
Edit ==
    /\ pc = "edit"
    /\ original' = books
    /\ agreed' = (books = List)
    /\ \E list \in Docs \ {books} : books' = list /\ SnapshotOf(list)
    /\ Untouched
    /\ UNCHANGED <<op, loaded, migrating>>

\* There is nothing to change, or no such book.
EditNothing ==
    /\ pc = "edit"
    /\ pc' = "idle"
    /\ agreed' = (books = List)
    /\ Untouched
    /\ UNCHANGED <<store, writer>>

-----------------------------------------------------------------------------
(* writeDocToFileAtomically().                                             *)

\* mutant: updatePath() keeps its change when the save fails
ReturnKeepsMove(ok) ==
    /\ outcome' = IF ok THEN "ok" ELSE "failed"
    /\ books' = books
    /\ pc' = IF migrating THEN "retire" ELSE "idle"
    /\ UNCHANGED <<op, loaded, original, migrating, json, base>>

\* The save returns to its caller; updatePath() undoes its change.
Return(ok) ==
    /\ outcome' = IF ok THEN "ok" ELSE "failed"
    /\ books' = IF ~ok /\ op = "move" /\ ~migrating THEN original ELSE books
    /\ pc' = IF migrating THEN "retire" ELSE "idle"
    /\ UNCHANGED <<op, loaded, original, migrating, json, base>>

Goto(step) == pc' = step /\ UNCHANGED <<store, migrating, json, outcome, base>>

SaveClean ==
    /\ pc = "clean"
    /\ \/ Cleared(Tmp) /\ Goto("open")
       \/ ClearFails(Tmp) /\ Return(FALSE)
    /\ UNCHANGED <<hadOriginal, agreed>>

SaveOpen ==
    /\ pc = "open"
    /\ \/ Opened(Tmp) /\ Goto("write")
       \/ Fails /\ Return(FALSE)
    /\ UNCHANGED <<hadOriginal, agreed>>

SaveWrite ==
    /\ pc = "write"
    /\ \/ Written(Tmp, json) /\ Goto("look")
       \/ Fails /\ Return(FALSE)
    /\ UNCHANGED <<hadOriginal, agreed>>

SaveLook ==
    /\ pc = "look"
    /\ hadOriginal' = Exists(Path)
    /\ \/ ~Exists(Path) /\ Untouched /\ Goto("publish")
       \/ Exists(Path) /\ Cleared(Bak) /\ Goto("backUp")
       \/ Exists(Path) /\ ClearFails(Bak) /\ Goto("discard")
    /\ UNCHANGED agreed

\* mutant: the original is removed, as a rename would not replace it
SaveBackUpRemoves ==
    /\ pc = "backUp"
    /\ Removed(Path) /\ Goto("publish")
    /\ UNCHANGED <<hadOriginal, agreed>>

SaveBackUp ==
    /\ pc = "backUp"
    /\ \/ Renamed(Path, Bak) /\ Goto("publish")
       \/ RenameFails(Path, Bak) /\ Goto("discard")
    /\ UNCHANGED <<hadOriginal, agreed>>

\* mutant: the result of the rename is not looked at
SavePublishUnchecked ==
    /\ pc = "publish"
    /\ MayRename(Tmp, Path) /\ Goto("tidy")
    /\ UNCHANGED <<hadOriginal, agreed>>

SavePublish ==
    /\ pc = "publish"
    /\ \/ Renamed(Tmp, Path) /\ Goto("tidy")
       \/ RenameFails(Tmp, Path) /\ Goto(IF hadOriginal THEN "restore" ELSE "discard")
    /\ UNCHANGED <<hadOriginal, agreed>>

SaveRestore ==
    /\ pc = "restore"
    /\ MayRename(Bak, Path) /\ Goto("discard")
    /\ UNCHANGED <<hadOriginal, agreed>>

SaveDiscard ==
    /\ pc = "discard"
    /\ MayRemove(Tmp) /\ Return(FALSE)
    /\ UNCHANGED <<hadOriginal, agreed>>

\* The list is saved whether or not its backup goes.
SaveTidy ==
    /\ pc = "tidy"
    /\ IF hadOriginal THEN MayRemove(Bak) ELSE Untouched
    /\ Return(TRUE)
    /\ UNCHANGED <<hadOriginal, agreed>>

-----------------------------------------------------------------------------
\* Power fails and the device starts again: only the card is left.
PowerLoss ==
    /\ PowerFails
    /\ pc' = "idle" /\ op' = "update"
    /\ migrating' = FALSE /\ loaded' = FALSE /\ hadOriginal' = FALSE
    /\ books' = EmptyList /\ original' = EmptyList /\ json' = EmptyList
    /\ outcome' = "none"
    /\ agreed' = FALSE
    /\ UNCHANGED base

Operation == Start \/ Load \/ LoadLegacy \/ Retire \/ Edit \/ EditNothing

Save ==
    \/ SaveClean \/ SaveOpen \/ SaveWrite
    \/ SaveLook \/ SaveBackUp \/ SavePublish
    \/ SaveRestore \/ SaveDiscard \/ SaveTidy

Next == Operation \/ Save \/ PowerLoss

Spec == Init /\ [][Next]_vars

-----------------------------------------------------------------------------
(* Properties.                                                             *)

Document == INSTANCE DurableDocument WITH
                doc <- List,
                incoming <- IF pc \in SaveSteps THEN json ELSE Nothing

\* A reader of the card finds the list from before a save or the one that is
\* being saved, whatever fails and whenever power is lost, and
\* writeDocToFileAtomically() returns true exactly when it is the latter.
Durable == Document!Spec

\* Between operations, unless the last save failed, the list in memory is the
\* one a reboot would read.
MemoryMatchesCard ==
    pc = "idle" /\ loaded /\ outcome # "failed" => books = List

\* updatePath() is all or nothing: when it returns, the memory and the card
\* agree if they agreed before, also when its save failed.
MoveKeepsAgreement ==
    pc = "idle" /\ loaded /\ op = "move" /\ agreed => books = List

\* recent.bin is put aside only once its list is in recent.json, as
\* src/docs/data-cache.md:25 says: "Legacy binary recent-books file after
\* migration".
RetiredIsMigrated ==
    Exists(BinBak) => Exists(Path) \/ Exists(Bak)
=============================================================================
