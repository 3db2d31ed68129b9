------------------------- MODULE GlobalReadingStats -------------------------
(***************************************************************************)
(* The reading statistics of all books                                     *)
(* (src/src/activities/reader/GlobalReadingStats.cpp): global_stats.bin,   *)
(* the backup that each save rotates and that stays, the reset, and the    *)
(* refusal to write over statistics of a newer firmware.                   *)
(*                                                                         *)
(* Unlike a book's statistics, a load moves nothing back in place and never*)
(* reads the temporary file.                                               *)
(***************************************************************************)
EXTENDS SdCard

CONSTANTS
    Main,       \* global_stats.bin
    Bak,        \* global_stats.bin.bak
    Tmp,        \* global_stats.bin.tmp
    Fresh,      \* default-constructed statistics
    Newer       \* a file of a newer format

ASSUME PathAssumption ==
    /\ Paths = {Main, Bak, Tmp}
    /\ Main \notin {Bak, Tmp} /\ Bak # Tmp
ASSUME StatsAssumption ==
    Fresh \in Docs /\ Newer \in Docs /\ Fresh # Newer

VARIABLES
    pc,         \* where the task is in saveToFile()
    opened,     \* the statistics were loaded since the device started
    blocked,    \* s_blockDestructiveSave
    rotates,    \* backupPath is given: save(), not resetLocal()
    data,       \* the statistics that are written
    base,       \* history: what a load would have read when that began
    present,    \* history: from global_stats.bin itself
    outcome,    \* history: how it ended
    wasReset    \* history: the statistics were reset

history == <<base, present, outcome, wasReset>>
vars == <<files, faults, pc, opened, blocked, rotates, data, history>>

Readable == Docs \ {Newer}

\* What load() returns, Newer standing for the fresh statistics it returns
\* while it refuses to save any.
Stats ==
    IF files[Main] \in Docs THEN files[Main]
    ELSE IF files[Bak] \in Docs THEN files[Bak]
    ELSE Fresh

WriteSteps == {"clean", "open", "write", "dropBackup", "rotate", "dropMain",
               "publish", "restore", "discard"}

TypeOK ==
    /\ CardType
    /\ pc \in WriteSteps \cup {"idle"}
    /\ opened \in BOOLEAN /\ blocked \in BOOLEAN /\ rotates \in BOOLEAN
    /\ data \in Readable /\ base \in Docs /\ present \in BOOLEAN
    /\ outcome \in {"none", "ok", "failed"} /\ wasReset \in BOOLEAN

\* Both files may be missing or corrupt, or of any version.
Init ==
    /\ files \in [Paths -> Contents]
    /\ ~Exists(Tmp)
    /\ faults = 0
    /\ pc = "idle" /\ opened = FALSE /\ blocked = FALSE /\ rotates = FALSE
    /\ data = Fresh
    /\ base = Stats /\ present = FALSE /\ outcome = "none" /\ wasReset = FALSE

\* mutant: a newer format is refused only in the main file
LoadMainOnly ==
    /\ pc = "idle"
    /\ opened' = TRUE
    /\ blocked' = (blocked \/ files[Main] = Newer)
    /\ Untouched
    /\ UNCHANGED <<pc, rotates, data, history>>

\* load(): the first of the two files that is whole decides, and one of a
\* newer format blocks every save() until the device restarts.
Load ==
    /\ pc = "idle"
    /\ opened' = TRUE
    /\ blocked' = (blocked \/ Stats = Newer)
    /\ Untouched
    /\ UNCHANGED <<pc, rotates, data, history>>

Begin(stats, backup) ==
    /\ pc = "idle"
    /\ data' = stats /\ rotates' = backup
    /\ pc' = "clean"
    /\ base' = Stats /\ present' = (files[Main] \in Docs) /\ outcome' = "none"
    /\ Untouched
    /\ UNCHANGED <<opened, blocked>>

\* save(): whoever saves has loaded the statistics first.
Save ==
    /\ opened /\ ~blocked
    /\ \E stats \in Readable : Begin(stats, TRUE)
    /\ UNCHANGED wasReset

ResetLocal == Begin(Fresh, FALSE) /\ wasReset' = TRUE

-----------------------------------------------------------------------------
(* saveToFile().                                                           *)

Goto(step) ==
    /\ pc' = step
    /\ UNCHANGED <<opened, blocked, rotates, data, history>>

Return(result) ==
    /\ pc' = "idle" /\ outcome' = result
    /\ UNCHANGED <<opened, blocked, rotates, data, base, present, wasReset>>

WriteClean ==
    /\ pc = "clean"
    /\ \/ Cleared(Tmp) /\ Goto("open")
       \/ ClearFails(Tmp) /\ Return("failed")

WriteOpen ==
    /\ pc = "open"
    /\ \/ Opened(Tmp) /\ Goto("write")
       \/ Fails /\ Return("failed")

\* write(), sync(), close() and verifyFileSize(): each is checked.
WriteData ==
    /\ pc = "write"
    /\ \/ Written(Tmp, data) /\ Goto(IF rotates THEN "dropBackup" ELSE "dropMain")
       \/ Fails /\ Goto("discard")

WriteDropBackup ==
    /\ pc = "dropBackup"
    /\ \/ Cleared(Bak) /\ Goto("rotate")
       \/ ClearFails(Bak) /\ Goto("discard")

\* mutant: the main file is removed instead of rotated
WriteRotateRemoves ==
    /\ pc = "rotate"
    /\ \/ Cleared(Main) /\ Goto("publish")
       \/ ClearFails(Main) /\ Goto("discard")

WriteRotate ==
    /\ pc = "rotate"
    /\ \/ Renamed(Main, Bak) /\ Goto("publish")
       \/ ~Exists(Main) /\ Untouched /\ Goto("publish")
       \/ Exists(Main) /\ RenameFails(Main, Bak) /\ Goto("discard")

WriteDropMain ==
    /\ pc = "dropMain"
    /\ \/ Cleared(Main) /\ Goto("publish")
       \/ ClearFails(Main) /\ Goto("discard")

\* mutant: the result of the rename is not looked at
WritePublishUnchecked ==
    /\ pc = "publish"
    /\ MayRename(Tmp, Main) /\ Return("ok")

WritePublish ==
    /\ pc = "publish"
    /\ \/ Renamed(Tmp, Main) /\ Return("ok")
       \/ RenameFails(Tmp, Main) /\ Goto("restore")

WriteRestore ==
    /\ pc = "restore"
    /\ IF rotates /\ Movable(Bak, Main) THEN MayRename(Bak, Main) ELSE Untouched
    /\ Goto("discard")

WriteDiscard ==
    /\ pc = "discard"
    /\ MayRemove(Tmp) /\ Return("failed")

-----------------------------------------------------------------------------
\* Power fails and the device starts again.
PowerLoss ==
    /\ PowerFails
    /\ pc' = "idle" /\ opened' = FALSE /\ blocked' = FALSE
    /\ outcome' = "none"
    /\ UNCHANGED <<rotates, data, base, present, wasReset>>

Write ==
    \/ WriteClean \/ WriteOpen \/ WriteData
    \/ WriteDropBackup \/ WriteRotate \/ WriteDropMain
    \/ WritePublish \/ WriteRestore \/ WriteDiscard

Next == Load \/ Save \/ ResetLocal \/ Write \/ PowerLoss

Spec == Init /\ [][Next]_vars

-----------------------------------------------------------------------------
(* Properties.                                                             *)

\* What saveToFile() reports is what a load then reads: the new statistics
\* after a success; the ones from before after a save() that failed, if they
\* were in global_stats.bin.
ReportsTruth ==
    /\ outcome = "ok" => Stats = data
    /\ outcome = "failed" /\ rotates /\ present => Stats = base

\* Until the user resets the statistics, nothing touches what a newer firmware
\* left in whichever file a load reads, however saves, failures and restarts
\* follow each other: "refusing to overwrite" (GlobalReadingStats.cpp:285).
NewerIsKept == [][~wasReset /\ Stats = Newer => Stats' = Newer]_vars

\* A save over a whole global_stats.bin can be interrupted anywhere, and any of
\* its operations may fail: a load reads the statistics from before it or the
\* ones it was given.
RecoverableSave == rotates /\ present => Stats \in {base, data}
=============================================================================
