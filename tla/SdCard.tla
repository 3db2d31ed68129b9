------------------------------- MODULE SdCard -------------------------------
(***************************************************************************)
(* The files of the SD card, as the code uses them through Storage         *)
(* (src/lib/hal/HalStorage.cpp).  The card library is not in src/: these   *)
(* operators say what the callers and their tests rely on.                 *)
(*                                                                         *)
(*  - A path holds a whole document, a document cut short (Torn, an empty  *)
(*    file included) or nothing (Absent).                                  *)
(*  - A write starts by truncating its file; power may fail before it ends.*)
(*  - remove() and rename() are atomic.  rename() refuses to replace a     *)
(*    file, as the stub of src/test/persistable_store_atomic does.         *)
(*  - Each of them may fail and leave the card as it was.  A failure and a *)
(*    loss of power each cost one fault.                                   *)
(*  - exists() and reads are reliable.                                     *)
(***************************************************************************)
EXTENDS Naturals

CONSTANTS
    Paths,      \* the paths one component uses
    Docs,       \* what a whole file may say
    Absent,     \* no such file
    Torn,       \* a file that was not written to its end
    MaxFaults,  \* bound: failures and power losses
    CardFails   \* whether an operation may fail while the power is on

ASSUME DocAssumption == Absent \notin Docs /\ Torn \notin Docs /\ Absent # Torn
ASSUME FaultAssumption == MaxFaults \in Nat /\ CardFails \in BOOLEAN

VARIABLES
    files,      \* what each path holds
    faults      \* faults so far

Contents == Docs \cup {Absent, Torn}

CardType == files \in [Paths -> Contents] /\ faults \in Nat

Exists(path) == files[path] # Absent

Fault == faults < MaxFaults /\ faults' = faults + 1

Unharmed == UNCHANGED faults

\* An operation reports failure and the card is as it was.
Fails == CardFails /\ Fault /\ UNCHANGED files

PowerFails == Fault /\ UNCHANGED files

Untouched == UNCHANGED <<files, faults>>

Removed(path) == files' = [files EXCEPT ![path] = Absent] /\ Unharmed

\* "exists(path) && !remove(path)", false when the file is gone or was not there.
Cleared(path) == IF Exists(path) THEN Removed(path) ELSE Untouched
ClearFails(path) == Exists(path) /\ Fails

\* remove(path) whose result nobody reads.
MayRemove(path) == Cleared(path) \/ ClearFails(path)

Movable(from, to) == Exists(from) /\ ~Exists(to)

Renamed(from, to) ==
    /\ Movable(from, to)
    /\ files' = [files EXCEPT ![to] = files[from], ![from] = Absent]
    /\ Unharmed

RenameFails(from, to) == IF Movable(from, to) THEN Fails ELSE Untouched

\* rename(from, to) whose result nobody reads.
MayRename(from, to) == Renamed(from, to) \/ RenameFails(from, to)

Opened(path) == files' = [files EXCEPT ![path] = Torn] /\ Unharmed

Written(path, doc) == files' = [files EXCEPT ![path] = doc] /\ Unharmed
=============================================================================
