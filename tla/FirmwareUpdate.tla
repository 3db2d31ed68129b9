--------------------------- MODULE FirmwareUpdate ---------------------------
(***************************************************************************)
(* A firmware update, from the card or over the network, down to the boot  *)
(* slot (src/src/network/FirmwareFlasher.cpp, OtaBootSwitch.cpp and        *)
(* OtaUpdater.cpp).                                                        *)
(*                                                                         *)
(*  - The flash has two application partitions, 0 and 1, and two entries   *)
(*    that select one of them.  An entry that is blank, or whose checksum  *)
(*    does not match, is "none".                                           *)
(*  - The bootloader is external.  It confirms a new image or aborts it; a *)
(*    bootloader without rollback always confirms.  That it would try the  *)
(*    other partition when one holds no image is not counted on.           *)
(*  - ota_seq is a natural number: it does not wrap round.                 *)
(***************************************************************************)
EXTENDS Naturals

CONSTANTS
    Good,           \* images that validateOpenImageFile() accepts, untagged
                    \* ones included (src/src/network/FirmwareBoardTag.h:14)
    Bad,            \* other files: torn, corrupted, for another board
    Torn,           \* what an interrupted write leaves in a partition
    MaxInstalls,    \* bound: installations
    MaxFaults       \* bound: failures of flash or card, losses of power

ASSUME ImageAssumption == Good \cap Bad = {} /\ Torn \notin Good
ASSUME BoundAssumption == MaxInstalls \in Nat /\ MaxFaults \in Nat

VARIABLES
    parts,      \* what each application partition holds
    entries,    \* otadata: the two SelectEntry slots
    running,    \* the partition that runs
    step,       \* where the installation is
    file,       \* the file it installs
    result,     \* what it returned
    installs, faults

flash == <<parts, entries, running>>
counts == <<installs, faults>>
vars == <<flash, step, file, result, counts>>

Slots == {0, 1}
Partitions == {0, 1}
EntryStates == {"none", "New", "Valid", "Aborted"}
Steps == {"idle", "confirm", "validate", "erase", "write", "clear", "select", "over"}

NoEntry == [state |-> "none", seq |-> 0]

TypeOK ==
    /\ parts \in [Partitions -> Good \cup {Torn}]
    /\ entries \in [Slots -> [state : EntryStates, seq : Nat]]
    /\ running \in Partitions
    /\ step \in Steps
    /\ file \in Good \cup Bad
    /\ result \in {"none", "OK", "Failed"}
    /\ installs \in Nat /\ faults \in Nat

-----------------------------------------------------------------------------
(* The entries.                                                            *)

Usable(e) == e.state \in {"New", "Valid"}

NoSlot == 2
ActiveSlot(es) ==
    IF Usable(es[0]) /\ (Usable(es[1]) => es[0].seq >= es[1].seq) THEN 0
    ELSE IF Usable(es[1]) THEN 1 ELSE NoSlot

ActiveSeq(es) == IF ActiveSlot(es) = NoSlot THEN 0 ELSE es[ActiveSlot(es)].seq

\* The partition the bootloader starts; without an entry, the first.
Selected(es) ==
    IF ActiveSlot(es) = NoSlot THEN 0 ELSE (ActiveSeq(es) + 1) % 2

\* mutant: the entry in use is the one rewritten
TargetInUse(es) == IF ActiveSlot(es) = 0 THEN 0 ELSE 1

Target(es) == IF ActiveSlot(es) = 0 THEN 1 ELSE 0

\* mutant: the partition the number stands for is not looked at
NextSeqAlways(seq, dest) == seq + 1

\* The smallest number above seq that selects the partition dest.
NextSeq(seq, dest) == IF seq % 2 = dest THEN seq + 1 ELSE seq + 2

\* esp_ota_get_next_update_partition()
Dest == 1 - running

Init ==
    /\ parts \in [Partitions -> Good \cup {Torn}]
    /\ \/ entries = [s \in Slots |-> NoEntry]
       \/ entries = [s \in Slots |-> IF s = 0 THEN [state |-> "Valid", seq |-> 1]
                                              ELSE NoEntry]
    /\ running = Selected(entries) /\ parts[running] \in Good
    /\ step = "idle" /\ file \in Good /\ result = "none"
    /\ installs = 0 /\ faults = 0

-----------------------------------------------------------------------------
(* The installation.                                                       *)

To(next) == step' = next
End(r) == step' = "over" /\ result' = r
Fault == faults < MaxFaults /\ faults' = faults + 1

Begin ==
    /\ step \in {"idle", "over"} /\ result # "OK" /\ installs < MaxInstalls
    /\ installs' = installs + 1 /\ result' = "none"
    /\ UNCHANGED <<flash, faults>>

\* A file of the card is validated before the user is asked.
ChooseFile ==
    /\ Begin
    /\ file' \in Good /\ To("confirm")

\* The card may come back with another file of that name before he answers.
Confirm ==
    /\ step = "confirm"
    /\ file' \in Good \cup Bad /\ To("validate")
    /\ UNCHANGED <<flash, result, counts>>

Decline ==
    /\ step = "confirm" /\ To("idle")
    /\ UNCHANGED <<flash, file, result, counts>>

\* A download that fails or is cancelled is no installation.
Download ==
    /\ Begin
    /\ file' \in Good \cup Bad /\ To("validate")

\* The file, now open, is validated and not closed until it is written.
Validate ==
    /\ step = "validate"
    /\ \/ file \in Good /\ To("erase") /\ UNCHANGED <<result, faults>>
       \/ file \notin Good /\ End("Failed") /\ UNCHANGED faults
       \/ Fault /\ End("Failed")
    /\ UNCHANGED <<flash, file, installs>>

\* The destination is erased and written block after block.
Erase ==
    /\ step = "erase"
    /\ parts' = [parts EXCEPT ![Dest] = Torn]
    /\ \/ To("write") /\ UNCHANGED <<result, faults>>
       \/ Fault /\ End("Failed")
    /\ UNCHANGED <<entries, running, file, installs>>

\* mutant: what esp_partition_write() returns is not looked at
WriteUnchecked ==
    /\ step = "write" /\ To("clear")
    /\ \/ parts' = [parts EXCEPT ![Dest] = file] /\ UNCHANGED faults
       \/ Fault /\ UNCHANGED parts
    /\ UNCHANGED <<entries, running, file, result, installs>>

Write ==
    /\ step = "write"
    /\ \/ /\ parts' = [parts EXCEPT ![Dest] = file]
          /\ To("clear") /\ UNCHANGED <<result, faults>>
       \/ Fault /\ End("Failed") /\ UNCHANGED parts
    /\ UNCHANGED <<entries, running, file, installs>>

\* switchTo() erases the sector of the entry not in use, then writes it; one
\* that could not be erased or written is void, or as it was.
Clear ==
    /\ step = "clear"
    /\ \/ /\ entries' = [entries EXCEPT ![Target(entries)] = NoEntry]
          /\ \/ To("select") /\ UNCHANGED <<result, faults>>
             \/ Fault /\ End("Failed")
       \/ Fault /\ End("Failed") /\ UNCHANGED entries
    /\ UNCHANGED <<parts, running, file, installs>>

Select ==
    /\ step = "select"
    /\ \/ /\ entries' = [entries EXCEPT ![Target(entries)] =
                [state |-> "New", seq |-> NextSeq(ActiveSeq(entries), Dest)]]
          /\ End("OK") /\ UNCHANGED faults
       \/ Fault /\ End("Failed") /\ UNCHANGED entries
    /\ UNCHANGED <<parts, running, file, installs>>

-----------------------------------------------------------------------------
(* A start of the device: after an update, or when power is lost.          *)

Marked(es, state) == [es EXCEPT ![ActiveSlot(es)].state = state]
SelectsNew == ActiveSlot(entries) # NoSlot /\ entries[ActiveSlot(entries)].state = "New"

Boot ==
    /\ running' = Selected(entries)
    /\ entries' = IF SelectsNew THEN Marked(entries, "Valid") ELSE entries

\* A new image that crashes before it has come up.
Abort ==
    /\ SelectsNew
    /\ entries' = Marked(entries, "Aborted")
    /\ running' = Selected(entries')

Restart ==
    /\ \/ step = "over" /\ result = "OK" /\ UNCHANGED faults
       \/ ~(step = "idle" \/ (step = "over" /\ result = "OK")) /\ Fault
    /\ Boot \/ Abort
    /\ step' = "idle" /\ result' = "none"
    /\ UNCHANGED <<parts, file, installs>>

Rest == step \in {"idle", "over"} /\ installs = MaxInstalls /\ UNCHANGED vars

Next ==
    \/ ChooseFile \/ Confirm \/ Decline \/ Download \/ Validate
    \/ Erase \/ Write \/ Clear \/ Select
    \/ Restart
    \/ Rest

Spec == Init /\ [][Next]_vars

-----------------------------------------------------------------------------
(* Properties.                                                             *)

\* Whenever power is lost, the device starts a whole image that
\* validateOpenImageFile() accepts (which an image without a board tag may be
\* for another board too): also between the erasing of one sector and the
\* writing of another, and also when the new image has to be given up.
NeverBricked ==
    /\ parts[Selected(entries)] \in Good
    /\ SelectsNew => parts[Selected(Marked(entries, "Aborted"))] \in Good

\* An installation that returns OK has the device start what it installed,
\* any other leaves it what it runs (src/src/network/OtaBootSwitch.h:35).
ResultTellsBoot ==
    step = "over" =>
        /\ result = "OK" => Selected(entries) # running /\ parts[Selected(entries)] = file
        /\ result = "Failed" => Selected(entries) = running

\* The two partitions and the two entries behave as one image, replaced in a
\* single step by a good one, or given back.
Boots == INSTANCE BootImage WITH boots <- parts[Selected(entries)],
                                 runs <- parts[running]
ImplementsBootImage == Boots!Spec
=============================================================================
