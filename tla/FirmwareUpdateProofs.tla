------------------------ MODULE FirmwareUpdateProofs ------------------------
(***************************************************************************)
(* Proofs about the firmware update: for any images, numbers and faults    *)
(* the device always has a good image to start, and the two partitions and *)
(* their entries implement one image replaced in a single step.            *)
(***************************************************************************)
EXTENDS FirmwareUpdate, TLAPS

Entries == [Slots -> [state : EntryStates, seq : Nat]]

-----------------------------------------------------------------------------
(* What switchTo() does to the entries.                                    *)

\* The entry rewritten is never the one in use.
LEMMA TargetIsFree ==
    ASSUME NEW es \in Entries
    PROVE  /\ ActiveSlot(es) \in {0, 1, NoSlot}
           /\ Target(es) \in Slots /\ Target(es) # ActiveSlot(es)
           /\ ActiveSlot(es) # NoSlot => Usable(es[ActiveSlot(es)])
           /\ ActiveSeq(es) \in Nat
  BY DEF Entries, Slots, ActiveSlot, ActiveSeq, Target, NoSlot, EntryStates, Usable

\* Erasing it, or leaving it unusable, changes nothing the bootloader does.
LEMMA UnusableTarget ==
    ASSUME NEW es \in Entries, NEW fs \in Entries,
           \A s \in Slots : s # Target(es) => fs[s] = es[s],
           ~Usable(fs[Target(es)])
    PROVE  ActiveSlot(fs) = ActiveSlot(es) /\ ActiveSeq(fs) = ActiveSeq(es)
<1>1. CASE ActiveSlot(es) = 0
  BY <1>1 DEF Entries, Slots, ActiveSlot, ActiveSeq, Target, NoSlot, Usable
<1>2. CASE ActiveSlot(es) = 1
  BY <1>2 DEF Entries, Slots, ActiveSlot, ActiveSeq, Target, NoSlot, Usable
<1>3. CASE ActiveSlot(es) = NoSlot
  BY <1>3 DEF Entries, Slots, ActiveSlot, ActiveSeq, Target, NoSlot, Usable
<1>4. QED
  BY <1>1, <1>2, <1>3 DEF ActiveSlot

\* The next number is higher and stands for the partition asked for.
LEMMA NextSeqSelects ==
    ASSUME NEW seq \in Nat, NEW dest \in Partitions
    PROVE  /\ NextSeq(seq, dest) \in Nat /\ NextSeq(seq, dest) > seq
           /\ (NextSeq(seq, dest) + 1) % 2 = dest
  BY DEF NextSeq, Partitions

\* The entry written is the one in use from then on, and without it the device
\* would start what it started before.
LEMMA WrittenEntry ==
    ASSUME NEW es \in Entries, NEW fs \in Entries, NEW dest \in Partitions,
           fs = [es EXCEPT ![Target(es)] =
                    [state |-> "New", seq |-> NextSeq(ActiveSeq(es), dest)]]
    PROVE  /\ ActiveSlot(fs) = Target(es) /\ Selected(fs) = dest
           /\ Selected(Marked(fs, "Aborted")) = Selected(es)
<1> DEFINE t == Target(es)
           n == NextSeq(ActiveSeq(es), dest)
           gs == Marked(fs, "Aborted")
<1>1. t \in Slots /\ t # ActiveSlot(es) /\ ActiveSeq(es) \in Nat
  BY TargetIsFree
<1>2. n \in Nat /\ n > ActiveSeq(es) /\ (n + 1) % 2 = dest
  BY <1>1, NextSeqSelects
<1>3. /\ fs[t] = [state |-> "New", seq |-> n]
      /\ \A s \in Slots : s # t => fs[s] = es[s]
  BY <1>1 DEF Entries
<1>4. ActiveSlot(fs) = t
  <2>1. \A s \in Slots : s # t /\ Usable(es[s]) => s = ActiveSlot(es)
    BY DEF ActiveSlot, Target, Slots, Entries
  <2>2. \A s \in Slots : s # t /\ Usable(fs[s]) => fs[s].seq < n
    BY <1>2, <1>3, <2>1 DEF ActiveSeq, NoSlot, Slots, Entries
  <2>3. Usable(fs[t]) /\ fs[t].seq = n
    BY <1>3 DEF Usable
  <2>4. CASE t = 0
    BY <2>2, <2>3, <2>4, <1>2 DEF ActiveSlot, Slots, Entries
  <2>5. CASE t = 1
    BY <2>2, <2>3, <2>5, <1>2 DEF ActiveSlot, Slots, Entries
  <2>6. QED
    BY <1>1, <2>4, <2>5 DEF Slots
<1>5. Selected(fs) = dest
  BY <1>1, <1>2, <1>3, <1>4 DEF Selected, ActiveSeq, NoSlot, Slots
<1>6. /\ gs \in Entries /\ ~Usable(gs[t])
      /\ \A s \in Slots : s # t => gs[s] = es[s]
  BY <1>1, <1>3, <1>4 DEF Marked, Entries, Usable, EntryStates
<1>7. Selected(gs) = Selected(es)
  BY <1>6, UnusableTarget DEF Selected
<1>8. QED
  BY <1>4, <1>5, <1>7

\* A new image that is confirmed stays the one selected.
LEMMA ConfirmedEntry ==
    ASSUME NEW es \in Entries, ActiveSlot(es) # NoSlot
    PROVE  /\ Marked(es, "Valid") \in Entries
           /\ ActiveSlot(Marked(es, "Valid")) = ActiveSlot(es)
           /\ Selected(Marked(es, "Valid")) = Selected(es)
<1> DEFINE a == ActiveSlot(es)
           fs == Marked(es, "Valid")
<1>1. a \in Slots /\ Usable(es[a])
  BY TargetIsFree DEF Slots
<1>2. /\ fs \in Entries /\ Usable(fs[a]) /\ fs[a].seq = es[a].seq
      /\ \A s \in Slots : s # a => fs[s] = es[s]
  BY <1>1 DEF Marked, Entries, EntryStates, Usable
<1>3. \A s \in Slots : (Usable(fs[s]) <=> Usable(es[s])) /\ fs[s].seq = es[s].seq
  BY <1>1, <1>2
<1>4. ActiveSlot(fs) = a
  BY <1>3 DEF ActiveSlot, Slots
<1>5. QED
  BY <1>1, <1>2, <1>3, <1>4 DEF Selected, ActiveSeq

-----------------------------------------------------------------------------
(* The inductive invariant.                                                *)

\* An installation that returned OK and was not followed by a start yet.
Committed == step = "over" /\ result = "OK"

EntryInv ==
    /\ ~Committed => Selected(entries) = running
    /\ \A s \in Slots :
          entries[s].state = "New" => Committed /\ s = ActiveSlot(entries)
    /\ Committed =>
          /\ SelectsNew /\ Selected(entries) = Dest
          /\ Selected(Marked(entries, "Aborted")) = running
    /\ result = "OK" => step = "over"

ImageInv ==
    /\ parts[running] \in Good
    /\ step \in {"erase", "write", "clear", "select"} => file \in Good
    /\ step \in {"clear", "select"} \/ Committed =>
          file \in Good /\ parts[Dest] = file

IInv == TypeOK /\ EntryInv /\ ImageInv

USE ImageAssumption, BoundAssumption DEF ImageAssumption, BoundAssumption

LEMMA InitIInv == Init => IInv
<1> SUFFICES ASSUME Init PROVE IInv
  OBVIOUS
<1>1. TypeOK
  BY DEF Init, TypeOK, Selected, ActiveSlot, ActiveSeq, Usable, NoSlot, NoEntry, Slots,
     EntryStates, Steps, Partitions
<1>2. \A s \in Slots : entries[s].state # "New"
  BY DEF Init, NoEntry, Slots
<1>3. QED
  BY <1>1, <1>2 DEF Init, IInv, EntryInv, ImageInv, Committed

\* A step that touches no flash and ends in no result but a failure.
LEMMA QuietStep ==
    ASSUME IInv, UNCHANGED flash, ~Committed, TypeOK', ~Committed',
           result' = "OK" => step' = "over",
           step' \in {"erase", "write", "clear", "select"} => file' \in Good,
           step' \in {"clear", "select"} => parts[Dest] = file'
    PROVE  IInv'
<1>1. EntryInv'
  BY DEF IInv, EntryInv, flash
<1>2. ImageInv'
  BY DEF IInv, ImageInv, flash, Dest
<1>3. QED
  BY <1>1, <1>2 DEF IInv

LEMMA StepIInv == IInv /\ [Next]_vars => IInv'
<1> SUFFICES ASSUME IInv, [Next]_vars PROVE IInv'
  OBVIOUS
<1> USE DEF flash, counts, To, End, Fault, Steps, Committed
<1>0. TypeOK /\ EntryInv /\ ImageInv /\ entries \in Entries
  BY DEF IInv, TypeOK, Entries
<1>1. CASE ChooseFile
  BY <1>0, <1>1, QuietStep DEF ChooseFile, Begin, TypeOK, EntryInv
<1>2. CASE Confirm
  BY <1>0, <1>2, QuietStep DEF Confirm, TypeOK, EntryInv
<1>3. CASE Decline
  BY <1>0, <1>3, QuietStep DEF Decline, TypeOK, EntryInv
<1>4. CASE Download
  BY <1>0, <1>4, QuietStep DEF Download, Begin, TypeOK, EntryInv
<1>5. CASE Validate
  BY <1>0, <1>5, QuietStep DEF Validate, TypeOK, EntryInv
<1>6. CASE Erase
  <2>1. TypeOK'
    BY <1>0, <1>6 DEF Erase, TypeOK, Dest, Partitions
  <2>2. EntryInv'
    BY <1>0, <1>6 DEF Erase, EntryInv, SelectsNew
  <2>3. parts'[running] = parts[running]
    BY <1>0, <1>6 DEF Erase, TypeOK, Dest, Partitions
  <2>4. ImageInv'
    BY <1>0, <1>6, <2>3 DEF Erase, ImageInv, EntryInv
  <2>5. QED
    BY <2>1, <2>2, <2>4 DEF IInv
<1>7. CASE Write
  <2>1. TypeOK'
    BY <1>0, <1>7 DEF Write, TypeOK, ImageInv, Dest, Partitions
  <2>2. EntryInv'
    BY <1>0, <1>7 DEF Write, EntryInv, SelectsNew
  <2>3. parts'[running] = parts[running] /\ (step' = "clear" => parts'[Dest] = file)
    BY <1>0, <1>7 DEF Write, TypeOK, Dest, Partitions
  <2>4. ImageInv'
    BY <1>0, <1>7, <2>3 DEF Write, ImageInv, EntryInv, Dest
  <2>5. QED
    BY <2>1, <2>2, <2>4 DEF IInv
<1>8. CASE Clear
  <2>0. \/ entries' = entries
        \/ entries' = [entries EXCEPT ![Target(entries)] = NoEntry]
    BY <1>8 DEF Clear
  <2>a. Target(entries) \in Slots
    BY <1>0, TargetIsFree
  <2>b. entries' \in Entries
    BY <1>0, <2>0, <2>a DEF Entries, NoEntry, EntryStates
  <2>1. TypeOK'
    BY <1>0, <1>8, <2>b DEF Clear, TypeOK, Entries
  <2>2. /\ Selected(entries') = Selected(entries)
        /\ \A s \in Slots : entries'[s].state = "New" => entries[s].state = "New"
    <3>1. CASE entries' = entries
      BY <3>1
    <3>2. CASE entries' = [entries EXCEPT ![Target(entries)] = NoEntry]
      <4>1. /\ \A s \in Slots : s # Target(entries) => entries'[s] = entries[s]
            /\ entries'[Target(entries)] = NoEntry
        BY <1>0, <2>a, <3>2 DEF Entries
      <4>2. ~Usable(entries'[Target(entries)])
        BY <4>1 DEF Usable, NoEntry
      <4>3. ActiveSlot(entries') = ActiveSlot(entries) /\ ActiveSeq(entries') = ActiveSeq(entries)
        BY <1>0, <2>b, <4>1, <4>2, UnusableTarget
      <4>4. QED
        BY <4>1, <4>3 DEF Selected, NoEntry
    <3>3. QED
      BY <2>0, <3>1, <3>2
  <2>3. EntryInv'
    BY <1>0, <1>8, <2>2 DEF Clear, EntryInv
  <2>4. ImageInv'
    BY <1>0, <1>8 DEF Clear, ImageInv, EntryInv, Dest
  <2>5. QED
    BY <2>1, <2>3, <2>4 DEF IInv
<1>9. CASE Select
  <2>1. CASE result' = "OK"
    <3>1. entries' = [entries EXCEPT ![Target(entries)] =
                [state |-> "New", seq |-> NextSeq(ActiveSeq(entries), Dest)]]
      BY <1>9, <2>1 DEF Select
    <3>2. Target(entries) \in Slots /\ ActiveSeq(entries) \in Nat /\ Dest \in Partitions
      BY <1>0, TargetIsFree DEF Dest, TypeOK, Partitions
    <3>3. entries' \in Entries
      BY <1>0, <3>1, <3>2, NextSeqSelects DEF Entries, EntryStates
    <3>4. /\ ActiveSlot(entries') = Target(entries) /\ Selected(entries') = Dest
          /\ Selected(Marked(entries', "Aborted")) = Selected(entries)
      BY <1>0, <3>1, <3>2, <3>3, WrittenEntry
    <3>5. /\ \A s \in Slots : s # Target(entries) => entries'[s] = entries[s]
          /\ entries'[Target(entries)].state = "New"
      BY <1>0, <3>1, <3>2 DEF Entries
    <3>6. TypeOK'
      BY <1>0, <1>9, <3>3 DEF Select, TypeOK, Entries
    <3>7. SelectsNew'
      BY <3>2, <3>4, <3>5 DEF SelectsNew, NoSlot, Slots
    <3>8. Selected(entries) = running /\ \A s \in Slots : entries[s].state # "New"
      BY <1>0, <1>9 DEF Select, EntryInv
    <3>9. EntryInv'
      BY <1>9, <2>1, <3>4, <3>5, <3>7, <3>8 DEF Select, EntryInv, Dest
    <3>10. ImageInv'
      BY <1>0, <1>9, <2>1 DEF Select, ImageInv, Dest
    <3>11. QED
      BY <3>6, <3>9, <3>10 DEF IInv
  <2>2. CASE result' # "OK"
    BY <1>0, <1>9, <2>2, QuietStep DEF Select, TypeOK, EntryInv
  <2>3. QED
    BY <2>1, <2>2
<1>10. CASE Restart
  <2>0. step' = "idle" /\ result' = "none" /\ UNCHANGED <<parts, file, installs>>
        /\ faults' \in Nat
    BY <1>0, <1>10 DEF Restart, TypeOK
  <2>1. CASE ~Committed
    <3>1. \A s \in Slots : entries[s].state # "New"
      BY <1>0, <2>1 DEF EntryInv
    <3>2. ActiveSlot(entries) \in {0, 1, NoSlot}
      BY <1>0, TargetIsFree
    <3>3. ~SelectsNew
      BY <3>1, <3>2 DEF SelectsNew, Slots
    <3>4. entries' = entries /\ running' = running
      BY <1>0, <1>10, <2>1, <3>3 DEF Restart, Boot, Abort, EntryInv
    <3>5. TypeOK'
      BY <1>0, <2>0, <3>4 DEF TypeOK
    <3>6. QED
      BY <1>0, <2>0, <2>1, <3>4, <3>5, QuietStep
  <2>2. CASE Committed /\ Boot
    <3>1. /\ SelectsNew /\ Selected(entries) = Dest
          /\ entries' = Marked(entries, "Valid") /\ running' = Dest
      BY <1>0, <2>2 DEF Boot, EntryInv
    <3>2. ActiveSlot(entries) \in Slots
      BY <1>0, <3>1, TargetIsFree DEF SelectsNew, Slots
    <3>3. entries' \in Entries /\ Selected(entries') = Dest
      BY <1>0, <3>1, ConfirmedEntry DEF SelectsNew
    <3>4. \A s \in Slots : entries'[s].state # "New"
      BY <1>0, <2>2, <3>1, <3>2 DEF EntryInv, Marked, Entries
    <3>5. TypeOK'
      BY <1>0, <2>0, <3>1, <3>3 DEF TypeOK, Entries, Dest, Partitions
    <3>6. QED
      BY <1>0, <2>0, <2>2, <3>1, <3>3, <3>4, <3>5 DEF IInv, EntryInv, ImageInv
  <2>3. CASE Committed /\ Abort
    <3>1. entries' = Marked(entries, "Aborted") /\ running' = running /\ Selected(entries') = running
      BY <1>0, <2>3 DEF Abort, EntryInv
    <3>2. ActiveSlot(entries) \in Slots
      BY <1>0, <2>3, TargetIsFree DEF Abort, SelectsNew, Slots
    <3>3. entries' \in Entries /\ \A s \in Slots : entries'[s].state # "New"
      BY <1>0, <3>1, <3>2 DEF EntryInv, Marked, Entries, EntryStates
    <3>4. TypeOK'
      BY <1>0, <2>0, <3>1, <3>3 DEF TypeOK, Entries
    <3>5. QED
      BY <1>0, <2>0, <2>3, <3>1, <3>3, <3>4 DEF IInv, EntryInv, ImageInv
  <2>4. QED
    BY <1>10, <2>1, <2>2, <2>3 DEF Restart
<1>11. CASE Rest \/ UNCHANGED vars
  BY <1>0, <1>11 DEF Rest, vars, IInv, TypeOK, EntryInv, ImageInv, SelectsNew, Dest
<1>12. QED
  BY <1>1, <1>2, <1>3, <1>4, <1>5, <1>6, <1>7, <1>8, <1>9, <1>10, <1>11 DEF Next

THEOREM Invariance == Spec => []IInv
  BY InitIInv, StepIInv, PTL DEF Spec

-----------------------------------------------------------------------------
(* What follows from it.                                                   *)

\* Every variable keeps its type; only validated images are written.
THEOREM TypeCorrect == Spec => []TypeOK
<1>1. IInv => TypeOK
  BY DEF IInv
<1>2. QED
  BY Invariance, <1>1, PTL

\* The device has a whole image of its own to start, whenever power is lost.
THEOREM TheDeviceStarts == Spec => []NeverBricked
<1>1. IInv => NeverBricked
  <2> SUFFICES ASSUME IInv PROVE NeverBricked
    OBVIOUS
  <2>1. parts[Selected(entries)] \in Good
    BY DEF IInv, EntryInv, ImageInv, Committed
  <2>2. SelectsNew => Committed
    BY TargetIsFree DEF IInv, TypeOK, Entries, EntryInv, SelectsNew, Slots
  <2>3. QED
    BY <2>1, <2>2 DEF NeverBricked, IInv, EntryInv, ImageInv
<1>2. QED
  BY Invariance, <1>1, PTL

\* The device then starts what the result said it would.
THEOREM ResultsAreTrue == Spec => []ResultTellsBoot
<1>1. IInv => ResultTellsBoot
  BY DEF IInv, TypeOK, EntryInv, ImageInv, Committed, ResultTellsBoot, Dest, Partitions
<1>2. QED
  BY Invariance, <1>1, PTL

\* Both partitions, their entries and every failure between them are one image
\* replaced in a single step.
THEOREM UpdatesAreAtomic == Spec => ImplementsBootImage
<1> DEFINE boots == parts[Selected(entries)]
           runs == parts[running]
<1>1. Init => Boots!Init
  BY DEF Init, Boots!Init
<1>2. IInv /\ [Next]_vars => [Boots!Next]_<<boots, runs>>
  <2> SUFFICES ASSUME IInv, [Next]_vars PROVE [Boots!Next]_<<boots, runs>>
    OBVIOUS
  <2> USE DEF flash, counts, To, End, Fault, Committed
  <2>0. TypeOK /\ EntryInv /\ ImageInv /\ IInv'
    BY StepIInv DEF IInv
  <2>1. CASE ChooseFile \/ Confirm \/ Decline \/ Download \/ Validate
    BY <2>1 DEF ChooseFile, Confirm, Decline, Download, Begin, Validate
  <2>2. CASE Erase \/ Write
    <3>1. parts'[running] = parts[running] /\ UNCHANGED <<entries, running>>
      BY <2>0, <2>2 DEF Erase, Write, TypeOK, Dest, Partitions
    <3>2. Selected(entries) = running
      BY <2>0, <2>2 DEF Erase, Write, EntryInv
    <3>3. QED
      BY <3>1, <3>2
  <2>3. CASE Clear
    <3>1. Selected(entries) = running /\ UNCHANGED <<parts, running>>
      BY <2>0, <2>3 DEF Clear, EntryInv
    <3>2. Selected(entries') = running'
      BY <2>0, <2>3 DEF Clear, IInv, EntryInv
    <3>3. QED
      BY <3>1, <3>2
  <2>4. CASE Select
    <3>1. UNCHANGED <<parts, running>> /\ Selected(entries) = running
      BY <2>0, <2>4 DEF Select, EntryInv
    <3>2. CASE result' = "OK"
      <4>1. boots' \in Good
        BY <2>0, <2>4, <3>2 DEF Select, IInv, EntryInv, ImageInv
      <4>2. QED
        BY <3>1, <4>1 DEF Boots!Next, Boots!Commit
    <3>3. CASE result' # "OK"
      BY <2>4, <3>1, <3>3 DEF Select
    <3>4. QED
      BY <3>2, <3>3
  <2>5. CASE Restart
    <3>1. Selected(entries') = running' /\ UNCHANGED parts
      BY <2>0, <2>5 DEF Restart, IInv, EntryInv
    <3>2. CASE Boot
      <4>1. runs' = boots /\ boots' = boots
        BY <3>1, <3>2 DEF Boot
      <4>2. QED
        BY <4>1 DEF Boots!Next, Boots!Start
    <3>3. CASE Abort
      <4>1. SelectsNew => Committed
        BY <2>0, TargetIsFree DEF TypeOK, Entries, EntryInv, SelectsNew, Slots
      <4>2. running' = running
        BY <2>0, <3>3, <4>1 DEF Abort, EntryInv
      <4>3. QED
        BY <3>1, <4>2 DEF Boots!Next, Boots!Revert
    <3>4. QED
      BY <2>5, <3>2, <3>3 DEF Restart
  <2>6. CASE Rest \/ UNCHANGED vars
    BY <2>6 DEF Rest, vars
  <2>7. QED
    BY <2>1, <2>2, <2>3, <2>4, <2>5, <2>6 DEF Next
<1>3. QED
  BY Invariance, <1>1, <1>2, PTL DEF Spec, ImplementsBootImage, Boots!Spec

\* What the device runs, what it would start, and the entry that says so.
InUseIsLeftAlone ==
    /\ parts'[running] = parts[running]
    /\ parts'[Selected(entries)] = parts[Selected(entries)]
    /\ ActiveSlot(entries) # NoSlot /\ ~Restart =>
          entries'[ActiveSlot(entries)] = entries[ActiveSlot(entries)]

\* An installation erases and writes neither the partition that runs nor the one that
\* would be started, and not the entry in use, which only a start of the device marks:
\* every failure in it leaves a device that starts.
THEOREM NothingInUseIsWritten == Spec => [][InUseIsLeftAlone]_vars
<1>1. ASSUME IInv, [Next]_vars PROVE InUseIsLeftAlone
  <2>0. TypeOK /\ EntryInv
    BY <1>1 DEF IInv
  <2> USE DEF flash
  <2>1. CASE ChooseFile \/ Confirm \/ Decline \/ Download \/ Validate \/ Rest \/ UNCHANGED vars
    <3>1. UNCHANGED <<parts, entries>>
      BY <2>1 DEF ChooseFile, Confirm, Decline, Download, Begin, Validate, Rest, vars
    <3>2. QED
      BY <3>1 DEF InUseIsLeftAlone
  <2>2. CASE Erase \/ Write
    <3>1. Selected(entries) = running /\ UNCHANGED entries
      BY <2>0, <2>2 DEF Erase, Write, EntryInv, Committed
    <3>2. parts'[running] = parts[running]
      BY <2>0, <2>2 DEF Erase, Write, TypeOK, Dest, Partitions
    <3>3. QED
      BY <3>1, <3>2 DEF InUseIsLeftAlone
  <2>3. CASE Clear \/ Select
    <3>1. /\ entries \in Entries /\ UNCHANGED parts
          /\ entries' = entries \/ \E e : entries' = [entries EXCEPT ![Target(entries)] = e]
      BY <2>0, <2>3 DEF Clear, Select, TypeOK, Entries
    <3>2. ActiveSlot(entries) # NoSlot => ActiveSlot(entries) \in Slots \ {Target(entries)}
      BY <3>1, TargetIsFree DEF Slots
    <3>3. ActiveSlot(entries) # NoSlot =>
              entries'[ActiveSlot(entries)] = entries[ActiveSlot(entries)]
      BY <3>1, <3>2 DEF Entries
    <3>4. QED
      BY <3>1, <3>3 DEF InUseIsLeftAlone
  <2>4. CASE Restart
    BY <2>4 DEF Restart, InUseIsLeftAlone
  <2>5. QED
    BY <1>1, <2>1, <2>2, <2>3, <2>4 DEF Next
<1>2. QED
  BY Invariance, <1>1, PTL DEF Spec
=============================================================================
