------------------------ MODULE NearbyTransferProofs ------------------------
(***************************************************************************)
(* Proofs about the transfer of a file: for any files, sessions, retries,  *)
(* faults and losses, no part of a file gets a name under which it can be  *)
(* opened, the file that was there is not lost, the two devices stay in    *)
(* step, and what the sender reports is true.                              *)
(*                                                                         *)
(* IInv is about the receiver's card, Protocol about the packets and what  *)
(* each device knows of the other.                                         *)
(***************************************************************************)
EXTENDS NearbyTransfer, Functions, SequenceTheorems, TLAPS

USE DocAssumption, FaultAssumption, PathAssumption, FileAssumption, BoundAssumption
    DEF DocAssumption, FaultAssumption, PathAssumption, FileAssumption, BoundAssumption

-----------------------------------------------------------------------------
(* The inductive invariant.                                                *)

\* The sender, as far as the receiver depends on it: its packets name a session.
SenderRecords ==
    [state : SenderStates, session : 0..MaxSessions, paired : BOOLEAN,
     total : 0..MaxChunks, next : Nat, pending : BOOLEAN, retries : Nat]

SenderInv ==
    /\ snd \in SenderRecords
    /\ snd.state # "Off" \/ snd.paired => snd.session \in Sessions
    /\ toR \in Seq(Packets)

ReceiverRecords ==
    [state : ReceiverStates, session : 0..MaxSessions, paired : BOOLEAN, total : Nat,
     target : {Name, Copy}, got : Seq(Nat), opened : BOOLEAN, drawn : BOOLEAN,
     accept : BOOLEAN, step : FinishSteps \cup {"idle"}]

ReceiverInv ==
    /\ rcv \in ReceiverRecords
    /\ rcv.paired => rcv.session \in Sessions
    /\ rcv.step # "idle" => rcv.state = "Receiving" /\ rcv.paired
    /\ rcv.step = "sync" => rcv.got = File(rcv.total)

\* The temporary file is whole when it is renamed.
PartInv ==
    /\ rcv.step \in {"look", "unpark", "park", "publish", "replace"} => files[Part] # Torn
    /\ NothingPartial

\* The name that is used is free, or its file is the one that is kept.
TargetInv ==
    /\ rcv.state = "Receiving" /\ rcv.target = Copy
       /\ rcv.step \in {"idle", "sync", "look", "publish"} => ~Exists(Copy)
    /\ rcv.step \in {"unpark", "park", "replace", "restore"} => rcv.target = Name
    /\ rcv.step \in {"unpark", "park", "tidy"} => Exists(Name)

HeldInv ==
    /\ held \in Docs \cup {Absent, Torn}
    /\ Exists(Name) => held = files[Name]
    /\ ~Exists(Name) /\ held # Absent => files[Backup] = held

CardInv == CardType /\ PartInv /\ TargetInv /\ HeldInv

IInv == SenderInv /\ ReceiverInv /\ CardInv

LEMMA NoPackets == <<>> \in Seq(Packets)
  BY EmptySeq

LEMMA InitIInv == Init => IInv
<1> SUFFICES ASSUME Init PROVE IInv
  OBVIOUS
<1>1. SenderInv
  <2>1. snd = [state |-> "Off", session |-> 0, paired |-> FALSE, total |-> 0,
               next |-> 0, pending |-> FALSE, retries |-> 0]
    BY DEF Init, IdleSender
  <2>2. "Off" \in SenderStates /\ 0 \in 0..MaxSessions /\ 0 \in 0..MaxChunks /\ 0 \in Nat
    BY DEF SenderStates
  <2>3. snd \in SenderRecords
    BY <2>1, <2>2 DEF SenderRecords
  <2>4. QED
    BY <2>1, <2>3, NoPackets DEF SenderInv, Init
<1>2. ReceiverInv /\ rcv.state = "ChooseReceiveAction" /\ rcv.step = "idle"
  <2>1. rcv = [state |-> "ChooseReceiveAction", session |-> 0, paired |-> FALSE,
               total |-> 0, target |-> Name, got |-> <<>>, opened |-> FALSE,
               drawn |-> FALSE, accept |-> FALSE, step |-> "idle"]
    BY DEF Init, IdleReceiver
  <2>2. "ChooseReceiveAction" \in ReceiverStates /\ 0 \in 0..MaxSessions /\ <<>> \in Seq(Nat)
    BY DEF ReceiverStates
  <2>3. QED
    BY <2>1, <2>2 DEF ReceiverInv, ReceiverRecords
<1>3. CardInv
  <2>1. CardType /\ HeldInv
    BY DEF Init, CardType, Contents, HeldInv, Exists
  <2>2. PartInv /\ TargetInv
    BY <1>2 DEF Init, PartInv, NothingPartial, TargetInv, Exists
  <2>3. QED
    BY <2>1, <2>2 DEF CardInv
<1>4. QED
  BY <1>1, <1>2, <1>3 DEF IInv

-----------------------------------------------------------------------------
(* The sender and the radio.                                               *)

LEMMA Queueing ==
    ASSUME toR \in Seq(Packets), NEW ms \in Seq(Packets), ToReceiver(ms)
    PROVE  toR' \in Seq(Packets)
<1>1. \A s \in SomeOf(ms) : s \in Seq(Packets)
  <2>1. \A i \in 1..Len(ms) : <<ms[i]>> \in Seq(Packets)
    OBVIOUS
  <2>2. QED
    BY <2>1, NoPackets DEF SomeOf
<1>2. \A q \in Queued(toR, ms) : q \in Seq(Packets)
  <2> SUFFICES ASSUME NEW s \in SomeOf(ms) PROVE toR \o s \in Seq(Packets)
    BY DEF Queued
  <2> QED
    BY <1>1, ConcatProperties
<1>3. QED
  BY <1>2 DEF ToReceiver

\* A step of the sender leaves the receiver and its card alone.
LEMMA SenderSteps ==
    ASSUME IInv, SenderOnly, snd' \in SenderRecords,
           snd'.state # "Off" \/ snd'.paired => snd'.session \in Sessions,
           \/ UNCHANGED toR
           \/ ToReceiver(<<>>)
           \/ \E type \in Types, session \in Sessions, arg \in Nat :
                 ToReceiver(<<Packet(type, session, arg)>>)
    PROVE  IInv'
<1>1. toR \in Seq(Packets)
  BY DEF IInv, SenderInv
<1>2. toR' \in Seq(Packets)
  <2>1. CASE UNCHANGED toR
    BY <1>1, <2>1
  <2>2. CASE ToReceiver(<<>>)
    BY <1>1, <2>2, NoPackets, Queueing
  <2>3. ASSUME NEW type \in Types, NEW session \in Sessions, NEW arg \in Nat,
               ToReceiver(<<Packet(type, session, arg)>>)
        PROVE  toR' \in Seq(Packets)
    <3>1. Packet(type, session, arg) \in Packets
      BY DEF Packet, Packets
    <3>2. <<Packet(type, session, arg)>> \in Seq(Packets)
      BY <3>1
    <3>3. QED
      BY <1>1, <2>3, <3>2, Queueing
  <2>4. QED
    BY <2>1, <2>2, <2>3
<1>3. UNCHANGED <<files, faults, rcv, held>>
  BY DEF SenderOnly, cardVars, history
<1>4. SenderInv'
  BY <1>2 DEF SenderInv
<1>5. ReceiverInv' /\ CardInv'
  <2>1. ReceiverInv'
    BY <1>3 DEF IInv, ReceiverInv
  <2>2. CardType' /\ PartInv'
    BY <1>3 DEF IInv, CardInv, CardType, PartInv, NothingPartial
  <2>3. TargetInv' /\ HeldInv'
    BY <1>3 DEF IInv, CardInv, TargetInv, HeldInv, Exists
  <2>4. QED
    BY <2>1, <2>2, <2>3 DEF CardInv
<1>6. QED
  BY <1>4, <1>5 DEF IInv

LEMMA SenderSays ==
    ASSUME IInv, SenderOnly, snd.session \in Sessions,
           snd' \in SenderRecords, snd'.session = snd.session,
           \/ UNCHANGED toR
           \/ ToReceiver(<<>>)
           \/ \E type \in Types, arg \in Nat : ToReceiver(Say(type, arg))
    PROVE  IInv'
  BY SenderSteps DEF Say

\* setError() from wherever it is called.
LEMMA SenderGivesUp ==
    ASSUME IInv, SenderOnly, snd.session \in Sessions, SenderFails
    PROVE  IInv'
<1>1. snd' = [snd EXCEPT !.state = "Error"] /\ snd \in SenderRecords
  BY DEF SenderFails, IInv, SenderInv
<1>2. snd' \in SenderRecords /\ snd'.session = snd.session
  BY <1>1 DEF SenderRecords, SenderStates
<1>3. ToReceiver(<<>>) \/ ToReceiver(Say("Cancel", 0))
  BY DEF SenderFails
<1>4. QED
  BY <1>2, <1>3, SenderSays DEF Types

LEMMA SenderStartStep == IInv /\ SenderStart => IInv'
<1> SUFFICES ASSUME IInv, SenderStart PROVE IInv'
  OBVIOUS
<1>1. PICK n \in 0..MaxChunks, state \in {"Discovering", "Error"} :
          snd' = [IdleSender(snd.session + 1) EXCEPT !.total = n, !.state = state]
  BY DEF SenderStart
<1>2. snd.session \in 0..MaxSessions /\ snd.session + 1 \in Sessions
  BY DEF IInv, SenderInv, SenderRecords, SenderStart, Sessions
<1>3. snd' = [state |-> state, session |-> snd.session + 1, paired |-> FALSE, total |-> n,
              next |-> 0, pending |-> FALSE, retries |-> 0]
  BY <1>1 DEF IdleSender
<1>4. snd' \in SenderRecords /\ snd'.session \in Sessions
  <2>1. state \in SenderStates /\ snd.session + 1 \in 0..MaxSessions
    BY <1>2 DEF SenderStates, Sessions
  <2>2. QED
    BY <1>2, <1>3, <2>1 DEF SenderRecords
<1>5. SenderOnly
  BY DEF SenderStart
<1>6. UNCHANGED toR \/ ToReceiver(<<Packet("Discover", snd'.session, 0)>>)
  BY DEF SenderStart
<1>7. CASE UNCHANGED toR
  BY <1>4, <1>5, <1>7, SenderSteps
<1>8. CASE ToReceiver(<<Packet("Discover", snd'.session, 0)>>)
  BY <1>4, <1>5, <1>8, SenderSteps DEF Types
<1>9. QED
  BY <1>6, <1>7, <1>8

LEMMA SenderTimersStep == IInv /\ SenderTimers => IInv'
<1> SUFFICES ASSUME IInv, SenderTimers PROVE IInv'
  OBVIOUS
<1>1. snd \in SenderRecords /\ SenderOnly
  BY DEF IInv, SenderInv, SenderTimers, DiscoveryTimer, ApprovalTimer, SendTimer
<1>2. snd.session \in Sessions
  BY DEF IInv, SenderInv, SenderTimers, DiscoveryTimer, ApprovalTimer, SendTimer
<1>3. snd.total \in Nat /\ snd.next \in Nat /\ snd.retries \in Nat
  BY <1>1 DEF SenderRecords
<1>4. /\ [snd EXCEPT !.retries = @ + 1] \in SenderRecords
      /\ [snd EXCEPT !.retries = 0] \in SenderRecords
  BY <1>1, <1>3 DEF SenderRecords
<1>5. CASE DiscoveryTimer
  <2>1. snd' = snd /\ ToReceiver(Say("Discover", 0))
    BY <1>5 DEF DiscoveryTimer
  <2>2. QED
    BY <1>1, <1>2, <2>1, SenderSays DEF Types
<1>6. CASE ApprovalTimer
  <2>1. \/ SenderFails
        \/ snd' = [snd EXCEPT !.retries = @ + 1] /\ ToReceiver(Say("Offer", snd.total))
    BY <1>6 DEF ApprovalTimer
  <2>2. QED
    BY <1>1, <1>2, <1>3, <1>4, <2>1, SenderSays, SenderGivesUp DEF Types, SenderRecords
<1>7. CASE SendTimer
  <2>1. \/ SenderFails
        \/ snd' = [snd EXCEPT !.retries = @ + 1] /\ ToReceiver(Say("Data", snd.next))
        \/ snd' = [snd EXCEPT !.retries = 0] /\ ToReceiver(Say("Complete", snd.total))
    BY <1>7 DEF SendTimer
  <2>2. QED
    BY <1>1, <1>2, <1>3, <1>4, <2>1, SenderSays, SenderGivesUp DEF Types, SenderRecords
<1>8. QED
  BY <1>5, <1>6, <1>7 DEF SenderTimers

LEMMA SelectPeerStep == IInv /\ SelectPeer => IInv'
<1> SUFFICES ASSUME IInv, SelectPeer PROVE IInv'
  OBVIOUS
<1>1. snd \in SenderRecords /\ snd.session \in Sessions /\ SenderOnly
      /\ snd' = [snd EXCEPT !.state = "WaitingForApproval", !.paired = TRUE, !.retries = 0]
      /\ ToReceiver(Say("Offer", snd.total))
  BY DEF SelectPeer, IInv, SenderInv
<1>2. snd' \in SenderRecords /\ snd'.session = snd.session /\ snd.total \in Nat
  <2>1. "WaitingForApproval" \in SenderStates
    BY DEF SenderStates
  <2>2. snd.total \in Nat
    BY <1>1 DEF SenderRecords
  <2>3. snd' \in SenderRecords
    BY <1>1, <2>1 DEF SenderRecords
  <2>4. QED
    BY <1>1, <2>2, <2>3 DEF SenderRecords
<1>3. QED
  BY <1>1, <1>2, SenderSays DEF Types

LEMMA SenderExitStep == IInv /\ SenderExit => IInv'
<1> SUFFICES ASSUME IInv, SenderExit PROVE IInv'
  OBVIOUS
<1>1. snd \in SenderRecords /\ snd.session \in Sessions /\ SenderOnly
      /\ snd' = IdleSender(snd.session)
      /\ (ToReceiver(Say("Cancel", 0)) \/ ToReceiver(<<>>))
  BY DEF SenderExit, IInv, SenderInv
<1>2. snd' \in SenderRecords /\ snd'.session = snd.session
  BY <1>1 DEF SenderRecords, SenderStates, IdleSender
<1>3. QED
  BY <1>1, <1>2, SenderSays DEF Types

LEMMA SenderHears ==
    ASSUME IInv, NEW type, SenderTakes(type)
    PROVE  snd.session \in Sessions /\ SenderOnly /\ snd \in SenderRecords
  BY DEF SenderTakes, SenderExpects, IInv, SenderInv

LEMMA SendingFrom ==
    ASSUME IInv, SenderOnly, snd.session \in Sessions, NEW n \in Nat, SendFrom(n)
    PROVE  IInv'
<1>1. snd \in SenderRecords
  BY DEF IInv, SenderInv
<1>2. snd' = [snd EXCEPT !.state = "Sending", !.next = n,
                         !.pending = (n # snd.total), !.retries = 0]
  BY DEF SendFrom
<1>3. snd' \in SenderRecords /\ snd'.session = snd.session /\ snd.total \in Nat
  <2>1. "Sending" \in SenderStates /\ (n # snd.total) \in BOOLEAN
    BY DEF SenderStates
  <2> DEFINE waits == n # snd.total
  <2> HIDE DEF waits
  <2>2. snd' = [snd EXCEPT !.state = "Sending", !.next = n, !.pending = waits, !.retries = 0]
    BY <1>2 DEF waits
  <2>3. waits \in BOOLEAN
    BY DEF waits
  <2>4. snd.total \in Nat
    BY <1>1 DEF SenderRecords
  <2>5. snd' \in SenderRecords
    BY <1>1, <2>1, <2>2, <2>3 DEF SenderRecords
  <2>6. QED
    BY <1>1, <2>2, <2>4, <2>5 DEF SenderRecords
<1>4. ToReceiver(Say("Complete", snd.total)) \/ ToReceiver(Say("Data", n))
  BY DEF SendFrom
<1>5. QED
  BY <1>3, <1>4, SenderSays DEF Types

LEMMA SenderPacketsStep == IInv /\ SenderPackets => IInv'
<1> SUFFICES ASSUME IInv, SenderPackets PROVE IInv'
  OBVIOUS
<1>1. snd \in SenderRecords /\ snd.next \in Nat
  BY DEF IInv, SenderInv, SenderRecords
<1>2. CASE SenderAdvertise
  <2>1. snd.session \in Sessions /\ SenderOnly
    BY <1>2, SenderHears DEF SenderAdvertise
  <2>2. snd' = [snd EXCEPT !.state = "DeviceList"] /\ UNCHANGED toR
    BY <1>2 DEF SenderAdvertise
  <2>3. snd' \in SenderRecords /\ snd'.session = snd.session
    BY <1>1, <2>2 DEF SenderRecords, SenderStates
  <2>4. QED
    BY <2>1, <2>2, <2>3, SenderSays
<1>3. CASE SenderAccept
  <2>1. snd.session \in Sessions /\ SenderOnly
    BY <1>3, SenderHears DEF SenderAccept
  <2>2. QED
    BY <1>3, <2>1, SendingFrom, SenderGivesUp DEF SenderAccept
<1>4. CASE SenderAck
  <2>1. snd.session \in Sessions /\ SenderOnly
    BY <1>4, SenderHears DEF SenderAck
  <2>2. snd.next + 1 \in Nat
    BY <1>1
  <2>3. QED
    BY <1>4, <2>1, <2>2, SendingFrom, SenderGivesUp DEF SenderAck
<1>5. CASE SenderResult
  <2>1. snd.session \in Sessions /\ SenderOnly
    BY <1>5, SenderHears DEF SenderResult
  <2>2. CASE SenderFails
    BY <2>1, <2>2, SenderGivesUp
  <2>3. CASE snd' = [snd EXCEPT !.state = "Success"] /\ UNCHANGED toR
    <3>1. snd' \in SenderRecords /\ snd'.session = snd.session
      BY <1>1, <2>3 DEF SenderRecords, SenderStates
    <3>2. QED
      BY <2>1, <2>3, <3>1, SenderSays
  <2>4. QED
    BY <1>5, <2>2, <2>3 DEF SenderResult
<1>6. CASE SenderRefused
  <2>1. snd.session \in Sessions /\ SenderOnly /\ SenderFails
    BY <1>6, SenderHears DEF SenderRefused
  <2>2. QED
    BY <2>1, SenderGivesUp
<1>7. CASE SenderIgnores
  <2>1. SenderOnly /\ UNCHANGED <<snd, toR>>
    BY <1>7 DEF SenderIgnores
  <2>2. snd.state # "Off" \/ snd.paired => snd.session \in Sessions
    BY DEF IInv, SenderInv
  <2>3. QED
    BY <1>1, <2>1, <2>2, SenderSteps
<1>8. QED
  BY <1>2, <1>3, <1>4, <1>5, <1>6, <1>7 DEF SenderPackets

-----------------------------------------------------------------------------
(* The receiver, until it has the whole file.                              *)

\* Only the temporary file changes.
PartOnly == CardType' /\ \A path \in Paths \ {Part} : files'[path] = files[path]

LEMMA PartSteps ==
    ASSUME CardType,
           \/ Untouched
           \/ TidyPart
           \/ Opened(Part)
           \/ PowerFails
           \/ Fault /\ files' \in {files, [files EXCEPT ![Part] = Absent]}
    PROVE  PartOnly
<1>1. CASE Untouched \/ PowerFails
  BY <1>1 DEF CardType, Untouched, PowerFails, Fault, PartOnly
<1>2. CASE TidyPart
  BY <1>2 DEF CardType, Contents, TidyPart, MayRemove, Cleared, ClearFails, Removed, Unharmed,
     Untouched, Fails, Fault, PartOnly
<1>3. CASE Opened(Part)
  BY <1>3 DEF CardType, Contents, Opened, Unharmed, PartOnly
<1>4. CASE Fault /\ files' \in {files, [files EXCEPT ![Part] = Absent]}
  BY <1>4 DEF CardType, Contents, Fault, PartOnly
<1>5. QED
  BY <1>1, <1>2, <1>3, <1>4

\* As long as nothing is put in its place, what the user has stays as it is.
LEMMA Keeping ==
    ASSUME IInv, snd' = snd, UNCHANGED history, toR' \in Seq(Packets), PartOnly,
           rcv' \in ReceiverRecords, rcv'.step = "idle",
           rcv'.paired => rcv'.session \in Sessions,
           rcv'.state = "Receiving" /\ rcv'.target = Copy => ~Exists(Copy)
    PROVE  IInv'
<1>1. held' = held /\ \A path \in {Name, Copy, Backup} : files'[path] = files[path]
  BY DEF history, PartOnly
<1>2. SenderInv' /\ ReceiverInv'
  BY DEF IInv, SenderInv, ReceiverInv
<1>3. PartInv'
  BY <1>1 DEF IInv, CardInv, PartInv, NothingPartial
<1>4. TargetInv' /\ HeldInv'
  BY <1>1 DEF IInv, CardInv, TargetInv, HeldInv, Exists
<1>5. QED
  BY <1>2, <1>3, <1>4 DEF IInv, CardInv, PartOnly

LEMMA ReceiverFacts ==
    ASSUME IInv
    PROVE  /\ rcv \in ReceiverRecords /\ CardType /\ toR \in Seq(Packets)
           /\ rcv.paired => rcv.session \in Sessions
           /\ rcv.state # "Receiving" => rcv.step = "idle"
           /\ rcv.step = "idle" /\ rcv.state = "Receiving" /\ rcv.target = Copy => ~Exists(Copy)
           /\ toR # <<>> => Tail(toR) \in Seq(Packets) /\ Head(toR) \in Packets
<1>1. toR \in Seq(Packets)
  BY DEF IInv, SenderInv
<1>2. toR # <<>> => Tail(toR) \in Seq(Packets) /\ Head(toR) \in Packets
  BY <1>1, HeadTailProperties
<1>3. QED
  BY <1>1, <1>2 DEF IInv, ReceiverInv, CardInv, TargetInv

LEMMA Failures ==
    ASSUME IInv, snd' = snd, UNCHANGED history, toR' \in Seq(Packets), PartOnly,
           \/ rcv' = Failed
           \/ \E target \in {Name, Copy} :
                 \/ rcv' = [Failed EXCEPT !.target = target]
                 \/ rcv' = [Failed EXCEPT !.target = target, !.opened = TRUE]
    PROVE  IInv'
<1>1. rcv \in ReceiverRecords /\ (rcv.paired => rcv.session \in Sessions)
  BY ReceiverFacts
<1>2. "Error" \in ReceiverStates
  BY DEF ReceiverStates
<1>3. Failed \in ReceiverRecords /\ Failed.state = "Error" /\ Failed.step = "idle"
      /\ Failed.paired = rcv.paired /\ Failed.session = rcv.session
  BY <1>1, <1>2 DEF Failed, ReceiverRecords
<1>4. rcv' \in ReceiverRecords /\ rcv'.state = "Error" /\ rcv'.step = "idle"
      /\ rcv'.paired = rcv.paired /\ rcv'.session = rcv.session
  <2>1. CASE rcv' = Failed
    BY <1>3, <2>1
  <2>2. CASE \E target \in {Name, Copy} : rcv' = [Failed EXCEPT !.target = target]
    BY <1>3, <2>2 DEF ReceiverRecords
  <2>3. CASE \E target \in {Name, Copy} :
                 rcv' = [Failed EXCEPT !.target = target, !.opened = TRUE]
    BY <1>3, <2>3, ZenonT(40) DEF ReceiverRecords
  <2>4. QED
    BY <2>1, <2>2, <2>3
<1>5. QED
  BY <1>1, <1>4, Keeping

\* setError() in the receiver.
LEMMA ReceiverGivesUp ==
    ASSUME IInv, ReceiverOnly, toR' \in Seq(Packets), NEW ms, ReceiverFails(ms)
    PROVE  IInv'
<1>1. PartOnly
  BY ReceiverFacts, PartSteps DEF ReceiverFails, TidyPart
<1>2. QED
  BY <1>1, Failures DEF ReceiverFails, ReceiverOnly

LEMMA IdleReceivers ==
    ASSUME NEW session \in 0..MaxSessions
    PROVE  /\ IdleReceiver(session) \in ReceiverRecords
           /\ IdleReceiver(session).step = "idle" /\ ~IdleReceiver(session).paired
           /\ IdleReceiver(session).state = "ChooseReceiveAction"
           /\ Listening(session) \in ReceiverRecords
           /\ Listening(session).step = "idle" /\ ~Listening(session).paired
           /\ Listening(session).state = "Listening"
<1>1. {"ChooseReceiveAction", "Listening"} \subseteq ReceiverStates /\ <<>> \in Seq(Nat)
  BY DEF ReceiverStates
<1>2. QED
  BY <1>1 DEF IdleReceiver, Listening, ReceiverRecords

LEMMA ReceiverUsersStep ==
    IInv /\ (StartListening \/ RejectOffer \/ AskAboutCollision \/ ReceiverExit) => IInv'
<1> SUFFICES ASSUME IInv, StartListening \/ RejectOffer \/ AskAboutCollision \/ ReceiverExit
             PROVE  IInv'
  OBVIOUS
<1>1. rcv \in ReceiverRecords /\ CardType /\ toR \in Seq(Packets)
      /\ rcv.session \in 0..MaxSessions
  BY ReceiverFacts DEF ReceiverRecords
<1>2. CASE StartListening
  <2>1. PartOnly /\ snd' = snd /\ UNCHANGED history /\ toR' = toR
        /\ rcv' \in {Listening(rcv.session), Failed}
    BY <1>1, <1>2, PartSteps DEF StartListening, ReceiverOnly, cardVars, Untouched
  <2>2. QED
    BY <1>1, <2>1, IdleReceivers, Keeping, Failures
<1>3. CASE RejectOffer
  <2>1. PartOnly /\ snd' = snd /\ UNCHANGED history /\ toR' = toR
        /\ rcv' = Listening(rcv.session)
    BY <1>1, <1>3, PartSteps DEF RejectOffer, ReceiverOnly, cardVars, Untouched
  <2>2. QED
    BY <1>1, <2>1, IdleReceivers, Keeping
<1>4. CASE AskAboutCollision
  <2>1. PartOnly /\ snd' = snd /\ UNCHANGED history /\ toR' = toR
        /\ rcv' = [rcv EXCEPT !.state = "CollisionPrompt"] /\ rcv.state = "OfferPrompt"
    BY <1>1, <1>4, PartSteps DEF AskAboutCollision, ReceiverOnly, cardVars, Untouched
  <2>2. rcv.step = "idle" /\ (rcv.paired => rcv.session \in Sessions)
    BY <2>1, ReceiverFacts
  <2>3. rcv' \in ReceiverRecords /\ rcv'.step = rcv.step /\ rcv'.state = "CollisionPrompt"
        /\ rcv'.paired = rcv.paired /\ rcv'.session = rcv.session
    BY <1>1, <2>1 DEF ReceiverRecords, ReceiverStates
  <2>4. QED
    BY <1>1, <2>1, <2>2, <2>3, Keeping
<1>5. CASE ReceiverExit
  <2>1. PartOnly /\ snd' = snd /\ UNCHANGED history /\ toR' = <<>>
        /\ rcv' = IdleReceiver(0)
    BY <1>1, <1>5, PartSteps DEF ReceiverExit, ReceiverOnly
  <2>2. QED
    BY <2>1, NoPackets, IdleReceivers, Keeping
<1>6. QED
  BY <1>2, <1>3, <1>4, <1>5

LEMMA ReceiverPowerLossStep == IInv /\ ReceiverPowerLoss => IInv'
<1> SUFFICES ASSUME IInv, ReceiverPowerLoss PROVE IInv'
  OBVIOUS
<1>1. PartOnly /\ snd' = snd /\ UNCHANGED history /\ toR' = <<>> /\ rcv' = IdleReceiver(0)
  BY ReceiverFacts, PartSteps DEF ReceiverPowerLoss, ReceiverOnly
<1>2. QED
  BY <1>1, NoPackets, IdleReceivers, Keeping

\* The user gives the file a name: the one that was offered, or a free one.
LEMMA AcceptOfferStep ==
    ASSUME IInv, rcv.step = "idle", rcv.state \in {"OfferPrompt", "CollisionPrompt"},
           NEW target \in {Name, Copy}, target = Copy => ~Exists(Copy), AcceptOffer(target)
    PROVE  IInv'
<1>1. rcv \in ReceiverRecords /\ CardType /\ toR \in Seq(Packets) /\ toR' = toR
      /\ (rcv.paired => rcv.session \in Sessions) /\ snd' = snd /\ UNCHANGED history
  BY ReceiverFacts DEF AcceptOffer, ReceiverOnly
<1>2. CASE /\ \/ rcv' = [Failed EXCEPT !.target = target]
              \/ rcv' = [Failed EXCEPT !.target = target, !.opened = TRUE]
           /\ \/ Untouched
              \/ Fault /\ files' \in {files, [files EXCEPT ![Part] = Absent]}
  BY <1>1, <1>2, PartSteps, Failures
<1>3. CASE /\ rcv' = [rcv EXCEPT !.state = "Receiving", !.target = target, !.opened = TRUE,
                                 !.got = <<>>, !.accept = TRUE, !.drawn = FALSE]
           /\ Opened(Part)
  <2>1. "Receiving" \in ReceiverStates /\ <<>> \in Seq(Nat)
    BY DEF ReceiverStates
  <2>2. rcv' \in ReceiverRecords
    BY <1>1, <1>3, <2>1 DEF ReceiverRecords
  <2>3. rcv'.step = "idle" /\ rcv'.target = target
        /\ rcv'.paired = rcv.paired /\ rcv'.session = rcv.session
    BY <1>1, <1>3 DEF ReceiverRecords
  <2>4. PartOnly
    BY <1>1, <1>3, PartSteps
  <2>5. QED
    BY <1>1, <2>2, <2>3, <2>4, Keeping
<1>4. QED
  BY <1>2, <1>3 DEF AcceptOffer

LEMMA AcceptAsStep == IInv /\ AcceptAs => IInv'
  BY ReceiverFacts, AcceptOfferStep DEF AcceptAs

\* The render task may say that it painted while the file is put in its place.
LEMMA DrawReceivingStep == IInv /\ DrawReceiving => IInv'
<1> SUFFICES ASSUME IInv, DrawReceiving PROVE IInv'
  OBVIOUS
<1>1. rcv \in ReceiverRecords /\ rcv' = [rcv EXCEPT !.drawn = TRUE]
      /\ UNCHANGED <<files, faults, snd, toR, held>>
  BY ReceiverFacts DEF DrawReceiving, ReceiverOnly, cardVars, history
<1>2. rcv' \in ReceiverRecords /\ rcv'.paired = rcv.paired /\ rcv'.session = rcv.session
      /\ rcv'.state = rcv.state /\ rcv'.step = rcv.step /\ rcv'.target = rcv.target
      /\ rcv'.got = rcv.got /\ rcv'.total = rcv.total
  BY <1>1 DEF ReceiverRecords
<1>3. SenderInv' /\ ReceiverInv'
  BY <1>1, <1>2 DEF IInv, SenderInv, ReceiverInv
<1>4. CardType' /\ PartInv'
  BY <1>1, <1>2 DEF IInv, CardInv, CardType, PartInv, NothingPartial
<1>5. TargetInv' /\ HeldInv'
  BY <1>1, <1>2 DEF IInv, CardInv, TargetInv, HeldInv, Exists
<1>6. QED
  BY <1>3, <1>4, <1>5 DEF IInv, CardInv

LEMMA ReceiverLoopStep == IInv /\ (SendPendingAccept \/ ReceiveTimer) => IInv'
<1> SUFFICES ASSUME IInv, SendPendingAccept \/ ReceiveTimer PROVE IInv'
  OBVIOUS
<1>1. toR' \in Seq(Packets) /\ ReceiverOnly /\ rcv.step = "idle"
  BY ReceiverFacts DEF SendPendingAccept, ReceiveTimer, Ready
<1>2. CASE ReceiverFails(Answer("Cancel", 0))
  BY <1>1, <1>2, ReceiverGivesUp
<1>3. CASE rcv' = [rcv EXCEPT !.accept = FALSE] /\ Untouched
  <2>1. rcv \in ReceiverRecords /\ CardType /\ (rcv.paired => rcv.session \in Sessions)
        /\ (rcv.state = "Receiving" /\ rcv.target = Copy => ~Exists(Copy))
    BY <1>1, ReceiverFacts
  <2>2. rcv' \in ReceiverRecords /\ rcv'.paired = rcv.paired /\ rcv'.session = rcv.session
        /\ rcv'.state = rcv.state /\ rcv'.step = rcv.step /\ rcv'.target = rcv.target
    BY <1>3, <2>1 DEF ReceiverRecords
  <2>3. PartOnly
    BY <1>3, <2>1, PartSteps
  <2>4. QED
    BY <1>1, <2>1, <2>2, <2>3, Keeping DEF ReceiverOnly
<1>4. QED
  BY <1>2, <1>3 DEF SendPendingAccept, ReceiveTimer

LEMMA ReceiverHears ==
    ASSUME IInv, NEW type, ReceiverTakes(type)
    PROVE  /\ toR' \in Seq(Packets) /\ Head(toR) \in Packets /\ ReceiverOnly
           /\ rcv.step = "idle" /\ ReceiverExpects(Head(toR)) /\ Head(toR).type = type
           /\ rcv \in ReceiverRecords /\ CardType
           /\ rcv.paired => rcv.session \in Sessions
           /\ rcv.state = "Receiving" /\ rcv.target = Copy => ~Exists(Copy)
  BY ReceiverFacts DEF ReceiverTakes, Ready

\* The receiver goes on with what it does, and the names stay as they are.
LEMMA ReceiverGoesOn ==
    ASSUME IInv, NEW type, ReceiverTakes(type), PartOnly,
           rcv' \in ReceiverRecords, rcv'.step = "idle",
           rcv'.paired => rcv'.session \in Sessions,
           rcv'.state = "Receiving" => rcv.state = "Receiving" /\ rcv'.target = rcv.target
    PROVE  IInv'
<1>1. /\ toR' \in Seq(Packets) /\ ReceiverOnly
      /\ rcv.state = "Receiving" /\ rcv.target = Copy => ~Exists(Copy)
  BY ReceiverHears
<1>2. snd' = snd /\ UNCHANGED history
  BY <1>1 DEF ReceiverOnly
<1>3. rcv'.state = "Receiving" /\ rcv'.target = Copy => ~Exists(Copy)
  BY <1>1
<1>4. QED
  BY <1>1, <1>2, <1>3, Keeping

LEMMA ReceiverDiscoverStep == IInv /\ ReceiverDiscover => IInv'
<1> SUFFICES ASSUME IInv, ReceiverDiscover PROVE IInv'
  OBVIOUS
<1>1. /\ rcv \in ReceiverRecords /\ rcv.step = "idle" /\ CardType /\ UNCHANGED cardVars
      /\ rcv' = [rcv EXCEPT !.session = Head(toR).session]
      /\ Head(toR).session \in Sessions
  BY ReceiverHears DEF ReceiverDiscover, Packets
<1>2. PartOnly
  BY <1>1, PartSteps DEF cardVars, Untouched
<1>3. rcv' \in ReceiverRecords /\ rcv'.step = "idle" /\ rcv'.session \in Sessions
      /\ rcv'.state = rcv.state /\ rcv'.target = rcv.target
  <2>1. Head(toR).session \in 0..MaxSessions
    BY <1>1 DEF Sessions
  <2>2. QED
    BY <1>1, <2>1 DEF ReceiverRecords
<1>4. QED
  BY <1>2, <1>3, ReceiverGoesOn DEF ReceiverDiscover

LEMMA ReceiverOfferStep == IInv /\ ReceiverOffer => IInv'
<1> SUFFICES ASSUME IInv, ReceiverOffer PROVE IInv'
  OBVIOUS
<1>1. /\ rcv \in ReceiverRecords /\ rcv.step = "idle" /\ CardType /\ UNCHANGED cardVars
      /\ Head(toR).session \in Sessions /\ Head(toR).arg \in Nat
      /\ rcv.paired => rcv.session \in Sessions
  BY ReceiverHears DEF ReceiverOffer, Packets
<1>2. PartOnly
  BY <1>1, PartSteps DEF cardVars, Untouched
<1>3. CASE rcv' = [rcv EXCEPT !.state = "OfferPrompt", !.paired = TRUE,
                              !.session = Head(toR).session, !.total = Head(toR).arg]
  <2>1. "OfferPrompt" \in ReceiverStates /\ Head(toR).session \in 0..MaxSessions
    BY <1>1 DEF ReceiverStates, Sessions
  <2>2. rcv' \in ReceiverRecords
    BY <1>1, <1>3, <2>1 DEF ReceiverRecords
  <2>3. rcv'.step = "idle" /\ rcv'.session \in Sessions /\ rcv'.state = "OfferPrompt"
    BY <1>1, <1>3 DEF ReceiverRecords
  <2>4. QED
    BY <1>2, <2>2, <2>3, ReceiverGoesOn DEF ReceiverOffer
<1>4. CASE UNCHANGED rcv
  BY <1>1, <1>2, <1>4, ReceiverGoesOn DEF ReceiverOffer
<1>5. QED
  BY <1>3, <1>4 DEF ReceiverOffer

LEMMA ReceiverDataStep == IInv /\ ReceiverData => IInv'
<1> SUFFICES ASSUME IInv, ReceiverData PROVE IInv'
  OBVIOUS
<1>1. /\ rcv \in ReceiverRecords /\ rcv.step = "idle" /\ CardType
      /\ Head(toR).arg \in Nat /\ (rcv.paired => rcv.session \in Sessions)
      /\ toR' \in Seq(Packets) /\ ReceiverOnly
  BY ReceiverHears DEF ReceiverData, Packets
<1>2. CASE rcv' = [rcv EXCEPT !.got = Append(@, Head(toR).arg)] /\ Untouched
  <2>1. Append(rcv.got, Head(toR).arg) \in Seq(Nat)
    <3>1. rcv.got \in Seq(Nat)
      BY <1>1 DEF ReceiverRecords
    <3>2. QED
      BY <1>1, <3>1, AppendProperties
  <2>2. rcv' \in ReceiverRecords /\ rcv'.step = "idle" /\ rcv'.session = rcv.session
        /\ rcv'.paired = rcv.paired /\ rcv'.state = rcv.state /\ rcv'.target = rcv.target
    BY <1>1, <1>2, <2>1 DEF ReceiverRecords
  <2>3. PartOnly
    BY <1>1, <1>2, PartSteps
  <2>4. QED
    BY <1>1, <2>2, <2>3, ReceiverGoesOn DEF ReceiverData
<1>3. CASE rcv' = Failed /\ Fault /\ files' \in {files, [files EXCEPT ![Part] = Absent]}
  BY <1>1, <1>3, PartSteps, Failures DEF ReceiverOnly
<1>4. CASE UNCHANGED rcv /\ Untouched
  BY <1>1, <1>4, PartSteps, ReceiverGoesOn DEF ReceiverData
<1>5. QED
  BY <1>2, <1>3, <1>4 DEF ReceiverData

LEMMA ReceiverCancelStep == IInv /\ (ReceiverCancel \/ ReceiverIgnores) => IInv'
<1> SUFFICES ASSUME IInv, ReceiverCancel \/ ReceiverIgnores PROVE IInv'
  OBVIOUS
<1>1. CASE ReceiverCancel
  <2>1. toR' \in Seq(Packets) /\ ReceiverOnly
    BY <1>1, ReceiverHears DEF ReceiverCancel
  <2>2. QED
    BY <1>1, <2>1, ReceiverGivesUp DEF ReceiverCancel
<1>2. CASE ReceiverIgnores
  <2>1. rcv' = rcv /\ snd' = snd /\ UNCHANGED history /\ rcv.step = "idle"
        /\ toR' \in Seq(Packets) /\ UNCHANGED cardVars
    BY <1>2, ReceiverFacts DEF ReceiverIgnores, ReceiverOnly, Ready
  <2>2. PartOnly
    BY <2>1, ReceiverFacts, PartSteps DEF cardVars, Untouched
  <2>3. QED
    BY <2>1, <2>2, ReceiverFacts, Keeping
<1>3. QED
  BY <1>1, <1>2

LEMMA ReceiverCompleteStep == IInv /\ ReceiverComplete => IInv'
<1> SUFFICES ASSUME IInv, ReceiverComplete PROVE IInv'
  OBVIOUS
<1>1. /\ rcv \in ReceiverRecords /\ rcv.step = "idle" /\ CardType
      /\ rcv.paired => rcv.session \in Sessions
      /\ toR' \in Seq(Packets) /\ ReceiverOnly /\ UNCHANGED cardVars
  BY ReceiverHears DEF ReceiverComplete
<1>2. rcv.state \in {"Receiving", "Success"} /\ rcv.paired
  BY ReceiverHears DEF ReceiverComplete, ReceiverExpects
<1>3. PartOnly
  BY <1>1, PartSteps DEF cardVars, Untouched
<1>4. CASE UNCHANGED rcv
  BY <1>1, <1>3, <1>4, ReceiverGoesOn DEF ReceiverComplete
<1>5. ASSUME NEW step \in {"sync", "drop"}, rcv' = [rcv EXCEPT !.step = step],
             rcv.state = "Receiving", step = "sync" => rcv.got = File(rcv.total)
      PROVE  IInv'
  <2>1. rcv' \in ReceiverRecords /\ rcv'.paired = rcv.paired /\ rcv'.session = rcv.session
        /\ rcv'.state = rcv.state /\ rcv'.step = step /\ rcv'.target = rcv.target
        /\ rcv'.got = rcv.got /\ rcv'.total = rcv.total
    BY <1>1, <1>5 DEF ReceiverRecords, FinishSteps
  <2>2. SenderInv'
    BY <1>1 DEF IInv, SenderInv, ReceiverOnly
  <2>3. ReceiverInv'
    BY <1>1, <1>2, <1>5, <2>1 DEF ReceiverInv
  <2>4. UNCHANGED <<files, faults, held>>
    BY <1>1 DEF cardVars, ReceiverOnly, history
  <2>5. CardType' /\ PartInv'
    BY <1>1, <2>1, <2>4 DEF IInv, CardInv, CardType, PartInv, NothingPartial
  <2>6. TargetInv' /\ HeldInv'
    BY <1>1, <2>1, <2>4 DEF IInv, CardInv, TargetInv, HeldInv, Exists
  <2>7. QED
    BY <2>2, <2>3, <2>5, <2>6 DEF IInv, CardInv
<1>6. QED
  BY <1>2, <1>4, <1>5 DEF ReceiverComplete, Verified

-----------------------------------------------------------------------------
(* The file is put in its place.                                           *)

\* finishReceivedFile() goes on.
LEMMA Proceeding ==
    ASSUME IInv, rcv.step # "idle", NEW step \in FinishSteps \ {"sync"}, Goto(step)
    PROVE  /\ SenderInv' /\ ReceiverInv'
           /\ rcv'.step = step /\ rcv'.state = "Receiving" /\ rcv'.target = rcv.target
<1>1. rcv \in ReceiverRecords /\ rcv.paired /\ rcv.session \in Sessions
      /\ rcv.state = "Receiving" /\ rcv' = [rcv EXCEPT !.step = step]
  BY DEF IInv, ReceiverInv, Goto
<1>2. rcv' \in ReceiverRecords /\ rcv'.paired = rcv.paired /\ rcv'.session = rcv.session
      /\ rcv'.state = rcv.state /\ rcv'.step = step /\ rcv'.target = rcv.target
  BY <1>1 DEF ReceiverRecords
<1>3. QED
  BY <1>1, <1>2 DEF Goto, IInv, SenderInv, ReceiverInv

\* It changes nothing but the temporary file.
LEMMA PartFinish ==
    ASSUME IInv, rcv.step # "idle", NEW step \in FinishSteps \ {"sync"}, Goto(step),
           PartOnly, held' = held,
           step \in {"look", "unpark", "park", "publish", "replace"} => files'[Part] # Torn,
           step \in {"look", "publish"} => rcv.step \in {"sync", "look"},
           step \in {"unpark", "park", "replace", "restore"} => rcv.target = Name,
           step \in {"unpark", "park", "tidy"} => Exists(Name)
    PROVE  IInv'
<1>1. /\ SenderInv' /\ ReceiverInv'
      /\ rcv'.step = step /\ rcv'.state = "Receiving" /\ rcv'.target = rcv.target
  BY Proceeding
<1>2. \A path \in {Name, Copy, Backup} : files'[path] = files[path]
  BY DEF PartOnly
<1>3. rcv.state = "Receiving"
  BY DEF IInv, ReceiverInv
<1>4. PartInv'
  BY <1>1, <1>2 DEF IInv, CardInv, PartInv, NothingPartial
<1>5. TargetInv'
  <2>1. step \in {"idle", "sync", "look", "publish"} => rcv.step \in {"sync", "look"}
    BY DEF FinishSteps
  <2>2. QED
    BY <1>1, <1>2, <1>3, <2>1 DEF IInv, CardInv, TargetInv, Exists
<1>6. HeldInv'
  BY <1>2 DEF IInv, CardInv, HeldInv, Exists
<1>7. QED
  BY <1>1, <1>4, <1>5, <1>6 DEF IInv, CardInv, PartOnly

\* A rename, or a removal, that fails leaves the card as it was.
LEMMA FailedSteps ==
    ASSUME CardType, NEW from, NEW to
    PROVE  /\ Fails => PartOnly /\ files' = files
           /\ RenameFails(from, to) => PartOnly /\ files' = files
           /\ ClearFails(from) => PartOnly /\ files' = files
  BY DEF CardType, Fails, RenameFails, ClearFails, Untouched, Fault, PartOnly

LEMMA FinishSyncStep == IInv /\ FinishSync => IInv'
<1> SUFFICES ASSUME IInv, FinishSync PROVE IInv'
  OBVIOUS
<1>1. rcv.step = "sync" /\ CardType /\ held' = held /\ rcv.session \in Sessions
      /\ rcv.got = File(rcv.total)
  BY DEF FinishSync, history, IInv, CardInv, ReceiverInv
<1>2. CASE Fails /\ Goto("drop")
  BY <1>1, <1>2, FailedSteps, PartFinish DEF FinishSteps
<1>3. CASE Written(Part, rcv.session) /\ Goto("look")
  <2>1. PartOnly /\ files'[Part] = rcv.session
    BY <1>1, <1>3 DEF Written, Unharmed, CardType, Contents, PartOnly
  <2>2. QED
    BY <1>1, <1>3, <2>1, PartFinish DEF FinishSteps
<1>4. QED
  BY <1>1, <1>2, <1>3 DEF FinishSync

LEMMA FinishLookStep == IInv /\ FinishLook => IInv'
<1> SUFFICES ASSUME IInv, FinishLook PROVE IInv'
  OBVIOUS
<1>1. rcv.step = "look" /\ CardType /\ held' = held /\ PartOnly /\ files' = files
      /\ files[Part] # Torn /\ rcv.target \in {Name, Copy} /\ rcv.state = "Receiving"
      /\ (rcv.target = Copy => ~Exists(Copy))
  BY FailedSteps DEF FinishLook, history, IInv, CardInv, PartInv, TargetInv, ReceiverInv,
     ReceiverRecords, Untouched, CardType, PartOnly
<1>2. CASE Exists(rcv.target)
  <2>1. rcv.target = Name /\ Exists(Name) /\ Goto("unpark")
    BY <1>1, <1>2 DEF FinishLook
  <2>2. QED
    BY <1>1, <2>1, PartFinish DEF FinishSteps
<1>3. CASE ~Exists(rcv.target)
  <2>1. Goto("publish")
    BY <1>3 DEF FinishLook
  <2>2. QED
    BY <1>1, <2>1, PartFinish DEF FinishSteps
<1>4. QED
  BY <1>2, <1>3

LEMMA FinishDropStep == IInv /\ (FinishDrop \/ FinishFailed) => IInv'
<1> SUFFICES ASSUME IInv, FinishDrop \/ FinishFailed PROVE IInv'
  OBVIOUS
<1>1. CardType /\ rcv.step # "idle"
  BY DEF FinishDrop, FinishFailed, IInv, CardInv
<1>2. CASE FinishDrop
  <2>1. PartOnly
    BY <1>1, <1>2 DEF FinishDrop, MayRemove, Cleared, ClearFails, Removed, Unharmed, Untouched,
       Fails, Fault, CardType, Contents, PartOnly
  <2>2. QED
    BY <1>1, <1>2, <2>1, PartFinish DEF FinishDrop, history, FinishSteps
<1>3. CASE FinishFailed
  BY <1>3, ReceiverFacts, ReceiverGivesUp DEF FinishFailed
<1>4. QED
  BY <1>2, <1>3

LEMMA FinishDoneStep == IInv /\ FinishDone => IInv'
<1> SUFFICES ASSUME IInv, FinishDone PROVE IInv'
  OBVIOUS
<1>1. rcv \in ReceiverRecords /\ CardType /\ toR \in Seq(Packets)
      /\ (rcv.paired => rcv.session \in Sessions)
  BY ReceiverFacts
<1>2. rcv' = [rcv EXCEPT !.state = "Success", !.step = "idle"] /\ Untouched
      /\ snd' = snd /\ UNCHANGED history /\ toR' = toR
  BY DEF FinishDone
<1>3. rcv' \in ReceiverRecords /\ rcv'.step = "idle" /\ rcv'.state = "Success"
      /\ rcv'.paired = rcv.paired /\ rcv'.session = rcv.session
  BY <1>1, <1>2 DEF ReceiverRecords, ReceiverStates
<1>4. PartOnly
  BY <1>1, <1>2, PartSteps
<1>5. QED
  BY <1>1, <1>2, <1>3, <1>4, Keeping

\* Where the steps that replace a file stand.
LEMMA ReplaceFacts ==
    ASSUME IInv, rcv.step \in {"unpark", "park", "publish", "replace", "restore", "tidy"}
    PROVE  /\ CardType /\ rcv.step # "idle" /\ NothingPartial /\ HeldInv
           /\ rcv.target \in {Name, Copy}
           /\ rcv.step \in {"unpark", "park", "replace", "restore"} => rcv.target = Name
           /\ rcv.step \in {"unpark", "park", "tidy"} => Exists(Name)
           /\ rcv.step \in {"unpark", "park", "publish", "replace"} => files[Part] # Torn
  BY DEF IInv, CardInv, PartInv, TargetInv, ReceiverInv, ReceiverRecords

LEMMA ClearBackupStep == IInv /\ (FinishUnpark \/ FinishTidy) => IInv'
<1> SUFFICES ASSUME IInv, FinishUnpark \/ FinishTidy PROVE IInv'
  OBVIOUS
<1>1. rcv.step \in {"unpark", "tidy"} /\ MayRemove(Backup) /\ held' = held
      /\ ((Goto("park") /\ rcv.step = "unpark") \/ Goto("done"))
  BY DEF FinishUnpark, FinishTidy, history
<1>2. CardType /\ NothingPartial /\ HeldInv /\ Exists(Name)
      /\ (rcv.step = "unpark" => rcv.target = Name /\ files[Part] # Torn)
  BY <1>1, ReplaceFacts
<1>3. CardType' /\ files'[Backup] \in {files[Backup], Absent}
      /\ \A path \in {Name, Copy, Part} : files'[path] = files[path]
  BY <1>1, <1>2 DEF MayRemove, Cleared, ClearFails, Removed, Unharmed, Untouched, Fails, Fault,
     CardType, Contents
<1>4. NothingPartial' /\ HeldInv' /\ Exists(Name)'
  BY <1>1, <1>2, <1>3 DEF NothingPartial, HeldInv, Exists
<1>5. ASSUME NEW step \in {"park", "done"}, Goto(step),
             step = "park" => rcv.step = "unpark"
      PROVE  IInv'
  <2>1. /\ SenderInv' /\ ReceiverInv'
        /\ rcv'.step = step /\ rcv'.state = "Receiving" /\ rcv'.target = rcv.target
    BY <1>1, <1>5, Proceeding DEF FinishSteps
  <2>2. PartInv' /\ TargetInv'
    BY <1>2, <1>3, <1>4, <1>5, <2>1 DEF PartInv, TargetInv
  <2>3. QED
    BY <1>3, <1>4, <2>1, <2>2 DEF IInv, CardInv
<1>6. QED
  BY <1>1, <1>5

LEMMA FinishParkStep == IInv /\ FinishPark => IInv'
<1> SUFFICES ASSUME IInv, FinishPark PROVE IInv'
  OBVIOUS
<1>1. CardType /\ NothingPartial /\ HeldInv /\ Exists(Name) /\ rcv.target = Name
      /\ files[Part] # Torn /\ rcv.step = "park"
  BY ReplaceFacts DEF FinishPark
<1>2. CASE RenameFails(Name, Backup) /\ Goto("drop")
  <2>1. PartOnly /\ files' = files
    BY <1>1, <1>2, FailedSteps
  <2>2. held' = held
    BY <1>1, <2>1 DEF FinishPark, Noted, HeldInv, Exists
  <2>3. QED
    BY <1>1, <1>2, <2>1, <2>2, PartFinish DEF FinishSteps
<1>3. CASE Renamed(Name, Backup) /\ Goto("replace")
  <2>1. CardType' /\ files'[Name] = Absent /\ files'[Backup] = files[Name]
        /\ files'[Copy] = files[Copy] /\ files'[Part] = files[Part]
    BY <1>1, <1>3 DEF Renamed, Movable, Unharmed, CardType, Contents
  <2>2. held' = held
    BY <2>1 DEF FinishPark, Noted
  <2>3. NothingPartial' /\ HeldInv'
    BY <1>1, <2>1, <2>2 DEF NothingPartial, HeldInv, Exists
  <2>4. /\ SenderInv' /\ ReceiverInv'
        /\ rcv'.step = "replace" /\ rcv'.state = "Receiving" /\ rcv'.target = rcv.target
    BY <1>1, <1>3, Proceeding DEF FinishSteps
  <2>5. PartInv' /\ TargetInv'
    BY <1>1, <2>1, <2>3, <2>4 DEF PartInv, TargetInv
  <2>6. QED
    BY <2>1, <2>3, <2>4, <2>5 DEF IInv, CardInv
<1>4. QED
  BY <1>1, <1>2, <1>3 DEF FinishPark

LEMMA FinishRenameStep == IInv /\ FinishRename => IInv'
<1> SUFFICES ASSUME IInv, FinishRename PROVE IInv'
  OBVIOUS
<1>1. CardType /\ NothingPartial /\ HeldInv /\ rcv.target \in {Name, Copy}
      /\ (rcv.step = "replace" => rcv.target = Name)
      /\ files[Part] # Torn /\ rcv.step \in {"publish", "replace"}
  BY ReplaceFacts DEF FinishRename
<1>2. CASE RenameFails(Part, rcv.target)
           /\ Goto(IF rcv.step = "replace" THEN "restore" ELSE "drop")
  <2>1. PartOnly /\ files' = files
    BY <1>1, <1>2, FailedSteps
  <2>2. held' = held
    BY <1>1, <2>1 DEF FinishRename, Noted, HeldInv, Exists
  <2>3. QED
    BY <1>1, <1>2, <2>1, <2>2, PartFinish DEF FinishSteps
<1>3. CASE Renamed(Part, rcv.target)
           /\ Goto(IF rcv.step = "replace" THEN "tidy" ELSE "done")
  <2>1. CardType' /\ files'[rcv.target] = files[Part] /\ files[Part] # Absent
        /\ ~Exists(rcv.target)
        /\ \A path \in {Name, Copy, Backup} \ {rcv.target} : files'[path] = files[path]
    BY <1>1, <1>3 DEF Renamed, Movable, Unharmed, Exists, CardType, Contents
  <2>2. held' = IF files'[Name] = Absent THEN held ELSE files'[Name]
    BY DEF FinishRename, Noted
  <2>3. NothingPartial'
    BY <1>1, <2>1 DEF NothingPartial
  <2>4. HeldInv' /\ (rcv.target = Name => Exists(Name)')
    <3>1. CASE rcv.target = Name
      BY <1>1, <2>1, <2>2, <3>1 DEF HeldInv, Exists, CardType, Contents
    <3>2. CASE rcv.target = Copy
      BY <1>1, <2>1, <2>2, <3>2 DEF HeldInv, Exists
    <3>3. QED
      BY <1>1, <3>1, <3>2
  <2>5. /\ SenderInv' /\ ReceiverInv'
        /\ rcv'.step \in {"tidy", "done"} /\ rcv'.state = "Receiving"
        /\ (rcv'.step = "tidy" => rcv.target = Name)
    <3>1. CASE rcv.step = "replace"
      BY <1>1, <1>3, <3>1, Proceeding DEF FinishSteps
    <3>2. CASE rcv.step = "publish"
      BY <1>1, <1>3, <3>2, Proceeding DEF FinishSteps
    <3>3. QED
      BY <1>1, <3>1, <3>2
  <2>6. PartInv' /\ TargetInv'
    BY <2>3, <2>4, <2>5 DEF PartInv, TargetInv
  <2>7. QED
    BY <2>1, <2>3, <2>4, <2>5, <2>6 DEF IInv, CardInv
<1>4. QED
  BY <1>2, <1>3 DEF FinishRename

LEMMA FinishRestoreStep == IInv /\ FinishRestore => IInv'
<1> SUFFICES ASSUME IInv, FinishRestore PROVE IInv'
  OBVIOUS
<1>1. CardType /\ NothingPartial /\ HeldInv /\ rcv.target = Name /\ rcv.step = "restore"
  BY ReplaceFacts DEF FinishRestore
<1>2. CASE RenameFails(Backup, Name)
  <2>1. PartOnly /\ files' = files
    BY <1>1, <1>2, FailedSteps
  <2>2. held' = held
    BY <1>1, <2>1 DEF FinishRestore, Noted, HeldInv, Exists
  <2>3. QED
    BY <1>1, <2>1, <2>2, PartFinish DEF FinishRestore, FinishSteps
<1>3. CASE Renamed(Backup, Name)
  <2>1. CardType' /\ files'[Name] = files[Backup] /\ files'[Backup] = Absent
        /\ files'[Copy] = files[Copy] /\ files[Backup] # Absent /\ ~Exists(Name)
    BY <1>1, <1>3 DEF Renamed, Movable, Unharmed, Exists, CardType, Contents
  <2>2. held' = files[Backup]
    BY <2>1 DEF FinishRestore, Noted
  <2>3. NothingPartial' /\ HeldInv'
    BY <1>1, <2>1, <2>2 DEF NothingPartial, HeldInv, Exists, CardType, Contents
  <2>4. /\ SenderInv' /\ ReceiverInv'
        /\ rcv'.step = "drop" /\ rcv'.state = "Receiving" /\ rcv'.target = rcv.target
    BY <1>1, Proceeding DEF FinishRestore, FinishSteps
  <2>5. PartInv' /\ TargetInv'
    BY <2>3, <2>4 DEF PartInv, TargetInv
  <2>6. QED
    BY <2>1, <2>3, <2>4, <2>5 DEF IInv, CardInv
<1>4. QED
  BY <1>1, <1>2, <1>3 DEF FinishRestore, MayRename

LEMMA StepIInv == IInv /\ [Next]_vars => IInv'
<1> SUFFICES ASSUME IInv, [Next]_vars PROVE IInv'
  OBVIOUS
<1>1. CASE UNCHANGED vars
  <2>1. UNCHANGED <<files, faults, snd, rcv, toR, held>>
    BY <1>1 DEF vars, cardVars, history
  <2>2. SenderInv' /\ ReceiverInv'
    BY <2>1 DEF IInv, SenderInv, ReceiverInv
  <2>3. CardType' /\ PartInv'
    BY <2>1 DEF IInv, CardInv, CardType, PartInv, NothingPartial
  <2>4. TargetInv' /\ HeldInv'
    BY <2>1 DEF IInv, CardInv, TargetInv, HeldInv, Exists
  <2>5. QED
    BY <2>2, <2>3, <2>4 DEF IInv, CardInv
<1>2. CASE Users
  BY <1>2, SenderStartStep, SelectPeerStep, SenderExitStep, ReceiverUsersStep, AcceptAsStep
     DEF Users
<1>3. CASE SenderPackets \/ SenderTimers
  BY <1>3, SenderPacketsStep, SenderTimersStep
<1>4. CASE ReceiverPackets
  BY <1>4, ReceiverDiscoverStep, ReceiverOfferStep, ReceiverDataStep, ReceiverCompleteStep,
     ReceiverCancelStep DEF ReceiverPackets
<1>5. CASE Finish
  BY <1>5, FinishSyncStep, FinishLookStep, ClearBackupStep, FinishParkStep, FinishRenameStep,
     FinishRestoreStep, FinishDoneStep, FinishDropStep DEF Finish
<1>6. CASE DrawReceiving \/ SendPendingAccept \/ ReceiveTimer \/ ReceiverPowerLoss
  BY <1>6, DrawReceivingStep, ReceiverLoopStep, ReceiverPowerLossStep
<1>7. QED
  BY <1>1, <1>2, <1>3, <1>4, <1>5, <1>6 DEF Next

-----------------------------------------------------------------------------
(* The protocol.                                                           *)

Before == {"Discovering", "DeviceList", "WaitingForApproval"}

Prompts == {"OfferPrompt", "CollisionPrompt"}

Chunks == {"Data", "Complete"}

\* The sender has offered session s and will not do it again.
Begun(s) == s < snd.session \/ snd.state \notin Before

\* No offer of session s can reach a user any more.
Closed(s) ==
    /\ s \in Sessions /\ s <= snd.session /\ Begun(s)
    /\ ~(rcv.session = s /\ rcv.state \in Prompts)
    /\ \A m \in Range(toR) : m.type = "Offer" => m.session # s

\* How many chunks of its file the sender has sent.
Sent == IF snd.pending THEN snd.next + 1 ELSE snd.next

\* Both devices are in the same transfer.
Meet == snd.state # "Off" /\ rcv.state = "Receiving" /\ rcv.session = snd.session

Ordered(q) == \A i, j \in 1..Len(q) :
    i < j /\ q[i].session = q[j].session /\ q[i].type \in Chunks => q[j].type # "Offer"

TypeInv ==
    /\ toS \in Seq(Packets) /\ placed \in Seq(Sessions)
    /\ snd.retries \in 0..MaxRetries \cup 0..MaxApprovals
    /\ rcv.total \in 0..MaxChunks
    /\ \A m \in Range(toR) : m.type = "Offer" => m.arg <= MaxChunks

\* Nothing is known of a session before it begins.
KnownInv ==
    /\ rcv.session <= snd.session
    /\ rcv.state \in Prompts \cup {"Receiving"} \/ rcv.accept => rcv.session \in Sessions
    /\ \A m \in Range(toR) : m.session <= snd.session
    /\ \A m \in Range(toS) : m.session <= snd.session

CountInv ==
    /\ snd.state = "Off" => ~snd.paired
    /\ snd.state \in Before => snd.next = 0 /\ ~snd.pending
    /\ snd.state = "Sending" => snd.pending = (snd.next # snd.total)
    /\ Sent <= snd.total

\* No offer follows a chunk.
OrderInv ==
    /\ Ordered(toR)
    /\ \A m \in Range(toR) : m.type \in Chunks => Begun(m.session)

SentInv == snd.state # "Off" =>
    /\ snd.next >= 1 => Closed(snd.session)
    /\ \A m \in Range(toR) : m.type = "Data" /\ m.session = snd.session => m.arg < Sent
    /\ \A m \in Range(toS) : m.type = "Ack" /\ m.session = snd.session => m.arg <= Sent

MeetInv == Meet =>
    /\ rcv.got = File(Len(rcv.got))
    /\ snd.next <= Len(rcv.got) /\ Len(rcv.got) <= Sent
    /\ \A m \in Range(toS) :
          m.type = "Ack" /\ m.session = snd.session => m.arg <= Len(rcv.got)

\* What has been received of a session cannot be asked about again.
ClosedInv ==
    /\ \A m \in Range(toS) : m.type = "Ack" /\ m.arg >= 1 => Closed(m.session)
    /\ \A s \in Range(placed) : Closed(s)
    /\ rcv.state = "Receiving" /\ (rcv.got # <<>> \/ rcv.step # "idle")
       => Closed(rcv.session)

PlacedInv ==
    /\ \A m \in Range(toS) :
          m.type = "Result" /\ m.arg = ResultOk => m.session \in Range(placed)
    /\ rcv.state = "Receiving" =>
          (rcv.session \in Range(placed) <=> rcv.step \in {"tidy", "done"})
    /\ rcv.state = "Success" => rcv.session \in Range(placed)

Protocol ==
    /\ TypeInv /\ KnownInv /\ CountInv /\ OrderInv
    /\ SentInv /\ MeetInv /\ ClosedInv /\ PlacedInv

LEMMA InitProtocol == Init => Protocol
<1> SUFFICES ASSUME Init PROVE Protocol
  OBVIOUS
<1>1. snd = [state |-> "Off", session |-> 0, paired |-> FALSE, total |-> 0,
             next |-> 0, pending |-> FALSE, retries |-> 0]
  BY DEF Init, IdleSender
<1>2. rcv = [state |-> "ChooseReceiveAction", session |-> 0, paired |-> FALSE,
             total |-> 0, target |-> Name, got |-> <<>>, opened |-> FALSE,
             drawn |-> FALSE, accept |-> FALSE, step |-> "idle"]
  BY DEF Init, IdleReceiver
<1>3. toS = <<>> /\ toR = <<>> /\ placed = <<>>
  BY DEF Init
<1>4. Range(toS) = {} /\ Range(toR) = {} /\ Range(placed) = {}
  BY <1>3 DEF Range
<1>5. TypeInv /\ KnownInv /\ CountInv
  <2>1. <<>> \in Seq(Packets) /\ <<>> \in Seq(Sessions)
    BY EmptySeq
  <2>2. 0 \in 0..MaxRetries \cup 0..MaxApprovals /\ 0 \in 0..MaxChunks
    OBVIOUS
  <2>3. TypeInv
    <3>1. snd.retries = 0 /\ rcv.total = 0
      BY <1>1, <1>2
    <3>2. QED
      BY <1>3, <1>4, <2>1, <2>2, <3>1 DEF TypeInv
  <2>4. KnownInv /\ CountInv
    BY <1>1, <1>2, <1>4 DEF KnownInv, CountInv, Sent, Before, Prompts
  <2>5. QED
    BY <2>3, <2>4
<1>6. OrderInv /\ SentInv
  BY <1>1, <1>3, <1>4 DEF OrderInv, Ordered, SentInv
<1>7. MeetInv /\ ClosedInv /\ PlacedInv
  BY <1>1, <1>2, <1>4 DEF MeetInv, Meet, ClosedInv, PlacedInv
<1>8. QED
  BY <1>5, <1>6, <1>7 DEF Protocol

-----------------------------------------------------------------------------
(* Queues.                                                                 *)

LEMMA PacketsOf ==
    ASSUME NEW q \in Seq(Packets), NEW m \in Range(q)
    PROVE  m \in Packets /\ m.session \in Sessions /\ m.session \in Nat /\ m.arg \in Nat
<1>1. m \in Packets
  BY DEF Range
<1>2. QED
  BY <1>1 DEF Packets, Sessions

LEMMA Single ==
    ASSUME NEW p \in Packets
    PROVE  <<p>> \in Seq(Packets) /\ Range(<<p>>) = {p}
<1>1. <<p>> \in Seq(Packets) /\ Len(<<p>>) = 1 /\ <<p>>[1] = p /\ DOMAIN <<p>> = {1}
  OBVIOUS
<1>2. QED
  BY <1>1 DEF Range

LEMMA ConcatRange ==
    ASSUME NEW q \in Seq(Packets), NEW s \in Seq(Packets)
    PROVE  q \o s \in Seq(Packets) /\ Range(q \o s) \subseteq Range(q) \cup Range(s)
<1> DEFINE r == q \o s
<1>1. /\ r \in Seq(Packets) /\ Len(r) = Len(q) + Len(s)
      /\ \A i \in 1..Len(r) : r[i] = IF i <= Len(q) THEN q[i] ELSE s[i - Len(q)]
  BY ConcatProperties
<1>2. DOMAIN r = 1..Len(r)
  BY <1>1
<1>3. Len(q) \in Nat /\ Len(s) \in Nat
  BY LenProperties
<1> HIDE DEF r
<1>4. ASSUME NEW m \in Range(r) PROVE m \in Range(q) \cup Range(s)
  <2>1. PICK i \in 1..Len(r) : m = r[i]
    BY <1>2 DEF Range
  <2>2. CASE i <= Len(q)
    BY <1>1, <1>3, <2>1, <2>2 DEF Range
  <2>3. CASE i > Len(q)
    <3>1. i - Len(q) \in 1..Len(s)
      BY <1>1, <1>3, <2>3
    <3>2. s[i - Len(q)] \in Range(s)
      BY <3>1 DEF Range
    <3>3. QED
      BY <1>1, <1>3, <2>1, <2>3, <3>2
  <2>4. QED
    BY <1>1, <1>3, <2>2, <2>3
<1>5. QED
  BY <1>1, <1>4 DEF r

LEMMA QueueGrows ==
    ASSUME NEW q \in Seq(Packets), NEW ms \in Seq(Packets), NEW r \in Queued(q, ms)
    PROVE  r \in Seq(Packets) /\ Range(r) \subseteq Range(q) \cup Range(ms)
<1>1. PICK s \in SomeOf(ms) : r = q \o s
  BY DEF Queued
<1>2. s \in Seq(Packets) /\ Range(s) \subseteq Range(ms)
  <2>1. CASE s = <<>>
    BY <2>1, NoPackets DEF Range
  <2>2. CASE s = ms
    BY <2>2
  <2>3. ASSUME NEW i \in 1..Len(ms), s = <<ms[i]>> PROVE <1>2
    BY <2>3 DEF Range
  <2>4. QED
    BY <2>1, <2>2, <2>3 DEF SomeOf
<1>3. QED
  BY <1>1, <1>2, ConcatRange

LEMMA QueueKeepsOrder ==
    ASSUME NEW q \in Seq(Packets), NEW p \in Packets, NEW r \in Queued(q, <<p>>),
           Ordered(q),
           p.type = "Offer" =>
              \A m \in Range(q) : m.session = p.session => m.type \notin Chunks
    PROVE  Ordered(r)
<1>1. PICK s \in SomeOf(<<p>>) : r = q \o s
  BY DEF Queued
<1>2. s = <<>> \/ s = <<p>>
  BY DEF SomeOf
<1>3. s \in Seq(Packets)
  <2>1. <<p>> \in Seq(Packets)
    OBVIOUS
  <2>2. QED
    BY <1>2, <2>1, NoPackets
<1>4. /\ r \in Seq(Packets) /\ Len(r) = Len(q) + Len(s)
      /\ \A i \in 1..Len(r) : r[i] = IF i <= Len(q) THEN q[i] ELSE s[i - Len(q)]
  BY <1>1, <1>3, ConcatProperties
<1>5. Len(q) \in Nat /\ Len(s) \in {0, 1}
  BY <1>2, LenProperties
<1>6. SUFFICES ASSUME NEW i \in 1..Len(r), NEW j \in 1..Len(r), i < j,
                      r[i].session = r[j].session, r[i].type \in Chunks
               PROVE  r[j].type # "Offer"
  BY DEF Ordered
<1>7. i \in 1..Len(q) /\ r[i] = q[i] /\ q[i] \in Range(q)
  BY <1>4, <1>5, <1>6 DEF Range
<1>8. CASE j <= Len(q)
  BY <1>4, <1>5, <1>6, <1>7, <1>8 DEF Ordered
<1>9. CASE j > Len(q)
  <2>1. s = <<p>> /\ r[j] = p
    BY <1>2, <1>4, <1>5, <1>9
  <2>2. QED
    BY <1>6, <1>7, <2>1
<1>10. QED
  BY <1>5, <1>8, <1>9

LEMMA QueueShrinks ==
    ASSUME NEW q \in Seq(Packets), q # <<>>
    PROVE  /\ Tail(q) \in Seq(Packets) /\ Range(Tail(q)) \subseteq Range(q)
           /\ Head(q) \in Packets /\ Head(q) \in Range(q)
           /\ Ordered(q) => Ordered(Tail(q))
           /\ Ordered(q) /\ Head(q).type \in Chunks =>
                 \A m \in Range(q) : m.session = Head(q).session => m.type # "Offer"
<1> DEFINE t == Tail(q)
<1>1. t \in Seq(Packets) /\ Len(q) \in Nat \ {0} /\ Len(t) = Len(q) - 1 /\ Head(q) = q[1]
  OBVIOUS
<1>2. \A i \in 1..Len(t) : t[i] = q[i + 1] /\ i + 1 \in 1..Len(q)
  BY <1>1
<1>3. Range(t) \subseteq Range(q)
  BY <1>1, <1>2 DEF Range
<1>4. q[1] \in Packets /\ q[1] \in Range(q)
  BY <1>1 DEF Range
<1>5. Ordered(q) => Ordered(t)
  <2> SUFFICES ASSUME Ordered(q), NEW i \in 1..Len(t), NEW j \in 1..Len(t), i < j,
                      t[i].session = t[j].session, t[i].type \in Chunks
               PROVE  t[j].type # "Offer"
    BY DEF Ordered
  <2>1. i + 1 < j + 1
    BY <1>1
  <2>2. QED
    BY <1>2, <2>1 DEF Ordered
<1>6. ASSUME Ordered(q), q[1].type \in Chunks, NEW m \in Range(q), m.session = q[1].session
      PROVE  m.type # "Offer"
  <2>1. PICK i \in 1..Len(q) : m = q[i]
    BY DEF Range
  <2>2. CASE i = 1
    BY <1>6, <2>1, <2>2 DEF Chunks
  <2>3. CASE 1 < i
    BY <1>1, <1>6, <2>1, <2>3 DEF Ordered
  <2>4. QED
    BY <1>1, <2>2, <2>3
<1>7. QED
  BY <1>1, <1>3, <1>4, <1>5, <1>6

-----------------------------------------------------------------------------
(* What is closed stays closed.                                            *)

LEMMA ClosedForGood ==
    ASSUME NEW s, Closed(s), snd.session \in Nat, snd'.session \in Nat,
           snd.session <= snd'.session,
           snd'.session = snd.session /\ snd.state \notin Before => snd'.state \notin Before,
           \A m \in Range(toR') : m.type = "Offer" =>
              m \in Range(toR) \/ (m.session = snd'.session /\ snd'.state \in Before),
           rcv'.state \in Prompts =>
              \/ rcv.state \in Prompts /\ rcv.session = rcv'.session
              \/ \E m \in Range(toR) : m.type = "Offer" /\ m.session = rcv'.session
    PROVE  Closed(s)'
<1>1. s \in Nat /\ s <= snd'.session
  BY DEF Closed, Sessions
<1>2. s < snd'.session \/ snd'.state \notin Before
  BY <1>1 DEF Closed, Begun
<1>3. ASSUME NEW m \in Range(toR'), m.type = "Offer" PROVE m.session # s
  BY <1>1, <1>2, <1>3 DEF Closed
<1>4. ~(rcv'.session = s /\ rcv'.state \in Prompts)
  BY DEF Closed
<1>5. QED
  BY <1>1, <1>2, <1>3, <1>4 DEF Closed, Begun

-----------------------------------------------------------------------------
(* The steps of the sender.                                                *)

\* Packet p may be sent in the state a step leads to.
Truthful(p) ==
    /\ p \in Packets /\ p.session = snd'.session
    /\ p.type = "Offer" => snd'.state \in Before /\ p.arg <= MaxChunks
    /\ p.type = "Data" => p.arg < Sent'
    /\ p.type \in Chunks => snd'.state \notin Before

Leaves == snd'.session = snd.session /\ snd'.state = "Off"

Starts == snd'.session = snd.session + 1 /\ snd'.next = 0

Continues ==
    /\ snd.state # "Off" /\ snd'.session = snd.session
    /\ snd.state \notin Before => snd'.state \notin Before
    /\ Sent <= Sent'
    /\ snd'.next >= 1 => Closed(snd.session)
    /\ Meet => snd'.next <= Len(rcv.got) /\ Len(rcv.got) <= Sent'

LEMMA SenderProtocol ==
    ASSUME IInv, Protocol, SenderOnly, CountInv',
           snd'.retries \in 0..MaxRetries \cup 0..MaxApprovals,
           snd' \in SenderRecords,
           toS' = toS \/ toS' = <<>> \/ (toS # <<>> /\ toS' = Tail(toS)),
           toR' = toR \/ \E p \in Packets : Truthful(p) /\ ToReceiver(<<p>>),
           Leaves \/ Starts \/ Continues
    PROVE  Protocol'
<1>1. rcv' = rcv /\ placed' = placed
  BY DEF SenderOnly, history
<1>2. toS \in Seq(Packets) /\ toR \in Seq(Packets) /\ placed \in Seq(Sessions)
      /\ snd \in SenderRecords /\ rcv \in ReceiverRecords
  BY DEF IInv, SenderInv, ReceiverInv, Protocol, TypeInv
<1>3. toS' \in Seq(Packets) /\ Range(toS') \subseteq Range(toS)
  <2>1. CASE toS' = <<>>
    BY <2>1, NoPackets DEF Range
  <2>2. QED
    BY <1>2, <2>1, QueueShrinks
<1>4. /\ snd.session \in Nat /\ snd'.session \in Nat /\ snd.session <= snd'.session
      /\ snd.next \in Nat /\ snd'.next \in Nat /\ Sent \in Nat /\ Sent' \in Nat
  BY <1>2, SMTT(30) DEF SenderRecords, Leaves, Starts, Continues, Sent
<1>5. /\ toR' \in Seq(Packets)
      /\ \A m \in Range(toR') : m \in Range(toR) \/ Truthful(m)
      /\ Ordered(toR')
  <2>1. CASE toR' = toR
    BY <1>2, <2>1 DEF Protocol, OrderInv
  <2>2. ASSUME NEW p \in Packets, Truthful(p), ToReceiver(<<p>>), toR' # toR PROVE <1>5
    <3>1. toR' \in Queued(toR, <<p>>)
      BY <2>2 DEF ToReceiver
    <3>2. <<p>> \in Seq(Packets) /\ Range(<<p>>) = {p}
      BY <2>2, Single
    <3>3. toR' \in Seq(Packets) /\ Range(toR') \subseteq Range(toR) \cup {p}
      BY <1>2, <3>1, <3>2, QueueGrows
    <3>4. ASSUME NEW m \in Range(toR), m.session = p.session, p.type = "Offer"
          PROVE  m.type \notin Chunks
      <4>1. m.session \in Nat /\ m.session <= snd.session /\ snd'.state \in Before
            /\ m.session = snd'.session /\ (m.type \in Chunks => Begun(m.session))
        BY <1>2, <2>2, <3>4, PacketsOf DEF Truthful, Protocol, KnownInv, OrderInv
      <4>2. QED
        BY <1>4, <4>1 DEF Begun, Leaves, Starts, Continues, Before
    <3>5. Ordered(toR')
      BY <1>2, <3>1, <3>4, QueueKeepsOrder DEF Protocol, OrderInv
    <3>6. QED
      BY <2>2, <3>3, <3>5
  <2>3. QED
    BY <2>1, <2>2
<1>6. ASSUME NEW s, Closed(s) PROVE Closed(s)'
  <2>1. snd'.session = snd.session /\ snd.state \notin Before => snd'.state \notin Before
    BY <1>4 DEF Leaves, Starts, Continues, Before
  <2>2. QED
    BY <1>1, <1>4, <1>5, <1>6, <2>1, ClosedForGood DEF Truthful
<1>7. TypeInv' /\ KnownInv'
  <2>1. TypeInv'
    BY <1>1, <1>3, <1>5 DEF Protocol, TypeInv, Truthful
  <2>2. rcv'.session <= snd'.session
    BY <1>1, <1>2, <1>4 DEF Protocol, KnownInv, ReceiverRecords
  <2>3. ASSUME NEW m \in Range(toR) \cup Range(toS) PROVE m.session <= snd'.session
    BY <1>2, <1>4, PacketsOf DEF Protocol, KnownInv
  <2>4. \A m \in Range(toR') : m.session <= snd'.session
    BY <1>4, <1>5, <2>3 DEF Truthful
  <2>5. QED
    BY <1>1, <1>3, <2>1, <2>2, <2>3, <2>4 DEF KnownInv, Protocol
<1>8. OrderInv'
  <2>1. ASSUME NEW m \in Range(toR), Begun(m.session) PROVE Begun(m.session)'
    <3>1. m.session \in Nat /\ m.session <= snd.session
      BY <1>2, PacketsOf DEF Protocol, KnownInv
    <3>2. QED
      BY <1>4, <2>1, <3>1 DEF Begun, Leaves, Starts, Continues, Before
  <2>2. \A m \in Range(toR') : m.type \in Chunks => Begun(m.session)'
    BY <1>5, <2>1 DEF Protocol, OrderInv, Begun, Truthful
  <2>3. QED
    BY <1>5, <2>2 DEF OrderInv, Begun
<1>9. SentInv'
  <2> SUFFICES ASSUME snd'.state # "Off" PROVE SentInv'
    BY DEF SentInv
  <2>1. CASE Starts
    <3>1. \A m \in Range(toR) \cup Range(toS) : m.session # snd'.session
      BY <1>2, <1>4, <2>1, PacketsOf DEF Starts, Protocol, KnownInv
    <3>2. QED
      BY <1>3, <1>5, <2>1, <3>1 DEF SentInv, Starts, Truthful
  <2>2. CASE Continues
    <3>1. snd'.next >= 1 => Closed(snd.session)'
      <4>1. PICK s : s = snd.session
        OBVIOUS
      <4>2. snd'.next >= 1 => Closed(s)'
        BY <1>6, <2>2, <4>1 DEF Continues
      <4>3. QED
        BY <2>2, <4>1, <4>2 DEF Continues, Closed, Begun
    <3>2. ASSUME NEW m \in Range(toR'), m.type = "Data", m.session = snd'.session
          PROVE  m.arg < Sent'
      BY <1>2, <1>4, <1>5, <2>2, <3>2, PacketsOf DEF Continues, Truthful, Protocol, SentInv
    <3>3. ASSUME NEW m \in Range(toS'), m.type = "Ack", m.session = snd'.session
          PROVE  m.arg <= Sent'
      BY <1>2, <1>3, <1>4, <2>2, <3>3, PacketsOf DEF Continues, Protocol, SentInv
    <3>4. QED
      BY <3>1, <3>2, <3>3 DEF SentInv
  <2>3. QED
    BY <2>1, <2>2 DEF Leaves
<1>10. MeetInv'
  <2> SUFFICES ASSUME Meet' PROVE MeetInv'
    BY DEF MeetInv
  <2>1. Continues
    BY <1>1, <1>2, <1>4 DEF Meet, Leaves, Starts, Protocol, KnownInv, ReceiverRecords
  <2>2. Meet
    BY <1>1, <2>1 DEF Meet, Continues
  <2>3. QED
    BY <1>1, <1>3, <2>1, <2>2 DEF MeetInv, Continues, Protocol
<1>11. ClosedInv' /\ PlacedInv'
  BY <1>1, <1>3, <1>6 DEF ClosedInv, PlacedInv, Protocol
<1>12. QED
  BY <1>7, <1>8, <1>9, <1>10, <1>11 DEF Protocol

\* The number of chunks sent, and the session, stay.
LEMMA SenderRests ==
    ASSUME snd \in SenderRecords, snd.state # "Off", snd'.session = snd.session,
           snd'.next = snd.next, snd'.pending = snd.pending,
           snd.state \notin Before => snd'.state \notin Before,
           IInv, Protocol
    PROVE  Continues
<1>1. Sent' = Sent /\ Sent \in Nat
  BY DEF Sent, SenderRecords
<1>2. Meet => snd'.next <= Len(rcv.got) /\ Len(rcv.got) <= Sent'
  BY <1>1 DEF Protocol, MeetInv
<1>3. snd'.next >= 1 => Closed(snd.session)
  BY DEF Protocol, SentInv
<1>4. QED
  BY <1>1, <1>2, <1>3 DEF Continues

LEMMA SenderFacts ==
    ASSUME IInv, Protocol
    PROVE  /\ snd \in SenderRecords /\ CountInv
           /\ snd.retries \in 0..MaxRetries \cup 0..MaxApprovals
           /\ snd.total \in 0..MaxChunks /\ snd.next \in Nat /\ snd.pending \in BOOLEAN
           /\ snd.session \in 0..MaxSessions /\ MaxChunks \in Nat
           /\ snd.state # "Off" => snd.session \in Sessions
  BY DEF IInv, SenderInv, SenderRecords, Protocol, TypeInv

\* What is said of the current session is a packet.
LEMMA Saying ==
    ASSUME IInv, Protocol, snd.state # "Off", snd'.session = snd.session,
           \E type \in Types, arg \in Nat :
              /\ type = "Offer" => snd'.state \in Before /\ arg <= MaxChunks
              /\ type = "Data" => arg < Sent'
              /\ type \in Chunks => snd'.state \notin Before
              /\ ToReceiver(Say(type, arg))
    PROVE  \E p \in Packets : Truthful(p) /\ ToReceiver(<<p>>)
<1>1. PICK type \in Types, arg \in Nat :
         /\ type = "Offer" => snd'.state \in Before /\ arg <= MaxChunks
         /\ type = "Data" => arg < Sent'
         /\ type \in Chunks => snd'.state \notin Before
         /\ ToReceiver(Say(type, arg))
  OBVIOUS
<1>2. PICK p : p = Packet(type, snd.session, arg)
  OBVIOUS
<1>3. p = [type |-> type, session |-> snd.session, arg |-> arg]
  BY <1>2 DEF Packet
<1>4. p \in Packets
  BY <1>3, SenderFacts DEF Packets
<1>5. Truthful(p)
  BY <1>1, <1>3, <1>4 DEF Truthful
<1>6. ToReceiver(<<p>>)
  BY <1>1, <1>2 DEF Say
<1>7. QED
  BY <1>4, <1>5, <1>6

LEMMA SayingNothing == ASSUME IInv, ToReceiver(<<>>) PROVE toR' = toR
<1>1. SomeOf(<<>>) = {<<>>}
  BY DEF SomeOf
<1>2. toR \in Seq(Packets) /\ toR \o <<>> = toR
  BY ConcatEmptySeq DEF IInv, SenderInv
<1>3. QED
  BY <1>1, <1>2 DEF ToReceiver, Queued

\* setError() in the sender.
LEMMA SenderFailsProtocol ==
    ASSUME IInv, Protocol, SenderOnly, snd.state # "Off", SenderFails,
           toS' = toS \/ (toS # <<>> /\ toS' = Tail(toS))
    PROVE  Protocol'
<1>1. snd' = [snd EXCEPT !.state = "Error"]
  BY DEF SenderFails
<1>2. /\ snd' \in SenderRecords /\ snd'.state = "Error" /\ snd'.session = snd.session
      /\ snd'.next = snd.next /\ snd'.pending = snd.pending /\ snd'.total = snd.total
      /\ snd'.retries = snd.retries
  BY <1>1, SenderFacts DEF SenderRecords, SenderStates
<1>3. Continues
  BY <1>2, SenderRests, SenderFacts DEF Before
<1>4. CountInv'
  BY <1>2, SenderFacts DEF CountInv, Sent, Before
<1>5. toR' = toR \/ \E p \in Packets : Truthful(p) /\ ToReceiver(<<p>>)
  <2>1. CASE ToReceiver(Say("Cancel", 0))
    <3>1. "Cancel" \in Types /\ "Cancel" \notin Chunks
      BY DEF Types, Chunks
    <3>2. QED
      BY <1>2, <2>1, <3>1, Saying
  <2>2. CASE ToReceiver(<<>>)
    BY <2>2, SayingNothing
  <2>3. QED
    BY <2>1, <2>2 DEF SenderFails
<1>6. QED
  BY <1>2, <1>3, <1>4, <1>5, SenderFacts, SenderProtocol

SaysSomething ==
    \/ toR' = toR
    \/ \E type \in Types, arg \in Nat :
          /\ type = "Offer" => snd'.state \in Before /\ arg <= MaxChunks
          /\ type = "Data" => arg < Sent'
          /\ type \in Chunks => snd'.state \notin Before
          /\ ToReceiver(Say(type, arg))

\* A step that neither sends another chunk nor goes back to the offers.
LEMMA SenderWaits ==
    ASSUME IInv, Protocol, SenderOnly, snd' \in SenderRecords,
           snd.state # "Off", snd'.state # "Off", snd'.session = snd.session,
           snd'.next = snd.next, snd'.pending = snd.pending, snd'.total = snd.total,
           snd'.retries \in 0..MaxRetries \cup 0..MaxApprovals,
           snd'.state \in Before => snd.state \in Before,
           snd'.state = "Sending" => snd.state = "Sending",
           toS' = toS \/ (toS # <<>> /\ toS' = Tail(toS)),
           SaysSomething
    PROVE  Protocol'
<1>1. Continues
  BY SenderRests, SenderFacts
<1>2. CountInv'
  BY SenderFacts DEF CountInv, Sent, Before
<1>3. toR' = toR \/ \E p \in Packets : Truthful(p) /\ ToReceiver(<<p>>)
  BY Saying DEF SaysSomething
<1>4. QED
  BY <1>1, <1>2, <1>3, SenderProtocol

LEMMA SenderStartProtocol == IInv /\ Protocol /\ SenderStart => Protocol'
<1> SUFFICES ASSUME IInv, Protocol, SenderStart PROVE Protocol'
  OBVIOUS
<1>1. PICK n \in 0..MaxChunks, state \in {"Discovering", "Error"} :
          snd' = [IdleSender(snd.session + 1) EXCEPT !.total = n, !.state = state]
  BY DEF SenderStart
<1>2. snd.session \in Nat /\ snd.session + 1 \in Sessions /\ snd.session + 1 \in 0..MaxSessions
  BY SenderFacts DEF SenderStart, Sessions
<1>3. snd' = [state |-> state, session |-> snd.session + 1, paired |-> FALSE, total |-> n,
              next |-> 0, pending |-> FALSE, retries |-> 0]
  BY <1>1 DEF IdleSender
<1>4. snd' \in SenderRecords /\ Starts
  BY <1>2, <1>3 DEF SenderRecords, SenderStates, Starts
<1>5. CountInv'
  <2>1. snd'.state = state /\ snd'.total = n /\ snd'.next = 0 /\ snd'.pending = FALSE
    BY <1>3
  <2>2. state # "Off" /\ state # "Sending" /\ n \in Nat
    OBVIOUS
  <2>3. QED
    BY <2>1, <2>2 DEF CountInv, Sent
<1>6. snd'.retries \in 0..MaxRetries \cup 0..MaxApprovals
  BY <1>3
<1>7. toR' = toR \/ \E p \in Packets : Truthful(p) /\ ToReceiver(<<p>>)
  <2>1. PICK p : p = Packet("Discover", snd'.session, 0)
    OBVIOUS
  <2>2. p = [type |-> "Discover", session |-> snd'.session, arg |-> 0]
    BY <2>1 DEF Packet
  <2>3. p \in Packets /\ Truthful(p)
    BY <1>2, <1>3, <2>2 DEF Packets, Types, Truthful, Chunks
  <2>4. QED
    BY <2>1, <2>3 DEF SenderStart
<1>8. toS' = toS /\ SenderOnly
  BY DEF SenderStart
<1>9. QED
  BY <1>4, <1>5, <1>6, <1>7, <1>8, SenderProtocol

LEMMA SelectPeerProtocol == IInv /\ Protocol /\ SelectPeer => Protocol'
<1> SUFFICES ASSUME IInv, Protocol, SelectPeer PROVE Protocol'
  OBVIOUS
<1>1. snd' = [snd EXCEPT !.state = "WaitingForApproval", !.paired = TRUE, !.retries = 0]
      /\ snd.state = "DeviceList" /\ SenderOnly /\ toS' = toS
      /\ ToReceiver(Say("Offer", snd.total))
  BY DEF SelectPeer
<1>2. /\ snd' \in SenderRecords /\ snd'.state = "WaitingForApproval" /\ snd'.retries = 0
      /\ snd'.session = snd.session /\ snd'.next = snd.next /\ snd'.pending = snd.pending
      /\ snd'.total = snd.total
  <2>1. "WaitingForApproval" \in SenderStates
    BY DEF SenderStates
  <2>2. QED
    BY <1>1, <2>1, SenderFacts DEF SenderRecords
<1>3. SaysSomething
  <2>1. "Offer" \in Types /\ "Offer" \notin Chunks /\ snd'.state \in Before
        /\ snd.total \in Nat /\ snd.total <= MaxChunks
    BY <1>2, SenderFacts DEF Types, Chunks, Before
  <2>2. QED
    BY <1>1, <2>1 DEF SaysSomething
<1>4. 0 \in 0..MaxRetries
  OBVIOUS
<1>5. QED
  BY <1>1, <1>2, <1>3, <1>4, SenderWaits DEF Before

LEMMA SenderTimersProtocol == IInv /\ Protocol /\ SenderTimers => Protocol'
<1> SUFFICES ASSUME IInv, Protocol, SenderTimers PROVE Protocol'
  OBVIOUS
<1>1. SenderOnly /\ toS' = toS /\ snd.state # "Off"
  BY DEF SenderTimers, DiscoveryTimer, ApprovalTimer, SendTimer
<1>2. snd.retries \in Nat
  BY SenderFacts
<1>3. CASE DiscoveryTimer
  <2>1. snd' = snd /\ ToReceiver(Say("Discover", 0))
    BY <1>3 DEF DiscoveryTimer
  <2>2. "Discover" \in Types \ Chunks
    BY DEF Types, Chunks
  <2>3. SaysSomething
    BY <2>1, <2>2 DEF SaysSomething
  <2>4. QED
    BY <1>1, <2>1, <2>3, SenderFacts, SenderWaits
<1>4. CASE SenderFails
  BY <1>1, <1>4, SenderFailsProtocol
<1>5. CASE ApprovalTimer /\ ~SenderFails
  <2>1. snd' = [snd EXCEPT !.retries = @ + 1] /\ ToReceiver(Say("Offer", snd.total))
        /\ snd.retries < MaxApprovals /\ snd.state = "WaitingForApproval"
    BY <1>5 DEF ApprovalTimer
  <2>2. /\ snd' \in SenderRecords /\ snd'.state = snd.state /\ snd'.retries = snd.retries + 1
        /\ snd'.session = snd.session /\ snd'.next = snd.next
        /\ snd'.pending = snd.pending /\ snd'.total = snd.total
    BY <1>2, <2>1, SenderFacts DEF SenderRecords
  <2>3. snd'.retries \in 0..MaxApprovals
    BY <1>2, <2>1, <2>2
  <2>4. SaysSomething
    <3>1. "Offer" \in Types /\ "Offer" \notin Chunks /\ snd'.state \in Before
          /\ snd.total \in Nat /\ snd.total <= MaxChunks
      BY <2>1, <2>2, SenderFacts DEF Types, Chunks, Before
    <3>2. QED
      BY <2>1, <3>1 DEF SaysSomething
  <2>5. QED
    BY <1>1, <2>2, <2>3, <2>4, SenderWaits
<1>6. ASSUME SendTimer, snd.retries < MaxRetries, snd.pending, ~SenderFails PROVE Protocol'
  <2>1. snd' = [snd EXCEPT !.retries = @ + 1] /\ ToReceiver(Say("Data", snd.next))
        /\ snd.state = "Sending"
    BY <1>6, <1>2 DEF SendTimer
  <2>2. /\ snd' \in SenderRecords /\ snd'.state = snd.state /\ snd'.retries = snd.retries + 1
        /\ snd'.session = snd.session /\ snd'.next = snd.next
        /\ snd'.pending = snd.pending /\ snd'.total = snd.total
    BY <1>2, <2>1, SenderFacts DEF SenderRecords
  <2>3. snd'.retries \in 0..MaxRetries
    BY <1>2, <1>6, <2>2
  <2>4. SaysSomething
    <3>1. "Data" \in Types /\ snd'.state \notin Before /\ snd.next \in Nat /\ snd.next < Sent'
      BY <1>6, <2>1, <2>2, SenderFacts DEF Types, Before, Sent
    <3>2. QED
      BY <2>1, <3>1 DEF SaysSomething
  <2>5. QED
    BY <1>1, <2>2, <2>3, <2>4, SenderWaits
<1>7. ASSUME SendTimer, ~snd.pending, ~SenderFails PROVE Protocol'
  <2>1. snd' = [snd EXCEPT !.retries = 0] /\ ToReceiver(Say("Complete", snd.total))
        /\ snd.state = "Sending"
    BY <1>7 DEF SendTimer
  <2>2. /\ snd' \in SenderRecords /\ snd'.state = snd.state /\ snd'.retries = 0
        /\ snd'.session = snd.session /\ snd'.next = snd.next
        /\ snd'.pending = snd.pending /\ snd'.total = snd.total
    BY <2>1, SenderFacts DEF SenderRecords
  <2>3. snd'.retries \in 0..MaxRetries
    BY <2>2
  <2>4. SaysSomething
    <3>1. "Complete" \in Types /\ snd'.state \notin Before /\ snd.total \in Nat
      BY <2>1, <2>2, SenderFacts DEF Types, Before
    <3>2. QED
      BY <2>1, <3>1 DEF SaysSomething
  <2>5. QED
    BY <1>1, <2>2, <2>3, <2>4, SenderWaits
<1>8. SendTimer => SenderFails \/ snd.pending \/ ~snd.pending
  OBVIOUS
<1>9. QED
  BY <1>3, <1>4, <1>5, <1>6, <1>7 DEF SenderTimers, SendTimer

LEMMA SenderExitProtocol == IInv /\ Protocol /\ SenderExit => Protocol'
<1> SUFFICES ASSUME IInv, Protocol, SenderExit PROVE Protocol'
  OBVIOUS
<1>1. snd.state # "Off" /\ SenderOnly /\ toS' = <<>> /\ snd' = IdleSender(snd.session)
      /\ (ToReceiver(Say("Cancel", 0)) \/ ToReceiver(<<>>))
  BY DEF SenderExit
<1>2. snd' = [state |-> "Off", session |-> snd.session, paired |-> FALSE, total |-> 0,
              next |-> 0, pending |-> FALSE, retries |-> 0]
  BY <1>1 DEF IdleSender
<1>3. snd' \in SenderRecords /\ Leaves
  BY <1>2, SenderFacts DEF SenderRecords, SenderStates, Leaves
<1>4. CountInv' /\ snd'.retries \in 0..MaxRetries
  BY <1>2 DEF CountInv, Sent, Before
<1>5. toR' = toR \/ \E p \in Packets : Truthful(p) /\ ToReceiver(<<p>>)
  <2>1. CASE ToReceiver(Say("Cancel", 0))
    <3>1. "Cancel" \in Types /\ "Cancel" \notin Chunks
      BY DEF Types, Chunks
    <3>2. QED
      BY <1>1, <1>2, <2>1, <3>1, Saying
  <2>2. CASE ToReceiver(<<>>)
    BY <2>2, SayingNothing
  <2>3. QED
    BY <1>1, <2>1, <2>2
<1>6. QED
  BY <1>1, <1>3, <1>4, <1>5, SenderProtocol

LEMMA SenderTaking ==
    ASSUME IInv, Protocol, NEW type, SenderTakes(type)
    PROVE  /\ SenderOnly /\ toS # <<>> /\ toS' = Tail(toS)
           /\ Head(toS) \in Range(toS) /\ Head(toS).type = type
           /\ Head(toS).session = snd.session /\ Head(toS).arg \in Nat
           /\ snd.state # "Off" /\ SenderExpects(Head(toS))
           /\ snd.state \in Before \cup {"Sending"} \/ type = "Cancel"
<1>1. toS \in Seq(Packets) /\ toS # <<>>
  BY DEF SenderTakes, Protocol, TypeInv
<1>2. Head(toS) \in Range(toS) /\ Head(toS) \in Packets
  BY <1>1, QueueShrinks
<1>3. Head(toS).arg \in Nat
  BY <1>2 DEF Packets
<1>4. snd.state # "Off"
  BY DEF SenderTakes, SenderExpects, Protocol, CountInv
<1>5. QED
  BY <1>1, <1>2, <1>3, <1>4 DEF SenderTakes, SenderExpects, Before

\* The next chunk, or the end: the count follows what the receiver has.
LEMMA SendFromProtocol ==
    ASSUME IInv, Protocol, SenderOnly, toS # <<>>, toS' = Tail(toS), snd.state # "Off",
           \E n \in Nat :
              /\ SendFrom(n) /\ n <= snd.total /\ Sent <= n
              /\ n >= 1 => Closed(snd.session)
              /\ Meet => Len(rcv.got) = n
    PROVE  Protocol'
<1>1. PICK n \in Nat :
         /\ SendFrom(n) /\ n <= snd.total /\ Sent <= n
         /\ n >= 1 => Closed(snd.session)
         /\ Meet => Len(rcv.got) = n
  OBVIOUS
<1> DEFINE waits == n # snd.total
<1>2. snd' = [snd EXCEPT !.state = "Sending", !.next = n, !.pending = waits, !.retries = 0]
      /\ ToReceiver(IF n = snd.total THEN Say("Complete", snd.total) ELSE Say("Data", n))
  BY <1>1 DEF SendFrom
<1>3. waits \in BOOLEAN /\ "Sending" \in SenderStates
  BY DEF SenderStates
<1>4. waits <=> n # snd.total
  OBVIOUS
<1> HIDE DEF waits
<1>5. /\ snd' \in SenderRecords /\ snd'.state = "Sending" /\ snd'.retries = 0
      /\ snd'.session = snd.session /\ snd'.next = n /\ snd'.pending = waits
      /\ snd'.total = snd.total
  BY <1>2, <1>3, SenderFacts DEF SenderRecords
<1>6. Sent' = IF waits THEN n + 1 ELSE n
  BY <1>5 DEF Sent
<1>7. Sent \in Nat /\ snd.total \in Nat
  BY SenderFacts DEF Sent
<1>8. Continues
  BY <1>1, <1>3, <1>5, <1>6, <1>7 DEF Continues, Before
<1>9. CountInv'
  BY <1>1, <1>3, <1>4, <1>5, <1>6, <1>7 DEF CountInv, Before
<1>10. toR' = toR \/ \E p \in Packets : Truthful(p) /\ ToReceiver(<<p>>)
  <2>1. "Complete" \in Types /\ "Data" \in Types /\ "Sending" \notin Before
    BY DEF Types, Before
  <2>2. CASE n = snd.total
    <3>1. ToReceiver(Say("Complete", snd.total))
      BY <1>2, <2>2
    <3>2. QED
      BY <1>5, <1>7, <2>1, <3>1, Saying
  <2>3. CASE n # snd.total
    <3>1. ToReceiver(Say("Data", n)) /\ n < Sent'
      BY <1>2, <1>3, <1>4, <1>6, <2>3
    <3>2. QED
      BY <1>5, <2>1, <3>1, Saying
  <2>4. QED
    BY <2>2, <2>3
<1>11. QED
  BY <1>5, <1>8, <1>9, <1>10, SenderProtocol

LEMMA SenderAcceptProtocol == IInv /\ Protocol /\ SenderAccept => Protocol'
<1> SUFFICES ASSUME IInv, Protocol, SenderAccept PROVE Protocol'
  OBVIOUS
<1>1. SenderOnly /\ toS # <<>> /\ toS' = Tail(toS) /\ snd.state # "Off"
      /\ snd.state = "WaitingForApproval"
  BY SenderTaking DEF SenderAccept, SenderExpects
<1>2. CASE SenderFails
  BY <1>1, <1>2, SenderFailsProtocol
<1>3. CASE SendFrom(0)
  <2>1. Sent = 0 /\ 0 <= snd.total
    BY <1>1, SenderFacts DEF CountInv, Before, Sent
  <2>2. Meet => Len(rcv.got) = 0
    <3>1. ~Closed(snd.session)
      BY <1>1, SenderFacts DEF Closed, Begun, Before
    <3>2. Meet => rcv.got = <<>>
      BY <3>1 DEF Meet, Protocol, ClosedInv
    <3>3. QED
      BY <3>2
  <2>3. QED
    BY <1>1, <1>3, <2>1, <2>2, SendFromProtocol
<1>4. QED
  BY <1>2, <1>3 DEF SenderAccept

LEMMA SenderAckProtocol == IInv /\ Protocol /\ SenderAck => Protocol'
<1> SUFFICES ASSUME IInv, Protocol, SenderAck PROVE Protocol'
  OBVIOUS
<1>1. /\ SenderOnly /\ toS # <<>> /\ toS' = Tail(toS) /\ snd.state = "Sending"
      /\ Head(toS) \in Range(toS) /\ Head(toS).type = "Ack"
      /\ Head(toS).session = snd.session /\ Head(toS).arg = snd.next + 1
  BY SenderTaking DEF SenderAck, SenderExpects, Acknowledges
<1>2. CASE SenderFails
  BY <1>1, <1>2, SenderFailsProtocol
<1>3. CASE SendFrom(snd.next + 1)
  <2>1. snd.next + 1 \in Nat /\ snd.next + 1 <= Sent
    BY <1>1, SenderFacts DEF Protocol, SentInv
  <2>2. Sent = snd.next + 1 /\ Sent <= snd.total
    BY <2>1, SenderFacts DEF Sent, CountInv
  <2>3. Closed(snd.session)
    <3>1. Head(toS).arg >= 1
      BY <1>1, SenderFacts
    <3>2. Closed(Head(toS).session)
      BY <1>1, <3>1 DEF Protocol, ClosedInv
    <3>3. QED
      BY <1>1, <3>2
  <2>4. Meet => Len(rcv.got) = snd.next + 1
    <3>1. Len(rcv.got) \in Nat
      BY LenProperties DEF IInv, ReceiverInv, ReceiverRecords
    <3>2. QED
      BY <1>1, <2>1, <2>2, <3>1 DEF Protocol, MeetInv
  <2>5. QED
    BY <1>1, <1>3, <2>1, <2>2, <2>3, <2>4, SendFromProtocol
<1>4. QED
  BY <1>2, <1>3 DEF SenderAck

LEMMA SenderPacketsProtocol == IInv /\ Protocol /\ SenderPackets => Protocol'
<1> SUFFICES ASSUME IInv, Protocol, SenderPackets PROVE Protocol'
  OBVIOUS
<1>1. CASE SenderAdvertise
  <2>1. SenderOnly /\ toS # <<>> /\ toS' = Tail(toS) /\ snd.state = "Discovering"
        /\ snd' = [snd EXCEPT !.state = "DeviceList"] /\ toR' = toR
    BY <1>1, SenderTaking DEF SenderAdvertise, SenderExpects
  <2>2. /\ snd' \in SenderRecords /\ snd'.state = "DeviceList" /\ snd'.retries = snd.retries
        /\ snd'.session = snd.session /\ snd'.next = snd.next
        /\ snd'.pending = snd.pending /\ snd'.total = snd.total
    BY <2>1, SenderFacts DEF SenderRecords, SenderStates
  <2>3. QED
    BY <2>1, <2>2, SenderFacts, SenderWaits DEF Before, SaysSomething
<1>2. CASE SenderResult
  <2>1. SenderOnly /\ toS # <<>> /\ toS' = Tail(toS) /\ snd.state = "Sending"
    BY <1>2, SenderTaking DEF SenderResult, SenderExpects
  <2>2. CASE SenderFails
    BY <2>1, <2>2, SenderFailsProtocol
  <2>3. CASE snd' = [snd EXCEPT !.state = "Success"] /\ UNCHANGED toR
    <3>1. /\ snd' \in SenderRecords /\ snd'.state = "Success" /\ snd'.retries = snd.retries
          /\ snd'.session = snd.session /\ snd'.next = snd.next
          /\ snd'.pending = snd.pending /\ snd'.total = snd.total
      BY <2>3, SenderFacts DEF SenderRecords, SenderStates
    <3>2. QED
      BY <2>1, <2>3, <3>1, SenderFacts, SenderWaits DEF Before, SaysSomething
  <2>4. QED
    BY <1>2, <2>2, <2>3 DEF SenderResult
<1>3. CASE SenderRefused
  <2>1. SenderOnly /\ toS # <<>> /\ toS' = Tail(toS) /\ snd.state # "Off" /\ SenderFails
    BY <1>3, SenderTaking DEF SenderRefused
  <2>2. QED
    BY <2>1, SenderFailsProtocol
<1>4. CASE SenderIgnores
  <2>1. SenderOnly /\ toS # <<>> /\ toS' = Tail(toS) /\ snd' = snd /\ toR' = toR
    BY <1>4 DEF SenderIgnores
  <2>2. snd' \in SenderRecords /\ CountInv'
        /\ snd'.retries \in 0..MaxRetries \cup 0..MaxApprovals
    BY <2>1, SenderFacts DEF CountInv, Sent
  <2>3. Leaves \/ Continues
    BY <2>1, SenderFacts, SenderRests DEF Leaves
  <2>4. QED
    BY <2>1, <2>2, <2>3, SenderProtocol
<1>5. QED
  BY <1>1, <1>2, <1>3, <1>4, SenderAcceptProtocol, SenderAckProtocol DEF SenderPackets

-----------------------------------------------------------------------------
(* The steps of the receiver.                                              *)

LEMMA FileGrows ==
    ASSUME NEW n \in Nat
    PROVE  Len(File(n)) = n /\ Append(File(n), n) = File(n + 1)
<1>1. File(n) \in Seq(Nat) /\ Len(File(n)) = n /\ File(n + 1) \in Seq(Nat)
      /\ Len(File(n + 1)) = n + 1
  BY DEF File
<1>2. \A i \in 1..(n + 1) : Append(File(n), n)[i] = File(n + 1)[i]
  BY <1>1 DEF File
<1>3. Append(File(n), n) \in Seq(Nat) /\ Len(Append(File(n), n)) = n + 1
  BY <1>1
<1>4. QED
  BY <1>1, <1>2, <1>3, SeqEqual

\* Packet m may be sent in the state a step leads to.
Faithful(m) ==
    /\ m \in Packets /\ m.session <= snd.session
    /\ m.type = "Ack" =>
          /\ rcv'.state = "Receiving" /\ m.session = rcv'.session
          /\ m.arg = Len(rcv'.got)
    /\ m.type = "Result" /\ m.arg = ResultOk => m.session \in Range(placed')

AnswersFaithfully ==
    toS' = toS \/ \E ms \in Seq(Packets) : ToSender(ms) /\ \A m \in Range(ms) : Faithful(m)

\* A user is asked about a session only when an offer of it was heard.
AsksAfterOffer ==
    rcv'.state \in Prompts =>
       \/ rcv.state \in Prompts /\ rcv.session = rcv'.session
       \/ \E m \in Range(toR) : m.type = "Offer" /\ m.session = rcv'.session

ReceivesOn ==
    /\ rcv.state = "Receiving" /\ rcv'.session = rcv.session
    /\ rcv'.got # <<>> \/ rcv'.step # "idle" => Closed(rcv.session)
    /\ \/ rcv'.got = rcv.got
       \/ rcv'.got = Append(rcv.got, Len(rcv.got)) /\ (Meet => Len(rcv.got) < Sent)

Accepts ==
    /\ rcv.state \in Prompts /\ rcv'.session = rcv.session
    /\ rcv'.got = <<>> /\ rcv'.step = "idle"

\* The files that are in their place, as far as the receiver remembers.
Remembers ==
    /\ rcv.state = "Receiving" =>
          (rcv.session \in Range(placed) <=> rcv.step \in {"tidy", "done"})
    /\ rcv.state = "Success" => rcv.session \in Range(placed)

LEMMA ReceiverProtocol ==
    ASSUME IInv, Protocol, snd' = snd, rcv' \in ReceiverRecords,
           rcv'.total \in 0..MaxChunks, rcv'.session <= snd.session,
           rcv'.accept => rcv'.session \in Sessions,
           toR' = toR \/ toR' = <<>> \/ (toR # <<>> /\ toR' = Tail(toR)),
           AnswersFaithfully, AsksAfterOffer, Remembers',
           placed' \in Seq(Sessions), Range(placed) \subseteq Range(placed'),
           \A s \in Range(placed') : s \in Range(placed) \/ Closed(s),
           rcv'.state = "Receiving" => ReceivesOn \/ Accepts
    PROVE  Protocol'
<1>1. /\ toS \in Seq(Packets) /\ toR \in Seq(Packets) /\ rcv \in ReceiverRecords
      /\ rcv.got \in Seq(Nat) /\ Len(rcv.got) \in Nat
      /\ snd.session \in Nat /\ snd.next \in Nat /\ Sent \in Nat /\ Sent' = Sent
  <2>1. Sent \in Nat /\ Sent' = Sent
    BY SenderFacts DEF Sent
  <2>2. QED
    BY <2>1, SenderFacts, LenProperties
       DEF IInv, SenderInv, ReceiverInv, ReceiverRecords, Protocol, TypeInv
<1>2. /\ toR' \in Seq(Packets) /\ Range(toR') \subseteq Range(toR)
      /\ Ordered(toR')
  <2>1. CASE toR' = <<>>
    BY <2>1, NoPackets DEF Range, Ordered
  <2>2. CASE toR' = toR
    BY <1>1, <2>2 DEF Protocol, OrderInv
  <2>3. CASE toR # <<>> /\ toR' = Tail(toR)
    BY <1>1, <2>3, QueueShrinks DEF Protocol, OrderInv
  <2>4. QED
    BY <2>1, <2>2, <2>3
<1>3. /\ toS' \in Seq(Packets)
      /\ \A m \in Range(toS') : m \in Range(toS) \/ Faithful(m)
  <2>1. CASE toS' = toS
    BY <1>1, <2>1
  <2>2. ASSUME NEW ms \in Seq(Packets), ToSender(ms), \A m \in Range(ms) : Faithful(m),
               toS' # toS
        PROVE  <1>3
    <3>1. toS' \in Queued(toS, ms)
      BY <2>2 DEF ToSender
    <3>2. toS' \in Seq(Packets) /\ Range(toS') \subseteq Range(toS) \cup Range(ms)
      BY <1>1, <3>1, QueueGrows
    <3>3. QED
      BY <2>2, <3>2
  <2>3. QED
    BY <2>1, <2>2 DEF AnswersFaithfully
<1>4. ASSUME NEW s, Closed(s) PROVE Closed(s)'
  BY <1>1, <1>2, <1>4, ClosedForGood DEF AsksAfterOffer
<1>5. TypeInv' /\ KnownInv' /\ CountInv' /\ OrderInv'
  <2>1. TypeInv'
    BY <1>2, <1>3 DEF Protocol, TypeInv
  <2>2. KnownInv'
    <3>1. rcv'.state \in Prompts \cup {"Receiving"} => rcv'.session \in Sessions
      BY <1>1, PacketsOf DEF AsksAfterOffer, ReceivesOn, Accepts, Protocol, KnownInv
    <3>2. QED
      BY <1>2, <1>3, <3>1 DEF Protocol, KnownInv, Faithful
  <2>3. CountInv'
    BY <1>1 DEF Protocol, CountInv
  <2>4. OrderInv'
    BY <1>2 DEF Protocol, OrderInv, Begun
  <2>5. QED
    BY <2>1, <2>2, <2>3, <2>4
<1>6. MeetInv'
  <2> SUFFICES ASSUME Meet' PROVE MeetInv'
    BY DEF MeetInv
  <2>1. CASE ReceivesOn
    <3>1. Meet
      BY <2>1 DEF Meet, ReceivesOn
    <3>2. /\ rcv.got = File(Len(rcv.got))
          /\ snd.next <= Len(rcv.got) /\ Len(rcv.got) <= Sent
          /\ \A m \in Range(toS) :
                m.type = "Ack" /\ m.session = snd.session => m.arg <= Len(rcv.got)
      BY <3>1 DEF Protocol, MeetInv
    <3>3. /\ rcv'.got = File(Len(rcv'.got))
          /\ Len(rcv'.got) \in {Len(rcv.got), Len(rcv.got) + 1}
          /\ Len(rcv'.got) <= Sent
      <4>1. CASE rcv'.got = rcv.got
        BY <1>1, <3>2, <4>1
      <4>2. CASE rcv'.got = Append(rcv.got, Len(rcv.got)) /\ Len(rcv.got) < Sent
        <5>1. rcv'.got = File(Len(rcv.got) + 1)
          BY <1>1, <3>2, <4>2, FileGrows
        <5>2. Len(rcv'.got) = Len(rcv.got) + 1
          BY <1>1, <4>2
        <5>3. QED
          BY <1>1, <4>2, <5>1, <5>2
      <4>3. QED
        BY <2>1, <3>1, <4>1, <4>2 DEF ReceivesOn
    <3>4. ASSUME NEW m \in Range(toS'), m.type = "Ack", m.session = snd.session
          PROVE  m.arg <= Len(rcv'.got)
      <4>1. CASE m \in Range(toS)
        BY <1>1, <3>2, <3>3, <3>4, <4>1, PacketsOf, SMTT(30)
      <4>2. CASE Faithful(m)
        BY <1>1, <3>3, <3>4, <4>2 DEF Faithful
      <4>3. QED
        BY <1>3, <4>1, <4>2
    <3>5. QED
      BY <1>1, <3>2, <3>3, <3>4, SMTT(30) DEF MeetInv
  <2>2. CASE Accepts
    <3>1. ~Closed(snd.session) /\ snd.state # "Off" /\ rcv'.got = <<>>
      BY <2>2 DEF Accepts, Closed, Meet
    <3>2. snd.next = 0
      BY <1>1, <3>1 DEF Protocol, SentInv
    <3>3. Len(rcv'.got) = 0 /\ rcv'.got = File(0)
      BY <3>1 DEF File
    <3>4. ASSUME NEW m \in Range(toS'), m.type = "Ack", m.session = snd.session
          PROVE  m.arg <= Len(rcv'.got)
      <4>1. CASE m \in Range(toS)
        BY <1>1, <3>1, <3>3, <3>4, <4>1, PacketsOf DEF Protocol, ClosedInv
      <4>2. CASE Faithful(m)
        BY <3>3, <3>4, <4>2 DEF Faithful
      <4>3. QED
        BY <1>3, <4>1, <4>2
    <3>5. QED
      BY <1>1, <3>2, <3>3, <3>4 DEF MeetInv
  <2>3. QED
    BY <2>1, <2>2 DEF Meet
<1>7. SentInv'
  <2> SUFFICES ASSUME snd.state # "Off" PROVE SentInv'
    BY DEF SentInv
  <2>1. snd.next >= 1 => Closed(snd.session)'
    <3>1. PICK s : s = snd.session
      OBVIOUS
    <3>2. snd.next >= 1 => Closed(s)'
      BY <1>4, <3>1 DEF Protocol, SentInv
    <3>3. QED
      BY <3>1, <3>2 DEF Closed, Begun
  <2>2. ASSUME NEW m \in Range(toS'), m.type = "Ack", m.session = snd.session
        PROVE  m.arg <= Sent
    <3>1. CASE m \in Range(toS)
      BY <2>2, <3>1 DEF Protocol, SentInv
    <3>2. CASE Faithful(m)
      <4>1. Meet' /\ m.arg = Len(rcv'.got)
        BY <2>2, <3>2 DEF Faithful, Meet
      <4>2. QED
        BY <1>1, <1>6, <4>1 DEF MeetInv
    <3>3. QED
      BY <1>3, <3>1, <3>2
  <2>3. QED
    BY <1>1, <1>2, <2>1, <2>2 DEF Protocol, SentInv
<1>8. ClosedInv' /\ PlacedInv'
  <2>1. rcv'.state = "Receiving" /\ (rcv'.got # <<>> \/ rcv'.step # "idle")
        => Closed(rcv.session) /\ rcv'.session = rcv.session
    BY DEF ReceivesOn, Accepts
  <2>2. rcv'.state = "Receiving" /\ (rcv'.got # <<>> \/ rcv'.step # "idle")
        => Closed(rcv.session)'
    <3>1. PICK s : s = rcv.session
      OBVIOUS
    <3>2. Closed(rcv.session) => Closed(s)'
      BY <1>4, <3>1
    <3>3. QED
      BY <2>1, <3>1, <3>2 DEF Closed, Begun
  <2>3. ASSUME NEW m \in Range(toS'), m.type = "Ack", m.arg >= 1 PROVE Closed(m.session)'
    <3>1. CASE m \in Range(toS)
      BY <1>4, <2>3, <3>1 DEF Protocol, ClosedInv
    <3>2. CASE Faithful(m)
      <4>1. rcv'.state = "Receiving" /\ rcv'.got # <<>> /\ m.session = rcv'.session
        BY <2>3, <3>2 DEF Faithful
      <4>2. Closed(rcv.session) /\ m.session = rcv.session
        BY <2>1, <4>1
      <4>3. QED
        BY <1>4, <4>2
    <3>3. QED
      BY <1>3, <3>1, <3>2
  <2>4. \A s \in Range(placed') : Closed(s)'
    BY <1>4 DEF Protocol, ClosedInv
  <2>5. ClosedInv'
    BY <2>2, <2>3, <2>4 DEF ClosedInv
  <2>6. PlacedInv'
    BY <1>3 DEF Protocol, PlacedInv, Remembers, Faithful
  <2>7. QED
    BY <2>5, <2>6
<1>9. QED
  BY <1>5, <1>6, <1>7, <1>8 DEF Protocol

LEMMA ReceiverTypes ==
    ASSUME IInv, Protocol
    PROVE  /\ rcv \in ReceiverRecords /\ rcv.session \in Nat /\ rcv.total \in 0..MaxChunks
           /\ rcv.session <= snd.session
           /\ rcv.got \in Seq(Nat) /\ Len(rcv.got) \in Nat
           /\ toR \in Seq(Packets) /\ toS \in Seq(Packets) /\ placed \in Seq(Sessions)
           /\ rcv.state \in Prompts \cup {"Receiving"} => rcv.session \in Sessions
           /\ rcv.paired \/ rcv.accept => rcv.session \in Sessions
           /\ rcv.step # "idle" => rcv.state = "Receiving"
  BY LenProperties
     DEF IInv, SenderInv, ReceiverInv, ReceiverRecords, Protocol, TypeInv, KnownInv

LEMMA AnsweringOne ==
    ASSUME IInv, Protocol, rcv.session \in Sessions,
           \E type \in Types, arg \in Nat :
              /\ ToSender(Answer(type, arg))
              /\ type = "Ack" => rcv'.state = "Receiving" /\ rcv.session = rcv'.session
                                 /\ arg = Len(rcv'.got)
              /\ type = "Result" /\ arg = ResultOk => rcv.session \in Range(placed')
    PROVE  AnswersFaithfully
<1>1. PICK type \in Types, arg \in Nat :
         /\ ToSender(Answer(type, arg))
         /\ type = "Ack" => rcv'.state = "Receiving" /\ rcv.session = rcv'.session
                            /\ arg = Len(rcv'.got)
         /\ type = "Result" /\ arg = ResultOk => rcv.session \in Range(placed')
  OBVIOUS
<1>2. PICK p : p = Packet(type, rcv.session, arg)
  OBVIOUS
<1>3. p = [type |-> type, session |-> rcv.session, arg |-> arg]
  BY <1>2 DEF Packet
<1>4. p \in Packets
  BY <1>3 DEF Packets
<1>5. Faithful(p)
  BY <1>1, <1>3, <1>4, ReceiverTypes DEF Faithful
<1>6. <<p>> \in Seq(Packets) /\ Range(<<p>>) = {p}
  BY <1>4, Single
<1>7. ToSender(<<p>>)
  BY <1>1, <1>2 DEF Answer
<1>8. QED
  BY <1>4, <1>5, <1>6, <1>7 DEF AnswersFaithfully

\* setError() and rejectOffer() say nothing that could be wrong.
Refusals ==
    LET reject == Answer("Reject", 0)
        cancel == Answer("Cancel", 0)
        failed == Answer("Result", ResultFailed)
    IN  {reject, cancel, reject \o cancel, cancel \o cancel, cancel \o failed, failed \o cancel}

LEMMA Refusing ==
    ASSUME IInv, Protocol, rcv.session \in Sessions, \E ms \in Refusals : ToSender(ms)
    PROVE  AnswersFaithfully
<1> DEFINE Refusal == {m \in Packets :
                          m.type \in {"Reject", "Cancel"}
                          \/ (m.type = "Result" /\ m.arg = ResultFailed)}
           Harmless(ms) == ms \in Seq(Packets) /\ Range(ms) \subseteq Refusal
                           /\ \A m \in Range(ms) : m.session = rcv.session
<1>1. ASSUME NEW m \in Refusal, m.session = rcv.session PROVE Faithful(m)
  BY <1>1, ReceiverTypes DEF Faithful, ResultOk, ResultFailed
<1>2. ASSUME NEW type \in {"Reject", "Cancel"} PROVE Harmless(Answer(type, 0))
  <2>1. PICK p : p = Packet(type, rcv.session, 0)
    OBVIOUS
  <2>2. p \in Refusal /\ p \in Packets /\ p.session = rcv.session
    BY <2>1 DEF Packet, Packets, Types
  <2>3. Answer(type, 0) = <<p>>
    BY <2>1 DEF Answer
  <2> HIDE DEF Refusal
  <2>4. QED
    BY <2>2, <2>3, Single, ZenonT(40)
<1>3. Harmless(Answer("Result", ResultFailed))
  <2>1. PICK p : p = Packet("Result", rcv.session, ResultFailed)
    OBVIOUS
  <2>2. p \in Refusal /\ p \in Packets /\ p.session = rcv.session
    BY <2>1 DEF Packet, Packets, Types, ResultFailed
  <2>3. Answer("Result", ResultFailed) = <<p>>
    BY <2>1 DEF Answer
  <2> HIDE DEF Refusal
  <2>4. QED
    BY <2>2, <2>3, Single
<1> HIDE DEF Refusal
<1>4. ASSUME NEW ms, NEW others, Harmless(ms), Harmless(others) PROVE Harmless(ms \o others)
  BY <1>4, ConcatRange
<1>5. PICK ms \in Refusals : ToSender(ms)
  OBVIOUS
<1>6. Harmless(ms)
  <2> DEFINE reject == Answer("Reject", 0)
             cancel == Answer("Cancel", 0)
             failed == Answer("Result", ResultFailed)
  <2>1. Harmless(reject) /\ Harmless(cancel) /\ Harmless(failed)
    BY <1>2, <1>3
  <2>2. ms \in {reject, cancel, reject \o cancel, cancel \o cancel, cancel \o failed,
                failed \o cancel}
    BY DEF Refusals
  <2> HIDE DEF reject, cancel, failed, Harmless
  <2>3. QED
    BY <1>4, <2>1, <2>2
<1>7. QED
  BY <1>1, <1>5, <1>6 DEF AnswersFaithfully

Consumes == toR' = toR \/ toR' = <<>> \/ (toR # <<>> /\ toR' = Tail(toR))

\* The receiver drops what it was at.
LEMMA ReceiverLeaves ==
    ASSUME IInv, IInv', Protocol, snd' = snd, placed' = placed, Consumes, AnswersFaithfully,
           rcv'.state \notin Prompts \cup {"Receiving", "Success"},
           rcv'.session <= snd.session, rcv'.total \in 0..MaxChunks,
           rcv'.accept => rcv'.session \in Sessions
    PROVE  Protocol'
<1>1. rcv' \in ReceiverRecords /\ placed' \in Seq(Sessions)
  BY ReceiverTypes DEF IInv, ReceiverInv
<1>2. AsksAfterOffer /\ Remembers'
  BY DEF AsksAfterOffer, Remembers
<1>3. QED
  BY <1>1, <1>2, ReceiverProtocol DEF Consumes

\* The receiver goes on with what it is at.
LEMMA ReceiverStays ==
    ASSUME IInv, IInv', Protocol, snd' = snd, placed' = placed, Consumes, AnswersFaithfully,
           rcv'.state = rcv.state, rcv'.session = rcv.session, rcv'.total = rcv.total,
           rcv'.got = rcv.got, rcv'.accept => rcv.accept,
           rcv'.step # "idle" => rcv.step # "idle" \/ Closed(rcv.session),
           rcv'.step \in {"tidy", "done"} <=> rcv.step \in {"tidy", "done"}
    PROVE  Protocol'
<1>1. rcv' \in ReceiverRecords /\ placed' \in Seq(Sessions)
      /\ rcv'.session <= snd.session /\ rcv'.total \in 0..MaxChunks
      /\ (rcv'.accept => rcv'.session \in Sessions)
  BY ReceiverTypes DEF IInv, ReceiverInv
<1>2. AsksAfterOffer /\ Remembers'
  BY DEF AsksAfterOffer, Remembers, Protocol, PlacedInv
<1>3. rcv'.state = "Receiving" => ReceivesOn
  BY DEF ReceivesOn, Protocol, ClosedInv
<1>4. QED
  BY <1>1, <1>2, <1>3, ReceiverProtocol DEF Consumes

LEMMA ReceiverTaking ==
    ASSUME IInv, Protocol, NEW type, ReceiverTakes(type)
    PROVE  /\ snd' = snd /\ placed' = placed /\ Consumes /\ rcv.step = "idle"
           /\ Head(toR) \in Range(toR) /\ Head(toR).type = type
           /\ Head(toR).session \in Sessions /\ Head(toR).session <= snd.session
           /\ Head(toR).arg \in Nat /\ ReceiverExpects(Head(toR))
           /\ type \in Chunks => Closed(rcv.session) /\ Head(toR).session = rcv.session
           /\ type \notin {"Discover", "Offer"} =>
                 rcv.session \in Sessions /\ Head(toR).session = rcv.session
<1>1. toR # <<>> /\ toR \in Seq(Packets) /\ Head(toR).type = type
      /\ ReceiverExpects(Head(toR)) /\ toR' = Tail(toR)
  BY ReceiverTypes DEF ReceiverTakes
<1>2. Head(toR) \in Range(toR)
      /\ (Head(toR).type \in Chunks =>
            \A m \in Range(toR) : m.session = Head(toR).session => m.type # "Offer")
  BY <1>1, QueueShrinks DEF Protocol, OrderInv
<1>3. Head(toR).session \in Sessions /\ Head(toR).session <= snd.session
      /\ Head(toR).arg \in Nat
  BY <1>1, <1>2, PacketsOf DEF Protocol, KnownInv
<1>4. type \notin {"Discover", "Offer"} =>
         rcv.session \in Sessions /\ Head(toR).session = rcv.session
  BY <1>1, ReceiverTypes DEF ReceiverExpects
<1>5. type \in Chunks => Closed(rcv.session)
  <2> SUFFICES ASSUME type \in Chunks PROVE Closed(rcv.session)
    OBVIOUS
  <2>1. Head(toR).session = rcv.session /\ rcv.state \notin Prompts
    BY <1>1, <1>4 DEF ReceiverExpects, Chunks, Prompts
  <2>2. Begun(rcv.session)
    BY <1>1, <1>2, <2>1 DEF Protocol, OrderInv
  <2>3. QED
    BY <1>1, <1>2, <1>3, <2>1, <2>2 DEF Closed
<1>6. QED
  BY <1>1, <1>2, <1>3, <1>4, <1>5
     DEF ReceiverTakes, ReceiverOnly, history, Consumes, Ready, Chunks

LEMMA FailedReceiver ==
    ASSUME IInv, Protocol, rcv' = Failed
    PROVE  rcv'.state = "Error" /\ rcv'.session = rcv.session /\ rcv'.total = rcv.total
           /\ ~rcv'.accept
  BY ReceiverTypes DEF Failed, ReceiverRecords

\* setError() in the receiver.
LEMMA ReceiverFailsProtocol ==
    ASSUME IInv, IInv', Protocol, snd' = snd, placed' = placed, Consumes,
           rcv.session \in Sessions, \E ms \in Refusals : ReceiverFails(ms)
    PROVE  Protocol'
<1>1. rcv'.state = "Error" /\ rcv'.session = rcv.session /\ rcv'.total = rcv.total
      /\ ~rcv'.accept
  BY FailedReceiver DEF ReceiverFails
<1>2. AnswersFaithfully
  BY Refusing DEF ReceiverFails
<1>3. QED
  BY <1>1, <1>2, ReceiverTypes, ReceiverLeaves DEF Prompts

LEMMA RefusalsAre ==
    /\ Answer("Reject", 0) \in Refusals /\ Answer("Cancel", 0) \in Refusals
    /\ Answer("Reject", 0) \o Answer("Cancel", 0) \in Refusals
    /\ Answer("Cancel", 0) \o Answer("Cancel", 0) \in Refusals
    /\ Answer("Cancel", 0) \o Answer("Result", ResultFailed) \in Refusals
    /\ Answer("Result", ResultFailed) \o Answer("Cancel", 0) \in Refusals
  BY DEF Refusals

LEMMA ReceiverUsersProtocol ==
    ASSUME IInv, IInv', Protocol,
           StartListening \/ RejectOffer \/ AskAboutCollision \/ ReceiverExit
    PROVE  Protocol'
<1>1. snd' = snd /\ placed' = placed /\ Consumes
  BY DEF StartListening, RejectOffer, AskAboutCollision, ReceiverExit, ReceiverOnly, history,
         Consumes
<1>2. /\ Listening(rcv.session).state = "Listening" /\ Listening(rcv.session).total = 0
      /\ Listening(rcv.session).session = rcv.session
      /\ IdleReceiver(0).state = "ChooseReceiveAction" /\ IdleReceiver(0).total = 0
      /\ IdleReceiver(0).session = 0
      /\ Failed.state = "Error" /\ Failed.session = rcv.session /\ Failed.total = rcv.total
      /\ ~Listening(rcv.session).accept /\ ~IdleReceiver(0).accept /\ ~Failed.accept
  BY ReceiverTypes DEF Listening, IdleReceiver, Failed, ReceiverRecords
<1>3. 0 \in 0..MaxChunks /\ 0 <= snd.session
  BY SenderFacts
<1>4. CASE StartListening
  <2>1. AnswersFaithfully /\ rcv' \in {Listening(rcv.session), Failed}
    BY <1>4 DEF StartListening, AnswersFaithfully
  <2>2. QED
    BY <1>1, <1>2, <1>3, <2>1, ReceiverTypes, ReceiverLeaves DEF Prompts
<1>5. CASE RejectOffer
  <2>1. ToSender(Answer("Reject", 0)) /\ rcv' = Listening(rcv.session)
        /\ rcv.state \in Prompts
    BY <1>5 DEF RejectOffer, Prompts
  <2>2. AnswersFaithfully
    BY <2>1, ReceiverTypes, Refusing, RefusalsAre
  <2>3. QED
    BY <1>1, <1>2, <1>3, <2>1, <2>2, ReceiverTypes, ReceiverLeaves DEF Prompts
<1>6. CASE AskAboutCollision
  <2>1. rcv.state = "OfferPrompt" /\ rcv' = [rcv EXCEPT !.state = "CollisionPrompt"]
        /\ toS' = toS
    BY <1>6 DEF AskAboutCollision
  <2>2. rcv'.state = "CollisionPrompt" /\ rcv'.session = rcv.session /\ rcv'.total = rcv.total
        /\ rcv'.accept = rcv.accept
    BY <2>1, ReceiverTypes DEF ReceiverRecords
  <2>3. AnswersFaithfully /\ AsksAfterOffer /\ Remembers'
    BY <2>1, <2>2 DEF AnswersFaithfully, AsksAfterOffer, Remembers, Prompts
  <2>4. rcv' \in ReceiverRecords
    BY DEF IInv, ReceiverInv
  <2>5. QED
    BY <1>1, <2>2, <2>3, <2>4, ReceiverTypes, ReceiverProtocol DEF Consumes
<1>7. CASE ReceiverExit
  <2>1. rcv' = IdleReceiver(0)
        /\ \/ toS' = toS
           \/ /\ rcv.state \in Prompts \cup {"Receiving"}
              /\ ToSender(Answer("Cancel", 0))
    BY <1>7 DEF ReceiverExit, Prompts
  <2>2. AnswersFaithfully
    BY <2>1, ReceiverTypes, Refusing, RefusalsAre DEF AnswersFaithfully
  <2>3. QED
    BY <1>1, <1>2, <1>3, <2>1, <2>2, ReceiverLeaves DEF Prompts
<1>8. QED
  BY <1>4, <1>5, <1>6, <1>7

LEMMA AcceptAsProtocol == ASSUME IInv, IInv', Protocol, AcceptAs PROVE Protocol'
<1>1. PICK target \in {Name, Copy} : AcceptOffer(target) /\ rcv.state \in Prompts
  BY DEF AcceptAs, Prompts
<1>2. snd' = snd /\ placed' = placed /\ Consumes /\ rcv.session \in Sessions
      /\ rcv' \in ReceiverRecords
  BY <1>1, ReceiverTypes DEF AcceptOffer, ReceiverOnly, history, Consumes, IInv, ReceiverInv
<1>3. ASSUME rcv' = [Failed EXCEPT !.target = target]
             \/ rcv' = [Failed EXCEPT !.target = target, !.opened = TRUE],
             \E ms \in Refusals : ToSender(ms)
      PROVE  Protocol'
  <2>1. rcv'.state = "Error" /\ rcv'.session = rcv.session /\ rcv'.total = rcv.total
        /\ ~rcv'.accept
    BY <1>3, ReceiverTypes DEF Failed, ReceiverRecords
  <2>2. AnswersFaithfully
    BY <1>2, <1>3, Refusing
  <2>3. QED
    BY <1>2, <2>1, <2>2, ReceiverTypes, ReceiverLeaves DEF Prompts
<1>4. ASSUME rcv' = [rcv EXCEPT !.state = "Receiving", !.target = target, !.opened = TRUE,
                                !.got = <<>>, !.accept = TRUE, !.drawn = FALSE],
             toS' = toS
      PROVE  Protocol'
  <2>1. rcv'.state = "Receiving" /\ rcv'.session = rcv.session /\ rcv'.total = rcv.total
        /\ rcv'.got = <<>> /\ rcv'.step = rcv.step
    BY <1>4, ReceiverTypes DEF ReceiverRecords
  <2>2. rcv.step = "idle"
    BY <1>1, ReceiverTypes DEF Prompts
  <2>3. rcv.session \notin Range(placed)
    BY <1>1 DEF Protocol, ClosedInv, Closed
  <2>4. Accepts /\ AnswersFaithfully /\ AsksAfterOffer /\ Remembers'
    BY <1>1, <1>2, <1>4, <2>1, <2>2, <2>3
       DEF Accepts, AnswersFaithfully, AsksAfterOffer, Remembers, Prompts
  <2>5. QED
    BY <1>2, <2>1, <2>4, ReceiverTypes, ReceiverProtocol DEF Consumes
<1>5. QED
  BY <1>1, <1>3, <1>4, RefusalsAre DEF AcceptOffer

LEMMA ReceiverLoopProtocol ==
    ASSUME IInv, IInv', Protocol,
           DrawReceiving \/ SendPendingAccept \/ ReceiveTimer \/ ReceiverPowerLoss
    PROVE  Protocol'
<1>1. snd' = snd /\ placed' = placed /\ Consumes
  BY DEF DrawReceiving, SendPendingAccept, ReceiveTimer, ReceiverPowerLoss, ReceiverOnly,
         history, Consumes
<1>2. CASE DrawReceiving
  <2>1. rcv' = [rcv EXCEPT !.drawn = TRUE] /\ AnswersFaithfully
    BY <1>2 DEF DrawReceiving, AnswersFaithfully
  <2>2. rcv'.state = rcv.state /\ rcv'.session = rcv.session /\ rcv'.total = rcv.total
        /\ rcv'.got = rcv.got /\ rcv'.step = rcv.step /\ rcv'.accept = rcv.accept
    BY <2>1, ReceiverTypes DEF ReceiverRecords
  <2>3. QED
    BY <1>1, <2>1, <2>2, ReceiverStays
<1>3. ASSUME SendPendingAccept, ToSender(Answer("Accept", 0)),
             rcv' = [rcv EXCEPT !.accept = FALSE]
      PROVE  Protocol'
  <2>1. rcv'.state = rcv.state /\ rcv'.session = rcv.session /\ rcv'.total = rcv.total
        /\ rcv'.got = rcv.got /\ rcv'.step = rcv.step /\ ~rcv'.accept
    BY <1>3, ReceiverTypes DEF ReceiverRecords
  <2>2. AnswersFaithfully
    <3>1. "Accept" \in Types /\ rcv.session \in Sessions
      BY <1>3, ReceiverTypes DEF SendPendingAccept, Types
    <3>2. QED
      BY <1>3, <3>1, AnsweringOne
  <2>3. QED
    BY <1>1, <2>1, <2>2, ReceiverStays
<1>4. ASSUME SendPendingAccept \/ ReceiveTimer, ReceiverFails(Answer("Cancel", 0))
      PROVE  Protocol'
  <2>1. rcv.session \in Sessions
    BY <1>4, ReceiverTypes DEF SendPendingAccept, ReceiveTimer
  <2>2. QED
    BY <1>1, <1>4, <2>1, RefusalsAre, ReceiverFailsProtocol
<1>5. CASE ReceiverPowerLoss
  <2>1. rcv' = IdleReceiver(0) /\ AnswersFaithfully
    BY <1>5 DEF ReceiverPowerLoss, AnswersFaithfully
  <2>2. rcv'.state = "ChooseReceiveAction" /\ rcv'.session = 0 /\ rcv'.total = 0
        /\ ~rcv'.accept
    BY <2>1 DEF IdleReceiver
  <2>3. 0 \in 0..MaxChunks /\ 0 <= snd.session
    BY SenderFacts
  <2>4. QED
    BY <1>1, <2>1, <2>2, <2>3, ReceiverLeaves DEF Prompts
<1>6. QED
  BY <1>2, <1>3, <1>4, <1>5 DEF SendPendingAccept, ReceiveTimer

LEMMA ReceiverDataProtocol == ASSUME IInv, IInv', Protocol, ReceiverData PROVE Protocol'
<1>1. /\ snd' = snd /\ placed' = placed /\ Consumes /\ rcv.step = "idle"
      /\ Head(toR) \in Range(toR) /\ Head(toR).type = "Data"
      /\ Head(toR).session = rcv.session /\ rcv.session \in Sessions
      /\ Closed(rcv.session) /\ rcv.state = "Receiving" /\ Head(toR).arg \in Nat
  BY ReceiverTaking DEF ReceiverData, ReceiverExpects, Chunks
<1>2. Head(toR).arg = Len(rcv.got) /\ Meet => Len(rcv.got) < Sent
  BY <1>1 DEF Meet, Protocol, SentInv
<1>3. "Ack" \in Types /\ "Ack" # "Result" /\ Len(rcv.got) \in Nat
  BY ReceiverTypes DEF Types
<1>4. ASSUME Head(toR).arg = Len(rcv.got), ToSender(Answer("Ack", Len(rcv.got) + 1)),
             rcv' = [rcv EXCEPT !.got = Append(@, Head(toR).arg)]
      PROVE  Protocol'
  <2>1. /\ rcv'.got = Append(rcv.got, Len(rcv.got)) /\ rcv'.step = rcv.step
        /\ rcv'.state = rcv.state /\ rcv'.session = rcv.session /\ rcv'.total = rcv.total
        /\ rcv'.accept = rcv.accept
    BY <1>4, ReceiverTypes DEF ReceiverRecords
  <2>2. Len(rcv'.got) = Len(rcv.got) + 1
    BY <2>1, ReceiverTypes
  <2>3. AnswersFaithfully
    BY <1>1, <1>3, <1>4, <2>1, <2>2, AnsweringOne, SMTT(30)
  <2>4. AsksAfterOffer /\ Remembers' /\ ReceivesOn
    BY <1>1, <1>2, <1>4, <2>1
       DEF AsksAfterOffer, Remembers, ReceivesOn, Protocol, PlacedInv, Prompts
  <2>5. rcv' \in ReceiverRecords
    BY DEF IInv, ReceiverInv
  <2>6. QED
    BY <1>1, <2>1, <2>3, <2>4, <2>5, ReceiverTypes, ReceiverProtocol DEF Consumes
<1>5. ASSUME rcv' = Failed,
             ToSender(Answer("Result", ResultFailed) \o Answer("Cancel", 0))
      PROVE  Protocol'
  <2>1. AnswersFaithfully
    BY <1>1, <1>5, Refusing, RefusalsAre
  <2>2. QED
    BY <1>1, <1>5, <2>1, FailedReceiver, ReceiverTypes, ReceiverLeaves DEF Prompts
<1>6. ASSUME ToSender(Answer("Ack", Len(rcv.got))), rcv' = rcv PROVE Protocol'
  <2>1. AnswersFaithfully
    BY <1>1, <1>3, <1>6, AnsweringOne
  <2>2. QED
    BY <1>1, <1>6, <2>1, ReceiverStays
<1>7. QED
  BY <1>4, <1>5, <1>6 DEF ReceiverData

LEMMA ReceiverPacketsProtocol ==
    ASSUME IInv, IInv', Protocol, ReceiverPackets PROVE Protocol'
<1>1. CASE ReceiverDiscover
  <2>1. /\ snd' = snd /\ placed' = placed /\ Consumes /\ rcv.state = "Listening"
        /\ Head(toR).session \in Sessions /\ Head(toR).session <= snd.session
    BY <1>1, ReceiverTaking DEF ReceiverDiscover, ReceiverExpects
  <2>2. rcv' = [rcv EXCEPT !.session = Head(toR).session]
        /\ ToSender(<<Packet("Advertise", Head(toR).session, 0)>>)
    BY <1>1 DEF ReceiverDiscover
  <2>3. rcv'.state = "Listening" /\ rcv'.session = Head(toR).session /\ rcv'.total = rcv.total
    BY <2>1, <2>2, ReceiverTypes DEF ReceiverRecords
  <2>4. AnswersFaithfully
    <3>1. PICK p : p = Packet("Advertise", Head(toR).session, 0)
      OBVIOUS
    <3>2. p \in Packets /\ Faithful(p)
      BY <2>1, <3>1 DEF Packet, Packets, Types, Faithful
    <3>3. QED
      BY <2>2, <3>1, <3>2, Single, ZenonT(40) DEF AnswersFaithfully
  <2>5. QED
    BY <2>1, <2>3, <2>4, ReceiverTypes, ReceiverLeaves DEF Prompts
<1>2. CASE ReceiverOffer
  <2>1. /\ snd' = snd /\ placed' = placed /\ Consumes
        /\ Head(toR) \in Range(toR) /\ Head(toR).type = "Offer" /\ Head(toR).arg \in Nat
        /\ Head(toR).session \in Sessions /\ Head(toR).session <= snd.session
        /\ ReceiverExpects(Head(toR))
    BY <1>2, ReceiverTaking DEF ReceiverOffer
  <2>2. CASE rcv.state = "Listening"
    <3>1. rcv' = [rcv EXCEPT !.state = "OfferPrompt", !.paired = TRUE,
                             !.session = Head(toR).session, !.total = Head(toR).arg]
          /\ toS' = toS
      BY <1>2, <2>2 DEF ReceiverOffer
    <3>2. rcv'.state = "OfferPrompt" /\ rcv'.session = Head(toR).session
          /\ rcv'.total = Head(toR).arg
      BY <3>1, ReceiverTypes DEF ReceiverRecords
    <3>3. rcv'.total \in 0..MaxChunks
      BY <2>1, <3>2 DEF Protocol, TypeInv
    <3>4. AsksAfterOffer /\ Remembers' /\ AnswersFaithfully
      BY <2>1, <3>1, <3>2 DEF AsksAfterOffer, Remembers, AnswersFaithfully
    <3>5. rcv' \in ReceiverRecords
      BY DEF IInv, ReceiverInv
    <3>6. QED
      BY <2>1, <3>2, <3>3, <3>4, <3>5, ReceiverTypes, ReceiverProtocol DEF Consumes
  <2>3. CASE rcv.state # "Listening"
    <3>1. rcv' = rcv /\ ToSender(Answer("Accept", 0))
      BY <1>2, <2>3 DEF ReceiverOffer
    <3>2. rcv.session \in Sessions /\ "Accept" \in Types
      BY <2>1, <2>3, ReceiverTypes DEF ReceiverExpects, Types
    <3>3. AnswersFaithfully
      BY <3>1, <3>2, AnsweringOne
    <3>4. QED
      BY <2>1, <3>1, <3>3, ReceiverStays
  <2>4. QED
    BY <2>2, <2>3
<1>3. CASE ReceiverComplete
  <2>1. /\ snd' = snd /\ placed' = placed /\ Consumes /\ rcv.session \in Sessions
        /\ Closed(rcv.session) /\ rcv.step = "idle"
        /\ rcv.state \in {"Receiving", "Success"}
    BY <1>3, ReceiverTaking DEF ReceiverComplete, ReceiverExpects, Chunks
  <2>2. CASE rcv.state = "Success"
    <3>1. rcv' = rcv /\ ToSender(Answer("Result", ResultOk))
      BY <1>3, <2>2 DEF ReceiverComplete
    <3>2. rcv.session \in Range(placed') /\ "Result" \in Types /\ ResultOk \in Nat
      BY <2>1, <2>2 DEF Protocol, PlacedInv, Types, ResultOk
    <3>3. AnswersFaithfully
      BY <2>1, <3>1, <3>2, AnsweringOne
    <3>4. QED
      BY <2>1, <3>1, <3>3, ReceiverStays
  <2>3. CASE rcv.state = "Receiving"
    <3>1. PICK step \in {"sync", "drop"} : rcv' = [rcv EXCEPT !.step = step]
      BY <1>3, <2>3 DEF ReceiverComplete
    <3>2. rcv'.state = rcv.state /\ rcv'.session = rcv.session /\ rcv'.total = rcv.total
          /\ rcv'.got = rcv.got /\ rcv'.step = step /\ rcv'.accept = rcv.accept
      BY <3>1, ReceiverTypes DEF ReceiverRecords
    <3>3. AnswersFaithfully
      BY <1>3, <2>3 DEF ReceiverComplete, AnswersFaithfully
    <3>4. QED
      BY <2>1, <3>2, <3>3, ReceiverStays
  <2>4. QED
    BY <2>1, <2>2, <2>3
<1>4. CASE ReceiverCancel
  <2>1. snd' = snd /\ placed' = placed /\ Consumes /\ rcv.session \in Sessions
    BY <1>4, ReceiverTaking DEF ReceiverCancel
  <2>2. QED
    BY <1>4, <2>1, RefusalsAre, ReceiverFailsProtocol DEF ReceiverCancel
<1>5. CASE ReceiverIgnores
  <2>1. snd' = snd /\ placed' = placed /\ Consumes /\ rcv' = rcv /\ AnswersFaithfully
    BY <1>5 DEF ReceiverIgnores, ReceiverOnly, history, Consumes, AnswersFaithfully
  <2>2. QED
    BY <2>1, ReceiverStays
<1>6. QED
  BY <1>1, <1>2, <1>3, <1>4, <1>5, ReceiverDataProtocol DEF ReceiverPackets

-----------------------------------------------------------------------------
(* The steps of finishReceivedFile().                                      *)

LEMMA GoingOn ==
    ASSUME IInv, Protocol, NEW step \in FinishSteps, Goto(step), placed' = placed,
           rcv.step \in FinishSteps, IInv',
           step \in {"tidy", "done"} <=> rcv.step \in {"tidy", "done"}
    PROVE  Protocol'
<1>1. rcv' = [rcv EXCEPT !.step = step] /\ snd' = snd /\ toS' = toS /\ toR' = toR
  BY DEF Goto
<1>2. rcv'.state = rcv.state /\ rcv'.session = rcv.session /\ rcv'.total = rcv.total
      /\ rcv'.got = rcv.got /\ rcv'.step = step /\ rcv'.accept = rcv.accept
  BY <1>1, ReceiverTypes DEF ReceiverRecords
<1>3. AnswersFaithfully /\ Consumes
  BY <1>1 DEF AnswersFaithfully, Consumes
<1>4. rcv.step # "idle"
  BY DEF FinishSteps
<1>5. QED
  BY <1>1, <1>2, <1>3, <1>4, ReceiverStays

LEMMA FinishRenameProtocol == ASSUME IInv, IInv', Protocol, FinishRename PROVE Protocol'
<1>1. rcv.step \in {"publish", "replace"} /\ rcv.state = "Receiving"
      /\ rcv.session \in Sessions /\ Closed(rcv.session) /\ rcv.session \notin Range(placed)
  <2>1. rcv.step \in {"publish", "replace"}
    BY DEF FinishRename
  <2>2. QED
    BY <2>1, ReceiverTypes DEF Protocol, ClosedInv, PlacedInv
<1>2. ASSUME placed' = placed, NEW step \in {"restore", "drop"}, Goto(step) PROVE Protocol'
  BY <1>1, <1>2, GoingOn DEF FinishSteps
<1>3. ASSUME placed' = Append(placed, rcv.session), NEW step \in {"tidy", "done"}, Goto(step)
      PROVE  Protocol'
  <2>1. rcv' = [rcv EXCEPT !.step = step] /\ snd' = snd /\ toS' = toS /\ toR' = toR
    BY <1>3 DEF Goto
  <2>2. rcv'.state = rcv.state /\ rcv'.session = rcv.session /\ rcv'.total = rcv.total
        /\ rcv'.got = rcv.got /\ rcv'.step = step /\ rcv'.accept = rcv.accept
    BY <2>1, ReceiverTypes DEF ReceiverRecords
  <2>3. placed' \in Seq(Sessions) /\ Range(placed') = Range(placed) \cup {rcv.session}
    <3>1. placed \in Seq(Sessions) /\ Len(placed) \in Nat
      BY ReceiverTypes, LenProperties
    <3>2. placed' \in Seq(Sessions) /\ Len(placed') = Len(placed) + 1
          /\ placed'[Len(placed) + 1] = rcv.session
          /\ \A i \in 1..Len(placed) : placed'[i] = placed[i]
      BY <1>1, <1>3, <3>1, AppendProperties
    <3>3. DOMAIN placed = 1..Len(placed) /\ DOMAIN placed' = 1..(Len(placed) + 1)
          /\ 1..(Len(placed) + 1) = 1..Len(placed) \cup {Len(placed) + 1}
      BY <3>1, <3>2
    <3>4. QED
      BY <3>2, <3>3 DEF Range
  <2>4. AnswersFaithfully /\ AsksAfterOffer /\ Remembers' /\ ReceivesOn
    BY <1>1, <1>3, <2>1, <2>2, <2>3
       DEF AnswersFaithfully, AsksAfterOffer, Remembers, ReceivesOn, Prompts
  <2>5. rcv' \in ReceiverRecords
    BY DEF IInv, ReceiverInv
  <2>6. QED
    BY <1>1, <2>1, <2>2, <2>3, <2>4, <2>5, ReceiverTypes, ReceiverProtocol
<1>4. \/ placed' = placed /\ \E step \in {"restore", "drop"} : Goto(step)
      \/ placed' = Append(placed, rcv.session) /\ \E step \in {"tidy", "done"} : Goto(step)
  BY DEF FinishRename
<1>5. QED
  BY <1>2, <1>3, <1>4

LEMMA FinishProtocol == ASSUME IInv, IInv', Protocol, Finish PROVE Protocol'
<1>1. CASE FinishSync \/ FinishLook \/ FinishUnpark \/ FinishPark \/ FinishRestore \/ FinishDrop
  <2>1. /\ placed' = placed /\ rcv.step \in FinishSteps \ {"tidy", "done"}
        /\ \E step \in FinishSteps \ {"tidy", "done"} : Goto(step)
    <3>1. placed' = placed /\ rcv.step \in FinishSteps \ {"tidy", "done"}
      BY <1>1 DEF FinishSync, FinishLook, FinishUnpark, FinishPark, FinishRestore, FinishDrop,
         FinishSteps, history
    <3>2. {"look", "drop", "unpark", "publish", "park", "replace", "failed"}
          \subseteq FinishSteps \ {"tidy", "done"}
      BY DEF FinishSteps
    <3>3. \E step \in {"look", "drop", "unpark", "publish", "park", "replace", "failed"} :
             Goto(step)
      BY <1>1 DEF FinishSync, FinishLook, FinishUnpark, FinishPark, FinishRestore, FinishDrop
    <3>4. QED
      BY <3>1, <3>2, <3>3
  <2>2. QED
    BY <2>1, GoingOn
<1>2. CASE FinishTidy
  <2>1. placed' = placed /\ rcv.step = "tidy" /\ Goto("done")
    BY <1>2 DEF FinishTidy, history
  <2>2. QED
    BY <2>1, GoingOn DEF FinishSteps
<1>3. CASE FinishDone
  <2>1. rcv.step = "done" /\ rcv' = [rcv EXCEPT !.state = "Success", !.step = "idle"]
        /\ ToSender(Answer("Result", ResultOk))
        /\ snd' = snd /\ toR' = toR /\ placed' = placed
    BY <1>3 DEF FinishDone, history
  <2>2. rcv'.state = "Success" /\ rcv'.session = rcv.session /\ rcv'.total = rcv.total
        /\ rcv'.accept = rcv.accept
    BY <2>1, ReceiverTypes DEF ReceiverRecords
  <2>3. rcv.session \in Range(placed) /\ rcv.session \in Sessions
        /\ "Result" \in Types /\ ResultOk \in Nat
    BY <2>1, ReceiverTypes DEF Protocol, PlacedInv, Types, ResultOk
  <2>4. AnswersFaithfully
    BY <2>1, <2>3, AnsweringOne
  <2>5. AsksAfterOffer /\ Remembers'
    BY <2>1, <2>2, <2>3 DEF AsksAfterOffer, Remembers, Prompts
  <2>6. rcv' \in ReceiverRecords
    BY DEF IInv, ReceiverInv
  <2>7. QED
    BY <2>1, <2>2, <2>3, <2>4, <2>5, <2>6, ReceiverTypes, ReceiverProtocol
<1>4. CASE FinishFailed
  <2>1. snd' = snd /\ placed' = placed /\ Consumes /\ rcv.step # "idle"
        /\ ReceiverFails(Answer("Cancel", 0) \o Answer("Result", ResultFailed))
    BY <1>4 DEF FinishFailed, ReceiverOnly, history, Consumes
  <2>2. rcv.session \in Sessions
    BY <2>1, ReceiverTypes
  <2>3. QED
    BY <2>1, <2>2, RefusalsAre, ReceiverFailsProtocol
<1>5. QED
  BY <1>1, <1>2, <1>3, <1>4, FinishRenameProtocol DEF Finish

LEMMA StepProtocol == IInv /\ IInv' /\ Protocol /\ [Next]_vars => Protocol'
<1> SUFFICES ASSUME IInv, IInv', Protocol, [Next]_vars PROVE Protocol'
  OBVIOUS
<1>1. CASE UNCHANGED vars
  <2>1. UNCHANGED <<snd, rcv, toS, toR, placed>>
    BY <1>1 DEF vars, history
  <2>2. AnswersFaithfully /\ Consumes
    BY <2>1 DEF AnswersFaithfully, Consumes
  <2>3. QED
    BY <2>1, <2>2, ReceiverStays
<1>2. CASE Users
  BY <1>2, SenderStartProtocol, SelectPeerProtocol, SenderExitProtocol,
     ReceiverUsersProtocol, AcceptAsProtocol DEF Users
<1>3. CASE SenderPackets \/ SenderTimers
  BY <1>3, SenderPacketsProtocol, SenderTimersProtocol
<1>4. CASE ReceiverPackets \/ Finish
  BY <1>4, ReceiverPacketsProtocol, FinishProtocol
<1>5. CASE DrawReceiving \/ SendPendingAccept \/ ReceiveTimer \/ ReceiverPowerLoss
  BY <1>5, ReceiverLoopProtocol
<1>6. QED
  BY <1>1, <1>2, <1>3, <1>4, <1>5 DEF Next

-----------------------------------------------------------------------------
(* The theorems.                                                           *)

\* The inductive invariant holds at every moment, faults and restarts included.
THEOREM Inductive == Spec => []IInv
  BY InitIInv, StepIInv, PTL DEF Spec

\* Whatever is lost, refused by the card or cut off, finishReceivedFile() gives no file
\* that can be opened a part of the one that was sent.
THEOREM NoPartialFile == Spec => []NothingPartial
<1>1. IInv => NothingPartial
  BY DEF IInv, CardInv, PartInv
<1>2. QED
  BY Inductive, <1>1, PTL

\* What finishReceivedFile() replaces is under its name or in the backup until another
\* file has the name.
THEOREM ReplacedFileIsKept == Spec => []FileIsKept
<1>1. IInv => FileIsKept
  BY DEF IInv, CardInv, HeldInv, FileIsKept
<1>2. QED
  BY Inductive, <1>1, PTL

\* So does what the two devices know of each other, whatever is lost or repeated.
THEOREM ProtocolHolds == Spec => [](IInv /\ Protocol)
<1>1. IInv /\ Protocol /\ [Next]_vars => (IInv /\ Protocol)'
  BY StepIInv, StepProtocol
<1>2. QED
  BY InitIInv, InitProtocol, <1>1, PTL DEF Spec

\* Every variable keeps its type: retryCount_, a uint8_t, never passes the limits that
\* updateTimers() gives it, and sendNextChunk() never goes past the end of the file.
THEOREM TypeCorrect == Spec => []TypeOK
<1>1. IInv /\ Protocol => TypeOK
  <2> SUFFICES ASSUME IInv, Protocol PROVE TypeOK
    OBVIOUS
  <2>1. snd.next \in 0..MaxChunks
    <3>1. snd.next <= Sent /\ Sent <= snd.total
      BY SenderFacts DEF CountInv, Sent
    <3>2. QED
      BY <3>1, SenderFacts DEF Sent
  <2>2. snd \in [state : SenderStates, session : 0..MaxSessions,
                 paired : BOOLEAN, total : 0..MaxChunks, next : 0..MaxChunks,
                 pending : BOOLEAN, retries : 0..MaxRetries \cup 0..MaxApprovals]
    BY <2>1, SenderFacts DEF SenderRecords
  <2>3. rcv \in [state : ReceiverStates, session : 0..MaxSessions,
                 paired : BOOLEAN, total : 0..MaxChunks,
                 target : {Name, Copy}, got : Seq(Nat), opened : BOOLEAN,
                 drawn : BOOLEAN, accept : BOOLEAN,
                 step : FinishSteps \cup {"idle"}]
    BY ReceiverTypes DEF ReceiverRecords
  <2>4. held \in Docs \cup {Absent}
    BY DEF IInv, CardInv, HeldInv, PartInv, NothingPartial, Exists
  <2>5. QED
    BY <2>2, <2>3, <2>4, ReceiverTypes DEF TypeOK, IInv, CardInv
<1>2. QED
  BY ProtocolHolds, <1>1, PTL

\* A chunk is never written twice, skipped or acknowledged before it is written: what
\* updateTimers() repeats and acceptAcknowledgement() takes are in step.
THEOREM DevicesAreInStep == Spec => []InStep
<1>1. IInv /\ Protocol => InStep
  <2> SUFFICES ASSUME IInv, Protocol, snd.state = "Sending", rcv.state = "Receiving",
                      snd.session = rcv.session
               PROVE  /\ rcv.got = File(Len(rcv.got))
                      /\ Len(rcv.got) - snd.next \in IF snd.pending THEN {0, 1} ELSE {0}
    BY DEF InStep
  <2>1. rcv.got = File(Len(rcv.got)) /\ snd.next <= Len(rcv.got) /\ Len(rcv.got) <= Sent
    BY DEF Meet, Protocol, MeetInv
  <2>2. CASE snd.pending
    <3>1. Sent = snd.next + 1 /\ snd.next \in Nat /\ Len(rcv.got) \in Nat
      BY <2>2, SenderFacts, ReceiverTypes DEF Sent
    <3>2. Len(rcv.got) - snd.next \in {0, 1}
      BY <2>1, <3>1
    <3>3. QED
      BY <2>1, <2>2, <3>2
  <2>3. CASE ~snd.pending
    BY <2>1, <2>3, SenderFacts, ReceiverTypes DEF Sent
  <2>4. QED
    BY <2>1, <2>2, <2>3
<1>2. QED
  BY ProtocolHolds, <1>1, PTL

\* A transfer is one delivery: finishReceivedFile() puts a file in its place at most
\* once, and handlePacket() reports a success only of a file that is there.
THEOREM TransfersAreDelivered == Spec => ImplementsDelivery
<1> DEFINE outcome == CASE snd.state = "Off" -> "none"
                        [] snd.state = "Success" -> "success"
                        [] snd.state = "Error" -> "failed"
                        [] OTHER -> "open"
           Step == [Delivery!Next]_<<snd.session, outcome, placed>>
           Open == {"Discovering", "DeviceList", "WaitingForApproval", "Sending"}
<1>1. Init => Delivery!Init
  BY DEF Init, IdleSender, Delivery!Init
<1>2. IInv /\ Protocol /\ [Next]_vars => Step
  <2> SUFFICES ASSUME IInv, Protocol, [Next]_vars PROVE Step
    OBVIOUS
  <2>1. /\ snd.state \in SenderStates
        /\ snd.state = "Off" => outcome = "none"
        /\ snd.state = "Success" => outcome = "success"
        /\ snd.state = "Error" => outcome = "failed"
        /\ snd.state \in Open => outcome = "open"
    BY SenderFacts DEF SenderRecords
  <2>2. /\ snd'.state = "Off" => outcome' = "none"
        /\ snd'.state = "Success" => outcome' = "success"
        /\ snd'.state = "Error" => outcome' = "failed"
        /\ snd'.state \in Open => outcome' = "open"
    OBVIOUS
  <2>3. SenderStates = Open \cup {"Off", "Success", "Error"}
    BY DEF SenderStates
  <2> HIDE DEF outcome
  <2>rests. ASSUME snd'.session = snd.session, placed' = placed, outcome' = outcome PROVE Step
    BY <2>rests
  <2>keeps. ASSUME snd' = snd, placed' = placed PROVE Step
    BY <2>keeps DEF outcome
  <2>open. ASSUME snd.state \in Open, snd'.state \in Open, snd'.session = snd.session,
                  placed' = placed
           PROVE  Step
    BY <2>1, <2>2, <2>open
  <2>fails. ASSUME SenderFails, snd.state # "Off", placed' = placed PROVE Step
    <3>1. snd'.state = "Error" /\ snd'.session = snd.session
      BY <2>fails, SenderFacts DEF SenderFails, SenderRecords
    <3>2. outcome' = "failed" /\ outcome \in {"open", "success", "failed"}
      BY <2>1, <2>2, <2>3, <2>fails, <3>1
    <3>3. CASE outcome = "failed"
      BY <2>fails, <3>1, <3>2, <3>3
    <3>4. CASE outcome # "failed"
      BY <2>fails, <3>1, <3>2, <3>4 DEF outcome, Delivery!Next, Delivery!Fail
    <3>5. QED
      BY <3>3, <3>4
  <2>4. CASE UNCHANGED vars
    BY <2>4, <2>keeps DEF vars, history
  <2>5. CASE SenderStart
    <3>1. PICK n \in 0..MaxChunks, state \in {"Discovering", "Error"} :
              snd' = [IdleSender(snd.session + 1) EXCEPT !.total = n, !.state = state]
      BY <2>5 DEF SenderStart
    <3>2. snd'.state = state /\ snd'.session = snd.session + 1
      BY <3>1 DEF IdleSender
    <3>3. outcome = "none" /\ outcome' \in {"open", "failed"} /\ placed' = placed
      BY <2>1, <2>2, <2>5, <3>2 DEF SenderStart, SenderOnly, history
    <3>4. QED
      BY <3>2, <3>3 DEF outcome, Delivery!Next, Delivery!Begin
  <2>6. CASE SenderExit
    <3>1. snd'.state = "Off" /\ snd'.session = snd.session /\ placed' = placed
          /\ snd.state # "Off"
      BY <2>6 DEF SenderExit, SenderOnly, history, IdleSender
    <3>2. outcome # "none" /\ outcome' = "none"
      BY <2>1, <2>2, <2>3, <3>1
    <3>3. QED
      BY <3>1, <3>2 DEF Delivery!Next, Delivery!End
  <2>7. CASE SelectPeer \/ SenderTimers
    <3>1. placed' = placed /\ snd.state \in Open
      BY <2>7 DEF SelectPeer, SenderTimers, DiscoveryTimer, ApprovalTimer, SendTimer,
         SenderOnly, history
    <3>2. SenderFails \/ (snd'.state \in Open /\ snd'.session = snd.session)
      BY <2>7, <3>1, SenderFacts DEF SelectPeer, SenderTimers, DiscoveryTimer, ApprovalTimer,
         SendTimer, SenderRecords
    <3>3. QED
      BY <3>1, <3>2, <2>fails, <2>open
  <2>8. CASE SenderAdvertise \/ SenderAccept \/ SenderAck
    <3>1. placed' = placed /\ snd.state \in Open
      BY <2>8, SenderTaking DEF SenderAdvertise, SenderAccept, SenderAck, SenderExpects,
         SenderOnly, history
    <3>2. SenderFails \/ (snd'.state \in Open /\ snd'.session = snd.session)
      BY <2>8, <3>1, SenderFacts DEF SenderAdvertise, SenderAccept, SenderAck, SendFrom,
         SenderRecords
    <3>3. QED
      BY <3>1, <3>2, <2>fails, <2>open
  <2>9. CASE SenderResult
    <3>1. /\ placed' = placed /\ snd.state = "Sending" /\ Head(toS) \in Range(toS)
          /\ Head(toS).type = "Result" /\ Head(toS).session = snd.session
      BY <2>9, SenderTaking DEF SenderResult, SenderExpects, SenderOnly, history
    <3>2. CASE SenderFails
      BY <3>1, <3>2, <2>fails
    <3>3. CASE Head(toS).arg = ResultOk /\ snd' = [snd EXCEPT !.state = "Success"]
      <4>1. snd'.state = "Success" /\ snd'.session = snd.session
        BY <3>3, SenderFacts DEF SenderRecords
      <4>2. outcome = "open" /\ outcome' = "success"
        BY <2>1, <2>2, <3>1, <4>1
      <4>3. snd.session \in Range(placed)
        BY <3>1, <3>3 DEF Protocol, PlacedInv
      <4>4. \E i \in 1..Len(placed) : placed[i] = snd.session
        <5>1. DOMAIN placed = 1..Len(placed)
          BY ReceiverTypes
        <5>2. QED
          BY <4>3, <5>1 DEF Range
      <4>5. QED
        BY <3>1, <4>1, <4>2, <4>4 DEF Delivery!Next, Delivery!Confirm, Delivery!IsPlaced
    <3>4. QED
      BY <2>9, <3>2, <3>3 DEF SenderResult
  <2>10. CASE SenderRefused
    <3>1. SenderFails /\ placed' = placed /\ snd.state # "Off"
      BY <2>10, SenderTaking DEF SenderRefused, SenderOnly, history
    <3>2. QED
      BY <3>1, <2>fails
  <2>11. CASE SenderIgnores
    BY <2>11, <2>keeps DEF SenderIgnores, SenderOnly, history
  <2>12. CASE FinishRename
    <3>1. snd' = snd /\ (placed' = placed \/ placed' = Append(placed, rcv.session))
      BY <2>12 DEF FinishRename, Goto
    <3>2. rcv.session \notin Range(placed) /\ rcv.session \in 1..snd.session
      <4>1. rcv.step \in {"publish", "replace"}
        BY <2>12 DEF FinishRename
      <4>2. rcv.state = "Receiving" /\ rcv.session \in Sessions
        BY <4>1, ReceiverTypes
      <4>3. QED
        BY <4>1, <4>2, ReceiverTypes, SenderFacts, SMTT(30) DEF Protocol, PlacedInv, Sessions
    <3>3. ~\E i \in 1..Len(placed) : placed[i] = rcv.session
      BY <3>2, ReceiverTypes DEF Range
    <3>4. outcome' = outcome
      BY <3>1 DEF outcome
    <3>5. CASE placed' = Append(placed, rcv.session)
      BY <3>1, <3>2, <3>3, <3>4, <3>5 DEF Delivery!Next, Delivery!Place, Delivery!IsPlaced
    <3>6. QED
      BY <3>1, <3>5, <2>keeps
  <2>13. CASE Finish /\ ~FinishRename
    <3>1. snd' = snd /\ placed' = placed
      BY <2>13 DEF Finish, FinishSync, FinishLook, FinishUnpark, FinishPark, FinishRestore,
         FinishTidy, FinishDone, FinishDrop, FinishFailed, Goto, ReceiverOnly, history
    <3>2. QED
      BY <3>1, <2>keeps
  <2>14. CASE \/ ReceiverPackets \/ StartListening \/ RejectOffer \/ AskAboutCollision
              \/ AcceptAs \/ ReceiverExit \/ DrawReceiving \/ SendPendingAccept
              \/ ReceiveTimer \/ ReceiverPowerLoss
    <3>1. ReceiverOnly
      <4>1. CASE ReceiverPackets
        BY <4>1 DEF ReceiverPackets, ReceiverDiscover, ReceiverOffer, ReceiverData,
           ReceiverComplete, ReceiverCancel, ReceiverIgnores, ReceiverTakes
      <4>2. QED
        BY <2>14, <4>1 DEF StartListening, RejectOffer, AskAboutCollision, AcceptAs,
           AcceptOffer, ReceiverExit, DrawReceiving, SendPendingAccept, ReceiveTimer,
           ReceiverPowerLoss
    <3>2. QED
      BY <3>1, <2>keeps DEF ReceiverOnly, history
  <2>15. QED
    BY <2>4, <2>5, <2>6, <2>7, <2>8, <2>9, <2>10, <2>11, <2>12, <2>13, <2>14
       DEF Next, Users, SenderPackets
<1>3. QED
  BY <1>1, <1>2, ProtocolHolds, PTL DEF Spec, ImplementsDelivery, Delivery!Spec, Delivery!vars

-----------------------------------------------------------------------------
(* Why the waits end.                                                      *)

\* What is left of finishReceivedFile(), counted in steps.
FinishLeft ==
    [step \in FinishSteps \cup {"idle"} |->
        CASE step = "sync" -> 8
          [] step = "look" -> 7
          [] step = "unpark" -> 6
          [] step = "park" -> 5
          [] step = "replace" -> 4
          [] step \in {"publish", "restore"} -> 3
          [] step \in {"tidy", "drop"} -> 2
          [] step \in {"done", "failed"} -> 1
          [] step = "idle" -> 0]

\* It never goes back to an earlier step, and leaves the receiver with a result.
FinishGoesOn ==
    /\ Finish => FinishLeft[rcv'.step] < FinishLeft[rcv.step]
    /\ Finish /\ rcv'.step = "idle" => rcv'.state \in {"Success", "Error"}
    /\ FinishLeft[rcv'.step] > FinishLeft[rcv.step] => ReceiverComplete

\* While the sender waits for an answer each timer is counted, up to the limit that
\* ends the wait, and the count starts again only with the next chunk of the file.
WaitGoesOn ==
    Unanswered /\ Unanswered' =>
        \/ snd' = snd /\ ~ApprovalTimer /\ ~SendTimer
        \/ /\ snd' = [snd EXCEPT !.retries = @ + 1]
           /\ snd'.retries <= IF snd.state = "Sending" THEN MaxRetries ELSE MaxApprovals
        \/ /\ snd.state = "WaitingForApproval" /\ snd'.state = "Sending"
           /\ snd'.next = 0 /\ snd'.next < snd'.total
        \/ /\ snd.state = "Sending" /\ snd'.state = "Sending" /\ snd'.total = snd.total
           /\ snd'.next = snd.next + 1 /\ snd'.next < snd'.total

LEMMA FinishLeftValues ==
    /\ FinishLeft["sync"] = 8 /\ FinishLeft["look"] = 7 /\ FinishLeft["unpark"] = 6
    /\ FinishLeft["park"] = 5 /\ FinishLeft["replace"] = 4 /\ FinishLeft["publish"] = 3
    /\ FinishLeft["restore"] = 3 /\ FinishLeft["tidy"] = 2 /\ FinishLeft["drop"] = 2
    /\ FinishLeft["done"] = 1 /\ FinishLeft["failed"] = 1 /\ FinishLeft["idle"] = 0
  BY DEF FinishLeft, FinishSteps

LEMMA FinishComesCloser ==
    ASSUME IInv, Protocol, Finish
    PROVE  /\ FinishLeft[rcv'.step] < FinishLeft[rcv.step]
           /\ rcv'.step = "idle" => rcv'.state \in {"Success", "Error"}
<1>1. rcv \in ReceiverRecords
  BY ReceiverTypes
<1>2. \A step : Goto(step) => rcv'.step = step
  BY <1>1 DEF Goto, ReceiverRecords
<1>3. \/ rcv.step = "sync" /\ rcv'.step \in {"look", "drop"}
      \/ rcv.step = "look" /\ rcv'.step \in {"unpark", "publish"}
      \/ rcv.step = "unpark" /\ rcv'.step = "park"
      \/ rcv.step = "park" /\ rcv'.step \in {"replace", "drop"}
      \/ rcv.step = "replace" /\ rcv'.step \in {"tidy", "restore"}
      \/ rcv.step = "publish" /\ rcv'.step \in {"done", "drop"}
      \/ rcv.step = "restore" /\ rcv'.step = "drop"
      \/ rcv.step = "tidy" /\ rcv'.step = "done"
      \/ rcv.step = "drop" /\ rcv'.step = "failed"
      \/ rcv.step = "done" /\ rcv'.step = "idle" /\ rcv'.state = "Success"
      \/ rcv.step = "failed" /\ rcv'.step = "idle" /\ rcv'.state = "Error"
  <2>1. CASE FinishSync
    <3>1. rcv.step = "sync" /\ (Goto("look") \/ Goto("drop"))
      BY <2>1 DEF FinishSync
    <3>2. QED
      BY <1>2, <3>1
  <2>2. CASE FinishLook
    BY <1>2, <2>2 DEF FinishLook
  <2>3. CASE FinishUnpark
    BY <1>2, <2>3 DEF FinishUnpark
  <2>4. CASE FinishPark
    <3>1. rcv.step = "park" /\ (Goto("replace") \/ Goto("drop"))
      BY <2>4 DEF FinishPark
    <3>2. QED
      BY <1>2, <3>1
  <2>5. CASE FinishRename
    <3>1. /\ rcv.step \in {"publish", "replace"}
          /\ \/ Goto(IF rcv.step = "replace" THEN "tidy" ELSE "done")
             \/ Goto(IF rcv.step = "replace" THEN "restore" ELSE "drop")
      BY <2>5 DEF FinishRename
    <3>2. QED
      BY <1>2, <3>1
  <2>6. CASE FinishRestore
    BY <1>2, <2>6 DEF FinishRestore
  <2>7. CASE FinishTidy
    BY <1>2, <2>7 DEF FinishTidy
  <2>8. CASE FinishDone
    BY <1>1, <2>8 DEF FinishDone, ReceiverRecords
  <2>9. CASE FinishDrop
    BY <1>2, <2>9 DEF FinishDrop
  <2>10. CASE FinishFailed
    BY <1>1, <2>10 DEF FinishFailed, ReceiverFails, Failed, ReceiverRecords
  <2>11. QED
    BY <2>1, <2>2, <2>3, <2>4, <2>5, <2>6, <2>7, <2>8, <2>9, <2>10 DEF Finish
<1>4. QED
  BY <1>3, FinishLeftValues

\* Outside finishReceivedFile() the receiver is at no step of it, and only the final
\* packet takes it there.
LEMMA OnlyCompleteBegins ==
    ASSUME IInv, Protocol, [Next]_vars, ~Finish, ~ReceiverComplete
    PROVE  rcv'.step = rcv.step \/ rcv'.step = "idle"
<1>1. rcv \in ReceiverRecords
  BY ReceiverTypes
<1>2. Failed.step = "idle" /\ \A session : IdleReceiver(session).step = "idle"
      /\ Listening(session).step = "idle"
  BY <1>1 DEF Failed, IdleReceiver, Listening, ReceiverRecords
<1>3. CASE SenderPackets \/ SenderTimers \/ SenderStart \/ SelectPeer \/ SenderExit
           \/ UNCHANGED vars
  <2>1. CASE SenderPackets
    <3>1. SenderOnly
      BY <2>1 DEF SenderPackets, SenderAdvertise, SenderAccept, SenderAck, SenderResult,
         SenderRefused, SenderIgnores, SenderTakes
    <3>2. QED
      BY <3>1 DEF SenderOnly
  <2>2. CASE SenderTimers \/ SenderStart \/ SelectPeer \/ SenderExit
    <3>1. SenderTimers => SenderOnly
      BY Zenon DEF SenderTimers, DiscoveryTimer, ApprovalTimer, SendTimer
    <3>2. SenderStart \/ SelectPeer \/ SenderExit => SenderOnly
      BY Zenon DEF SenderStart, SelectPeer, SenderExit
    <3>3. QED
      BY <2>2, <3>1, <3>2 DEF SenderOnly
  <2>3. CASE UNCHANGED vars
    BY <2>3 DEF vars
  <2>4. QED
    BY <1>3, <2>1, <2>2, <2>3
<1>4. CASE StartListening \/ RejectOffer \/ AskAboutCollision \/ ReceiverExit
           \/ DrawReceiving \/ ReceiveTimer \/ ReceiverPowerLoss
  BY <1>1, <1>2, <1>4 DEF StartListening, RejectOffer, AskAboutCollision, ReceiverExit,
     DrawReceiving, ReceiveTimer, ReceiverPowerLoss, ReceiverFails, ReceiverRecords
<1>5. CASE AcceptAs \/ SendPendingAccept
  BY <1>1, <1>2, <1>5, ZenonT(40) DEF AcceptAs, AcceptOffer, SendPendingAccept, ReceiverFails, Failed,
     ReceiverRecords
<1>6. CASE ReceiverPackets
  BY <1>1, <1>2, <1>6 DEF ReceiverPackets, ReceiverDiscover, ReceiverOffer, ReceiverData,
     ReceiverCancel, ReceiverIgnores, ReceiverFails, ReceiverRecords
<1>7. QED
  BY <1>3, <1>4, <1>5, <1>6 DEF Next, Users

\* finishReceivedFile() takes at most eight steps, whatever fails in them, and returns
\* with a result: the receiver's half of what WaitsEnd needs besides fairness.
THEOREM FinishingIsShort == Spec => [][FinishGoesOn]_vars
<1>1. ASSUME IInv, Protocol, [Next]_vars PROVE FinishGoesOn
  <2>1. rcv.step \in FinishSteps \cup {"idle"}
    BY <1>1, ReceiverTypes DEF ReceiverRecords
  <2>2. FinishLeft[rcv.step] \in 0..8
    BY <2>1, FinishLeftValues DEF FinishSteps
  <2>3. CASE Finish
    <3>1. /\ FinishLeft[rcv'.step] < FinishLeft[rcv.step]
          /\ rcv'.step = "idle" => rcv'.state \in {"Success", "Error"}
      BY <1>1, <2>3, FinishComesCloser
    <3>2. rcv'.step \in FinishSteps \cup {"idle"}
      <4>1. ReceiverInv'
        BY <1>1, StepIInv DEF IInv
      <4>2. QED
        BY <4>1 DEF ReceiverInv, ReceiverRecords
    <3>3. FinishLeft[rcv'.step] \in 0..8
      BY <3>2, FinishLeftValues DEF FinishSteps
    <3>4. ~(FinishLeft[rcv'.step] > FinishLeft[rcv.step])
      BY <2>2, <3>1, <3>3
    <3>5. QED
      BY <3>1, <3>4 DEF FinishGoesOn
  <2>4. CASE ReceiverComplete /\ ~Finish
    BY <2>4 DEF FinishGoesOn
  <2>5. CASE ~Finish /\ ~ReceiverComplete
    <3>1. rcv'.step = rcv.step \/ rcv'.step = "idle"
      BY <1>1, <2>5, OnlyCompleteBegins
    <3>2. ~(FinishLeft[rcv'.step] > FinishLeft[rcv.step])
      BY <2>2, <3>1, FinishLeftValues
    <3>3. QED
      BY <2>5, <3>2 DEF FinishGoesOn
  <2>6. QED
    BY <2>3, <2>4, <2>5
<1>2. QED
  BY ProtocolHolds, <1>1, PTL DEF Spec

\* The retries of the sender are counted and limited while it waits for an answer, and
\* the count starts again only when the file has come a chunk further: the sender's half
\* of what WaitsEnd needs besides fairness.  The final packet is the exception that the
\* code makes, and no wait in the sense of Unanswered.
THEOREM RetriesAreCounted == Spec => [][WaitGoesOn]_vars
<1>1. ASSUME IInv, Protocol, [Next]_vars, Unanswered, Unanswered' PROVE WaitGoesOn
  <2>1. /\ snd \in SenderRecords /\ CountInv
        /\ snd.state \in {"WaitingForApproval", "Sending"}
        /\ snd'.state \in {"WaitingForApproval", "Sending"}
    BY <1>1, SenderFacts DEF Unanswered
  <2>2. ~SenderFails
    BY <2>1 DEF SenderFails, SenderRecords
  <2>3. CASE ApprovalTimer \/ SendTimer
    <3>1. /\ snd' = [snd EXCEPT !.retries = @ + 1]
          /\ snd.retries < IF snd.state = "Sending" THEN MaxRetries ELSE MaxApprovals
      BY <1>1, <2>1, <2>2, <2>3 DEF ApprovalTimer, SendTimer, Unanswered
    <3>2. snd'.retries = snd.retries + 1 /\ snd.retries \in Nat
      BY <2>1, <3>1 DEF SenderRecords
    <3>3. snd'.retries <= IF snd.state = "Sending" THEN MaxRetries ELSE MaxApprovals
      BY <3>1, <3>2
    <3>4. QED
      BY <3>1, <3>3 DEF WaitGoesOn
  <2>4. CASE SenderAccept
    <3>1. SendFrom(0) /\ snd.state = "WaitingForApproval"
      BY <2>2, <2>4, SenderTaking, <1>1 DEF SenderAccept, SenderExpects
    <3>2. /\ snd'.state = "Sending" /\ snd'.next = 0 /\ snd'.total = snd.total
          /\ snd'.pending = (0 # snd.total)
      BY <2>1, <3>1 DEF SendFrom, SenderRecords
    <3>3. 0 # snd.total
      BY <1>1, <3>2 DEF Unanswered
    <3>4. snd'.next < snd'.total
      BY <1>1, <3>2, <3>3, SenderFacts
    <3>5. QED
      BY <3>1, <3>2, <3>4 DEF WaitGoesOn
  <2>5. CASE SenderAck
    <3>1. SendFrom(snd.next + 1) /\ snd.state = "Sending"
      BY <2>2, <2>5, SenderTaking, <1>1 DEF SenderAck, SenderExpects
    <3>2. /\ snd'.state = "Sending" /\ snd'.next = snd.next + 1 /\ snd'.total = snd.total
          /\ snd'.pending = (snd.next + 1 # snd.total)
      BY <2>1, <3>1 DEF SendFrom, SenderRecords
    <3>3. snd.next + 1 # snd.total
      BY <1>1, <3>2 DEF Unanswered
    <3>4. snd.next + 1 <= snd.total
      BY <1>1, <3>1, SenderFacts DEF CountInv, Sent, Unanswered
    <3>5. snd'.next < snd'.total
      BY <1>1, <3>2, <3>3, <3>4, SenderFacts
    <3>6. QED
      BY <3>1, <3>2, <3>5 DEF WaitGoesOn
  <2>6. CASE ~(ApprovalTimer \/ SendTimer \/ SenderAccept \/ SenderAck)
    <3>1. snd' = snd
      <4>1. CASE SenderStart \/ SelectPeer \/ SenderExit \/ DiscoveryTimer
        <5>1. /\ SenderStart => snd.state = "Off"
              /\ SelectPeer => snd.state = "DeviceList"
              /\ DiscoveryTimer => snd.state = "Discovering"
          BY Zenon DEF SenderStart, SelectPeer, DiscoveryTimer
        <5>2. SenderExit => snd' = IdleSender(snd.session)
          BY DEF SenderExit
        <5>3. ~SenderExit
          BY <2>1, <5>2 DEF IdleSender
        <5>4. QED
          BY <2>1, <4>1, <5>1, <5>3
      <4>2. CASE SenderPackets
        <5>1. CASE SenderAdvertise
          BY <1>1, <2>1, <5>1, SenderTaking DEF SenderAdvertise, SenderExpects
        <5>2. CASE SenderResult
          <6>1. snd' = [snd EXCEPT !.state = "Success"]
            BY <2>2, <5>2 DEF SenderResult
          <6>2. QED
            BY <2>1, <6>1 DEF SenderRecords
        <5>3. CASE SenderRefused
          BY <2>2, <5>3 DEF SenderRefused
        <5>4. CASE SenderIgnores
          BY <5>4 DEF SenderIgnores
        <5>5. QED
          BY <2>6, <4>2, <5>1, <5>2, <5>3, <5>4 DEF SenderPackets
      <4>3. CASE Finish
        BY <4>3 DEF Finish, FinishSync, FinishLook, FinishUnpark, FinishPark, FinishRename,
           FinishRestore, FinishTidy, FinishDone, FinishDrop, FinishFailed, Goto, ReceiverOnly
      <4>4. CASE ReceiverPackets
        BY <4>4 DEF ReceiverPackets, ReceiverDiscover, ReceiverOffer, ReceiverData,
           ReceiverComplete, ReceiverCancel, ReceiverIgnores, ReceiverTakes, ReceiverOnly
      <4>5. CASE StartListening \/ RejectOffer \/ AskAboutCollision \/ AcceptAs
                 \/ ReceiverExit \/ DrawReceiving \/ SendPendingAccept \/ ReceiveTimer
                 \/ ReceiverPowerLoss
        BY <4>5 DEF StartListening, RejectOffer, AskAboutCollision, AcceptAs, AcceptOffer,
           ReceiverExit, DrawReceiving, SendPendingAccept, ReceiveTimer, ReceiverPowerLoss,
           ReceiverOnly
      <4>6. CASE UNCHANGED vars
        BY <4>6 DEF vars
      <4>7. QED
        BY <1>1, <2>6, <4>1, <4>2, <4>3, <4>4, <4>5, <4>6 DEF Next, Users, SenderTimers
    <3>2. QED
      BY <2>6, <3>1 DEF WaitGoesOn
  <2>7. QED
    BY <2>3, <2>4, <2>5, <2>6
<1>2. ASSUME IInv, Protocol, [Next]_vars PROVE WaitGoesOn
  BY <1>1, <1>2 DEF WaitGoesOn
<1>3. QED
  BY ProtocolHolds, <1>2, PTL DEF Spec
=============================================================================
