--------------------------- MODULE NearbyTransfer ---------------------------
(***************************************************************************)
(* One file sent from a reader to another over ESP-NOW                     *)
(* (src/src/activities/network/NearbyBookTransferActivity.cpp, in both of  *)
(* its modes): discovery, the offer and its approval, the chunks sent one  *)
(* at a time, the verification, and the file put in its place.             *)
(*                                                                         *)
(*  - A packet is lost or arrives, in the order of sending: to lose it when*)
(*    it is sent loses nothing of the behaviours.  A device whose radio is *)
(*    off hears nothing, and one that restarts forgets what it had heard.  *)
(*  - The content of chunk i of a file is i: the received bytes are the    *)
(*    sequence of the chunks written, and a checksum is such a sequence.   *)
(*  - The temporary files of the offered name and of its numbered copy are *)
(*    one here: acceptOffer() empties the one it uses.                     *)
(*  - Timers fire at any moment; the retries they count are the code's.    *)
(***************************************************************************)
EXTENDS SdCard, Sequences

CONSTANTS
    Name,           \* the offered name in the receiver's folder
    Copy,           \* the numbered name of "Keep both"
    Part,           \* .<name>.crossink-part
    Backup,         \* .<name>.crossink-backup
    Old,            \* the file the receiver had under that name
    MaxSessions,    \* bound: files offered one after another
    MaxChunks,      \* bound: chunks of a file
    MaxRetries,     \* MAX_RETRIES
    MaxApprovals,   \* MAX_APPROVAL_RETRIES
    Capacity        \* packets a radio queues for its device

Sessions == 1..MaxSessions      \* sessionId_, and the file sent in it

ASSUME PathAssumption ==
    /\ Paths = {Name, Copy, Part, Backup}
    /\ Name \notin {Copy, Part, Backup} /\ Copy \notin {Part, Backup}
    /\ Part # Backup
ASSUME FileAssumption == Docs = {Old} \cup Sessions /\ Old \notin Sessions
ASSUME BoundAssumption ==
    /\ MaxSessions \in Nat /\ MaxChunks \in Nat
    /\ MaxRetries \in Nat /\ MaxApprovals \in Nat /\ Capacity \in Nat

VARIABLES
    snd,        \* the activity in Mode::Send
    rcv,        \* the activity in Mode::Receive
    toS,        \* packets on their way to the sender
    toR,        \* packets on their way to the receiver
    placed,     \* history: sessions whose file was put in its place
    held        \* history: what the offered name held when it last existed

cardVars == <<files, faults>>
history == <<placed, held>>
vars == <<cardVars, snd, rcv, toS, toR, history>>

SenderStates == {"Off", "Discovering", "DeviceList", "WaitingForApproval",
                 "Sending", "Success", "Error"}
ReceiverStates == {"ChooseReceiveAction", "Listening", "OfferPrompt",
                   "CollisionPrompt", "Receiving", "Success", "Error"}
FinishSteps == {"sync", "look", "unpark", "park", "publish", "replace",
                "restore", "tidy", "done", "drop", "failed"}
Types == {"Discover", "Advertise", "Offer", "Accept", "Reject", "Data", "Ack",
          "Complete", "Result", "Cancel"}

Packets == [type : Types, session : Sessions, arg : Nat]
File(n) == [i \in 1..n |-> i - 1]       \* a file of n chunks

ResultOk == 0
ResultFailed == 1

\* An activity that was not opened; a session is a new one each time.
IdleSender(session) ==
    [state |-> "Off", session |-> session, paired |-> FALSE, total |-> 0,
     next |-> 0, pending |-> FALSE, retries |-> 0]
IdleReceiver(session) ==
    [state |-> "ChooseReceiveAction", session |-> session, paired |-> FALSE,
     total |-> 0, target |-> Name, got |-> <<>>, opened |-> FALSE,
     drawn |-> FALSE, accept |-> FALSE, step |-> "idle"]

TypeOK ==
    /\ CardType
    /\ snd \in [state : SenderStates, session : 0..MaxSessions,
                paired : BOOLEAN, total : 0..MaxChunks, next : 0..MaxChunks,
                pending : BOOLEAN, retries : 0..MaxRetries \cup 0..MaxApprovals]
    /\ rcv \in [state : ReceiverStates, session : 0..MaxSessions,
                paired : BOOLEAN, total : 0..MaxChunks,
                target : {Name, Copy}, got : Seq(Nat), opened : BOOLEAN,
                drawn : BOOLEAN, accept : BOOLEAN,
                step : FinishSteps \cup {"idle"}]
    /\ toS \in Seq(Packets) /\ toR \in Seq(Packets)
    /\ placed \in Seq(Sessions)
    /\ held \in Docs \cup {Absent}

\* A transfer that was interrupted may have left its temporary file.
Init ==
    /\ files \in [Paths -> Contents]
    /\ files[Name] \in {Absent, Old} /\ files[Part] \in {Absent, Torn}
    /\ ~Exists(Copy) /\ ~Exists(Backup)
    /\ faults = 0
    /\ snd = IdleSender(0) /\ rcv = IdleReceiver(0)
    /\ toS = <<>> /\ toR = <<>>
    /\ placed = <<>> /\ held = files[Name]

-----------------------------------------------------------------------------
(* The radio: of what a device sends, some packets are queued at the other *)
(* one, if its radio is on.                                                *)

SomeOf(ms) == {<<>>, ms} \cup {<<ms[i]>> : i \in 1..Len(ms)}
Queued(q, ms) == {q \o s : s \in {t \in SomeOf(ms) : Len(q) + Len(t) <= Capacity}}

Packet(type, session, arg) == [type |-> type, session |-> session, arg |-> arg]
Say(type, arg) == <<Packet(type, snd.session, arg)>>
Answer(type, arg) == <<Packet(type, rcv.session, arg)>>

ToReceiver(ms) ==
    toR' \in IF rcv.state # "ChooseReceiveAction" THEN Queued(toR, ms) ELSE {toR}
ToSender(ms) ==
    toS' \in IF snd.state # "Off" THEN Queued(toS, ms) ELSE {toS}

-----------------------------------------------------------------------------
(* The sender.                                                             *)

SenderOnly == UNCHANGED <<cardVars, rcv, history>>

\* setError(), which tells the receiver, if there is one, to cancel.
SenderFails ==
    /\ snd' = [snd EXCEPT !.state = "Error"]
    /\ ToReceiver(IF snd.paired THEN Say("Cancel", 0) ELSE <<>>)

\* onEnter() and startDiscovery(): the file cannot be read, or the radio not
\* started, or it looks for receivers.
SenderStart ==
    /\ snd.state = "Off" /\ snd.session < MaxSessions
    /\ \E n \in 0..MaxChunks, state \in {"Discovering", "Error"} :
          snd' = [IdleSender(snd.session + 1) EXCEPT !.total = n, !.state = state]
    /\ IF snd'.state = "Discovering"
       THEN ToReceiver(<<Packet("Discover", snd'.session, 0)>>)
       ELSE UNCHANGED toR
    /\ UNCHANGED toS /\ SenderOnly

DiscoveryTimer ==
    /\ snd.state = "Discovering"
    /\ ToReceiver(Say("Discover", 0))
    /\ UNCHANGED <<snd, toS>> /\ SenderOnly

SelectPeer ==
    /\ snd.state = "DeviceList"
    /\ snd' = [snd EXCEPT !.state = "WaitingForApproval", !.paired = TRUE, !.retries = 0]
    /\ ToReceiver(Say("Offer", snd.total))
    /\ UNCHANGED toS /\ SenderOnly

\* mutant: each offer starts the count of offers again
ApprovalTimerResets ==
    /\ snd.state = "WaitingForApproval"
    /\ snd' = [snd EXCEPT !.retries = 0]
    /\ ToReceiver(Say("Offer", snd.total))
    /\ UNCHANGED toS /\ SenderOnly

\* updateTimers(): an offer that was not answered is repeated.
ApprovalTimer ==
    /\ snd.state = "WaitingForApproval"
    /\ IF snd.retries < MaxApprovals
       THEN /\ snd' = [snd EXCEPT !.retries = @ + 1]
            /\ ToReceiver(Say("Offer", snd.total))
       ELSE SenderFails
    /\ UNCHANGED toS /\ SenderOnly

\* mutant: one repetition too many
SendTimerOnceMore ==
    /\ snd.state = "Sending"
    /\ IF snd.retries > MaxRetries THEN SenderFails
       ELSE /\ snd' = [snd EXCEPT !.retries = @ + 1]
            /\ ToReceiver(Say("Data", snd.next))
    /\ UNCHANGED toS /\ SenderOnly

\* updateTimers(): so is a chunk.  The final packet is repeated too, but
\* sendComplete() sets retryCount_ back.
SendTimer ==
    /\ snd.state = "Sending"
    /\ \/ /\ snd.retries >= MaxRetries
          /\ SenderFails
       \/ /\ snd.retries < MaxRetries /\ snd.pending
          /\ snd' = [snd EXCEPT !.retries = @ + 1]
          /\ ToReceiver(Say("Data", snd.next))
       \/ /\ snd.retries < MaxRetries /\ ~snd.pending
          /\ snd' = [snd EXCEPT !.retries = 0]
          /\ ToReceiver(Say("Complete", snd.total))
    /\ UNCHANGED toS /\ SenderOnly

\* Back, or any way out: exitAfterRadio(), after which the device restarts.
\* That the packet is lost is what a loss of power looks like.
SenderExit ==
    /\ snd.state # "Off"
    /\ ToReceiver(IF snd.state \in {"WaitingForApproval", "Sending"}
                  THEN Say("Cancel", 0) ELSE <<>>)
    /\ snd' = IdleSender(snd.session) /\ toS' = <<>>
    /\ SenderOnly

\* acceptAcknowledgement(): the one of the chunk that is waiting for it.
Acknowledges(m) == m.arg = snd.next + 1

SenderExpects(m) ==
    /\ m.session = snd.session
    /\ \/ m.type = "Advertise" /\ snd.state = "Discovering"
       \/ m.type \in {"Accept", "Reject"} /\ snd.state = "WaitingForApproval"
       \/ m.type = "Ack" /\ snd.state = "Sending" /\ Acknowledges(m)
       \/ m.type = "Result" /\ snd.state = "Sending"
       \/ m.type = "Cancel" /\ snd.paired

SenderTakes(type) ==
    /\ toS # <<>>
    /\ Head(toS).type = type /\ SenderExpects(Head(toS))
    /\ toS' = Tail(toS)
    /\ SenderOnly

SenderAdvertise ==
    /\ SenderTakes("Advertise")
    /\ snd' = [snd EXCEPT !.state = "DeviceList"]
    /\ UNCHANGED toR

\* The first n chunks are with the receiver: the next one is read and sent, or
\* the end is announced.
SendFrom(n) ==
    /\ snd' = [snd EXCEPT !.state = "Sending", !.next = n,
                          !.pending = (n # snd.total), !.retries = 0]
    /\ ToReceiver(IF n = snd.total THEN Say("Complete", snd.total) ELSE Say("Data", n))

SenderAccept ==
    /\ SenderTakes("Accept")
    /\ SendFrom(0) \/ SenderFails

SenderAck ==
    /\ SenderTakes("Ack")
    /\ \/ SendFrom(snd.next + 1)
       \/ snd.next + 1 # snd.total /\ SenderFails

SenderResult ==
    /\ SenderTakes("Result")
    /\ IF Head(toS).arg = ResultOk
       THEN snd' = [snd EXCEPT !.state = "Success"] /\ UNCHANGED toR
       ELSE SenderFails

\* A rejection, and a cancellation in whatever state, are errors.
SenderRefused ==
    /\ SenderTakes("Reject") \/ SenderTakes("Cancel")
    /\ SenderFails

SenderIgnores ==
    /\ toS # <<>> /\ ~SenderExpects(Head(toS))
    /\ toS' = Tail(toS)
    /\ UNCHANGED <<snd, toR>> /\ SenderOnly

-----------------------------------------------------------------------------
(* The receiver.                                                           *)

ReceiverOnly == UNCHANGED <<snd, history>>

Ready == rcv.step = "idle"      \* it is not inside finishReceivedFile()

\* startListening(), when the radio is on.
Listening(session) == [IdleReceiver(session) EXCEPT !.state = "Listening"]

Failed == [rcv EXCEPT !.state = "Error", !.accept = FALSE, !.drawn = FALSE,
                      !.step = "idle"]

\* cancelTransfer() removes the temporary file, if it was given a name.
TidyPart == IF rcv.opened THEN MayRemove(Part) ELSE Untouched

ReceiverFails(ms) == rcv' = Failed /\ TidyPart /\ ToSender(ms)

\* Unless the radio does not start.
StartListening ==
    /\ rcv.state = "ChooseReceiveAction"
    /\ rcv' \in {Listening(rcv.session), Failed}
    /\ UNCHANGED <<cardVars, toS, toR>> /\ ReceiverOnly

\* rejectOffer(), and Back at a prompt.
RejectOffer ==
    /\ rcv.state \in {"OfferPrompt", "CollisionPrompt"}
    /\ rcv' = Listening(rcv.session)
    /\ ToSender(Answer("Reject", 0))
    /\ UNCHANGED <<cardVars, toR>> /\ ReceiverOnly

AskAboutCollision ==
    /\ rcv.state = "OfferPrompt" /\ Exists(Name)
    /\ rcv' = [rcv EXCEPT !.state = "CollisionPrompt"]
    /\ UNCHANGED <<cardVars, toS, toR>> /\ ReceiverOnly

\* acceptOffer(): there is no space, the temporary file cannot be opened, or
\* the transfer begins.
AcceptOffer(target) ==
    /\ \/ /\ rcv' = [Failed EXCEPT !.target = target]
          /\ ToSender(Answer("Reject", 0) \o Answer("Cancel", 0))
          /\ Untouched
       \/ /\ rcv' = [Failed EXCEPT !.target = target, !.opened = TRUE]
          /\ ToSender(Answer("Cancel", 0))
          /\ CardFails /\ Fault
          /\ files' \in {files, [files EXCEPT ![Part] = Absent]}
       \/ /\ rcv' = [rcv EXCEPT !.state = "Receiving", !.target = target,
                                !.opened = TRUE, !.got = <<>>,
                                !.accept = TRUE, !.drawn = FALSE]
          /\ Opened(Part) /\ UNCHANGED toS
    /\ UNCHANGED toR /\ ReceiverOnly

AcceptAs ==
    \/ rcv.state = "OfferPrompt" /\ ~Exists(Name) /\ AcceptOffer(Name)
    \/ rcv.state = "CollisionPrompt" /\ AcceptOffer(Name)
    \/ rcv.state = "CollisionPrompt" /\ ~Exists(Copy) /\ AcceptOffer(Copy)

\* render(): the task that paints the receiving screen says so.
DrawReceiving ==
    /\ rcv.state = "Receiving" /\ ~rcv.drawn
    /\ rcv' = [rcv EXCEPT !.drawn = TRUE]
    /\ UNCHANGED <<cardVars, toS, toR>> /\ ReceiverOnly

\* sendPendingAccept(), at the head of loop().
SendPendingAccept ==
    /\ Ready /\ rcv.accept /\ rcv.drawn
    /\ \/ /\ rcv' = [rcv EXCEPT !.accept = FALSE]
          /\ ToSender(Answer("Accept", 0)) /\ Untouched
       \/ ReceiverFails(Answer("Cancel", 0))
    /\ UNCHANGED toR /\ ReceiverOnly

ReceiveTimer ==
    /\ rcv.state = "Receiving" /\ Ready
    /\ ReceiverFails(Answer("Cancel", 0))
    /\ UNCHANGED toR /\ ReceiverOnly

\* exitAfterRadio() and openReceivedFile(): the device restarts.
ReceiverExit ==
    /\ rcv.state # "ChooseReceiveAction" /\ Ready
    /\ IF rcv.state \in {"OfferPrompt", "CollisionPrompt", "Receiving"}
       THEN ToSender(Answer("Cancel", 0)) /\ TidyPart
       ELSE UNCHANGED toS /\ Untouched
    /\ rcv' = IdleReceiver(0) /\ toR' = <<>>
    /\ ReceiverOnly

ReceiverPowerLoss ==
    /\ rcv.state # "ChooseReceiveAction"
    /\ PowerFails
    /\ rcv' = IdleReceiver(0) /\ toR' = <<>>
    /\ UNCHANGED toS /\ ReceiverOnly

ReceiverExpects(m) ==
    \/ m.type \in {"Discover", "Offer"} /\ rcv.state = "Listening"
    \/ /\ m.session = rcv.session /\ rcv.paired
       /\ \/ m.type = "Offer" /\ rcv.state = "Receiving" /\ ~rcv.accept
          \/ m.type = "Data" /\ rcv.state = "Receiving"
          \/ m.type = "Complete" /\ rcv.state \in {"Receiving", "Success"}
          \/ m.type = "Cancel"

ReceiverTakes(type) ==
    /\ toR # <<>> /\ Ready
    /\ Head(toR).type = type /\ ReceiverExpects(Head(toR))
    /\ toR' = Tail(toR)
    /\ ReceiverOnly

ReceiverDiscover ==
    /\ ReceiverTakes("Discover")
    /\ rcv' = [rcv EXCEPT !.session = Head(toR).session]
    /\ ToSender(<<Packet("Advertise", Head(toR).session, 0)>>)
    /\ UNCHANGED cardVars

\* The first offer heard asks the user; a repeated one means that the answer
\* was lost.
ReceiverOffer ==
    /\ ReceiverTakes("Offer")
    /\ IF rcv.state = "Listening"
       THEN /\ rcv' = [rcv EXCEPT !.state = "OfferPrompt", !.paired = TRUE,
                                  !.session = Head(toR).session,
                                  !.total = Head(toR).arg]
            /\ UNCHANGED toS
       ELSE ToSender(Answer("Accept", 0)) /\ UNCHANGED rcv
    /\ UNCHANGED cardVars

\* mutant: a chunk is written whatever its number
ReceiverDataUnnumbered ==
    /\ ReceiverTakes("Data")
    /\ rcv' = [rcv EXCEPT !.got = Append(@, Head(toR).arg)]
    /\ ToSender(Answer("Ack", Len(rcv.got) + 1)) /\ Untouched

\* The chunk that is due is written; any other one is only acknowledged again.
ReceiverData ==
    /\ ReceiverTakes("Data")
    /\ \/ /\ Head(toR).arg = Len(rcv.got)
          /\ rcv' = [rcv EXCEPT !.got = Append(@, Head(toR).arg)]
          /\ ToSender(Answer("Ack", Len(rcv.got) + 1)) /\ Untouched
       \/ /\ Head(toR).arg = Len(rcv.got)
          /\ rcv' = Failed /\ CardFails /\ Fault
          /\ files' \in {files, [files EXCEPT ![Part] = Absent]}
          /\ ToSender(Answer("Result", ResultFailed) \o Answer("Cancel", 0))
       \/ /\ Head(toR).arg # Len(rcv.got)
          /\ ToSender(Answer("Ack", Len(rcv.got)))
          /\ UNCHANGED rcv /\ Untouched

\* The sizes and the checksums are compared.
Verified(n) == n = rcv.total /\ n = Len(rcv.got) /\ rcv.got = File(n)

ReceiverComplete ==
    /\ ReceiverTakes("Complete")
    /\ IF rcv.state = "Success"
       THEN ToSender(Answer("Result", ResultOk)) /\ UNCHANGED rcv
       ELSE /\ rcv' = [rcv EXCEPT !.step = IF Verified(Head(toR).arg)
                                           THEN "sync" ELSE "drop"]
            /\ UNCHANGED toS
    /\ UNCHANGED cardVars

\* cancelTransfer() and setError() each tell the sender.
ReceiverCancel ==
    /\ ReceiverTakes("Cancel")
    /\ ReceiverFails(Answer("Cancel", 0) \o Answer("Cancel", 0))

ReceiverIgnores ==
    /\ toR # <<>> /\ Ready /\ ~ReceiverExpects(Head(toR))
    /\ toR' = Tail(toR)
    /\ UNCHANGED <<cardVars, rcv, toS>> /\ ReceiverOnly

-----------------------------------------------------------------------------
(* finishReceivedFile().                                                   *)

Goto(step) ==
    /\ rcv' = [rcv EXCEPT !.step = step]
    /\ UNCHANGED <<snd, toS, toR>>

\* What the user finds under the offered name.
Noted == held' = IF files'[Name] = Absent THEN held ELSE files'[Name]

\* mutant: the results of sync() and close() are not looked at
FinishSyncUnchecked ==
    /\ rcv.step = "sync"
    /\ Written(Part, rcv.session) \/ Fails
    /\ Goto("look")
    /\ UNCHANGED history

\* flush(), sync() and close().
FinishSync ==
    /\ rcv.step = "sync"
    /\ \/ Written(Part, IF rcv.got = File(rcv.total) THEN rcv.session ELSE Torn)
          /\ Goto("look")
       \/ Fails /\ Goto("drop")
    /\ UNCHANGED history

FinishLook ==
    /\ rcv.step = "look"
    /\ Goto(IF Exists(rcv.target) THEN "unpark" ELSE "publish")
    /\ Untouched /\ UNCHANGED history

FinishUnpark ==
    /\ rcv.step = "unpark"
    /\ MayRemove(Backup) /\ Goto("park")
    /\ UNCHANGED history

\* mutant: the file that is replaced is removed instead
FinishParkRemoves ==
    /\ rcv.step = "park"
    /\ \/ Removed(rcv.target) /\ Goto("replace")
       \/ Fails /\ Goto("drop")
    /\ UNCHANGED placed /\ Noted

FinishPark ==
    /\ rcv.step = "park"
    /\ \/ Renamed(rcv.target, Backup) /\ Goto("replace")
       \/ RenameFails(rcv.target, Backup) /\ Goto("drop")
    /\ UNCHANGED placed /\ Noted

\* mutant: the result of the last rename is not looked at
FinishRenameUnchecked ==
    /\ rcv.step \in {"publish", "replace"}
    /\ \/ /\ Renamed(Part, rcv.target)
          /\ placed' = Append(placed, rcv.session)
          /\ Goto(IF rcv.step = "replace" THEN "tidy" ELSE "done")
       \/ /\ RenameFails(Part, rcv.target)
          /\ UNCHANGED placed
          /\ Goto("done")
    /\ Noted

FinishRename ==
    /\ rcv.step \in {"publish", "replace"}
    /\ \/ /\ Renamed(Part, rcv.target)
          /\ placed' = Append(placed, rcv.session)
          /\ Goto(IF rcv.step = "replace" THEN "tidy" ELSE "done")
       \/ /\ RenameFails(Part, rcv.target)
          /\ UNCHANGED placed
          /\ Goto(IF rcv.step = "replace" THEN "restore" ELSE "drop")
    /\ Noted

FinishRestore ==
    /\ rcv.step = "restore"
    /\ MayRename(Backup, rcv.target) /\ Goto("drop")
    /\ UNCHANGED placed /\ Noted

FinishTidy ==
    /\ rcv.step = "tidy"
    /\ MayRemove(Backup) /\ Goto("done")
    /\ UNCHANGED history

FinishDone ==
    /\ rcv.step = "done"
    /\ rcv' = [rcv EXCEPT !.state = "Success", !.step = "idle"]
    /\ ToSender(Answer("Result", ResultOk))
    /\ Untouched /\ UNCHANGED <<snd, toR, history>>

FinishDrop ==
    /\ rcv.step = "drop"
    /\ MayRemove(Part) /\ Goto("failed")
    /\ UNCHANGED history

\* setError(), and then the result.
FinishFailed ==
    /\ rcv.step = "failed"
    /\ ReceiverFails(Answer("Cancel", 0) \o Answer("Result", ResultFailed))
    /\ UNCHANGED toR /\ ReceiverOnly

-----------------------------------------------------------------------------
SenderPackets ==
    \/ SenderAdvertise \/ SenderAccept \/ SenderAck \/ SenderResult
    \/ SenderRefused \/ SenderIgnores

SenderTimers == DiscoveryTimer \/ ApprovalTimer \/ SendTimer

ReceiverPackets ==
    \/ ReceiverDiscover \/ ReceiverOffer \/ ReceiverData \/ ReceiverComplete
    \/ ReceiverCancel \/ ReceiverIgnores

Finish ==
    \/ FinishSync \/ FinishLook \/ FinishUnpark \/ FinishPark \/ FinishRename
    \/ FinishRestore \/ FinishTidy \/ FinishDone \/ FinishDrop \/ FinishFailed

Users ==
    \/ SenderStart \/ SelectPeer \/ SenderExit
    \/ StartListening \/ RejectOffer \/ AskAboutCollision \/ AcceptAs
    \/ ReceiverExit

Next ==
    \/ Users \/ SenderPackets \/ SenderTimers
    \/ ReceiverPackets \/ Finish
    \/ DrawReceiving \/ SendPendingAccept \/ ReceiveTimer \/ ReceiverPowerLoss

Spec == Init /\ [][Next]_vars

\* loop() of either device runs on, and so does the render task; no user has to
\* do anything.
FairSpec ==
    /\ Spec
    /\ WF_vars(SenderPackets)
    /\ WF_vars(ApprovalTimer)
    /\ WF_vars(SendTimer)
    /\ WF_vars(ReceiverPackets)
    /\ WF_vars(Finish)
    /\ WF_vars(DrawReceiving)
    /\ WF_vars(SendPendingAccept)
    /\ WF_vars(ReceiveTimer)

-----------------------------------------------------------------------------
(* Properties.                                                             *)

\* "does not leave a usable partial book or image behind"
\* (src/docs/nearby-file-transfer.md:59): whatever is lost, repeated, cancelled,
\* refused by the card or cut off, no file that can be opened is a part of one.
NothingPartial == \A path \in {Name, Copy, Backup} : files[path] # Torn

\* The file the receiver had under the offered name is on the card until another
\* one has that name: under it, or as the hidden backup.
FileIsKept == held # Absent => held \in {files[Name], files[Backup]}

\* Stop and wait: while both devices are in the same transfer the receiver has
\* the chunks that were acknowledged, and at most the one that is waiting for
\* its acknowledgement besides.
InStep ==
    snd.state = "Sending" /\ rcv.state = "Receiving" /\ snd.session = rcv.session
    => /\ rcv.got = File(Len(rcv.got))
       /\ Len(rcv.got) - snd.next \in IF snd.pending THEN {0, 1} ELSE {0}

\* "Keep both readers on their transfer screens until the sender reports File
\* sent" (src/docs/nearby-file-transfer.md:45): it reports a success only of a
\* file that was verified and put in its place, and none is put there twice.
Delivery == INSTANCE Delivery WITH
    session <- snd.session,
    outcome <- CASE snd.state = "Off" -> "none"
                 [] snd.state = "Success" -> "success"
                 [] snd.state = "Error" -> "failed"
                 [] OTHER -> "open"

ImplementsDelivery == Delivery!Spec

\* Neither side waits for ever for one that is gone: the receiver for a chunk,
\* the sender for the answer to its offer or to a chunk.
Unanswered == snd.state = "WaitingForApproval" \/ (snd.state = "Sending" /\ snd.pending)
WaitsEnd ==
    /\ rcv.state = "Receiving" ~> rcv.state # "Receiving"
    /\ Unanswered ~> ~Unanswered

\* "The other device stopped responding" (src/docs/nearby-file-transfer.md:71):
\* a transfer comes to an end whatever became of the receiver.
SendingEnds == snd.state = "Sending" ~> snd.state # "Sending"
=============================================================================
