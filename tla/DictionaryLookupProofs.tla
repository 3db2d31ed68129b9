----------------------- MODULE DictionaryLookupProofs -----------------------
(***************************************************************************)
(* Proofs about dictionary lookups: for any number of activities above one *)
(* another and any number of lookups, no controller is used by two tasks   *)
(* at once, whoever waits is served, and answers belong to their words.    *)
(***************************************************************************)
EXTENDS DictionaryLookup, TLAPS

USE BoundAssumption DEF BoundAssumption

Fields ==
    [state : States, covered : BOOLEAN, word : Words, suggested : BOOLEAN,
     nextIsSuggestion : BOOLEAN, done : BOOLEAN, cancelled : BOOLEAN,
     cancelRequested : BOOLEAN, location : Locations, foundFor : Words,
     altFormsSearched : BOOLEAN]

Tasks ==
    /\ main \in {"loop", "claim", "notify", "drain"}
    /\ worker \in [at : {"wait", "taken", "release"} \cup Running, c : 0..MaxOpen]
    /\ open \in 0..MaxOpen /\ owner \in 0..MaxOpen
    /\ notified \in 0..1 /\ asked \in Words

LEMMA Typed == TypeOK <=> ctl \in [Controllers -> Fields] /\ Tasks
  BY DEF TypeOK, Fields, Tasks

-----------------------------------------------------------------------------
(* The inductive invariant.                                                *)

\* Exactly one party sees to the owner: the main task that is about to notify,
\* the notification, or the worker.
OwnerInv ==
    /\ owner = 0 => At("wait") /\ notified = 0 /\ main # "notify"
    /\ owner # 0 =>
          /\ owner <= open
          /\ \/ main = "notify" /\ At("wait") /\ notified = 0
             \/ main # "notify" /\ At("wait") /\ notified = 1
             \/ main # "notify" /\ At("taken") /\ notified = 0
             \/ /\ main # "notify" /\ notified = 0
                /\ worker.at \in Running \cup {"release"} /\ worker.c = owner

\* Only the topmost activity has anything to do.
StackInv ==
    /\ \A c \in Controllers : c # open => ctl[c].state = "Idle" /\ ~ctl[c].covered
    /\ \A c \in Controllers : ctl[c].covered => ctl[c].state = "Idle"
    /\ main # "loop" => open > 0

\* The owner is the topmost controller, and waits, until the worker is done with
\* it; the topmost controller waits for nobody else.
LookupInv ==
    /\ owner # 0 /\ ~At("release") =>
          owner = open /\ Top.state = "LookingUp" /\ ~Top.done /\ main # "claim"
    /\ main \in {"claim", "notify"} => Top.state = "LookingUp" /\ ~Top.done
    /\ open > 0 /\ Top.state = "LookingUp" /\ ~Top.done /\ main # "claim" =>
          owner = open /\ ~At("release")

\* What is answered, and to which word.
AnswerInv ==
    /\ worker.at \in {"alternate", "check"} =>
          ctl[worker.c].foundFor = ctl[worker.c].word
    /\ At("publish") =>
          ctl[worker.c].cancelled \/ ctl[worker.c].foundFor = ctl[worker.c].word
    /\ \A c \in Controllers : ctl[c].state = "LookingUp" /\ ctl[c].done =>
          ctl[c].cancelled \/ ctl[c].foundFor = ctl[c].word

MarkInv ==
    \A c \in Controllers :
        ctl[c].state \in {"LookingUp", "AltFormPrompt"} /\ ctl[c].suggested =>
            ctl[c].nextIsSuggestion

IInv == TypeOK /\ OwnerInv /\ StackInv /\ LookupInv /\ AnswerInv /\ MarkInv

LEMMA InitIInv == Init => IInv
<1> SUFFICES ASSUME Init PROVE IInv
  OBVIOUS
<1> USE DEF Init, New
<1>1. TypeOK
  BY DEF TypeOK, Controllers, Words, States, Locations
<1>2. OwnerInv /\ StackInv /\ LookupInv /\ AnswerInv /\ MarkInv
  BY DEF OwnerInv, StackInv, LookupInv, AnswerInv, MarkInv, At, Top, Controllers
<1>3. QED
  BY <1>1, <1>2 DEF IInv

LEMMA TopIsOpen == TypeOK /\ open > 0 => open \in Controllers
  BY DEF TypeOK, Controllers

LEMMA Untouched ==
    ASSUME ctl \in [Controllers -> Fields], NEW c \in Controllers, NEW r \in Fields,
           ctl' = [ctl EXCEPT ![c] = r]
    PROVE  /\ ctl' \in [Controllers -> Fields] /\ ctl'[c] = r
           /\ \A d \in Controllers : d # c => ctl'[d] = ctl[d]
  OBVIOUS

\* Whom the worker serves.
LEMMA WorkersOwner ==
    ASSUME IInv
    PROVE  /\ Tasks /\ ctl \in [Controllers -> Fields]
           /\ open > 0 => open \in Controllers
           /\ worker.at \in Running =>
                 /\ worker.c = open /\ owner = open /\ open > 0
                 /\ main \in {"loop", "drain"} /\ notified = 0
                 /\ Top.state = "LookingUp" /\ ~Top.done
<1>1. Tasks /\ ctl \in [Controllers -> Fields]
  BY Typed DEF IInv
<1>2. open > 0 => open \in Controllers
  BY <1>1 DEF Tasks, Controllers
<1>3. worker.at \in Running => owner # 0
  BY DEF IInv, OwnerInv, At, Running
<1>4. QED
  BY <1>1, <1>2, <1>3 DEF IInv, OwnerInv, LookupInv, Tasks, At, Running

-----------------------------------------------------------------------------
(* The steps, by what they change.                                         *)

\* The topmost controller, which waits for nobody, goes on to another state.
LEMMA TopMovesOn ==
    ASSUME IInv, open > 0, main \in {"loop", "claim"}, main' = "loop",
           Top.state # "LookingUp" \/ Top.done \/ main = "claim",
           NEW r \in Fields, ctl' = [ctl EXCEPT ![open] = r],
           r.state # "LookingUp", r.covered => r.state = "Idle",
           r.state = "AltFormPrompt" /\ r.suggested => r.nextIsSuggestion,
           \/ open' = open
           \/ open' = open + 1 /\ open' <= MaxOpen /\ r.state = "Idle" /\ ~r.covered,
           UNCHANGED <<worker, owner, notified, asked>>
    PROVE  IInv'
<1>1. Tasks /\ ctl \in [Controllers -> Fields] /\ open \in Controllers
  BY WorkersOwner
<1>2. /\ ctl' \in [Controllers -> Fields] /\ ctl'[open] = r
      /\ \A d \in Controllers : d # open => ctl'[d] = ctl[d]
  BY <1>1, Untouched
<1>3. (At("wait") /\ owner = 0) \/ At("release")
  BY DEF IInv, OwnerInv, LookupInv
<1>4. TypeOK'
  <2>1. Tasks'
    BY <1>1 DEF Tasks
  <2>2. QED
    BY <1>2, <2>1 DEF TypeOK, Fields, Tasks
<1>5. OwnerInv'
  BY <1>1, <1>3 DEF IInv, OwnerInv, At, Tasks
<1>6. StackInv'
  BY <1>1, <1>2 DEF IInv, StackInv, Tasks, Controllers
<1>7. LookupInv'
  <2>1. open' \in Controllers /\ ctl'[open'].state # "LookingUp"
    BY <1>1, <1>2 DEF IInv, StackInv, Tasks, Controllers
  <2>2. QED
    BY <1>3, <2>1 DEF LookupInv, At, Top
<1>8. AnswerInv'
  BY <1>1, <1>2, <1>3 DEF IInv, AnswerInv, At
<1>9. MarkInv'
  BY <1>1, <1>2 DEF IInv, MarkInv
<1>10. QED
  BY <1>4, <1>5, <1>6, <1>7, <1>8, <1>9 DEF IInv

\* startLookup(), of a word that was chosen in the text or among the suggestions.
LEMMA TopStarts ==
    ASSUME IInv, InLoop, Top.state # "LookingUp", NEW s \in BOOLEAN, ResetFor(s)
    PROVE  IInv'
<1> DEFINE r == [New EXCEPT !.state = "LookingUp", !.word = asked + 1, !.suggested = s,
                            !.nextIsSuggestion = s \/ Top.nextIsSuggestion]
<1>1. Tasks /\ ctl \in [Controllers -> Fields] /\ open \in Controllers
  BY WorkersOwner DEF InLoop
<1>2. asked + 1 \in Words /\ ctl[open] \in Fields
  BY <1>1 DEF ResetFor, Tasks, Words
<1>3. r \in Fields
  <2>1. ASSUME NEW b \in BOOLEAN, NEW w \in Words
        PROVE  [New EXCEPT !.state = "LookingUp", !.word = w, !.suggested = s,
                           !.nextIsSuggestion = b] \in Fields
    <3>1. New \in Fields
      BY DEF Fields, New, States, Locations, Words
    <3>2. QED
      BY <3>1 DEF Fields, States
  <2>2. (s \/ Top.nextIsSuggestion) \in BOOLEAN
    OBVIOUS
  <2>3. QED
    BY <1>2, <2>1, <2>2
<1>4. /\ ctl' \in [Controllers -> Fields] /\ ctl'[open] = r
      /\ \A d \in Controllers : d # open => ctl'[d] = ctl[d]
  BY <1>1, <1>3, Untouched DEF ResetFor
<1>5. /\ r.state = "LookingUp" /\ ~r.done /\ ~r.covered /\ r.suggested = s
      /\ r.nextIsSuggestion = (s \/ Top.nextIsSuggestion)
  BY DEF New
<1>6. (At("wait") /\ owner = 0) \/ At("release")
  BY DEF IInv, OwnerInv, LookupInv
<1>7. /\ main' = "claim" /\ main = "loop" /\ open > 0
      /\ UNCHANGED <<open, worker, owner, notified>> /\ asked' = asked + 1
  BY DEF ResetFor, InLoop
<1> HIDE DEF r
<1>8. TypeOK'
  <2>1. Tasks'
    BY <1>1, <1>2, <1>7 DEF Tasks
  <2>2. QED
    BY <1>4, <2>1 DEF TypeOK, Fields, Tasks
<1>9. OwnerInv'
  BY <1>6, <1>7 DEF IInv, OwnerInv, At
<1>10. StackInv'
  BY <1>4, <1>5, <1>7 DEF IInv, StackInv
<1>11. LookupInv'
  BY <1>4, <1>5, <1>6, <1>7 DEF LookupInv, At, Top
<1>12. AnswerInv'
  BY <1>4, <1>5, <1>6, <1>7 DEF IInv, AnswerInv, At
<1>13. MarkInv'
  BY <1>4, <1>5, <1>7 DEF IInv, MarkInv
<1>14. QED
  BY <1>8, <1>9, <1>10, <1>11, <1>12, <1>13 DEF IInv

\* A step of runLookup().
LEMMA WorkerGoesOn ==
    ASSUME IInv, worker.at \in Running, NEW at \in Running \cup {"release"},
           worker' = [worker EXCEPT !.at = at], OnlyLookup,
           NEW r \in Fields, ctl' = [ctl EXCEPT ![worker.c] = r],
           r.state = Top.state, r.covered = Top.covered, r.done <=> at = "release",
           r.suggested = Top.suggested, r.nextIsSuggestion = Top.nextIsSuggestion,
           at \in {"alternate", "check"} => r.foundFor = r.word,
           at \in {"publish", "release"} => r.cancelled \/ r.foundFor = r.word
    PROVE  IInv'
<1>1. /\ Tasks /\ ctl \in [Controllers -> Fields] /\ open \in Controllers
      /\ worker.c = open /\ owner = open /\ open > 0
      /\ main \in {"loop", "drain"} /\ notified = 0
      /\ Top.state = "LookingUp" /\ ~Top.done
  BY WorkersOwner
<1>2. /\ ctl' \in [Controllers -> Fields] /\ ctl'[open] = r
      /\ \A d \in Controllers : d # open => ctl'[d] = ctl[d]
  BY <1>1, Untouched
<1>3. worker'.at = at /\ worker'.c = open /\ UNCHANGED <<open, main, owner, notified, asked>>
  BY <1>1 DEF OnlyLookup, Tasks
<1>4. TypeOK'
  <2>1. Tasks'
    BY <1>1, <1>3 DEF Tasks
  <2>2. QED
    BY <1>2, <2>1 DEF TypeOK, Fields, Tasks
<1>5. OwnerInv'
  BY <1>1, <1>3 DEF OwnerInv, At, Tasks, Running
<1>6. StackInv'
  BY <1>1, <1>2, <1>3 DEF IInv, StackInv, Top
<1>7. LookupInv'
  BY <1>1, <1>2, <1>3 DEF LookupInv, Top, At, Running
<1>8. AnswerInv'
  BY <1>1, <1>2, <1>3 DEF IInv, AnswerInv, At
<1>9. MarkInv'
  BY <1>1, <1>2, <1>3 DEF IInv, MarkInv, Top
<1>10. QED
  BY <1>4, <1>5, <1>6, <1>7, <1>8, <1>9 DEF IInv

-----------------------------------------------------------------------------
(* All steps.                                                              *)

LEMMA MainStep == IInv /\ (MainCalls \/ User \/ HandleDone) => IInv'
<1> SUFFICES ASSUME IInv, MainCalls \/ User \/ HandleDone PROVE IInv'
  OBVIOUS
<1>0. /\ Tasks /\ ctl \in [Controllers -> Fields]
      /\ TypeOK /\ OwnerInv /\ StackInv /\ LookupInv /\ AnswerInv /\ MarkInv
      /\ open > 0 => open \in Controllers /\ Top \in Fields
  BY WorkersOwner DEF IInv, Top
<1> DEFINE With(state) == [Top EXCEPT !.state = state]
           Settled(state) == [Top EXCEPT !.state = state, !.nextIsSuggestion = FALSE]
           Covered == [Top EXCEPT !.state = "Idle", !.covered = TRUE]
           Uncovered == [Top EXCEPT !.state = "NotFound", !.covered = FALSE]
<1>1. \A state \in States : open > 0 =>
          With(state) \in Fields /\ Settled(state) \in Fields /\ Covered \in Fields
          /\ Uncovered \in Fields
  BY <1>0 DEF Fields, States
<1>2. \A state \in States : open > 0 =>
          /\ With(state).state = state /\ With(state).covered = Top.covered
          /\ With(state).suggested = Top.suggested
          /\ With(state).nextIsSuggestion = Top.nextIsSuggestion
          /\ Settled(state).state = state /\ Settled(state).covered = Top.covered
          /\ Covered.state = "Idle" /\ Uncovered.state = "NotFound" /\ ~Uncovered.covered
  BY <1>0 DEF Fields
<1>3. /\ \A state : Settle(state) <=> ctl' = [ctl EXCEPT ![open] = Settled(state)]
      /\ \A state : ToState(state) <=> ctl' = [ctl EXCEPT ![open] = With(state)]
  BY DEF Settle, ToState, Top
<1> HIDE DEF With, Settled, Covered, Uncovered
<1>4. ASSUME open > 0, main = "loop", ~Top.covered, Top.state # "LookingUp" \/ Top.done,
             NEW state \in {"Idle", "NotFound", "ReadError"}, Settle(state), OnlyTop
      PROVE  IInv'
  BY <1>1, <1>2, <1>3, <1>4, TopMovesOn DEF OnlyTop, States
<1>5. ASSUME open > 0, main = "loop", ~Top.covered, Top.state # "LookingUp" \/ Top.done,
             Report
      PROVE  IInv'
  <2>1. open' = open \/ (open' = open + 1 /\ open' <= MaxOpen)
    BY <1>0, <1>5 DEF Report, Controllers, Tasks
  <2>2. QED
    BY <1>1, <1>2, <1>3, <1>5, <2>1, TopMovesOn DEF Report, States
<1>6. ASSUME open > 0, main = "loop", ~Top.covered, Top.state # "LookingUp" \/ Top.done,
             LookupFailed
      PROVE  IInv'
  <2>1. CASE ctl' = [ctl EXCEPT ![open].state = "Idle", ![open].covered = TRUE]
    <3>1. ctl' = [ctl EXCEPT ![open] = Covered]
      BY <2>1 DEF Covered, Top
    <3>2. QED
      BY <1>1, <1>2, <1>6, <3>1, TopMovesOn DEF LookupFailed, OnlyTop, States
  <2>2. QED
    BY <1>4, <1>6, <2>1 DEF LookupFailed
<1>7. CASE OpenActivity
  BY <1>0, <1>7 DEF OpenActivity, IInv, OwnerInv, StackInv, LookupInv, AnswerInv,
     MarkInv, At, Top, Tasks, TypeOK, Controllers
<1>8. CASE StartLookup
  BY <1>8, TopStarts DEF StartLookup, TopIs
<1>9. CASE ListChosen
  BY <1>0, <1>9, TopStarts DEF ListChosen, InLoop, StackInv, Top
<1>10. CASE WorkerIsBusy
  BY <1>0, <1>1, <1>2, <1>3, <1>10, TopMovesOn DEF WorkerIsBusy, StackInv, LookupInv, States
<1>11. CASE ClaimWorker
  BY <1>0, <1>11 DEF ClaimWorker, IInv, TypeOK, OwnerInv, StackInv, LookupInv, AnswerInv,
     MarkInv, At, Top, Tasks
<1>12. CASE NotifyWorker
  BY <1>0, <1>12 DEF NotifyWorker, IInv, TypeOK, OwnerInv, StackInv, LookupInv, AnswerInv,
     MarkInv, At, Top, Tasks
<1>13. CASE Cancelled \/ ReadError \/ DeclineAltForms
  BY <1>4, <1>13 DEF Cancelled, ReadError, DeclineAltForms, Answered, TopIs, InLoop
<1>14. CASE OfferAltForms
  <2>1. open > 0 /\ main = "loop" /\ ~Top.covered /\ Top.state = "LookingUp" /\ Top.done
    BY <1>14 DEF OfferAltForms, Answered, TopIs, InLoop
  <2>2. ctl' = [ctl EXCEPT ![open] = With("AltFormPrompt")] /\ OnlyTop
    BY <1>3, <1>14 DEF OfferAltForms
  <2>3. Top.suggested => Top.nextIsSuggestion
    BY <1>0, <2>1 DEF MarkInv, Top
  <2>4. QED
    BY <1>1, <1>2, <2>1, <2>2, <2>3, TopMovesOn DEF OnlyTop, States
<1>15. CASE Found
  BY <1>5, <1>15 DEF Found, Answered, TopIs, InLoop
<1>16. CASE NotFound
  BY <1>6, <1>16 DEF NotFound, Answered, TopIs, InLoop
<1>17. CASE SearchAltForms
  BY <1>4, <1>5, <1>6, <1>17 DEF SearchAltForms, TopIs, InLoop
<1>18. CASE ListCancelled
  <2>1. ctl' = [ctl EXCEPT ![open] = Uncovered]
    BY <1>18 DEF ListCancelled, Uncovered, Top
  <2>2. Top.state = "Idle"
    BY <1>0, <1>18 DEF ListCancelled, InLoop, StackInv, Top
  <2>3. QED
    BY <1>1, <1>2, <1>18, <2>1, <2>2, TopMovesOn
       DEF ListCancelled, InLoop, OnlyTop, States
<1>19. CASE Dismiss
  BY <1>1, <1>2, <1>3, <1>19, TopMovesOn DEF Dismiss, TopIs, InLoop, OnlyTop, States
<1>20. CASE RequestCancel \/ Exit
  <2>1. open \in Controllers /\ open > 0 /\ main = "loop"
    BY <1>0, <1>20 DEF RequestCancel, Exit, TopIs, InLoop
  <2>2. PICK r \in Fields :
          /\ ctl' = [ctl EXCEPT ![open] = r]
          /\ r.state = Top.state /\ (r.covered => Top.covered) /\ r.done = Top.done
          /\ r.suggested = Top.suggested /\ r.nextIsSuggestion = Top.nextIsSuggestion
          /\ r.cancelled = Top.cancelled /\ r.foundFor = Top.foundFor /\ r.word = Top.word
    <3>1. CASE RequestCancel
      <4>1. [Top EXCEPT !.cancelRequested = TRUE] \in Fields
        BY <1>0, <2>1 DEF Fields
      <4>2. ctl' = [ctl EXCEPT ![open] = [Top EXCEPT !.cancelRequested = TRUE]]
        BY <3>1 DEF RequestCancel, Top
      <4>3. QED
        BY <1>0, <2>1, <4>1, <4>2 DEF Fields
    <3>2. CASE Exit
      <4>1. [Top EXCEPT !.cancelRequested = TRUE, !.covered = FALSE] \in Fields
        BY <1>0, <2>1 DEF Fields
      <4>2. ctl' = [ctl EXCEPT ![open] = [Top EXCEPT !.cancelRequested = TRUE, !.covered = FALSE]]
        BY <3>2 DEF Exit, Top
      <4>3. QED
        BY <1>0, <2>1, <4>1, <4>2 DEF Fields
    <3>3. QED
      BY <1>20, <3>1, <3>2
  <2>3. /\ ctl' \in [Controllers -> Fields] /\ ctl'[open] = r
        /\ \A d \in Controllers : d # open => ctl'[d] = ctl[d]
    BY <1>0, <2>1, <2>2, Untouched
  <2>4. main' \in {"loop", "drain"} /\ UNCHANGED <<open, worker, owner, notified, asked>>
    BY <1>20, <2>1 DEF RequestCancel, Exit, OnlyTop
  <2>5. TypeOK'
    BY <1>0, <2>3, <2>4 DEF TypeOK, Fields, Tasks
  <2>6. OwnerInv' /\ StackInv'
    BY <1>0, <2>1, <2>2, <2>3, <2>4 DEF OwnerInv, StackInv, At, Top
  <2>7. LookupInv'
    BY <1>0, <2>1, <2>2, <2>3, <2>4 DEF LookupInv, At, Top
  <2>8. AnswerInv'
    BY <1>0, <2>1, <2>2, <2>3, <2>4, WorkersOwner DEF AnswerInv, At, Top, Running
  <2>9. MarkInv'
    BY <1>0, <2>1, <2>2, <2>3, <2>4 DEF MarkInv, Top
  <2>10. QED
    BY <2>5, <2>6, <2>7, <2>8, <2>9 DEF IInv
<1>21. CASE Destroy
  <2>1. open \in Controllers /\ open > 0 /\ main = "drain" /\ owner # open
    BY <1>0, <1>21 DEF Destroy, StackInv
  <2>2. New \in Fields
    BY DEF New, Fields, States, Locations, Words
  <2>3. /\ ctl' \in [Controllers -> Fields] /\ ctl'[open] = New
        /\ \A d \in Controllers : d # open => ctl'[d] = ctl[d]
    BY <1>0, <1>21, <2>1, <2>2, Untouched DEF Destroy
  <2>4. /\ open' = open - 1 /\ main' = "loop" /\ open \in Nat
        /\ UNCHANGED <<worker, owner, notified, asked>>
    BY <1>0, <1>21 DEF Destroy, Tasks
  <2>5. (At("wait") /\ owner = 0) \/ At("release")
    BY <1>0, <2>1 DEF OwnerInv, LookupInv, At
  <2>6. TypeOK'
    BY <1>0, <2>1, <2>3, <2>4 DEF TypeOK, Fields, Tasks
  <2>7. OwnerInv'
    BY <1>0, <2>1, <2>4, <2>5 DEF OwnerInv, At, Tasks
  <2>8. \A d \in Controllers : ctl'[d].state = "Idle" /\ ~ctl'[d].covered
    BY <1>0, <2>3 DEF StackInv, New
  <2>9. StackInv' /\ LookupInv' /\ AnswerInv' /\ MarkInv'
    BY <1>0, <2>1, <2>4, <2>5, <2>8 DEF StackInv, LookupInv, AnswerInv, MarkInv, At, Top,
       Controllers
  <2>10. QED
    BY <2>6, <2>7, <2>9 DEF IInv
<1>22. QED
  BY <1>7, <1>8, <1>9, <1>10, <1>11, <1>12, <1>13, <1>14, <1>15, <1>16, <1>17, <1>18,
     <1>19, <1>20, <1>21 DEF MainCalls, User, HandleDone

LEMMA WorkStep == IInv /\ Work => IInv'
<1> SUFFICES ASSUME IInv, Work PROVE IInv'
  OBVIOUS
<1> DEFINE c == worker.c
           old == ctl[c]
<1>0. /\ Tasks /\ ctl \in [Controllers -> Fields]
      /\ TypeOK /\ OwnerInv /\ StackInv /\ LookupInv /\ AnswerInv /\ MarkInv
      /\ worker.at \in Running => old \in Fields /\ old = Top /\ c \in Controllers
                                  /\ ~old.done /\ worker.at # "wait"
  BY WorkersOwner DEF IInv, Top, Running
<1>1. CASE TakeNotification
  <2>1. owner # 0 /\ main # "notify" /\ worker'.at = "taken" /\ notified' = 0
        /\ UNCHANGED <<open, ctl, main, owner, asked>> /\ worker'.c = worker.c
    BY <1>0, <1>1 DEF TakeNotification, OwnerInv, ToStep, At, Tasks
  <2>2. TypeOK'
    BY <1>0, <1>1 DEF TakeNotification, ToStep, TypeOK
  <2>3. QED
    BY <1>0, <1>1, <2>1, <2>2 DEF IInv, TakeNotification, OwnerInv, StackInv, LookupInv,
       AnswerInv, MarkInv, At, Top
<1>2. CASE LoadOwner
  <2>1. owner # 0
    BY <1>0, <1>2 DEF LoadOwner, OwnerInv, At
  <2>2. /\ worker'.at = "prepare" /\ worker'.c = owner
        /\ UNCHANGED <<open, ctl, main, owner, notified, asked>>
    BY <1>2, <2>1 DEF LoadOwner, OnlyLookup
  <2>3. TypeOK'
    BY <1>0, <1>2 DEF LoadOwner, OnlyLookup, TypeOK, Running
  <2>4. QED
    BY <1>0, <1>2, <2>1, <2>2, <2>3 DEF IInv, LoadOwner, OwnerInv, StackInv, LookupInv,
       AnswerInv, MarkInv, At, Top, Running
<1>3. CASE Prepare
  <2>1. CASE old.cancelRequested
    <3> DEFINE r == [old EXCEPT !.cancelled = TRUE]
    <3>1. worker.at \in Running /\ ctl' = [ctl EXCEPT ![c] = r]
      BY <1>3, <2>1 DEF Prepare, At, Running
    <3>2. /\ r \in Fields /\ r.cancelled /\ r.state = Top.state /\ r.covered = Top.covered
          /\ ~r.done /\ r.suggested = Top.suggested
          /\ r.nextIsSuggestion = Top.nextIsSuggestion
      BY <1>0, <3>1 DEF Fields
    <3> HIDE DEF r
    <3>3. QED
      BY <1>3, <2>1, <3>1, <3>2, WorkerGoesOn DEF Prepare, ToStep, Running
  <2>2. CASE ~old.cancelRequested
    <3>1. worker.at \in Running /\ ctl' = [ctl EXCEPT ![c] = old]
      BY <1>0, <1>3, <2>2 DEF Prepare, At, Running
    <3>2. worker' = [worker EXCEPT !.at = "locate"] /\ OnlyLookup
      BY <1>3, <2>2 DEF Prepare, ToStep
    <3>3. PICK r \in Fields : r = old /\ r = Top /\ (r.done <=> "locate" = "release")
      BY <1>0, <3>1
    <3>4. ctl' = [ctl EXCEPT ![worker.c] = r]
      BY <3>1, <3>3
    <3>5. /\ r.state = Top.state /\ r.covered = Top.covered
          /\ r.suggested = Top.suggested /\ r.nextIsSuggestion = Top.nextIsSuggestion
          /\ r.done <=> "locate" = "release"
      BY <3>3
    <3>6. worker.at \in Running /\ "locate" \in Running \cup {"release"}
      BY <3>1 DEF Running
    <3>7. QED
      BY <3>2, <3>4, <3>5, <3>6, WorkerGoesOn
  <2>3. QED
    BY <2>1, <2>2
<1>4. CASE Locate
  <2>1. PICK l \in Locations : ctl' = [ctl EXCEPT ![c].location = l, ![c].foundFor = old.word]
    BY <1>4 DEF Locate
  <2> DEFINE r == [old EXCEPT !.location = l, !.foundFor = old.word]
  <2>2. worker.at \in Running /\ ctl' = [ctl EXCEPT ![c] = r]
    BY <1>4, <2>1 DEF Locate, At, Running
  <2>3. /\ r \in Fields /\ r.foundFor = r.word /\ r.state = Top.state
        /\ r.covered = Top.covered /\ ~r.done /\ r.suggested = Top.suggested
        /\ r.nextIsSuggestion = Top.nextIsSuggestion
    BY <1>0, <2>2 DEF Fields
  <2> HIDE DEF r
  <2>4. worker' = [worker EXCEPT !.at = "alternate"] /\ OnlyLookup
    BY <1>4 DEF Locate, ToStep
  <2>5. r.done <=> "alternate" = "release"
    BY <2>3
  <2>6. QED
    BY <2>2, <2>3, <2>4, <2>5, WorkerGoesOn DEF Running
<1>5. CASE Alternate
  <2>1. worker.at \in Running /\ old.foundFor = old.word
    BY <1>0, <1>5 DEF Alternate, At, Running, AnswerInv
  <2>a. worker' = [worker EXCEPT !.at = "check"] /\ OnlyLookup
    BY <1>5 DEF Alternate, ToStep
  <2>2. CASE UNCHANGED ctl
    <3>1. ctl' = [ctl EXCEPT ![c] = old]
      BY <1>0, <2>1, <2>2
    <3>2. old \in Fields /\ old = Top /\ (old.done <=> "check" = "release")
      BY <1>0, <2>1
    <3>3. QED
      BY <2>1, <2>a, <3>1, <3>2, WorkerGoesOn DEF Running
  <2>3. ASSUME NEW l \in Locations,
               ctl' = [ctl EXCEPT ![c].location = l, ![c].altFormsSearched = TRUE]
        PROVE  IInv'
    <3> DEFINE r == [old EXCEPT !.location = l, !.altFormsSearched = TRUE]
    <3>1. ctl' = [ctl EXCEPT ![c] = r]
      BY <2>3
    <3>2. /\ r \in Fields /\ r.foundFor = r.word /\ r.state = Top.state
          /\ r.covered = Top.covered /\ ~r.done /\ r.suggested = Top.suggested
          /\ r.nextIsSuggestion = Top.nextIsSuggestion
      BY <1>0, <2>1 DEF Fields
    <3> HIDE DEF r
    <3>3. r.done <=> "check" = "release"
      BY <3>2
    <3>4. QED
      BY <2>1, <2>a, <3>1, <3>2, <3>3, WorkerGoesOn DEF Running
  <2>4. QED
    BY <1>5, <2>2, <2>3 DEF Alternate
<1>6. CASE Check
  <2> DEFINE r == [old EXCEPT !.cancelled = old.cancelRequested]
  <2>1. worker.at \in Running /\ old.foundFor = old.word
    BY <1>0, <1>6 DEF Check, At, Running, AnswerInv
  <2>2. ctl' = [ctl EXCEPT ![c] = r]
    BY <1>6 DEF Check
  <2>3. /\ r \in Fields /\ r.foundFor = r.word /\ r.state = Top.state
        /\ r.covered = Top.covered /\ ~r.done /\ r.suggested = Top.suggested
        /\ r.nextIsSuggestion = Top.nextIsSuggestion
    BY <1>0, <2>1 DEF Fields
  <2> HIDE DEF r
  <2>4. QED
    BY <1>6, <2>1, <2>2, <2>3, WorkerGoesOn DEF Check, ToStep, Running
<1>7. CASE Publish
  <2> DEFINE r == [old EXCEPT !.done = TRUE]
  <2>1. worker.at \in Running /\ (old.cancelled \/ old.foundFor = old.word)
    BY <1>0, <1>7 DEF Publish, At, Running, AnswerInv
  <2>2. ctl' = [ctl EXCEPT ![c] = r]
    BY <1>7 DEF Publish
  <2>3. /\ r \in Fields /\ (r.cancelled \/ r.foundFor = r.word) /\ r.state = Top.state
        /\ r.covered = Top.covered /\ r.done /\ r.suggested = Top.suggested
        /\ r.nextIsSuggestion = Top.nextIsSuggestion
    BY <1>0, <2>1 DEF Fields
  <2> HIDE DEF r
  <2>4. QED
    BY <1>7, <2>1, <2>2, <2>3, WorkerGoesOn DEF Publish, ToStep, Running
<1>8. CASE Release
  <2>1. owner # 0 /\ main # "notify" /\ notified = 0 /\ At("release")
    BY <1>0, <1>8 DEF Release, OwnerInv, At
  <2>2. /\ owner' = 0 /\ worker'.at = "wait"
        /\ UNCHANGED <<open, ctl, main, notified, asked>>
    BY <1>8 DEF Release
  <2>3. TypeOK'
    BY <1>0, <1>8 DEF Release, TypeOK
  <2>4. QED
    BY <1>0, <2>1, <2>2, <2>3 DEF IInv, OwnerInv, StackInv, LookupInv, AnswerInv, MarkInv,
       At, Top
<1>9. QED
  BY <1>1, <1>2, <1>3, <1>4, <1>5, <1>6, <1>7, <1>8 DEF Work

THEOREM Invariance == Spec => []IInv
<1>1. UNCHANGED vars /\ IInv => IInv'
  BY DEF vars, IInv, TypeOK, OwnerInv, StackInv, LookupInv, AnswerInv, MarkInv, At, Top
<1>2. IInv /\ [Next]_vars => IInv'
  BY <1>1, MainStep, WorkStep DEF Next
<1>3. QED
  BY InitIInv, <1>2, PTL DEF Spec

-----------------------------------------------------------------------------
(* What follows from it.                                                   *)

\* Every variable keeps its type: the notification is never counted twice.
THEOREM TypeCorrect == Spec => []TypeOK
<1>1. IInv => TypeOK
  BY DEF IInv
<1>2. QED
  BY Invariance, <1>1, PTL

\* No controller is destroyed or reset while its lookup runs.
THEOREM LookupsOwnTheirController == Spec => []NotUsedByBoth
<1>1. IInv => NotUsedByBoth
  <2> SUFFICES ASSUME IInv, ~(At("wait") \/ At("taken") \/ At("release")) PROVE NotUsedByBoth
    BY DEF NotUsedByBoth
  <2>1. worker.at \in Running
    BY DEF IInv, TypeOK, At
  <2>2. QED
    BY <2>1, WorkersOwner DEF NotUsedByBoth, Top, Tasks
<1>2. QED
  BY Invariance, <1>1, PTL

\* The controller that waits has the worker to itself, and the worker hears of it.
THEOREM WaitsAreServed == Spec => []WaitIsServed
<1>1. IInv => WaitIsServed
  BY DEF IInv, TypeOK, OwnerInv, LookupInv, WaitIsServed, InLoop, At, Top, Running
<1>2. QED
  BY Invariance, <1>1, PTL

\* The answer that is taken is the one to the word that was asked for.
THEOREM AnswersAreCurrent == Spec => []AnswerIsCurrent
<1>1. IInv => AnswerIsCurrent
  BY TopIsOpen DEF IInv, AnswerInv, AnswerIsCurrent, InLoop, Answered, TopIs, Top
<1>2. QED
  BY Invariance, <1>1, PTL

\* A suggestion that was chosen is reported as one.
THEOREM SuggestionsAreMarked == Spec => []SuggestionIsMarked
<1>1. IInv => SuggestionIsMarked
  BY TopIsOpen DEF IInv, MarkInv, SuggestionIsMarked, InLoop, Top
<1>2. QED
  BY Invariance, <1>1, PTL

-----------------------------------------------------------------------------
(* Why a wait ends: what is left of a lookup, counted in steps.            *)

\* The steps of the worker from here until it lets its owner go.
StepsLeft ==
    [at \in {"wait", "taken", "release"} \cup Running |->
        CASE at = "wait" -> 8
          [] at = "taken" -> 7
          [] at = "prepare" -> 6
          [] at = "locate" -> 5
          [] at = "alternate" -> 4
          [] at = "check" -> 3
          [] at = "publish" -> 2
          [] at = "release" -> 1]

WorkLeft ==
    IF owner = 0 THEN 0 ELSE IF main = "notify" THEN 9 ELSE StepsLeft[worker.at]

\* Every step of the worker, and the one that wakes it, brings the lookup
\* closer to its end; nothing but the start of the next one takes it away.
WorkGoesDown ==
    /\ NotifyWorker \/ Work => WorkLeft' < WorkLeft
    /\ WorkLeft' > WorkLeft => ClaimWorker

LEMMA StepsLeftValues ==
    /\ StepsLeft["wait"] = 8 /\ StepsLeft["taken"] = 7 /\ StepsLeft["prepare"] = 6
    /\ StepsLeft["locate"] = 5 /\ StepsLeft["alternate"] = 4 /\ StepsLeft["check"] = 3
    /\ StepsLeft["publish"] = 2 /\ StepsLeft["release"] = 1
  BY DEF StepsLeft, Running

LEMMA WorkIsCounted == IInv => WorkLeft \in 0..9
<1> SUFFICES ASSUME IInv PROVE WorkLeft \in 0..9
  OBVIOUS
<1>1. worker.at \in {"wait", "taken", "release"} \cup Running
  BY WorkersOwner DEF Tasks
<1>2. StepsLeft[worker.at] \in 1..8
  BY <1>1, StepsLeftValues DEF Running
<1>3. QED
  BY <1>2 DEF WorkLeft

LEMMA CountedNext == IInv' => WorkLeft' \in 0..9
<1> SUFFICES ASSUME IInv' PROVE WorkLeft' \in 0..9
  OBVIOUS
<1>1. worker'.at \in {"wait", "taken", "release"} \cup Running
  BY DEF IInv, TypeOK
<1>2. StepsLeft[worker'.at] \in 1..8
  BY <1>1, StepsLeftValues DEF Running
<1>3. StepsLeft[worker.at]' = StepsLeft[worker'.at]
  BY DEF StepsLeft
<1>4. QED
  BY <1>2, <1>3 DEF WorkLeft

LEMMA WorkIsDone ==
    ASSUME IInv, Work
    PROVE  WorkLeft' < WorkLeft
<1>1. /\ Tasks /\ owner \in Nat
      /\ owner = 0 => At("wait") /\ notified = 0
      /\ main = "notify" => At("wait") /\ notified = 0
  BY WorkersOwner DEF IInv, OwnerInv, Tasks
<1>2. worker.at \in {"wait", "taken", "release"} \cup Running /\ main' = main
  BY <1>1 DEF Tasks, Work, TakeNotification, LoadOwner, Prepare, Locate, Alternate, Check,
     Publish, Release, OnlyLookup
<1>3. owner # 0 /\ main # "notify"
  BY <1>1, <1>2 DEF Work, TakeNotification, LoadOwner, Prepare, Locate, Alternate, Check,
     Publish, Release, At
<1>4. CASE Release
  <2>1. WorkLeft' = 0
    BY <1>4 DEF Release, WorkLeft
  <2>2. WorkLeft = 1
    BY <1>3, <1>4, StepsLeftValues DEF Release, WorkLeft, At
  <2>3. QED
    BY <2>1, <2>2
<1>5. CASE ~Release
  <2>1. /\ owner' = owner
        /\ \/ worker.at = "wait" /\ worker'.at = "taken"
           \/ worker.at = "taken" /\ worker'.at = "prepare"
           \/ worker.at = "prepare" /\ worker'.at \in {"locate", "publish"}
           \/ worker.at = "locate" /\ worker'.at = "alternate"
           \/ worker.at = "alternate" /\ worker'.at = "check"
           \/ worker.at = "check" /\ worker'.at = "publish"
           \/ worker.at = "publish" /\ worker'.at = "release"
    BY <1>1, <1>3, <1>5 DEF Tasks, Work, TakeNotification, LoadOwner, Prepare, Locate,
       Alternate, Check, Publish, OnlyLookup, ToStep, At
  <2>2. WorkLeft = StepsLeft[worker.at] /\ WorkLeft' = StepsLeft[worker'.at]
    BY <1>2, <1>3, <2>1 DEF WorkLeft, StepsLeft
  <2>3. QED
    BY <2>1, <2>2, StepsLeftValues
<1>6. QED
  BY <1>4, <1>5

LEMMA MainLeavesWork ==
    ASSUME IInv, MainCalls \/ User \/ HandleDone, ~ClaimWorker, ~NotifyWorker
    PROVE  UNCHANGED <<worker, owner>> /\ main # "notify" /\ main' # "notify"
<1>1. CASE MainCalls
  BY <1>1 DEF MainCalls, WorkerIsBusy, Destroy
<1>2. CASE User
  BY <1>2 DEF User, OpenActivity, StartLookup, RequestCancel, ListCancelled, ListChosen,
     SearchAltForms, DeclineAltForms, Dismiss, Exit, LookupFailed, Report, ResetFor, OnlyTop,
     TopIs, InLoop
<1>3. CASE HandleDone
  BY <1>3 DEF HandleDone, Cancelled, Found, ReadError, OfferAltForms, NotFound, Answered,
     LookupFailed, Report, OnlyTop, TopIs, InLoop
<1>4. QED
  BY <1>1, <1>2, <1>3

\* A lookup comes to its end in at most nine steps, of which the main task takes
\* the first and the worker the others, and nothing that either task does, or the
\* user, adds to them: what WaitsEnd needs besides fairness.
THEOREM LookupsAreShort == Spec => [][WorkGoesDown]_vars
<1>1. ASSUME IInv, IInv', Next PROVE WorkGoesDown
  <2>6. WorkLeft \in 0..9
    BY <1>1, WorkIsCounted
  <2>7. WorkLeft' \in 0..9
    BY <1>1, CountedNext
  <2>1. CASE Work
    <3>1. WorkLeft' < WorkLeft
      BY <1>1, <2>1, WorkIsDone
    <3>2. ~(WorkLeft' > WorkLeft)
      BY <3>1, <2>6, <2>7
    <3>3. QED
      BY <3>1, <3>2 DEF WorkGoesDown
  <2>2. CASE NotifyWorker
    <3>1. owner # 0 /\ worker.at = "wait"
      BY <1>1, <2>2 DEF NotifyWorker, IInv, OwnerInv, At
    <3>2. WorkLeft = 9 /\ WorkLeft' = 8
      BY <2>2, <3>1, StepsLeftValues DEF NotifyWorker, WorkLeft
    <3>3. QED
      BY <3>2 DEF WorkGoesDown
  <2>3. CASE ClaimWorker
    <3>1. ~NotifyWorker
      BY <2>3 DEF ClaimWorker, NotifyWorker
    <3>2. CASE Work
      BY <2>1, <3>2
    <3>3. CASE ~Work
      BY <2>3, <3>1, <3>3 DEF WorkGoesDown
    <3>4. QED
      BY <3>2, <3>3
  <2>4. CASE ~Work /\ ~NotifyWorker /\ ~ClaimWorker
    <3>1. UNCHANGED <<worker, owner>> /\ main # "notify" /\ main' # "notify"
      BY <1>1, <2>4, MainLeavesWork DEF Next
    <3>2. WorkLeft' = WorkLeft
      BY <3>1 DEF WorkLeft
    <3>3. QED
      BY <2>4, <3>2, <2>6 DEF WorkGoesDown
  <2>5. QED
    BY <2>1, <2>2, <2>3, <2>4
<1>2. QED
  BY Invariance, <1>1, PTL DEF Spec
=============================================================================
