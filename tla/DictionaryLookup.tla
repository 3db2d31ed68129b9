-------------------------- MODULE DictionaryLookup --------------------------
(***************************************************************************)
(* Looking a word up: the one task of                                      *)
(* src/src/util/DictionaryLookupWorker.cpp, shared by the controllers      *)
(* (src/src/util/DictionaryLookupController.cpp) that the dictionary       *)
(* activities own.                                                         *)
(*                                                                         *)
(*  - Two tasks interleave at every atomic variable they share: the main   *)
(*    task, in the loop() or the onExit() of the topmost controller's      *)
(*    activity, and the worker.                                            *)
(*  - Controller c lies under controller c + 1; those above `open` do not  *)
(*    exist.  One that is destroyed leaves nothing to the next in its place*)
(*  - A word is the number of its lookup: no two lookups ask for the same, *)
(*    so that an answer to another one shows.                              *)
(***************************************************************************)
EXTENDS Naturals

CONSTANTS
    MaxOpen,        \* bound: dictionary activities one above another
    MaxLookups      \* bound: lookups started

ASSUME BoundAssumption == MaxOpen \in Nat /\ MaxLookups \in Nat

VARIABLES
    open,       \* controllers that exist: 1..open
    ctl,        \* their fields
    main,       \* where the main task is: in loop(), in startLookup(), in onExit()
    worker,     \* where the worker is, and the controller it runs
    owner,      \* owner_; 0 is nullptr
    notified,   \* the worker's notification count
    asked       \* history: lookups started

vars == <<open, ctl, main, worker, owner, notified, asked>>

Controllers == 1..MaxOpen
Words == 0..MaxLookups
States == {"Idle", "LookingUp", "AltFormPrompt", "NotFound", "ReadError"}
Locations == {"none", "found", "error"}

\* The fields of a controller; covered: its suggestions list is on top of it,
\* foundFor: the word foundLocation is the answer to, suggested: whether the
\* word came from the list.
New == [state |-> "Idle", covered |-> FALSE, word |-> 0, suggested |-> FALSE,
        nextIsSuggestion |-> FALSE, done |-> FALSE, cancelled |-> FALSE,
        cancelRequested |-> FALSE, location |-> "none", foundFor |-> 0,
        altFormsSearched |-> FALSE]

Running == {"prepare", "locate", "alternate", "check", "publish"}

TypeOK ==
    /\ open \in 0..MaxOpen
    /\ ctl \in [Controllers ->
         [state : States, covered : BOOLEAN, word : Words, suggested : BOOLEAN,
          nextIsSuggestion : BOOLEAN, done : BOOLEAN, cancelled : BOOLEAN,
          cancelRequested : BOOLEAN, location : Locations, foundFor : Words,
          altFormsSearched : BOOLEAN]]
    /\ main \in {"loop", "claim", "notify", "drain"}
    /\ worker \in [at : {"wait", "taken", "release"} \cup Running,
                   c : 0..MaxOpen]
    /\ owner \in 0..MaxOpen /\ notified \in 0..1 /\ asked \in Words

Init ==
    /\ open = 0 /\ ctl = [c \in Controllers |-> New]
    /\ main = "loop" /\ worker = [at |-> "wait", c |-> 0]
    /\ owner = 0 /\ notified = 0 /\ asked = 0

-----------------------------------------------------------------------------
(* The main task: the topmost controller, when no list is on top of it.    *)

Top == ctl[open]
InLoop == main = "loop" /\ open > 0
TopIs(state) == InLoop /\ ~Top.covered /\ Top.state = state

ToState(state) == ctl' = [ctl EXCEPT ![open].state = state]
\* The lookup is over for good: the next one is not a suggestion.
Settle(state) ==
    ctl' = [ctl EXCEPT ![open].state = state, ![open].nextIsSuggestion = FALSE]
OnlyTop == UNCHANGED <<open, main, worker, owner, notified, asked>>

OpenActivity ==
    /\ open = 0 /\ main = "loop" /\ MaxOpen > 0
    /\ open' = 1
    /\ UNCHANGED <<ctl, main, worker, owner, notified, asked>>

\* mutant: lookupDone is not reset
ResetForButDone(suggestion) ==
    /\ asked < MaxLookups /\ asked' = asked + 1
    /\ ctl' = [ctl EXCEPT ![open] =
          [New EXCEPT !.state = "LookingUp", !.word = asked + 1, !.done = Top.done,
                      !.suggested = suggestion,
                      !.nextIsSuggestion = suggestion \/ Top.nextIsSuggestion]]
    /\ main' = "claim"
    /\ UNCHANGED <<open, worker, owner, notified>>

\* mutant: nextIsSuggestion is reset with the rest
ResetForAll(suggestion) ==
    /\ asked < MaxLookups /\ asked' = asked + 1
    /\ ctl' = [ctl EXCEPT ![open] =
          [New EXCEPT !.state = "LookingUp", !.word = asked + 1,
                      !.suggested = suggestion]]
    /\ main' = "claim"
    /\ UNCHANGED <<open, worker, owner, notified>>

\* startLookup() up to the worker: every field of the last lookup is reset.
ResetFor(suggestion) ==
    /\ asked < MaxLookups /\ asked' = asked + 1
    /\ ctl' = [ctl EXCEPT ![open] =
          [New EXCEPT !.state = "LookingUp", !.word = asked + 1,
                      !.suggested = suggestion,
                      !.nextIsSuggestion = suggestion \/ Top.nextIsSuggestion]]
    /\ main' = "claim"
    /\ UNCHANGED <<open, worker, owner, notified>>

StartLookup == TopIs("Idle") /\ ResetFor(FALSE)

ClaimWorker ==
    /\ main = "claim" /\ owner = 0
    /\ owner' = open /\ main' = "notify"
    /\ UNCHANGED <<open, ctl, worker, notified, asked>>

\* mutant: what start() returns is not looked at
WorkerIsBusyUnnoticed ==
    /\ main = "claim" /\ owner # 0 /\ main' = "loop"
    /\ UNCHANGED <<open, ctl, worker, owner, notified, asked>>

\* It is still another's, or has not come to let this one go.
WorkerIsBusy ==
    /\ main = "claim" /\ owner # 0
    /\ ToState("Idle") /\ main' = "loop"
    /\ UNCHANGED <<open, worker, owner, notified, asked>>

NotifyWorker ==
    /\ main = "notify"
    /\ notified' = notified + 1 /\ main' = "loop"
    /\ UNCHANGED <<open, ctl, worker, owner, asked>>

\* Back, while the worker runs.
RequestCancel ==
    /\ TopIs("LookingUp") /\ ~Top.done /\ ~Top.cancelRequested
    /\ ctl' = [ctl EXCEPT ![open].cancelRequested = TRUE]
    /\ OnlyTop

Cancelled == TopIs("LookingUp") /\ Top.done /\ Top.cancelled /\ Settle("Idle") /\ OnlyTop

\* FoundDefinition: the activity shows it, or opens a definition, which has a
\* controller of its own.
Report ==
    /\ Settle("Idle")
    /\ open' \in {open} \cup {c \in Controllers : c = open + 1}
    /\ UNCHANGED <<main, worker, owner, notified, asked>>

Answered == TopIs("LookingUp") /\ Top.done /\ ~Top.cancelled
Found == Answered /\ Top.location = "found" /\ Report
ReadError == Answered /\ Top.location = "error" /\ Settle("ReadError") /\ OnlyTop
OfferAltForms ==
    /\ Answered /\ Top.location = "none" /\ ~Top.altFormsSearched
    /\ ToState("AltFormPrompt") /\ OnlyTop

\* handleLookupFailed(): a list of similar words, none, or no memory for it.
LookupFailed ==
    /\ \/ ctl' = [ctl EXCEPT ![open].state = "Idle", ![open].covered = TRUE]
       \/ Settle("NotFound")
       \/ Settle("Idle")
    /\ OnlyTop

NotFound == Answered /\ Top.location = "none" /\ LookupFailed

ListCancelled ==
    /\ InLoop /\ Top.covered
    /\ ctl' = [ctl EXCEPT ![open].state = "NotFound", ![open].covered = FALSE]
    /\ OnlyTop

\* startLookupAsSuggestion()
ListChosen == InLoop /\ Top.covered /\ ResetFor(TRUE)

\* The alternate forms are searched on the main task.
SearchAltForms ==
    /\ TopIs("AltFormPrompt")
    /\ \/ Report \/ (Settle("ReadError") /\ OnlyTop) \/ LookupFailed
DeclineAltForms == TopIs("AltFormPrompt") /\ Settle("Idle") /\ OnlyTop

\* A clipping, another dictionary, or back: whichever, the failure is gone.
Dismiss ==
    /\ TopIs("AltFormPrompt") \/ TopIs("NotFound") \/ TopIs("ReadError")
    /\ ToState("Idle") /\ OnlyTop

\* onExit() of the topmost activity, whatever it is doing.
Exit ==
    /\ InLoop
    /\ ctl' = [ctl EXCEPT ![open].cancelRequested = TRUE, ![open].covered = FALSE]
    /\ main' = "drain"
    /\ UNCHANGED <<open, worker, owner, notified, asked>>

\* mutant: the worker is not waited for
DestroyAtOnce ==
    /\ main = "drain"
    /\ ctl' = [ctl EXCEPT ![open] = New]
    /\ open' = open - 1 /\ main' = "loop"
    /\ UNCHANGED <<worker, owner, notified, asked>>

Destroy ==
    /\ main = "drain" /\ owner # open
    /\ ctl' = [ctl EXCEPT ![open] = New]
    /\ open' = open - 1 /\ main' = "loop"
    /\ UNCHANGED <<worker, owner, notified, asked>>

HandleDone == Cancelled \/ Found \/ ReadError \/ OfferAltForms \/ NotFound

-----------------------------------------------------------------------------
(* The worker: run() and runLookup() of the controller it found.           *)

ToStep(at) == worker' = [worker EXCEPT !.at = at]
OnlyLookup == UNCHANGED <<open, main, owner, notified, asked>>
At(step) == worker.at = step

\* mutant: the count is not cleared
TakeNotificationLeft ==
    /\ At("wait") /\ notified > 0 /\ ToStep("taken")
    /\ UNCHANGED <<open, ctl, main, owner, notified, asked>>

TakeNotification ==
    /\ At("wait") /\ notified > 0
    /\ notified' = 0 /\ ToStep("taken")
    /\ UNCHANGED <<open, ctl, main, owner, asked>>

LoadOwner ==
    /\ At("taken")
    /\ worker' = [at |-> IF owner = 0 THEN "wait" ELSE "prepare", c |-> owner]
    /\ UNCHANGED ctl /\ OnlyLookup

\* mutant: the early return does not set lookupDone
PrepareNeverDone ==
    /\ At("prepare")
    /\ IF ctl[worker.c].cancelRequested
       THEN /\ ctl' = [ctl EXCEPT ![worker.c].cancelled = TRUE]
            /\ ToStep("release")
       ELSE UNCHANGED ctl /\ ToStep("locate")
    /\ OnlyLookup

\* The index is prepared first; a lookup cancelled by then is not made.
Prepare ==
    /\ At("prepare")
    /\ IF ctl[worker.c].cancelRequested
       THEN /\ ctl' = [ctl EXCEPT ![worker.c].cancelled = TRUE]
            /\ ToStep("publish")
       ELSE UNCHANGED ctl /\ ToStep("locate")
    /\ OnlyLookup

Locate ==
    /\ At("locate")
    /\ \E l \in Locations : ctl' = [ctl EXCEPT ![worker.c].location = l,
                                    ![worker.c].foundFor = ctl[worker.c].word]
    /\ ToStep("alternate") /\ OnlyLookup

\* A miss is searched again among the alternate forms, when these are indexed.
Alternate ==
    /\ At("alternate")
    /\ \/ UNCHANGED ctl
       \/ /\ ctl[worker.c].location = "none" /\ ~ctl[worker.c].cancelRequested
          /\ \E l \in Locations :
                ctl' = [ctl EXCEPT ![worker.c].location = l,
                                   ![worker.c].altFormsSearched = TRUE]
    /\ ToStep("check") /\ OnlyLookup

Check ==
    /\ At("check")
    /\ ctl' = [ctl EXCEPT ![worker.c].cancelled = ctl[worker.c].cancelRequested]
    /\ ToStep("publish") /\ OnlyLookup

Publish ==
    /\ At("publish")
    /\ ctl' = [ctl EXCEPT ![worker.c].done = TRUE]
    /\ ToStep("release") /\ OnlyLookup

Release ==
    /\ At("release")
    /\ owner' = 0 /\ worker' = [at |-> "wait", c |-> 0]
    /\ UNCHANGED <<open, ctl, main, notified, asked>>

-----------------------------------------------------------------------------
MainCalls == ClaimWorker \/ WorkerIsBusy \/ NotifyWorker \/ Destroy
User ==
    \/ OpenActivity \/ StartLookup \/ RequestCancel \/ ListCancelled
    \/ ListChosen \/ SearchAltForms \/ DeclineAltForms \/ Dismiss \/ Exit
Work ==
    \/ TakeNotification \/ LoadOwner \/ Prepare \/ Locate \/ Alternate
    \/ Check \/ Publish \/ Release

Next == MainCalls \/ User \/ HandleDone \/ Work

Spec == Init /\ [][Next]_vars

\* Both tasks have the same priority and are given turns; loop() polls.
FairSpec ==
    /\ Spec
    /\ WF_vars(MainCalls) /\ WF_vars(HandleDone) /\ WF_vars(Work)

-----------------------------------------------------------------------------
(* Properties.                                                             *)

\* The worker runs a lookup only for a controller that exists and that still
\* waits for it: its activity is not destroyed, and startLookup() does not
\* reset the word and the results, while runLookup() uses them.
NotUsedByBoth ==
    At("wait") \/ At("taken") \/ At("release") \/
    /\ worker.c \in 1..open /\ worker.c = owner
    /\ ctl[worker.c].state = "LookingUp" /\ main \in {"loop", "drain"}
    /\ worker.c = open /\ ~Top.done

\* Whoever waits is served: a controller that looks a word up has the worker
\* to itself, and a worker that has an owner is notified of it or runs it.
WaitIsServed ==
    /\ InLoop /\ Top.state = "LookingUp" /\ ~Top.done => owner = open
    /\ owner # 0 /\ main # "notify" =>
          notified = 1 \/ At("taken") \/ worker.c = owner

\* The answer taken for a lookup is the one to the word it asked for, never
\* what an earlier lookup left or the worker has not come to.
AnswerIsCurrent == InLoop /\ Answered => Top.foundFor = Top.word

\* A word chosen from the suggestions is reported as one, however many steps
\* the lookup takes.  (The converse does not hold.)
SuggestionIsMarked ==
    InLoop /\ Top.state \in {"LookingUp", "AltFormPrompt"} /\ Top.suggested =>
        Top.nextIsSuggestion

\* Nobody waits for ever: every lookup ends, and onExit() returns, whatever
\* step the worker is at.
WaitsEnd ==
    /\ \A c \in Controllers :
          (ctl[c].state = "LookingUp") ~> (ctl[c].state # "LookingUp")
    /\ (main = "drain") ~> (main # "drain")
=============================================================================
