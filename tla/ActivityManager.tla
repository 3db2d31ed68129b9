-------------------------- MODULE ActivityManager --------------------------
(***************************************************************************)
(* The screen manager of the firmware (src/src/activities).  Two tasks     *)
(* share it: the main task (the Arduino loop, which runs every activity's  *)
(* callbacks and performs the navigation they ask for) and the render task *)
(* (which paints the current activity when it is notified).  They          *)
(* synchronise through one mutex (renderingMutex, held through a           *)
(* RenderLock), one waiter slot (waitingTaskHandle) and one FreeRTOS       *)
(* notification per task.                                                  *)
(*                                                                         *)
(* An activity is a heap object, known by its identity; what it draws is   *)
(* abstracted to whether the panel shows its present state (fresh).  A     *)
(* notification count is a flag: both tasks take it with pdTRUE, which     *)
(* clears it, so only zero and non-zero differ.                            *)
(***************************************************************************)
EXTENDS Naturals, Sequences

CONSTANTS
    Activities,     \* heap slots an activity object can occupy
    Homes,          \* those that can hold a HomeActivity
    Readers,        \* ... an EpubReaderActivity
    Overlays,       \* ... a drawer with requiresFreshBackdrop()
    Exclusives,     \* ... a UsbDriveActivity
    NoActivity,     \* the null unique_ptr
    MaxStack,       \* bound: activities suspended under the current one
    MaxOps,         \* bound: state changes and requests of one callback
    FrontlightDrawer, \* supportsFrontlightDrawer(): the device has the drawer
    Handoffs        \* whether overlay resumes and menu hand-offs are requested

ASSUME KindAssumption ==
    /\ Homes \subseteq Activities /\ Readers \subseteq Activities
    /\ Overlays \subseteq Activities /\ Exclusives \subseteq Activities
ASSUME DisjointAssumption ==
    /\ Homes \cap (Readers \cup Overlays \cup Exclusives) = {}
    /\ Readers \cap (Overlays \cup Exclusives) = {}
    /\ Overlays \cap Exclusives = {}
ASSUME NullAssumption == NoActivity \notin Activities
ASSUME BoundAssumption == MaxStack \in Nat /\ MaxOps \in Nat
ASSUME FlagAssumption == FrontlightDrawer \in BOOLEAN /\ Handoffs \in BOOLEAN

VARIABLES
    pc,         \* where the main task is
    after,      \* where it goes once requestUpdateAndWait() returns
    cb,         \* which callback it is running
    ops,        \* state changes left to that callback
    navigated,  \* whether that callback has asked for a navigation
    current,    \* currentActivity
    stack,      \* stackActivities, the last one on top
    pending,    \* pendingActivity
    action,     \* pendingAction
    handler,    \* the child each activity's resultHandler was set for
    overlay,    \* local of restoreBackdropBehindCurrentOverlay()
    resume,     \* APP_STATE.pendingOverlayResume
    menuAction, \* pendingReaderMenuAction >= 0
    detached,   \* the card is exposed over USB (Storage.beginUsbDrive())
    requested,  \* requestedUpdate
    restored,   \* restoredActivityNeedsRender
    alert,      \* APP_STATE.hasPendingAlert
    mutex,      \* holder of renderingMutex
    notifR,     \* the render task's notification is pending
    notifM,     \* the main task's notification is pending
    waiting,    \* waitingTaskHandle is the main task
    rpc,        \* where the render task is
    target,     \* the activity it is rendering
    heap,       \* history: objects constructed and not destroyed
    entered,    \* history: objects whose onEnter() began and onExit() has not run
    frame,      \* history: the activity whose pixels the panel shows
    painted,    \* history: live objects that were painted at least once
    snap,       \* history: what the running render read is still up to date
    fresh,      \* history: the panel shows the current activity's present state
    locked      \* history: the last change of that state was made under the lock

mainVars == <<pc, after, cb, ops, navigated>>
navVars == <<current, stack, pending, action, handler, overlay>>
handoffVars == <<resume, menuAction, detached>>
flagVars == <<requested, restored, alert>>
syncVars == <<mutex, notifR, notifM, waiting>>
renderVars == <<rpc, target>>
objectVars == <<heap, entered>>
panelVars == <<frame, painted, snap, fresh, locked>>
screenVars == <<navVars, objectVars, panelVars>>
otherVars == <<handoffVars, flagVars, syncVars, renderVars>>
noteVars == <<notifR, notifM, waiting>>
shownVars == <<current, stack, overlay, entered, panelVars>>
vars == <<mainVars, navVars, handoffVars, flagVars, syncVars, renderVars,
          objectVars, panelVars>>

Null(a) == a = NoActivity
Some(a) == a # NoActivity
Plain == Activities \ (Homes \cup Readers \cup Overlays \cup Exclusives)
MaybeActivity == Activities \cup {NoActivity}
Range(s) == {s[i] : i \in 1..Len(s)}
Distinct(s) == \A i, j \in 1..Len(s) : s[i] = s[j] => i = j
Top(s) == s[Len(s)]
Pop(s) == SubSeq(s, 1, Len(s) - 1)
Built(S) == S \ heap       \* slots of S a constructor may use

Callbacks == {"setup", "loop", "gesture", "shortcut", "enter", "handler", "home"}
Resumes == {"none", "reader", "home", "homeViaReader"}

Init ==
    /\ pc = "boot" /\ after = "callback" /\ cb = "setup"
    /\ ops = 0 /\ navigated = FALSE
    /\ current = NoActivity /\ stack = <<>> /\ pending = NoActivity
    /\ action = "None" /\ handler = [a \in Activities |-> NoActivity]
    /\ overlay = NoActivity
    /\ resume = "none" /\ menuAction = FALSE /\ detached = FALSE
    /\ requested = FALSE /\ restored = FALSE /\ alert = FALSE
    /\ mutex = "free" /\ notifR = FALSE /\ notifM = FALSE /\ waiting = FALSE
    /\ rpc = "take" /\ target = NoActivity
    /\ heap = {} /\ entered = {}
    /\ frame = NoActivity /\ painted = {} /\ snap = FALSE /\ fresh = FALSE
    /\ locked = TRUE

-----------------------------------------------------------------------------
(* Helpers of the main task's actions.                                     *)

Run(kind) ==    \* start a callback of the current activity
    /\ pc' = "callback" /\ cb' = kind /\ ops' = MaxOps /\ navigated' = FALSE

Goto(label) == pc' = label /\ UNCHANGED <<after, cb, ops, navigated>>

(* An activity became current: onEnter() comes next, in the callback named.*)
Launched(kind) ==
    pc' = "launched" /\ cb' = kind /\ UNCHANGED <<after, ops, navigated>>

(* Locals of a call that has returned are reset to their initial values.   *)
Return(label) ==
    /\ pc' = label /\ cb' = "setup" /\ ops' = 0 /\ navigated' = FALSE
    /\ UNCHANGED after

Forget(S) ==    \* the result handlers of S are gone
    handler' = [a \in Activities |-> IF a \in S THEN NoActivity ELSE handler[a]]

Changed(underLock) ==   \* the current activity, or its state, changes
    /\ snap' = FALSE /\ fresh' = FALSE /\ locked' = underLock

(* onExit() and destruction of the activities S: the panel keeps their     *)
(* pixels, which are nobody's now, and a reader's onExit() may leave an    *)
(* alert behind (moveFinishedBookToReadFolder()).                          *)
Exit(S) ==
    /\ frame' = IF frame \in S THEN NoActivity ELSE frame
    /\ painted' = painted \ S
    /\ heap' = heap \ S
    /\ alert' \in {alert, alert \/ S \cap Readers # {}}

(* Mutant: the pending activity that is overwritten is not destroyed.      *)
PushRequestLeaks(a) ==
    /\ pending' = a /\ action' = "Push"
    /\ heap' = heap \cup {a}

(* pushActivity(): drops a pending activity, then takes its place.         *)
PushRequest(a) ==
    /\ pending' = a /\ action' = "Push"
    /\ heap' = (heap \ {pending}) \cup {a}

(* replaceActivity() with a current activity: deferred.                    *)
ReplaceRequest(a) ==
    /\ pending' = a /\ action' = "Replace"
    /\ heap' = (heap \ {pending}) \cup {a}

(* Mutant: deferred as well, with no activity to come back from.           *)
LaunchNowDeferred(a) ==
    /\ ReplaceRequest(a)
    /\ UNCHANGED <<shownVars, handler>>

(* replaceActivity() without a current activity: it is current at once, no *)
(* lock is taken, and its onEnter() is called next.                        *)
LaunchNow(a) ==
    /\ current' = a
    /\ heap' = heap \cup {a}
    /\ Changed(FALSE)
    /\ UNCHANGED <<stack, pending, action, handler, overlay, entered, frame,
                   painted>>

(* A child can be pushed: the stack bound, and the drawers' own rule that  *)
(* a drawer opens no drawer (allowFrontlightPanelGesture()).               *)
CanPush(a) ==
    /\ Len(stack) < MaxStack
    /\ current \in Overlays => a \notin Overlays

-----------------------------------------------------------------------------
(* setup(): the first screen.                                              *)
Boot ==
    /\ pc = "boot"
    /\ \E a \in Built(Homes \cup Readers \cup Plain) : LaunchNow(a)
    /\ Launched("setup")
    /\ UNCHANGED otherVars

(* The main task's own loop, between two calls of ActivityManager::loop(). *)
(* A global shortcut may run first; an exclusive storage owner suspends    *)
(* the shortcuts.                                                          *)
Shortcut ==
    /\ pc = "between" /\ current \notin Exclusives
    /\ Run("shortcut")
    /\ UNCHANGED <<after, screenVars, otherVars>>

(* loop(): the frontlight drawer's gesture opens it and returns before the *)
(* pending actions are looked at.                                          *)
LoopPanelGesture ==
    /\ pc = "between" /\ FrontlightDrawer
    /\ current \notin Overlays \cup Exclusives
    /\ \E a \in Built(Overlays) :
          /\ CanPush(a) /\ PushRequest(a)
          /\ handler' = [handler EXCEPT ![current] = a]
    /\ UNCHANGED <<mainVars, shownVars, otherVars>>

(* loop(): a two-finger rotation or swipe, handled by the activity; it too *)
(* returns at once.                                                        *)
LoopGesture ==
    /\ pc = "between" /\ current \notin Exclusives
    /\ Run("gesture")
    /\ UNCHANGED <<after, screenVars, otherVars>>

(* loop(): the activity's own loop().                                      *)
LoopActivity ==
    /\ pc = "between"
    /\ Run("loop")
    /\ UNCHANGED <<after, screenVars, otherVars>>

(* Mutant: the exclusive owner does not suspend the home gesture.          *)
LoopHomeGestureUnguarded ==
    /\ pc = "between" /\ action = "None" /\ current \notin Homes
    /\ \E h \in Built(Homes) : ReplaceRequest(h)
    /\ Goto("pending")
    /\ UNCHANGED <<shownVars, handler, otherVars>>

(* handleGlobalHomeGesture() and handleHomeButtonBackOrHome(): only with   *)
(* no action pending, and never on Home itself.                            *)
LoopHomeGesture ==
    /\ pc = "between" /\ action = "None"
    /\ current \notin Homes \cup Exclusives
    /\ \E h \in Built(Homes) : ReplaceRequest(h)
    /\ Goto("pending")
    /\ UNCHANGED <<shownVars, handler, otherVars>>

-----------------------------------------------------------------------------
(* What a callback may do, in any order: at most MaxOps state changes and  *)
(* render requests, and at most one navigation request (the activities     *)
(* return after one).                                                      *)

InCallback == pc = "callback"
Operation ==
    /\ InCallback /\ ops > 0
    /\ ops' = ops - 1
Navigation ==
    /\ InCallback /\ ~navigated /\ current \notin Exclusives
    /\ navigated' = TRUE

(* RenderLock lock; ... lock.unlock().                                     *)
CbLock ==
    /\ InCallback /\ ops > 0 /\ mutex = "free"
    /\ mutex' = "main"
    /\ UNCHANGED <<mainVars, screenVars, handoffVars, flagVars, noteVars,
                   renderVars>>

CbUnlock ==
    /\ InCallback /\ mutex = "main"
    /\ mutex' = "free"
    /\ UNCHANGED <<mainVars, screenVars, handoffVars, flagVars, noteVars,
                   renderVars>>

(* The activity changes state that its render() reads, under the lock or   *)
(* not.                                                                    *)
CbWrite ==
    /\ Operation
    /\ Changed(mutex = "main")
    /\ UNCHANGED <<pc, after, cb, navigated, navVars, otherVars, objectVars,
                   frame, painted>>

(* requestUpdate(): deferred to the end of loop().                         *)
CbRequest ==
    /\ Operation
    /\ requested' = TRUE
    /\ UNCHANGED <<pc, after, cb, navigated, screenVars, handoffVars,
                   restored, alert, syncVars, renderVars>>

(* requestUpdate(true).                                                    *)
CbRequestNow ==
    /\ Operation
    /\ notifR' = TRUE
    /\ UNCHANGED <<pc, after, cb, navigated, screenVars, handoffVars,
                   flagVars, mutex, notifM, waiting, renderVars>>

(* requestUpdateAndWait(): Rejected under the lock, ...                    *)
CbSyncRejected ==
    /\ Operation /\ mutex = "main"
    /\ UNCHANGED <<pc, after, cb, navigated, screenVars, otherVars>>

(* ... and otherwise the waiter is registered in the critical section.     *)
CbSync ==
    /\ Operation /\ mutex # "main" /\ ~waiting
    /\ waiting' = TRUE
    /\ pc' = "notify" /\ after' = "callback"
    /\ UNCHANGED <<cb, navigated, screenVars, handoffVars, flagVars, mutex,
                   notifR, notifM, renderVars>>

(* startActivityForResult().                                               *)
CbStart ==
    /\ Navigation
    /\ \E a \in Built(Activities \ (Homes \cup Readers \cup Exclusives)) :
          /\ CanPush(a) /\ PushRequest(a)
          /\ handler' = [handler EXCEPT ![current] = a]
    /\ UNCHANGED <<pc, after, cb, ops, shownVars, otherVars>>

(* startGlobalSyncProgress() pushes the settings without a result handler. *)
CbPush ==
    /\ Navigation /\ cb \in {"shortcut", "handler"}
    /\ \E a \in Built(Plain) : CanPush(a) /\ PushRequest(a)
    /\ UNCHANGED <<pc, after, cb, ops, shownVars, handler, otherVars>>

(* replaceActivity() and the goTo...() wrappers.  A hand-off may leave a   *)
(* drawer to reopen (setPendingOverlayResume) or a menu action to run      *)
(* (goToReaderAndRunMenuAction) in the reader.  Only the file transfer     *)
(* screen, itself a replacement, opens the USB drive, when the user picks  *)
(* it in a loop() (the screen and its mode selection are one here).        *)
CbReplace ==
    /\ Navigation
    /\ \E a \in Built(Activities \ Overlays) :
          /\ a \in Exclusives => current \in Plain /\ stack = <<>> /\ cb = "loop"
          /\ ReplaceRequest(a)
    /\ \/ UNCHANGED <<resume, menuAction>>
       \/ /\ Handoffs
          /\ resume' \in Resumes \ {"none"} /\ UNCHANGED menuAction
       \/ /\ Handoffs
          /\ menuAction' = TRUE /\ UNCHANGED resume
    /\ UNCHANGED <<pc, after, cb, ops, shownVars, handler, detached,
                   flagVars, syncVars, renderVars>>

(* Mutant: popActivity() keeps the pending activity.                       *)
CbFinishKeepsPending ==
    /\ Navigation
    /\ action' = "Pop"
    /\ UNCHANGED <<pc, after, cb, ops, shownVars, pending, heap, handler,
                   otherVars>>

(* finish(), which is popActivity().                                       *)
CbFinish ==
    /\ Navigation
    /\ pending' = NoActivity /\ action' = "Pop"
    /\ heap' = heap \ {pending}
    /\ UNCHANGED <<pc, after, cb, ops, shownVars, handler, otherVars>>

CbReturn ==
    /\ InCallback /\ mutex # "main"
    /\ Return(CASE cb \in {"setup", "shortcut", "gesture"} -> "between"
                [] cb = "loop" /\ current \in Exclusives -> "exclusiveTail"
                [] cb = "loop" /\ current \notin Exclusives -> "pending"
                [] cb = "home" -> "pending"
                [] cb = "enter" -> "entered"
                [] cb = "handler" -> "handled")
    /\ UNCHANGED <<screenVars, otherVars>>

(* restartToHome() of the USB drive: the firmware restarts.                *)
ExclusiveRestart ==
    /\ InCallback /\ cb = "loop" /\ current \in Exclusives /\ mutex # "main"
    /\ pc' = "boot" /\ after' = "callback" /\ cb' = "setup"
    /\ ops' = 0 /\ navigated' = FALSE
    /\ current' = NoActivity /\ stack' = <<>> /\ pending' = NoActivity
    /\ action' = "None" /\ handler' = [a \in Activities |-> NoActivity]
    /\ overlay' = NoActivity
    /\ resume' = "none" /\ menuAction' = FALSE /\ detached' = FALSE
    /\ requested' = FALSE /\ restored' = FALSE /\ alert' = FALSE
    /\ mutex' = "free" /\ notifR' = FALSE /\ notifM' = FALSE
    /\ waiting' = FALSE /\ rpc' = "take" /\ target' = NoActivity
    /\ heap' = {} /\ entered' = {}
    /\ frame' = NoActivity /\ painted' = {} /\ snap' = FALSE
    /\ fresh' = FALSE /\ locked' = TRUE

-----------------------------------------------------------------------------
(* requestUpdateAndWait(), for the manager's own calls and the USB drive's.*)

SyncRegister ==
    /\ pc = "sync" /\ mutex # "main" /\ ~waiting
    /\ waiting' = TRUE
    /\ Goto("notify")
    /\ UNCHANGED <<screenVars, handoffVars, flagVars, mutex, notifR, notifM,
                   renderVars>>

(* Mutant: requestUpdateAndWait() leaves the notification to loop(), which *)
(* it keeps from running.                                                  *)
SyncNotifyDeferred ==
    /\ pc = "notify"
    /\ requested' = TRUE
    /\ Goto("wait")
    /\ UNCHANGED <<screenVars, handoffVars, restored, alert, syncVars,
                   renderVars>>

SyncNotify ==
    /\ pc = "notify"
    /\ notifR' = TRUE
    /\ Goto("wait")
    /\ UNCHANGED <<screenVars, handoffVars, flagVars, mutex, notifM, waiting,
                   renderVars>>

(* Mutant: ulTaskNotifyTake() with a timeout.                              *)
SyncReturnTimeout ==
    /\ pc = "wait"
    /\ notifM' = FALSE
    /\ pc' = after /\ after' = "callback"
    /\ UNCHANGED <<cb, ops, navigated>>
    /\ UNCHANGED <<screenVars, handoffVars, flagVars, mutex, notifR, waiting,
                   renderVars>>

(* ulTaskNotifyTake() returns: RequestUpdateResult::Rendered.              *)
SyncReturn ==
    /\ pc = "wait" /\ notifM
    /\ notifM' = FALSE
    /\ pc' = after /\ after' = "callback"
    /\ UNCHANGED <<cb, ops, navigated>>
    /\ UNCHANGED <<screenVars, handoffVars, flagVars, mutex, notifR, waiting,
                   renderVars>>

-----------------------------------------------------------------------------
(* while (pendingAction != None): Pop.                                     *)

PopLock ==
    /\ pc = "pending" /\ action = "Pop" /\ mutex = "free"
    /\ mutex' = "main"
    /\ Goto("pop")
    /\ UNCHANGED <<screenVars, handoffVars, flagVars, noteVars, renderVars>>

(* exitActivity(); nothing below it: unlock, and goHome().                 *)
PopToHome ==
    /\ pc = "pop" /\ stack = <<>>
    /\ current' = NoActivity /\ action' = "None"
    /\ Exit({current}) /\ entered' = entered \ {current}
    /\ Forget({current}) /\ Changed(TRUE)
    /\ mutex' = "free"
    /\ Goto("goHome")
    /\ UNCHANGED <<stack, pending, overlay, handoffVars, requested, restored,
                   noteVars, renderVars>>

PopGoHome ==
    /\ pc = "goHome"
    /\ \E h \in Built(Homes) : LaunchNow(h)
    /\ Launched("home")
    /\ UNCHANGED otherVars

(* exitActivity(); the activity below is current again and, unlocked, its  *)
(* result handler runs.  A closed frontlight drawer has already asked for  *)
(* an update (onFrontlightPanelClosed()).                                  *)
PopRestore ==
    /\ pc = "pop" /\ stack # <<>>
    /\ current' = Top(stack) /\ stack' = Pop(stack) /\ action' = "None"
    /\ Exit({current}) /\ entered' = entered \ {current}
    /\ Forget({current, Top(stack)}) /\ Changed(TRUE)
    /\ restored' = TRUE
    /\ requested' \in {requested, requested \/ current \in Overlays}
    /\ mutex' = "free"
    /\ IF Some(handler[Top(stack)])
       THEN Run("handler") /\ UNCHANGED after
       ELSE Goto("handled")
    /\ UNCHANGED <<pending, overlay, handoffVars, noteVars, renderVars>>

(* After the handler: a new pending action comes first; otherwise a drawer *)
(* gets its backdrop repainted, and an update is requested.                *)
HandledPending ==
    /\ pc = "handled" /\ action # "None"
    /\ Goto("pending")
    /\ UNCHANGED <<screenVars, otherVars>>

HandledUpdate ==
    /\ pc = "handled" /\ action = "None"
    /\ current \notin Overlays \/ stack = <<>>
    /\ requested' = TRUE
    /\ Goto("pending")
    /\ UNCHANGED <<screenVars, handoffVars, restored, alert, syncVars,
                   renderVars>>

(* restoreBackdropBehindCurrentOverlay(): the drawer steps aside ...       *)
BackdropSwapOut ==
    /\ pc = "handled" /\ action = "None"
    /\ current \in Overlays /\ stack # <<>> /\ mutex = "free"
    /\ overlay' = current
    /\ current' = Top(stack) /\ stack' = Pop(stack)
    /\ Changed(TRUE)
    /\ pc' = "sync" /\ after' = "swapIn"
    /\ UNCHANGED <<cb, ops, navigated, pending, action, handler, otherVars,
                   objectVars, frame, painted>>

(* ... while its source is painted, and comes back.                        *)
BackdropSwapIn ==
    /\ pc = "swapIn" /\ mutex = "free"
    /\ stack' = Append(stack, current)
    /\ current' = overlay /\ overlay' = NoActivity
    /\ Changed(TRUE)
    /\ requested' = TRUE
    /\ Goto("pending")
    /\ UNCHANGED <<pending, action, handler, handoffVars, restored, alert,
                   syncVars, renderVars, objectVars, frame, painted>>

-----------------------------------------------------------------------------
(* while (pendingAction != None): Push and Replace.                        *)

Launchable == pc = "pending" /\ action \in {"Push", "Replace"} /\ Some(pending)

(* A drawer about to open over an activity that was restored and not yet   *)
(* repainted waits for that paint first.                                   *)
LaunchBackdrop ==
    /\ Launchable /\ action = "Push" /\ pending \in Overlays /\ restored
    /\ pc' = "sync" /\ after' = "launchLock"
    /\ UNCHANGED <<cb, ops, navigated, screenVars, otherVars>>

(* Mutant: restoredActivityNeedsRender is not looked at.                   *)
LaunchLockAtOnce ==
    /\ pc = "launchLock" \/ Launchable
    /\ mutex = "free"
    /\ mutex' = "main"
    /\ Goto("launch")
    /\ UNCHANGED <<screenVars, handoffVars, flagVars, noteVars, renderVars>>

LaunchLock ==
    /\ \/ pc = "launchLock"
       \/ /\ Launchable
          /\ ~(action = "Push" /\ pending \in Overlays /\ restored)
    /\ mutex = "free"
    /\ mutex' = "main"
    /\ Goto("launch")
    /\ UNCHANGED <<screenVars, handoffVars, flagVars, noteVars, renderVars>>

(* The new activity is current and the lock is released.                   *)
Enter ==
    /\ pc = "launch"
    /\ current' = pending /\ pending' = NoActivity /\ action' = "None"
    /\ Changed(TRUE)
    /\ mutex' = "free"
    /\ Launched("enter")
    /\ UNCHANGED <<overlay, handoffVars, requested, restored, noteVars,
                   renderVars>>

LaunchPush ==
    /\ Enter /\ action = "Push"
    /\ stack' = Append(stack, current)
    /\ UNCHANGED <<handler, heap, entered, frame, painted, alert>>

(* Mutant: the stack is cleared without the activities it suspends.        *)
LaunchReplaceKeepsStack ==
    /\ Enter /\ action = "Replace"
    /\ stack' = <<>>
    /\ Exit({current}) /\ Forget({current})
    /\ entered' = entered \ {current}

(* exitActivity(), then onExit() of the whole stack, from the top.         *)
LaunchReplace ==
    LET dropped == Range(stack) \cup {current}
    IN  /\ Enter /\ action = "Replace"
        /\ stack' = <<>>
        /\ Exit(dropped) /\ Forget(dropped)
        /\ entered' = entered \ dropped

(* onEnter() begins, without the lock: the render task may have taken it   *)
(* since the activity became current.  The USB drive's onEnter() paints    *)
(* its screen before it takes the card.                                    *)
OnEnter ==
    /\ pc = "launched"
    /\ entered' = entered \cup {current}
    /\ Changed(FALSE)
    /\ IF current \in Exclusives
       THEN /\ pc' = "sync" /\ after' = "detach" /\ cb' = "setup"
            /\ UNCHANGED <<ops, navigated>>
       ELSE Run(cb) /\ UNCHANGED after
    /\ UNCHANGED <<navVars, otherVars, heap, frame, painted>>

(* UsbDriveActivity::onEnter(), after the paint: the card is detached from *)
(* the firmware and exposed to the host, or that fails.                    *)
Detach ==
    /\ pc = "detach"
    /\ \/ detached' = TRUE
       \/ UNCHANGED detached
    /\ requested' = TRUE
    /\ Changed(FALSE)
    /\ Goto("entered")
    /\ UNCHANGED <<navVars, resume, menuAction, restored, alert, syncVars,
                   renderVars, objectVars, frame, painted>>

(* After onEnter(): the menu action left for the reader ...                *)
EnteredMenuAction ==
    /\ pc = "entered" /\ action = "None" /\ menuAction /\ current \in Readers
    /\ menuAction' = FALSE
    /\ Run("enter")
    /\ UNCHANGED <<after, screenVars, resume, detached, flagVars, syncVars,
                   renderVars>>

(* ... then the drawer left to reopen: over Home once the reader flow has  *)
(* gone back home, or over the activity it was left for.                   *)
OverlayDue ==
    \/ current \in Readers /\ resume = "reader"
    \/ current \in Homes /\ resume = "home"
HomeDue == current \in Readers /\ resume = "homeViaReader"
EnteredIdle == pc = "entered" /\ action = "None"
               /\ ~(menuAction /\ current \in Readers)

EnteredGoHome ==
    /\ EnteredIdle /\ HomeDue
    /\ resume' = "home"
    /\ \E h \in Built(Homes) : ReplaceRequest(h)
    /\ Goto("pending")
    /\ UNCHANGED <<shownVars, handler, menuAction, detached, flagVars,
                   syncVars, renderVars>>

EnteredOverlay ==
    /\ EnteredIdle /\ OverlayDue
    /\ \E a \in Built(Overlays) :
          /\ CanPush(a) /\ PushRequest(a)
          /\ handler' = [handler EXCEPT ![current] = a]
    /\ resume' = "none"
    /\ Goto("pending")
    /\ UNCHANGED <<shownVars, menuAction, detached, flagVars, syncVars,
                   renderVars>>

(* Nothing to resume, or the drawer could not be opened.                   *)
EnteredNothing ==
    /\ pc = "entered"
    /\ \/ action # "None"
       \/ EnteredIdle /\ ~HomeDue
    /\ Goto("pending")
    /\ UNCHANGED <<screenVars, otherVars>>

-----------------------------------------------------------------------------
(* The end of loop(): the alert, and the deferred update.                  *)

NotifyRequested ==
    /\ requested' = FALSE /\ notifR' = (notifR \/ requested)
    /\ Goto("between")
    /\ UNCHANGED <<restored, mutex, notifM, waiting, renderVars>>

Idle == pc = "pending" /\ action = "None"

LoopEnd ==
    /\ Idle /\ ~alert
    /\ NotifyRequested
    /\ UNCHANGED <<screenVars, handoffVars, alert>>

(* The AlertActivity is pushed now and launched by the next loop().  (At   *)
(* the bound on the stack the alert is dropped.)                           *)
LoopEndAlert ==
    /\ Idle /\ alert
    /\ alert' = FALSE
    /\ \/ \E a \in Built(Plain) : CanPush(a) /\ PushRequest(a)
       \/ /\ ~\E a \in Built(Plain) : CanPush(a)
          /\ UNCHANGED <<pending, action, heap>>
    /\ NotifyRequested
    /\ UNCHANGED <<shownVars, handler, handoffVars>>

(* The exclusive owner's branch of loop().                                 *)
ExclusiveTail ==
    /\ pc = "exclusiveTail"
    /\ NotifyRequested
    /\ UNCHANGED <<screenVars, handoffVars, alert>>

-----------------------------------------------------------------------------
(* renderTaskLoop().                                                       *)

RGoto(label) == rpc' = label

RenderTake ==
    /\ rpc = "take" /\ notifR
    /\ notifR' = FALSE
    /\ RGoto("lock")
    /\ UNCHANGED <<mainVars, screenVars, handoffVars, flagVars, mutex,
                   notifM, waiting, target>>

(* Mutant: the render task renders without the lock.                       *)
RenderLockIgnored ==
    /\ rpc = "lock"
    /\ RGoto("check")
    /\ UNCHANGED <<mainVars, screenVars, handoffVars, flagVars, syncVars,
                   target>>

RenderLock ==
    /\ rpc = "lock" /\ mutex = "free"
    /\ mutex' = "render"
    /\ RGoto("check")
    /\ UNCHANGED <<mainVars, screenVars, handoffVars, flagVars, noteVars,
                   target>>

(* Mutant: with no activity the waiter is not served.                      *)
RenderCheckSkips ==
    /\ rpc = "check"
    /\ target' = current
    /\ RGoto(IF Some(current) THEN "read" ELSE "unlock")
    /\ UNCHANGED <<mainVars, screenVars, handoffVars, flagVars, syncVars>>

(* if (currentActivity): null only between a pop of the last activity and  *)
(* goHome().                                                               *)
RenderCheck ==
    /\ rpc = "check"
    /\ target' = current
    /\ RGoto(IF Some(current) THEN "read" ELSE "signal")
    /\ UNCHANGED <<mainVars, screenVars, handoffVars, flagVars, syncVars>>

(* Mutant: render() gives the lock back once it has read the state.        *)
RenderReadUnlocks ==
    /\ rpc = "read"
    /\ snap' = TRUE /\ mutex' = "free"
    /\ RGoto("paint")
    /\ UNCHANGED <<mainVars, navVars, handoffVars, flagVars, noteVars,
                   target, objectVars, frame, painted, fresh, locked>>

(* render() reads the activity's state ...                                 *)
RenderRead ==
    /\ rpc = "read"
    /\ snap' = TRUE
    /\ RGoto("paint")
    /\ UNCHANGED <<mainVars, navVars, handoffVars, flagVars, syncVars,
                   target, objectVars, frame, painted, fresh, locked>>

(* ... and paints it.  It may ask for another update, or find that the     *)
(* user must be alerted.                                                   *)
RenderPaint ==
    /\ rpc = "paint"
    /\ frame' = target /\ painted' = painted \cup {target}
    /\ fresh' = snap
    /\ requested' \in {requested, TRUE}
    /\ alert' \in {alert, alert \/ (target \in Readers)}
    /\ RGoto("clear")
    /\ UNCHANGED <<mainVars, navVars, handoffVars, restored, syncVars,
                   target, objectVars, snap, locked>>

RenderClear ==
    /\ rpc = "clear"
    /\ restored' = FALSE
    /\ target' = NoActivity /\ snap' = FALSE
    /\ RGoto("signal")
    /\ UNCHANGED <<mainVars, navVars, handoffVars, requested, alert,
                   syncVars, objectVars, frame, painted, fresh, locked>>

(* Mutant: the waiter is taken and not notified.                           *)
RenderSignalNobody ==
    /\ rpc = "signal"
    /\ waiting' = FALSE
    /\ RGoto("unlock")
    /\ UNCHANGED <<mainVars, screenVars, handoffVars, flagVars, mutex,
                   notifR, notifM, target>>

(* The waiter is taken in the critical section and notified.               *)
RenderSignal ==
    /\ rpc = "signal"
    /\ notifM' = (notifM \/ waiting) /\ waiting' = FALSE
    /\ RGoto("unlock")
    /\ UNCHANGED <<mainVars, screenVars, handoffVars, flagVars, mutex,
                   notifR, target>>

(* End of the loop body: ~RenderLock().                                    *)
RenderUnlock ==
    /\ rpc = "unlock"
    /\ mutex' = "free"
    /\ RGoto("take")
    /\ UNCHANGED <<mainVars, screenVars, handoffVars, flagVars, noteVars,
                   target>>

-----------------------------------------------------------------------------
Callback ==
    \/ CbLock \/ CbUnlock \/ CbWrite \/ CbRequest \/ CbRequestNow
    \/ CbSync \/ CbSyncRejected \/ CbStart \/ CbPush \/ CbReplace \/ CbFinish
    \/ CbReturn

Loop ==
    \/ LoopPanelGesture \/ LoopGesture \/ LoopActivity \/ LoopHomeGesture
    \/ LoopEnd \/ LoopEndAlert \/ ExclusiveTail

Synchronize == SyncRegister \/ SyncNotify \/ SyncReturn

PopActivity ==
    \/ PopLock \/ PopToHome \/ PopGoHome \/ PopRestore
    \/ HandledPending \/ HandledUpdate \/ BackdropSwapOut \/ BackdropSwapIn

LaunchActivity ==
    \/ LaunchBackdrop \/ LaunchLock \/ LaunchPush \/ LaunchReplace \/ OnEnter
    \/ Detach \/ EnteredMenuAction \/ EnteredGoHome \/ EnteredOverlay \/ EnteredNothing

Manager == Boot \/ Loop \/ Synchronize \/ PopActivity \/ LaunchActivity

Main == Callback \/ Manager \/ Shortcut \/ ExclusiveRestart

Render ==
    \/ RenderTake \/ RenderLock \/ RenderCheck \/ RenderRead \/ RenderPaint
    \/ RenderClear \/ RenderSignal \/ RenderUnlock

Next == Main \/ Render

Spec == Init /\ [][Next]_vars

(* The scheduler runs both tasks, and the mutex is not withheld for ever   *)
(* from a task that waits for it: the main loop sleeps between iterations. *)
Fairness ==
    /\ WF_vars(Render) /\ SF_vars(RenderLock)
    /\ WF_vars(Manager) /\ WF_vars(CbUnlock)

FairSpec == Spec /\ Fairness

-----------------------------------------------------------------------------
(* Properties.                                                             *)

(* Every variable has its type.                                            *)
Labels == {"boot", "between", "callback", "sync", "notify", "wait", "pending",
           "pop", "goHome", "handled", "swapIn", "launchLock", "launch",
           "launched", "detach", "entered", "exclusiveTail"}
RenderLabels == {"take", "lock", "check", "read", "paint", "clear", "signal",
                 "unlock"}
MainType ==
    /\ pc \in Labels /\ after \in {"callback", "swapIn", "launchLock", "detach"}
    /\ cb \in Callbacks /\ ops \in Nat /\ navigated \in BOOLEAN
NavType ==
    /\ current \in MaybeActivity /\ pending \in MaybeActivity
    /\ overlay \in MaybeActivity /\ stack \in Seq(Activities)
    /\ action \in {"None", "Push", "Pop", "Replace"}
    /\ handler \in [Activities -> MaybeActivity]
FlagType ==
    /\ resume \in Resumes /\ menuAction \in BOOLEAN /\ detached \in BOOLEAN
    /\ requested \in BOOLEAN /\ restored \in BOOLEAN /\ alert \in BOOLEAN
SyncType ==
    /\ mutex \in {"free", "main", "render"}
    /\ notifR \in BOOLEAN /\ notifM \in BOOLEAN /\ waiting \in BOOLEAN
    /\ rpc \in RenderLabels /\ target \in MaybeActivity
HistoryType ==
    /\ heap \subseteq Activities /\ entered \subseteq Activities
    /\ frame \in MaybeActivity /\ painted \subseteq Activities
    /\ snap \in BOOLEAN /\ fresh \in BOOLEAN /\ locked \in BOOLEAN
TypeOK == MainType /\ NavType /\ FlagType /\ SyncType /\ HistoryType

(* The activity being rendered is alive, is the current one until the      *)
(* render task releases the lock, and is never one whose onExit() has run: *)
(* no step of the main task exits, destroys or replaces an activity under  *)
(* a running render() (the race renderTaskLoop() takes the lock before     *)
(* reading currentActivity for).  It may be one whose onEnter() has not    *)
(* begun: the lock is released, or was never taken, before onEnter() is    *)
(* called, and a render that comes in between paints the new activity.     *)
RenderSafe ==
    rpc \in {"read", "paint", "clear"} =>
        /\ target = current /\ target \in heap
        /\ target \in entered \/ pc = "launched"

(* Every live activity has exactly one owner among currentActivity,        *)
(* pendingActivity, the stack and the drawer set aside while its backdrop  *)
(* is repainted: none leaks, none is owned twice.                          *)
Owned == Range(stack) \cup ({current, pending, overlay} \ {NoActivity})
SingleOwner ==
    /\ heap = Owned
    /\ Distinct(stack)
    /\ {current, pending, overlay} \cap Range(stack) = {}
    /\ Some(current) => current # pending /\ current # overlay
    /\ Some(pending) => pending # overlay

(* onEnter() and onExit() pair up: exactly the live activities that are    *)
(* not waiting to be launched, or between that and onEnter(), have been    *)
(* entered and not exited, however the navigation requests overwrite each  *)
(* other.                                                                  *)
Starting == IF pc = "launched" THEN {current} ELSE {}
LifecyclePaired == entered = heap \ ({pending} \cup Starting)

(* requestUpdateAndWait() never sleeps through its wake-up: while the main *)
(* task waits, it is registered or already notified, and if registered the *)
(* render task has still to pass the point where it takes the waiter.      *)
NoLostWakeup ==
    pc = "wait" =>
        \/ notifM
        \/ waiting /\ (notifR \/ rpc \notin {"take", "unlock"})

(* A synchronous update that returns Rendered has painted the current      *)
(* activity's state, when that state was last changed under the RenderLock *)
(* (the protocol of docs/activity-manager.md).                             *)
Rendered == pc \in {"notify", "wait"} /\ notifM
SyncRenderFresh == Rendered /\ locked => fresh

(* When a drawer comes back over its repainted source, the panel shows     *)
(* that source (restoreBackdropBehindCurrentOverlay()).                    *)
BackdropRepainted == pc = "swapIn" => frame = current /\ ~restored

(* A drawer is launched over the pixels of the activity it covers, if that *)
(* activity was ever painted: never over those of a child that was popped  *)
(* (restoredActivityNeedsRender).                                          *)
OverlayOverSource ==
    pc = "launch" /\ action = "Push" /\ pending \in Overlays
        /\ current \in painted => frame = current

(* The two "should never happen" branches of the manager's loop: a pop     *)
(* always has a current activity, and a launch a pending one, without      *)
(* which the while loop would spin for ever.                               *)
PendingIsServable ==
    /\ action = "Pop" => Some(current) /\ Null(pending)
    /\ action \in {"Push", "Replace"} <=> Some(pending)

(* While the card is exposed over USB its exclusive owner stays current and*)
(* nothing is suspended under it or waiting to replace it.                 *)
ExclusiveOwnerStays ==
    detached => current \in Exclusives /\ stack = <<>> /\ Null(pending)

(* The USB drive's screen is painted before the card is detached, and "the *)
(* two operations must never overlap".                                     *)
DetachAfterPaint == [][detached' /\ ~detached => Null(target)]_vars

(* requestUpdateAndWait() returns.                                         *)
SyncReturns == pc \in {"notify", "wait"} ~> pc \notin {"notify", "wait"}

(* Every notification of the render task leads to a completed render.      *)
NotificationServed == notifR ~> rpc = "signal"

=============================================================================
