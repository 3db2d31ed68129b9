----------------------- MODULE ActivityManagerProofs -----------------------
(* Safety of ActivityManager, for every set of activities and every bound. *)
EXTENDS ActivityManager, TLAPS

(***************************************************************************)
(* The inductive invariant.                                                *)
(***************************************************************************)

(* The lock and the tasks that hold it.                                    *)
Rendering == {"check", "read", "paint", "clear", "signal", "unlock"}
LockInv ==
    /\ mutex = "main" => pc \in {"callback", "pop", "launch"}
    /\ pc \in {"pop", "launch"} => mutex = "main"
    /\ mutex = "render" <=> rpc \in Rendering

(* What the main task knows about the navigation where it stands.          *)
Synchronous == {"sync", "notify", "wait"}
PhaseInv ==
    /\ Null(current) <=> pc \in {"boot", "goHome"}
    /\ Null(current) => action = "None"
    /\ pc = "pop" => action = "Pop"
    /\ pc \in {"launch", "launchLock"} => action \in {"Push", "Replace"}
    /\ pc \in Synchronous /\ after = "launchLock" => action = "Push"
    /\ pc = "sync" => after # "callback"
    /\ Some(overlay) <=>
           pc = "swapIn" \/ (pc \in Synchronous /\ after = "swapIn")

(* Ownership of the activities.                                            *)
OwnerInv == SingleOwner /\ LifecyclePaired /\ PendingIsServable

(* The waiter and its notification.                                        *)
WaiterInv ==
    /\ waiting \/ notifM <=> pc \in {"notify", "wait"}
    /\ ~(waiting /\ notifM)
    /\ NoLostWakeup

(* What the running render has read and painted.                           *)
FreshInv ==
    /\ rpc = "paint" /\ locked => snap
    /\ rpc \in {"clear", "signal"} /\ locked /\ Some(current) => fresh
    /\ SyncRenderFresh

(* The exclusive owner: how it comes, and what cannot reach it.  An alert  *)
(* never outlives the turn of the main loop in which the reader that       *)
(* raised it is left.                                                      *)
InTurn ==
    \/ pc = "between"
    \/ /\ cb \in {"setup", "loop", "gesture", "shortcut"}
       /\ \/ pc \in {"launched", "callback"}
          \/ pc \in {"notify", "wait"} /\ after = "callback"
ExclusiveInv ==
    /\ Range(stack) \cap Exclusives = {}
    /\ overlay \in Overlays \cup {NoActivity}
    /\ Some(overlay) => Null(pending) /\ current \notin Exclusives
    /\ pending \in Exclusives =>
           action = "Replace" /\ current \in Plain /\ stack = <<>> /\ ~alert
    /\ current \in Exclusives => stack = <<>> /\ action = "None" /\ ~alert
    /\ pc = "boot" => ~alert
    /\ InTurn /\ alert => current \in Readers
    /\ pc \in {"detach", "exclusiveTail"} => current \in Exclusives
    /\ pc \in Synchronous /\ after = "detach" => current \in Exclusives
    /\ detached => current \in Exclusives

(* What the panel shows when a drawer is opened or comes back.             *)
Paints == painted \subseteq heap \ {pending} /\ (rpc = "clear" => frame = target)
BackdropInv ==
    /\ pc \in Synchronous /\ after = "swapIn" /\ (rpc = "signal" \/ notifM)
           => frame = current /\ ~restored
    /\ BackdropRepainted
Shown == current \in painted => frame = current
SourceInv ==
    /\ action = "Push" /\ pending \in Overlays => current \notin Overlays
    /\ Null(overlay) /\ current \notin Overlays => Shown \/ restored
    /\ rpc = "signal" => Shown
    /\ pc \in Synchronous /\ after = "launchLock" /\ notifM => Shown
    /\ pc = "launchLock" => Shown /\ pending \in Overlays
    /\ pc \in Synchronous /\ after = "launchLock" => pending \in Overlays
    /\ OverlayOverSource

IInv ==
    /\ TypeOK /\ LockInv /\ PhaseInv /\ OwnerInv /\ RenderSafe /\ WaiterInv
    /\ FreshInv /\ ExclusiveInv /\ Paints /\ BackdropInv /\ SourceInv

-----------------------------------------------------------------------------
USE NullAssumption, BoundAssumption, KindAssumption
    DEF NullAssumption, BoundAssumption, KindAssumption,
        mainVars, navVars, handoffVars, flagVars, syncVars, renderVars,
        objectVars, panelVars, screenVars, otherVars, noteVars, shownVars,
        Null, Some, MaybeActivity, Callbacks, Resumes, Labels, RenderLabels,
        Run, Goto, Return, Forget, Changed, Exit, PushRequest, ReplaceRequest,
        LaunchNow, CanPush, InCallback, Operation, Navigation, Launchable,
        Enter, Launched, Starting, OverlayDue, HomeDue, EnteredIdle, NotifyRequested, Idle, RGoto,
        Built, Plain, Rendering, Synchronous

(* Sequences: what pop_back() and push_back() leave in the stack.          *)
LEMMA RangeOfPop ==
    ASSUME NEW S, NEW s \in Seq(S), s # <<>>
    PROVE  /\ Pop(s) \in Seq(S) /\ Top(s) \in S
           /\ Range(s) = Range(Pop(s)) \cup {Top(s)}
           /\ Distinct(s) => Distinct(Pop(s)) /\ Top(s) \notin Range(Pop(s))
<1>1. Len(s) \in Nat \ {0} /\ s \in [1..Len(s) -> S]
  OBVIOUS
<1>2. Pop(s) \in Seq(S) /\ Len(Pop(s)) = Len(s) - 1
  BY <1>1 DEF Pop
<1>3. \A i \in 1..(Len(s) - 1) : Pop(s)[i] = s[i]
  BY <1>1 DEF Pop
<1>4. 1..Len(s) = 1..(Len(s) - 1) \cup {Len(s)} /\ Len(s) \notin 1..(Len(s) - 1)
  BY <1>1
<1>5. Range(s) = Range(Pop(s)) \cup {Top(s)}
  BY <1>2, <1>3, <1>4 DEF Range, Top
<1>6. Distinct(s) => Distinct(Pop(s)) /\ Top(s) \notin Range(Pop(s))
  BY <1>1, <1>2, <1>3, <1>4 DEF Distinct, Range, Top
<1>7. QED
  BY <1>1, <1>2, <1>5, <1>6 DEF Top

LEMMA RangeOfAppend ==
    ASSUME NEW S, NEW s \in Seq(S), NEW a \in S
    PROVE  /\ Append(s, a) \in Seq(S) /\ Append(s, a) # <<>>
           /\ Range(Append(s, a)) = Range(s) \cup {a}
           /\ Distinct(s) /\ a \notin Range(s) => Distinct(Append(s, a))
<1> DEFINE t == Append(s, a)
<1>1. Len(s) \in Nat /\ Len(t) = Len(s) + 1 /\ t \in Seq(S)
  OBVIOUS
<1>2. t[Len(s) + 1] = a /\ \A i \in 1..Len(s) : t[i] = s[i]
  OBVIOUS
<1>3. 1..Len(t) = 1..Len(s) \cup {Len(s) + 1} /\ Len(s) + 1 \notin 1..Len(s)
  BY <1>1
<1>4. Range(t) = Range(s) \cup {a}
  BY <1>2, <1>3 DEF Range
<1>5. Distinct(s) /\ a \notin Range(s) => Distinct(t)
  BY <1>2, <1>3 DEF Distinct, Range
<1>6. QED
  BY <1>1, <1>4, <1>5

(* Types.                                                                  *)
LEMMA MainTypeStep == IInv /\ [Next]_vars => MainType'
<1> SUFFICES ASSUME IInv, [Next]_vars PROVE MainType'
  OBVIOUS
<1> USE DEF IInv, TypeOK, MainType
<1>1. CASE Callback
  <2>1. CASE CbLock
    BY <2>1 DEF CbLock
  <2>2. CASE CbUnlock
    BY <2>2 DEF CbUnlock
  <2>3. CASE CbWrite
    BY <2>3 DEF CbWrite
  <2>4. CASE CbRequest
    BY <2>4 DEF CbRequest
  <2>5. CASE CbRequestNow
    BY <2>5 DEF CbRequestNow
  <2>6. CASE CbSync
    BY <2>6 DEF CbSync
  <2>7. CASE CbSyncRejected
    BY <2>7 DEF CbSyncRejected
  <2>8. CASE CbStart
    BY <2>8 DEF CbStart
  <2>9. CASE CbPush
    BY <2>9 DEF CbPush
  <2>10. CASE CbReplace
    BY <2>10 DEF CbReplace
  <2>11. CASE CbFinish
    BY <2>11 DEF CbFinish
  <2>12. CASE CbReturn
    BY <2>12 DEF CbReturn
  <2>13. QED
    BY <1>1, <2>1, <2>2, <2>3, <2>4, <2>5, <2>6, <2>7, <2>8, <2>9, <2>10,
         <2>11, <2>12 DEF Callback
<1>2. CASE Loop
  BY <1>2 DEF Loop, LoopPanelGesture, LoopGesture, LoopActivity, LoopHomeGesture,
         LoopEnd, LoopEndAlert, ExclusiveTail
<1>3. CASE Synchronize
  BY <1>3 DEF Synchronize, SyncRegister, SyncNotify, SyncReturn
<1>4. CASE PopActivity
  <2>1. CASE PopLock
    BY <2>1 DEF PopLock
  <2>2. CASE PopToHome
    BY <2>2 DEF PopToHome
  <2>3. CASE PopGoHome
    BY <2>3 DEF PopGoHome
  <2>4. CASE PopRestore
    BY <2>4 DEF PopRestore
  <2>5. CASE HandledPending
    BY <2>5 DEF HandledPending
  <2>6. CASE HandledUpdate
    BY <2>6 DEF HandledUpdate
  <2>7. CASE BackdropSwapOut
    BY <2>7 DEF BackdropSwapOut
  <2>8. CASE BackdropSwapIn
    BY <2>8 DEF BackdropSwapIn
  <2>9. QED
    BY <1>4, <2>1, <2>2, <2>3, <2>4, <2>5, <2>6, <2>7, <2>8 DEF PopActivity
<1>5. CASE LaunchActivity
  <2>1. CASE LaunchBackdrop
    BY <2>1 DEF LaunchBackdrop
  <2>2. CASE LaunchLock
    BY <2>2 DEF LaunchLock
  <2>3. CASE LaunchPush
    BY <2>3 DEF LaunchPush
  <2>4. CASE LaunchReplace
    BY <2>4 DEF LaunchReplace
  <2>5. CASE Detach
    BY <2>5 DEF Detach
  <2>6. CASE EnteredMenuAction
    BY <2>6 DEF EnteredMenuAction
  <2>7. CASE EnteredGoHome
    BY <2>7 DEF EnteredGoHome
  <2>8. CASE EnteredOverlay
    BY <2>8 DEF EnteredOverlay
  <2>9. CASE EnteredNothing
    BY <2>9 DEF EnteredNothing
  <2>10. CASE OnEnter
    BY <2>10 DEF OnEnter
  <2>11. QED
    BY <1>5, <2>1, <2>2, <2>3, <2>4, <2>5, <2>6, <2>7, <2>8, <2>9, <2>10
       DEF LaunchActivity
<1>6. CASE Render
  <2>1. CASE RenderTake
    BY <2>1 DEF RenderTake
  <2>2. CASE RenderLock
    BY <2>2 DEF RenderLock
  <2>3. CASE RenderCheck
    BY <2>3 DEF RenderCheck
  <2>4. CASE RenderRead
    BY <2>4 DEF RenderRead
  <2>5. CASE RenderPaint
    BY <2>5 DEF RenderPaint
  <2>6. CASE RenderClear
    BY <2>6 DEF RenderClear
  <2>7. CASE RenderSignal
    BY <2>7 DEF RenderSignal
  <2>8. CASE RenderUnlock
    BY <2>8 DEF RenderUnlock
  <2>9. QED
    BY <1>6, <2>1, <2>2, <2>3, <2>4, <2>5, <2>6, <2>7, <2>8 DEF Render
<1>7. CASE Boot
  BY <1>7 DEF Boot
<1>8. CASE Shortcut
  BY <1>8 DEF Shortcut
<1>9. CASE ExclusiveRestart
  BY <1>9 DEF ExclusiveRestart
<1>10. CASE UNCHANGED vars
  BY <1>10 DEF vars
<1>11. QED
  BY <1>1, <1>2, <1>3, <1>4, <1>5, <1>6, <1>7, <1>8, <1>9, <1>10 DEF Next, Main, Manager

LEMMA NavTypeStep == IInv /\ [Next]_vars => NavType'
<1> SUFFICES ASSUME IInv, [Next]_vars PROVE NavType'
  OBVIOUS
<1> USE DEF IInv, TypeOK, NavType, HistoryType, PhaseInv, OwnerInv,
         PendingIsServable, Pop, Top
<1>1. CASE Callback
  BY <1>1 DEF Callback, CbLock, CbUnlock, CbWrite, CbRequest, CbRequestNow, CbSync,
         CbSyncRejected, CbStart, CbPush, CbReplace, CbFinish, CbReturn
<1>2. CASE Loop
  <2>1. CASE LoopPanelGesture
    BY <2>1 DEF LoopPanelGesture
  <2>2. CASE LoopGesture
    BY <2>2 DEF LoopGesture
  <2>3. CASE LoopActivity
    BY <2>3 DEF LoopActivity
  <2>4. CASE LoopHomeGesture
    BY <2>4 DEF LoopHomeGesture
  <2>5. CASE LoopEnd
    BY <2>5 DEF LoopEnd
  <2>6. CASE LoopEndAlert
    BY <2>6 DEF LoopEndAlert
  <2>7. CASE ExclusiveTail
    BY <2>7 DEF ExclusiveTail
  <2>8. QED
    BY <1>2, <2>1, <2>2, <2>3, <2>4, <2>5, <2>6, <2>7 DEF Loop
<1>3. CASE Synchronize
  BY <1>3 DEF Synchronize, SyncRegister, SyncNotify, SyncReturn
<1>4. CASE PopActivity
  BY <1>4 DEF PopActivity, PopLock, PopToHome, PopGoHome, PopRestore,
         HandledPending, HandledUpdate, BackdropSwapOut, BackdropSwapIn
<1>5. CASE LaunchActivity
  <2>1. CASE LaunchBackdrop
    BY <2>1 DEF LaunchBackdrop
  <2>2. CASE LaunchLock
    BY <2>2 DEF LaunchLock
  <2>3. CASE LaunchPush
    BY <2>3 DEF LaunchPush
  <2>4. CASE LaunchReplace
    BY <2>4 DEF LaunchReplace
  <2>5. CASE Detach
    BY <2>5 DEF Detach
  <2>6. CASE EnteredMenuAction
    BY <2>6 DEF EnteredMenuAction
  <2>7. CASE EnteredGoHome
    BY <2>7 DEF EnteredGoHome
  <2>8. CASE EnteredOverlay
    BY <2>8 DEF EnteredOverlay
  <2>9. CASE EnteredNothing
    BY <2>9 DEF EnteredNothing
  <2>10. CASE OnEnter
    BY <2>10 DEF OnEnter
  <2>11. QED
    BY <1>5, <2>1, <2>2, <2>3, <2>4, <2>5, <2>6, <2>7, <2>8, <2>9, <2>10
       DEF LaunchActivity
<1>6. CASE Render
  BY <1>6 DEF Render, RenderTake, RenderLock, RenderCheck, RenderRead, RenderPaint,
         RenderClear, RenderSignal, RenderUnlock
<1>7. CASE Boot
  BY <1>7 DEF Boot
<1>8. CASE Shortcut
  BY <1>8 DEF Shortcut
<1>9. CASE ExclusiveRestart
  BY <1>9 DEF ExclusiveRestart
<1>10. CASE UNCHANGED vars
  BY <1>10 DEF vars
<1>11. QED
  BY <1>1, <1>2, <1>3, <1>4, <1>5, <1>6, <1>7, <1>8, <1>9, <1>10 DEF Next, Main, Manager

LEMMA FlagTypeStep == IInv /\ [Next]_vars => FlagType'
<1> SUFFICES ASSUME IInv, [Next]_vars PROVE FlagType'
  OBVIOUS
<1> USE DEF IInv, TypeOK, FlagType
<1>1. CASE Callback
  <2>1. CASE CbLock
    BY <2>1 DEF CbLock
  <2>2. CASE CbUnlock
    BY <2>2 DEF CbUnlock
  <2>3. CASE CbWrite
    BY <2>3 DEF CbWrite
  <2>4. CASE CbRequest
    BY <2>4 DEF CbRequest
  <2>5. CASE CbRequestNow
    BY <2>5 DEF CbRequestNow
  <2>6. CASE CbSync
    BY <2>6 DEF CbSync
  <2>7. CASE CbSyncRejected
    BY <2>7 DEF CbSyncRejected
  <2>8. CASE CbStart
    BY <2>8 DEF CbStart
  <2>9. CASE CbPush
    BY <2>9 DEF CbPush
  <2>10. CASE CbReplace
    BY <2>10 DEF CbReplace
  <2>11. CASE CbFinish
    BY <2>11 DEF CbFinish
  <2>12. CASE CbReturn
    BY <2>12 DEF CbReturn
  <2>13. QED
    BY <1>1, <2>1, <2>2, <2>3, <2>4, <2>5, <2>6, <2>7, <2>8, <2>9, <2>10,
         <2>11, <2>12 DEF Callback
<1>2. CASE Loop
  <2>1. CASE LoopPanelGesture
    BY <2>1 DEF LoopPanelGesture
  <2>2. CASE LoopGesture
    BY <2>2 DEF LoopGesture
  <2>3. CASE LoopActivity
    BY <2>3 DEF LoopActivity
  <2>4. CASE LoopHomeGesture
    BY <2>4 DEF LoopHomeGesture
  <2>5. CASE LoopEnd
    BY <2>5 DEF LoopEnd
  <2>6. CASE LoopEndAlert
    BY <2>6 DEF LoopEndAlert
  <2>7. CASE ExclusiveTail
    BY <2>7 DEF ExclusiveTail
  <2>8. QED
    BY <1>2, <2>1, <2>2, <2>3, <2>4, <2>5, <2>6, <2>7 DEF Loop
<1>3. CASE Synchronize
  BY <1>3 DEF Synchronize, SyncRegister, SyncNotify, SyncReturn
<1>4. CASE PopActivity
  <2>1. CASE PopLock
    BY <2>1 DEF PopLock
  <2>2. CASE PopToHome
    BY <2>2 DEF PopToHome
  <2>3. CASE PopGoHome
    BY <2>3 DEF PopGoHome
  <2>4. CASE PopRestore
    BY <2>4 DEF PopRestore
  <2>5. CASE HandledPending
    BY <2>5 DEF HandledPending
  <2>6. CASE HandledUpdate
    BY <2>6 DEF HandledUpdate
  <2>7. CASE BackdropSwapOut
    BY <2>7 DEF BackdropSwapOut
  <2>8. CASE BackdropSwapIn
    BY <2>8 DEF BackdropSwapIn
  <2>9. QED
    BY <1>4, <2>1, <2>2, <2>3, <2>4, <2>5, <2>6, <2>7, <2>8 DEF PopActivity
<1>5. CASE LaunchActivity
  <2>1. CASE LaunchBackdrop
    BY <2>1 DEF LaunchBackdrop
  <2>2. CASE LaunchLock
    BY <2>2 DEF LaunchLock
  <2>3. CASE LaunchPush
    BY <2>3 DEF LaunchPush
  <2>4. CASE LaunchReplace
    BY <2>4 DEF LaunchReplace
  <2>5. CASE Detach
    BY <2>5 DEF Detach
  <2>6. CASE EnteredMenuAction
    BY <2>6 DEF EnteredMenuAction
  <2>7. CASE EnteredGoHome
    BY <2>7 DEF EnteredGoHome
  <2>8. CASE EnteredOverlay
    BY <2>8 DEF EnteredOverlay
  <2>9. CASE EnteredNothing
    BY <2>9 DEF EnteredNothing
  <2>10. CASE OnEnter
    BY <2>10 DEF OnEnter
  <2>11. QED
    BY <1>5, <2>1, <2>2, <2>3, <2>4, <2>5, <2>6, <2>7, <2>8, <2>9, <2>10
       DEF LaunchActivity
<1>6. CASE Render
  <2>1. CASE RenderTake
    BY <2>1 DEF RenderTake
  <2>2. CASE RenderLock
    BY <2>2 DEF RenderLock
  <2>3. CASE RenderCheck
    BY <2>3 DEF RenderCheck
  <2>4. CASE RenderRead
    BY <2>4 DEF RenderRead
  <2>5. CASE RenderPaint
    BY <2>5 DEF RenderPaint
  <2>6. CASE RenderClear
    BY <2>6 DEF RenderClear
  <2>7. CASE RenderSignal
    BY <2>7 DEF RenderSignal
  <2>8. CASE RenderUnlock
    BY <2>8 DEF RenderUnlock
  <2>9. QED
    BY <1>6, <2>1, <2>2, <2>3, <2>4, <2>5, <2>6, <2>7, <2>8 DEF Render
<1>7. CASE Boot
  BY <1>7 DEF Boot
<1>8. CASE Shortcut
  BY <1>8 DEF Shortcut
<1>9. CASE ExclusiveRestart
  BY <1>9 DEF ExclusiveRestart
<1>10. CASE UNCHANGED vars
  BY <1>10 DEF vars
<1>11. QED
  BY <1>1, <1>2, <1>3, <1>4, <1>5, <1>6, <1>7, <1>8, <1>9, <1>10 DEF Next, Main, Manager

LEMMA SyncTypeStep == IInv /\ [Next]_vars => SyncType'
<1> SUFFICES ASSUME IInv, [Next]_vars PROVE SyncType'
  OBVIOUS
<1> USE DEF IInv, TypeOK, SyncType, NavType
<1>1. CASE Callback
  <2>1. CASE CbLock
    BY <2>1 DEF CbLock
  <2>2. CASE CbUnlock
    BY <2>2 DEF CbUnlock
  <2>3. CASE CbWrite
    BY <2>3 DEF CbWrite
  <2>4. CASE CbRequest
    BY <2>4 DEF CbRequest
  <2>5. CASE CbRequestNow
    BY <2>5 DEF CbRequestNow
  <2>6. CASE CbSync
    BY <2>6 DEF CbSync
  <2>7. CASE CbSyncRejected
    BY <2>7 DEF CbSyncRejected
  <2>8. CASE CbStart
    BY <2>8 DEF CbStart
  <2>9. CASE CbPush
    BY <2>9 DEF CbPush
  <2>10. CASE CbReplace
    BY <2>10 DEF CbReplace
  <2>11. CASE CbFinish
    BY <2>11 DEF CbFinish
  <2>12. CASE CbReturn
    BY <2>12 DEF CbReturn
  <2>13. QED
    BY <1>1, <2>1, <2>2, <2>3, <2>4, <2>5, <2>6, <2>7, <2>8, <2>9, <2>10,
         <2>11, <2>12 DEF Callback
<1>2. CASE Loop
  <2>1. CASE LoopPanelGesture
    BY <2>1 DEF LoopPanelGesture
  <2>2. CASE LoopGesture
    BY <2>2 DEF LoopGesture
  <2>3. CASE LoopActivity
    BY <2>3 DEF LoopActivity
  <2>4. CASE LoopHomeGesture
    BY <2>4 DEF LoopHomeGesture
  <2>5. CASE LoopEnd
    BY <2>5 DEF LoopEnd
  <2>6. CASE LoopEndAlert
    BY <2>6 DEF LoopEndAlert
  <2>7. CASE ExclusiveTail
    BY <2>7 DEF ExclusiveTail
  <2>8. QED
    BY <1>2, <2>1, <2>2, <2>3, <2>4, <2>5, <2>6, <2>7 DEF Loop
<1>3. CASE Synchronize
  BY <1>3 DEF Synchronize, SyncRegister, SyncNotify, SyncReturn
<1>4. CASE PopActivity
  BY <1>4 DEF PopActivity, PopLock, PopToHome, PopGoHome, PopRestore,
         HandledPending, HandledUpdate, BackdropSwapOut, BackdropSwapIn
<1>5. CASE LaunchActivity
  BY <1>5 DEF LaunchActivity, LaunchBackdrop, LaunchLock, LaunchPush, LaunchReplace,
         OnEnter, Detach, EnteredMenuAction, EnteredGoHome, EnteredOverlay,
         EnteredNothing
<1>6. CASE Render
  BY <1>6 DEF Render, RenderTake, RenderLock, RenderCheck, RenderRead, RenderPaint,
         RenderClear, RenderSignal, RenderUnlock
<1>7. CASE Boot
  BY <1>7 DEF Boot
<1>8. CASE Shortcut
  BY <1>8 DEF Shortcut
<1>9. CASE ExclusiveRestart
  BY <1>9 DEF ExclusiveRestart
<1>10. CASE UNCHANGED vars
  BY <1>10 DEF vars
<1>11. QED
  BY <1>1, <1>2, <1>3, <1>4, <1>5, <1>6, <1>7, <1>8, <1>9, <1>10 DEF Next, Main, Manager

LEMMA HistoryTypeStep == IInv /\ [Next]_vars => HistoryType'
<1> SUFFICES ASSUME IInv, [Next]_vars PROVE HistoryType'
  OBVIOUS
<1> USE DEF IInv, TypeOK, HistoryType, SyncType, NavType, PhaseInv, OwnerInv,
         PendingIsServable, RenderSafe
<1>1. CASE Callback
  <2>1. CASE CbLock
    BY <2>1 DEF CbLock
  <2>2. CASE CbUnlock
    BY <2>2 DEF CbUnlock
  <2>3. CASE CbWrite
    BY <2>3 DEF CbWrite
  <2>4. CASE CbRequest
    BY <2>4 DEF CbRequest
  <2>5. CASE CbRequestNow
    BY <2>5 DEF CbRequestNow
  <2>6. CASE CbSync
    BY <2>6 DEF CbSync
  <2>7. CASE CbSyncRejected
    BY <2>7 DEF CbSyncRejected
  <2>8. CASE CbStart
    BY <2>8 DEF CbStart
  <2>9. CASE CbPush
    BY <2>9 DEF CbPush
  <2>10. CASE CbReplace
    BY <2>10 DEF CbReplace
  <2>11. CASE CbFinish
    BY <2>11 DEF CbFinish
  <2>12. CASE CbReturn
    BY <2>12 DEF CbReturn
  <2>13. QED
    BY <1>1, <2>1, <2>2, <2>3, <2>4, <2>5, <2>6, <2>7, <2>8, <2>9, <2>10,
         <2>11, <2>12 DEF Callback
<1>2. CASE Loop
  BY <1>2 DEF Loop, LoopPanelGesture, LoopGesture, LoopActivity, LoopHomeGesture,
         LoopEnd, LoopEndAlert, ExclusiveTail
<1>3. CASE Synchronize
  BY <1>3 DEF Synchronize, SyncRegister, SyncNotify, SyncReturn
<1>4. CASE PopActivity
  BY <1>4 DEF PopActivity, PopLock, PopToHome, PopGoHome, PopRestore,
         HandledPending, HandledUpdate, BackdropSwapOut, BackdropSwapIn
<1>5. CASE LaunchActivity
  <2>1. CASE LaunchBackdrop
    BY <2>1 DEF LaunchBackdrop
  <2>2. CASE LaunchLock
    BY <2>2 DEF LaunchLock
  <2>3. CASE LaunchPush
    BY <2>3 DEF LaunchPush
  <2>4. CASE LaunchReplace
    BY <2>4 DEF LaunchReplace
  <2>5. CASE Detach
    BY <2>5 DEF Detach
  <2>6. CASE EnteredMenuAction
    BY <2>6 DEF EnteredMenuAction
  <2>7. CASE EnteredGoHome
    BY <2>7 DEF EnteredGoHome
  <2>8. CASE EnteredOverlay
    BY <2>8 DEF EnteredOverlay
  <2>9. CASE EnteredNothing
    BY <2>9 DEF EnteredNothing
  <2>10. CASE OnEnter
    BY <2>10 DEF OnEnter
  <2>11. QED
    BY <1>5, <2>1, <2>2, <2>3, <2>4, <2>5, <2>6, <2>7, <2>8, <2>9, <2>10
       DEF LaunchActivity
<1>6. CASE Render
  BY <1>6 DEF Render, RenderTake, RenderLock, RenderCheck, RenderRead, RenderPaint,
         RenderClear, RenderSignal, RenderUnlock
<1>7. CASE Boot
  BY <1>7 DEF Boot
<1>8. CASE Shortcut
  BY <1>8 DEF Shortcut
<1>9. CASE ExclusiveRestart
  BY <1>9 DEF ExclusiveRestart
<1>10. CASE UNCHANGED vars
  BY <1>10 DEF vars
<1>11. QED
  BY <1>1, <1>2, <1>3, <1>4, <1>5, <1>6, <1>7, <1>8, <1>9, <1>10 DEF Next, Main, Manager

(* The lock.                                                               *)
LEMMA LockStep == IInv /\ [Next]_vars => LockInv'
<1> SUFFICES ASSUME IInv, [Next]_vars PROVE LockInv'
  OBVIOUS
<1> USE DEF IInv, TypeOK, MainType, SyncType, LockInv
<1>1. CASE Callback
  BY <1>1 DEF Callback, CbLock, CbUnlock, CbWrite, CbRequest, CbRequestNow, CbSync,
         CbSyncRejected, CbStart, CbPush, CbReplace, CbFinish, CbReturn
<1>2. CASE Loop
  BY <1>2 DEF Loop, LoopPanelGesture, LoopGesture, LoopActivity, LoopHomeGesture,
         LoopEnd, LoopEndAlert, ExclusiveTail
<1>3. CASE Synchronize
  BY <1>3 DEF Synchronize, SyncRegister, SyncNotify, SyncReturn
<1>4. CASE PopActivity
  BY <1>4 DEF PopActivity, PopLock, PopToHome, PopGoHome, PopRestore,
         HandledPending, HandledUpdate, BackdropSwapOut, BackdropSwapIn
<1>5. CASE LaunchActivity
  BY <1>5 DEF LaunchActivity, LaunchBackdrop, LaunchLock, LaunchPush, LaunchReplace,
         OnEnter, Detach, EnteredMenuAction, EnteredGoHome, EnteredOverlay,
         EnteredNothing
<1>6. CASE Render
  BY <1>6 DEF Render, RenderTake, RenderLock, RenderCheck, RenderRead, RenderPaint,
         RenderClear, RenderSignal, RenderUnlock
<1>7. CASE Boot
  BY <1>7 DEF Boot
<1>8. CASE Shortcut
  BY <1>8 DEF Shortcut
<1>9. CASE ExclusiveRestart
  BY <1>9 DEF ExclusiveRestart
<1>10. CASE UNCHANGED vars
  BY <1>10 DEF vars
<1>11. QED
  BY <1>1, <1>2, <1>3, <1>4, <1>5, <1>6, <1>7, <1>8, <1>9, <1>10 DEF Next, Main, Manager

(* Where the main task stands.                                             *)
LEMMA PhaseStep == IInv /\ [Next]_vars => PhaseInv'
<1> SUFFICES ASSUME IInv, [Next]_vars PROVE PhaseInv'
  OBVIOUS
<1> USE DEF IInv, TypeOK, MainType, NavType, SyncType, PhaseInv, LockInv,
         OwnerInv, PendingIsServable, Pop, Top
<1>1. CASE Callback
  BY <1>1 DEF Callback, CbLock, CbUnlock, CbWrite, CbRequest, CbRequestNow, CbSync,
         CbSyncRejected, CbStart, CbPush, CbReplace, CbFinish, CbReturn
<1>2. CASE Loop
  BY <1>2 DEF Loop, LoopPanelGesture, LoopGesture, LoopActivity, LoopHomeGesture,
         LoopEnd, LoopEndAlert, ExclusiveTail
<1>3. CASE Synchronize
  BY <1>3 DEF Synchronize, SyncRegister, SyncNotify, SyncReturn
<1>4. CASE PopActivity
  BY <1>4 DEF PopActivity, PopLock, PopToHome, PopGoHome, PopRestore,
         HandledPending, HandledUpdate, BackdropSwapOut, BackdropSwapIn
<1>5. CASE LaunchActivity
  BY <1>5 DEF LaunchActivity, LaunchBackdrop, LaunchLock, LaunchPush, LaunchReplace,
         OnEnter, Detach, EnteredMenuAction, EnteredGoHome, EnteredOverlay,
         EnteredNothing
<1>6. CASE Render
  <2>1. CASE RenderTake
    BY <2>1 DEF RenderTake
  <2>2. CASE RenderLock
    BY <2>2 DEF RenderLock
  <2>3. CASE RenderCheck
    BY <2>3 DEF RenderCheck
  <2>4. CASE RenderRead
    BY <2>4 DEF RenderRead
  <2>5. CASE RenderPaint
    BY <2>5 DEF RenderPaint
  <2>6. CASE RenderClear
    BY <2>6 DEF RenderClear
  <2>7. CASE RenderSignal
    BY <2>7 DEF RenderSignal
  <2>8. CASE RenderUnlock
    BY <2>8 DEF RenderUnlock
  <2>9. QED
    BY <1>6, <2>1, <2>2, <2>3, <2>4, <2>5, <2>6, <2>7, <2>8 DEF Render
<1>7. CASE Boot
  BY <1>7 DEF Boot
<1>8. CASE Shortcut
  BY <1>8 DEF Shortcut
<1>9. CASE ExclusiveRestart
  BY <1>9 DEF ExclusiveRestart
<1>10. CASE UNCHANGED vars
  BY <1>10 DEF vars
<1>11. QED
  BY <1>1, <1>2, <1>3, <1>4, <1>5, <1>6, <1>7, <1>8, <1>9, <1>10 DEF Next, Main, Manager

(* The pending action.                                                     *)
LEMMA ServableStep == IInv /\ [Next]_vars => PendingIsServable'
<1> SUFFICES ASSUME IInv, [Next]_vars PROVE PendingIsServable'
  OBVIOUS
<1> USE DEF IInv, TypeOK, NavType, PhaseInv, OwnerInv, PendingIsServable, Pop, Top
<1>1. CASE Callback
  BY <1>1 DEF Callback, CbLock, CbUnlock, CbWrite, CbRequest, CbRequestNow, CbSync,
         CbSyncRejected, CbStart, CbPush, CbReplace, CbFinish, CbReturn
<1>2. CASE Loop
  BY <1>2 DEF Loop, LoopPanelGesture, LoopGesture, LoopActivity, LoopHomeGesture,
         LoopEnd, LoopEndAlert, ExclusiveTail
<1>3. CASE Synchronize
  BY <1>3 DEF Synchronize, SyncRegister, SyncNotify, SyncReturn
<1>4. CASE PopActivity
  BY <1>4 DEF PopActivity, PopLock, PopToHome, PopGoHome, PopRestore,
         HandledPending, HandledUpdate, BackdropSwapOut, BackdropSwapIn
<1>5. CASE LaunchActivity
  BY <1>5 DEF LaunchActivity, LaunchBackdrop, LaunchLock, LaunchPush, LaunchReplace,
         OnEnter, Detach, EnteredMenuAction, EnteredGoHome, EnteredOverlay,
         EnteredNothing
<1>6. CASE Render
  <2>1. CASE RenderTake
    BY <2>1 DEF RenderTake
  <2>2. CASE RenderLock
    BY <2>2 DEF RenderLock
  <2>3. CASE RenderCheck
    BY <2>3 DEF RenderCheck
  <2>4. CASE RenderRead
    BY <2>4 DEF RenderRead
  <2>5. CASE RenderPaint
    BY <2>5 DEF RenderPaint
  <2>6. CASE RenderClear
    BY <2>6 DEF RenderClear
  <2>7. CASE RenderSignal
    BY <2>7 DEF RenderSignal
  <2>8. CASE RenderUnlock
    BY <2>8 DEF RenderUnlock
  <2>9. QED
    BY <1>6, <2>1, <2>2, <2>3, <2>4, <2>5, <2>6, <2>7, <2>8 DEF Render
<1>7. CASE Boot
  BY <1>7 DEF Boot
<1>8. CASE Shortcut
  BY <1>8 DEF Shortcut
<1>9. CASE ExclusiveRestart
  BY <1>9 DEF ExclusiveRestart
<1>10. CASE UNCHANGED vars
  BY <1>10 DEF vars
<1>11. QED
  BY <1>1, <1>2, <1>3, <1>4, <1>5, <1>6, <1>7, <1>8, <1>9, <1>10 DEF Next, Main, Manager

(* onEnter() and onExit().                                                 *)
LEMMA LifecycleStep == IInv /\ [Next]_vars => LifecyclePaired'
<1> SUFFICES ASSUME IInv, [Next]_vars PROVE LifecyclePaired'
  OBVIOUS
<1> USE DEF IInv, TypeOK, MainType, NavType, HistoryType, PhaseInv, OwnerInv,
         SingleOwner, Owned, LifecyclePaired, PendingIsServable
<1>1. CASE Callback
  BY <1>1 DEF Callback, CbLock, CbUnlock, CbWrite, CbRequest, CbRequestNow, CbSync,
         CbSyncRejected, CbStart, CbPush, CbReplace, CbFinish, CbReturn
<1>2. CASE Loop
  BY <1>2 DEF Loop, LoopPanelGesture, LoopGesture, LoopActivity, LoopHomeGesture,
         LoopEnd, LoopEndAlert, ExclusiveTail
<1>3. CASE Synchronize
  BY <1>3 DEF Synchronize, SyncRegister, SyncNotify, SyncReturn
<1>4. CASE PopActivity
  BY <1>4 DEF PopActivity, PopLock, PopToHome, PopGoHome, PopRestore,
         HandledPending, HandledUpdate, BackdropSwapOut, BackdropSwapIn
<1>5. CASE LaunchActivity
  <2>1. CASE LaunchBackdrop
    BY <2>1 DEF LaunchBackdrop
  <2>2. CASE LaunchLock
    BY <2>2 DEF LaunchLock
  <2>3. CASE LaunchPush
    BY <2>3 DEF LaunchPush
  <2>4. CASE LaunchReplace
    BY <2>4 DEF LaunchReplace
  <2>5. CASE Detach
    BY <2>5 DEF Detach
  <2>6. CASE EnteredMenuAction
    BY <2>6 DEF EnteredMenuAction
  <2>7. CASE EnteredGoHome
    BY <2>7 DEF EnteredGoHome
  <2>8. CASE EnteredOverlay
    BY <2>8 DEF EnteredOverlay
  <2>9. CASE EnteredNothing
    BY <2>9 DEF EnteredNothing
  <2>10. CASE OnEnter
    BY <2>10 DEF OnEnter
  <2>11. QED
    BY <1>5, <2>1, <2>2, <2>3, <2>4, <2>5, <2>6, <2>7, <2>8, <2>9, <2>10
       DEF LaunchActivity
<1>6. CASE Render
  BY <1>6 DEF Render, RenderTake, RenderLock, RenderCheck, RenderRead, RenderPaint,
         RenderClear, RenderSignal, RenderUnlock
<1>7. CASE Boot
  BY <1>7 DEF Boot
<1>8. CASE Shortcut
  BY <1>8 DEF Shortcut
<1>9. CASE ExclusiveRestart
  BY <1>9 DEF ExclusiveRestart
<1>10. CASE UNCHANGED vars
  BY <1>10 DEF vars
<1>11. QED
  BY <1>1, <1>2, <1>3, <1>4, <1>5, <1>6, <1>7, <1>8, <1>9, <1>10 DEF Next, Main, Manager

(* The activity being rendered.                                            *)
LEMMA RenderSafeStep == IInv /\ [Next]_vars => RenderSafe'
<1> SUFFICES ASSUME IInv, [Next]_vars PROVE RenderSafe'
  OBVIOUS
<1> USE DEF IInv, TypeOK, NavType, SyncType, HistoryType, LockInv, PhaseInv,
         OwnerInv, RenderSafe, SingleOwner, Owned, LifecyclePaired
<1>1. CASE Callback
  BY <1>1 DEF Callback, CbLock, CbUnlock, CbWrite, CbRequest, CbRequestNow, CbSync,
         CbSyncRejected, CbStart, CbPush, CbReplace, CbFinish, CbReturn
<1>2. CASE Loop
  BY <1>2 DEF Loop, LoopPanelGesture, LoopGesture, LoopActivity, LoopHomeGesture,
         LoopEnd, LoopEndAlert, ExclusiveTail
<1>3. CASE Synchronize
  BY <1>3 DEF Synchronize, SyncRegister, SyncNotify, SyncReturn
<1>4. CASE PopActivity
  BY <1>4 DEF PopActivity, PopLock, PopToHome, PopGoHome, PopRestore,
         HandledPending, HandledUpdate, BackdropSwapOut, BackdropSwapIn
<1>5. CASE LaunchActivity
  BY <1>5 DEF LaunchActivity, LaunchBackdrop, LaunchLock, LaunchPush, LaunchReplace,
         OnEnter, Detach, EnteredMenuAction, EnteredGoHome, EnteredOverlay,
         EnteredNothing
<1>6. CASE Render
  BY <1>6 DEF Render, RenderTake, RenderLock, RenderCheck, RenderRead, RenderPaint,
         RenderClear, RenderSignal, RenderUnlock
<1>7. CASE Boot
  BY <1>7 DEF Boot
<1>8. CASE Shortcut
  BY <1>8 DEF Shortcut
<1>9. CASE ExclusiveRestart
  BY <1>9 DEF ExclusiveRestart
<1>10. CASE UNCHANGED vars
  BY <1>10 DEF vars
<1>11. QED
  BY <1>1, <1>2, <1>3, <1>4, <1>5, <1>6, <1>7, <1>8, <1>9, <1>10 DEF Next, Main, Manager

(* The waiter.                                                             *)
LEMMA WaiterStep == IInv /\ [Next]_vars => WaiterInv'
<1> SUFFICES ASSUME IInv, [Next]_vars PROVE WaiterInv'
  OBVIOUS
<1> USE DEF IInv, TypeOK, MainType, SyncType, PhaseInv, LockInv, WaiterInv,
         NoLostWakeup
<1>1. CASE Callback
  BY <1>1 DEF Callback, CbLock, CbUnlock, CbWrite, CbRequest, CbRequestNow, CbSync,
         CbSyncRejected, CbStart, CbPush, CbReplace, CbFinish, CbReturn
<1>2. CASE Loop
  BY <1>2 DEF Loop, LoopPanelGesture, LoopGesture, LoopActivity, LoopHomeGesture,
         LoopEnd, LoopEndAlert, ExclusiveTail
<1>3. CASE Synchronize
  BY <1>3 DEF Synchronize, SyncRegister, SyncNotify, SyncReturn
<1>4. CASE PopActivity
  BY <1>4 DEF PopActivity, PopLock, PopToHome, PopGoHome, PopRestore,
         HandledPending, HandledUpdate, BackdropSwapOut, BackdropSwapIn
<1>5. CASE LaunchActivity
  BY <1>5 DEF LaunchActivity, LaunchBackdrop, LaunchLock, LaunchPush, LaunchReplace,
         OnEnter, Detach, EnteredMenuAction, EnteredGoHome, EnteredOverlay,
         EnteredNothing
<1>6. CASE Render
  <2>1. CASE RenderTake
    BY <2>1 DEF RenderTake
  <2>2. CASE RenderLock
    BY <2>2 DEF RenderLock
  <2>3. CASE RenderCheck
    BY <2>3 DEF RenderCheck
  <2>4. CASE RenderRead
    BY <2>4 DEF RenderRead
  <2>5. CASE RenderPaint
    BY <2>5 DEF RenderPaint
  <2>6. CASE RenderClear
    BY <2>6 DEF RenderClear
  <2>7. CASE RenderSignal
    BY <2>7 DEF RenderSignal
  <2>8. CASE RenderUnlock
    BY <2>8 DEF RenderUnlock
  <2>9. QED
    BY <1>6, <2>1, <2>2, <2>3, <2>4, <2>5, <2>6, <2>7, <2>8 DEF Render
<1>7. CASE Boot
  BY <1>7 DEF Boot
<1>8. CASE Shortcut
  BY <1>8 DEF Shortcut
<1>9. CASE ExclusiveRestart
  BY <1>9 DEF ExclusiveRestart
<1>10. CASE UNCHANGED vars
  BY <1>10 DEF vars
<1>11. QED
  BY <1>1, <1>2, <1>3, <1>4, <1>5, <1>6, <1>7, <1>8, <1>9, <1>10 DEF Next, Main, Manager

(* What the panel shows of the current activity.                           *)
LEMMA FreshStep == IInv /\ [Next]_vars => FreshInv'
<1> SUFFICES ASSUME IInv, [Next]_vars PROVE FreshInv'
  OBVIOUS
<1> USE DEF IInv, TypeOK, MainType, SyncType, HistoryType, LockInv, PhaseInv,
         WaiterInv, FreshInv, RenderSafe, SyncRenderFresh, Rendered
<1>1. CASE Callback
  BY <1>1 DEF Callback, CbLock, CbUnlock, CbWrite, CbRequest, CbRequestNow, CbSync,
         CbSyncRejected, CbStart, CbPush, CbReplace, CbFinish, CbReturn
<1>2. CASE Loop
  BY <1>2 DEF Loop, LoopPanelGesture, LoopGesture, LoopActivity, LoopHomeGesture,
         LoopEnd, LoopEndAlert, ExclusiveTail
<1>3. CASE Synchronize
  BY <1>3 DEF Synchronize, SyncRegister, SyncNotify, SyncReturn
<1>4. CASE PopActivity
  BY <1>4 DEF PopActivity, PopLock, PopToHome, PopGoHome, PopRestore,
         HandledPending, HandledUpdate, BackdropSwapOut, BackdropSwapIn
<1>5. CASE LaunchActivity
  BY <1>5 DEF LaunchActivity, LaunchBackdrop, LaunchLock, LaunchPush, LaunchReplace,
         OnEnter, Detach, EnteredMenuAction, EnteredGoHome, EnteredOverlay,
         EnteredNothing
<1>6. CASE Render
  <2>1. CASE RenderTake
    BY <2>1 DEF RenderTake
  <2>2. CASE RenderLock
    BY <2>2 DEF RenderLock
  <2>3. CASE RenderCheck
    BY <2>3 DEF RenderCheck
  <2>4. CASE RenderRead
    BY <2>4 DEF RenderRead
  <2>5. CASE RenderPaint
    BY <2>5 DEF RenderPaint
  <2>6. CASE RenderClear
    BY <2>6 DEF RenderClear
  <2>7. CASE RenderSignal
    BY <2>7 DEF RenderSignal
  <2>8. CASE RenderUnlock
    BY <2>8 DEF RenderUnlock
  <2>9. QED
    BY <1>6, <2>1, <2>2, <2>3, <2>4, <2>5, <2>6, <2>7, <2>8 DEF Render
<1>7. CASE Boot
  BY <1>7 DEF Boot
<1>8. CASE Shortcut
  BY <1>8 DEF Shortcut
<1>9. CASE ExclusiveRestart
  BY <1>9 DEF ExclusiveRestart
<1>10. CASE UNCHANGED vars
  BY <1>10 DEF vars
<1>11. QED
  BY <1>1, <1>2, <1>3, <1>4, <1>5, <1>6, <1>7, <1>8, <1>9, <1>10 DEF Next, Main, Manager

(* What the panel shows of any activity.                                   *)
LEMMA PaintsStep == IInv /\ [Next]_vars => Paints'
<1> SUFFICES ASSUME IInv, [Next]_vars PROVE Paints'
  OBVIOUS
<1> USE DEF IInv, TypeOK, HistoryType, SyncType, NavType, LockInv, PhaseInv,
         OwnerInv, SingleOwner, PendingIsServable, RenderSafe, Paints
<1>1. CASE Callback
  BY <1>1 DEF Callback, CbLock, CbUnlock, CbWrite, CbRequest, CbRequestNow, CbSync,
         CbSyncRejected, CbStart, CbPush, CbReplace, CbFinish, CbReturn
<1>2. CASE Loop
  BY <1>2 DEF Loop, LoopPanelGesture, LoopGesture, LoopActivity, LoopHomeGesture,
         LoopEnd, LoopEndAlert, ExclusiveTail
<1>3. CASE Synchronize
  BY <1>3 DEF Synchronize, SyncRegister, SyncNotify, SyncReturn
<1>4. CASE PopActivity
  BY <1>4 DEF PopActivity, PopLock, PopToHome, PopGoHome, PopRestore,
         HandledPending, HandledUpdate, BackdropSwapOut, BackdropSwapIn
<1>5. CASE LaunchActivity
  BY <1>5 DEF LaunchActivity, LaunchBackdrop, LaunchLock, LaunchPush, LaunchReplace,
         OnEnter, Detach, EnteredMenuAction, EnteredGoHome, EnteredOverlay,
         EnteredNothing
<1>6. CASE Render
  BY <1>6 DEF Render, RenderTake, RenderLock, RenderCheck, RenderRead, RenderPaint,
         RenderClear, RenderSignal, RenderUnlock
<1>7. CASE Boot
  BY <1>7 DEF Boot
<1>8. CASE Shortcut
  BY <1>8 DEF Shortcut
<1>9. CASE ExclusiveRestart
  BY <1>9 DEF ExclusiveRestart
<1>10. CASE UNCHANGED vars
  BY <1>10 DEF vars
<1>11. QED
  BY <1>1, <1>2, <1>3, <1>4, <1>5, <1>6, <1>7, <1>8, <1>9, <1>10 DEF Next, Main, Manager

(* The backdrop of a drawer that comes back.                               *)
LEMMA BackdropStep == IInv /\ [Next]_vars => BackdropInv'
<1> SUFFICES ASSUME IInv, [Next]_vars PROVE BackdropInv'
  OBVIOUS
<1> USE DEF IInv, TypeOK, MainType, HistoryType, SyncType, NavType, LockInv,
         PhaseInv, WaiterInv, RenderSafe, Paints, BackdropInv,
         BackdropRepainted
<1>1. CASE Callback
  BY <1>1 DEF Callback, CbLock, CbUnlock, CbWrite, CbRequest, CbRequestNow, CbSync,
         CbSyncRejected, CbStart, CbPush, CbReplace, CbFinish, CbReturn
<1>2. CASE Loop
  BY <1>2 DEF Loop, LoopPanelGesture, LoopGesture, LoopActivity, LoopHomeGesture,
         LoopEnd, LoopEndAlert, ExclusiveTail
<1>3. CASE Synchronize
  BY <1>3 DEF Synchronize, SyncRegister, SyncNotify, SyncReturn
<1>4. CASE PopActivity
  BY <1>4 DEF PopActivity, PopLock, PopToHome, PopGoHome, PopRestore,
         HandledPending, HandledUpdate, BackdropSwapOut, BackdropSwapIn
<1>5. CASE LaunchActivity
  BY <1>5 DEF LaunchActivity, LaunchBackdrop, LaunchLock, LaunchPush, LaunchReplace,
         OnEnter, Detach, EnteredMenuAction, EnteredGoHome, EnteredOverlay,
         EnteredNothing
<1>6. CASE Render
  <2>1. CASE RenderTake
    BY <2>1 DEF RenderTake
  <2>2. CASE RenderLock
    BY <2>2 DEF RenderLock
  <2>3. CASE RenderCheck
    BY <2>3 DEF RenderCheck
  <2>4. CASE RenderRead
    BY <2>4 DEF RenderRead
  <2>5. CASE RenderPaint
    BY <2>5 DEF RenderPaint
  <2>6. CASE RenderClear
    BY <2>6 DEF RenderClear
  <2>7. CASE RenderSignal
    BY <2>7 DEF RenderSignal
  <2>8. CASE RenderUnlock
    BY <2>8 DEF RenderUnlock
  <2>9. QED
    BY <1>6, <2>1, <2>2, <2>3, <2>4, <2>5, <2>6, <2>7, <2>8 DEF Render
<1>7. CASE Boot
  BY <1>7 DEF Boot
<1>8. CASE Shortcut
  BY <1>8 DEF Shortcut
<1>9. CASE ExclusiveRestart
  BY <1>9 DEF ExclusiveRestart
<1>10. CASE UNCHANGED vars
  BY <1>10 DEF vars
<1>11. QED
  BY <1>1, <1>2, <1>3, <1>4, <1>5, <1>6, <1>7, <1>8, <1>9, <1>10 DEF Next, Main, Manager

(* The pixels a drawer is opened over.                                     *)
LEMMA SourceStep == IInv /\ [Next]_vars => SourceInv'
<1> SUFFICES ASSUME IInv, [Next]_vars PROVE SourceInv'
  OBVIOUS
<1> USE DEF IInv, TypeOK, MainType, HistoryType, SyncType, NavType, LockInv,
         PhaseInv, OwnerInv, LifecyclePaired, PendingIsServable, WaiterInv,
         RenderSafe, Paints, SourceInv, Shown, OverlayOverSource, ExclusiveInv
<1>1. CASE Callback
  BY <1>1 DEF Callback, CbLock, CbUnlock, CbWrite, CbRequest, CbRequestNow, CbSync,
         CbSyncRejected, CbStart, CbPush, CbReplace, CbFinish, CbReturn
<1>2. CASE Loop
  BY <1>2 DEF Loop, LoopPanelGesture, LoopGesture, LoopActivity, LoopHomeGesture,
         LoopEnd, LoopEndAlert, ExclusiveTail
<1>3. CASE Synchronize
  BY <1>3 DEF Synchronize, SyncRegister, SyncNotify, SyncReturn
<1>4. CASE PopActivity
  <2>1. CASE PopLock
    BY <2>1 DEF PopLock
  <2>2. CASE PopToHome
    BY <2>2 DEF PopToHome
  <2>3. CASE PopGoHome
    BY <2>3 DEF PopGoHome
  <2>4. CASE PopRestore
    BY <2>4 DEF PopRestore
  <2>5. CASE HandledPending
    BY <2>5 DEF HandledPending
  <2>6. CASE HandledUpdate
    BY <2>6 DEF HandledUpdate
  <2>7. CASE BackdropSwapOut
    BY <2>7 DEF BackdropSwapOut
  <2>8. CASE BackdropSwapIn
    BY <2>8 DEF BackdropSwapIn
  <2>9. QED
    BY <1>4, <2>1, <2>2, <2>3, <2>4, <2>5, <2>6, <2>7, <2>8 DEF PopActivity
<1>5. CASE LaunchActivity
  BY <1>5 DEF LaunchActivity, LaunchBackdrop, LaunchLock, LaunchPush, LaunchReplace,
         OnEnter, Detach, EnteredMenuAction, EnteredGoHome, EnteredOverlay,
         EnteredNothing
<1>6. CASE Render
  <2>1. CASE RenderTake
    BY <2>1 DEF RenderTake
  <2>2. CASE RenderLock
    BY <2>2 DEF RenderLock
  <2>3. CASE RenderCheck
    BY <2>3 DEF RenderCheck
  <2>4. CASE RenderRead
    BY <2>4 DEF RenderRead
  <2>5. CASE RenderPaint
    BY <2>5 DEF RenderPaint
  <2>6. CASE RenderClear
    BY <2>6 DEF RenderClear
  <2>7. CASE RenderSignal
    BY <2>7 DEF RenderSignal
  <2>8. CASE RenderUnlock
    BY <2>8 DEF RenderUnlock
  <2>9. QED
    BY <1>6, <2>1, <2>2, <2>3, <2>4, <2>5, <2>6, <2>7, <2>8 DEF Render
<1>7. CASE Boot
  BY <1>7 DEF Boot
<1>8. CASE Shortcut
  BY <1>8 DEF Shortcut
<1>9. CASE ExclusiveRestart
  BY <1>9 DEF ExclusiveRestart
<1>10. CASE UNCHANGED vars
  BY <1>10 DEF vars
<1>11. QED
  BY <1>1, <1>2, <1>3, <1>4, <1>5, <1>6, <1>7, <1>8, <1>9, <1>10 DEF Next, Main, Manager

(* Who owns an activity.                                                   *)
LEMMA OwnerStep == IInv /\ [Next]_vars => SingleOwner'
<1> SUFFICES ASSUME IInv, [Next]_vars PROVE SingleOwner'
  OBVIOUS
<1> USE DEF IInv, TypeOK, NavType, HistoryType, PhaseInv, OwnerInv,
         PendingIsServable, SingleOwner, Owned
<1>empty. Range(<<>>) = {} /\ Distinct(<<>>)
  BY DEF Range, Distinct
<1>pop. stack # <<>> =>
          /\ Pop(stack) \in Seq(Activities) /\ Top(stack) \in Activities
          /\ Range(stack) = Range(Pop(stack)) \cup {Top(stack)}
          /\ Distinct(stack) =>
                Distinct(Pop(stack)) /\ Top(stack) \notin Range(Pop(stack))
  BY RangeOfPop
<1>append. current \in Activities =>
          /\ Append(stack, current) # <<>>
          /\ Range(Append(stack, current)) = Range(stack) \cup {current}
          /\ Distinct(stack) /\ current \notin Range(stack) =>
                Distinct(Append(stack, current))
  BY RangeOfAppend
<1>1. CASE Callback
  <2>1. CASE CbLock
    BY <2>1 DEF CbLock
  <2>2. CASE CbUnlock
    BY <2>2 DEF CbUnlock
  <2>3. CASE CbWrite
    BY <2>3 DEF CbWrite
  <2>4. CASE CbRequest
    BY <2>4 DEF CbRequest
  <2>5. CASE CbRequestNow
    BY <2>5 DEF CbRequestNow
  <2>6. CASE CbSync
    BY <2>6 DEF CbSync
  <2>7. CASE CbSyncRejected
    BY <2>7 DEF CbSyncRejected
  <2>8. CASE CbStart
    BY <2>8 DEF CbStart
  <2>9. CASE CbPush
    BY <2>9 DEF CbPush
  <2>10. CASE CbReplace
    BY <2>10 DEF CbReplace
  <2>11. CASE CbFinish
    BY <2>11 DEF CbFinish
  <2>12. CASE CbReturn
    BY <2>12 DEF CbReturn
  <2>13. QED
    BY <1>1, <2>1, <2>2, <2>3, <2>4, <2>5, <2>6, <2>7, <2>8, <2>9, <2>10,
         <2>11, <2>12 DEF Callback
<1>2. CASE Loop
  <2>1. CASE LoopPanelGesture
    BY <2>1 DEF LoopPanelGesture
  <2>2. CASE LoopGesture
    BY <2>2 DEF LoopGesture
  <2>3. CASE LoopActivity
    BY <2>3 DEF LoopActivity
  <2>4. CASE LoopHomeGesture
    BY <2>4 DEF LoopHomeGesture
  <2>5. CASE LoopEnd
    BY <2>5 DEF LoopEnd
  <2>6. CASE LoopEndAlert
    BY <2>6 DEF LoopEndAlert
  <2>7. CASE ExclusiveTail
    BY <2>7 DEF ExclusiveTail
  <2>8. QED
    BY <1>2, <2>1, <2>2, <2>3, <2>4, <2>5, <2>6, <2>7 DEF Loop
<1>3. CASE Synchronize
  <2>1. CASE SyncRegister
    BY <2>1 DEF SyncRegister
  <2>2. CASE SyncNotify
    BY <2>2 DEF SyncNotify
  <2>3. CASE SyncReturn
    BY <2>3 DEF SyncReturn
  <2>4. QED
    BY <1>3, <2>1, <2>2, <2>3 DEF Synchronize
<1>4. CASE PopActivity
  <2>1. CASE PopLock
    BY <2>1 DEF PopLock
  <2>2. CASE PopToHome
    BY <2>2, <1>empty DEF PopToHome
  <2>3. CASE PopGoHome
    BY <2>3 DEF PopGoHome
  <2>4. CASE PopRestore
    BY <2>4, <1>pop DEF PopRestore
  <2>5. CASE HandledPending
    BY <2>5 DEF HandledPending
  <2>6. CASE HandledUpdate
    BY <2>6 DEF HandledUpdate
  <2>7. CASE BackdropSwapOut
    BY <2>7, <1>pop DEF BackdropSwapOut
  <2>8. CASE BackdropSwapIn
    BY <2>8, <1>append DEF BackdropSwapIn
  <2>9. QED
    BY <1>4, <2>1, <2>2, <2>3, <2>4, <2>5, <2>6, <2>7, <2>8 DEF PopActivity
<1>5. CASE LaunchActivity
  <2>1. CASE LaunchBackdrop
    BY <2>1 DEF LaunchBackdrop
  <2>2. CASE LaunchLock
    BY <2>2 DEF LaunchLock
  <2>3. CASE LaunchPush
    BY <2>3, <1>append DEF LaunchPush
  <2>4. CASE LaunchReplace
    BY <2>4, <1>empty DEF LaunchReplace
  <2>5. CASE Detach
    BY <2>5 DEF Detach
  <2>6. CASE EnteredMenuAction
    BY <2>6 DEF EnteredMenuAction
  <2>7. CASE EnteredGoHome
    BY <2>7 DEF EnteredGoHome
  <2>8. CASE EnteredOverlay
    BY <2>8 DEF EnteredOverlay
  <2>9. CASE EnteredNothing
    BY <2>9 DEF EnteredNothing
  <2>10. CASE OnEnter
    BY <2>10 DEF OnEnter
  <2>11. QED
    BY <1>5, <2>1, <2>2, <2>3, <2>4, <2>5, <2>6, <2>7, <2>8, <2>9, <2>10
       DEF LaunchActivity
<1>6. CASE Render
  <2>1. CASE RenderTake
    BY <2>1 DEF RenderTake
  <2>2. CASE RenderLock
    BY <2>2 DEF RenderLock
  <2>3. CASE RenderCheck
    BY <2>3 DEF RenderCheck
  <2>4. CASE RenderRead
    BY <2>4 DEF RenderRead
  <2>5. CASE RenderPaint
    BY <2>5 DEF RenderPaint
  <2>6. CASE RenderClear
    BY <2>6 DEF RenderClear
  <2>7. CASE RenderSignal
    BY <2>7 DEF RenderSignal
  <2>8. CASE RenderUnlock
    BY <2>8 DEF RenderUnlock
  <2>9. QED
    BY <1>6, <2>1, <2>2, <2>3, <2>4, <2>5, <2>6, <2>7, <2>8 DEF Render
<1>7. CASE Boot
  BY <1>7 DEF Boot
<1>8. CASE Shortcut
  BY <1>8 DEF Shortcut
<1>9. CASE ExclusiveRestart
  BY <1>9, <1>empty DEF ExclusiveRestart
<1>10. CASE UNCHANGED vars
  BY <1>10 DEF vars
<1>11. QED
  BY <1>1, <1>2, <1>3, <1>4, <1>5, <1>6, <1>7, <1>8, <1>9, <1>10 DEF Next, Main, Manager

(* The exclusive owner.                                                   *)
LEMMA ExclusiveStep == IInv /\ [Next]_vars => ExclusiveInv'
<1> SUFFICES ASSUME IInv, [Next]_vars PROVE ExclusiveInv'
  OBVIOUS
<1> USE DEF IInv, TypeOK, MainType, NavType, FlagType, SyncType, HistoryType,
         PhaseInv, OwnerInv, PendingIsServable, RenderSafe, WaiterInv,
         ExclusiveInv, InTurn
<1>empty. Range(<<>>) = {} /\ Distinct(<<>>)
  BY DEF Range, Distinct
<1>pop. stack # <<>> =>
          /\ Pop(stack) \in Seq(Activities) /\ Top(stack) \in Activities
          /\ Range(stack) = Range(Pop(stack)) \cup {Top(stack)}
          /\ Distinct(stack) =>
                Distinct(Pop(stack)) /\ Top(stack) \notin Range(Pop(stack))
  BY RangeOfPop
<1>append. current \in Activities =>
          /\ Append(stack, current) # <<>>
          /\ Range(Append(stack, current)) = Range(stack) \cup {current}
          /\ Distinct(stack) /\ current \notin Range(stack) =>
                Distinct(Append(stack, current))
  BY RangeOfAppend
<1> USE DisjointAssumption DEF DisjointAssumption
<1>1. CASE Callback
  BY <1>1 DEF Callback, CbLock, CbUnlock, CbWrite, CbRequest, CbRequestNow, CbSync,
         CbSyncRejected, CbStart, CbPush, CbReplace, CbFinish, CbReturn
<1>2. CASE Loop
  <2>1. CASE LoopPanelGesture
    BY <2>1 DEF LoopPanelGesture
  <2>2. CASE LoopGesture
    BY <2>2 DEF LoopGesture
  <2>3. CASE LoopActivity
    BY <2>3 DEF LoopActivity
  <2>4. CASE LoopHomeGesture
    BY <2>4 DEF LoopHomeGesture
  <2>5. CASE LoopEnd
    BY <2>5 DEF LoopEnd
  <2>6. CASE LoopEndAlert
    BY <2>6 DEF LoopEndAlert
  <2>7. CASE ExclusiveTail
    BY <2>7 DEF ExclusiveTail
  <2>8. QED
    BY <1>2, <2>1, <2>2, <2>3, <2>4, <2>5, <2>6, <2>7 DEF Loop
<1>3. CASE Synchronize
  BY <1>3 DEF Synchronize, SyncRegister, SyncNotify, SyncReturn
<1>4. CASE PopActivity
  <2>1. CASE PopLock
    BY <2>1 DEF PopLock
  <2>2. CASE PopToHome
    BY <2>2, <1>empty DEF PopToHome
  <2>3. CASE PopGoHome
    BY <2>3 DEF PopGoHome
  <2>4. CASE PopRestore
    BY <2>4, <1>pop DEF PopRestore
  <2>5. CASE HandledPending
    BY <2>5 DEF HandledPending
  <2>6. CASE HandledUpdate
    BY <2>6 DEF HandledUpdate
  <2>7. CASE BackdropSwapOut
    BY <2>7, <1>pop DEF BackdropSwapOut
  <2>8. CASE BackdropSwapIn
    BY <2>8, <1>append DEF BackdropSwapIn
  <2>9. QED
    BY <1>4, <2>1, <2>2, <2>3, <2>4, <2>5, <2>6, <2>7, <2>8 DEF PopActivity
<1>5. CASE LaunchActivity
  <2>1. CASE LaunchBackdrop
    BY <2>1 DEF LaunchBackdrop
  <2>2. CASE LaunchLock
    BY <2>2 DEF LaunchLock
  <2>3. CASE LaunchPush
    BY <2>3, <1>append DEF LaunchPush
  <2>4. CASE LaunchReplace
    BY <2>4, <1>empty DEF LaunchReplace
  <2>5. CASE Detach
    BY <2>5 DEF Detach
  <2>6. CASE EnteredMenuAction
    BY <2>6 DEF EnteredMenuAction
  <2>7. CASE EnteredGoHome
    BY <2>7 DEF EnteredGoHome
  <2>8. CASE EnteredOverlay
    BY <2>8 DEF EnteredOverlay
  <2>9. CASE EnteredNothing
    BY <2>9 DEF EnteredNothing
  <2>10. CASE OnEnter
    BY <2>10 DEF OnEnter
  <2>11. QED
    BY <1>5, <2>1, <2>2, <2>3, <2>4, <2>5, <2>6, <2>7, <2>8, <2>9, <2>10
       DEF LaunchActivity
<1>6. CASE Render
  <2>1. CASE RenderTake
    BY <2>1 DEF RenderTake
  <2>2. CASE RenderLock
    BY <2>2 DEF RenderLock
  <2>3. CASE RenderCheck
    BY <2>3 DEF RenderCheck
  <2>4. CASE RenderRead
    BY <2>4 DEF RenderRead
  <2>5. CASE RenderPaint
    BY <2>5 DEF RenderPaint
  <2>6. CASE RenderClear
    BY <2>6 DEF RenderClear
  <2>7. CASE RenderSignal
    BY <2>7 DEF RenderSignal
  <2>8. CASE RenderUnlock
    BY <2>8 DEF RenderUnlock
  <2>9. QED
    BY <1>6, <2>1, <2>2, <2>3, <2>4, <2>5, <2>6, <2>7, <2>8 DEF Render
<1>7. CASE Boot
  BY <1>7 DEF Boot
<1>8. CASE Shortcut
  BY <1>8 DEF Shortcut
<1>9. CASE ExclusiveRestart
  BY <1>9, <1>empty DEF ExclusiveRestart
<1>10. CASE UNCHANGED vars
  BY <1>10 DEF vars
<1>11. QED
  BY <1>1, <1>2, <1>3, <1>4, <1>5, <1>6, <1>7, <1>8, <1>9, <1>10 DEF Next, Main, Manager

(* The initial state.                                                      *)
LEMMA InitInv == Init => IInv
<1> SUFFICES ASSUME Init PROVE IInv
  OBVIOUS
<1> USE DEF Init
<1>1. TypeOK
  <2>1. MainType /\ FlagType
    BY DEF MainType, FlagType
  <2>2. NavType
    BY DEF NavType
  <2>3. SyncType /\ HistoryType
    BY DEF SyncType, HistoryType
  <2>4. QED
    BY <2>1, <2>2, <2>3 DEF TypeOK
<1>2. LockInv /\ PhaseInv /\ PendingIsServable /\ RenderSafe
  BY DEF LockInv, PhaseInv, PendingIsServable, RenderSafe
<1>3. SingleOwner /\ LifecyclePaired
  BY DEF SingleOwner, Owned, Range, Distinct, LifecyclePaired
<1>4. WaiterInv /\ FreshInv
  BY DEF WaiterInv, NoLostWakeup, FreshInv, SyncRenderFresh, Rendered
<1>5. ExclusiveInv
  <2>1. NoActivity \notin Exclusives /\ NoActivity \notin Readers
    OBVIOUS
  <2>2. QED
    BY <2>1 DEF ExclusiveInv, InTurn, Range
<1>6. Paints /\ BackdropInv /\ SourceInv
  BY DEF Paints, BackdropInv, BackdropRepainted, SourceInv, Shown,
         OverlayOverSource
<1>7. QED
  BY <1>1, <1>2, <1>3, <1>4, <1>5, <1>6 DEF IInv, OwnerInv

(* The invariant of the screen manager, in every state.                    *)
THEOREM Invariance == Spec => []IInv
<1>1. IInv /\ [Next]_vars => IInv'
  BY MainTypeStep, NavTypeStep, FlagTypeStep, SyncTypeStep, HistoryTypeStep,
     LockStep, PhaseStep, ServableStep, LifecycleStep, OwnerStep,
     RenderSafeStep, WaiterStep, FreshStep, PaintsStep, BackdropStep,
     SourceStep, ExclusiveStep
     DEF IInv, TypeOK, OwnerInv
<1>2. QED
  BY InitInv, <1>1, PTL DEF Spec

(* Every variable keeps its type.                                          *)
THEOREM TypeCorrect == Spec => []TypeOK
  BY Invariance, PTL DEF IInv

(* No activity is exited, destroyed or replaced under a running render(),  *)
(* which may have begun between its launch and its onEnter().              *)
THEOREM RenderIsSafe == Spec => []RenderSafe
  BY Invariance, PTL DEF IInv

(* No activity leaks or has two owners.                                    *)
THEOREM ActivitiesAreOwned == Spec => []SingleOwner
<1>1. IInv => SingleOwner
  BY DEF IInv, OwnerInv
<1>2. QED
  BY Invariance, <1>1, PTL

(* Each of them is entered once and left once, however the navigation      *)
(* requests overwrite each other.                                          *)
THEOREM CallbacksArePaired == Spec => []LifecyclePaired
<1>1. IInv => LifecyclePaired
  BY DEF IInv, OwnerInv
<1>2. QED
  BY Invariance, <1>1, PTL

(* The while loop over the pending action always finds what it serves.     *)
THEOREM PendingActionsAreServable == Spec => []PendingIsServable
<1>1. IInv => PendingIsServable
  BY DEF IInv, OwnerInv
<1>2. QED
  BY Invariance, <1>1, PTL

(* No synchronous update sleeps through its wake-up.                       *)
THEOREM WakeupsAreKept == Spec => []NoLostWakeup
<1>1. IInv => NoLostWakeup
  BY DEF IInv, WaiterInv
<1>2. QED
  BY Invariance, <1>1, PTL

(* A synchronous update shows every change made under the lock.            *)
THEOREM SynchronousUpdatesAreFresh == Spec => []SyncRenderFresh
<1>1. IInv => SyncRenderFresh
  BY DEF IInv, FreshInv
<1>2. QED
  BY Invariance, <1>1, PTL

(* The owner of the card stays alone on the screen while the card is       *)
(* exposed.                                                                *)
THEOREM TheExclusiveOwnerStays == Spec => []ExclusiveOwnerStays
<1>1. IInv => ExclusiveOwnerStays
  BY DEF IInv, ExclusiveInv, OwnerInv, PendingIsServable, ExclusiveOwnerStays
<1>2. QED
  BY Invariance, <1>1, PTL

(* A drawer is opened over the pixels of the activity it covers.           *)
THEOREM DrawersCoverTheirSource == Spec => []OverlayOverSource
<1>1. IInv => OverlayOverSource
  BY DEF IInv, BackdropInv, SourceInv
<1>2. QED
  BY Invariance, <1>1, PTL

(* And it comes back over its source, repainted.                           *)
THEOREM BackdropsAreRepainted == Spec => []BackdropRepainted
<1>1. IInv => BackdropRepainted
  BY DEF IInv, BackdropInv, SourceInv
<1>2. QED
  BY Invariance, <1>1, PTL

-----------------------------------------------------------------------------
(* Why requestUpdateAndWait() returns: what is left of the render task's   *)
(* way to the point where it takes the waiter, counted in steps.           *)
StepsToSignal ==
    [label \in RenderLabels |->
        CASE label = "unlock" -> 8
          [] label = "take" -> 7
          [] label = "lock" -> 6
          [] label = "check" -> 5
          [] label = "read" -> 4
          [] label = "paint" -> 3
          [] label = "clear" -> 2
          [] label = "signal" -> 1]

WaitLeft == IF waiting THEN StepsToSignal[rpc] ELSE 0

(* Every step of the render task brings the waiter closer to its wake-up,  *)
(* and while one waits nothing takes it away again.                        *)
WaitGoesDown ==
    /\ waiting /\ Render => WaitLeft' < WaitLeft
    /\ waiting => WaitLeft' <= WaitLeft

(* What the render task stops for is there, or about to be: the            *)
(* notification, and the lock, which the waiter does not hold.             *)
RenderGoesOn ==
    waiting =>
        /\ rpc = "take" => notifR \/ pc = "notify"
        /\ rpc = "lock" => mutex = "free"

LEMMA StepsToSignalValues ==
    /\ StepsToSignal["unlock"] = 8 /\ StepsToSignal["take"] = 7
    /\ StepsToSignal["lock"] = 6 /\ StepsToSignal["check"] = 5
    /\ StepsToSignal["read"] = 4 /\ StepsToSignal["paint"] = 3
    /\ StepsToSignal["clear"] = 2 /\ StepsToSignal["signal"] = 1
  BY DEF StepsToSignal

LEMMA WaitIsCounted == IInv => WaitLeft \in 0..8
<1> SUFFICES ASSUME IInv PROVE WaitLeft \in 0..8
  OBVIOUS
<1>1. rpc \in RenderLabels
  BY DEF IInv, TypeOK, SyncType
<1>2. StepsToSignal[rpc] \in 1..8
  BY <1>1, StepsToSignalValues
<1>3. QED
  BY <1>2 DEF WaitLeft

LEMMA WaitIsCountedNext == IInv' => WaitLeft' \in 0..8
<1> SUFFICES ASSUME IInv' PROVE WaitLeft' \in 0..8
  OBVIOUS
<1>1. rpc' \in RenderLabels
  BY DEF IInv, TypeOK, SyncType
<1>2. StepsToSignal[rpc'] \in 1..8
  BY <1>1, StepsToSignalValues
<1>3. StepsToSignal[rpc]' = StepsToSignal[rpc']
  BY DEF StepsToSignal
<1>4. QED
  BY <1>2, <1>3 DEF WaitLeft

LEMMA RenderComesCloser ==
    ASSUME IInv, waiting, Render
    PROVE  WaitLeft' < WaitLeft
<1>1. rpc \in RenderLabels /\ WaitLeft = StepsToSignal[rpc]
  BY DEF IInv, TypeOK, SyncType, WaitLeft
<1>2. CASE RenderSignal
  <2>1. WaitLeft' = 0
    BY <1>2 DEF RenderSignal, WaitLeft
  <2>2. WaitLeft = 1
    BY <1>1, <1>2, StepsToSignalValues DEF RenderSignal
  <2>3. QED
    BY <2>1, <2>2
<1>3. CASE ~RenderSignal
  <2>1. /\ waiting' = waiting
        /\ \/ rpc = "unlock" /\ rpc' = "take"
           \/ rpc = "take" /\ rpc' = "lock"
           \/ rpc = "lock" /\ rpc' = "check"
           \/ rpc = "check" /\ rpc' \in {"read", "signal"}
           \/ rpc = "read" /\ rpc' = "paint"
           \/ rpc = "paint" /\ rpc' = "clear"
           \/ rpc = "clear" /\ rpc' = "signal"
    BY <1>3 DEF Render, RenderTake, RenderLock, RenderCheck, RenderRead, RenderPaint,
       RenderClear, RenderUnlock
  <2>2. WaitLeft' = StepsToSignal[rpc']
    BY <2>1 DEF WaitLeft, StepsToSignal
  <2>3. QED
    BY <1>1, <2>1, <2>2, StepsToSignalValues
<1>4. QED
  BY <1>2, <1>3

LEMMA MainLeavesWait ==
    ASSUME IInv, waiting, Main
    PROVE  waiting' = FALSE \/ UNCHANGED <<waiting, rpc>>
<1>1. pc \in {"notify", "wait"} /\ ~notifM
  BY DEF IInv, WaiterInv
<1>2. CASE Callback
  BY <1>1, <1>2 DEF Callback, CbLock, CbUnlock, CbWrite, CbRequest, CbRequestNow, CbSync,
     CbSyncRejected, CbStart, CbPush, CbReplace, CbFinish, CbReturn
<1>3. CASE Manager
  <2>1. Synchronize
    BY <1>1, <1>3 DEF Manager, Boot, Loop, LoopPanelGesture, LoopGesture, LoopActivity,
       LoopHomeGesture, LoopEnd, LoopEndAlert, ExclusiveTail, PopActivity, PopLock, PopToHome,
       PopGoHome, PopRestore, HandledPending, HandledUpdate, BackdropSwapOut, BackdropSwapIn,
       LaunchActivity, LaunchBackdrop, LaunchLock, LaunchPush, LaunchReplace, OnEnter, Detach,
       EnteredMenuAction, EnteredGoHome, EnteredOverlay, EnteredNothing
  <2>2. QED
    BY <1>1, <2>1 DEF Synchronize, SyncRegister, SyncNotify, SyncReturn
<1>4. CASE Shortcut
  BY <1>1, <1>4 DEF Shortcut
<1>5. CASE ExclusiveRestart
  BY <1>5 DEF ExclusiveRestart
<1>6. QED
  BY <1>2, <1>3, <1>4, <1>5 DEF Main

(* A synchronous update waits for at most eight steps of the render task,  *)
(* none of which is held up by the main task that waits, and none is taken *)
(* back: what SyncReturns needs besides fairness.                          *)
THEOREM SynchronousWaitsAreShort == Spec => []RenderGoesOn /\ [][WaitGoesDown]_vars
<1>1. IInv => RenderGoesOn
  BY DEF IInv, TypeOK, SyncType, LockInv, WaiterInv, NoLostWakeup, RenderGoesOn
<1>2. ASSUME IInv, IInv', Next PROVE WaitGoesDown
  <2>4. WaitLeft \in 0..8 /\ WaitLeft' \in 0..8
    BY <1>2, WaitIsCounted, WaitIsCountedNext
  <2>1. CASE ~waiting
    BY <2>1 DEF WaitGoesDown
  <2>2. CASE waiting /\ Render
    <3>1. WaitLeft' < WaitLeft
      BY <1>2, <2>2, RenderComesCloser
    <3>2. QED
      BY <2>2, <3>1, <2>4 DEF WaitGoesDown
  <2>3. CASE waiting /\ Main /\ ~Render
    <3>1. waiting' = FALSE \/ UNCHANGED <<waiting, rpc>>
      BY <1>2, <2>3, MainLeavesWait
    <3>2. WaitLeft' = 0 \/ WaitLeft' = WaitLeft
      BY <3>1 DEF WaitLeft
    <3>3. QED
      BY <2>3, <3>2, <2>4 DEF WaitGoesDown
  <2>5. QED
    BY <1>2, <2>1, <2>2, <2>3 DEF Next
<1>3. QED
  BY Invariance, <1>1, <1>2, PTL DEF Spec
=============================================================================
