---------------------- MODULE GlobalReadingStatsProofs ----------------------
(***************************************************************************)
(* Proofs about the reading statistics of all books: saves report the      *)
(* truth and leave the old statistics or the new ones, and those of a      *)
(* newer firmware are never written over.                                  *)
(***************************************************************************)
EXTENDS GlobalReadingStats, TLAPS

-----------------------------------------------------------------------------
(* The inductive invariant.                                                *)

\* What is on the card at each step of a write.
CardInv ==
    /\ pc \in {"dropBackup", "rotate", "dropMain", "publish"} => files[Tmp] = data
    /\ pc \in {"dropBackup", "rotate"} => rotates
    /\ pc = "dropMain" => ~rotates
    /\ pc = "rotate" => ~Exists(Bak)
    /\ pc = "publish" => ~Exists(Main)

\* A save over a whole main file keeps it until its replacement is complete.
SaveInv ==
    rotates /\ present =>
        /\ Stats \in {base, data}
        /\ pc \in WriteSteps \/ outcome = "failed" => Stats = base
        /\ pc \in {"clean", "open", "write", "dropBackup", "rotate"} =>
               files[Main] = base
        /\ pc \in {"publish", "restore"} => files[Main] \notin Docs

\* What a write reports when it has ended.
OutcomeInv ==
    /\ pc \in WriteSteps => outcome = "none"
    /\ outcome = "ok" => files[Main] = data

\* While a newer format is read no save is under way, nor can one begin.
NewerInv ==
    ~wasReset =>
        /\ pc \in WriteSteps => rotates /\ Stats # Newer
        /\ opened /\ Stats = Newer => blocked

IInv == TypeOK /\ CardInv /\ SaveInv /\ OutcomeInv /\ NewerInv

-----------------------------------------------------------------------------
USE DocAssumption, FaultAssumption, PathAssumption, StatsAssumption
    DEF DocAssumption, FaultAssumption, PathAssumption, StatsAssumption,
        Exists, Fault, Unharmed, Fails, PowerFails, Untouched, Removed, Cleared,
        ClearFails, MayRemove, Movable, Renamed, RenameFails, MayRename, Opened,
        Written, history, Goto, Return, Begin, Readable, WriteSteps

LEMMA InitIInv == Init => IInv
<1> SUFFICES ASSUME Init PROVE IInv
  OBVIOUS
<1>1. Stats \in Docs
  BY DEF Stats
<1>2. TypeOK
  BY <1>1 DEF Init, TypeOK, CardType
<1>3. CardInv /\ SaveInv /\ OutcomeInv /\ NewerInv
  BY DEF Init, CardInv, SaveInv, OutcomeInv, NewerInv
<1>4. QED
  BY <1>2, <1>3 DEF IInv

\* Types: the card ...
LEMMA CardTypeStep == IInv /\ [Next]_vars => CardType'
<1> SUFFICES ASSUME IInv, [Next]_vars PROVE CardType'
  OBVIOUS
<1> HIDE DEF PathAssumption, StatsAssumption, DocAssumption
<1>a. CardType /\ data \in Docs
  BY DEF IInv, TypeOK
<1>b. Main \in Paths /\ Tmp \in Paths /\ Bak \in Paths
  BY DEF PathAssumption
<1>c. Absent \in Contents /\ Torn \in Contents /\ Docs \subseteq Contents
  BY DEF Contents
<1> USE <1>a, <1>b, <1>c
<1> USE DEF CardType
<1>1. CASE Load
  BY <1>1 DEF Load
<1>2. CASE Save
  BY <1>2 DEF Save
<1>3. CASE ResetLocal
  BY <1>3 DEF ResetLocal
<1>4. CASE WriteClean
  BY <1>4 DEF WriteClean
<1>5. CASE WriteOpen
  BY <1>5 DEF WriteOpen
<1>6. CASE WriteData
  BY <1>6 DEF WriteData
<1>7. CASE WriteDropBackup
  BY <1>7 DEF WriteDropBackup
<1>8. CASE WriteRotate
  BY <1>8 DEF WriteRotate
<1>9. CASE WriteDropMain
  BY <1>9 DEF WriteDropMain
<1>10. CASE WritePublish
  BY <1>10 DEF WritePublish
<1>11. CASE WriteRestore
  BY <1>11 DEF WriteRestore
<1>12. CASE WriteDiscard
  BY <1>12 DEF WriteDiscard
<1>13. CASE PowerLoss
  BY <1>13 DEF PowerLoss
<1>14. CASE UNCHANGED vars
  BY <1>14 DEF vars
<1>15. QED
  BY <1>1, <1>2, <1>3, <1>4, <1>5, <1>6, <1>7, <1>8, <1>9, <1>10, <1>11,
       <1>12, <1>13, <1>14
    DEF Next, Write

\* ... and the rest.
LEMMA TypeStep == IInv /\ [Next]_vars => TypeOK'
<1> SUFFICES ASSUME IInv, [Next]_vars PROVE TypeOK'
  OBVIOUS
<1>a. TypeOK /\ Stats \in Docs /\ CardType'
  BY CardTypeStep DEF IInv, Stats
<1> USE <1>a
<1> USE DEF TypeOK
<1>1. CASE Load
  BY <1>1 DEF Load
<1>2. CASE Save
  BY <1>2 DEF Save
<1>3. CASE ResetLocal
  <2>1. rotates' = FALSE /\ wasReset' = TRUE
    BY <1>3 DEF ResetLocal
  <2>2. present' \in BOOLEAN
    BY <1>3 DEF ResetLocal
  <2>3. /\ data' = Fresh /\ base' = Stats /\ pc' = "clean" /\ outcome' = "none"
        /\ UNCHANGED <<opened, blocked>>
    BY <1>3 DEF ResetLocal
  <2>4. QED
    BY <2>1, <2>2, <2>3
<1>4. CASE WriteClean
  BY <1>4 DEF WriteClean
<1>5. CASE WriteOpen
  BY <1>5 DEF WriteOpen
<1>6. CASE WriteData
  BY <1>6 DEF WriteData
<1>7. CASE WriteDropBackup
  BY <1>7 DEF WriteDropBackup
<1>8. CASE WriteRotate
  BY <1>8 DEF WriteRotate
<1>9. CASE WriteDropMain
  BY <1>9 DEF WriteDropMain
<1>10. CASE WritePublish
  BY <1>10 DEF WritePublish
<1>11. CASE WriteRestore
  BY <1>11 DEF WriteRestore
<1>12. CASE WriteDiscard
  BY <1>12 DEF WriteDiscard
<1>13. CASE PowerLoss
  BY <1>13 DEF PowerLoss
<1>14. CASE UNCHANGED vars
  BY <1>14 DEF vars
<1>15. QED
  BY <1>1, <1>2, <1>3, <1>4, <1>5, <1>6, <1>7, <1>8, <1>9, <1>10, <1>11,
       <1>12, <1>13, <1>14
    DEF Next, Write

\* The steps of a write.
LEMMA CardStep == IInv /\ [Next]_vars => CardInv'
<1> SUFFICES ASSUME IInv, [Next]_vars PROVE CardInv'
  OBVIOUS
<1> USE DEF IInv, TypeOK, CardType, Contents, CardInv
<1>1. CASE Load
  BY <1>1 DEF Load
<1>2. CASE Save
  BY <1>2 DEF Save
<1>3. CASE ResetLocal
  BY <1>3 DEF ResetLocal
<1>4. CASE WriteClean
  BY <1>4 DEF WriteClean
<1>5. CASE WriteOpen
  BY <1>5 DEF WriteOpen
<1>6. CASE WriteData
  BY <1>6 DEF WriteData
<1>7. CASE WriteDropBackup
  BY <1>7 DEF WriteDropBackup
<1>8. CASE WriteRotate
  BY <1>8 DEF WriteRotate
<1>9. CASE WriteDropMain
  BY <1>9 DEF WriteDropMain
<1>10. CASE WritePublish
  BY <1>10 DEF WritePublish
<1>11. CASE WriteRestore
  BY <1>11 DEF WriteRestore
<1>12. CASE WriteDiscard
  BY <1>12 DEF WriteDiscard
<1>13. CASE PowerLoss
  BY <1>13 DEF PowerLoss
<1>14. CASE UNCHANGED vars
  BY <1>14 DEF vars
<1>15. QED
  BY <1>1, <1>2, <1>3, <1>4, <1>5, <1>6, <1>7, <1>8, <1>9, <1>10, <1>11,
       <1>12, <1>13, <1>14
    DEF Next, Write

\* A save over a whole file.
LEMMA SaveStep == IInv /\ [Next]_vars => SaveInv'
<1> SUFFICES ASSUME IInv, [Next]_vars PROVE SaveInv'
  OBVIOUS
<1> USE DEF IInv, TypeOK, CardType, Contents, CardInv, SaveInv,
       OutcomeInv, Stats
<1>1. CASE Load
  BY <1>1 DEF Load
<1>2. CASE Save
  BY <1>2 DEF Save
<1>3. CASE ResetLocal
  BY <1>3 DEF ResetLocal
<1>4. CASE WriteClean
  BY <1>4 DEF WriteClean
<1>5. CASE WriteOpen
  BY <1>5 DEF WriteOpen
<1>6. CASE WriteData
  BY <1>6 DEF WriteData
<1>7. CASE WriteDropBackup
  BY <1>7 DEF WriteDropBackup
<1>8. CASE WriteRotate
  BY <1>8 DEF WriteRotate
<1>9. CASE WriteDropMain
  BY <1>9 DEF WriteDropMain
<1>10. CASE WritePublish
  BY <1>10 DEF WritePublish
<1>11. CASE WriteRestore
  BY <1>11 DEF WriteRestore
<1>12. CASE WriteDiscard
  BY <1>12 DEF WriteDiscard
<1>13. CASE PowerLoss
  BY <1>13 DEF PowerLoss
<1>14. CASE UNCHANGED vars
  BY <1>14 DEF vars
<1>15. QED
  BY <1>1, <1>2, <1>3, <1>4, <1>5, <1>6, <1>7, <1>8, <1>9, <1>10, <1>11,
       <1>12, <1>13, <1>14
    DEF Next, Write

\* The reports.
LEMMA OutcomeStep == IInv /\ [Next]_vars => OutcomeInv'
<1> SUFFICES ASSUME IInv, [Next]_vars PROVE OutcomeInv'
  OBVIOUS
<1> USE DEF IInv, TypeOK, CardType, Contents, CardInv, OutcomeInv
<1>1. CASE Load
  BY <1>1 DEF Load
<1>2. CASE Save
  BY <1>2 DEF Save
<1>3. CASE ResetLocal
  BY <1>3 DEF ResetLocal
<1>4. CASE WriteClean
  BY <1>4 DEF WriteClean
<1>5. CASE WriteOpen
  BY <1>5 DEF WriteOpen
<1>6. CASE WriteData
  BY <1>6 DEF WriteData
<1>7. CASE WriteDropBackup
  BY <1>7 DEF WriteDropBackup
<1>8. CASE WriteRotate
  BY <1>8 DEF WriteRotate
<1>9. CASE WriteDropMain
  BY <1>9 DEF WriteDropMain
<1>10. CASE WritePublish
  BY <1>10 DEF WritePublish
<1>11. CASE WriteRestore
  BY <1>11 DEF WriteRestore
<1>12. CASE WriteDiscard
  BY <1>12 DEF WriteDiscard
<1>13. CASE PowerLoss
  BY <1>13 DEF PowerLoss
<1>14. CASE UNCHANGED vars
  BY <1>14 DEF vars
<1>15. QED
  BY <1>1, <1>2, <1>3, <1>4, <1>5, <1>6, <1>7, <1>8, <1>9, <1>10, <1>11,
       <1>12, <1>13, <1>14
    DEF Next, Write

\* Statistics of a newer firmware.
LEMMA NewerStep == IInv /\ [Next]_vars => NewerInv'
<1> SUFFICES ASSUME IInv, [Next]_vars PROVE NewerInv'
  OBVIOUS
<1> USE DEF IInv, TypeOK, CardType, Contents, CardInv, NewerInv, Stats
<1>1. CASE Load
  BY <1>1 DEF Load
<1>2. CASE Save
  BY <1>2 DEF Save
<1>3. CASE ResetLocal
  BY <1>3 DEF ResetLocal
<1>4. CASE WriteClean
  BY <1>4 DEF WriteClean
<1>5. CASE WriteOpen
  BY <1>5 DEF WriteOpen
<1>6. CASE WriteData
  BY <1>6 DEF WriteData
<1>7. CASE WriteDropBackup
  BY <1>7 DEF WriteDropBackup
<1>8. CASE WriteRotate
  BY <1>8 DEF WriteRotate
<1>9. CASE WriteDropMain
  BY <1>9 DEF WriteDropMain
<1>10. CASE WritePublish
  BY <1>10 DEF WritePublish
<1>11. CASE WriteRestore
  BY <1>11 DEF WriteRestore
<1>12. CASE WriteDiscard
  BY <1>12 DEF WriteDiscard
<1>13. CASE PowerLoss
  BY <1>13 DEF PowerLoss
<1>14. CASE UNCHANGED vars
  BY <1>14 DEF vars
<1>15. QED
  BY <1>1, <1>2, <1>3, <1>4, <1>5, <1>6, <1>7, <1>8, <1>9, <1>10, <1>11,
       <1>12, <1>13, <1>14
    DEF Next, Write

LEMMA StepIInv == IInv /\ [Next]_vars => IInv'
BY TypeStep, CardStep, SaveStep, OutcomeStep, NewerStep DEF IInv

-----------------------------------------------------------------------------
(* Theorems.                                                               *)

\* The inductive invariant holds for every set of statistics and every number
\* of faults, from files in any state.
THEOREM Invariance == Spec => []IInv
<1>1. QED
  BY InitIInv, StepIInv, PTL DEF Spec

\* Every variable keeps its type.
THEOREM TypeCorrect == Spec => []TypeOK
<1>1. IInv => TypeOK
  BY DEF IInv
<1>2. QED
  BY Invariance, <1>1, PTL

\* What a write reports is what a load then reads.
THEOREM WritesReportTheTruth == Spec => []ReportsTruth
<1>1. IInv => ReportsTruth
  BY DEF IInv, TypeOK, SaveInv, OutcomeInv, ReportsTruth, Stats
<1>2. QED
  BY Invariance, <1>1, PTL

\* A save over a whole file leaves the old statistics or the new ones.
THEOREM SavesAreRecoverable == Spec => []RecoverableSave
<1>1. IInv => RecoverableSave
  BY DEF IInv, TypeOK, SaveInv, OutcomeInv, RecoverableSave, Stats
<1>2. QED
  BY Invariance, <1>1, PTL

\* Until a reset, nothing touches what a newer firmware left.
THEOREM NewerStatisticsAreKept == Spec => NewerIsKept
<1>1. IInv /\ [Next]_vars => [~wasReset /\ Stats = Newer => Stats' = Newer]_vars
  <2> SUFFICES ASSUME IInv, [Next]_vars, ~wasReset, Stats = Newer
               PROVE  Stats' = Newer
    OBVIOUS
  <2>1. pc = "idle"
    BY DEF IInv, TypeOK, NewerInv
  <2>2. files' = files
    BY <2>1 DEF Next, Load, Save, ResetLocal, Write, WriteClean, WriteOpen, WriteData,
         WriteDropBackup, WriteRotate, WriteDropMain, WritePublish,
         WriteRestore, WriteDiscard, PowerLoss, vars
  <2>3. QED
    BY <2>2 DEF Stats
<1>2. QED
  BY Invariance, <1>1, PTL DEF Spec, NewerIsKept
=============================================================================
