----------------------- MODULE BookReadingStatsProofs -----------------------
(***************************************************************************)
(* Proofs about a book's reading statistics: whatever fails and whenever   *)
(* power is lost, published statistics survive, a save leaves the old ones *)
(* or the new ones, and a reset reports what it did.                       *)
(***************************************************************************)
EXTENDS BookReadingStats, TLAPS

-----------------------------------------------------------------------------
(* The inductive invariant.                                                *)

\* Only the temporary file can be cut short.
WholeInv == \A path \in Paths \ {Tmp} : files[path] # Torn

\* What is on the card at each step of a save.
CardInv ==
    /\ pc = "write" => files[Tmp] = Torn
    /\ pc \in {"look", "backUp", "publish"} => files[Tmp] = data
    /\ pc \in {"backUp", "tidy"} => Exists(Canonical)
    /\ pc = "abandon" => Exists(Canonical) \/ files[Tmp] = Torn
    /\ pc = "backUp" => ~Exists(Bak)
    /\ pc = "publish" => ~Exists(Canonical)

\* Published statistics are in the file or in its backup, never only in the
\* temporary file, which the next save deletes.
KeptInv == kept => pc \notin ResetSteps /\ (Exists(Canonical) \/ Exists(Bak))

\* What a load would read if there were no temporary file.
Behind ==
    IF Exists(Canonical) THEN Canonical
    ELSE IF Exists(Bak) THEN Bak
    ELSE IF Exists(Previous) THEN Previous
    ELSE Legacy
BehindStats == IF Complete(Behind) THEN files[Behind] ELSE Fresh

\* A save that did not begin with the temporary file as the newest copy.
SaveInv ==
    op = "save" /\ source # Tmp =>
        /\ BehindStats \in {base, data}
        /\ \/ Exists(Canonical)
           \/ files[Tmp] \in {data, Torn, Absent}
           \/ pc = "clean" /\ files[Tmp] \notin Docs
        /\ pc \notin ResetSteps

\* The files a reset has removed so far, if no removal failed.
Removing(path, steps) == pc \in steps /\ ok => ~Exists(path)
ResetInv ==
    /\ Removing(Legacy, {"rmPrevious", "rmTmp", "rmBak", "rmCanonical"})
    /\ Removing(Previous, {"rmTmp", "rmBak", "rmCanonical"})
    /\ Removing(Tmp, {"rmBak", "rmCanonical"})
    /\ Removing(Bak, {"rmCanonical"})
    /\ pc \in ResetSteps => op = "reset"
    /\ pc \in SaveSteps => op = "save"
    /\ outcome = "reset" => pc = "idle" /\ \A path \in Paths : ~Exists(path)
    /\ outcome = "notReset" => pc = "idle"
    /\ (pc \in ResetSteps \/ outcome = "notReset") /\ source = Canonical
           => files[Canonical] = base

IInv == TypeOK /\ WholeInv /\ CardInv /\ KeptInv /\ SaveInv /\ ResetInv

-----------------------------------------------------------------------------
USE DocAssumption, FaultAssumption, PathAssumption, StatsAssumption
    DEF DocAssumption, FaultAssumption, PathAssumption, StatsAssumption,
        Exists, Fault, Unharmed, Fails, PowerFails, Untouched, Removed, Cleared,
        ClearFails, MayRemove, Movable, Renamed, RenameFails, MayRename, Opened,
        Written, locals, history, Goto, Return, RemoveOne, SaveSteps, ResetSteps

LEMMA InitIInv == Init => IInv
<1> SUFFICES ASSUME Init PROVE IInv
  OBVIOUS
<1>1. /\ files \in [Paths -> Docs \cup {Absent}]
      /\ files[Tmp] = Absent /\ files[Bak] = Absent
  BY DEF Init
<1>2. Stats \in Docs /\ Opens \in Paths
  BY DEF Stats, Opens, Complete
<1>3. TypeOK
  BY <1>1, <1>2 DEF Init, TypeOK, CardType, Contents
<1>4. WholeInv /\ KeptInv
  BY <1>1 DEF Init, WholeInv, KeptInv
<1>5. CardInv /\ SaveInv /\ ResetInv
  BY <1>1 DEF Init, CardInv, SaveInv, ResetInv, Removing
<1>6. QED
  BY <1>3, <1>4, <1>5 DEF IInv

\* Types: the card ...
LEMMA CardTypeStep == IInv /\ [Next]_vars => CardType'
<1> SUFFICES ASSUME IInv, [Next]_vars PROVE CardType'
  OBVIOUS
<1> HIDE DEF PathAssumption, StatsAssumption, DocAssumption
<1>a. CardType /\ data \in Docs
  BY DEF IInv, TypeOK
<1>b. Canonical \in Paths /\ Tmp \in Paths /\ Bak \in Paths /\ Previous \in Paths /\ Legacy \in Paths
  BY DEF PathAssumption
<1>c. Absent \in Contents /\ Torn \in Contents /\ Docs \subseteq Contents /\ Opens \in Paths
  BY <1>b DEF Contents, Opens
<1> USE <1>a, <1>b, <1>c
<1> USE DEF CardType
<1>1. CASE Load
  BY <1>1 DEF Load
<1>2. CASE SaveBegin
  BY <1>2 DEF SaveBegin
<1>3. CASE SaveClean
  BY <1>3 DEF SaveClean
<1>4. CASE SaveOpen
  BY <1>4 DEF SaveOpen
<1>5. CASE SaveWrite
  BY <1>5 DEF SaveWrite
<1>6. CASE SaveAbandon
  BY <1>6 DEF SaveAbandon
<1>7. CASE SaveLook
  BY <1>7 DEF SaveLook
<1>8. CASE SaveBackUp
  BY <1>8 DEF SaveBackUp
<1>9. CASE SavePublish
  BY <1>9 DEF SavePublish
<1>10. CASE SaveRestore
  BY <1>10 DEF SaveRestore
<1>11. CASE SaveDiscard
  BY <1>11 DEF SaveDiscard
<1>12. CASE SaveTidy
  BY <1>12 DEF SaveTidy
<1>13. CASE ResetBegin
  BY <1>13 DEF ResetBegin
<1>14. CASE ResetFallbacks
  BY <1>14 DEF ResetFallbacks
<1>15. CASE ResetCanonical
  BY <1>15 DEF ResetCanonical
<1>16. CASE PowerLoss
  BY <1>16 DEF PowerLoss
<1>17. CASE UNCHANGED vars
  BY <1>17 DEF vars
<1>18. QED
  BY <1>1, <1>2, <1>3, <1>4, <1>5, <1>6, <1>7, <1>8, <1>9, <1>10, <1>11,
       <1>12, <1>13, <1>14, <1>15, <1>16, <1>17
    DEF Next, Save

\* ... and the rest.
LEMMA TypeStep == IInv /\ [Next]_vars => TypeOK'
<1> SUFFICES ASSUME IInv, [Next]_vars PROVE TypeOK'
  OBVIOUS
<1> HIDE DEF Fails, PowerFails, Untouched, Cleared, ClearFails, MayRemove,
         Renamed, RenameFails, MayRename, Opened, Written
<1>a. TypeOK /\ Stats \in Docs /\ Opens \in Paths /\ CardType'
  BY CardTypeStep DEF IInv, Stats, Opens, Complete
<1> USE <1>a
<1> USE DEF TypeOK
<1>1. CASE Load
  BY <1>1 DEF Load
<1>2. CASE SaveBegin
  BY <1>2 DEF SaveBegin
<1>3. CASE SaveClean
  BY <1>3 DEF SaveClean
<1>4. CASE SaveOpen
  BY <1>4 DEF SaveOpen
<1>5. CASE SaveWrite
  BY <1>5 DEF SaveWrite
<1>6. CASE SaveAbandon
  BY <1>6 DEF SaveAbandon
<1>7. CASE SaveLook
  BY <1>7 DEF SaveLook
<1>8. CASE SaveBackUp
  BY <1>8 DEF SaveBackUp
<1>9. CASE SavePublish
  BY <1>9 DEF SavePublish
<1>10. CASE SaveRestore
  BY <1>10 DEF SaveRestore
<1>11. CASE SaveDiscard
  BY <1>11 DEF SaveDiscard
<1>12. CASE SaveTidy
  BY <1>12 DEF SaveTidy
<1>13. CASE ResetBegin
  BY <1>13 DEF ResetBegin
<1>14. CASE ResetFallbacks
  <2>1. ok' \in BOOLEAN
    BY <1>14, ok \in BOOLEAN DEF ResetFallbacks
  <2>2. pc' \in ResetSteps /\ UNCHANGED <<opened, data, hadOriginal, history>>
    BY <1>14 DEF ResetFallbacks
  <2>3. QED
    BY <2>1, <2>2
<1>15. CASE ResetCanonical
  BY <1>15 DEF ResetCanonical
<1>16. CASE PowerLoss
  BY <1>16 DEF PowerLoss
<1>17. CASE UNCHANGED vars
  BY <1>17 DEF vars
<1>18. QED
  BY <1>1, <1>2, <1>3, <1>4, <1>5, <1>6, <1>7, <1>8, <1>9, <1>10, <1>11,
       <1>12, <1>13, <1>14, <1>15, <1>16, <1>17
    DEF Next, Save

\* What is renamed is whole.
LEMMA WholeStep == IInv /\ [Next]_vars => WholeInv'
<1> SUFFICES ASSUME IInv, [Next]_vars PROVE WholeInv'
  OBVIOUS
<1> USE DEF IInv, TypeOK, CardType, Contents, WholeInv, CardInv, Opens,
       Candidates, Complete
<1>1. CASE Load
  BY <1>1 DEF Load
<1>2. CASE SaveBegin
  BY <1>2 DEF SaveBegin
<1>3. CASE SaveClean
  BY <1>3 DEF SaveClean
<1>4. CASE SaveOpen
  BY <1>4 DEF SaveOpen
<1>5. CASE SaveWrite
  BY <1>5 DEF SaveWrite
<1>6. CASE SaveAbandon
  BY <1>6 DEF SaveAbandon
<1>7. CASE SaveLook
  BY <1>7 DEF SaveLook
<1>8. CASE SaveBackUp
  BY <1>8 DEF SaveBackUp
<1>9. CASE SavePublish
  BY <1>9 DEF SavePublish
<1>10. CASE SaveRestore
  BY <1>10 DEF SaveRestore
<1>11. CASE SaveDiscard
  BY <1>11 DEF SaveDiscard
<1>12. CASE SaveTidy
  BY <1>12 DEF SaveTidy
<1>13. CASE ResetBegin
  BY <1>13 DEF ResetBegin
<1>14. CASE ResetFallbacks
  BY <1>14 DEF ResetFallbacks
<1>15. CASE ResetCanonical
  BY <1>15 DEF ResetCanonical
<1>16. CASE PowerLoss
  BY <1>16 DEF PowerLoss
<1>17. CASE UNCHANGED vars
  BY <1>17 DEF vars
<1>18. QED
  BY <1>1, <1>2, <1>3, <1>4, <1>5, <1>6, <1>7, <1>8, <1>9, <1>10, <1>11,
       <1>12, <1>13, <1>14, <1>15, <1>16, <1>17
    DEF Next, Save

\* The steps of a save.
LEMMA CardStep == IInv /\ [Next]_vars => CardInv'
<1> SUFFICES ASSUME IInv, [Next]_vars PROVE CardInv'
  OBVIOUS
<1> USE DEF IInv, TypeOK, CardType, Contents, WholeInv, CardInv
<1>1. CASE Load
  BY <1>1 DEF Load
<1>2. CASE SaveBegin
  BY <1>2 DEF SaveBegin
<1>3. CASE SaveClean
  BY <1>3 DEF SaveClean
<1>4. CASE SaveOpen
  BY <1>4 DEF SaveOpen
<1>5. CASE SaveWrite
  BY <1>5 DEF SaveWrite
<1>6. CASE SaveAbandon
  BY <1>6 DEF SaveAbandon
<1>7. CASE SaveLook
  BY <1>7 DEF SaveLook
<1>8. CASE SaveBackUp
  BY <1>8 DEF SaveBackUp
<1>9. CASE SavePublish
  BY <1>9 DEF SavePublish
<1>10. CASE SaveRestore
  BY <1>10 DEF SaveRestore
<1>11. CASE SaveDiscard
  BY <1>11 DEF SaveDiscard
<1>12. CASE SaveTidy
  BY <1>12 DEF SaveTidy
<1>13. CASE ResetBegin
  BY <1>13 DEF ResetBegin
<1>14. CASE ResetFallbacks
  BY <1>14 DEF ResetFallbacks
<1>15. CASE ResetCanonical
  BY <1>15 DEF ResetCanonical
<1>16. CASE PowerLoss
  BY <1>16 DEF PowerLoss
<1>17. CASE UNCHANGED vars
  BY <1>17 DEF vars
<1>18. QED
  BY <1>1, <1>2, <1>3, <1>4, <1>5, <1>6, <1>7, <1>8, <1>9, <1>10, <1>11,
       <1>12, <1>13, <1>14, <1>15, <1>16, <1>17
    DEF Next, Save

\* What was published.
LEMMA KeptStep == IInv /\ [Next]_vars => KeptInv'
<1> SUFFICES ASSUME IInv, [Next]_vars PROVE KeptInv'
  OBVIOUS
<1> USE DEF IInv, TypeOK, CardType, Contents, WholeInv, CardInv,
       KeptInv, Opens, Candidates, Complete
<1>1. CASE Load
  BY <1>1 DEF Load
<1>2. CASE SaveBegin
  BY <1>2 DEF SaveBegin
<1>3. CASE SaveClean
  BY <1>3 DEF SaveClean
<1>4. CASE SaveOpen
  BY <1>4 DEF SaveOpen
<1>5. CASE SaveWrite
  BY <1>5 DEF SaveWrite
<1>6. CASE SaveAbandon
  BY <1>6 DEF SaveAbandon
<1>7. CASE SaveLook
  BY <1>7 DEF SaveLook
<1>8. CASE SaveBackUp
  BY <1>8 DEF SaveBackUp
<1>9. CASE SavePublish
  BY <1>9 DEF SavePublish
<1>10. CASE SaveRestore
  BY <1>10 DEF SaveRestore
<1>11. CASE SaveDiscard
  BY <1>11 DEF SaveDiscard
<1>12. CASE SaveTidy
  BY <1>12 DEF SaveTidy
<1>13. CASE ResetBegin
  BY <1>13 DEF ResetBegin
<1>14. CASE ResetFallbacks
  BY <1>14 DEF ResetFallbacks
<1>15. CASE ResetCanonical
  BY <1>15 DEF ResetCanonical
<1>16. CASE PowerLoss
  BY <1>16 DEF PowerLoss
<1>17. CASE UNCHANGED vars
  BY <1>17 DEF vars
<1>18. QED
  BY <1>1, <1>2, <1>3, <1>4, <1>5, <1>6, <1>7, <1>8, <1>9, <1>10, <1>11,
       <1>12, <1>13, <1>14, <1>15, <1>16, <1>17
    DEF Next, Save

\* The save.
LEMMA SaveStep == IInv /\ [Next]_vars => SaveInv'
<1> SUFFICES ASSUME IInv, [Next]_vars PROVE SaveInv'
  OBVIOUS
<1> USE DEF IInv, TypeOK, CardType, Contents, WholeInv, CardInv,
       SaveInv, ResetInv
<1>1. CASE Load
  BY <1>1 DEF Load, Behind, BehindStats, Complete, Opens, Candidates
<1>2. CASE SaveBegin
  <2>1. Opens # Tmp => BehindStats = Stats /\ (Exists(Canonical) \/ files[Tmp] \notin Docs)
    BY DEF Opens, Candidates, Complete, Behind, BehindStats, Stats
  <2>2. /\ BehindStats' = BehindStats
        /\ files' = files /\ base' = Stats /\ source' = Opens /\ pc' = "clean"
    BY <1>2 DEF SaveBegin, Behind, BehindStats, Complete
  <2>3. QED
    BY <2>1, <2>2
<1>3. CASE SaveClean
  BY <1>3 DEF SaveClean, Behind, BehindStats, Complete
<1>4. CASE SaveOpen
  BY <1>4 DEF SaveOpen, Behind, BehindStats, Complete
<1>5. CASE SaveWrite
  <2>1. /\ BehindStats' = BehindStats
        /\ UNCHANGED <<data, base, op, source>> /\ pc' \in {"look", "abandon"}
    BY <1>5 DEF SaveWrite, Behind, BehindStats, Complete
  <2>2. files'[Tmp] \in {data, Torn}
    BY <1>5 DEF SaveWrite
  <2>3. QED
    BY <2>1, <2>2
<1>6. CASE SaveAbandon
  BY <1>6 DEF SaveAbandon, Behind, BehindStats, Complete
<1>7. CASE SaveLook
  BY <1>7 DEF SaveLook, Behind, BehindStats, Complete
<1>8. CASE SaveBackUp
  BY <1>8 DEF SaveBackUp, Behind, BehindStats, Complete
<1>9. CASE SavePublish
  BY <1>9 DEF SavePublish, Behind, BehindStats, Complete
<1>10. CASE SaveRestore
  BY <1>10 DEF SaveRestore, Behind, BehindStats, Complete
<1>11. CASE SaveDiscard
  BY <1>11 DEF SaveDiscard, Behind, BehindStats, Complete
<1>12. CASE SaveTidy
  BY <1>12 DEF SaveTidy, Behind, BehindStats, Complete
<1>13. CASE ResetBegin
  BY <1>13 DEF ResetBegin, Behind, BehindStats, Complete
<1>14. CASE ResetFallbacks
  BY <1>14 DEF ResetFallbacks, Behind, BehindStats, Complete
<1>15. CASE ResetCanonical
  BY <1>15 DEF ResetCanonical, Behind, BehindStats, Complete
<1>16. CASE PowerLoss
  BY <1>16 DEF PowerLoss, Behind, BehindStats, Complete
<1>17. CASE UNCHANGED vars
  BY <1>17 DEF vars, Behind, BehindStats, Complete
<1>18. QED
  BY <1>1, <1>2, <1>3, <1>4, <1>5, <1>6, <1>7, <1>8, <1>9, <1>10, <1>11,
       <1>12, <1>13, <1>14, <1>15, <1>16, <1>17
    DEF Next, Save

\* The reset.
LEMMA ResetStep == IInv /\ [Next]_vars => ResetInv'
<1> SUFFICES ASSUME IInv, [Next]_vars PROVE ResetInv'
  OBVIOUS
<1> USE DEF IInv, TypeOK, CardType, Contents, WholeInv, CardInv,
       ResetInv, Removing, Opens, Candidates, Complete
<1>1. CASE Load
  BY <1>1 DEF Load
<1>2. CASE SaveBegin
  BY <1>2 DEF SaveBegin
<1>3. CASE SaveClean
  BY <1>3 DEF SaveClean
<1>4. CASE SaveOpen
  BY <1>4 DEF SaveOpen
<1>5. CASE SaveWrite
  BY <1>5 DEF SaveWrite
<1>6. CASE SaveAbandon
  BY <1>6 DEF SaveAbandon
<1>7. CASE SaveLook
  BY <1>7 DEF SaveLook
<1>8. CASE SaveBackUp
  BY <1>8 DEF SaveBackUp
<1>9. CASE SavePublish
  BY <1>9 DEF SavePublish
<1>10. CASE SaveRestore
  BY <1>10 DEF SaveRestore
<1>11. CASE SaveDiscard
  BY <1>11 DEF SaveDiscard
<1>12. CASE SaveTidy
  BY <1>12 DEF SaveTidy
<1>13. CASE ResetBegin
  BY <1>13 DEF ResetBegin, Stats
<1>14. CASE ResetFallbacks
  BY <1>14 DEF ResetFallbacks
<1>15. CASE ResetCanonical
  BY <1>15 DEF ResetCanonical
<1>16. CASE PowerLoss
  BY <1>16 DEF PowerLoss
<1>17. CASE UNCHANGED vars
  BY <1>17 DEF vars
<1>18. QED
  BY <1>1, <1>2, <1>3, <1>4, <1>5, <1>6, <1>7, <1>8, <1>9, <1>10, <1>11,
       <1>12, <1>13, <1>14, <1>15, <1>16, <1>17
    DEF Next, Save

LEMMA StepIInv == IInv /\ [Next]_vars => IInv'
BY TypeStep, WholeStep, CardStep, KeptStep, SaveStep, ResetStep DEF IInv

-----------------------------------------------------------------------------
(* Theorems.                                                               *)

\* The inductive invariant holds for every set of statistics and every number
\* of faults, whether or not the card's operations fail.
THEOREM Invariance == Spec => []IInv
<1>1. QED
  BY InitIInv, StepIInv, PTL DEF Spec

\* Every variable keeps its type.
THEOREM TypeCorrect == Spec => []TypeOK
<1>1. IInv => TypeOK
  BY DEF IInv
<1>2. QED
  BY Invariance, <1>1, PTL

\* Published statistics are never lost to a failure or a loss of power.
THEOREM StatisticsSurvive == Spec => []StatsSurvive
<1>1. IInv => StatsSurvive
  <2> SUFFICES ASSUME IInv, kept PROVE Opens \in {Canonical, Tmp, Bak} /\ Complete(Opens)
    BY DEF StatsSurvive
  <2>1. files[Canonical] \in Docs \cup {Absent} /\ files[Bak] \in Docs \cup {Absent}
    BY DEF IInv, TypeOK, CardType, Contents, WholeInv
  <2>2. Exists(Canonical) \/ Exists(Bak)
    BY DEF IInv, KeptInv
  <2>3. QED
    BY <2>1, <2>2 DEF Opens, Candidates, Complete
<1>2. QED
  BY Invariance, <1>1, PTL

\* A save leaves the statistics from before it or the ones it was given.
THEOREM SavesAreRecoverable == Spec => []RecoverableSave
<1>1. IInv => RecoverableSave
  <2> SUFFICES ASSUME IInv, op = "save", source # Tmp PROVE Stats \in {base, data}
    BY DEF RecoverableSave
  <2>1. data \in Docs /\ SaveInv
    BY DEF IInv, TypeOK
  <2>2. CASE Opens = Tmp
    BY <2>1, <2>2 DEF SaveInv, Opens, Candidates, Complete, Stats
  <2>3. CASE Opens # Tmp
    BY <2>1, <2>3 DEF SaveInv, Opens, Candidates, Complete, Stats, Behind, BehindStats
  <2>4. QED
    BY <2>2, <2>3
<1>2. QED
  BY Invariance, <1>1, PTL

\* What remove() reports is what a load then reads; one that power cuts off reports nothing.
THEOREM ResetsAreReported == Spec => []ResetOutcome
<1>1. IInv => ResetOutcome
  <2> SUFFICES ASSUME IInv PROVE ResetOutcome
    OBVIOUS
  <2>1. ResetInv /\ base \in Docs
    BY DEF IInv, TypeOK
  <2>2. Opens \in Paths
    BY DEF Opens
  <2>3. outcome = "reset" => Stats = Fresh
    BY <2>1, <2>2 DEF ResetInv, Stats, Complete
  <2>4. outcome = "notReset" /\ source = Canonical => Stats = base
    BY <2>1 DEF ResetInv, Stats, Complete, Opens, Candidates
  <2>5. QED
    BY <2>3, <2>4 DEF ResetOutcome
<1>2. QED
  BY Invariance, <1>1, PTL
=============================================================================
