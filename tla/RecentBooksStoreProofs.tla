----------------------- MODULE RecentBooksStoreProofs -----------------------
(***************************************************************************)
(* Proofs about the recent-books store: for every set of lists, number of  *)
(* faults and kind of card it implements a durable document, and the list  *)
(* in memory is the one on the card between operations.                    *)
(***************************************************************************)
EXTENDS RecentBooksStore, TLAPS

-----------------------------------------------------------------------------
(* The inductive invariant.                                                *)

\* recent.json and its backup are only ever renamed from whole files.
WholeInv == files[Path] # Torn /\ files[Bak] # Torn

\* What is on the card at each step of a save.
CardInv ==
    /\ pc \in {"look", "backUp", "publish"} => files[Tmp] = json
    /\ pc \in {"backUp", "tidy"} => Exists(Path)
    /\ pc = "backUp" => ~Exists(Bak)
    /\ pc = "publish" => ~Exists(Path)
    /\ pc \in SaveSteps => List = IF pc = "tidy" THEN json ELSE base

\* What the task remembers: the list in memory, against the card's.
MemoryInv ==
    /\ ~loaded => pc = "idle"
    /\ ~loaded \/ pc \in {"load", "legacy"} =>
           books = EmptyList /\ outcome = "none"
    /\ pc = "legacy" => List = EmptyList
    /\ pc \in {"idle", "retire", "edit"} /\ loaded /\ outcome # "failed" =>
           books = List
    /\ pc \in SaveSteps => books = json
    /\ migrating => pc \in SaveSteps \cup {"retire"}

\* What updatePath() needs to undo its change.
MoveInv ==
    /\ pc \in SaveSteps /\ ~migrating /\ agreed => original = base
    /\ MoveKeepsAgreement

IInv == TypeOK /\ WholeInv /\ CardInv /\ MemoryInv /\ MoveInv

-----------------------------------------------------------------------------
USE DocAssumption, FaultAssumption, PathAssumption, ListAssumption
    DEF DocAssumption, FaultAssumption, PathAssumption, ListAssumption,
        Exists, Fault, Unharmed, Fails, PowerFails, Untouched, Removed, Cleared,
        ClearFails, MayRemove, Movable, Renamed, RenameFails, MayRename, Opened,
        Written, store, writer, SnapshotOf, Goto, Return

LEMMA InitIInv == Init => IInv
<1> SUFFICES ASSUME Init PROVE IInv
  OBVIOUS
<1>1. /\ files \in [Paths -> Contents]
      /\ files[Path] \in Docs \cup {Absent} /\ files[Bak] = Absent
  BY DEF Init, Contents
<1>2. List \in Docs
  BY DEF List, Source
<1>3. TypeOK
  BY <1>1, <1>2 DEF Init, TypeOK, CardType, SaveSteps
<1>4. QED
  BY <1>1, <1>3 DEF Init, IInv, WholeInv, CardInv, MemoryInv, MoveInv, MoveKeepsAgreement,
        SaveSteps

\* Types: the card ...
LEMMA CardTypeStep == IInv /\ [Next]_vars => CardType'
<1> SUFFICES ASSUME IInv, [Next]_vars PROVE CardType'
  OBVIOUS
<1> HIDE DEF PathAssumption, ListAssumption, DocAssumption
<1>a. CardType /\ json \in Docs
  BY DEF IInv, TypeOK
<1>b. Path \in Paths /\ Tmp \in Paths /\ Bak \in Paths /\ Bin \in Paths /\ BinBak \in Paths
  BY DEF PathAssumption
<1>c. Absent \in Contents /\ Torn \in Contents /\ Docs \subseteq Contents
  BY DEF Contents
<1> USE <1>a, <1>b, <1>c
<1> USE DEF CardType
<1>1. CASE Start
  BY <1>1 DEF Start
<1>2. CASE Load
  BY <1>2 DEF Load
<1>3. CASE LoadLegacy
  BY <1>3 DEF LoadLegacy
<1>4. CASE Retire
  BY <1>4 DEF Retire
<1>5. CASE Edit
  BY <1>5 DEF Edit
<1>6. CASE EditNothing
  BY <1>6 DEF EditNothing
<1>7. CASE SaveClean
  BY <1>7 DEF SaveClean
<1>8. CASE SaveOpen
  BY <1>8 DEF SaveOpen
<1>9. CASE SaveWrite
  BY <1>9 DEF SaveWrite
<1>10. CASE SaveLook
  BY <1>10 DEF SaveLook
<1>11. CASE SaveBackUp
  BY <1>11 DEF SaveBackUp
<1>12. CASE SavePublish
  BY <1>12 DEF SavePublish
<1>13. CASE SaveRestore
  BY <1>13 DEF SaveRestore
<1>14. CASE SaveDiscard
  BY <1>14 DEF SaveDiscard
<1>15. CASE SaveTidy
  BY <1>15 DEF SaveTidy
<1>16. CASE PowerLoss
  BY <1>16 DEF PowerLoss
<1>17. CASE UNCHANGED vars
  BY <1>17 DEF vars
<1>18. QED
  BY <1>1, <1>2, <1>3, <1>4, <1>5, <1>6, <1>7, <1>8, <1>9, <1>10, <1>11,
       <1>12, <1>13, <1>14, <1>15, <1>16, <1>17
    DEF Next, Operation, Save

\* ... and the rest.
LEMMA TypeStep == IInv /\ [Next]_vars => TypeOK'
<1> SUFFICES ASSUME IInv, [Next]_vars PROVE TypeOK'
  OBVIOUS
<1>a. TypeOK /\ List \in Docs /\ CardType' /\ (Source \in Docs \/ Source \notin Docs)
  BY CardTypeStep DEF IInv, List, Source
<1>b. files[Bin] \in Docs \/ files[Bin] \notin Docs
  OBVIOUS
<1> USE <1>a, <1>b
<1> USE DEF TypeOK, SaveSteps
<1>1. CASE Start
  BY <1>1 DEF Start
<1>2. CASE Load
  BY <1>2 DEF Load
<1>3. CASE LoadLegacy
  BY <1>3 DEF LoadLegacy
<1>4. CASE Retire
  BY <1>4 DEF Retire
<1>5. CASE Edit
  BY <1>5 DEF Edit
<1>6. CASE EditNothing
  BY <1>6 DEF EditNothing
<1>7. CASE SaveClean
  BY <1>7 DEF SaveClean
<1>8. CASE SaveOpen
  BY <1>8 DEF SaveOpen
<1>9. CASE SaveWrite
  BY <1>9 DEF SaveWrite
<1>10. CASE SaveLook
  BY <1>10 DEF SaveLook
<1>11. CASE SaveBackUp
  BY <1>11 DEF SaveBackUp
<1>12. CASE SavePublish
  BY <1>12 DEF SavePublish
<1>13. CASE SaveRestore
  BY <1>13 DEF SaveRestore
<1>14. CASE SaveDiscard
  BY <1>14 DEF SaveDiscard
<1>15. CASE SaveTidy
  BY <1>15 DEF SaveTidy
<1>16. CASE PowerLoss
  BY <1>16 DEF PowerLoss
<1>17. CASE UNCHANGED vars
  BY <1>17 DEF vars
<1>18. QED
  BY <1>1, <1>2, <1>3, <1>4, <1>5, <1>6, <1>7, <1>8, <1>9, <1>10, <1>11,
       <1>12, <1>13, <1>14, <1>15, <1>16, <1>17
    DEF Next, Operation, Save

\* What is renamed to recent.json or to its backup is whole.
LEMMA WholeStep == IInv /\ [Next]_vars => WholeInv'
<1> SUFFICES ASSUME IInv, [Next]_vars PROVE WholeInv'
  OBVIOUS
<1> USE DEF IInv, TypeOK, CardType, WholeInv, CardInv, SaveSteps
<1>1. CASE Start
  BY <1>1 DEF Start
<1>2. CASE Load
  BY <1>2 DEF Load
<1>3. CASE LoadLegacy
  BY <1>3 DEF LoadLegacy
<1>4. CASE Retire
  BY <1>4 DEF Retire
<1>5. CASE Edit
  BY <1>5 DEF Edit
<1>6. CASE EditNothing
  BY <1>6 DEF EditNothing
<1>7. CASE SaveClean
  BY <1>7 DEF SaveClean
<1>8. CASE SaveOpen
  BY <1>8 DEF SaveOpen
<1>9. CASE SaveWrite
  BY <1>9 DEF SaveWrite
<1>10. CASE SaveLook
  BY <1>10 DEF SaveLook
<1>11. CASE SaveBackUp
  BY <1>11 DEF SaveBackUp
<1>12. CASE SavePublish
  BY <1>12 DEF SavePublish
<1>13. CASE SaveRestore
  BY <1>13 DEF SaveRestore
<1>14. CASE SaveDiscard
  BY <1>14 DEF SaveDiscard
<1>15. CASE SaveTidy
  BY <1>15 DEF SaveTidy
<1>16. CASE PowerLoss
  BY <1>16 DEF PowerLoss
<1>17. CASE UNCHANGED vars
  BY <1>17 DEF vars
<1>18. QED
  BY <1>1, <1>2, <1>3, <1>4, <1>5, <1>6, <1>7, <1>8, <1>9, <1>10, <1>11,
       <1>12, <1>13, <1>14, <1>15, <1>16, <1>17
    DEF Next, Operation, Save

\* The card.
LEMMA CardStep == IInv /\ [Next]_vars => CardInv'
<1> SUFFICES ASSUME IInv, [Next]_vars PROVE CardInv'
  OBVIOUS
<1> USE DEF IInv, TypeOK, CardType, WholeInv, CardInv, SaveSteps, List,
       Source
<1>1. CASE Start
  BY <1>1 DEF Start
<1>2. CASE Load
  BY <1>2 DEF Load
<1>3. CASE LoadLegacy
  BY <1>3 DEF LoadLegacy
<1>4. CASE Retire
  BY <1>4 DEF Retire
<1>5. CASE Edit
  BY <1>5 DEF Edit
<1>6. CASE EditNothing
  BY <1>6 DEF EditNothing
<1>7. CASE SaveClean
  BY <1>7 DEF SaveClean
<1>8. CASE SaveOpen
  BY <1>8 DEF SaveOpen
<1>9. CASE SaveWrite
  BY <1>9 DEF SaveWrite
<1>10. CASE SaveLook
  BY <1>10 DEF SaveLook
<1>11. CASE SaveBackUp
  BY <1>11 DEF SaveBackUp
<1>12. CASE SavePublish
  BY <1>12 DEF SavePublish
<1>13. CASE SaveRestore
  BY <1>13 DEF SaveRestore
<1>14. CASE SaveDiscard
  BY <1>14 DEF SaveDiscard
<1>15. CASE SaveTidy
  BY <1>15 DEF SaveTidy
<1>16. CASE PowerLoss
  BY <1>16 DEF PowerLoss
<1>17. CASE UNCHANGED vars
  BY <1>17 DEF vars
<1>18. QED
  BY <1>1, <1>2, <1>3, <1>4, <1>5, <1>6, <1>7, <1>8, <1>9, <1>10, <1>11,
       <1>12, <1>13, <1>14, <1>15, <1>16, <1>17
    DEF Next, Operation, Save

\* The memory.
LEMMA MemoryStep == IInv /\ [Next]_vars => MemoryInv'
<1> SUFFICES ASSUME IInv, [Next]_vars PROVE MemoryInv'
  OBVIOUS
<1> USE DEF IInv, TypeOK, CardType, WholeInv, CardInv, MemoryInv,
       SaveSteps, List, Source
<1>1. CASE Start
  BY <1>1 DEF Start
<1>2. CASE Load
  <2>1. List' = List
    BY <1>2 DEF Load
  <2>2. files[Path] \in Docs \cup {Absent} /\ files[Bak] \in Docs \cup {Absent}
    BY DEF Contents
  <2>3. CASE Source \in Docs
    BY <1>2, <2>1, <2>3 DEF Load
  <2>4. CASE Source \notin Docs
    <3>1. ~Exists(Path) /\ List = EmptyList
      BY <2>2, <2>4
    <3>2. QED
      BY <1>2, <2>1, <2>4, <3>1 DEF Load
  <2>5. QED
    BY <2>3, <2>4
<1>3. CASE LoadLegacy
  BY <1>3 DEF LoadLegacy
<1>4. CASE Retire
  BY <1>4 DEF Retire
<1>5. CASE Edit
  BY <1>5 DEF Edit
<1>6. CASE EditNothing
  BY <1>6 DEF EditNothing
<1>7. CASE SaveClean
  BY <1>7 DEF SaveClean
<1>8. CASE SaveOpen
  BY <1>8 DEF SaveOpen
<1>9. CASE SaveWrite
  BY <1>9 DEF SaveWrite
<1>10. CASE SaveLook
  BY <1>10 DEF SaveLook
<1>11. CASE SaveBackUp
  BY <1>11 DEF SaveBackUp
<1>12. CASE SavePublish
  BY <1>12 DEF SavePublish
<1>13. CASE SaveRestore
  BY <1>13 DEF SaveRestore
<1>14. CASE SaveDiscard
  BY <1>14 DEF SaveDiscard
<1>15. CASE SaveTidy
  BY <1>15 DEF SaveTidy
<1>16. CASE PowerLoss
  BY <1>16 DEF PowerLoss
<1>17. CASE UNCHANGED vars
  BY <1>17 DEF vars
<1>18. QED
  BY <1>1, <1>2, <1>3, <1>4, <1>5, <1>6, <1>7, <1>8, <1>9, <1>10, <1>11,
       <1>12, <1>13, <1>14, <1>15, <1>16, <1>17
    DEF Next, Operation, Save

\* The move.
LEMMA MoveStep == IInv /\ [Next]_vars => MoveInv'
<1> SUFFICES ASSUME IInv, [Next]_vars PROVE MoveInv'
  OBVIOUS
<1> USE DEF IInv, TypeOK, CardType, WholeInv, CardInv, MemoryInv,
       MoveInv, MoveKeepsAgreement, SaveSteps, List, Source
<1>1. CASE Start
  BY <1>1 DEF Start
<1>2. CASE Load
  BY <1>2 DEF Load
<1>3. CASE LoadLegacy
  BY <1>3 DEF LoadLegacy
<1>4. CASE Retire
  BY <1>4 DEF Retire
<1>5. CASE Edit
  BY <1>5 DEF Edit
<1>6. CASE EditNothing
  BY <1>6 DEF EditNothing
<1>7. CASE SaveClean
  BY <1>7 DEF SaveClean
<1>8. CASE SaveOpen
  BY <1>8 DEF SaveOpen
<1>9. CASE SaveWrite
  BY <1>9 DEF SaveWrite
<1>10. CASE SaveLook
  BY <1>10 DEF SaveLook
<1>11. CASE SaveBackUp
  BY <1>11 DEF SaveBackUp
<1>12. CASE SavePublish
  BY <1>12 DEF SavePublish
<1>13. CASE SaveRestore
  BY <1>13 DEF SaveRestore
<1>14. CASE SaveDiscard
  BY <1>14 DEF SaveDiscard
<1>15. CASE SaveTidy
  BY <1>15 DEF SaveTidy
<1>16. CASE PowerLoss
  BY <1>16 DEF PowerLoss
<1>17. CASE UNCHANGED vars
  BY <1>17 DEF vars
<1>18. QED
  BY <1>1, <1>2, <1>3, <1>4, <1>5, <1>6, <1>7, <1>8, <1>9, <1>10, <1>11,
       <1>12, <1>13, <1>14, <1>15, <1>16, <1>17
    DEF Next, Operation, Save

LEMMA StepIInv == IInv /\ [Next]_vars => IInv'
BY TypeStep, WholeStep, CardStep, MemoryStep, MoveStep DEF IInv

\* Every step of the store is a step of a durable document, or none of one.
LEMMA RefinementStep == IInv /\ [Next]_vars => [Document!Next]_(Document!vars)
<1> SUFFICES ASSUME IInv, [Next]_vars PROVE [Document!Next]_(Document!vars)
  OBVIOUS
<1>a. IInv' /\ List \in Docs
  BY StepIInv DEF IInv, List, Source
<1>b. TypeOK /\ CardInv /\ MemoryInv /\ TypeOK' /\ CardInv'
  BY <1>a DEF IInv
<1> USE <1>a, <1>b DEF TypeOK, CardType, SaveSteps, CardInv, MemoryInv, List, Source,
         Document!vars
<1>1. CASE Start
  BY <1>1 DEF Start
<1>2. CASE Load
  BY <1>2 DEF Load
<1>3. CASE LoadLegacy
  BY <1>3 DEF LoadLegacy, Document!Next, Document!Begin
<1>4. CASE Retire
  BY <1>4 DEF Retire
<1>5. CASE Edit
  BY <1>5 DEF Edit, Document!Next, Document!Begin
<1>6. CASE EditNothing
  BY <1>6 DEF EditNothing
<1>7. CASE SaveClean
  BY <1>7 DEF SaveClean, Document!Next, Document!Finish
<1>8. CASE SaveOpen
  BY <1>8 DEF SaveOpen, Document!Next, Document!Finish
<1>9. CASE SaveWrite
  BY <1>9 DEF SaveWrite, Document!Next, Document!Finish
<1>10. CASE SaveLook
  BY <1>10 DEF SaveLook
<1>11. CASE SaveBackUp
  BY <1>11 DEF SaveBackUp
<1>12. CASE SavePublish
  BY <1>12 DEF SavePublish, Document!Next, Document!Publish
<1>13. CASE SaveRestore
  BY <1>13 DEF SaveRestore
<1>14. CASE SaveDiscard
  BY <1>14 DEF SaveDiscard, Document!Next, Document!Finish
<1>15. CASE SaveTidy
  BY <1>15 DEF SaveTidy, Document!Next, Document!Finish
<1>16. CASE PowerLoss
  BY <1>16 DEF PowerLoss, Document!Next, Document!Lose
<1>17. CASE UNCHANGED vars
  BY <1>17 DEF vars
<1>18. QED
  BY <1>1, <1>2, <1>3, <1>4, <1>5, <1>6, <1>7, <1>8, <1>9, <1>10, <1>11,
       <1>12, <1>13, <1>14, <1>15, <1>16, <1>17
    DEF Next, Operation, Save

\* The inductive invariant holds for every set of lists, every number of
\* faults and whether or not the card's operations fail.
THEOREM Invariance == Spec => []IInv
<1>1. QED
  BY InitIInv, StepIInv, PTL DEF Spec

\* Every variable keeps its type.
THEOREM TypeCorrect == Spec => []TypeOK
<1>1. IInv => TypeOK
  BY DEF IInv
<1>2. QED
  BY Invariance, <1>1, PTL

\* Between operations the memory and the card agree, unless a save failed.
THEOREM MemoryAgrees == Spec => []MemoryMatchesCard
<1>1. IInv => MemoryMatchesCard
  BY DEF IInv, MemoryInv, MoveInv, MemoryMatchesCard
<1>2. QED
  BY Invariance, <1>1, PTL

\* updatePath() is all or nothing, whatever its save came to.
THEOREM MovesAreUndone == Spec => []MoveKeepsAgreement
<1>1. IInv => MoveKeepsAgreement
  BY DEF IInv, MoveInv
<1>2. QED
  BY Invariance, <1>1, PTL

\* The store implements a durable document: a reader finds the list from
\* before a save or the one that is saved, and the save reports which.
THEOREM ImplementsDocument == Spec => Durable
<1>1. Init => Document!Init
  <2> SUFFICES ASSUME Init PROVE Document!Init
    OBVIOUS
  <2>1. List \in Docs
    BY InitIInv DEF IInv, List, Source
  <2>2. QED
    BY <2>1 DEF Init, Document!Init, SaveSteps
<1>2. QED
  BY Invariance, RefinementStep, <1>1, PTL DEF Spec, Durable, Document!Spec

-----------------------------------------------------------------------------
(* The migration of recent.bin.                                            *)

\* What holds when the card's operations do not fail: no save fails, and the
\* list of recent.bin is in recent.json before recent.bin is put aside.
MigrationInv ==
    /\ pc \notin {"restore", "discard"}
    /\ pc = "retire" => Exists(Path)
    /\ RetiredIsMigrated

\* Whenever power is lost, recent.bin is put aside only once its list is in
\* recent.json, if the card's operations do not fail.
THEOREM MigrationIsSafe == ASSUME ~CardFails PROVE Spec => []RetiredIsMigrated
<1> USE DEF MigrationInv, RetiredIsMigrated
<1>1. Init => MigrationInv
  BY DEF Init
<1>2. IInv /\ MigrationInv /\ [Next]_vars => MigrationInv'
  <2> SUFFICES ASSUME IInv, MigrationInv, [Next]_vars PROVE MigrationInv'
    OBVIOUS
  <2> USE DEF IInv, TypeOK, CardType, CardInv, MemoryInv, SaveSteps
<2>1. CASE Start
  BY <2>1 DEF Start
<2>2. CASE Load
  BY <2>2 DEF Load
<2>3. CASE LoadLegacy
  BY <2>3 DEF LoadLegacy
<2>4. CASE Retire
  BY <2>4 DEF Retire
<2>5. CASE Edit
  BY <2>5 DEF Edit
<2>6. CASE EditNothing
  BY <2>6 DEF EditNothing
<2>7. CASE SaveClean
  BY <2>7 DEF SaveClean
<2>8. CASE SaveOpen
  BY <2>8 DEF SaveOpen
<2>9. CASE SaveWrite
  BY <2>9 DEF SaveWrite
<2>10. CASE SaveLook
  BY <2>10 DEF SaveLook
<2>11. CASE SaveBackUp
  BY <2>11 DEF SaveBackUp
<2>12. CASE SavePublish
  BY <2>12 DEF SavePublish
<2>13. CASE SaveRestore
  BY <2>13 DEF SaveRestore
<2>14. CASE SaveDiscard
  BY <2>14 DEF SaveDiscard
<2>15. CASE SaveTidy
  BY <2>15 DEF SaveTidy
<2>16. CASE PowerLoss
  BY <2>16 DEF PowerLoss
<2>17. CASE UNCHANGED vars
  BY <2>17 DEF vars
<2>18. QED
  BY <2>1, <2>2, <2>3, <2>4, <2>5, <2>6, <2>7, <2>8, <2>9, <2>10, <2>11,
       <2>12, <2>13, <2>14, <2>15, <2>16, <2>17
    DEF Next, Operation, Save
<1>3. QED
  BY Invariance, <1>1, <1>2, PTL DEF Spec

=============================================================================
