------------------------------ MODULE Delivery ------------------------------
(***************************************************************************)
(* What sending a file to another device promises: it is put in its place  *)
(* at most once, and whoever sent it is told of a success only if it was.  *)
(* A failure is reported at any time, of a file that did arrive as well,   *)
(* and even after a success: a late cancellation withdraws it.             *)
(***************************************************************************)
EXTENDS Naturals, Sequences

VARIABLES
    session,    \* how many files were offered
    outcome,    \* what the sender knows of the last one
    placed      \* the files that were put in their place, in order

vars == <<session, outcome, placed>>

IsPlaced(s) == \E i \in 1..Len(placed) : placed[i] = s

Init == session = 0 /\ outcome = "none" /\ placed = <<>>

Begin ==
    /\ outcome = "none"
    /\ session' = session + 1 /\ outcome' \in {"open", "failed"}
    /\ UNCHANGED placed

Place ==
    /\ \E s \in 1..session : ~IsPlaced(s) /\ placed' = Append(placed, s)
    /\ UNCHANGED <<session, outcome>>

Confirm ==
    /\ outcome = "open" /\ IsPlaced(session)
    /\ outcome' = "success"
    /\ UNCHANGED <<session, placed>>

Fail ==
    /\ outcome \in {"open", "success"}
    /\ outcome' = "failed"
    /\ UNCHANGED <<session, placed>>

End ==
    /\ outcome # "none"
    /\ outcome' = "none"
    /\ UNCHANGED <<session, placed>>

Next == Begin \/ Place \/ Confirm \/ Fail \/ End

Spec == Init /\ [][Next]_vars
=============================================================================
