-------------------------- MODULE DurableDocument --------------------------
(***************************************************************************)
(* What a document on the card promises whoever saves it, and to whoever   *)
(* reads it after a loss of power: it reads as what it was before the save *)
(* or as what is being saved, never as anything else.                      *)
(***************************************************************************)
CONSTANTS
    Docs,       \* the documents, the one read when there is none included
    Nothing     \* no document is being saved

VARIABLES
    doc,        \* what a load would read now
    base,       \* what it read when the present save began
    incoming,   \* what is being saved
    outcome     \* how the last save ended

vars == <<doc, base, incoming, outcome>>

TypeOK ==
    /\ doc \in Docs /\ base \in Docs
    /\ incoming \in Docs \cup {Nothing}
    /\ outcome \in {"none", "ok", "failed"}

Init ==
    /\ doc \in Docs
    /\ base = doc
    /\ incoming = Nothing
    /\ outcome = "none"

Begin ==
    /\ incoming = Nothing
    /\ incoming' \in Docs
    /\ base' = doc
    /\ outcome' = "none"
    /\ UNCHANGED doc

\* The document is replaced, in one step.
Publish ==
    /\ incoming # Nothing
    /\ doc' = incoming
    /\ UNCHANGED <<base, incoming, outcome>>

\* The save tells its caller whether the document was replaced.
Finish ==
    /\ incoming # Nothing
    /\ outcome' \in {"ok", "failed"}
    /\ doc = IF outcome' = "ok" THEN incoming ELSE base
    /\ incoming' = Nothing
    /\ UNCHANGED <<doc, base>>

\* Power is lost, with or without a save under way.
Lose ==
    /\ incoming' = Nothing
    /\ outcome' = "none"
    /\ UNCHANGED <<doc, base>>

Next == Begin \/ Publish \/ Finish \/ Lose

Spec == Init /\ [][Next]_vars
=============================================================================
