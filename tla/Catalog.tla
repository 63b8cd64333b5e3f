------------------------------- MODULE Catalog -------------------------------
(***************************************************************************)
(* What the catalog of spaces and rooms promises to the user of one node:  *)
(* a durable map of entities that only grows.  An entity appears once and  *)
(* complete, a room only under a space that is known, an edit keeps the    *)
(* creation stamp and is of a later command than what it replaces, and     *)
(* nothing listed is ever lost, whatever fails or crashes in between.      *)
(***************************************************************************)
EXTENDS Integers

CONSTANT NoParent

VARIABLE known  \* entity id -> record

Init == known = [id \in {} |-> NoParent]

Create(id) ==
    /\ id \notin DOMAIN known
    /\ id.kind = "room" => known'[id].parent \in {NoParent} \cup DOMAIN known

Edit(id) ==
    /\ id \in DOMAIN known /\ id.kind = "space"
    /\ known'[id].created = known[id].created
    /\ known'[id].version > known[id].version

\* One entity is created or edited, every other one stays what it was.
Next ==
    \E id \in DOMAIN known' :
        /\ Create(id) \/ Edit(id)
        /\ DOMAIN known' = DOMAIN known \cup {id}
        /\ \A other \in DOMAIN known \ {id} : known'[other] = known[other]

Spec == Init /\ [][Next]_known
=============================================================================
