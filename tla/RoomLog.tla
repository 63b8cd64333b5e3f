------------------------------ MODULE RoomLog ------------------------------
(***************************************************************************)
(* What the user of a node sees of the messages of a room: the states a    *)
(* message was shown in, one after the other, since the process started.   *)
(* Her own message is shown pending and then, once, complete or failed.    *)
(* A message of a peer is shown only if its author sent it, and once: the  *)
(* two deliveries of a message are one.  Only a node that has forgotten    *)
(* what it has seen may show a message again.                              *)
(***************************************************************************)
EXTENDS Sequences

CONSTANTS Nodes, Messages

VARIABLES
    sent,    \* the messages their authors have shown as pending
    shown,   \* shown[n][m]: the states m was shown in at n, in order
    forgot   \* the nodes that have forgotten some message

Nothing == [m \in Messages |-> << >>]

Init == sent = {} /\ shown = [n \in Nodes |-> Nothing] /\ forgot = {}

Show(n, m, state) ==
    shown' = [shown EXCEPT ![n][m] = Append(@, state)]

Send(n, m) ==
    /\ m.author = n /\ m \notin sent /\ shown[n][m] = << >>
    /\ sent' = sent \cup {m} /\ Show(n, m, "pending")

Finish(n, m) ==
    /\ m.author = n /\ m \in sent
    /\ \/ shown[n][m] = <<"pending">>
       \/ n \in forgot
    /\ \E state \in {"complete", "error"} : Show(n, m, state)
    /\ UNCHANGED sent

Receive(n, m) ==
    /\ m \in sent
    /\ shown[n][m] = << >> \/ n \in forgot
    /\ Show(n, m, "complete")
    /\ UNCHANGED sent

\* A process starts over: its window is empty and so is its memory.
Restart(n) ==
    /\ shown' = [shown EXCEPT ![n] = Nothing]
    /\ forgot' = forgot \ {n}
    /\ UNCHANGED sent

Forget(n) == forgot' = forgot \cup {n} /\ UNCHANGED <<sent, shown>>

Next ==
    \E n \in Nodes :
        \/ \E m \in Messages : (Send(n, m) \/ Finish(n, m) \/ Receive(n, m)) /\ UNCHANGED forgot
        \/ Restart(n) \/ Forget(n)

Spec == Init /\ [][Next]_<<sent, shown, forgot>>
=============================================================================
