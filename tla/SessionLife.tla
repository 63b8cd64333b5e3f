---------------------------- MODULE SessionLife ----------------------------
(***************************************************************************)
(* What the C ABI promises of its sessions, whoever calls it: one session  *)
(* is open at a time and none opens twice; a thread comes to use only the  *)
(* open one; a session is retired only when no thread uses it, unless the  *)
(* process is exiting and could not wait; and a retired session first      *)
(* stops its messaging, then ends.                                         *)
(***************************************************************************)
EXTENDS Naturals

CONSTANTS Threads, Sessions

VARIABLES
    life,    \* life[s]: "none", then "open", "retired", "stopped", "ended"
    uses,    \* uses[t]: the session thread t uses without a lock, or 0
    forced   \* some session was retired without waiting

Init ==
    /\ life = [s \in Sessions |-> "none"]
    /\ uses = [t \in Threads |-> 0]
    /\ forced = FALSE

Move(s, from, to) == life[s] = from /\ life' = [life EXCEPT ![s] = to]

Open(s) ==
    /\ \A r \in Sessions : life[r] # "open"
    /\ Move(s, "none", "open")
    /\ UNCHANGED <<uses, forced>>

Use(t, s) ==
    /\ life[s] = "open" /\ uses[t] = 0
    /\ uses' = [uses EXCEPT ![t] = s]
    /\ UNCHANGED <<life, forced>>

Release(t) ==
    /\ uses[t] # 0
    /\ uses' = [uses EXCEPT ![t] = 0]
    /\ UNCHANGED <<life, forced>>

Retire(s) ==
    /\ Move(s, "open", "retired")
    /\ \/ (\A t \in Threads : uses[t] # s) /\ UNCHANGED forced
       \/ forced' = TRUE
    /\ UNCHANGED uses

Stop(s) == Move(s, "retired", "stopped") /\ UNCHANGED <<uses, forced>>

End(s) == Move(s, "stopped", "ended") /\ UNCHANGED <<uses, forced>>

Next ==
    \/ \E s \in Sessions : Open(s) \/ Retire(s) \/ Stop(s) \/ End(s)
    \/ \E t \in Threads : Release(t) \/ \E s \in Sessions : Use(t, s)

Spec == Init /\ [][Next]_<<life, uses, forced>>
=============================================================================
