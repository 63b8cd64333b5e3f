----------------------------- MODULE GcsGlobalDb -----------------------------
(***************************************************************************)
(* The store wrapper as the room commands use it                           *)
(* (src/lib/gcs_storage/gcs_global_db.cpp, behind the pass-through of      *)
(* src/lib/gcs_core.cpp): which topics the running store listens to and    *)
(* broadcasts on, and how many live callbacks the node's pubsub holds for  *)
(* a topic.  There is no operation that removes a registration: they end   *)
(* with the store, and the callbacks with the node.                        *)
(*                                                                         *)
(* External: GlobalDB, whose AddListenTopic has no failure path, whose     *)
(* AddBroadcastTopic may fail, and the pubsub, which may refuse.           *)
(***************************************************************************)
EXTENDS Integers, FiniteSets

CONSTANTS
    Smoke,    \* the smoke topics gcs_init joins
    Room      \* the rooms the catalog may get; a room also names its topic

ASSUME TopicAssumption == Smoke \cap Room = {}

Topic == Smoke \cup Room

VARIABLES
    m_running,
    listening,     \* topics given to GlobalDB::AddListenTopic
    broadcasting,  \* topics GlobalDB::AddBroadcastTopic took
    armed          \* live callbacks registered for each topic

db == <<m_running, listening, broadcasting, armed>>

DbOK ==
    /\ m_running \in BOOLEAN
    /\ listening \subseteq Topic /\ broadcasting \subseteq Topic
    /\ armed \in [Topic -> Nat]

DbInit ==
    /\ m_running = FALSE
    /\ listening = {} /\ broadcasting = {}
    /\ armed = [x \in Topic |-> 0]

\* A session is initialised and the given topics register.  The topics that fail
\* to broadcast are listened to all the same.
Initialize(joined) ==
    /\ ~m_running
    /\ m_running' = TRUE
    /\ listening' = Smoke /\ broadcasting' = joined

\* The node, its pubsub or its graphsync network is missing, GlobalDB::New fails
\* or the store's own topic is refused: every member is reset again.
InitializeFails == ~m_running /\ UNCHANGED db

\* Listen first, then broadcast (D-07).
Registers(x) ==
    /\ m_running
    /\ listening' = listening \cup {x}
    /\ broadcasting' = broadcasting \cup {x}
    /\ UNCHANGED <<m_running, armed>>

\* The broadcast is refused: the listen registration stays.
RegisterFails(x) ==
    /\ m_running
    /\ listening' = listening \cup {x}
    /\ UNCHANGED <<m_running, broadcasting, armed>>

\* One more callback on the topic; Subscribe does not look for an earlier one.
Subscribe(x) == armed' = [armed EXCEPT ![x] = @ + 1]

\* The registrations are the store's, the callbacks the node's: they are gone
\* when gcs_shutdown takes the node down too.
Shutdown ==
    /\ m_running' = FALSE
    /\ listening' = {} /\ broadcasting' = {}
    /\ armed' \in {armed, [x \in Topic |-> 0]}

\* CoreSession: its Shutdown, and its destructor, only meet a running store.
CoreShutdown == m_running /\ Shutdown
=============================================================================
