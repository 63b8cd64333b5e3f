------------------------------- MODULE GcsFfi -------------------------------
(***************************************************************************)
(* The threading core of the C ABI (src/ffi/gcs_core_ffi.cpp): one global  *)
(* session guarded by g_mutex, operations that run against it with the     *)
(* mutex released and are counted in g_inFlight, receive callbacks on the  *)
(* node's threads, and the teardown that evicts the globals under the      *)
(* mutex and destroys them outside it.                                     *)
(*                                                                         *)
(* A critical section that never blocks is one step, taken when g_mutex is *)
(* free.  A section that blocks while it holds g_mutex (gcs_init, the      *)
(* entity commands) is a run of steps with mutex = the thread.  The three  *)
(* globals g_session, g_messaging and g_entities are set and evicted       *)
(* inside one critical section each, so one variable, g_session, stands    *)
(* for the three; the objects behind them die at different times and have  *)
(* a state each.  A session is named by its generation, 0 is nullptr.      *)
(*                                                                         *)
(* External, modelled from how the code uses it: the DagWorkers that run   *)
(* CRDT jobs (GlobalDB::Put waits for its job; a job on a message key      *)
(* fires the heal callback inside the job) and the GossipSub strand (live  *)
(* callbacks, and the future Subscribe waits for).                         *)
(***************************************************************************)
EXTENDS Integers, FiniteSets

CONSTANTS
    Hosts,        \* threads that call the C ABI
    Senders,      \* the hosts that issue join_topic and send_text
    Editors,      \* the hosts that issue create_space, create_room, update_space
    Closers,      \* the hosts that call gcs_shutdown
    Workers,      \* the store's DagWorker threads
    Strand,       \* the GossipSub strand
    Exiter,       \* the thread that runs the std::atexit hook
    NoThread,     \* g_mutex is free; also "no job"
    Remote,       \* the owner of a job that a peer's message caused
    Address,      \* where the allocator places each generation's CoreSession
    ProcessExits, \* whether the process may exit() while a session is up
    MaxSessions,  \* bound: gcs_init builds at most this many sessions
    MaxCommands,  \* bound: commands issued in a behaviour
    MaxArrivals,  \* bound: peer messages that reach the node
    MaxDerived    \* bound: newly derived topics one refresh subscribes

Callbacks == Workers \cup {Strand}
Threads == Hosts \cup Callbacks \cup {Exiter}
Sessions == 1..MaxSessions

ASSUME ThreadsAssumption ==
    /\ IsFiniteSet(Hosts) /\ IsFiniteSet(Workers)
    /\ Senders \subseteq Hosts /\ Editors \subseteq Hosts /\ Closers \subseteq Hosts
    /\ Hosts \cap Workers = {}
    /\ Strand \notin Hosts \cup Workers
    /\ Exiter \notin Hosts \cup Workers \cup {Strand}
    /\ NoThread \notin Threads \cup Sessions \cup {Remote}
    /\ Remote \notin Threads \cup Sessions
    /\ Sessions \cap Threads = {}

\* A place may be used again, by the next generation too.
ASSUME AddressAssumption == DOMAIN Address = Sessions

ASSUME BoundsAssumption ==
    /\ ProcessExits \in BOOLEAN
    /\ MaxSessions \in Nat /\ MaxCommands \in Nat
    /\ MaxArrivals \in Nat /\ MaxDerived \in Nat

VARIABLES
    mutex,               \* holder of g_mutex across a blocking section
    pc,                  \* where each thread is
    g_session,           \* g_session, g_messaging, g_entities: a generation or 0
    g_inFlight,
    g_receivingDisabled,
    g_tearingDown,
    g_sdkBootedHere,
    exitHook,            \* g_exitHookRegistered
    node,                \* GeniusSDKGetNode() # nullptr
    armed,               \* a live subscription is registered with the node's pubsub
    messaging,           \* state of each generation's Messaging object
    store,               \* state of each generation's CoreSession / GlobalDB
    backlog,             \* length of each Messaging's m_archiveQueue
    jobs,                \* owners of queued CRDT jobs
    serving,             \* the job a DagWorker is inside
    window,              \* raw pointer a thread uses with g_mutex released, or 0
    left,                \* blocking calls the host's command has still to make
    handles,             \* generations whose GcsSession* gcs_init has returned
    target,              \* the handle a closer passed to gcs_shutdown
    evicted,             \* the objects a teardown moved out of the globals
    tearSdk,             \* a teardown's local copy of g_sdkBootedHere
    drainExpired,        \* the exit hook's bounded drain ran out
    opened, issued, arrived

locks == <<mutex, g_inFlight, window>>
flags == <<g_receivingDisabled, g_tearingDown>>
sdk   == <<g_sdkBootedHere, exitHook, node, armed>>
objs  == <<messaging, store, backlog>>
dag   == <<jobs, serving>>
tear  == <<evicted, tearSdk, drainExpired>>
calls == <<handles, target>>
nums  == <<opened, issued, arrived>>
vars  == <<locks, flags, sdk, objs, dag, tear, calls, nums, pc, g_session, left>>

SendPcs  == {"sendPending", "sendPublish", "sendPut", "sendTerminal", "sendReturn"}
SubPcs   == {"joinSub", "joinBack", "refreshSub", "refreshBack"}
HoldPcs  == {"initStore", "initJoin", "entityPut", "refresh"}
DrainPcs == {"drain", "drainWoken"}
TearPcs  == {"sdkDown", "msgDown", "storeDown", "relock"}
HostPcs  == {"idle"} \cup SendPcs \cup SubPcs \cup HoldPcs \cup DrainPcs \cup TearPcs
FunnelPcs == {"funnel", "leave"}
CallbackPcs == {"idle", "gate", "copy", "notify", "jobDone"} \cup FunnelPcs
ExitPcs == {"idle", "exitLock", "exited"} \cup DrainPcs \cup TearPcs

PcOK ==
    /\ pc \in [Threads -> HostPcs \cup CallbackPcs \cup ExitPcs]
    /\ \A h \in Hosts : pc[h] \in HostPcs
    /\ \A c \in Callbacks : pc[c] \in CallbackPcs
    /\ pc[Exiter] \in ExitPcs

GlobalsOK ==
    /\ mutex \in Hosts \cup {NoThread}
    /\ g_session \in 0..MaxSessions
    /\ g_inFlight \in Nat
    /\ g_receivingDisabled \in BOOLEAN /\ g_tearingDown \in BOOLEAN
    /\ g_sdkBootedHere \in BOOLEAN /\ exitHook \in BOOLEAN
    /\ node \in BOOLEAN /\ armed \in BOOLEAN /\ drainExpired \in BOOLEAN

ObjectsOK ==
    /\ messaging \in [Sessions -> {"none", "live", "dead"}]
    /\ store \in [Sessions -> {"none", "running", "dead"}]
    /\ backlog \in [Sessions -> Nat]
    /\ jobs \subseteq Hosts \cup Sessions
    /\ serving \in [Workers -> Hosts \cup Sessions \cup {Remote, NoThread}]

LocalsOK ==
    /\ window \in [Threads -> 0..MaxSessions]
    /\ left \in [Hosts -> Nat]
    /\ handles \subseteq Sessions
    /\ target \in [Hosts -> 0..MaxSessions]
    /\ evicted \in [Hosts \cup {Exiter} -> 0..MaxSessions]
    /\ tearSdk \in [Hosts \cup {Exiter} -> BOOLEAN]
    /\ opened \in 0..MaxSessions /\ issued \in Nat /\ arrived \in Nat

TypeOK == PcOK /\ GlobalsOK /\ ObjectsOK /\ LocalsOK

\* The library as loaded: no session; the host application may have booted
\* a node of its own, which EnsureSdkBooted then reuses.
Init ==
    /\ mutex = NoThread
    /\ pc = [t \in Threads |-> "idle"]
    /\ g_session = 0 /\ g_inFlight = 0
    /\ g_receivingDisabled = FALSE /\ g_tearingDown = FALSE
    /\ g_sdkBootedHere = FALSE /\ exitHook = FALSE
    /\ node \in BOOLEAN /\ armed = FALSE
    /\ messaging = [s \in Sessions |-> "none"]
    /\ store = [s \in Sessions |-> "none"]
    /\ backlog = [s \in Sessions |-> 0]
    /\ jobs = {} /\ serving = [w \in Workers |-> NoThread]
    /\ window = [t \in Threads |-> 0]
    /\ left = [h \in Hosts |-> 0]
    /\ handles = {} /\ target = [h \in Hosts |-> 0]
    /\ evicted = [t \in Hosts \cup {Exiter} |-> 0]
    /\ tearSdk = [t \in Hosts \cup {Exiter} |-> FALSE]
    /\ drainExpired = FALSE
    /\ opened = 0 /\ issued = 0 /\ arrived = 0

-----------------------------------------------------------------------------
(* g_mutex, g_inFlight and g_idleCond.                                     *)

Free == mutex = NoThread

Goto(t, label) == pc' = [pc EXCEPT ![t] = label]

\* Goto(t, label) together with g_idleCond.notify_all(): every thread asleep
\* in the drain wakes and will re-evaluate its predicate under g_mutex.
GotoNotify(t, label) ==
    pc' = [u \in Threads |-> IF u = t THEN label
                             ELSE IF pc[u] = "drain" THEN "drainWoken" ELSE pc[u]]

\* g_inFlight += 1 before an unlocked use of the session or messaging object.
EnterWindow(t) ==
    /\ g_inFlight' = g_inFlight + 1
    /\ window' = [window EXCEPT ![t] = g_session]

LeaveWindow(t) ==
    /\ g_inFlight' = g_inFlight - 1
    /\ window' = [window EXCEPT ![t] = 0]

\* A CRDT job is pending: GlobalDB::Put of this owner is inside WaitForJob.
Waiting(o) == o \in jobs \/ \E w \in Workers : serving[w] = o

-----------------------------------------------------------------------------
(* gcs_init.                                                               *)

\* Reuses a node that exists; otherwise boots one, notes that this library
\* owes it a GeniusSDKShutdown and registers the exit hook once.  A failed
\* boot makes gcs_init return nullptr with nothing changed: no step.
EnsureSdkBooted ==
    /\ node' = TRUE
    /\ g_sdkBootedHere' = (g_sdkBootedHere \/ ~node)
    /\ exitHook' = (exitHook \/ ~node)
    /\ UNCHANGED armed

\* Mutant: gcs_init without the g_tearingDown check.
InitAdmitsAlways(h) == pc[h] = "idle" /\ Free

\* gcs_init's first check, under g_mutex: no session is built or handed out
\* while a teardown destroys the previous one with g_mutex released.
InitAdmits(h) == pc[h] = "idle" /\ Free /\ ~g_tearingDown

\* The call up to the booted node.  Bad arguments, an unparsable config and a
\* foreign codec make it return nullptr with no step.
gcs_init(h) ==
    /\ InitAdmits(h) /\ g_session = 0 /\ opened < MaxSessions
    /\ EnsureSdkBooted
    /\ opened' = opened + 1
    /\ mutex' = h /\ Goto(h, "initStore")
    /\ UNCHANGED <<flags, objs, dag, tear, calls, g_inFlight, window, issued, arrived,
                   g_session, left>>

\* gcs_init while a session exists: idempotent, returns its handle (also
\* while the first gcs_init is still inside a live-subscribe window).
gcs_init_again(h) ==
    /\ InitAdmits(h) /\ g_session # 0
    /\ handles' = handles \cup {g_session}
    /\ UNCHANGED <<locks, flags, sdk, objs, dag, tear, nums, pc, g_session, left, target>>

\* session->Initialize().  Its failure pairs the boot of this call.
InitStoreFails(h) ==
    /\ pc[h] = "initStore"
    /\ g_sdkBootedHere => pc[Strand] = "idle"
    /\ node' = (node /\ ~g_sdkBootedHere)
    /\ g_sdkBootedHere' = FALSE
    /\ mutex' = NoThread /\ Goto(h, "idle")
    /\ UNCHANGED <<flags, objs, dag, tear, calls, nums, g_inFlight, window, g_session, left,
                   exitHook, armed>>

InitStore(h) ==
    /\ pc[h] = "initStore"
    /\ store' = [store EXCEPT ![opened] = "running"]
    /\ Goto(h, "initJoin")
    /\ UNCHANGED <<locks, flags, sdk, dag, tear, calls, nums, g_session, left,
                   messaging, backlog>>

\* No smoke topic could be joined: the session is shut down and gcs_init
\* returns nullptr; the node it may have booted is left running.
InitJoinFails(h) ==
    /\ pc[h] = "initJoin"
    /\ store' = [store EXCEPT ![opened] = "dead"]
    /\ mutex' = NoThread /\ Goto(h, "idle")
    /\ UNCHANGED <<flags, sdk, dag, tear, calls, nums, g_inFlight, window, g_session, left,
                   messaging, backlog>>

\* A smoke topic joined: publish the session, re-arm receive intake, build
\* Messaging (its archive thread starts), register the heal callback, load
\* the catalog and compute the derived joins (left = how many are new).
InitJoin(h) ==
    /\ pc[h] = "initJoin"
    /\ g_session' = opened
    /\ g_receivingDisabled' = FALSE
    /\ messaging' = [messaging EXCEPT ![opened] = "live"]
    /\ \E n \in 0..MaxDerived : left' = [left EXCEPT ![h] = n]
    /\ Goto(h, "refresh")
    /\ UNCHANGED <<locks, sdk, dag, tear, calls, nums, g_tearingDown, store, backlog>>

-----------------------------------------------------------------------------
(* RefreshDerivedJoins and SubscribeLive.                                  *)

\* RefreshDerivedJoins has a newly derived topic: SubscribeLive counts itself
\* and releases g_mutex across the blocking subscribe.  With a null g_session
\* (only after the exit hook's drain expired) the process dies here: no step.
RefreshDerivedJoins(h) ==
    /\ pc[h] = "refresh" /\ left[h] > 0 /\ g_session # 0
    /\ left' = [left EXCEPT ![h] = @ - 1]
    /\ EnterWindow(h)
    /\ mutex' = NoThread /\ Goto(h, "refreshSub")
    /\ UNCHANGED <<flags, sdk, objs, dag, tear, calls, nums, g_session>>

\* The refresh is complete: the caller (gcs_init, create_room, update_space)
\* pushes its events and returns; gcs_init's result is g_session.get(), which
\* is nullptr if an exit hook evicted the session from under the refresh.
RefreshReturn(h) ==
    /\ pc[h] = "refresh" /\ left[h] = 0
    /\ handles' = handles \cup ({g_session} \ {0})
    /\ mutex' = NoThread /\ Goto(h, "idle")
    /\ UNCHANGED <<flags, sdk, objs, dag, tear, nums, g_inFlight, window, g_session, left, target>>

\* session->Subscribe(...).get(): the future is fulfilled by the strand, which
\* cannot be inside a callback then.  The subscribe may fail.
SubscribeLive(h) ==
    /\ pc[h] \in {"joinSub", "refreshSub"}
    /\ pc[Strand] = "idle"
    /\ \E ok \in BOOLEAN : armed' = (armed \/ (ok /\ node))
    /\ Goto(h, IF pc[h] = "joinSub" THEN "joinBack" ELSE "refreshBack")
    /\ UNCHANGED <<locks, flags, objs, dag, tear, calls, nums, g_session, left,
                   g_sdkBootedHere, exitHook, node>>

\* Back under g_mutex after the subscribe: uncount, notify; join_topic
\* returns, a refresh goes on with its next topic under the same lock.
SubscribeReturn(h) ==
    /\ Free
    /\ \/ pc[h] = "joinBack" /\ mutex' = NoThread /\ GotoNotify(h, "idle")
       \/ pc[h] = "refreshBack" /\ mutex' = h /\ GotoNotify(h, "refresh")
    /\ LeaveWindow(h)
    /\ UNCHANGED <<flags, sdk, objs, dag, tear, calls, nums, g_session, left>>

-----------------------------------------------------------------------------
(* gcs_publish: the commands that release or hold g_mutex across a wait.   *)

\* A handle is a raw pointer compared with g_session.get(): one of a destroyed
\* session is taken for the present one if that lies at the same address.
HandleMatches(s) == g_session # 0 /\ Address[s] = Address[g_session]

\* The checks every command passes first: a matching handle, a running session.
Accepts(h) ==
    /\ pc[h] = "idle" /\ Free /\ issued < MaxCommands
    /\ \E s \in handles : HandleMatches(s)
    /\ store[g_session] = "running"

\* join_topic of a room not joined yet.  A re-join returns before SubscribeLive
\* and takes no step here.
join_topic(h) ==
    /\ h \in Senders /\ Accepts(h)
    /\ issued' = issued + 1
    /\ EnterWindow(h) /\ Goto(h, "joinSub")
    /\ UNCHANGED <<flags, sdk, objs, dag, tear, calls, mutex, opened, arrived, g_session, left>>

send_text(h) ==
    /\ h \in Senders /\ Accepts(h)
    /\ issued' = issued + 1
    /\ EnterWindow(h) /\ Goto(h, "sendPending")
    /\ UNCHANGED <<flags, sdk, objs, dag, tear, calls, mutex, opened, arrived, g_session, left>>

\* Messaging::SendMessage pushes the PENDING echo: the sink takes g_mutex.
SendPending(h) ==
    /\ pc[h] = "sendPending" /\ Free
    /\ Goto(h, "sendPublish")
    /\ UNCHANGED <<locks, flags, sdk, objs, dag, tear, calls, nums, g_session, left>>

\* Encryption, the live publish or the Put itself fails at once (no job), or
\* the archive Put waits for its job.
SendPublish(h) ==
    /\ pc[h] = "sendPublish"
    /\ \/ Goto(h, "sendTerminal") /\ UNCHANGED jobs
       \/ Goto(h, "sendPut") /\ jobs' = jobs \cup {h}
    /\ UNCHANGED <<locks, flags, sdk, objs, serving, tear, calls, nums, g_session, left>>

SendPut(h) ==
    /\ pc[h] = "sendPut" /\ ~Waiting(h)
    /\ Goto(h, "sendTerminal")
    /\ UNCHANGED <<locks, flags, sdk, objs, dag, tear, calls, nums, g_session, left>>

\* COMPLETE or ERROR echo through the sink.
SendTerminal(h) ==
    /\ pc[h] = "sendTerminal" /\ Free
    /\ Goto(h, "sendReturn")
    /\ UNCHANGED <<locks, flags, sdk, objs, dag, tear, calls, nums, g_session, left>>

SendReturn(h) ==
    /\ pc[h] = "sendReturn" /\ Free
    /\ LeaveWindow(h) /\ GotoNotify(h, "idle")
    /\ UNCHANGED <<flags, sdk, objs, dag, tear, calls, nums, mutex, g_session, left>>

\* create_space and create_room write the manifest and the record, update_space
\* the record: blocking Puts, all with g_mutex HELD (left = how many).
EntityCommand(h) ==
    /\ h \in Editors /\ Accepts(h)
    /\ issued' = issued + 1
    /\ \E n \in {1, 2} : left' = [left EXCEPT ![h] = n]
    /\ jobs' = jobs \cup {h}
    /\ mutex' = h /\ Goto(h, "entityPut")
    /\ UNCHANGED <<flags, sdk, objs, serving, tear, calls, g_inFlight, window, opened, arrived,
                   g_session>>

\* A Put of the command returns: it failed (the command returns an error), or
\* the next one starts, or the derived joins are recomputed (create_space, which
\* returns instead, is the case of none).
EntityPut(h) ==
    /\ pc[h] = "entityPut" /\ ~Waiting(h)
    /\ \/ /\ mutex' = NoThread /\ Goto(h, "idle")
          /\ left' = [left EXCEPT ![h] = 0]
          /\ UNCHANGED jobs
       \/ /\ left[h] > 1
          /\ left' = [left EXCEPT ![h] = @ - 1]
          /\ jobs' = jobs \cup {h}
          /\ UNCHANGED <<mutex, pc>>
       \/ /\ left[h] = 1
          /\ \E n \in 0..MaxDerived : left' = [left EXCEPT ![h] = n]
          /\ Goto(h, "refresh")
          /\ UNCHANGED <<mutex, jobs>>
    /\ UNCHANGED <<flags, sdk, objs, serving, tear, calls, nums, g_inFlight, window, g_session>>

-----------------------------------------------------------------------------
(* The receive callbacks: the heal lambda on a DagWorker, the live lambda  *)
(* on the strand.                                                          *)

\* The heal callback is registered on a store that is still up.
StoreServing == \E s \in Sessions : store[s] = "running" /\ messaging[s] # "none"

\* A DagWorker takes a job: one a local Put queued, or one a peer's message
\* caused.  An entity key matches no callback pattern; a message key fires
\* the heal lambda inside the job.
WorkerTakes(w) ==
    /\ pc[w] = "idle" /\ StoreServing
    /\ \/ \E o \in jobs :
             /\ jobs' = jobs \ {o}
             /\ serving' = [serving EXCEPT ![w] = o]
             /\ Goto(w, IF o \in Hosts /\ pc[o] = "entityPut" THEN "jobDone" ELSE "gate")
             /\ UNCHANGED arrived
       \/ /\ arrived < MaxArrivals
          /\ arrived' = arrived + 1
          /\ serving' = [serving EXCEPT ![w] = Remote]
          /\ Goto(w, "gate")
          /\ UNCHANGED jobs
    /\ UNCHANGED <<locks, flags, sdk, objs, tear, calls, opened, issued, g_session, left>>

\* The strand delivers a live message to a registered subscription.
StrandDelivers ==
    /\ pc[Strand] = "idle" /\ node /\ armed
    /\ arrived < MaxArrivals
    /\ arrived' = arrived + 1
    /\ Goto(Strand, "gate")
    /\ UNCHANGED <<locks, flags, sdk, objs, dag, tear, calls, opened, issued, g_session, left>>

\* The atomic intake gate, read before g_mutex is taken.
CallbackGate(c) ==
    /\ pc[c] = "gate"
    /\ Goto(c, IF g_receivingDisabled THEN "jobDone" ELSE "copy")
    /\ UNCHANGED <<locks, flags, sdk, objs, dag, tear, calls, nums, g_session, left>>

\* Mutant: the raw pointer is used without counting the window.
CallbackCopyUncounted(c) ==
    /\ pc[c] = "copy" /\ Free
    /\ window' = [window EXCEPT ![c] = g_session]
    /\ Goto(c, IF g_session = 0 THEN "jobDone" ELSE "funnel")
    /\ UNCHANGED <<flags, sdk, objs, dag, tear, calls, nums, mutex, g_inFlight, g_session, left>>

\* Under g_mutex: copy the Messaging pointer and count the window, or see the
\* evicted global and unwind.
CallbackCopy(c) ==
    /\ pc[c] = "copy" /\ Free
    /\ \/ g_session = 0 /\ Goto(c, "jobDone") /\ UNCHANGED <<g_inFlight, window>>
       \/ g_session # 0 /\ Goto(c, "funnel") /\ EnterWindow(c)
    /\ UNCHANGED <<flags, sdk, objs, dag, tear, calls, nums, mutex, g_session, left>>

\* ApplyMessage: a known id or undecryptable bytes return at once; a new
\* message is pushed through the sink (which takes g_mutex) and its archive
\* write is queued.  The echoes of local Puts are known ids.
CallbackFunnel(c) ==
    /\ pc[c] = "funnel"
    /\ Goto(c, "leave")
    /\ \/ UNCHANGED backlog
       \/ /\ Free
          /\ c \in Workers => serving[c] = Remote
          /\ backlog' = [backlog EXCEPT ![window[c]] = @ + 1]
    /\ UNCHANGED <<locks, flags, sdk, dag, tear, calls, nums, g_session, left, messaging, store>>

CallbackLeave(c) ==
    /\ pc[c] = "leave" /\ Free
    /\ LeaveWindow(c) /\ Goto(c, "notify")
    /\ UNCHANGED <<flags, sdk, objs, dag, tear, calls, nums, mutex, g_session, left>>

\* notify_all() after the lock_guard's scope.
CallbackNotify(c) ==
    /\ pc[c] = "notify"
    /\ GotoNotify(c, "jobDone")
    /\ UNCHANGED <<locks, flags, sdk, objs, dag, tear, calls, nums, g_session, left>>

\* The callback returns; a DagWorker's job is complete and its waiter released.
CallbackReturns(c) ==
    /\ pc[c] = "jobDone"
    /\ Goto(c, "idle")
    /\ serving' = IF c \in Workers THEN [serving EXCEPT ![c] = NoThread] ELSE serving
    /\ UNCHANGED <<locks, flags, sdk, objs, jobs, tear, calls, nums, g_session, left>>

\* Messaging's archive thread pops one record and Puts it.  The Put of a store
\* that is not running fails at once and the record is dropped.
ArchiveWorker(s) ==
    /\ messaging[s] = "live" /\ backlog[s] > 0 /\ ~Waiting(s)
    /\ backlog' = [backlog EXCEPT ![s] = @ - 1]
    /\ jobs' = IF store[s] = "running" THEN jobs \cup {s} ELSE jobs
    /\ UNCHANGED <<locks, flags, sdk, messaging, store, serving, tear, calls, nums, pc,
                   g_session, left>>

-----------------------------------------------------------------------------
(* gcs_shutdown, the exit hook and the teardown body they share.           *)

\* Mutant: no drain.
DrainSkipped == TRUE

\* The predicate both drains wait for.
Drained == g_inFlight = 0

\* TeardownSessionAndNode gates intake and marks the teardown before anything
\* else: under g_mutex when gcs_shutdown calls it, without it at exit.
GateTeardown == g_receivingDisabled' = TRUE /\ g_tearingDown' = TRUE

\* TeardownSessionAndNode under g_mutex: take the pairing flag and move the
\* globals out (they may already be null).
Evict(t) ==
    /\ tearSdk' = [tearSdk EXCEPT ![t] = g_sdkBootedHere]
    /\ g_sdkBootedHere' = FALSE
    /\ evicted' = [evicted EXCEPT ![t] = g_session]
    /\ g_session' = 0
    /\ Goto(t, "sdkDown")
    /\ UNCHANGED <<exitHook, node, armed>>

\* gcs_shutdown with a matching handle: gate intake, then tear down at once
\* when nothing is in flight, else sleep on g_idleCond.
gcs_shutdown(h) ==
    /\ h \in Closers /\ pc[h] = "idle" /\ Free
    /\ \E s \in handles :
          HandleMatches(s) /\ target' = [target EXCEPT ![h] = s]
    /\ \/ Drained /\ GateTeardown /\ Evict(h)
       \/ /\ ~Drained
          /\ g_receivingDisabled' = TRUE
          /\ Goto(h, "drain")
          /\ UNCHANGED <<g_tearingDown, sdk, evicted, tearSdk, g_session>>
    /\ UNCHANGED <<locks, objs, dag, drainExpired, handles, nums, left>>

\* A woken waiter re-acquires g_mutex and re-evaluates the drain predicate,
\* and nothing else: g_session is not compared with the handle again.
DrainWakes(t) ==
    /\ pc[t] = "drainWoken" /\ Free
    /\ \/ /\ Drained /\ Evict(t)
          /\ IF t = Exiter THEN UNCHANGED flags ELSE GateTeardown
       \/ ~Drained /\ Goto(t, "drain") /\ UNCHANGED <<flags, sdk, evicted, tearSdk, g_session>>
    /\ UNCHANGED <<locks, objs, dag, drainExpired, calls, nums, left>>

\* exit() runs the hook: gate and mark first, without the lock.
ExitHook ==
    /\ ProcessExits /\ exitHook /\ pc[Exiter] = "idle"
    /\ GateTeardown /\ Goto(Exiter, "exitLock")
    /\ UNCHANGED <<locks, sdk, objs, dag, tear, calls, nums, g_session, left>>

\* TryAcquireExitLockBounded succeeds; the drain's predicate is tested once.
ExitLock ==
    /\ pc[Exiter] = "exitLock" /\ Free
    /\ \/ Drained /\ Evict(Exiter)
       \/ ~Drained /\ Goto(Exiter, "drain") /\ UNCHANGED <<sdk, evicted, tearSdk, g_session>>
    /\ UNCHANGED <<locks, flags, objs, dag, drainExpired, calls, nums, left>>

\* The budget elapsed while another thread held g_mutex: teardown is abandoned.
ExitAbandons ==
    /\ pc[Exiter] = "exitLock" /\ ~Free
    /\ Goto(Exiter, "exited")
    /\ UNCHANGED <<locks, flags, sdk, objs, dag, tear, calls, nums, g_session, left>>

\* Mutant: the exit hook drains without a bound.
ExitNeverExpires == FALSE

\* wait_for timed out: the hook re-acquires g_mutex, without a bound, and goes on
\* with operations still in flight.
ExitExpires ==
    /\ pc[Exiter] \in DrainPcs /\ Free /\ ~Drained
    /\ drainExpired' = TRUE
    /\ Evict(Exiter)
    /\ UNCHANGED <<locks, flags, objs, dag, calls, nums, left>>

\* Mutant: the session is shut down before the archive queue is drained.
SessionFirst == [sdkDown |-> "storeDown", storeDown |-> "msgDown", msgDown |-> "relock"]

\* The order of the unlocked destruction: the node, the messaging component,
\* then the session (and the entity store, which only borrows it).
NextStage == [sdkDown |-> "msgDown", msgDown |-> "storeDown", storeDown |-> "relock"]

\* GeniusSDKShutdown joins the node's threads; only a node booted here.
TearNode(t) ==
    /\ pc[t] = "sdkDown"
    /\ tearSdk[t] => pc[Strand] = "idle"
    /\ node' = (node /\ ~tearSdk[t]) /\ armed' = (armed /\ ~tearSdk[t])
    /\ tearSdk' = [tearSdk EXCEPT ![t] = FALSE]
    /\ Goto(t, IF evicted[t] = 0 THEN "relock" ELSE NextStage["sdkDown"])
    /\ UNCHANGED <<locks, flags, objs, dag, calls, nums, g_session, left,
                   g_sdkBootedHere, exitHook, evicted, drainExpired>>

\* messaging.reset(): ~Messaging stops, drains and joins the archive thread.
TearMessaging(t) ==
    /\ pc[t] = "msgDown"
    /\ backlog[evicted[t]] = 0 /\ ~Waiting(evicted[t])
    /\ messaging' = [messaging EXCEPT ![evicted[t]] = "dead"]
    /\ Goto(t, NextStage["msgDown"])
    /\ UNCHANGED <<locks, flags, sdk, dag, tear, calls, nums, g_session, left, store, backlog>>

\* session->Shutdown() waits for the DagWorkers to exit; then the entity store
\* and the session are destroyed.
TearStore(t) ==
    /\ pc[t] = "storeDown"
    /\ \A w \in Workers : pc[w] = "idle"
    /\ store' = [store EXCEPT ![evicted[t]] = "dead"]
    /\ Goto(t, NextStage["storeDown"])
    /\ UNCHANGED <<locks, flags, sdk, dag, tear, calls, nums, g_session, left, messaging, backlog>>

\* gcs_shutdown re-locks and clears g_tearingDown; the exit hook just returns.
TearReturns(t) ==
    /\ pc[t] = "relock"
    /\ \/ t = Exiter /\ Goto(t, "exited") /\ UNCHANGED flags
       \/ t # Exiter /\ Free /\ Goto(t, "idle")
          /\ g_tearingDown' = FALSE /\ UNCHANGED g_receivingDisabled
    /\ evicted' = [evicted EXCEPT ![t] = 0]
    /\ UNCHANGED <<locks, sdk, objs, dag, tearSdk, drainExpired, calls, nums, g_session, left>>

-----------------------------------------------------------------------------

\* The process has exited, or the bounds are used up and all is at rest.
Quiescent ==
    /\ \/ pc[Exiter] = "exited"
       \/ /\ \A t \in Threads : pc[t] = "idle"
          /\ jobs = {} /\ \A s \in Sessions : backlog[s] = 0
    /\ UNCHANGED vars

HostCalls(h) ==
    gcs_init(h) \/ gcs_init_again(h) \/ join_topic(h) \/ send_text(h) \/ EntityCommand(h)
    \/ gcs_shutdown(h)

HostUnlocked(h) ==
    SubscribeLive(h) \/ SubscribeReturn(h) \/ SendPending(h) \/ SendPublish(h) \/ SendPut(h)
    \/ SendTerminal(h) \/ SendReturn(h)

HostLocked(h) ==
    InitStoreFails(h) \/ InitStore(h) \/ InitJoinFails(h) \/ InitJoin(h) \/ RefreshDerivedJoins(h)
    \/ RefreshReturn(h) \/ EntityPut(h)

CallbackStep(c) ==
    CallbackGate(c) \/ CallbackCopy(c) \/ CallbackFunnel(c) \/ CallbackLeave(c)
    \/ CallbackNotify(c) \/ CallbackReturns(c)

Teardown(t) ==
    DrainWakes(t) \/ TearNode(t) \/ TearMessaging(t) \/ TearStore(t) \/ TearReturns(t)

ExitStep == ExitLock \/ ExitAbandons \/ ExitExpires

Next ==
    \/ \E h \in Hosts : HostCalls(h) \/ HostUnlocked(h) \/ HostLocked(h)
    \/ \E w \in Workers : WorkerTakes(w)
    \/ StrandDelivers
    \/ \E c \in Callbacks : CallbackStep(c)
    \/ \E s \in Sessions : ArchiveWorker(s)
    \/ \E t \in Closers \cup {Exiter} : Teardown(t)
    \/ ExitHook \/ ExitStep
    \/ Quiescent

Spec == Init /\ [][Next]_vars

\* A DagWorker picks up queued jobs (a peer's message is never guaranteed).
TakesQueuedJob(w) == WorkerTakes(w) /\ jobs' # jobs

\* The node's threads, the archive threads, the teardown and the sections that
\* hold g_mutex run on; a host is free to stop calling, and nothing obliges a
\* peer to send.
SystemFairness ==
    /\ \A h \in Hosts : WF_vars(HostLocked(h))
    /\ \A c \in Callbacks : WF_vars(CallbackStep(c))
    /\ \A w \in Workers : WF_vars(TakesQueuedJob(w))
    /\ \A s \in Sessions : WF_vars(ArchiveWorker(s))
    /\ \A t \in Closers \cup {Exiter} : WF_vars(Teardown(t))

\* Every call in progress keeps running.
FairSpec == Spec /\ SystemFairness /\ \A h \in Hosts : WF_vars(HostUnlocked(h))

\* At exit a sender or a subscriber may be wedged for good.
ExitSpec == Spec /\ SystemFairness /\ WF_vars(ExitStep)

-----------------------------------------------------------------------------
(* Properties.                                                             *)

Usable(s) == s \in Sessions /\ messaging[s] = "live" /\ store[s] = "running"

\* The unlocked windows are safe (WR-02): whatever raw CoreSession* or
\* Messaging* a thread uses with g_mutex released points to live objects, and
\* a command that is back under g_mutex still finds the global session it
\* started with.  The one exception is the exit hook's expired drain.
NoUseAfterDestroy ==
    \/ drainExpired
    \/ /\ \A t \in Threads : window[t] # 0 => Usable(window[t])
       /\ \A h \in Hosts : pc[h] \in {"entityPut", "refresh"} => Usable(g_session)

Destroying(t) == pc[t] \in TearPcs /\ evicted[t] # 0

\* gcs_init never has a session up while the previous one is being destroyed
\* with g_mutex released (CR-02, the contract of g_tearingDown).
TeardownExcludesInit ==
    \A t \in Closers \cup {Exiter} : Destroying(t) => g_session = 0

\* gcs_shutdown destroys the session its handle was returned for and no other:
\* "null or mismatched handles are a no-op" (gcs_core.h, gcs_shutdown).
ShutdownsOwnSession ==
    \A h \in Closers : Destroying(h) => evicted[h] = target[h]

\* A received message whose archive write is queued or running still has a
\* running store under it (WR-01: the drain happens before Shutdown), so
\* teardown drops no queued record.
ArchiveWritesLand ==
    drainExpired \/ \A s \in Sessions : backlog[s] > 0 \/ Waiting(s) => store[s] = "running"

\* Every C ABI call that starts also returns: no lost wake-up in the drain, no
\* cycle between g_mutex, the DagWorkers, the strand and the teardown joins.
CallsReturn ==
    \A h \in Hosts : pc[h] # "idle" ~> pc[h] = "idle"

\* A teardown asleep in the drain has a wake-up to come: some window is open, and
\* its close notifies, or a callback that closed the last one outside g_mutex is
\* about to notify.
NoLostWakeup ==
    \A t \in Closers \cup {Exiter} :
        pc[t] = "drain" => ~Drained \/ \E c \in Callbacks : pc[c] = "notify"

\* What a generation is to its callers: published, or how far its teardown is.
Life(s) ==
    IF g_session = s THEN "open"
    ELSE IF messaging[s] = "none" THEN "none"
    ELSE IF messaging[s] = "live" THEN "retired"
    ELSE IF store[s] = "running" THEN "stopped" ELSE "ended"

Lives == INSTANCE SessionLife WITH
    life <- [s \in Sessions |-> Life(s)], uses <- window, forced <- drainExpired

\* The library as the life of its sessions: one is open at a time, threads use only
\* that one, it is retired when nobody uses it, its Messaging is destroyed before
\* its store, and it never comes back.
SessionsLive == Lives!Spec

\* No command waits for a DagWorker with g_mutex held while every DagWorker is
\* parked on g_mutex in a receive callback (the ABBA cycle of 03-06).
NoCircularWait ==
    ~ /\ mutex \in jobs
      /\ \A w \in Workers : pc[w] \in {"copy", "leave"}

\* The exit hook ends even when a sender is wedged inside the node.  The one
\* exception is that cycle: the expired wait_for re-acquires g_mutex, and so
\* never returns when an entity command wedges with it during the drain.
ExitHookEnds ==
    pc[Exiter] = "exitLock" ~> (pc[Exiter] = "exited" \/ ~NoCircularWait)

-----------------------------------------------------------------------------
(* The inductive invariant behind NoUseAfterDestroy.                       *)

BuildPcs == {"initStore", "initJoin"}
WindowPcs == SendPcs \cup SubPcs \cup FunnelPcs
InWindow == {t \in Threads : window[t] # 0}

\* A thread holds g_mutex exactly while it is in a section that blocks.
MutexInv == \A h \in Hosts : mutex = h <=> pc[h] \in HoldPcs

\* A raw pointer is held exactly in the counted windows.
WindowInv == \A t \in Threads : window[t] # 0 <=> pc[t] \in WindowPcs

\* g_inFlight is the number of threads in a window: every path out of one
\* decrements it once.
CountInv == g_inFlight = Cardinality(InWindow)

\* Until the exit hook gives up draining, a window is on the current session.
CurrentInv == drainExpired \/ \A t \in InWindow : window[t] = g_session

\* The published session is alive; what teardowns hold is older and distinct.
SessionInv ==
    /\ g_session # 0 => Usable(g_session)
    /\ g_session <= opened
    /\ \A t \in Hosts \cup {Exiter} :
          evicted[t] # 0 => evicted[t] # g_session /\ evicted[t] <= opened

\* gcs_init builds a generation that nobody else knows.
BuildInv ==
    \A h \in Hosts :
        /\ pc[h] \in BuildPcs =>
              g_session = 0 /\ \A t \in Hosts \cup {Exiter} : evicted[t] < opened
        /\ pc[h] = "initJoin" => store[opened] = "running"

\* A command that holds g_mutex has the session it checked.
CommandInv ==
    drainExpired \/ \A h \in Hosts : pc[h] \in {"entityPut", "refresh"} => g_session # 0

IInv ==
    /\ TypeOK /\ MutexInv /\ WindowInv /\ CountInv /\ CurrentInv
    /\ SessionInv /\ BuildInv /\ CommandInv
=============================================================================
