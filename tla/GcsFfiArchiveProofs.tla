------------------------- MODULE GcsFfiArchiveProofs -------------------------
(***************************************************************************)
(* No teardown drops a queued archive write: the Messaging object is       *)
(* drained and destroyed before the store under it is shut down, whoever   *)
(* tears down and whatever callbacks queue meanwhile.  And the library     *)
(* implements SessionLife: what becomes of each session, of who uses it    *)
(* and of what a teardown does to it, for any number of closers.           *)
(***************************************************************************)
EXTENDS GcsFfiProofs

USE ThreadsAssumption, BoundsAssumption
USE DEF Threads, Callbacks, Sessions, Free, Goto,
        locks, flags, sdk, objs, dag, tear, calls, nums,
        SendPcs, SubPcs, HoldPcs, DrainPcs, TearPcs, HostPcs, FunnelPcs,
        CallbackPcs, ExitPcs, BuildPcs, WindowPcs

\* What is queued, or inside its Put, belongs to a Messaging that is alive over a
\* store that runs.
QueuedInv ==
    \A s \in Sessions : backlog[s] > 0 \/ Waiting(s) =>
        messaging[s] = "live" /\ store[s] = "running"

\* A teardown that has come to the store has destroyed the Messaging above it.
StagesInv ==
    \A t \in Hosts \cup {Exiter} :
        /\ pc[t] \in {"msgDown", "storeDown"} => evicted[t] # 0
        /\ pc[t] = "storeDown" => messaging[evicted[t]] # "live"

\* A generation that is not published yet has no live Messaging.
UnbuiltInv ==
    /\ \A s \in Sessions : s > opened => messaging[s] # "live"
    /\ \A h \in Hosts : pc[h] \in BuildPcs => messaging[opened] # "live"

ArchiveInv == drainExpired \/ (QueuedInv /\ StagesInv /\ UnbuiltInv)

\* A step that leaves the objects alone, queues no Put for a session, begins no init and
\* brings no teardown to its later stages.
QuietStep ==
    /\ UNCHANGED <<messaging, store, backlog, opened, drainExpired>>
    /\ \A s \in Sessions : Waiting(s)' => Waiting(s)
    /\ \A t \in Hosts \cup {Exiter} : pc'[t] \in {"msgDown", "storeDown"} =>
          pc'[t] = pc[t] /\ evicted'[t] = evicted[t]
    /\ \A h \in Hosts : pc'[h] \in BuildPcs => pc[h] \in BuildPcs

LEMMA QuietKeepsArchive ==
    ASSUME ArchiveInv, QuietStep
    PROVE  ArchiveInv'
  BY DEF ArchiveInv, QueuedInv, StagesInv, UnbuiltInv, QuietStep

\* A host is no session: its Puts are not the archive worker's.
LEMMA HostsPut ==
    ASSUME NEW h \in Hosts, jobs' \in {jobs, jobs \cup {h}}, UNCHANGED serving
    PROVE  \A s \in Sessions : Waiting(s)' => Waiting(s)
  BY DEF Waiting

\* The library as loaded has an empty queue.
LEMMA InitArchive == Init => ArchiveInv
<1> SUFFICES ASSUME Init PROVE QueuedInv /\ StagesInv /\ UnbuiltInv
  BY DEF ArchiveInv
<1>1. QueuedInv
  BY DEF Init, QueuedInv, Waiting
<1>2. StagesInv
  BY DEF Init, StagesInv
<1>3. UnbuiltInv
  BY DEF Init, UnbuiltInv
<1> QED
  BY <1>1, <1>2, <1>3

\* A call that enters the library: gcs_init takes the next generation, which has no
\* Messaging, and the rest touch no object.
LEMMA HostCallsArchive ==
    ASSUME IInv, ArchiveInv, NEW h \in Hosts, HostCalls(h)
    PROVE  ArchiveInv'
<1>0. TypeOK /\ PcOK /\ GlobalsOK /\ LocalsOK /\ MutexInv
  BY DEF IInv, TypeOK
<1>1. CASE gcs_init(h)
  <2>1. /\ opened' = opened + 1 /\ opened' \in Sessions /\ Free
        /\ pc' = [pc EXCEPT ![h] = "initStore"]
        /\ UNCHANGED <<messaging, store, backlog, jobs, serving, evicted, drainExpired>>
    BY <1>0, <1>1 DEF gcs_init, InitAdmits, LocalsOK
  <2>2. \A i \in Hosts : pc[i] \notin BuildPcs
    BY <1>0, <2>1 DEF MutexInv
  <2>3. QueuedInv => QueuedInv'
    BY <2>1 DEF QueuedInv, Waiting
  <2>4. StagesInv => StagesInv'
    BY <1>0, <2>1 DEF StagesInv, PcOK
  <2>5. UnbuiltInv => UnbuiltInv'
    BY <1>0, <2>1, <2>2 DEF UnbuiltInv, PcOK, LocalsOK
  <2> QED
    BY <2>1, <2>3, <2>4, <2>5 DEF ArchiveInv
<1>2. CASE gcs_init_again(h)
  BY <1>2, QuietKeepsArchive DEF QuietStep, gcs_init_again, Waiting
<1>3. CASE join_topic(h) \/ send_text(h)
  <2>1. QuietStep
    BY <1>0, <1>3 DEF QuietStep, PcOK, join_topic, send_text, Accepts, HandleMatches, Waiting
  <2> QED
    BY <2>1, QuietKeepsArchive
<1>4. CASE EntityCommand(h)
  <2>1. \A s \in Sessions : Waiting(s)' => Waiting(s)
    BY <1>4, HostsPut DEF EntityCommand
  <2>2. QuietStep
    BY <1>0, <1>4, <2>1 DEF QuietStep, PcOK, EntityCommand, Accepts, HandleMatches
  <2> QED
    BY <2>2, QuietKeepsArchive
<1>5. CASE gcs_shutdown(h)
  <2>1. QuietStep
    BY <1>0, <1>5 DEF QuietStep, PcOK, LocalsOK, gcs_shutdown, Evict, GateTeardown, Waiting
  <2> QED
    BY <2>1, QuietKeepsArchive
<1> QED
  BY <1>1, <1>2, <1>3, <1>4, <1>5 DEF HostCalls

\* A thread outside g_mutex queues no archive write.
LEMMA HostUnlockedArchive ==
    ASSUME IInv, ArchiveInv, NEW h \in Hosts, HostUnlocked(h)
    PROVE  ArchiveInv'
<1>0. TypeOK /\ PcOK
  BY DEF IInv, TypeOK
<1>1. CASE SubscribeLive(h) \/ SendPending(h) \/ SendPut(h) \/ SendTerminal(h)
  <2>1. QuietStep
    BY <1>0, <1>1 DEF QuietStep, PcOK, SubscribeLive, SendPending, SendPut, SendTerminal, Waiting
  <2> QED
    BY <2>1, QuietKeepsArchive
<1>2. CASE SendPublish(h)
  <2>1. \A s \in Sessions : Waiting(s)' => Waiting(s)
    BY <1>2, HostsPut DEF SendPublish
  <2>2. QuietStep
    BY <1>0, <1>2, <2>1 DEF QuietStep, PcOK, SendPublish
  <2> QED
    BY <2>2, QuietKeepsArchive
<1>3. CASE SubscribeReturn(h) \/ SendReturn(h)
  <2>1. QuietStep
    BY <1>0, <1>3 DEF QuietStep, PcOK, SubscribeReturn, SendReturn, GotoNotify, Waiting
  <2> QED
    BY <2>1, QuietKeepsArchive
<1> QED
  BY <1>1, <1>2, <1>3 DEF HostUnlocked

\* The sections that hold g_mutex build the newest generation: InitJoinFails shuts a
\* store down that has no Messaging, InitJoin gives one to a store that runs.
LEMMA HostLockedArchive ==
    ASSUME IInv, ArchiveInv, NEW h \in Hosts, HostLocked(h)
    PROVE  ArchiveInv'
<1>0. TypeOK /\ PcOK /\ GlobalsOK /\ ObjectsOK /\ LocalsOK /\ MutexInv /\ BuildInv
  BY DEF IInv, TypeOK
<1>1. CASE InitStoreFails(h)
  <2>1. QuietStep
    BY <1>0, <1>1 DEF QuietStep, PcOK, InitStoreFails, Waiting
  <2> QED
    BY <2>1, QuietKeepsArchive
<1>a. pc[h] \in BuildPcs => opened \in Sessions /\ \A t \in Hosts \cup {Exiter} : evicted[t] < opened
  BY <1>0 DEF BuildInv, LocalsOK
<1>2. CASE InitStore(h) \/ InitJoinFails(h)
  <2>1. /\ pc[h] \in BuildPcs
        /\ \E v \in {"running", "dead"} : store' = [store EXCEPT ![opened] = v]
        /\ \E label \in {"initJoin", "idle"} : pc' = [pc EXCEPT ![h] = label]
        /\ UNCHANGED <<messaging, backlog, jobs, serving, evicted, opened, drainExpired>>
    BY <1>0, <1>2 DEF InitStore, InitJoinFails
  <2>2. QueuedInv /\ UnbuiltInv => QueuedInv'
    BY <1>0, <1>a, <2>1 DEF QueuedInv, UnbuiltInv, Waiting, ObjectsOK
  <2>3. StagesInv => StagesInv'
    BY <1>0, <2>1 DEF StagesInv, PcOK
  <2>4. UnbuiltInv => UnbuiltInv'
    BY <1>0, <2>1 DEF UnbuiltInv, PcOK
  <2> QED
    BY <2>1, <2>2, <2>3, <2>4 DEF ArchiveInv
<1>3. CASE InitJoin(h)
  <2>1. /\ pc[h] = "initJoin" /\ store[opened] = "running"
        /\ messaging' = [messaging EXCEPT ![opened] = "live"]
        /\ pc' = [pc EXCEPT ![h] = "refresh"]
        /\ UNCHANGED <<store, backlog, jobs, serving, evicted, opened, drainExpired>>
    BY <1>0, <1>3 DEF InitJoin, BuildInv
  <2>2. \A i \in Hosts \ {h} : pc[i] \notin BuildPcs
    BY <1>0, <2>1 DEF MutexInv
  <2>3. QueuedInv => QueuedInv'
    BY <1>0, <1>a, <2>1 DEF QueuedInv, Waiting, ObjectsOK
  <2>4. StagesInv => StagesInv'
    BY <1>0, <1>a, <2>1 DEF StagesInv, PcOK, ObjectsOK, LocalsOK
  <2>5. UnbuiltInv => UnbuiltInv'
    BY <1>0, <1>a, <2>1, <2>2 DEF UnbuiltInv, PcOK, ObjectsOK, LocalsOK
  <2> QED
    BY <2>1, <2>3, <2>4, <2>5 DEF ArchiveInv
<1>4. CASE RefreshDerivedJoins(h) \/ RefreshReturn(h)
  <2>1. QuietStep
    BY <1>0, <1>4 DEF QuietStep, PcOK, RefreshDerivedJoins, RefreshReturn, Waiting
  <2> QED
    BY <2>1, QuietKeepsArchive
<1>5. CASE EntityPut(h)
  <2>1. \A s \in Sessions : Waiting(s)' => Waiting(s)
    BY <1>5, HostsPut DEF EntityPut
  <2>2. QuietStep
    BY <1>0, <1>5, <2>1 DEF QuietStep, PcOK, EntityPut
  <2> QED
    BY <2>2, QuietKeepsArchive
<1> QED
  BY <1>1, <1>2, <1>3, <1>4, <1>5 DEF HostLocked

\* A callback queues into the Messaging of its window, which is the published one's; a
\* job keeps its owner waiting from the queue to the end of the DagWorker's callback.
LEMMA CallbackArchive ==
    ASSUME IInv, ArchiveInv, NEW c \in Callbacks, CallbackStep(c)
    PROVE  ArchiveInv'
<1>0. TypeOK /\ PcOK /\ ObjectsOK /\ LocalsOK /\ WindowInv /\ CurrentInv /\ SessionInv
  BY DEF IInv, TypeOK
<1>1. CASE CallbackGate(c) \/ CallbackCopy(c) \/ CallbackLeave(c)
  <2>1. QuietStep
    BY <1>0, <1>1 DEF QuietStep, PcOK, CallbackGate, CallbackCopy, CallbackLeave, Waiting
  <2> QED
    BY <2>1, QuietKeepsArchive
<1>2. CASE CallbackNotify(c)
  <2>1. QuietStep
    BY <1>0, <1>2 DEF QuietStep, PcOK, CallbackNotify, GotoNotify, Waiting
  <2> QED
    BY <2>1, QuietKeepsArchive
<1>3. CASE CallbackReturns(c)
  <2>1. \A s \in Sessions : Waiting(s)' => Waiting(s)
    BY <1>0, <1>3 DEF CallbackReturns, Waiting, ObjectsOK
  <2>2. QuietStep
    BY <1>0, <1>3, <2>1 DEF QuietStep, PcOK, CallbackReturns
  <2> QED
    BY <2>2, QuietKeepsArchive
<1>4. CASE CallbackFunnel(c)
  <2>1. /\ pc[c] = "funnel" /\ pc' = [pc EXCEPT ![c] = "leave"]
        /\ backlog' \in {backlog, [backlog EXCEPT ![window[c]] = @ + 1]}
        /\ UNCHANGED <<messaging, store, jobs, serving, evicted, opened, drainExpired>>
    BY <1>4 DEF CallbackFunnel
  <2>2. window[c] # 0 /\ window[c] \in Sessions
    BY <1>0, <2>1 DEF WindowInv, LocalsOK
  <2>3. ~drainExpired => messaging[window[c]] = "live" /\ store[window[c]] = "running"
    BY <1>0, <2>2 DEF CurrentInv, SessionInv, Usable, InWindow
  <2>4. ~drainExpired /\ QueuedInv => QueuedInv'
    BY <1>0, <2>1, <2>2, <2>3 DEF QueuedInv, Waiting, ObjectsOK
  <2>5. StagesInv => StagesInv'
    BY <1>0, <2>1 DEF StagesInv, PcOK
  <2>6. UnbuiltInv => UnbuiltInv'
    BY <1>0, <2>1 DEF UnbuiltInv, PcOK
  <2> QED
    BY <2>1, <2>4, <2>5, <2>6 DEF ArchiveInv
<1> QED
  BY <1>1, <1>2, <1>3, <1>4 DEF CallbackStep

\* The DagWorkers and the archive thread move what is queued from one place to the next.
LEMMA WorkersArchive ==
    ASSUME IInv, ArchiveInv,
           \/ \E w \in Workers : WorkerTakes(w)
           \/ StrandDelivers
           \/ \E s \in Sessions : ArchiveWorker(s)
    PROVE  ArchiveInv'
<1>0. TypeOK /\ PcOK /\ ObjectsOK
  BY DEF IInv, TypeOK
<1>1. ASSUME NEW w \in Workers, WorkerTakes(w)
      PROVE  ArchiveInv'
  <2>1. \A s \in Sessions : Waiting(s)' => Waiting(s)
    BY <1>0, <1>1 DEF WorkerTakes, Waiting, ObjectsOK
  <2>2. QuietStep
    BY <1>0, <1>1, <2>1 DEF QuietStep, PcOK, WorkerTakes
  <2> QED
    BY <2>2, QuietKeepsArchive
<1>2. CASE StrandDelivers
  <2>1. QuietStep
    BY <1>0, <1>2 DEF QuietStep, PcOK, StrandDelivers, Waiting
  <2> QED
    BY <2>1, QuietKeepsArchive
<1>3. ASSUME NEW s \in Sessions, ArchiveWorker(s)
      PROVE  ArchiveInv'
  <2>1. /\ backlog[s] > 0 /\ backlog' = [backlog EXCEPT ![s] = @ - 1]
        /\ jobs' \in {jobs, jobs \cup {s}}
        /\ UNCHANGED <<messaging, store, serving, pc, evicted, opened, drainExpired>>
    BY <1>3 DEF ArchiveWorker
  <2>2. QueuedInv => QueuedInv'
    BY <1>0, <2>1 DEF QueuedInv, Waiting, ObjectsOK
  <2>3. StagesInv => StagesInv'
    BY <2>1 DEF StagesInv
  <2>4. UnbuiltInv => UnbuiltInv'
    BY <2>1 DEF UnbuiltInv
  <2> QED
    BY <2>1, <2>2, <2>3, <2>4 DEF ArchiveInv
<1> QED
  BY <1>1, <1>2, <1>3

\* Destruction in stages: a Messaging dies with nothing queued, a store under a dead one.
LEMMA TeardownArchive ==
    ASSUME IInv, ArchiveInv, NEW t \in Closers \cup {Exiter}, Teardown(t)
    PROVE  ArchiveInv'
<1>0. TypeOK /\ PcOK /\ ObjectsOK /\ LocalsOK /\ t \in Hosts \cup {Exiter}
  BY DEF IInv, TypeOK
<1>1. CASE DrainWakes(t)
  <2>1. QuietStep
    BY <1>0, <1>1 DEF QuietStep, PcOK, LocalsOK, DrainWakes, Evict, GateTeardown, Waiting
  <2> QED
    BY <2>1, QuietKeepsArchive
<1>2. CASE TearNode(t)
  <2>1. /\ pc' = [pc EXCEPT ![t] = IF evicted[t] = 0 THEN "relock" ELSE "msgDown"]
        /\ UNCHANGED <<messaging, store, backlog, jobs, serving, evicted, opened, drainExpired>>
    BY <1>2 DEF TearNode, NextStage
  <2>2. QueuedInv => QueuedInv'
    BY <2>1 DEF QueuedInv, Waiting
  <2>3. StagesInv => StagesInv'
    BY <1>0, <2>1 DEF StagesInv, PcOK
  <2>4. UnbuiltInv => UnbuiltInv'
    BY <1>0, <2>1 DEF UnbuiltInv, PcOK
  <2> QED
    BY <2>1, <2>2, <2>3, <2>4 DEF ArchiveInv
<1>3. CASE TearMessaging(t)
  <2>1. /\ pc[t] = "msgDown" /\ pc' = [pc EXCEPT ![t] = "storeDown"]
        /\ backlog[evicted[t]] = 0 /\ ~Waiting(evicted[t])
        /\ messaging' = [messaging EXCEPT ![evicted[t]] = "dead"]
        /\ UNCHANGED <<store, backlog, jobs, serving, evicted, opened, drainExpired>>
    BY <1>3 DEF TearMessaging, NextStage
  <2>2. QueuedInv => QueuedInv'
    BY <1>0, <2>1 DEF QueuedInv, Waiting, ObjectsOK
  <2>3. StagesInv => StagesInv'
    BY <1>0, <2>1 DEF StagesInv, PcOK, ObjectsOK, LocalsOK
  <2>4. UnbuiltInv => UnbuiltInv'
    BY <1>0, <2>1 DEF UnbuiltInv, PcOK, ObjectsOK, LocalsOK
  <2> QED
    BY <2>1, <2>2, <2>3, <2>4 DEF ArchiveInv
<1>4. CASE TearStore(t)
  <2>1. /\ pc[t] = "storeDown" /\ pc' = [pc EXCEPT ![t] = "relock"]
        /\ store' = [store EXCEPT ![evicted[t]] = "dead"]
        /\ UNCHANGED <<messaging, backlog, jobs, serving, evicted, opened, drainExpired>>
    BY <1>4 DEF TearStore, NextStage
  <2>2. QueuedInv /\ StagesInv => QueuedInv'
    BY <1>0, <2>1 DEF QueuedInv, StagesInv, Waiting, ObjectsOK
  <2>3. StagesInv => StagesInv'
    BY <1>0, <2>1 DEF StagesInv, PcOK
  <2>4. UnbuiltInv => UnbuiltInv'
    BY <1>0, <2>1 DEF UnbuiltInv, PcOK
  <2> QED
    BY <2>1, <2>2, <2>3, <2>4 DEF ArchiveInv
<1>5. CASE TearReturns(t)
  <2>1. QuietStep
    BY <1>0, <1>5 DEF QuietStep, PcOK, LocalsOK, TearReturns, Waiting
  <2> QED
    BY <2>1, QuietKeepsArchive
<1> QED
  BY <1>1, <1>2, <1>3, <1>4, <1>5 DEF Teardown

\* The exit hook evicts or gives up; one whose drain expired is excepted.
LEMMA ExitArchive ==
    ASSUME IInv, ArchiveInv, ExitHook \/ ExitStep
    PROVE  ArchiveInv'
<1>0. TypeOK /\ PcOK /\ LocalsOK
  BY DEF IInv, TypeOK
<1>1. CASE ExitHook \/ ExitLock \/ ExitAbandons
  <2>1. QuietStep
    BY <1>0, <1>1 DEF QuietStep, PcOK, LocalsOK, ExitHook, ExitLock, ExitAbandons, Evict,
       GateTeardown, Waiting
  <2> QED
    BY <2>1, QuietKeepsArchive
<1>2. CASE ExitExpires
  BY <1>2 DEF ExitExpires, ArchiveInv
<1> QED
  BY <1>1, <1>2 DEF ExitStep

\* Every step keeps the invariant.
LEMMA NextArchive == IInv /\ ArchiveInv /\ [Next]_vars => ArchiveInv'
<1> SUFFICES ASSUME IInv, ArchiveInv, [Next]_vars PROVE ArchiveInv'
  OBVIOUS
<1>1. CASE \E h \in Hosts : HostCalls(h) \/ HostUnlocked(h) \/ HostLocked(h)
  BY <1>1, HostCallsArchive, HostUnlockedArchive, HostLockedArchive
<1>2. CASE \/ \E w \in Workers : WorkerTakes(w)
           \/ StrandDelivers
           \/ \E s \in Sessions : ArchiveWorker(s)
  BY <1>2, WorkersArchive
<1>3. CASE \E c \in Callbacks : CallbackStep(c)
  BY <1>3, CallbackArchive
<1>4. CASE \E t \in Closers \cup {Exiter} : Teardown(t)
  BY <1>4, TeardownArchive
<1>5. CASE ExitHook \/ ExitStep
  BY <1>5, ExitArchive
<1>6. CASE Quiescent \/ UNCHANGED vars
  <2>1. QuietStep
    BY <1>6 DEF QuietStep, Quiescent, vars, Waiting
  <2> QED
    BY <2>1, QuietKeepsArchive
<1> QED
  BY <1>1, <1>2, <1>3, <1>4, <1>5, <1>6 DEF Next

\* The order of TeardownSessionAndNode (WR-01): while an archive write is queued in a
\* Messaging or inside its Put, the store under it runs, for any number of threads,
\* sessions, closers and messages, unless the exit hook's drain has run out.
THEOREM QueuedWritesLand == Spec => []ArchiveWritesLand
<1>1. ArchiveInv => ArchiveWritesLand
  BY DEF ArchiveInv, QueuedInv, ArchiveWritesLand
<1> QED
  BY <1>1, InitArchive, NextArchive, Inductive, PTL DEF Spec

-----------------------------------------------------------------------------
(* The refinement of SessionLife.                                          *)

\* The generations to come have no Messaging.
FutureInv ==
    /\ \A s \in Sessions : s > opened => messaging[s] = "none"
    /\ \A h \in Hosts : pc[h] \in BuildPcs => messaging[opened] = "none"

\* A teardown holds a generation from the eviction to its return, as far destroyed as
\* its stage says, and no two hold the same.
HeldInv ==
    /\ \A t \in Hosts \cup {Exiter} :
          /\ pc[t] \notin TearPcs => evicted[t] = 0
          /\ pc[t] \in {"sdkDown", "msgDown"} /\ evicted[t] # 0 => Usable(evicted[t])
          /\ pc[t] \in {"msgDown", "storeDown"} => evicted[t] # 0
          /\ pc[t] = "storeDown" =>
                messaging[evicted[t]] = "dead" /\ store[evicted[t]] = "running"
    /\ \A t, u \in Hosts \cup {Exiter} : evicted[t] # 0 /\ evicted[t] = evicted[u] => t = u

LifeInv == FutureInv /\ HeldInv

Phases == [s \in Sessions |-> Life(s)]

\* A step is one of SessionLife's, or changes nothing of it.
Allowed == Lives!Next \/ UNCHANGED <<Phases, window, drainExpired>>

\* No session changes, and nobody begins an init or moves in a teardown.
Aside ==
    /\ UNCHANGED <<messaging, store, g_session, evicted, opened, drainExpired>>
    /\ \A t \in Hosts \cup {Exiter} :
          pc'[t] = pc[t] \/ (pc[t] \notin TearPcs /\ pc'[t] \notin TearPcs)
    /\ \A h \in Hosts : pc'[h] \in BuildPcs => pc[h] \in BuildPcs

\* A step aside keeps the invariant and the life of every session.
LEMMA AsideKeeps ==
    ASSUME LifeInv, Aside
    PROVE  LifeInv' /\ Phases' = Phases
<1>1. FutureInv'
  BY DEF LifeInv, FutureInv, Aside
<1>2. HeldInv'
  BY DEF LifeInv, HeldInv, Aside, Usable
<1>3. Phases' = Phases
  BY DEF Phases, Life, Aside
<1> QED
  BY <1>1, <1>2, <1>3 DEF LifeInv

\* A thread aside that leaves the windows alone takes no step of SessionLife.
LEMMA AsideStutters ==
    ASSUME LifeInv, Aside, UNCHANGED window
    PROVE  LifeInv' /\ Allowed
  BY AsideKeeps DEF Allowed, Aside

\* A window is opened on the session that is open.
LEMMA AsideEnters ==
    ASSUME IInv, LifeInv, Aside, NEW t \in Threads, pc[t] \notin WindowPcs, g_session # 0,
           EnterWindow(t)
    PROVE  LifeInv' /\ Allowed
<1>1. g_session \in Sessions /\ window[t] = 0 /\ window' = [window EXCEPT ![t] = g_session]
  BY DEF IInv, TypeOK, GlobalsOK, WindowInv, EnterWindow
<1>2. Phases[g_session] = "open" /\ UNCHANGED <<Phases, drainExpired>> /\ LifeInv'
  BY <1>1, AsideKeeps DEF Phases, Life, Aside
<1>3. Lives!Use(t, g_session)
  BY <1>1, <1>2 DEF Lives!Use, Phases
<1> QED
  BY <1>1, <1>2, <1>3 DEF Allowed, Lives!Next

\* A window is closed.
LEMMA AsideLeaves ==
    ASSUME IInv, LifeInv, Aside, NEW t \in Threads, pc[t] \in WindowPcs, LeaveWindow(t)
    PROVE  LifeInv' /\ Allowed
<1>1. window[t] # 0 /\ window' = [window EXCEPT ![t] = 0]
  BY DEF IInv, WindowInv, LeaveWindow
<1>2. UNCHANGED <<Phases, drainExpired>> /\ LifeInv'
  BY AsideKeeps DEF Aside
<1>3. Lives!Release(t)
  BY <1>1, <1>2 DEF Lives!Release, Phases
<1> QED
  BY <1>2, <1>3 DEF Allowed, Lives!Next

\* One session moves on.
LEMMA OneMoves ==
    ASSUME NEW e \in Sessions, NEW from, NEW to, Life(e) = from, Life(e)' = to,
           \A s \in Sessions \ {e} : Life(s)' = Life(s)
    PROVE  Lives!Move(e, from, to)
<1>1. Phases[e] = from /\ Phases' = [Phases EXCEPT ![e] = to]
  BY DEF Phases
<1> QED
  BY <1>1 DEF Lives!Move, Phases

\* TeardownSessionAndNode's eviction retires the session, if there is one: with no
\* window open, or with the exit hook's drain run out.
LEMMA EvictRetires ==
    ASSUME IInv, LifeInv, NEW t \in Closers \cup {Exiter}, pc[t] \notin TearPcs, Evict(t),
           UNCHANGED <<messaging, store, opened, window>>,
           \/ Drained /\ UNCHANGED drainExpired
           \/ ~Drained /\ drainExpired' = TRUE
    PROVE  LifeInv' /\ Allowed
<1>0. TypeOK /\ PcOK /\ LocalsOK /\ GlobalsOK /\ SessionInv /\ CountInv /\ CurrentInv /\ t \in Hosts \cup {Exiter}
  BY DEF IInv, TypeOK
<1>1. /\ evicted' = [evicted EXCEPT ![t] = g_session] /\ g_session' = 0
      /\ pc' = [pc EXCEPT ![t] = "sdkDown"]
      /\ UNCHANGED <<messaging, store, opened, window>>
  BY DEF Evict
<1>2. FutureInv'
  BY <1>0, <1>1 DEF LifeInv, FutureInv, PcOK
<1>3. HeldInv'
  <2>1. \A u \in Hosts \cup {Exiter} :
           /\ pc'[u] = IF u = t THEN "sdkDown" ELSE pc[u]
           /\ evicted'[u] = IF u = t THEN g_session ELSE evicted[u]
    BY <1>0, <1>1 DEF PcOK, LocalsOK
  <2>2. \A u \in Hosts \cup {Exiter} : evicted[u] # 0 => evicted[u] # g_session
    BY <1>0 DEF SessionInv
  <2>3. g_session # 0 => Usable(g_session)
    BY <1>0 DEF SessionInv
  <2> QED
    BY <1>1, <2>1, <2>2, <2>3 DEF LifeInv, HeldInv, Usable
<1>4. CASE g_session = 0
  <2>1. Phases' = Phases
    BY <1>1, <1>4 DEF Phases, Life
  <2>2. UNCHANGED drainExpired
    <3>1. ~Drained => drainExpired
      <4>1. ASSUME ~Drained, ~drainExpired PROVE FALSE
        <5>1. \A u \in InWindow : window[u] = 0
          BY <1>0, <1>4, <4>1 DEF CurrentInv
        <5>2. InWindow = {}
          BY <5>1 DEF InWindow
        <5> QED
          BY <1>0, <4>1, <5>2, FS_EmptySet DEF CountInv, Drained
      <4> QED
        BY <4>1
    <3> QED
      BY <1>0, <3>1 DEF GlobalsOK
  <2> QED
    BY <1>1, <1>2, <1>3, <2>1, <2>2 DEF Allowed, LifeInv
<1>5. CASE g_session # 0
  <2>0. PICK e \in Sessions : e = g_session /\ Usable(e)
    BY <1>0, <1>5 DEF SessionInv, GlobalsOK
  <2>2. Lives!Move(e, "open", "retired")
    <3>1. Life(e) = "open" /\ Life(e)' = "retired"
      BY <1>1, <1>5, <2>0 DEF Life, Usable
    <3>2. \A s \in Sessions \ {e} : Life(s)' = Life(s)
      BY <1>1, <1>5, <2>0 DEF Life
    <3> QED
      BY <3>1, <3>2, OneMoves
  <2>3. Drained => \A u \in Threads : window[u] # e
    BY <1>0, <1>5, <2>0, DrainedEmpty DEF InWindow
  <2>4. Lives!Retire(e)
    BY <1>1, <2>2, <2>3 DEF Lives!Retire
  <2> QED
    BY <1>2, <1>3, <2>0, <2>4 DEF Allowed, LifeInv, Lives!Next
<1> QED
  BY <1>4, <1>5

\* A call that enters the library opens a window on the open session, evicts it, or
\* leaves it; gcs_init takes a generation, and publishes none yet.
LEMMA HostCallsLife ==
    ASSUME IInv, LifeInv, NEW h \in Hosts, HostCalls(h)
    PROVE  LifeInv' /\ Allowed
<1>0. TypeOK /\ PcOK /\ GlobalsOK /\ LocalsOK /\ MutexInv
  BY DEF IInv, TypeOK
<1>1. CASE gcs_init(h)
  <2>1. /\ opened' = opened + 1 /\ opened' \in Sessions /\ Free
        /\ pc[h] = "idle" /\ pc' = [pc EXCEPT ![h] = "initStore"]
        /\ UNCHANGED <<messaging, store, g_session, window, evicted, drainExpired>>
    BY <1>0, <1>1 DEF gcs_init, InitAdmits, LocalsOK
  <2>2. FutureInv'
    BY <1>0, <2>1 DEF LifeInv, FutureInv, LocalsOK
  <2>3. HeldInv'
    BY <1>0, <2>1 DEF LifeInv, HeldInv, Usable, PcOK
  <2>4. Phases' = Phases
    BY <2>1 DEF Phases, Life
  <2> QED
    BY <2>1, <2>2, <2>3, <2>4 DEF LifeInv, Allowed
<1>2. CASE gcs_init_again(h)
  BY <1>2, AsideStutters DEF Aside, gcs_init_again
<1>3. CASE join_topic(h) \/ send_text(h)
  <2>1. Aside
    BY <1>0, <1>3 DEF Aside, PcOK, join_topic, send_text, Accepts, HandleMatches
  <2>2. pc[h] \notin WindowPcs /\ g_session # 0 /\ EnterWindow(h)
    BY <1>0, <1>3 DEF join_topic, send_text, Accepts, HandleMatches, LocalsOK
  <2> QED
    BY <2>1, <2>2, AsideEnters
<1>4. CASE EntityCommand(h)
  <2>1. Aside
    BY <1>0, <1>4 DEF Aside, PcOK, EntityCommand, Accepts, HandleMatches
  <2> QED
    BY <1>4, <2>1, AsideStutters DEF EntityCommand
<1>5. CASE gcs_shutdown(h)
  <2>1. CASE Drained /\ Evict(h)
    BY <1>5, <2>1, EvictRetires DEF gcs_shutdown
  <2>2. CASE pc' = [pc EXCEPT ![h] = "drain"] /\ UNCHANGED <<sdk, evicted, g_session>>
    <3>1. Aside
      BY <1>0, <1>5, <2>2 DEF Aside, PcOK, gcs_shutdown
    <3> QED
      BY <1>5, <3>1, AsideStutters DEF gcs_shutdown
  <2> QED
    BY <1>5, <2>1, <2>2 DEF gcs_shutdown
<1> QED
  BY <1>1, <1>2, <1>3, <1>4, <1>5 DEF HostCalls

\* A thread outside g_mutex works on the session of its window, then closes it.
LEMMA HostUnlockedLife ==
    ASSUME IInv, LifeInv, NEW h \in Hosts, HostUnlocked(h)
    PROVE  LifeInv' /\ Allowed
<1>0. TypeOK /\ PcOK
  BY DEF IInv, TypeOK
<1>1. CASE SubscribeLive(h) \/ SendPending(h) \/ SendPublish(h) \/ SendPut(h) \/ SendTerminal(h)
  <2>1. Aside /\ UNCHANGED window
    BY <1>0, <1>1 DEF Aside, PcOK, SubscribeLive, SendPending, SendPublish, SendPut, SendTerminal
  <2> QED
    BY <2>1, AsideStutters
<1>2. CASE SubscribeReturn(h) \/ SendReturn(h)
  <2>1. Aside
    BY <1>0, <1>2 DEF Aside, PcOK, SubscribeReturn, SendReturn, GotoNotify
  <2>2. pc[h] \in WindowPcs /\ LeaveWindow(h)
    BY <1>2 DEF SubscribeReturn, SendReturn
  <2> QED
    BY <2>1, <2>2, AsideLeaves
<1> QED
  BY <1>1, <1>2 DEF HostUnlocked

\* gcs_init opens the session it built, a generation nobody has seen, when no other is
\* open; what it discards was never open.
LEMMA HostLockedLife ==
    ASSUME IInv, LifeInv, NEW h \in Hosts, HostLocked(h)
    PROVE  LifeInv' /\ Allowed
<1>0. TypeOK /\ PcOK /\ GlobalsOK /\ ObjectsOK /\ LocalsOK /\ MutexInv /\ BuildInv
  BY DEF IInv, TypeOK
<1>1. CASE InitStoreFails(h) \/ RefreshReturn(h) \/ EntityPut(h)
  <2>1. Aside /\ UNCHANGED window
    BY <1>0, <1>1 DEF Aside, PcOK, InitStoreFails, RefreshReturn, EntityPut
  <2> QED
    BY <2>1, AsideStutters
<1>2. CASE RefreshDerivedJoins(h)
  <2>1. Aside
    BY <1>0, <1>2 DEF Aside, PcOK, RefreshDerivedJoins
  <2>2. pc[h] \notin WindowPcs /\ g_session # 0 /\ EnterWindow(h)
    BY <1>2 DEF RefreshDerivedJoins
  <2> QED
    BY <2>1, <2>2, AsideEnters
<1>a. pc[h] \in BuildPcs =>
         opened \in Sessions /\ g_session = 0 /\ \A t \in Hosts \cup {Exiter} : evicted[t] < opened
  BY <1>0 DEF BuildInv, LocalsOK
<1>3. CASE InitStore(h) \/ InitJoinFails(h)
  <2>1. /\ pc[h] \in BuildPcs
        /\ \E v \in {"running", "dead"} : store' = [store EXCEPT ![opened] = v]
        /\ \E label \in {"initJoin", "idle"} : pc' = [pc EXCEPT ![h] = label]
        /\ UNCHANGED <<messaging, g_session, window, evicted, opened, drainExpired>>
    BY <1>0, <1>3 DEF InitStore, InitJoinFails
  <2>2. FutureInv'
    BY <1>0, <2>1 DEF LifeInv, FutureInv, PcOK
  <2>3. HeldInv'
    BY <1>0, <1>a, <2>1 DEF LifeInv, HeldInv, Usable, PcOK, ObjectsOK
  <2>4. Phases' = Phases
    BY <1>0, <1>a, <2>1 DEF Phases, Life, LifeInv, FutureInv, ObjectsOK
  <2> QED
    BY <2>1, <2>2, <2>3, <2>4 DEF LifeInv, Allowed
<1>4. CASE InitJoin(h)
  <2>1. /\ pc[h] = "initJoin" /\ store[opened] = "running" /\ messaging[opened] = "none"
        /\ messaging' = [messaging EXCEPT ![opened] = "live"] /\ g_session' = opened
        /\ pc' = [pc EXCEPT ![h] = "refresh"]
        /\ UNCHANGED <<store, window, evicted, opened, drainExpired>>
    BY <1>0, <1>4 DEF InitJoin, BuildInv, LifeInv, FutureInv
  <2>2. \A i \in Hosts \ {h} : pc[i] \notin BuildPcs
    BY <1>0, <2>1 DEF MutexInv
  <2>3. FutureInv'
    BY <1>0, <1>a, <2>1, <2>2 DEF LifeInv, FutureInv, PcOK, ObjectsOK, LocalsOK
  <2>4. HeldInv'
    BY <1>0, <1>a, <2>1 DEF LifeInv, HeldInv, Usable, PcOK, ObjectsOK, LocalsOK
  <2>5. PICK e \in Sessions : e = opened
    BY <1>a, <2>1
  <2>6. Life(e) = "none" /\ Life(e)' = "open" /\ \A s \in Sessions \ {e} : Life(s)' = Life(s)
    BY <1>0, <1>a, <2>1, <2>5 DEF Life, ObjectsOK
  <2>7. \A r \in Sessions : Life(r) # "open"
    BY <1>a, <2>1 DEF Life
  <2>8. Lives!Open(e)
    BY <2>1, <2>6, <2>7, OneMoves DEF Lives!Open
  <2> QED
    BY <2>3, <2>4, <2>8 DEF LifeInv, Allowed, Lives!Next
<1> QED
  BY <1>1, <1>2, <1>3, <1>4 DEF HostLocked

\* A callback finds the open session or nothing; the workers touch no session.
LEMMA CallbacksLife ==
    ASSUME IInv, LifeInv,
           \/ \E c \in Callbacks : CallbackStep(c)
           \/ \E w \in Workers : WorkerTakes(w)
           \/ StrandDelivers
           \/ \E s \in Sessions : ArchiveWorker(s)
    PROVE  LifeInv' /\ Allowed
<1>0. TypeOK /\ PcOK
  BY DEF IInv, TypeOK
<1>1. ASSUME NEW c \in Callbacks,
             \/ CallbackGate(c) \/ CallbackFunnel(c) \/ CallbackNotify(c) \/ CallbackReturns(c)
             \/ CallbackCopy(c) /\ UNCHANGED window
      PROVE  LifeInv' /\ Allowed
  <2>1. Aside /\ UNCHANGED window
    BY <1>0, <1>1 DEF Aside, PcOK, CallbackGate, CallbackFunnel, CallbackNotify, CallbackReturns,
       CallbackCopy, GotoNotify
  <2> QED
    BY <2>1, AsideStutters
<1>2. ASSUME NEW c \in Callbacks, CallbackCopy(c), g_session # 0, EnterWindow(c)
      PROVE  LifeInv' /\ Allowed
  <2>1. Aside /\ pc[c] \notin WindowPcs
    BY <1>0, <1>2 DEF Aside, PcOK, CallbackCopy
  <2> QED
    BY <1>2, <2>1, AsideEnters
<1>3. ASSUME NEW c \in Callbacks, CallbackLeave(c)
      PROVE  LifeInv' /\ Allowed
  <2>1. Aside /\ pc[c] \in WindowPcs /\ LeaveWindow(c)
    BY <1>0, <1>3 DEF Aside, PcOK, CallbackLeave
  <2> QED
    BY <2>1, AsideLeaves
<1>4. CASE \E c \in Callbacks : CallbackStep(c)
  BY <1>1, <1>2, <1>3, <1>4 DEF CallbackStep, CallbackCopy
<1>5. ASSUME NEW w \in Workers, WorkerTakes(w)
      PROVE  LifeInv' /\ Allowed
  <2>1. Aside /\ UNCHANGED window
    BY <1>0, <1>5 DEF Aside, PcOK, WorkerTakes
  <2> QED
    BY <2>1, AsideStutters
<1>6. CASE StrandDelivers \/ \E s \in Sessions : ArchiveWorker(s)
  <2>1. Aside /\ UNCHANGED window
    BY <1>0, <1>6 DEF Aside, PcOK, StrandDelivers, ArchiveWorker
  <2> QED
    BY <2>1, AsideStutters
<1> QED
  BY <1>4, <1>5, <1>6

\* A teardown stops the Messaging of the session it evicted, then ends its store.
LEMMA TeardownLife ==
    ASSUME IInv, LifeInv, NEW t \in Closers \cup {Exiter}, Teardown(t)
    PROVE  LifeInv' /\ Allowed
<1>0. TypeOK /\ PcOK /\ ObjectsOK /\ LocalsOK /\ SessionInv /\ t \in Hosts \cup {Exiter}
  BY DEF IInv, TypeOK
<1>1. CASE DrainWakes(t)
  <2>1. CASE Drained /\ Evict(t)
    BY <1>1, <2>1, EvictRetires DEF DrainWakes
  <2>2. CASE pc' = [pc EXCEPT ![t] = "drain"] /\ UNCHANGED <<sdk, evicted, g_session>>
    <3>1. Aside /\ UNCHANGED window
      BY <1>0, <1>1, <2>2 DEF Aside, PcOK, DrainWakes
    <3> QED
      BY <3>1, AsideStutters
  <2> QED
    BY <1>1, <2>1, <2>2 DEF DrainWakes
<1>2. CASE TearNode(t)
  <2>1. /\ pc[t] = "sdkDown"
        /\ pc' = [pc EXCEPT ![t] = IF evicted[t] = 0 THEN "relock" ELSE "msgDown"]
        /\ UNCHANGED <<messaging, store, g_session, window, evicted, opened, drainExpired>>
    BY <1>2 DEF TearNode, NextStage
  <2>2. FutureInv'
    BY <1>0, <2>1 DEF LifeInv, FutureInv, PcOK
  <2>3. HeldInv'
    BY <1>0, <2>1 DEF LifeInv, HeldInv, Usable, PcOK
  <2>4. Phases' = Phases
    BY <2>1 DEF Phases, Life
  <2> QED
    BY <2>1, <2>2, <2>3, <2>4 DEF LifeInv, Allowed
<1>3. CASE TearMessaging(t)
  <2>1. /\ pc[t] = "msgDown" /\ pc' = [pc EXCEPT ![t] = "storeDown"]
        /\ evicted[t] # 0 /\ Usable(evicted[t]) /\ evicted[t] # g_session
        /\ messaging' = [messaging EXCEPT ![evicted[t]] = "dead"]
        /\ UNCHANGED <<store, g_session, window, evicted, opened, drainExpired>>
    BY <1>0, <1>3 DEF TearMessaging, NextStage, LifeInv, HeldInv, SessionInv
  <2>2. PICK e \in Sessions : e = evicted[t]
    BY <2>1 DEF Usable
  <2>3. FutureInv'
    BY <1>0, <2>1 DEF LifeInv, FutureInv, Usable, PcOK, ObjectsOK
  <2>4. HeldInv'
    BY <1>0, <2>1 DEF LifeInv, HeldInv, Usable, PcOK, ObjectsOK
  <2>5. Life(e) = "retired" /\ Life(e)' = "stopped" /\ \A s \in Sessions \ {e} : Life(s)' = Life(s)
    BY <1>0, <2>1, <2>2 DEF Life, Usable, ObjectsOK
  <2>6. Lives!Stop(e)
    BY <2>1, <2>5, OneMoves DEF Lives!Stop
  <2> QED
    BY <2>3, <2>4, <2>6 DEF LifeInv, Allowed, Lives!Next
<1>4. CASE TearStore(t)
  <2>1. /\ pc[t] = "storeDown" /\ pc' = [pc EXCEPT ![t] = "relock"]
        /\ evicted[t] # 0 /\ evicted[t] # g_session
        /\ messaging[evicted[t]] = "dead" /\ store[evicted[t]] = "running"
        /\ store' = [store EXCEPT ![evicted[t]] = "dead"]
        /\ UNCHANGED <<messaging, g_session, window, evicted, opened, drainExpired>>
    BY <1>0, <1>4 DEF TearStore, NextStage, LifeInv, HeldInv, SessionInv
  <2>2. PICK e \in Sessions : e = evicted[t]
    BY <1>0, <2>1 DEF LocalsOK
  <2>3. FutureInv'
    BY <1>0, <2>1 DEF LifeInv, FutureInv, PcOK
  <2>4. HeldInv'
    BY <1>0, <2>1 DEF LifeInv, HeldInv, Usable, PcOK, ObjectsOK
  <2>5. Life(e) = "stopped" /\ Life(e)' = "ended" /\ \A s \in Sessions \ {e} : Life(s)' = Life(s)
    BY <1>0, <2>1, <2>2 DEF Life, ObjectsOK
  <2>6. Lives!End(e)
    BY <2>1, <2>5, OneMoves DEF Lives!End
  <2> QED
    BY <2>3, <2>4, <2>6 DEF LifeInv, Allowed, Lives!Next
<1>5. CASE TearReturns(t)
  <2>1. /\ pc[t] = "relock"
        /\ \E label \in {"exited", "idle"} : pc' = [pc EXCEPT ![t] = label]
        /\ evicted' = [evicted EXCEPT ![t] = 0]
        /\ UNCHANGED <<messaging, store, g_session, window, opened, drainExpired>>
    BY <1>5 DEF TearReturns
  <2>2. FutureInv'
    BY <1>0, <2>1 DEF LifeInv, FutureInv, PcOK
  <2>3. HeldInv'
    BY <1>0, <2>1 DEF LifeInv, HeldInv, Usable, PcOK, LocalsOK
  <2>4. Phases' = Phases
    BY <2>1 DEF Phases, Life
  <2> QED
    BY <2>1, <2>2, <2>3, <2>4 DEF LifeInv, Allowed
<1> QED
  BY <1>1, <1>2, <1>3, <1>4, <1>5 DEF Teardown

\* The exit hook evicts with nothing in flight, or when its drain ran out.
LEMMA ExitLife ==
    ASSUME IInv, LifeInv, ExitHook \/ ExitStep
    PROVE  LifeInv' /\ Allowed
<1>0. TypeOK /\ PcOK
  BY DEF IInv, TypeOK
<1>1. CASE \/ ExitHook \/ ExitAbandons
           \/ ExitLock /\ UNCHANGED <<sdk, evicted, g_session>> /\ pc' = [pc EXCEPT ![Exiter] = "drain"]
  <2>1. Aside /\ UNCHANGED window
    BY <1>0, <1>1 DEF Aside, PcOK, ExitHook, ExitAbandons, ExitLock
  <2> QED
    BY <2>1, AsideStutters
<1>2. CASE ExitLock /\ Drained /\ Evict(Exiter)
  BY <1>2, EvictRetires DEF ExitLock
<1>3. CASE ExitExpires
  BY <1>3, EvictRetires DEF ExitExpires
<1> QED
  BY <1>1, <1>2, <1>3 DEF ExitStep, ExitLock

\* The library as loaded has no session.
LEMMA InitLife == Init => LifeInv /\ Lives!Init
<1> SUFFICES ASSUME Init PROVE LifeInv /\ Lives!Init
  OBVIOUS
<1>1. FutureInv /\ HeldInv
  BY DEF Init, FutureInv, HeldInv
<1>2. Lives!Init
  BY DEF Init, Lives!Init, Life
<1> QED
  BY <1>1, <1>2 DEF LifeInv

\* Every step keeps the invariant, and is a step of SessionLife or a stutter.
LEMMA NextLife == IInv /\ LifeInv /\ [Next]_vars => LifeInv' /\ Allowed
<1> SUFFICES ASSUME IInv, LifeInv, [Next]_vars PROVE LifeInv' /\ Allowed
  OBVIOUS
<1>1. CASE \E h \in Hosts : HostCalls(h) \/ HostUnlocked(h) \/ HostLocked(h)
  BY <1>1, HostCallsLife, HostUnlockedLife, HostLockedLife
<1>2. CASE \/ \E c \in Callbacks : CallbackStep(c)
           \/ \E w \in Workers : WorkerTakes(w)
           \/ StrandDelivers
           \/ \E s \in Sessions : ArchiveWorker(s)
  BY <1>2, CallbacksLife
<1>3. CASE \E t \in Closers \cup {Exiter} : Teardown(t)
  BY <1>3, TeardownLife
<1>4. CASE ExitHook \/ ExitStep
  BY <1>4, ExitLife
<1>5. CASE Quiescent \/ UNCHANGED vars
  <2>1. Aside /\ UNCHANGED window
    BY <1>5 DEF Aside, Quiescent, vars
  <2> QED
    BY <2>1, AsideStutters
<1> QED
  BY <1>1, <1>2, <1>3, <1>4, <1>5 DEF Next

\* The C ABI implements SessionLife: for any number of threads, closers, sessions and
\* messages, at most one session is open and none opens twice, a thread comes to use only
\* the open one, a teardown retires it when nobody uses it (or the exit hook could not
\* wait), destroys its Messaging before its store, and never does so twice.
THEOREM Implements == Spec => SessionsLive
<1>1. Allowed => [Lives!Next]_<<Phases, window, drainExpired>>
  BY DEF Allowed
<1>2. IInv /\ LifeInv /\ [Next]_vars
        => [Lives!Next]_<<[s \in Sessions |-> Life(s)], window, drainExpired>>
  BY <1>1, NextLife DEF Phases
<1> QED
  BY <1>2, InitLife, NextLife, Inductive, PTL DEF Spec, SessionsLive, Lives!Spec
=============================================================================
