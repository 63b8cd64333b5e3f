------------------------- MODULE GcsFfiCloserProofs -------------------------
(***************************************************************************)
(* With one thread that calls gcs_shutdown and no teardown at process      *)
(* exit, no session is built or handed out while another is destroyed,     *)
(* wherever the allocator places them.  FfiDoubleShutdown shows that a     *)
(* second closer is enough to lose that.                                   *)
(***************************************************************************)
EXTENDS GcsFfiProofs

USE ThreadsAssumption, BoundsAssumption
USE DEF Threads, Callbacks, Sessions, Free, Goto,
        locks, flags, sdk, objs, dag, tear, calls, nums,
        SendPcs, SubPcs, HoldPcs, DrainPcs, TearPcs, HostPcs, FunnelPcs,
        CallbackPcs, ExitPcs, BuildPcs, WindowPcs

\* The use the app makes of the library: one isolate opens and closes it.
SingleCloser == ProcessExits = FALSE /\ \A a, b \in Closers : a = b

\* A closer asleep in the drain keeps the session published; one that tears down
\* has evicted it, and nobody is building the next one.
CloserInv ==
    /\ pc[Exiter] = "idle"
    /\ \A h \in Hosts \ Closers : pc[h] \notin DrainPcs \cup TearPcs
    /\ \A h \in Closers : pc[h] \in DrainPcs => g_session # 0
    /\ \A h \in Closers : pc[h] \in TearPcs =>
          /\ g_tearingDown /\ g_session = 0
          /\ \A i \in Hosts : pc[i] \notin BuildPcs

\* The library as loaded has no closer at work.
LEMMA InitCloser == Init => CloserInv
  BY DEF Init, CloserInv

\* A call that enters the library keeps it: gcs_init is refused during a teardown, and
\* gcs_shutdown starts with the handle of the published session.
LEMMA HostCallsCloser ==
    ASSUME SingleCloser, IInv, CloserInv, NEW h \in Hosts, HostCalls(h)
    PROVE  CloserInv'
<1>0. TypeOK /\ PcOK /\ GlobalsOK /\ LocalsOK /\ MutexInv /\ BuildInv
  BY DEF IInv, TypeOK
<1>1. CASE gcs_init(h)
  BY <1>0, <1>1 DEF CloserInv, PcOK, gcs_init, InitAdmits, EnsureSdkBooted
<1>2. CASE gcs_init_again(h)
  BY <1>2 DEF CloserInv, gcs_init_again
<1>3. CASE join_topic(h) \/ send_text(h)
  BY <1>0, <1>3 DEF CloserInv, PcOK, join_topic, send_text, Accepts, HandleMatches
<1>4. CASE EntityCommand(h)
  BY <1>0, <1>4 DEF CloserInv, PcOK, EntityCommand, Accepts, HandleMatches
<1>5. CASE gcs_shutdown(h)
  <2>1. /\ h \in Closers /\ g_session # 0
        /\ \A i \in Closers : i = h
    BY <1>5 DEF SingleCloser, gcs_shutdown, HandleMatches
  <2>2. \A i \in Hosts : pc[i] \notin BuildPcs
    BY <1>0, <2>1 DEF BuildInv
  <2>3. CASE Drained
    BY <1>0, <1>5, <2>1, <2>2, <2>3 DEF CloserInv, PcOK, LocalsOK, gcs_shutdown, Evict, GateTeardown
  <2>4. CASE ~Drained
    BY <1>0, <1>5, <2>1, <2>4 DEF CloserInv, PcOK, LocalsOK, gcs_shutdown
  <2> QED
    BY <2>3, <2>4
<1> QED
  BY <1>1, <1>2, <1>3, <1>4, <1>5 DEF HostCalls

\* A thread outside g_mutex publishes and evicts no session.
LEMMA HostUnlockedCloser ==
    ASSUME IInv, CloserInv, NEW h \in Hosts, HostUnlocked(h)
    PROVE  CloserInv'
<1>0. TypeOK /\ PcOK
  BY DEF IInv, TypeOK
<1>1. CASE SubscribeLive(h) \/ SendPending(h) \/ SendPublish(h) \/ SendPut(h) \/ SendTerminal(h)
  BY <1>0, <1>1 DEF CloserInv, PcOK, SubscribeLive, SendPending, SendPublish, SendPut, SendTerminal
<1>2. CASE SubscribeReturn(h) \/ SendReturn(h)
  BY <1>0, <1>2 DEF CloserInv, PcOK, SubscribeReturn, SendReturn, GotoNotify
<1> QED
  BY <1>1, <1>2 DEF HostUnlocked

\* A section that holds g_mutex publishes a session only if none is published, so
\* under no sleeping closer.
LEMMA HostLockedCloser ==
    ASSUME IInv, CloserInv, NEW h \in Hosts, HostLocked(h)
    PROVE  CloserInv'
<1>0. TypeOK /\ PcOK /\ MutexInv /\ BuildInv
  BY DEF IInv, TypeOK
<1>1. CASE InitStoreFails(h) \/ InitStore(h) \/ InitJoinFails(h)
  BY <1>0, <1>1 DEF CloserInv, PcOK, InitStoreFails, InitStore, InitJoinFails
<1>2. CASE InitJoin(h)
  BY <1>0, <1>2 DEF CloserInv, PcOK, BuildInv, InitJoin
<1>3. CASE RefreshDerivedJoins(h) \/ RefreshReturn(h)
  BY <1>0, <1>3 DEF CloserInv, PcOK, RefreshDerivedJoins, RefreshReturn
<1>4. CASE EntityPut(h)
  BY <1>0, <1>4 DEF CloserInv, PcOK, EntityPut
<1> QED
  BY <1>1, <1>2, <1>3, <1>4 DEF HostLocked

\* The receive callbacks and the archive thread only ever wake the closer.
LEMMA CallbackCloser ==
    ASSUME IInv, CloserInv,
           \/ \E w \in Workers : WorkerTakes(w)
           \/ StrandDelivers
           \/ \E c \in Callbacks : CallbackStep(c)
           \/ \E s \in Sessions : ArchiveWorker(s)
    PROVE  CloserInv'
<1>0. TypeOK /\ PcOK
  BY DEF IInv, TypeOK
<1>1. CASE (\E w \in Workers : WorkerTakes(w)) \/ StrandDelivers
  BY <1>0, <1>1 DEF CloserInv, PcOK, WorkerTakes, StrandDelivers
<1>2. ASSUME NEW c \in Callbacks, CallbackStep(c)
      PROVE  CloserInv'
  <2>1. CASE CallbackNotify(c)
    BY <1>0, <2>1 DEF CloserInv, PcOK, CallbackNotify, GotoNotify
  <2>2. CASE ~CallbackNotify(c)
    BY <1>0, <1>2, <2>2 DEF CloserInv, PcOK, CallbackStep, CallbackGate, CallbackCopy,
       CallbackFunnel, CallbackLeave, CallbackReturns
  <2> QED
    BY <2>1, <2>2
<1>3. CASE \E s \in Sessions : ArchiveWorker(s)
  BY <1>3 DEF CloserInv, ArchiveWorker
<1> QED
  BY <1>1, <1>2, <1>3

\* The teardown itself: after the drain g_session is still the closer's own, and
\* g_tearingDown stays set until the end.
LEMMA TeardownCloser ==
    ASSUME SingleCloser, IInv, CloserInv, NEW t \in Closers \cup {Exiter}, Teardown(t)
    PROVE  CloserInv'
<1>0. TypeOK /\ PcOK /\ LocalsOK /\ BuildInv
  BY DEF IInv, TypeOK
<1>1. t # Exiter /\ t \in Hosts /\ t \in Closers /\ \A i \in Closers : i = t
  BY DEF SingleCloser, CloserInv, Teardown, DrainWakes, TearNode, TearMessaging, TearStore, TearReturns
<1>2. CASE DrainWakes(t) /\ Drained
  <2>1. \A i \in Hosts : pc[i] \notin BuildPcs
    BY <1>0, <1>1, <1>2 DEF BuildInv, CloserInv, DrainWakes
  <2> QED
    BY <1>0, <1>1, <1>2, <2>1 DEF CloserInv, PcOK, LocalsOK, DrainWakes, Evict, GateTeardown
<1>3. CASE DrainWakes(t) /\ ~Drained
  BY <1>0, <1>1, <1>3 DEF CloserInv, PcOK, DrainWakes
<1>4. CASE TearNode(t)
  BY <1>0, <1>1, <1>4 DEF CloserInv, PcOK, TearNode, NextStage
<1>5. CASE TearMessaging(t) \/ TearStore(t)
  BY <1>0, <1>1, <1>5 DEF CloserInv, PcOK, TearMessaging, TearStore, NextStage
<1>6. CASE TearReturns(t)
  BY <1>0, <1>1, <1>6 DEF CloserInv, PcOK, LocalsOK, TearReturns
<1> QED
  BY <1>2, <1>3, <1>4, <1>5, <1>6 DEF Teardown

\* Every step keeps the invariant.
LEMMA NextCloser ==
    ASSUME SingleCloser
    PROVE  IInv /\ CloserInv /\ [Next]_vars => CloserInv'
<1> SUFFICES ASSUME IInv, CloserInv, [Next]_vars PROVE CloserInv'
  OBVIOUS
<1>1. CASE \E h \in Hosts : HostCalls(h) \/ HostUnlocked(h) \/ HostLocked(h)
  BY <1>1, HostCallsCloser, HostUnlockedCloser, HostLockedCloser
<1>2. CASE \/ \E w \in Workers : WorkerTakes(w)
           \/ StrandDelivers
           \/ \E c \in Callbacks : CallbackStep(c)
           \/ \E s \in Sessions : ArchiveWorker(s)
  BY <1>2, CallbackCloser
<1>3. CASE \E t \in Closers \cup {Exiter} : Teardown(t)
  BY <1>3, TeardownCloser
<1>4. CASE ExitHook \/ ExitStep
  BY <1>4 DEF SingleCloser, CloserInv, ExitHook, ExitStep, ExitLock, ExitAbandons, ExitExpires
<1>5. CASE Quiescent \/ UNCHANGED vars
  BY <1>5 DEF CloserInv, Quiescent, vars
<1> QED
  BY <1>1, <1>2, <1>3, <1>4, <1>5 DEF Next

\* While gcs_shutdown, called from one thread, destroys a session with g_mutex released,
\* g_tearingDown keeps gcs_init from building or handing out another.
THEOREM SingleCloserIsSafe ==
    ASSUME SingleCloser
    PROVE  Spec => []TeardownExcludesInit
<1>1. Init => CloserInv
  BY InitCloser
<1>2. IInv /\ CloserInv /\ [Next]_vars => CloserInv'
  BY NextCloser
<1>3. CloserInv => TeardownExcludesInit
  BY DEF CloserInv, TeardownExcludesInit, Destroying
<1> QED
  BY <1>1, <1>2, <1>3, Inductive, PTL DEF Spec
=============================================================================
