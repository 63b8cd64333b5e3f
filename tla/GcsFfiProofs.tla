---------------------------- MODULE GcsFfiProofs ----------------------------
(***************************************************************************)
(* Proofs about GcsFfi for every number of threads, sessions, commands and *)
(* messages: type correctness, the safety of the windows in which a thread *)
(* uses the session with g_mutex released, and the wake-ups of the drains  *)
(* that wait for these windows to close.  IInv (at the end of GcsFfi) is   *)
(* inductive; one lemma per action says that the action keeps it.  In each *)
(* the first step covers the parts of IInv whose variables the action      *)
(* leaves alone, and every other part has a step of its own.               *)
(***************************************************************************)
EXTENDS GcsFfi, FiniteSetTheorems, TLAPS

USE ThreadsAssumption, BoundsAssumption
USE DEF Threads, Callbacks, Sessions, Free, Goto,
        locks, flags, sdk, objs, dag, tear, calls, nums,
        SendPcs, SubPcs, HoldPcs, DrainPcs, TearPcs, HostPcs, FunnelPcs,
        CallbackPcs, ExitPcs, BuildPcs, WindowPcs

\* The threads that have a window open are finitely many: g_inFlight can count them.
LEMMA WindowsFinite ==
    IsFiniteSet(InWindow) /\ IsFiniteSet(Threads)
<1>1. IsFiniteSet(Hosts \cup Workers)
  BY FS_Union
<1>2. IsFiniteSet((Hosts \cup Workers) \cup {Strand})
  BY <1>1, FS_AddElement
<1>3. IsFiniteSet(((Hosts \cup Workers) \cup {Strand}) \cup {Exiter})
  BY <1>2, FS_AddElement
<1>4. Threads = ((Hosts \cup Workers) \cup {Strand}) \cup {Exiter}
  OBVIOUS
<1> QED
  BY <1>3, <1>4, FS_Subset DEF InWindow

\* Opening a window under g_mutex keeps g_inFlight the number of open windows.
LEMMA EnterCount ==
    ASSUME TypeOK, CountInv, NEW t \in Threads, window[t] = 0, g_session # 0, EnterWindow(t)
    PROVE  CountInv' /\ g_inFlight' \in Nat
<1>1. InWindow' = InWindow \cup {t} /\ t \notin InWindow
  BY DEF InWindow, EnterWindow, TypeOK, LocalsOK, GlobalsOK
<1>2. Cardinality(InWindow \cup {t}) = Cardinality(InWindow) + 1
  BY <1>1, WindowsFinite, FS_AddElement
<1>3. g_inFlight \in Nat /\ g_inFlight' = g_inFlight + 1
  BY DEF TypeOK, GlobalsOK, EnterWindow
<1> QED
  BY <1>1, <1>2, <1>3 DEF CountInv

\* Closing a window under g_mutex keeps g_inFlight the number of open windows.
LEMMA LeaveCount ==
    ASSUME TypeOK, CountInv, NEW t \in Threads, window[t] # 0, LeaveWindow(t)
    PROVE  CountInv' /\ g_inFlight' \in Nat
<1>1. InWindow' = InWindow \ {t} /\ t \in InWindow
  BY DEF InWindow, LeaveWindow, TypeOK, LocalsOK, GlobalsOK
<1>2. Cardinality(InWindow \ {t}) = Cardinality(InWindow) - 1
  BY <1>1, WindowsFinite, FS_RemoveElement
<1>3. IsFiniteSet(InWindow') /\ Cardinality(InWindow') \in Nat
  BY <1>1, WindowsFinite, FS_RemoveElement, FS_CardinalityType
<1>4. g_inFlight' = g_inFlight - 1
  BY DEF LeaveWindow
<1> QED
  BY <1>1, <1>2, <1>3, <1>4 DEF CountInv

\* The drain predicate of both teardowns means that no thread has a window open.
LEMMA DrainedEmpty ==
    ASSUME CountInv, Drained
    PROVE  InWindow = {}
  BY WindowsFinite, FS_EmptySet DEF CountInv, Drained

\* TeardownSessionAndNode's eviction keeps the types of the globals.
LEMMA EvictGlobals ==
    ASSUME TypeOK, NEW t \in Closers \cup {Exiter}, Evict(t), UNCHANGED locks,
           g_receivingDisabled' \in BOOLEAN, g_tearingDown' \in BOOLEAN,
           drainExpired' \in BOOLEAN
    PROVE  GlobalsOK'
<1>1. g_session' \in 0..MaxSessions
  BY DEF Evict
<1>2. mutex' \in Hosts \cup {NoThread} /\ g_inFlight' \in Nat
  BY DEF TypeOK, GlobalsOK
<1>3. g_sdkBootedHere' \in BOOLEAN
  BY DEF Evict
<1>4. exitHook' \in BOOLEAN /\ node' \in BOOLEAN /\ armed' \in BOOLEAN
  BY DEF TypeOK, GlobalsOK, Evict
<1> QED
  BY <1>1, <1>2, <1>3, <1>4 DEF GlobalsOK

-----------------------------------------------------------------------------
(* gcs_init.                                                               *)

\* Taking g_mutex to build a session: no session is published, so every evicted
\* generation is older than the one this call starts.
LEMMA gcs_initKeeps ==
    ASSUME IInv, NEW h \in Hosts, gcs_init(h)
    PROVE  IInv'
<1>1. ObjectsOK' /\ CountInv' /\ CurrentInv'
  BY DEF IInv, TypeOK, ObjectsOK, CountInv, CurrentInv, InWindow, gcs_init, InitAdmits,
     EnsureSdkBooted
<1>2. PcOK'
  BY DEF IInv, TypeOK, PcOK, gcs_init, InitAdmits, EnsureSdkBooted
<1>3. GlobalsOK'
  BY DEF IInv, TypeOK, GlobalsOK, LocalsOK, gcs_init, InitAdmits, EnsureSdkBooted
<1>4. LocalsOK'
  BY DEF IInv, TypeOK, LocalsOK, GlobalsOK, gcs_init, InitAdmits, EnsureSdkBooted
<1>5. MutexInv'
  BY DEF IInv, TypeOK, MutexInv, PcOK, GlobalsOK, gcs_init, InitAdmits, EnsureSdkBooted
<1>6. WindowInv'
  BY DEF IInv, TypeOK, WindowInv, PcOK, GlobalsOK, LocalsOK, gcs_init, InitAdmits,
     EnsureSdkBooted
<1>7. SessionInv'
  BY DEF IInv, TypeOK, SessionInv, BuildInv, Usable, PcOK, GlobalsOK, ObjectsOK,
     LocalsOK, gcs_init, InitAdmits, EnsureSdkBooted
<1>8. BuildInv'
  <2>1. \A t \in Hosts \cup {Exiter} : evicted'[t] < opened'
    BY DEF IInv, TypeOK, LocalsOK, SessionInv, gcs_init
  <2>2. \A i \in Hosts : pc[i] \notin BuildPcs
    BY DEF IInv, MutexInv, TypeOK, PcOK, GlobalsOK, gcs_init, InitAdmits
  <2> QED
    BY <2>1, <2>2 DEF IInv, TypeOK, PcOK, BuildInv, gcs_init, InitAdmits
<1>9. CommandInv'
  BY DEF IInv, TypeOK, CommandInv, CurrentInv, BuildInv, WindowInv, MutexInv, InWindow,
     PcOK, GlobalsOK, LocalsOK, gcs_init, InitAdmits, EnsureSdkBooted
<1> QED
  BY <1>1, <1>2, <1>3, <1>4, <1>5, <1>6, <1>7, <1>8, <1>9 DEF IInv, TypeOK

\* The idempotent return adds a handle and nothing else.
LEMMA gcs_init_againKeeps ==
    ASSUME IInv, NEW h \in Hosts, gcs_init_again(h)
    PROVE  IInv'
<1>1. PcOK' /\ GlobalsOK' /\ ObjectsOK' /\ MutexInv' /\ WindowInv' /\ CountInv' /\
   CurrentInv' /\ SessionInv' /\ BuildInv' /\ CommandInv'
  BY DEF IInv, TypeOK, PcOK, GlobalsOK, ObjectsOK, MutexInv, WindowInv, CountInv,
     CurrentInv, SessionInv, BuildInv, CommandInv, InWindow, Usable, gcs_init_again,
     InitAdmits
<1>2. LocalsOK'
  BY DEF IInv, TypeOK, LocalsOK, GlobalsOK, gcs_init_again, InitAdmits
<1> QED
  BY <1>1, <1>2 DEF IInv, TypeOK

\* A failed Initialize() gives back the boot of this call and g_mutex.
LEMMA InitStoreFailsKeeps ==
    ASSUME IInv, NEW h \in Hosts, InitStoreFails(h)
    PROVE  IInv'
<1>1. ObjectsOK' /\ LocalsOK' /\ CountInv' /\ CurrentInv' /\ SessionInv'
  BY DEF IInv, TypeOK, ObjectsOK, LocalsOK, CountInv, CurrentInv, SessionInv, InWindow,
     Usable, InitStoreFails
<1>2. PcOK'
  BY DEF IInv, TypeOK, PcOK, InitStoreFails
<1>3. GlobalsOK'
  BY DEF IInv, TypeOK, GlobalsOK, LocalsOK, InitStoreFails
<1>4. MutexInv'
  BY DEF IInv, TypeOK, MutexInv, PcOK, GlobalsOK, InitStoreFails
<1>5. WindowInv'
  BY DEF IInv, TypeOK, WindowInv, PcOK, GlobalsOK, LocalsOK, InitStoreFails
<1>6. BuildInv'
  BY DEF IInv, TypeOK, BuildInv, SessionInv, MutexInv, PcOK, GlobalsOK, ObjectsOK,
     LocalsOK, InitStoreFails
<1>7. CommandInv'
  BY DEF IInv, TypeOK, CommandInv, CurrentInv, BuildInv, WindowInv, MutexInv, InWindow,
     PcOK, GlobalsOK, LocalsOK, InitStoreFails
<1> QED
  BY <1>1, <1>2, <1>3, <1>4, <1>5, <1>6, <1>7 DEF IInv, TypeOK

\* Initialize() starts the store of a generation nobody else knows.
LEMMA InitStoreKeeps ==
    ASSUME IInv, NEW h \in Hosts, InitStore(h)
    PROVE  IInv'
<1>1. GlobalsOK' /\ LocalsOK' /\ CountInv' /\ CurrentInv'
  BY DEF IInv, TypeOK, GlobalsOK, LocalsOK, CountInv, CurrentInv, InWindow, InitStore
<1>2. PcOK'
  BY DEF IInv, TypeOK, PcOK, InitStore
<1>3. ObjectsOK'
  BY DEF IInv, TypeOK, ObjectsOK, GlobalsOK, LocalsOK, InitStore
<1>4. MutexInv'
  BY DEF IInv, TypeOK, MutexInv, PcOK, GlobalsOK, InitStore
<1>5. WindowInv'
  BY DEF IInv, TypeOK, WindowInv, PcOK, GlobalsOK, LocalsOK, InitStore
<1>6. SessionInv'
  BY DEF IInv, TypeOK, SessionInv, BuildInv, Usable, PcOK, GlobalsOK, ObjectsOK,
     LocalsOK, InitStore
<1>7. BuildInv'
  BY DEF IInv, TypeOK, BuildInv, SessionInv, MutexInv, PcOK, GlobalsOK, ObjectsOK,
     LocalsOK, InitStore
<1>8. CommandInv'
  BY DEF IInv, TypeOK, CommandInv, CurrentInv, BuildInv, WindowInv, MutexInv, InWindow,
     PcOK, GlobalsOK, LocalsOK, InitStore
<1> QED
  BY <1>1, <1>2, <1>3, <1>4, <1>5, <1>6, <1>7, <1>8 DEF IInv, TypeOK

\* Failing to join a smoke topic kills a store that was never published.
LEMMA InitJoinFailsKeeps ==
    ASSUME IInv, NEW h \in Hosts, InitJoinFails(h)
    PROVE  IInv'
<1>1. LocalsOK' /\ CountInv' /\ CurrentInv'
  BY DEF IInv, TypeOK, LocalsOK, CountInv, CurrentInv, InWindow, InitJoinFails
<1>2. PcOK'
  BY DEF IInv, TypeOK, PcOK, InitJoinFails
<1>3. GlobalsOK'
  BY DEF IInv, TypeOK, GlobalsOK, LocalsOK, InitJoinFails
<1>4. ObjectsOK'
  BY DEF IInv, TypeOK, ObjectsOK, GlobalsOK, LocalsOK, InitJoinFails
<1>5. MutexInv'
  BY DEF IInv, TypeOK, MutexInv, PcOK, GlobalsOK, InitJoinFails
<1>6. WindowInv'
  BY DEF IInv, TypeOK, WindowInv, PcOK, GlobalsOK, LocalsOK, InitJoinFails
<1>7. SessionInv'
  BY DEF IInv, TypeOK, SessionInv, BuildInv, Usable, PcOK, GlobalsOK, ObjectsOK,
     LocalsOK, InitJoinFails
<1>8. BuildInv'
  BY DEF IInv, TypeOK, BuildInv, SessionInv, MutexInv, PcOK, GlobalsOK, ObjectsOK,
     LocalsOK, InitJoinFails
<1>9. CommandInv'
  BY DEF IInv, TypeOK, CommandInv, CurrentInv, BuildInv, WindowInv, MutexInv, InWindow,
     PcOK, GlobalsOK, LocalsOK, InitJoinFails
<1> QED
  BY <1>1, <1>2, <1>3, <1>4, <1>5, <1>6, <1>7, <1>8, <1>9 DEF IInv, TypeOK

\* Publishing the session: it is live, and no window is open on an older one.
LEMMA InitJoinKeeps ==
    ASSUME IInv, NEW h \in Hosts, InitJoin(h)
    PROVE  IInv'
<1>1. CountInv'
  BY DEF IInv, TypeOK, CountInv, InWindow, InitJoin
<1>2. PcOK'
  BY DEF IInv, TypeOK, PcOK, InitJoin
<1>3. GlobalsOK'
  BY DEF IInv, TypeOK, GlobalsOK, LocalsOK, InitJoin
<1>4. ObjectsOK'
  BY DEF IInv, TypeOK, ObjectsOK, GlobalsOK, LocalsOK, InitJoin
<1>5. LocalsOK'
  BY DEF IInv, TypeOK, LocalsOK, GlobalsOK, InitJoin
<1>6. MutexInv'
  BY DEF IInv, TypeOK, MutexInv, PcOK, GlobalsOK, InitJoin
<1>7. WindowInv'
  BY DEF IInv, TypeOK, WindowInv, PcOK, GlobalsOK, LocalsOK, InitJoin
<1>8. CurrentInv'
  BY DEF IInv, TypeOK, PcOK, GlobalsOK, LocalsOK, CurrentInv, WindowInv, BuildInv,
     InWindow, InitJoin
<1>9. SessionInv'
  BY DEF IInv, TypeOK, SessionInv, BuildInv, Usable, PcOK, GlobalsOK, ObjectsOK,
     LocalsOK, InitJoin
<1>10. BuildInv'
  BY DEF IInv, TypeOK, BuildInv, SessionInv, MutexInv, PcOK, GlobalsOK, ObjectsOK,
     LocalsOK, InitJoin
<1>11. CommandInv'
  BY DEF IInv, TypeOK, CommandInv, CurrentInv, BuildInv, WindowInv, MutexInv, InWindow,
     PcOK, GlobalsOK, LocalsOK, InitJoin
<1> QED
  BY <1>1, <1>2, <1>3, <1>4, <1>5, <1>6, <1>7, <1>8, <1>9, <1>10, <1>11 DEF IInv, TypeOK

-----------------------------------------------------------------------------
(* RefreshDerivedJoins and SubscribeLive.                                  *)

\* SubscribeLive counts its window before it releases g_mutex.
LEMMA RefreshDerivedJoinsKeeps ==
    ASSUME IInv, NEW h \in Hosts, RefreshDerivedJoins(h)
    PROVE  IInv'
<1>1. ObjectsOK' /\ SessionInv'
  BY DEF IInv, TypeOK, ObjectsOK, SessionInv, Usable, RefreshDerivedJoins, EnterWindow
<1>2. PcOK'
  BY DEF IInv, TypeOK, PcOK, RefreshDerivedJoins, EnterWindow
<1>3. GlobalsOK'
  BY EnterCount DEF IInv, TypeOK, WindowInv, PcOK, GlobalsOK, LocalsOK,
     RefreshDerivedJoins, EnterWindow
<1>4. LocalsOK'
  BY DEF IInv, TypeOK, LocalsOK, GlobalsOK, RefreshDerivedJoins, EnterWindow
<1>5. MutexInv'
  BY DEF IInv, TypeOK, MutexInv, PcOK, GlobalsOK, RefreshDerivedJoins, EnterWindow
<1>6. WindowInv'
  BY DEF IInv, TypeOK, WindowInv, PcOK, GlobalsOK, LocalsOK, RefreshDerivedJoins,
     EnterWindow
<1>7. CountInv'
  BY EnterCount DEF IInv, TypeOK, WindowInv, PcOK, LocalsOK, RefreshDerivedJoins
<1>8. CurrentInv'
  BY DEF IInv, TypeOK, PcOK, GlobalsOK, LocalsOK, CurrentInv, WindowInv, BuildInv,
     InWindow, RefreshDerivedJoins, EnterWindow
<1>9. BuildInv'
  BY DEF IInv, TypeOK, BuildInv, PcOK, LocalsOK, RefreshDerivedJoins, EnterWindow
<1>10. CommandInv'
  BY DEF IInv, TypeOK, CommandInv, CurrentInv, BuildInv, WindowInv, MutexInv, InWindow,
     PcOK, GlobalsOK, LocalsOK, RefreshDerivedJoins, EnterWindow
<1> QED
  BY <1>1, <1>2, <1>3, <1>4, <1>5, <1>6, <1>7, <1>8, <1>9, <1>10 DEF IInv, TypeOK

\* The end of a refresh gives back g_mutex outside every window.
LEMMA RefreshReturnKeeps ==
    ASSUME IInv, NEW h \in Hosts, RefreshReturn(h)
    PROVE  IInv'
<1>1. ObjectsOK' /\ CountInv' /\ CurrentInv' /\ SessionInv'
  BY DEF IInv, TypeOK, ObjectsOK, CountInv, CurrentInv, SessionInv, InWindow, Usable,
     RefreshReturn
<1>2. PcOK'
  BY DEF IInv, TypeOK, PcOK, RefreshReturn
<1>3. GlobalsOK'
  BY DEF IInv, TypeOK, GlobalsOK, LocalsOK, RefreshReturn
<1>4. LocalsOK'
  BY DEF IInv, TypeOK, LocalsOK, GlobalsOK, RefreshReturn
<1>5. MutexInv'
  BY DEF IInv, TypeOK, MutexInv, PcOK, GlobalsOK, RefreshReturn
<1>6. WindowInv'
  BY DEF IInv, TypeOK, WindowInv, PcOK, GlobalsOK, LocalsOK, RefreshReturn
<1>7. BuildInv'
  BY DEF IInv, TypeOK, BuildInv, PcOK, LocalsOK, RefreshReturn
<1>8. CommandInv'
  BY DEF IInv, TypeOK, CommandInv, CurrentInv, BuildInv, WindowInv, MutexInv, InWindow,
     PcOK, GlobalsOK, LocalsOK, RefreshReturn
<1> QED
  BY <1>1, <1>2, <1>3, <1>4, <1>5, <1>6, <1>7, <1>8 DEF IInv, TypeOK

\* The blocking subscribe leaves the counted window as it is.
LEMMA SubscribeLiveKeeps ==
    ASSUME IInv, NEW h \in Hosts, SubscribeLive(h)
    PROVE  IInv'
<1>1. ObjectsOK' /\ LocalsOK' /\ CountInv' /\ CurrentInv' /\ SessionInv'
  BY DEF IInv, TypeOK, ObjectsOK, LocalsOK, CountInv, CurrentInv, SessionInv, InWindow,
     Usable, SubscribeLive
<1>2. PcOK'
  BY DEF IInv, TypeOK, PcOK, SubscribeLive
<1>3. GlobalsOK'
  BY DEF IInv, TypeOK, GlobalsOK, LocalsOK, SubscribeLive
<1>4. MutexInv'
  BY DEF IInv, TypeOK, MutexInv, PcOK, GlobalsOK, SubscribeLive
<1>5. WindowInv'
  BY DEF IInv, TypeOK, WindowInv, PcOK, GlobalsOK, LocalsOK, SubscribeLive
<1>6. BuildInv'
  BY DEF IInv, TypeOK, BuildInv, PcOK, LocalsOK, SubscribeLive
<1>7. CommandInv'
  BY DEF IInv, TypeOK, CommandInv, CurrentInv, BuildInv, WindowInv, MutexInv, InWindow,
     PcOK, GlobalsOK, LocalsOK, SubscribeLive
<1> QED
  BY <1>1, <1>2, <1>3, <1>4, <1>5, <1>6, <1>7 DEF IInv, TypeOK

\* Back under g_mutex the window is uncounted, and the drain waiters woken.
LEMMA SubscribeReturnKeeps ==
    ASSUME IInv, NEW h \in Hosts, SubscribeReturn(h)
    PROVE  IInv'
<1>1. ObjectsOK' /\ SessionInv'
  BY DEF IInv, TypeOK, ObjectsOK, SessionInv, Usable, SubscribeReturn, LeaveWindow,
     GotoNotify
<1>2. PcOK'
  BY DEF IInv, TypeOK, PcOK, SubscribeReturn, LeaveWindow, GotoNotify
<1>3. GlobalsOK'
  BY LeaveCount DEF IInv, TypeOK, WindowInv, PcOK, GlobalsOK, LocalsOK, SubscribeReturn,
     LeaveWindow, GotoNotify
<1>4. LocalsOK'
  BY DEF IInv, TypeOK, LocalsOK, GlobalsOK, SubscribeReturn, LeaveWindow, GotoNotify
<1>5. MutexInv'
  BY DEF IInv, TypeOK, MutexInv, PcOK, GlobalsOK, SubscribeReturn, LeaveWindow,
     GotoNotify
<1>6. WindowInv'
  BY DEF IInv, TypeOK, WindowInv, PcOK, GlobalsOK, LocalsOK, SubscribeReturn,
     LeaveWindow, GotoNotify
<1>7. CountInv'
  BY LeaveCount DEF IInv, TypeOK, WindowInv, PcOK, LocalsOK, SubscribeReturn, GotoNotify
<1>8. CurrentInv'
  BY DEF IInv, TypeOK, PcOK, GlobalsOK, LocalsOK, CurrentInv, WindowInv, BuildInv,
     InWindow, SubscribeReturn, LeaveWindow, GotoNotify
<1>9. BuildInv'
  BY DEF IInv, TypeOK, BuildInv, PcOK, LocalsOK, SubscribeReturn, LeaveWindow,
     GotoNotify
<1>10. CommandInv'
  BY DEF IInv, TypeOK, CommandInv, CurrentInv, BuildInv, WindowInv, MutexInv, InWindow,
     PcOK, GlobalsOK, LocalsOK, SubscribeReturn, LeaveWindow, GotoNotify
<1> QED
  BY <1>1, <1>2, <1>3, <1>4, <1>5, <1>6, <1>7, <1>8, <1>9, <1>10 DEF IInv, TypeOK

-----------------------------------------------------------------------------
(* gcs_publish.                                                            *)

\* join_topic opens a window on the session it has just checked.
LEMMA join_topicKeeps ==
    ASSUME IInv, NEW h \in Hosts, join_topic(h)
    PROVE  IInv'
<1>1. ObjectsOK' /\ SessionInv'
  BY DEF IInv, TypeOK, ObjectsOK, SessionInv, Usable, join_topic, Accepts, HandleMatches, EnterWindow
<1>2. PcOK'
  BY DEF IInv, TypeOK, PcOK, join_topic, Accepts, HandleMatches, EnterWindow
<1>3. GlobalsOK'
  BY EnterCount DEF IInv, TypeOK, WindowInv, PcOK, GlobalsOK, LocalsOK, join_topic,
     Accepts, HandleMatches, EnterWindow
<1>4. LocalsOK'
  BY DEF IInv, TypeOK, LocalsOK, GlobalsOK, join_topic, Accepts, HandleMatches, EnterWindow
<1>5. MutexInv'
  BY DEF IInv, TypeOK, MutexInv, PcOK, GlobalsOK, join_topic, Accepts, HandleMatches, EnterWindow
<1>6. WindowInv'
  BY DEF IInv, TypeOK, WindowInv, PcOK, GlobalsOK, LocalsOK, join_topic, Accepts, HandleMatches,
     EnterWindow
<1>7. CountInv'
  BY EnterCount DEF IInv, TypeOK, WindowInv, PcOK, LocalsOK, join_topic, Accepts, HandleMatches
<1>8. CurrentInv'
  BY DEF IInv, TypeOK, PcOK, GlobalsOK, LocalsOK, CurrentInv, WindowInv, BuildInv,
     InWindow, join_topic, Accepts, HandleMatches, EnterWindow
<1>9. BuildInv'
  BY DEF IInv, TypeOK, BuildInv, PcOK, LocalsOK, join_topic, Accepts, HandleMatches, EnterWindow
<1>10. CommandInv'
  BY DEF IInv, TypeOK, CommandInv, CurrentInv, BuildInv, WindowInv, MutexInv, InWindow,
     PcOK, GlobalsOK, LocalsOK, join_topic, Accepts, HandleMatches, EnterWindow
<1> QED
  BY <1>1, <1>2, <1>3, <1>4, <1>5, <1>6, <1>7, <1>8, <1>9, <1>10 DEF IInv, TypeOK

\* send_text opens a window on the session it has just checked.
LEMMA send_textKeeps ==
    ASSUME IInv, NEW h \in Hosts, send_text(h)
    PROVE  IInv'
<1>1. ObjectsOK' /\ SessionInv'
  BY DEF IInv, TypeOK, ObjectsOK, SessionInv, Usable, send_text, Accepts, HandleMatches, EnterWindow
<1>2. PcOK'
  BY DEF IInv, TypeOK, PcOK, send_text, Accepts, HandleMatches, EnterWindow
<1>3. GlobalsOK'
  BY EnterCount DEF IInv, TypeOK, WindowInv, PcOK, GlobalsOK, LocalsOK, send_text,
     Accepts, HandleMatches, EnterWindow
<1>4. LocalsOK'
  BY DEF IInv, TypeOK, LocalsOK, GlobalsOK, send_text, Accepts, HandleMatches, EnterWindow
<1>5. MutexInv'
  BY DEF IInv, TypeOK, MutexInv, PcOK, GlobalsOK, send_text, Accepts, HandleMatches, EnterWindow
<1>6. WindowInv'
  BY DEF IInv, TypeOK, WindowInv, PcOK, GlobalsOK, LocalsOK, send_text, Accepts, HandleMatches,
     EnterWindow
<1>7. CountInv'
  BY EnterCount DEF IInv, TypeOK, WindowInv, PcOK, LocalsOK, send_text, Accepts, HandleMatches
<1>8. CurrentInv'
  BY DEF IInv, TypeOK, PcOK, GlobalsOK, LocalsOK, CurrentInv, WindowInv, BuildInv,
     InWindow, send_text, Accepts, HandleMatches, EnterWindow
<1>9. BuildInv'
  BY DEF IInv, TypeOK, BuildInv, PcOK, LocalsOK, send_text, Accepts, HandleMatches, EnterWindow
<1>10. CommandInv'
  BY DEF IInv, TypeOK, CommandInv, CurrentInv, BuildInv, WindowInv, MutexInv, InWindow,
     PcOK, GlobalsOK, LocalsOK, send_text, Accepts, HandleMatches, EnterWindow
<1> QED
  BY <1>1, <1>2, <1>3, <1>4, <1>5, <1>6, <1>7, <1>8, <1>9, <1>10 DEF IInv, TypeOK

\* The PENDING echo stays inside the window.
LEMMA SendPendingKeeps ==
    ASSUME IInv, NEW h \in Hosts, SendPending(h)
    PROVE  IInv'
<1>1. GlobalsOK' /\ ObjectsOK' /\ LocalsOK' /\ CountInv' /\ CurrentInv' /\ SessionInv'
  BY DEF IInv, TypeOK, GlobalsOK, ObjectsOK, LocalsOK, CountInv, CurrentInv, SessionInv,
     InWindow, Usable, SendPending
<1>2. PcOK'
  BY DEF IInv, TypeOK, PcOK, SendPending
<1>3. MutexInv'
  BY DEF IInv, TypeOK, MutexInv, PcOK, GlobalsOK, SendPending
<1>4. WindowInv'
  BY DEF IInv, TypeOK, WindowInv, PcOK, GlobalsOK, LocalsOK, SendPending
<1>5. BuildInv'
  BY DEF IInv, TypeOK, BuildInv, PcOK, LocalsOK, SendPending
<1>6. CommandInv'
  BY DEF IInv, TypeOK, CommandInv, CurrentInv, BuildInv, WindowInv, MutexInv, InWindow,
     PcOK, GlobalsOK, LocalsOK, SendPending
<1> QED
  BY <1>1, <1>2, <1>3, <1>4, <1>5, <1>6 DEF IInv, TypeOK

\* A send queues at most its own job.
LEMMA SendPublishKeeps ==
    ASSUME IInv, NEW h \in Hosts, SendPublish(h)
    PROVE  IInv'
<1>1. GlobalsOK' /\ LocalsOK' /\ CountInv' /\ CurrentInv' /\ SessionInv'
  BY DEF IInv, TypeOK, GlobalsOK, LocalsOK, CountInv, CurrentInv, SessionInv, InWindow,
     Usable, SendPublish
<1>2. PcOK'
  BY DEF IInv, TypeOK, PcOK, SendPublish
<1>3. ObjectsOK'
  BY DEF IInv, TypeOK, ObjectsOK, GlobalsOK, LocalsOK, SendPublish
<1>4. MutexInv'
  BY DEF IInv, TypeOK, MutexInv, PcOK, GlobalsOK, SendPublish
<1>5. WindowInv'
  BY DEF IInv, TypeOK, WindowInv, PcOK, GlobalsOK, LocalsOK, SendPublish
<1>6. BuildInv'
  BY DEF IInv, TypeOK, BuildInv, PcOK, LocalsOK, SendPublish
<1>7. CommandInv'
  BY DEF IInv, TypeOK, CommandInv, CurrentInv, BuildInv, WindowInv, MutexInv, InWindow,
     PcOK, GlobalsOK, LocalsOK, SendPublish
<1> QED
  BY <1>1, <1>2, <1>3, <1>4, <1>5, <1>6, <1>7 DEF IInv, TypeOK

\* The archive Put returns inside the window.
LEMMA SendPutKeeps ==
    ASSUME IInv, NEW h \in Hosts, SendPut(h)
    PROVE  IInv'
<1>1. GlobalsOK' /\ ObjectsOK' /\ LocalsOK' /\ CountInv' /\ CurrentInv' /\ SessionInv'
  BY DEF IInv, TypeOK, GlobalsOK, ObjectsOK, LocalsOK, CountInv, CurrentInv, SessionInv,
     InWindow, Usable, SendPut
<1>2. PcOK'
  BY DEF IInv, TypeOK, PcOK, SendPut
<1>3. MutexInv'
  BY DEF IInv, TypeOK, MutexInv, PcOK, GlobalsOK, SendPut
<1>4. WindowInv'
  BY DEF IInv, TypeOK, WindowInv, PcOK, GlobalsOK, LocalsOK, SendPut
<1>5. BuildInv'
  BY DEF IInv, TypeOK, BuildInv, PcOK, LocalsOK, SendPut
<1>6. CommandInv'
  BY DEF IInv, TypeOK, CommandInv, CurrentInv, BuildInv, WindowInv, MutexInv, InWindow,
     PcOK, GlobalsOK, LocalsOK, SendPut
<1> QED
  BY <1>1, <1>2, <1>3, <1>4, <1>5, <1>6 DEF IInv, TypeOK

\* The terminal echo stays inside the window.
LEMMA SendTerminalKeeps ==
    ASSUME IInv, NEW h \in Hosts, SendTerminal(h)
    PROVE  IInv'
<1>1. GlobalsOK' /\ ObjectsOK' /\ LocalsOK' /\ CountInv' /\ CurrentInv' /\ SessionInv'
  BY DEF IInv, TypeOK, GlobalsOK, ObjectsOK, LocalsOK, CountInv, CurrentInv, SessionInv,
     InWindow, Usable, SendTerminal
<1>2. PcOK'
  BY DEF IInv, TypeOK, PcOK, SendTerminal
<1>3. MutexInv'
  BY DEF IInv, TypeOK, MutexInv, PcOK, GlobalsOK, SendTerminal
<1>4. WindowInv'
  BY DEF IInv, TypeOK, WindowInv, PcOK, GlobalsOK, LocalsOK, SendTerminal
<1>5. BuildInv'
  BY DEF IInv, TypeOK, BuildInv, PcOK, LocalsOK, SendTerminal
<1>6. CommandInv'
  BY DEF IInv, TypeOK, CommandInv, CurrentInv, BuildInv, WindowInv, MutexInv, InWindow,
     PcOK, GlobalsOK, LocalsOK, SendTerminal
<1> QED
  BY <1>1, <1>2, <1>3, <1>4, <1>5, <1>6 DEF IInv, TypeOK

\* send_text uncounts its window and wakes the drain waiters.
LEMMA SendReturnKeeps ==
    ASSUME IInv, NEW h \in Hosts, SendReturn(h)
    PROVE  IInv'
<1>1. ObjectsOK' /\ SessionInv'
  BY DEF IInv, TypeOK, ObjectsOK, SessionInv, Usable, SendReturn, LeaveWindow,
     GotoNotify
<1>2. PcOK'
  BY DEF IInv, TypeOK, PcOK, SendReturn, LeaveWindow, GotoNotify
<1>3. GlobalsOK'
  BY LeaveCount DEF IInv, TypeOK, WindowInv, PcOK, GlobalsOK, LocalsOK, SendReturn,
     LeaveWindow, GotoNotify
<1>4. LocalsOK'
  BY DEF IInv, TypeOK, LocalsOK, GlobalsOK, SendReturn, LeaveWindow, GotoNotify
<1>5. MutexInv'
  BY DEF IInv, TypeOK, MutexInv, PcOK, GlobalsOK, SendReturn, LeaveWindow, GotoNotify
<1>6. WindowInv'
  BY DEF IInv, TypeOK, WindowInv, PcOK, GlobalsOK, LocalsOK, SendReturn, LeaveWindow,
     GotoNotify
<1>7. CountInv'
  BY LeaveCount DEF IInv, TypeOK, WindowInv, PcOK, LocalsOK, SendReturn, GotoNotify
<1>8. CurrentInv'
  BY DEF IInv, TypeOK, PcOK, GlobalsOK, LocalsOK, CurrentInv, WindowInv, BuildInv,
     InWindow, SendReturn, LeaveWindow, GotoNotify
<1>9. BuildInv'
  BY DEF IInv, TypeOK, BuildInv, PcOK, LocalsOK, SendReturn, LeaveWindow, GotoNotify
<1>10. CommandInv'
  BY DEF IInv, TypeOK, CommandInv, CurrentInv, BuildInv, WindowInv, MutexInv, InWindow,
     PcOK, GlobalsOK, LocalsOK, SendReturn, LeaveWindow, GotoNotify
<1> QED
  BY <1>1, <1>2, <1>3, <1>4, <1>5, <1>6, <1>7, <1>8, <1>9, <1>10 DEF IInv, TypeOK

\* An entity command holds g_mutex over the session it has just checked.
LEMMA EntityCommandKeeps ==
    ASSUME IInv, NEW h \in Hosts, EntityCommand(h)
    PROVE  IInv'
<1>1. CountInv' /\ CurrentInv' /\ SessionInv'
  BY DEF IInv, TypeOK, CountInv, CurrentInv, SessionInv, InWindow, Usable,
     EntityCommand, Accepts, HandleMatches
<1>2. PcOK'
  BY DEF IInv, TypeOK, PcOK, EntityCommand, Accepts, HandleMatches
<1>3. GlobalsOK'
  BY DEF IInv, TypeOK, GlobalsOK, LocalsOK, EntityCommand, Accepts, HandleMatches
<1>4. ObjectsOK'
  BY DEF IInv, TypeOK, ObjectsOK, GlobalsOK, LocalsOK, EntityCommand, Accepts, HandleMatches
<1>5. LocalsOK'
  BY DEF IInv, TypeOK, LocalsOK, GlobalsOK, EntityCommand, Accepts, HandleMatches
<1>6. MutexInv'
  BY DEF IInv, TypeOK, MutexInv, PcOK, GlobalsOK, EntityCommand, Accepts, HandleMatches
<1>7. WindowInv'
  BY DEF IInv, TypeOK, WindowInv, PcOK, GlobalsOK, LocalsOK, EntityCommand, Accepts, HandleMatches
<1>8. BuildInv'
  BY DEF IInv, TypeOK, BuildInv, PcOK, LocalsOK, EntityCommand, Accepts, HandleMatches
<1>9. CommandInv'
  BY DEF IInv, TypeOK, CommandInv, CurrentInv, BuildInv, WindowInv, MutexInv, InWindow,
     PcOK, GlobalsOK, LocalsOK, EntityCommand, Accepts, HandleMatches
<1> QED
  BY <1>1, <1>2, <1>3, <1>4, <1>5, <1>6, <1>7, <1>8, <1>9 DEF IInv, TypeOK

\* While an entity command holds g_mutex nobody evicts its session.
LEMMA EntityPutKeeps ==
    ASSUME IInv, NEW h \in Hosts, EntityPut(h)
    PROVE  IInv'
<1>1. CountInv' /\ CurrentInv' /\ SessionInv'
  BY DEF IInv, TypeOK, CountInv, CurrentInv, SessionInv, InWindow, Usable, EntityPut
<1>2. PcOK'
  BY DEF IInv, TypeOK, PcOK, EntityPut
<1>3. GlobalsOK'
  BY DEF IInv, TypeOK, GlobalsOK, LocalsOK, EntityPut
<1>4. ObjectsOK'
  BY DEF IInv, TypeOK, ObjectsOK, GlobalsOK, LocalsOK, EntityPut
<1>5. LocalsOK'
  BY DEF IInv, TypeOK, LocalsOK, GlobalsOK, EntityPut
<1>6. MutexInv'
  BY DEF IInv, TypeOK, MutexInv, PcOK, GlobalsOK, EntityPut
<1>7. WindowInv'
  BY DEF IInv, TypeOK, WindowInv, PcOK, GlobalsOK, LocalsOK, EntityPut
<1>8. BuildInv'
  BY DEF IInv, TypeOK, BuildInv, PcOK, LocalsOK, EntityPut
<1>9. CommandInv'
  BY DEF IInv, TypeOK, CommandInv, CurrentInv, BuildInv, WindowInv, MutexInv, InWindow,
     PcOK, GlobalsOK, LocalsOK, EntityPut
<1> QED
  BY <1>1, <1>2, <1>3, <1>4, <1>5, <1>6, <1>7, <1>8, <1>9 DEF IInv, TypeOK

-----------------------------------------------------------------------------
(* The receive callbacks and the archive thread.                           *)

\* A DagWorker that takes a job touches no session state.
LEMMA WorkerTakesKeeps ==
    ASSUME IInv, NEW w \in Workers, WorkerTakes(w)
    PROVE  IInv'
<1>1. GlobalsOK' /\ CountInv' /\ CurrentInv' /\ SessionInv'
  BY DEF IInv, TypeOK, GlobalsOK, CountInv, CurrentInv, SessionInv, InWindow, Usable,
     WorkerTakes
<1>2. PcOK'
  BY DEF IInv, TypeOK, PcOK, WorkerTakes
<1>3. ObjectsOK'
  BY DEF IInv, TypeOK, ObjectsOK, GlobalsOK, LocalsOK, WorkerTakes
<1>4. LocalsOK'
  BY DEF IInv, TypeOK, LocalsOK, GlobalsOK, WorkerTakes
<1>5. MutexInv'
  BY DEF IInv, TypeOK, MutexInv, PcOK, GlobalsOK, WorkerTakes
<1>6. WindowInv'
  BY DEF IInv, TypeOK, WindowInv, PcOK, GlobalsOK, LocalsOK, WorkerTakes
<1>7. BuildInv'
  BY DEF IInv, TypeOK, BuildInv, PcOK, LocalsOK, WorkerTakes
<1>8. CommandInv'
  BY DEF IInv, TypeOK, CommandInv, CurrentInv, BuildInv, WindowInv, MutexInv, InWindow,
     PcOK, GlobalsOK, LocalsOK, WorkerTakes
<1> QED
  BY <1>1, <1>2, <1>3, <1>4, <1>5, <1>6, <1>7, <1>8 DEF IInv, TypeOK

\* A live delivery reaches the gate without touching session state.
LEMMA StrandDeliversKeeps ==
    ASSUME IInv, StrandDelivers
    PROVE  IInv'
<1>1. GlobalsOK' /\ ObjectsOK' /\ CountInv' /\ CurrentInv' /\ SessionInv'
  BY DEF IInv, TypeOK, GlobalsOK, ObjectsOK, CountInv, CurrentInv, SessionInv, InWindow,
     Usable, StrandDelivers
<1>2. PcOK'
  BY DEF IInv, TypeOK, PcOK, StrandDelivers
<1>3. LocalsOK'
  BY DEF IInv, TypeOK, LocalsOK, GlobalsOK, StrandDelivers
<1>4. MutexInv'
  BY DEF IInv, TypeOK, MutexInv, PcOK, GlobalsOK, StrandDelivers
<1>5. WindowInv'
  BY DEF IInv, TypeOK, WindowInv, PcOK, GlobalsOK, LocalsOK, StrandDelivers
<1>6. BuildInv'
  BY DEF IInv, TypeOK, BuildInv, PcOK, LocalsOK, StrandDelivers
<1>7. CommandInv'
  BY DEF IInv, TypeOK, CommandInv, CurrentInv, BuildInv, WindowInv, MutexInv, InWindow,
     PcOK, GlobalsOK, LocalsOK, StrandDelivers
<1> QED
  BY <1>1, <1>2, <1>3, <1>4, <1>5, <1>6, <1>7 DEF IInv, TypeOK

\* The gate is read outside every window.
LEMMA CallbackGateKeeps ==
    ASSUME IInv, NEW c \in Callbacks, CallbackGate(c)
    PROVE  IInv'
<1>1. GlobalsOK' /\ ObjectsOK' /\ LocalsOK' /\ CountInv' /\ CurrentInv' /\ SessionInv'
  BY DEF IInv, TypeOK, GlobalsOK, ObjectsOK, LocalsOK, CountInv, CurrentInv, SessionInv,
     InWindow, Usable, CallbackGate
<1>2. PcOK'
  BY DEF IInv, TypeOK, PcOK, CallbackGate
<1>3. MutexInv'
  BY DEF IInv, TypeOK, MutexInv, PcOK, GlobalsOK, CallbackGate
<1>4. WindowInv'
  BY DEF IInv, TypeOK, WindowInv, PcOK, GlobalsOK, LocalsOK, CallbackGate
<1>5. BuildInv'
  BY DEF IInv, TypeOK, BuildInv, PcOK, LocalsOK, CallbackGate
<1>6. CommandInv'
  BY DEF IInv, TypeOK, CommandInv, CurrentInv, BuildInv, WindowInv, MutexInv, InWindow,
     PcOK, GlobalsOK, LocalsOK, CallbackGate
<1> QED
  BY <1>1, <1>2, <1>3, <1>4, <1>5, <1>6 DEF IInv, TypeOK

\* A callback counts its window under g_mutex, or sees no session and opens none.
LEMMA CallbackCopyKeeps ==
    ASSUME IInv, NEW c \in Callbacks, CallbackCopy(c)
    PROVE  IInv'
<1>1. ObjectsOK' /\ SessionInv'
  BY DEF IInv, TypeOK, ObjectsOK, SessionInv, Usable, CallbackCopy, EnterWindow
<1>2. PcOK'
  BY DEF IInv, TypeOK, PcOK, CallbackCopy, EnterWindow
<1>3. GlobalsOK'
  BY EnterCount DEF IInv, TypeOK, WindowInv, PcOK, GlobalsOK, LocalsOK, CallbackCopy,
     EnterWindow
<1>4. LocalsOK'
  BY DEF IInv, TypeOK, LocalsOK, GlobalsOK, CallbackCopy, EnterWindow
<1>5. MutexInv'
  BY DEF IInv, TypeOK, MutexInv, PcOK, GlobalsOK, CallbackCopy, EnterWindow
<1>6. WindowInv'
  BY DEF IInv, TypeOK, WindowInv, PcOK, GlobalsOK, LocalsOK, CallbackCopy, EnterWindow
<1>7. CountInv'
  <2>1. CASE g_session = 0
    BY <2>1 DEF IInv, CountInv, InWindow, CallbackCopy
  <2>2. CASE g_session # 0
    BY <2>2, EnterCount DEF IInv, TypeOK, WindowInv, PcOK, LocalsOK, CallbackCopy
  <2> QED
    BY <2>1, <2>2
<1>8. CurrentInv'
  BY DEF IInv, TypeOK, PcOK, GlobalsOK, LocalsOK, CurrentInv, WindowInv, BuildInv,
     InWindow, CallbackCopy, EnterWindow
<1>9. BuildInv'
  BY DEF IInv, TypeOK, BuildInv, PcOK, LocalsOK, CallbackCopy, EnterWindow
<1>10. CommandInv'
  BY DEF IInv, TypeOK, CommandInv, CurrentInv, BuildInv, WindowInv, MutexInv, InWindow,
     PcOK, GlobalsOK, LocalsOK, CallbackCopy, EnterWindow
<1> QED
  BY <1>1, <1>2, <1>3, <1>4, <1>5, <1>6, <1>7, <1>8, <1>9, <1>10 DEF IInv, TypeOK

\* ApplyMessage queues a record of the generation its window is on.
LEMMA CallbackFunnelKeeps ==
    ASSUME IInv, NEW c \in Callbacks, CallbackFunnel(c)
    PROVE  IInv'
<1>1. GlobalsOK' /\ LocalsOK' /\ CountInv' /\ CurrentInv' /\ SessionInv'
  BY DEF IInv, TypeOK, GlobalsOK, LocalsOK, CountInv, CurrentInv, SessionInv, InWindow,
     Usable, CallbackFunnel
<1>2. PcOK'
  BY DEF IInv, TypeOK, PcOK, CallbackFunnel
<1>3. ObjectsOK'
  <2>1. window[c] \in Sessions
    BY DEF IInv, TypeOK, PcOK, LocalsOK, WindowInv, CallbackFunnel
  <2>2. backlog[window[c]] + 1 \in Nat
    BY <2>1 DEF IInv, TypeOK, ObjectsOK
  <2>3. CASE UNCHANGED backlog
    BY <2>3 DEF IInv, TypeOK, ObjectsOK, CallbackFunnel
  <2>4. CASE backlog' = [backlog EXCEPT ![window[c]] = backlog[window[c]] + 1]
    BY <2>1, <2>2, <2>4 DEF IInv, TypeOK, ObjectsOK, CallbackFunnel
  <2> QED
    BY <2>3, <2>4 DEF CallbackFunnel
<1>4. MutexInv'
  BY DEF IInv, TypeOK, MutexInv, PcOK, GlobalsOK, CallbackFunnel
<1>5. WindowInv'
  BY DEF IInv, TypeOK, WindowInv, PcOK, GlobalsOK, LocalsOK, CallbackFunnel
<1>6. BuildInv'
  BY DEF IInv, TypeOK, BuildInv, PcOK, LocalsOK, CallbackFunnel
<1>7. CommandInv'
  BY DEF IInv, TypeOK, CommandInv, CurrentInv, BuildInv, WindowInv, MutexInv, InWindow,
     PcOK, GlobalsOK, LocalsOK, CallbackFunnel
<1> QED
  BY <1>1, <1>2, <1>3, <1>4, <1>5, <1>6, <1>7 DEF IInv, TypeOK

\* A callback uncounts its window under g_mutex.
LEMMA CallbackLeaveKeeps ==
    ASSUME IInv, NEW c \in Callbacks, CallbackLeave(c)
    PROVE  IInv'
<1>1. ObjectsOK' /\ SessionInv'
  BY DEF IInv, TypeOK, ObjectsOK, SessionInv, Usable, CallbackLeave, LeaveWindow
<1>2. PcOK'
  BY DEF IInv, TypeOK, PcOK, CallbackLeave, LeaveWindow
<1>3. GlobalsOK'
  BY LeaveCount DEF IInv, TypeOK, WindowInv, PcOK, GlobalsOK, LocalsOK, CallbackLeave,
     LeaveWindow
<1>4. LocalsOK'
  BY DEF IInv, TypeOK, LocalsOK, GlobalsOK, CallbackLeave, LeaveWindow
<1>5. MutexInv'
  BY DEF IInv, TypeOK, MutexInv, PcOK, GlobalsOK, CallbackLeave, LeaveWindow
<1>6. WindowInv'
  BY DEF IInv, TypeOK, WindowInv, PcOK, GlobalsOK, LocalsOK, CallbackLeave, LeaveWindow
<1>7. CountInv'
  BY LeaveCount DEF IInv, TypeOK, WindowInv, PcOK, LocalsOK, CallbackLeave
<1>8. CurrentInv'
  BY DEF IInv, TypeOK, PcOK, GlobalsOK, LocalsOK, CurrentInv, WindowInv, BuildInv,
     InWindow, CallbackLeave, LeaveWindow
<1>9. BuildInv'
  BY DEF IInv, TypeOK, BuildInv, PcOK, LocalsOK, CallbackLeave, LeaveWindow
<1>10. CommandInv'
  BY DEF IInv, TypeOK, CommandInv, CurrentInv, BuildInv, WindowInv, MutexInv, InWindow,
     PcOK, GlobalsOK, LocalsOK, CallbackLeave, LeaveWindow
<1> QED
  BY <1>1, <1>2, <1>3, <1>4, <1>5, <1>6, <1>7, <1>8, <1>9, <1>10 DEF IInv, TypeOK

\* Waking the drain waiters changes only where they are.
LEMMA CallbackNotifyKeeps ==
    ASSUME IInv, NEW c \in Callbacks, CallbackNotify(c)
    PROVE  IInv'
<1>1. GlobalsOK' /\ ObjectsOK' /\ LocalsOK' /\ CountInv' /\ CurrentInv' /\ SessionInv'
  BY DEF IInv, TypeOK, GlobalsOK, ObjectsOK, LocalsOK, CountInv, CurrentInv, SessionInv,
     InWindow, Usable, CallbackNotify, GotoNotify
<1>2. PcOK'
  BY DEF IInv, TypeOK, PcOK, CallbackNotify, GotoNotify
<1>3. MutexInv'
  BY DEF IInv, TypeOK, MutexInv, PcOK, GlobalsOK, CallbackNotify, GotoNotify
<1>4. WindowInv'
  BY DEF IInv, TypeOK, WindowInv, PcOK, GlobalsOK, LocalsOK, CallbackNotify, GotoNotify
<1>5. BuildInv'
  BY DEF IInv, TypeOK, BuildInv, PcOK, LocalsOK, CallbackNotify, GotoNotify
<1>6. CommandInv'
  BY DEF IInv, TypeOK, CommandInv, CurrentInv, BuildInv, WindowInv, MutexInv, InWindow,
     PcOK, GlobalsOK, LocalsOK, CallbackNotify, GotoNotify
<1> QED
  BY <1>1, <1>2, <1>3, <1>4, <1>5, <1>6 DEF IInv, TypeOK

\* A callback that returns frees its DagWorker.
LEMMA CallbackReturnsKeeps ==
    ASSUME IInv, NEW c \in Callbacks, CallbackReturns(c)
    PROVE  IInv'
<1>1. GlobalsOK' /\ LocalsOK' /\ CountInv' /\ CurrentInv' /\ SessionInv'
  BY DEF IInv, TypeOK, GlobalsOK, LocalsOK, CountInv, CurrentInv, SessionInv, InWindow,
     Usable, CallbackReturns
<1>2. PcOK'
  BY DEF IInv, TypeOK, PcOK, CallbackReturns
<1>3. ObjectsOK'
  BY DEF IInv, TypeOK, ObjectsOK, GlobalsOK, LocalsOK, CallbackReturns
<1>4. MutexInv'
  BY DEF IInv, TypeOK, MutexInv, PcOK, GlobalsOK, CallbackReturns
<1>5. WindowInv'
  BY DEF IInv, TypeOK, WindowInv, PcOK, GlobalsOK, LocalsOK, CallbackReturns
<1>6. BuildInv'
  BY DEF IInv, TypeOK, BuildInv, PcOK, LocalsOK, CallbackReturns
<1>7. CommandInv'
  BY DEF IInv, TypeOK, CommandInv, CurrentInv, BuildInv, WindowInv, MutexInv, InWindow,
     PcOK, GlobalsOK, LocalsOK, CallbackReturns
<1> QED
  BY <1>1, <1>2, <1>3, <1>4, <1>5, <1>6, <1>7 DEF IInv, TypeOK

\* The archive thread takes one record and waits for its job.
LEMMA ArchiveWorkerKeeps ==
    ASSUME IInv, NEW s \in Sessions, ArchiveWorker(s)
    PROVE  IInv'
<1>1. PcOK' /\ GlobalsOK' /\ LocalsOK' /\ MutexInv' /\ WindowInv' /\ CountInv' /\
   CurrentInv' /\ SessionInv' /\ BuildInv' /\ CommandInv'
  BY DEF IInv, TypeOK, PcOK, GlobalsOK, LocalsOK, MutexInv, WindowInv, CountInv,
     CurrentInv, SessionInv, BuildInv, CommandInv, InWindow, Usable, ArchiveWorker
<1>2. ObjectsOK'
  <2>1. backlog' \in [Sessions -> Nat]
    BY DEF IInv, TypeOK, ObjectsOK, ArchiveWorker
  <2>2. jobs' \subseteq Hosts \cup Sessions
    BY DEF IInv, TypeOK, ObjectsOK, ArchiveWorker
  <2> QED
    BY <2>1, <2>2 DEF IInv, TypeOK, ObjectsOK, ArchiveWorker
<1> QED
  BY <1>1, <1>2 DEF IInv, TypeOK

-----------------------------------------------------------------------------
(* gcs_shutdown, the exit hook and the teardown.                           *)

\* gcs_shutdown evicts the session only when no window is open; else it sleeps.
LEMMA gcs_shutdownKeeps ==
    ASSUME IInv, NEW h \in Hosts, gcs_shutdown(h)
    PROVE  IInv'
<1>1. ObjectsOK' /\ CountInv'
  BY DEF IInv, TypeOK, ObjectsOK, CountInv, InWindow, gcs_shutdown, HandleMatches,
     Evict, GateTeardown, Drained
<1>2. PcOK'
  BY DEF IInv, TypeOK, PcOK, gcs_shutdown, HandleMatches, Evict, GateTeardown, Drained
<1>3. GlobalsOK'
  <2>1. CASE Drained
    BY <2>1, EvictGlobals DEF IInv, TypeOK, GlobalsOK, gcs_shutdown, GateTeardown
  <2>2. CASE ~Drained
    BY <2>2 DEF IInv, TypeOK, GlobalsOK, gcs_shutdown, GateTeardown
  <2> QED
    BY <2>1, <2>2
<1>4. LocalsOK'
  BY DEF IInv, TypeOK, LocalsOK, GlobalsOK, gcs_shutdown, HandleMatches, Evict,
     GateTeardown, Drained
<1>5. MutexInv'
  BY DEF IInv, TypeOK, MutexInv, PcOK, GlobalsOK, gcs_shutdown, HandleMatches, Evict,
     GateTeardown, Drained
<1>6. WindowInv'
  BY DEF IInv, TypeOK, WindowInv, PcOK, GlobalsOK, LocalsOK, gcs_shutdown,
     HandleMatches, Evict, GateTeardown, Drained
<1>7. CurrentInv'
  BY DrainedEmpty DEF IInv, TypeOK, CurrentInv, InWindow, gcs_shutdown, HandleMatches,
     Evict, GateTeardown
<1>8. SessionInv'
  <2>1. CASE Drained
    BY <2>1 DEF IInv, TypeOK, SessionInv, GlobalsOK, LocalsOK, gcs_shutdown, Evict
  <2>2. CASE ~Drained
    <3>1. UNCHANGED <<g_session, evicted, messaging, store, opened>>
      BY <2>2 DEF gcs_shutdown
    <3> QED
      BY <3>1 DEF IInv, SessionInv, Usable
  <2> QED
    BY <2>1, <2>2
<1>9. BuildInv'
  <2>1. ASSUME NEW u \in Hosts
        PROVE  pc'[u] \notin BuildPcs
    <3>1. pc[u] \notin BuildPcs
      BY DEF IInv, TypeOK, GlobalsOK, MutexInv, BuildPcs, HoldPcs, Free, gcs_shutdown,
         ThreadsAssumption, Threads
    <3>2. pc' = [pc EXCEPT ![h] = "sdkDown"] \/ pc' = [pc EXCEPT ![h] = "drain"]
      BY DEF gcs_shutdown, Evict, Goto
    <3> QED
      BY <3>1, <3>2 DEF IInv, TypeOK, PcOK, Threads, BuildPcs
  <2> QED
    BY <2>1 DEF BuildInv, BuildPcs
<1>10. CommandInv'
  BY DEF IInv, TypeOK, CommandInv, CurrentInv, BuildInv, WindowInv, MutexInv, InWindow,
     PcOK, GlobalsOK, LocalsOK, gcs_shutdown, HandleMatches, Evict, GateTeardown,
     Drained
<1> QED
  BY <1>1, <1>2, <1>3, <1>4, <1>5, <1>6, <1>7, <1>8, <1>9, <1>10 DEF IInv, TypeOK

\* A woken waiter evicts the session only when no window is open.
LEMMA DrainWakesKeeps ==
    ASSUME IInv, NEW t \in Closers \cup {Exiter}, DrainWakes(t)
    PROVE  IInv'
<1>1. ObjectsOK' /\ CountInv'
  BY DEF IInv, TypeOK, ObjectsOK, CountInv, InWindow, DrainWakes, Evict, GateTeardown,
     Drained
<1>2. PcOK'
  BY DEF IInv, TypeOK, PcOK, DrainWakes, Evict, GateTeardown, Drained
<1>3. GlobalsOK'
  <2>1. CASE Drained
    BY <2>1, EvictGlobals DEF IInv, TypeOK, GlobalsOK, DrainWakes, GateTeardown
  <2>2. CASE ~Drained
    BY <2>2 DEF IInv, TypeOK, GlobalsOK, DrainWakes, GateTeardown
  <2> QED
    BY <2>1, <2>2
<1>4. LocalsOK'
  BY DEF IInv, TypeOK, LocalsOK, GlobalsOK, DrainWakes, Evict, GateTeardown, Drained
<1>5. MutexInv'
  BY DEF IInv, TypeOK, MutexInv, PcOK, GlobalsOK, DrainWakes, Evict, GateTeardown,
     Drained
<1>6. WindowInv'
  BY DEF IInv, TypeOK, WindowInv, PcOK, GlobalsOK, LocalsOK, DrainWakes, Evict,
     GateTeardown, Drained
<1>7. CurrentInv'
  BY DrainedEmpty DEF IInv, TypeOK, CurrentInv, InWindow, DrainWakes, Evict,
     GateTeardown
<1>8. SessionInv'
  <2>1. CASE Drained
    BY <2>1 DEF IInv, TypeOK, SessionInv, Usable, PcOK, GlobalsOK, LocalsOK, DrainWakes, Evict, GateTeardown, Drained
  <2>2. CASE ~Drained
    BY <2>2 DEF IInv, TypeOK, SessionInv, Usable, PcOK, GlobalsOK, LocalsOK, DrainWakes, Evict, GateTeardown, Drained
  <2> QED
    BY <2>1, <2>2
<1>9. BuildInv'
  <2>1. CASE Drained
    BY <2>1 DEF IInv, TypeOK, BuildInv, SessionInv, MutexInv, PcOK, GlobalsOK, LocalsOK, DrainWakes, Evict, GateTeardown, Drained
  <2>2. CASE ~Drained
    BY <2>2 DEF IInv, TypeOK, BuildInv, SessionInv, MutexInv, PcOK, GlobalsOK, LocalsOK, DrainWakes, Evict, GateTeardown, Drained
  <2> QED
    BY <2>1, <2>2
<1>10. CommandInv'
  BY DEF IInv, TypeOK, CommandInv, CurrentInv, BuildInv, WindowInv, MutexInv, InWindow,
     PcOK, GlobalsOK, LocalsOK, DrainWakes, Evict, GateTeardown, Drained
<1> QED
  BY <1>1, <1>2, <1>3, <1>4, <1>5, <1>6, <1>7, <1>8, <1>9, <1>10 DEF IInv, TypeOK

\* The exit hook gates intake before it has the lock.
LEMMA ExitHookKeeps ==
    ASSUME IInv, ExitHook
    PROVE  IInv'
<1>1. ObjectsOK' /\ LocalsOK' /\ CountInv' /\ CurrentInv' /\ SessionInv'
  BY DEF IInv, TypeOK, ObjectsOK, LocalsOK, CountInv, CurrentInv, SessionInv, InWindow,
     Usable, ExitHook, GateTeardown
<1>2. PcOK'
  BY DEF IInv, TypeOK, PcOK, ExitHook, GateTeardown
<1>3. GlobalsOK'
  BY DEF IInv, TypeOK, GlobalsOK, LocalsOK, ExitHook, GateTeardown
<1>4. MutexInv'
  BY DEF IInv, TypeOK, MutexInv, PcOK, GlobalsOK, ExitHook, GateTeardown
<1>5. WindowInv'
  BY DEF IInv, TypeOK, WindowInv, PcOK, GlobalsOK, LocalsOK, ExitHook, GateTeardown
<1>6. BuildInv'
  BY DEF IInv, TypeOK, BuildInv, PcOK, LocalsOK, ExitHook, GateTeardown
<1>7. CommandInv'
  BY DEF IInv, TypeOK, CommandInv, CurrentInv, BuildInv, WindowInv, MutexInv, InWindow,
     PcOK, GlobalsOK, LocalsOK, ExitHook, GateTeardown
<1> QED
  BY <1>1, <1>2, <1>3, <1>4, <1>5, <1>6, <1>7 DEF IInv, TypeOK

\* The exit hook evicts the session only when no window is open; else it sleeps.
LEMMA ExitLockKeeps ==
    ASSUME IInv, ExitLock
    PROVE  IInv'
<1>1. ObjectsOK' /\ CountInv'
  BY DEF IInv, TypeOK, ObjectsOK, CountInv, InWindow, ExitLock, Evict, Drained
<1>2. PcOK'
  BY DEF IInv, TypeOK, PcOK, ExitLock, Evict, Drained
<1>3. GlobalsOK'
  <2>1. CASE Drained
    BY <2>1, EvictGlobals DEF IInv, TypeOK, GlobalsOK, ExitLock
  <2>2. CASE ~Drained
    BY <2>2 DEF IInv, TypeOK, GlobalsOK, ExitLock
  <2> QED
    BY <2>1, <2>2
<1>4. LocalsOK'
  BY DEF IInv, TypeOK, LocalsOK, GlobalsOK, ExitLock, Evict, Drained
<1>5. MutexInv'
  BY DEF IInv, TypeOK, MutexInv, PcOK, GlobalsOK, ExitLock, Evict, Drained
<1>6. WindowInv'
  BY DEF IInv, TypeOK, WindowInv, PcOK, GlobalsOK, LocalsOK, ExitLock, Evict, Drained
<1>7. CurrentInv'
  BY DrainedEmpty DEF IInv, TypeOK, CurrentInv, InWindow, ExitLock, Evict
<1>8. SessionInv'
  BY DEF IInv, TypeOK, SessionInv, BuildInv, Usable, PcOK, GlobalsOK, ObjectsOK,
     LocalsOK, ExitLock, Evict, Drained
<1>9. BuildInv'
  BY DEF IInv, TypeOK, BuildInv, SessionInv, MutexInv, PcOK, GlobalsOK, ObjectsOK,
     LocalsOK, ExitLock, Evict, Drained
<1>10. CommandInv'
  BY DEF IInv, TypeOK, CommandInv, CurrentInv, BuildInv, WindowInv, MutexInv, InWindow,
     PcOK, GlobalsOK, LocalsOK, ExitLock, Evict, Drained
<1> QED
  BY <1>1, <1>2, <1>3, <1>4, <1>5, <1>6, <1>7, <1>8, <1>9, <1>10 DEF IInv, TypeOK

\* An abandoned exit teardown changes nothing.
LEMMA ExitAbandonsKeeps ==
    ASSUME IInv, ExitAbandons
    PROVE  IInv'
<1>1. GlobalsOK' /\ ObjectsOK' /\ LocalsOK' /\ CountInv' /\ CurrentInv' /\ SessionInv'
  BY DEF IInv, TypeOK, GlobalsOK, ObjectsOK, LocalsOK, CountInv, CurrentInv, SessionInv,
     InWindow, Usable, ExitAbandons
<1>2. PcOK'
  BY DEF IInv, TypeOK, PcOK, ExitAbandons
<1>3. MutexInv'
  BY DEF IInv, TypeOK, MutexInv, PcOK, GlobalsOK, ExitAbandons
<1>4. WindowInv'
  BY DEF IInv, TypeOK, WindowInv, PcOK, GlobalsOK, LocalsOK, ExitAbandons
<1>5. BuildInv'
  BY DEF IInv, TypeOK, BuildInv, PcOK, LocalsOK, ExitAbandons
<1>6. CommandInv'
  BY DEF IInv, TypeOK, CommandInv, CurrentInv, BuildInv, WindowInv, MutexInv, InWindow,
     PcOK, GlobalsOK, LocalsOK, ExitAbandons
<1> QED
  BY <1>1, <1>2, <1>3, <1>4, <1>5, <1>6 DEF IInv, TypeOK

\* The expired drain evicts the session under open windows, and drainExpired says so.
LEMMA ExitExpiresKeeps ==
    ASSUME IInv, ExitExpires
    PROVE  IInv'
<1>1. ObjectsOK' /\ CountInv'
  BY DEF IInv, TypeOK, ObjectsOK, CountInv, InWindow, ExitExpires, Evict, Drained
<1>2. PcOK'
  BY DEF IInv, TypeOK, PcOK, ExitExpires, Evict, Drained
<1>3. GlobalsOK'
  BY EvictGlobals DEF IInv, TypeOK, GlobalsOK, ExitExpires
<1>4. LocalsOK'
  BY DEF IInv, TypeOK, LocalsOK, GlobalsOK, ExitExpires, Evict, Drained
<1>5. MutexInv'
  BY DEF IInv, TypeOK, MutexInv, PcOK, GlobalsOK, ExitExpires, Evict, Drained
<1>6. WindowInv'
  BY DEF IInv, TypeOK, WindowInv, PcOK, GlobalsOK, LocalsOK, ExitExpires, Evict, Drained
<1>7. CurrentInv'
  BY DEF IInv, TypeOK, PcOK, GlobalsOK, LocalsOK, CurrentInv, WindowInv, BuildInv,
     InWindow, ExitExpires, Evict, Drained
<1>8. SessionInv'
  BY DEF IInv, TypeOK, SessionInv, BuildInv, Usable, PcOK, GlobalsOK, ObjectsOK,
     LocalsOK, ExitExpires, Evict, Drained
<1>9. BuildInv'
  BY DEF IInv, TypeOK, BuildInv, SessionInv, MutexInv, PcOK, GlobalsOK, ObjectsOK,
     LocalsOK, ExitExpires, Evict, Drained
<1>10. CommandInv'
  BY DEF IInv, TypeOK, CommandInv, CurrentInv, BuildInv, WindowInv, MutexInv, InWindow,
     PcOK, GlobalsOK, LocalsOK, ExitExpires, Evict, Drained
<1> QED
  BY <1>1, <1>2, <1>3, <1>4, <1>5, <1>6, <1>7, <1>8, <1>9, <1>10 DEF IInv, TypeOK

\* GeniusSDKShutdown touches no session object.
LEMMA TearNodeKeeps ==
    ASSUME IInv, NEW t \in Closers \cup {Exiter}, TearNode(t)
    PROVE  IInv'
<1>1. ObjectsOK' /\ CountInv' /\ CurrentInv' /\ SessionInv'
  BY DEF IInv, TypeOK, ObjectsOK, CountInv, CurrentInv, SessionInv, InWindow, Usable,
     TearNode, NextStage
<1>2. PcOK'
  BY DEF IInv, TypeOK, PcOK, TearNode, NextStage
<1>3. GlobalsOK'
  BY DEF IInv, TypeOK, GlobalsOK, LocalsOK, TearNode, NextStage
<1>4. LocalsOK'
  BY DEF IInv, TypeOK, LocalsOK, GlobalsOK, TearNode, NextStage
<1>5. MutexInv'
  BY DEF IInv, TypeOK, MutexInv, PcOK, GlobalsOK, TearNode, NextStage
<1>6. WindowInv'
  BY DEF IInv, TypeOK, WindowInv, PcOK, GlobalsOK, LocalsOK, TearNode, NextStage
<1>7. BuildInv'
  BY DEF IInv, TypeOK, BuildInv, PcOK, LocalsOK, TearNode, NextStage
<1>8. CommandInv'
  BY DEF IInv, TypeOK, CommandInv, CurrentInv, BuildInv, WindowInv, MutexInv, InWindow,
     PcOK, GlobalsOK, LocalsOK, TearNode, NextStage
<1> QED
  BY <1>1, <1>2, <1>3, <1>4, <1>5, <1>6, <1>7, <1>8 DEF IInv, TypeOK

\* Destroying an evicted Messaging leaves the published session alive.
LEMMA TearMessagingKeeps ==
    ASSUME IInv, NEW t \in Closers \cup {Exiter}, TearMessaging(t)
    PROVE  IInv'
<1>1. GlobalsOK' /\ LocalsOK' /\ CountInv' /\ CurrentInv'
  BY DEF IInv, TypeOK, GlobalsOK, LocalsOK, CountInv, CurrentInv, InWindow,
     TearMessaging, NextStage
<1>2. PcOK'
  BY DEF IInv, TypeOK, PcOK, TearMessaging, NextStage
<1>3. ObjectsOK'
  BY DEF IInv, TypeOK, ObjectsOK, GlobalsOK, LocalsOK, TearMessaging, NextStage
<1>4. MutexInv'
  BY DEF IInv, TypeOK, MutexInv, PcOK, GlobalsOK, TearMessaging, NextStage
<1>5. WindowInv'
  BY DEF IInv, TypeOK, WindowInv, PcOK, GlobalsOK, LocalsOK, TearMessaging, NextStage
<1>6. SessionInv'
  BY DEF IInv, TypeOK, SessionInv, BuildInv, Usable, PcOK, GlobalsOK, ObjectsOK,
     LocalsOK, TearMessaging, NextStage
<1>7. BuildInv'
  BY DEF IInv, TypeOK, BuildInv, PcOK, LocalsOK, TearMessaging, NextStage
<1>8. CommandInv'
  BY DEF IInv, TypeOK, CommandInv, CurrentInv, BuildInv, WindowInv, MutexInv, InWindow,
     PcOK, GlobalsOK, LocalsOK, TearMessaging, NextStage
<1> QED
  BY <1>1, <1>2, <1>3, <1>4, <1>5, <1>6, <1>7, <1>8 DEF IInv, TypeOK

\* Shutting an evicted session down leaves the published session alive.
LEMMA TearStoreKeeps ==
    ASSUME IInv, NEW t \in Closers \cup {Exiter}, TearStore(t)
    PROVE  IInv'
<1>1. GlobalsOK' /\ LocalsOK' /\ CountInv' /\ CurrentInv'
  BY DEF IInv, TypeOK, GlobalsOK, LocalsOK, CountInv, CurrentInv, InWindow, TearStore,
     NextStage
<1>2. PcOK'
  BY DEF IInv, TypeOK, PcOK, TearStore, NextStage
<1>3. ObjectsOK'
  BY DEF IInv, TypeOK, ObjectsOK, GlobalsOK, LocalsOK, TearStore, NextStage
<1>4. MutexInv'
  BY DEF IInv, TypeOK, MutexInv, PcOK, GlobalsOK, TearStore, NextStage
<1>5. WindowInv'
  BY DEF IInv, TypeOK, WindowInv, PcOK, GlobalsOK, LocalsOK, TearStore, NextStage
<1>6. SessionInv'
  BY DEF IInv, TypeOK, SessionInv, BuildInv, Usable, PcOK, GlobalsOK, ObjectsOK,
     LocalsOK, TearStore, NextStage
<1>7. BuildInv'
  BY DEF IInv, TypeOK, BuildInv, SessionInv, MutexInv, PcOK, GlobalsOK, ObjectsOK,
     LocalsOK, TearStore, NextStage
<1>8. CommandInv'
  BY DEF IInv, TypeOK, CommandInv, CurrentInv, BuildInv, WindowInv, MutexInv, InWindow,
     PcOK, GlobalsOK, LocalsOK, TearStore, NextStage
<1> QED
  BY <1>1, <1>2, <1>3, <1>4, <1>5, <1>6, <1>7, <1>8 DEF IInv, TypeOK

\* A teardown that returns forgets the objects it destroyed.
LEMMA TearReturnsKeeps ==
    ASSUME IInv, NEW t \in Closers \cup {Exiter}, TearReturns(t)
    PROVE  IInv'
<1>1. ObjectsOK' /\ CountInv' /\ CurrentInv'
  BY DEF IInv, TypeOK, ObjectsOK, CountInv, CurrentInv, InWindow, TearReturns, NextStage
<1>2. PcOK'
  BY DEF IInv, TypeOK, PcOK, TearReturns, NextStage
<1>3. GlobalsOK'
  BY DEF IInv, TypeOK, GlobalsOK, LocalsOK, TearReturns, NextStage
<1>4. LocalsOK'
  BY DEF IInv, TypeOK, LocalsOK, GlobalsOK, TearReturns, NextStage
<1>5. MutexInv'
  BY DEF IInv, TypeOK, MutexInv, PcOK, GlobalsOK, TearReturns, NextStage
<1>6. WindowInv'
  BY DEF IInv, TypeOK, WindowInv, PcOK, GlobalsOK, LocalsOK, TearReturns, NextStage
<1>7. SessionInv'
  BY DEF IInv, TypeOK, SessionInv, BuildInv, Usable, PcOK, GlobalsOK, ObjectsOK,
     LocalsOK, TearReturns, NextStage
<1>8. BuildInv'
  BY DEF IInv, TypeOK, BuildInv, PcOK, LocalsOK, TearReturns, NextStage
<1>9. CommandInv'
  BY DEF IInv, TypeOK, CommandInv, CurrentInv, BuildInv, WindowInv, MutexInv, InWindow,
     PcOK, GlobalsOK, LocalsOK, TearReturns, NextStage
<1> QED
  BY <1>1, <1>2, <1>3, <1>4, <1>5, <1>6, <1>7, <1>8, <1>9 DEF IInv, TypeOK

-----------------------------------------------------------------------------
(* The induction.                                                          *)

\* The library as loaded satisfies the invariant.
LEMMA InitKeeps == Init => IInv
<1> SUFFICES ASSUME Init PROVE IInv
  OBVIOUS
<1>1. PcOK
  BY DEF Init, PcOK
<1>2. GlobalsOK
  <2>1. mutex \in Hosts \cup {NoThread} /\ g_session \in 0..MaxSessions /\ g_inFlight \in Nat
    BY DEF Init
  <2>2. /\ g_receivingDisabled \in BOOLEAN /\ g_tearingDown \in BOOLEAN
        /\ g_sdkBootedHere \in BOOLEAN /\ exitHook \in BOOLEAN
    BY DEF Init
  <2>3. node \in BOOLEAN /\ armed \in BOOLEAN /\ drainExpired \in BOOLEAN
    BY DEF Init
  <2> QED
    BY <2>1, <2>2, <2>3 DEF GlobalsOK
<1>3. ObjectsOK
  BY DEF Init, ObjectsOK
<1>4. LocalsOK
  BY DEF Init, LocalsOK
<1>5. MutexInv /\ WindowInv
  BY DEF Init, MutexInv, WindowInv
<1>6. InWindow = {}
  BY DEF Init, InWindow
<1>7. CountInv /\ CurrentInv
  BY <1>6, FS_EmptySet DEF Init, CountInv, CurrentInv
<1>8. SessionInv /\ BuildInv /\ CommandInv
  BY DEF Init, SessionInv, BuildInv, CommandInv
<1> QED
  BY <1>1, <1>2, <1>3, <1>4, <1>5, <1>7, <1>8 DEF IInv, TypeOK

\* A step that changes nothing keeps the invariant.
LEMMA StutterKeeps == IInv /\ UNCHANGED vars => IInv'
<1> SUFFICES ASSUME IInv, UNCHANGED vars PROVE IInv'
  OBVIOUS
<1>1. TypeOK'
  BY DEF IInv, TypeOK, PcOK, GlobalsOK, ObjectsOK, LocalsOK, vars
<1>2. MutexInv' /\ WindowInv' /\ CountInv' /\ CurrentInv'
  BY DEF IInv, MutexInv, WindowInv, CountInv, CurrentInv, InWindow, vars
<1>3. SessionInv' /\ BuildInv' /\ CommandInv'
  BY DEF IInv, SessionInv, Usable, BuildInv, CommandInv, vars
<1> QED
  BY <1>1, <1>2, <1>3 DEF IInv

\* Every operation of the C ABI, every callback and every teardown step keeps the
\* invariant: one case per group of actions.
LEMMA NextKeeps == IInv /\ [Next]_vars => IInv'
<1> SUFFICES ASSUME IInv, [Next]_vars PROVE IInv'
  OBVIOUS
<1>1. CASE \E h \in Hosts : HostCalls(h)
  BY <1>1, gcs_initKeeps, gcs_init_againKeeps, join_topicKeeps, send_textKeeps,
     EntityCommandKeeps, gcs_shutdownKeeps DEF HostCalls
<1>2. CASE \E h \in Hosts : HostUnlocked(h)
  BY <1>2, SubscribeLiveKeeps, SubscribeReturnKeeps, SendPendingKeeps, SendPublishKeeps,
     SendPutKeeps, SendTerminalKeeps, SendReturnKeeps DEF HostUnlocked
<1>3. CASE \E h \in Hosts : HostLocked(h)
  BY <1>3, InitStoreFailsKeeps, InitStoreKeeps, InitJoinFailsKeeps, InitJoinKeeps,
     RefreshDerivedJoinsKeeps, RefreshReturnKeeps, EntityPutKeeps DEF HostLocked
<1>4. CASE \E w \in Workers : WorkerTakes(w)
  BY <1>4, WorkerTakesKeeps
<1>5. CASE StrandDelivers
  BY <1>5, StrandDeliversKeeps
<1>6. CASE \E c \in Callbacks : CallbackStep(c)
  BY <1>6, CallbackGateKeeps, CallbackCopyKeeps, CallbackFunnelKeeps, CallbackLeaveKeeps,
     CallbackNotifyKeeps, CallbackReturnsKeeps DEF CallbackStep
<1>7. CASE \E s \in Sessions : ArchiveWorker(s)
  BY <1>7, ArchiveWorkerKeeps
<1>8. CASE \E t \in Closers \cup {Exiter} : Teardown(t)
  BY <1>8, DrainWakesKeeps, TearNodeKeeps, TearMessagingKeeps, TearStoreKeeps,
     TearReturnsKeeps DEF Teardown
<1>9. CASE ExitHook \/ ExitStep
  BY <1>9, ExitHookKeeps, ExitLockKeeps, ExitAbandonsKeeps, ExitExpiresKeeps DEF ExitStep
<1>10. CASE Quiescent \/ UNCHANGED vars
  BY <1>10, StutterKeeps DEF Quiescent
<1> QED
  BY <1>1, <1>2, <1>3, <1>4, <1>5, <1>6, <1>7, <1>8, <1>9, <1>10 DEF Next

\* The invariant holds in every state of every execution of the C ABI.
THEOREM Inductive == Spec => []IInv
<1> QED
  BY InitKeeps, NextKeeps, PTL DEF Spec

\* Every global and local of the C ABI's threads keeps its type; in particular
\* g_inFlight never goes below zero, so every path that counts a window uncounts it
\* once.
THEOREM TypeCorrect == Spec => []TypeOK
<1>1. IInv => TypeOK
  BY DEF IInv
<1> QED
  BY <1>1, Inductive, PTL

\* No operation that runs with g_mutex released (a send, a subscribe, a receive
\* callback) and no command back under it touches a destroyed session or Messaging,
\* unless the exit hook's bounded drain has expired: the eviction waits for
\* g_inFlight = 0, g_inFlight counts the windows, and the windows that are open are
\* all on the session that is published.
THEOREM SafeWindows == Spec => []NoUseAfterDestroy
<1>1. IInv => NoUseAfterDestroy
  <2> SUFFICES ASSUME IInv, ~drainExpired
               PROVE  /\ \A t \in Threads : window[t] # 0 => Usable(window[t])
                      /\ \A h \in Hosts : pc[h] \in {"entityPut", "refresh"} => Usable(g_session)
    BY DEF NoUseAfterDestroy
  <2>1. \A t \in Threads : window[t] # 0 => window[t] = g_session
    BY DEF IInv, CurrentInv, InWindow
  <2>2. \A t \in Threads : window[t] # 0 => Usable(window[t])
    BY <2>1 DEF IInv, SessionInv
  <2>3. \A h \in Hosts : pc[h] \in {"entityPut", "refresh"} => Usable(g_session)
    BY DEF IInv, SessionInv, CommandInv
  <2> QED
    BY <2>2, <2>3
<1> QED
  BY <1>1, Inductive, PTL

-----------------------------------------------------------------------------
(* The wake-ups of the drain.                                              *)

\* A thread that goes on with the windows as they are wakes nobody and, unless a window
\* is open, does not go to sleep: the wake-up that was to come still is.
LEMMA GoesOn ==
    ASSUME TypeOK, NoLostWakeup, g_inFlight' = g_inFlight, NEW t \in Threads, NEW label,
           pc' = [pc EXCEPT ![t] = label], label # "drain" \/ ~Drained,
           t \notin Callbacks \/ pc[t] # "notify"
    PROVE  NoLostWakeup'
<1> SUFFICES ASSUME NEW u \in Closers \cup {Exiter}, pc'[u] = "drain", Drained
             PROVE  \E c \in Callbacks : pc'[c] = "notify"
  BY DEF NoLostWakeup, Drained
<1>1. pc \in [Threads -> HostPcs \cup CallbackPcs \cup ExitPcs] /\ u \in Threads
  BY DEF TypeOK, PcOK
<1>2. pc[u] = "drain"
  BY <1>1
<1>3. PICK c \in Callbacks : pc[c] = "notify"
  BY <1>2 DEF NoLostWakeup
<1> QED
  BY <1>1, <1>3

\* A step after which nobody is asleep, or a window is open.
LEMMA NobodySleeps ==
    ASSUME (\A t \in Closers \cup {Exiter} : pc'[t] # "drain") \/ ~Drained'
    PROVE  NoLostWakeup'
  BY DEF NoLostWakeup

\* Opening a window.
LEMMA EnterKeepsWakeup ==
    ASSUME TypeOK, NEW t \in Threads, EnterWindow(t)
    PROVE  NoLostWakeup'
<1>1. g_inFlight \in Nat /\ g_inFlight' = g_inFlight + 1
  BY DEF TypeOK, GlobalsOK, EnterWindow
<1>2. ~Drained'
  BY <1>1 DEF Drained
<1> QED
  BY <1>2, NobodySleeps

\* notify_all wakes every sleeper.
LEMMA NotifyWakes ==
    ASSUME TypeOK, NEW t \in Threads, NEW label, label # "drain", GotoNotify(t, label)
    PROVE  NoLostWakeup'
<1>1. \A u \in Threads : pc'[u] # "drain"
  BY DEF GotoNotify
<1> QED
  BY <1>1, NobodySleeps

\* The threads of the C ABI: whoever closes a window in it notifies in the same step.
LEMMA HostsWake ==
    ASSUME IInv, NoLostWakeup, NEW h \in Hosts, HostCalls(h) \/ HostUnlocked(h) \/ HostLocked(h)
    PROVE  NoLostWakeup'
<1>0. TypeOK /\ h \in Threads /\ h \notin Callbacks
  BY DEF IInv
<1>1. CASE gcs_init(h) \/ InitStoreFails(h) \/ InitStore(h) \/ InitJoinFails(h) \/ InitJoin(h)
  BY <1>0, <1>1, GoesOn DEF gcs_init, InitStoreFails, InitStore, InitJoinFails, InitJoin
<1>2. CASE gcs_init_again(h)
  BY <1>2 DEF gcs_init_again, NoLostWakeup, Drained
<1>3. CASE join_topic(h) \/ send_text(h) \/ RefreshDerivedJoins(h)
  BY <1>0, <1>3, EnterKeepsWakeup DEF join_topic, send_text, RefreshDerivedJoins
<1>4. CASE EntityCommand(h) \/ RefreshReturn(h)
  BY <1>0, <1>4, GoesOn DEF EntityCommand, RefreshReturn
<1>5. CASE SubscribeLive(h) \/ SendPending(h) \/ SendPublish(h) \/ SendPut(h) \/ SendTerminal(h)
  BY <1>0, <1>5, GoesOn DEF SubscribeLive, SendPending, SendPublish, SendPut, SendTerminal
<1>6. CASE SubscribeReturn(h) \/ SendReturn(h)
  BY <1>0, <1>6, NotifyWakes DEF SubscribeReturn, SendReturn
<1>7. CASE gcs_shutdown(h)
  BY <1>0, <1>7, GoesOn DEF gcs_shutdown, Evict
<1>8. CASE EntityPut(h)
  <2>1. CASE UNCHANGED pc
    BY <1>8, <2>1 DEF EntityPut, NoLostWakeup, Drained
  <2>2. CASE Goto(h, "idle") \/ Goto(h, "refresh")
    BY <1>0, <1>8, <2>2, GoesOn DEF EntityPut
  <2> QED
    BY <1>8, <2>1, <2>2 DEF EntityPut
<1> QED
  BY <1>1, <1>2, <1>3, <1>4, <1>5, <1>6, <1>7, <1>8 DEF HostCalls, HostUnlocked, HostLocked

\* A callback that has closed its window stands at its notify_all until it makes it.
LEMMA CallbacksWake ==
    ASSUME IInv, NoLostWakeup, NEW c \in Callbacks, CallbackStep(c)
    PROVE  NoLostWakeup'
<1>0. TypeOK /\ c \in Threads
  BY DEF IInv
<1>1. CASE CallbackGate(c) \/ CallbackFunnel(c) \/ CallbackReturns(c)
  BY <1>0, <1>1, GoesOn DEF CallbackGate, CallbackFunnel, CallbackReturns
<1>2. CASE CallbackCopy(c)
  <2>1. CASE EnterWindow(c)
    BY <1>0, <2>1, EnterKeepsWakeup
  <2>2. CASE Goto(c, "jobDone") /\ UNCHANGED g_inFlight
    BY <1>0, <1>2, <2>2, GoesOn DEF CallbackCopy
  <2> QED
    BY <1>2, <2>1, <2>2 DEF CallbackCopy
<1>3. CASE CallbackLeave(c)
  <2>1. pc'[c] = "notify"
    BY <1>0, <1>3 DEF CallbackLeave, TypeOK, PcOK
  <2> QED
    BY <2>1 DEF NoLostWakeup
<1>4. CASE CallbackNotify(c)
  BY <1>0, <1>4, NotifyWakes DEF CallbackNotify
<1> QED
  BY <1>1, <1>2, <1>3, <1>4 DEF CallbackStep

\* A teardown goes to sleep only when a window is open.
LEMMA TeardownsWake ==
    ASSUME IInv, NoLostWakeup,
           \/ \E t \in Closers \cup {Exiter} : Teardown(t)
           \/ ExitHook \/ ExitStep
    PROVE  NoLostWakeup'
<1>0. TypeOK /\ Exiter \in Threads /\ Exiter \notin Callbacks
  BY DEF IInv
<1>1. ASSUME NEW t \in Closers \cup {Exiter}, Teardown(t)
      PROVE  NoLostWakeup'
  <2>0. t \in Threads /\ t \notin Callbacks
    OBVIOUS
  <2>1. CASE DrainWakes(t)
    BY <1>0, <2>0, <2>1, GoesOn DEF DrainWakes, Evict
  <2>2. CASE TearNode(t)
    BY <1>0, <2>0, <2>2, GoesOn DEF TearNode, NextStage
  <2>3. CASE TearMessaging(t) \/ TearStore(t)
    BY <1>0, <2>0, <2>3, GoesOn DEF TearMessaging, TearStore, NextStage
  <2>4. CASE TearReturns(t)
    BY <1>0, <2>0, <2>4, GoesOn DEF TearReturns
  <2> QED
    BY <1>1, <2>1, <2>2, <2>3, <2>4 DEF Teardown
<1>2. CASE ExitHook \/ ExitAbandons
  BY <1>0, <1>2, GoesOn DEF ExitHook, ExitAbandons
<1>3. CASE ExitLock \/ ExitExpires
  BY <1>0, <1>3, GoesOn DEF ExitLock, ExitExpires, Evict
<1> QED
  BY <1>1, <1>2, <1>3 DEF ExitStep

\* A teardown asleep in either drain always has a wake-up to come, from whichever thread
\* closes the last window: the callbacks, which notify outside g_mutex, included.
THEOREM WakeupsCome == Spec => []NoLostWakeup
<1>1. Init => NoLostWakeup
  BY DEF Init, NoLostWakeup
<1>2. IInv /\ NoLostWakeup /\ [Next]_vars => NoLostWakeup'
  <2> SUFFICES ASSUME IInv, NoLostWakeup, [Next]_vars
               PROVE  NoLostWakeup'
    OBVIOUS
  <2>0. TypeOK
    BY DEF IInv
  <2>1. ASSUME NEW w \in Workers, WorkerTakes(w)
        PROVE  NoLostWakeup'
    BY <2>0, <2>1, GoesOn DEF WorkerTakes
  <2>2. CASE StrandDelivers
    BY <2>0, <2>2, GoesOn DEF StrandDelivers
  <2>3. CASE (\E s \in Sessions : ArchiveWorker(s)) \/ Quiescent \/ UNCHANGED vars
    BY <2>3 DEF ArchiveWorker, Quiescent, vars, NoLostWakeup, Drained
  <2> QED
    BY <2>1, <2>2, <2>3, HostsWake, CallbacksWake, TeardownsWake DEF Next
<1> QED
  BY <1>1, <1>2, Inductive, PTL DEF Spec
=============================================================================
