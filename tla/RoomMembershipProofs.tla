------------------------- MODULE RoomMembershipProofs -------------------------
(***************************************************************************)
(* Proofs about RoomMembership for every number of threads, rooms, spaces, *)
(* sessions and commands: its five invariants, from one inductive          *)
(* invariant.  Beside the invariants themselves it needs to know what is   *)
(* left of a stopped session, that the refresh of gcs_init is marked when  *)
(* a port comes during it, and how far a refresh that nobody raced has     *)
(* come.                                                                   *)
(***************************************************************************)
EXTENDS RoomMembership, TLAPS

USE TopicAssumption, MembershipAssumption

\* The empty library, before the first session.
LEMMA InitKeeps == Init => IInv
<1> SUFFICES ASSUME Init PROVE IInv
  OBVIOUS
<1>1. TypeOK
  <2>1. DbOK
    BY DEF Init, DbInit, DbOK
  <2>2. ThreadsOK
    BY DEF Init, ThreadsOK, Pcs
  <2>3. NoTree.parent \in Parents /\ NoTree.auto \in [{} -> BOOLEAN]
    BY DEF NoTree, Parents
  <2>4. NoTree.auto \in Flags
    BY <2>3 DEF Flags
  <2>5. MembershipOK
    BY <2>3, <2>4 DEF Init, MembershipOK
  <2>6. NoTree \in [parent : Parents, auto : Flags]
    BY <2>3, <2>4 DEF NoTree
  <2>7. DartOK
    <3>1. told \in [rooms : SUBSET Topic, tree : [parent : Parents, auto : Flags]]
      BY <2>6 DEF Init
    <3>2. opened \in 0..MaxSessions /\ issued \in 0..MaxCommands
      BY DEF Init
    <3>3. port \in BOOLEAN /\ raced \subseteq {"catalog", "port"}
      BY DEF Init
    <3> QED
      BY <3>1, <3>2, <3>3 DEF DartOK
  <2> QED
    BY <2>1, <2>2, <2>5, <2>7 DEF TypeOK
<1>2. MembershipUnion /\ JoinedBothWays /\ LiveOrNoticed
  BY DEF Init, MembershipUnion, JoinedBothWays, LiveOrNoticed
<1>3. StoppedInv /\ StarterInv /\ RefreshInv
  BY DEF Init, DbInit, StoppedInv, StarterInv, RefreshInv, Quiet, Refreshing
<1>4. ParentInv
  BY DEF Init, ParentInv, Exists, NoTree
<1>5. ToldCurrent /\ DerivedCurrent
  BY DEF Init, DbInit, ToldCurrent, DerivedCurrent
<1> QED
  BY <1>1, <1>2, <1>3, <1>4, <1>5 DEF IInv

\* A step that changes nothing keeps the invariant.
LEMMA StutterKeeps == IInv /\ UNCHANGED vars => IInv'
<1> SUFFICES ASSUME IInv, UNCHANGED vars PROVE IInv'
  OBVIOUS
<1>1. UNCHANGED <<db, refresh, pc, subscribing, catalog, topics, notes, dart, raced, opened, issued>>
  BY DEF vars
<1>2. Tree' = Tree /\ (Quiet' <=> Quiet)
  BY <1>1 DEF Tree, Quiet, Refreshing, catalog
<1>3. TypeOK'
  BY <1>1 DEF IInv, TypeOK, DbOK, ThreadsOK, MembershipOK, DartOK, db, refresh, catalog, topics,
     notes, dart
<1>4. MembershipUnion' /\ JoinedBothWays' /\ LiveOrNoticed'
  BY <1>1 DEF IInv, MembershipUnion, JoinedBothWays, LiveOrNoticed, db, topics, notes
<1>5. StoppedInv' /\ StarterInv' /\ ParentInv'
  BY <1>1, <1>2 DEF IInv, StoppedInv, StarterInv, ParentInv, Exists, Refreshing,
     db, refresh, catalog, topics, dart
<1>6. RefreshInv'
  BY <1>1, <1>2 DEF IInv, RefreshInv, Refreshing, DerivedJoinedTopics, refresh, topics, notes
<1>7. ToldCurrent' /\ DerivedCurrent'
  BY <1>1, <1>2 DEF IInv, ToldCurrent, DerivedCurrent, db, catalog, topics, notes, dart
<1> QED
  BY <1>3, <1>4, <1>5, <1>6, <1>7 DEF IInv

\* The derived topics are the rooms in memory whose space is, with auto-join set.
LEMMA DerivedRooms ==
    ASSUME MembershipOK
    PROVE  DerivedJoinedTopics(Tree) =
               {r \in Room : \E p \in DOMAIN autoJoin \cap loaded :
                                 r \in loaded /\ parent[r] = p /\ autoJoin[p]}
<1>1. DOMAIN autoJoin \subseteq Space
  BY DEF MembershipOK, Flags
<1>2. NotCreated \notin DOMAIN autoJoin
  BY <1>1
<1> QED
  BY <1>2 DEF DerivedJoinedTopics, Tree

\* The derived topics are rooms.
LEMMA DerivedAreRooms ==
    ASSUME NEW tree
    PROVE  DerivedJoinedTopics(tree) \subseteq Room
  BY DEF DerivedJoinedTopics, Tree

\* A thread leaves the idle place for its refresh while nobody holds g_mutex.
LEMMA BeginTypes ==
    ASSUME ThreadsOK, NEW t \in Thread, pc[t] = "idle", Free, BeginRefresh(t),
           UNCHANGED subscribing, starter' \in Thread \cup {NoThread}
    PROVE  ThreadsOK' /\ Refreshing(t)'
  BY DerivedAreRooms DEF ThreadsOK, Free, BeginRefresh, DerivedNow, Goto, Pcs, Refreshing

\* gcs_init.
LEMMA gcs_initKeeps ==
    ASSUME IInv, NEW t \in Thread, gcs_init(t)
    PROVE  IInv'
<1>1. PICK joined \in (SUBSET Smoke) \ {{}} :
         Initialize(joined) /\ preJoined' = joined /\ g_roomTopics' = joined
  BY DEF gcs_init
<1>2. StoppedInv /\ ~m_running
  BY DEF IInv, gcs_init
<1>3. TypeOK'
  <2>1. DbOK'
    BY <1>1 DEF IInv, TypeOK, DbOK, gcs_init, Initialize, Topic
  <2>2. ThreadsOK' /\ Refreshing(t)'
    BY BeginTypes DEF IInv, TypeOK, gcs_init
  <2>3. MembershipOK'
    <3>1. DOMAIN autoJoin \subseteq Space
      BY DEF IInv, TypeOK, MembershipOK, Flags
    <3>2. loaded' \subseteq Room \cup Space /\ UNCHANGED <<parent, autoJoin>>
      BY <3>1 DEF gcs_init, LoadFromStore
    <3> QED
      BY <1>1, <3>2 DEF IInv, TypeOK, MembershipOK, gcs_init, notes, Topic
  <2>4. DartOK'
    BY DEF IInv, TypeOK, DartOK, gcs_init, dart
  <2> QED
    BY <2>1, <2>2, <2>3, <2>4 DEF TypeOK
<1>4. MembershipUnion' /\ JoinedBothWays' /\ LiveOrNoticed'
  BY <1>1, <1>2 DEF MembershipUnion, JoinedBothWays, LiveOrNoticed, gcs_init, StoppedInv, Initialize
<1>5. \A u \in Thread : Refreshing(u)' <=> u = t
  BY <1>2 DEF IInv, TypeOK, ThreadsOK, StoppedInv, Quiet, Refreshing, gcs_init, BeginRefresh, Goto
<1>6. StoppedInv' /\ StarterInv' /\ ParentInv'
  BY <1>1, <1>2, <1>5 DEF IInv, StoppedInv, StarterInv, ParentInv, Exists, gcs_init, LoadFromStore, Initialize, dart
<1>7. RefreshInv'
  <2>1. derived'[t] = DerivedNow /\ todo'[t] = DerivedNow
    BY DEF gcs_init, BeginRefresh, IInv, TypeOK, ThreadsOK
  <2> QED
    BY <1>5, <2>1 DEF RefreshInv, DerivedNow, DerivedJoinedTopics, Tree
<1>8. ~Quiet'
  BY <1>5 DEF Quiet
<1>9. ToldCurrent' /\ DerivedCurrent'
  BY <1>8 DEF ToldCurrent, DerivedCurrent
<1> QED
  BY <1>3, <1>4, <1>6, <1>7, <1>9 DEF IInv

\* What gcs_subscribe and a refresh's end post is well typed and current.
LEMMA PostTreeTypes ==
    ASSUME TypeOK, MembershipOK', NEW rooms \in SUBSET Topic, PostTree(rooms)
    PROVE  /\ told' \in [rooms : SUBSET Topic, tree : [parent : Parents, auto : Flags]]
           /\ port' => told' = [rooms |-> rooms, tree |-> Tree']
<1>1. PICK S \in SUBSET Space : parent' \in Parents /\ autoJoin' \in [S -> BOOLEAN]
  BY DEF MembershipOK, Flags
<1>2. Tree'.parent \in Parents
  BY <1>1 DEF Tree, Parents
<1>3. Tree'.auto \in [S \cap loaded' -> BOOLEAN] /\ S \cap loaded' \in SUBSET Space
  BY <1>1 DEF Tree
<1>4. Tree' \in [parent : Parents, auto : Flags]
  BY <1>2, <1>3 DEF Tree, Flags
<1> QED
  BY <1>4 DEF TypeOK, DartOK, PostTree

\* gcs_subscribe.
LEMMA gcs_subscribeKeeps ==
    ASSUME IInv, NEW t \in Thread, gcs_subscribe(t)
    PROVE  IInv'
<1>1. /\ UNCHANGED <<db, refresh, pc, subscribing, catalog, topics, notes, opened, issued>>
      /\ port' = TRUE /\ PostTree(g_roomTopics) /\ m_running
  BY DEF gcs_subscribe
<1>2. DbOK' /\ ThreadsOK' /\ MembershipOK' /\ g_roomTopics \in SUBSET Topic
  BY <1>1 DEF IInv, TypeOK, DbOK, ThreadsOK, MembershipOK, db, refresh, catalog, topics, notes
<1>3. told' = [rooms |-> g_roomTopics', tree |-> Tree']
  BY <1>1, <1>2, PostTreeTypes DEF IInv, topics
<1>4. DartOK'
  <2>1. raced' \subseteq {"catalog", "port"}
    BY DEF gcs_subscribe, IInv, TypeOK, DartOK
  <2> QED
    BY <1>1, <1>2, <2>1, PostTreeTypes DEF IInv, TypeOK, DartOK
<1>5. TypeOK'
  BY <1>2, <1>4 DEF TypeOK
<1>6. MembershipUnion' /\ JoinedBothWays' /\ LiveOrNoticed'
  BY <1>1 DEF IInv, MembershipUnion, JoinedBothWays, LiveOrNoticed, db, topics, notes
<1>7. StoppedInv' /\ ParentInv'
  BY <1>1 DEF IInv, StoppedInv, ParentInv, Exists, db, catalog
<1>8. StarterInv'
  BY <1>1 DEF IInv, StarterInv, gcs_subscribe, refresh, Refreshing
<1>9. "catalog" \in raced' <=> "catalog" \in raced
  BY DEF gcs_subscribe
<1>10. RefreshInv' /\ DerivedCurrent'
  BY <1>1, <1>9 DEF IInv, RefreshInv, DerivedCurrent, DerivedJoinedTopics, Tree, Quiet, Refreshing,
     db, refresh, catalog, topics, notes
<1>11. ToldCurrent'
  BY <1>3 DEF ToldCurrent
<1> QED
  BY <1>5, <1>6, <1>7, <1>8, <1>10, <1>11 DEF IInv

\* A gcs_init that fails leaves everything as it was.
LEMMA gcs_init_failsKeeps ==
    ASSUME IInv, NEW t \in Thread, gcs_init_fails(t)
    PROVE  IInv'
<1>1. opened' \in 0..MaxSessions
  BY DEF IInv, TypeOK, DartOK, gcs_init_fails
<1>2. UNCHANGED <<db, refresh, pc, subscribing, catalog, topics, notes, dart, raced, issued>>
  BY DEF gcs_init_fails, InitializeFails
<1>3. TypeOK'
  BY <1>1, <1>2 DEF IInv, TypeOK, DbOK, ThreadsOK, MembershipOK, DartOK,
     db, refresh, catalog, topics, notes, dart
<1>4. Tree' = Tree /\ (Quiet' <=> Quiet)
  BY <1>2 DEF Tree, Quiet, Refreshing, catalog
<1> QED
  BY <1>2, <1>3, <1>4 DEF IInv, MembershipUnion, JoinedBothWays, LiveOrNoticed, StoppedInv, StarterInv,
     ParentInv, Exists, RefreshInv, ToldCurrent, DerivedCurrent, Refreshing, DerivedJoinedTopics,
     db, refresh, catalog, topics, notes, dart

\* gcs_shutdown: with g_mutex free and no window open nobody refreshes.
LEMMA gcs_shutdownKeeps ==
    ASSUME IInv, NEW t \in Thread, gcs_shutdown(t)
    PROVE  IInv'
<1>1. /\ m_running' = FALSE /\ listening' = {} /\ broadcasting' = {}
      /\ armed' \in {armed, [x \in Topic |-> 0]}
      /\ g_roomTopics' = {} /\ g_derivedTopics' = {} /\ g_explicitTopics' = {} /\ preJoined' = {}
      /\ refused' = {} /\ noticed' = {} /\ dropped' = {}
      /\ port' = FALSE /\ raced' = {}
      /\ loaded' = {}
      /\ UNCHANGED <<told, refresh, pc, subscribing, parent, autoJoin, opened, issued>>
  BY DEF gcs_shutdown, CoreShutdown, Shutdown
<1>2. Quiet
  BY DEF IInv, TypeOK, ThreadsOK, gcs_shutdown, Free, Quiet, Refreshing
<1>3. starter = NoThread
  BY <1>2 DEF IInv, TypeOK, ThreadsOK, StarterInv, Quiet
<1>4. TypeOK'
  <2>1. DbOK'
    <3>1. armed' \in [Topic -> Nat]
      BY <1>1 DEF IInv, TypeOK, DbOK
    <3> QED
      BY <1>1, <3>1 DEF DbOK
  <2>2. ThreadsOK'
    BY <1>1 DEF IInv, TypeOK, ThreadsOK, refresh
  <2>3. MembershipOK' /\ DartOK'
    BY <1>1 DEF IInv, TypeOK, MembershipOK, DartOK
  <2> QED
    BY <2>1, <2>2, <2>3 DEF TypeOK
<1>5. MembershipUnion' /\ JoinedBothWays' /\ LiveOrNoticed'
  BY <1>1 DEF MembershipUnion, JoinedBothWays, LiveOrNoticed
<1>6. Quiet' /\ StoppedInv' /\ StarterInv' /\ RefreshInv'
  BY <1>1, <1>2, <1>3 DEF StoppedInv, StarterInv, RefreshInv, Quiet, Refreshing, refresh
<1>7. ParentInv' /\ ToldCurrent' /\ DerivedCurrent'
  BY <1>1 DEF IInv, ParentInv, Exists, ToldCurrent, DerivedCurrent, catalog
<1> QED
  BY <1>4, <1>5, <1>6, <1>7 DEF IInv

\* The end of a SubscribeLive: the callback is there, or the failure was noted.
LEMMA CloseWindowFacts ==
    ASSUME TypeOK, LiveOrNoticed, NEW t \in Thread, NEW label \in {"refresh", "idle"},
           subscribing[t] # NoTopic, CloseWindow(t, label), UNCHANGED topics
    PROVE  /\ DbOK' /\ noticed' \subseteq Topic /\ dropped' \subseteq Topic
           /\ LiveOrNoticed'
           /\ Free /\ pc' = [pc EXCEPT ![t] = label]
           /\ subscribing' = [subscribing EXCEPT ![t] = NoTopic]
           /\ UNCHANGED <<m_running, listening, broadcasting, refused>>
<1> DEFINE x == subscribing[t]
<1>1. x \in Topic /\ subscribing \in [Thread -> Topic \cup {NoTopic}]
  BY DEF TypeOK, ThreadsOK
<1>2. /\ Free /\ pc' = [pc EXCEPT ![t] = label]
      /\ subscribing' = [subscribing EXCEPT ![t] = NoTopic]
      /\ UNCHANGED <<m_running, listening, broadcasting, refused>>
  BY DEF CloseWindow, Goto
<1>3. armed \in [Topic -> Nat] /\ DbOK /\ noticed \subseteq Topic /\ dropped \subseteq Topic
  BY DEF TypeOK, DbOK, MembershipOK
<1>4. CASE Subscribe(x) /\ noticed' = noticed \ {x} /\ dropped' = dropped \ {x}
  <2>1. /\ armed' \in [Topic -> Nat] /\ armed'[x] > 0
        /\ \A y \in Topic : y # x => armed'[y] = armed[y]
    BY <1>1, <1>3, <1>4 DEF Subscribe
  <2>2. LiveOrNoticed'
    <3> SUFFICES ASSUME NEW y \in g_roomTopics', y \notin preJoined'
                 PROVE  (armed[y] > 0 \/ y \in noticed \cup dropped \/ \E u \in Thread : subscribing[u] = y)'
      BY DEF LiveOrNoticed
    <3>1. CASE y = x
      BY <2>1, <3>1
    <3>2. CASE y # x
      <4>1. y \in Topic /\ (armed[y] > 0 \/ y \in noticed \cup dropped \/ \E u \in Thread : subscribing[u] = y)
        BY DEF TypeOK, MembershipOK, LiveOrNoticed, topics
      <4>2. \A u \in Thread : subscribing[u] = y => subscribing'[u] = y
        BY <1>1, <1>2, <3>2
      <4> QED
        BY <1>4, <2>1, <3>2, <4>1, <4>2
    <3> QED
      BY <3>1, <3>2
  <2> QED
    BY <1>2, <1>3, <1>4, <2>1, <2>2 DEF DbOK
<1>5. CASE UNCHANGED armed /\ PostErrorNotice(x)
  <2>1. /\ noticed' \subseteq Topic /\ dropped' \subseteq Topic /\ x \in noticed' \cup dropped'
        /\ noticed \cup dropped \subseteq noticed' \cup dropped'
    BY <1>1, <1>3, <1>5 DEF PostErrorNotice
  <2>2. LiveOrNoticed'
    BY <1>1, <1>2, <1>5, <2>1 DEF LiveOrNoticed, topics
  <2> QED
    BY <1>2, <1>3, <1>5, <2>1, <2>2 DEF DbOK
<1> QED
  BY <1>2, <1>4, <1>5 DEF CloseWindow

\* A refresh is back from SubscribeLive and goes on under g_mutex.
LEMMA RefreshBackKeeps ==
    ASSUME IInv, NEW t \in Thread, RefreshBack(t)
    PROVE  IInv'
<1>1. /\ pc[t] = "refreshSub" /\ CloseWindow(t, "refresh") /\ mutex' = t
      /\ UNCHANGED <<derived, todo, starter, catalog, topics, dart, raced, opened, issued>>
  BY DEF RefreshBack, Relock
<1>2. /\ DbOK' /\ noticed' \subseteq Topic /\ dropped' \subseteq Topic /\ LiveOrNoticed'
      /\ Free /\ pc' = [pc EXCEPT ![t] = "refresh"]
      /\ subscribing' = [subscribing EXCEPT ![t] = NoTopic]
      /\ UNCHANGED <<m_running, listening, broadcasting, refused>>
  BY <1>1, CloseWindowFacts DEF IInv, TypeOK, ThreadsOK
<1>3. ThreadsOK'
  BY <1>1, <1>2 DEF IInv, TypeOK, ThreadsOK, Free, Pcs
<1>4. MembershipOK' /\ DartOK'
  BY <1>1, <1>2 DEF IInv, TypeOK, MembershipOK, DartOK, catalog, topics, dart
<1>5. TypeOK'
  BY <1>2, <1>3, <1>4 DEF TypeOK
<1>6. MembershipUnion' /\ JoinedBothWays'
  BY <1>1, <1>2 DEF IInv, MembershipUnion, JoinedBothWays, topics
<1>7. \A u \in Thread : Refreshing(u)' <=> Refreshing(u)
  BY <1>1, <1>2 DEF IInv, TypeOK, ThreadsOK, Refreshing
<1>8. StoppedInv' /\ ParentInv' /\ StarterInv'
  BY <1>1, <1>2, <1>7 DEF IInv, TypeOK, ThreadsOK, StoppedInv, ParentInv, Exists, StarterInv, Quiet, catalog, topics, dart
<1>9. RefreshInv' /\ DerivedCurrent'
  BY <1>1, <1>2, <1>7 DEF IInv, RefreshInv, DerivedCurrent, DerivedJoinedTopics, Tree, Quiet, catalog, topics
<1>10. ToldCurrent'
  BY <1>1, <1>7 DEF IInv, ToldCurrent, Quiet, Tree, catalog, topics, dart
<1> QED
  BY <1>2, <1>5, <1>6, <1>8, <1>9, <1>10 DEF IInv

\* The first join of a topic is back from SubscribeLive.
LEMMA JoinBackKeeps ==
    ASSUME IInv, NEW t \in Thread, JoinBack(t)
    PROVE  IInv'
<1>1. /\ pc[t] = "joinSub" /\ CloseWindow(t, "idle")
      /\ UNCHANGED <<refresh, catalog, topics, dart, raced, opened, issued>>
  BY DEF JoinBack
<1>2. /\ DbOK' /\ noticed' \subseteq Topic /\ dropped' \subseteq Topic /\ LiveOrNoticed'
      /\ Free /\ pc' = [pc EXCEPT ![t] = "idle"]
      /\ subscribing' = [subscribing EXCEPT ![t] = NoTopic]
      /\ UNCHANGED <<m_running, listening, broadcasting, refused>>
  BY <1>1, CloseWindowFacts DEF IInv, TypeOK, ThreadsOK
<1>3. ThreadsOK'
  BY <1>1, <1>2 DEF IInv, TypeOK, ThreadsOK, Free, Pcs, refresh
<1>4. MembershipOK' /\ DartOK'
  BY <1>1, <1>2 DEF IInv, TypeOK, MembershipOK, DartOK, catalog, topics, dart
<1>5. TypeOK'
  BY <1>2, <1>3, <1>4 DEF TypeOK
<1>6. MembershipUnion' /\ JoinedBothWays'
  BY <1>1, <1>2 DEF IInv, MembershipUnion, JoinedBothWays, topics
<1>7. \A u \in Thread : Refreshing(u)' <=> Refreshing(u)
  BY <1>1, <1>2 DEF IInv, TypeOK, ThreadsOK, Refreshing
<1>8. StoppedInv' /\ ParentInv' /\ StarterInv'
  BY <1>1, <1>2, <1>7 DEF IInv, TypeOK, ThreadsOK, StoppedInv, ParentInv, Exists, StarterInv, Quiet, refresh, catalog, topics, dart
<1>9. RefreshInv' /\ DerivedCurrent'
  BY <1>1, <1>2, <1>7 DEF IInv, RefreshInv, DerivedCurrent, DerivedJoinedTopics, Tree, Quiet, refresh, catalog, topics
<1>10. ToldCurrent'
  BY <1>1, <1>7 DEF IInv, ToldCurrent, Quiet, Tree, catalog, topics, dart
<1> QED
  BY <1>2, <1>5, <1>6, <1>8, <1>9, <1>10 DEF IInv

\* The first loop visits a topic.
LEMMA RefreshTopicKeeps ==
    ASSUME IInv, NEW t \in Thread, RefreshTopic(t)
    PROVE  IInv'
<1>1. pc[t] = "refresh" /\ mutex = t /\ subscribing[t] = NoTopic
  BY DEF RefreshTopic, IInv, TypeOK, ThreadsOK
<1>2. PICK x \in todo[t] :
         /\ todo' = [todo EXCEPT ![t] = @ \ {x}]
         /\ \/ /\ x \in g_derivedTopics
               /\ UNCHANGED <<db, mutex, pc, subscribing, g_derivedTopics, g_roomTopics, notes>>
            \/ /\ x \notin g_derivedTopics
               /\ RegisterFails(x) /\ SkipFailed(x)
               /\ UNCHANGED <<mutex, pc, subscribing, noticed, dropped>>
            \/ /\ x \notin g_derivedTopics
               /\ Registers(x)
               /\ g_derivedTopics' = g_derivedTopics \cup {x}
               /\ g_roomTopics' = g_roomTopics \cup {x}
               /\ mutex' = NoThread /\ OpenWindow(t, x, "refreshSub")
               /\ refused' = refused \ {x} /\ UNCHANGED <<noticed, dropped>>
  BY DEF RefreshTopic
<1>3. UNCHANGED <<derived, starter, catalog, g_explicitTopics, preJoined, dart, raced, opened, issued>>
  BY DEF RefreshTopic
<1>4. x \in Room /\ x \in Topic /\ todo' \in [Thread -> SUBSET Room]
      /\ todo'[t] = todo[t] \ {x} /\ \A u \in Thread : u # t => todo'[u] = todo[u]
  BY <1>2 DEF IInv, TypeOK, ThreadsOK, Topic
<1>5. /\ UNCHANGED <<m_running, armed, noticed, dropped>>
      /\ listening \subseteq listening' /\ broadcasting \subseteq broadcasting'
      /\ listening' \subseteq listening \cup {x} /\ broadcasting' \subseteq broadcasting \cup {x}
  BY <1>2 DEF db, notes, RegisterFails, Registers
<1>6. /\ g_derivedTopics \subseteq g_derivedTopics' /\ x \in g_derivedTopics' \cup refused'
      /\ g_derivedTopics \cup refused \subseteq g_derivedTopics' \cup refused'
      /\ g_derivedTopics' \subseteq g_derivedTopics \cup {x} /\ refused' \subseteq refused \cup {x}
      /\ \/ UNCHANGED <<g_derivedTopics, g_roomTopics>>
         \/ /\ g_derivedTopics' = g_derivedTopics \cup {x} /\ g_roomTopics' = g_roomTopics \cup {x}
            /\ x \in listening' /\ x \in broadcasting' /\ subscribing'[t] = x /\ m_running
  BY <1>2 DEF notes, SkipFailed, OpenWindow, Registers, IInv, TypeOK, ThreadsOK
<1>7. ThreadsOK' /\ \A u \in Thread : Refreshing(u)' <=> Refreshing(u)
  <2>1. UNCHANGED <<derived, starter>>
    BY <1>3
  <2>2. CASE UNCHANGED <<mutex, pc, subscribing>>
    BY <1>4, <2>1, <2>2 DEF IInv, TypeOK, ThreadsOK, Refreshing
  <2>3. CASE mutex' = NoThread /\ OpenWindow(t, x, "refreshSub")
    <3>1. x # NoTopic
      BY <1>4
    <3> QED
      BY <1>1, <1>4, <2>1, <2>3, <3>1 DEF IInv, TypeOK, ThreadsOK, OpenWindow, Goto, Pcs, Refreshing
  <2> QED
    BY <1>2, <2>2, <2>3 DEF db
<1>8. TypeOK'
  <2>1. DbOK'
    BY <1>4, <1>5 DEF IInv, TypeOK, DbOK
  <2>2. MembershipOK' /\ DartOK'
    BY <1>3, <1>4, <1>5, <1>6 DEF IInv, TypeOK, MembershipOK, DartOK, catalog, dart
  <2> QED
    BY <1>7, <2>1, <2>2 DEF TypeOK
<1>9. MembershipUnion' /\ JoinedBothWays'
  BY <1>3, <1>5, <1>6 DEF IInv, MembershipUnion, JoinedBothWays
<1>10. LiveOrNoticed'
  <2>1. \A y : y # NoTopic /\ (\E u \in Thread : subscribing[u] = y) => \E u \in Thread : subscribing'[u] = y
    BY <1>1, <1>2 DEF IInv, TypeOK, ThreadsOK, OpenWindow, db
  <2>2. NoTopic \notin g_roomTopics
    BY DEF IInv, TypeOK, MembershipOK
  <2> QED
    BY <1>3, <1>5, <1>6, <2>1, <2>2 DEF IInv, LiveOrNoticed
<1>11. StoppedInv' /\ ParentInv' /\ StarterInv'
  BY <1>1, <1>3, <1>5, <1>6, <1>7 DEF IInv, TypeOK, ThreadsOK, StoppedInv, ParentInv, Exists, StarterInv, Quiet, catalog, dart
<1>12. RefreshInv'
  BY <1>3, <1>4, <1>6, <1>7 DEF IInv, RefreshInv, DerivedJoinedTopics, Tree, catalog
<1>13. ~Quiet'
  BY <1>1, <1>7 DEF Quiet, Refreshing
<1>14. ToldCurrent' /\ DerivedCurrent'
  BY <1>13 DEF ToldCurrent, DerivedCurrent
<1> QED
  BY <1>8, <1>9, <1>10, <1>11, <1>12, <1>14 DEF IInv

\* The second loop and the end of the refresh.
LEMMA RefreshDoneKeeps ==
    ASSUME IInv, NEW t \in Thread, RefreshDone(t)
    PROVE  IInv'
<1>1. /\ pc[t] = "refresh" /\ todo[t] = {} /\ mutex = t /\ subscribing[t] = NoTopic
      /\ g_roomTopics' = g_roomTopics \ ((g_derivedTopics \ derived[t]) \ g_explicitTopics)
      /\ g_derivedTopics' = g_derivedTopics \cap derived[t]
      /\ mutex' = NoThread /\ pc' = [pc EXCEPT ![t] = "idle"]
      /\ derived' = [derived EXCEPT ![t] = {}]
      /\ UNCHANGED <<port, catalog, db, todo, subscribing, g_explicitTopics, preJoined, notes, raced, opened, issued>>
  BY DEF RefreshDone, EvictDerived, Goto, IInv, TypeOK, ThreadsOK
<1>2. \/ starter = t /\ starter' = NoThread /\ UNCHANGED told
      \/ starter # t /\ starter' = starter /\ PostTree(g_roomTopics')
  BY DEF RefreshDone
<1>3. \A u \in Thread : Refreshing(u)' <=> Refreshing(u) /\ u # t
  BY <1>1 DEF IInv, TypeOK, ThreadsOK, Refreshing
<1>4. Refreshing(t)
  BY <1>1 DEF Refreshing
<1>5. TypeOK' /\ (starter # t /\ port' => told' = [rooms |-> g_roomTopics', tree |-> Tree'])
  <2>1. DbOK' /\ MembershipOK'
    BY <1>1 DEF IInv, TypeOK, DbOK, MembershipOK, db, catalog, notes
  <2>2. ThreadsOK'
    BY <1>1, <1>2 DEF IInv, TypeOK, ThreadsOK, Pcs
  <2>3. g_roomTopics' \in SUBSET Topic
    BY <2>1 DEF MembershipOK
  <2>4. /\ told' \in [rooms : SUBSET Topic, tree : [parent : Parents, auto : Flags]]
        /\ starter # t /\ port' => told' = [rooms |-> g_roomTopics', tree |-> Tree']
    BY <1>2, <2>1, <2>3, PostTreeTypes DEF IInv, TypeOK, DartOK
  <2> QED
    BY <1>1, <2>1, <2>2, <2>4 DEF IInv, TypeOK, DartOK
<1>6. MembershipUnion' /\ JoinedBothWays' /\ LiveOrNoticed'
  <2>1. preJoined \cap g_derivedTopics = {}
    BY DEF IInv, TypeOK, MembershipOK
  <2> QED
    BY <1>1, <2>1 DEF IInv, MembershipUnion, JoinedBothWays, LiveOrNoticed, db, notes
<1>7. StoppedInv' /\ ParentInv' /\ StarterInv'
  BY <1>1, <1>2, <1>3, <1>4 DEF IInv, TypeOK, ThreadsOK, StoppedInv, ParentInv, Exists, StarterInv, Quiet, catalog, db
<1>8. "catalog" \notin raced => Quiet'
  BY <1>3, <1>4 DEF IInv, RefreshInv, Quiet
<1>9. RefreshInv'
  BY <1>1, <1>8 DEF RefreshInv, Quiet
<1>10. DerivedCurrent'
  <2> SUFFICES ASSUME "catalog" \notin raced
               PROVE  \A r \in Room :
                         LET inAutoJoinSpace ==
                                 \E s \in DOMAIN autoJoin \cap loaded :
                                     r \in loaded /\ parent[r] = s /\ autoJoin[s]
                         IN  /\ r \in g_derivedTopics' => inAutoJoinSpace
                             /\ inAutoJoinSpace => r \in g_derivedTopics' \cup refused
    BY <1>1 DEF DerivedCurrent, catalog, notes
  <2>1. derived[t] = DerivedJoinedTopics(Tree) /\ derived[t] \subseteq g_derivedTopics \cup refused
    BY <1>1, <1>4 DEF IInv, RefreshInv
  <2> QED
    BY <1>1, <2>1, DerivedRooms DEF IInv, TypeOK
<1>11. ToldCurrent'
  BY <1>1, <1>2, <1>5 DEF IInv, StarterInv, ToldCurrent, Quiet
<1> QED
  BY <1>5, <1>6, <1>7, <1>9, <1>10, <1>11 DEF IInv

\* join_topic: refused, or a first or a repeated join.
LEMMA join_topicKeeps ==
    ASSUME IInv, NEW t \in Thread, NEW x \in Topic, join_topic(t, x)
    PROVE  IInv'
<1>1. /\ pc[t] = "idle" /\ Free /\ m_running /\ issued < MaxCommands /\ issued' = issued + 1
      /\ UNCHANGED <<refresh, catalog, g_derivedTopics, preJoined, notes, port, raced, opened>>
      /\ subscribing[t] = NoTopic
  BY DEF join_topic, Accepts, IInv, TypeOK, ThreadsOK
<1>2. /\ UNCHANGED <<m_running, armed>>
      /\ listening' = listening \cup {x} /\ broadcasting' \in {broadcasting, broadcasting \cup {x}}
  BY DEF join_topic, RegisterFails, Registers
<1>3. \/ UNCHANGED <<pc, subscribing, g_roomTopics, g_explicitTopics, told>>
      \/ /\ broadcasting' = broadcasting \cup {x}
         /\ g_roomTopics' = g_roomTopics \cup {x}
         /\ g_explicitTopics' = g_explicitTopics \cup {x}
         /\ PostRoomList
         /\ IF x \in g_roomTopics THEN UNCHANGED <<pc, subscribing>>
            ELSE OpenWindow(t, x, "joinSub")
  BY DEF join_topic, Registers
<1>4. ThreadsOK' /\ \A u \in Thread : Refreshing(u)' <=> Refreshing(u)
  <2>1. UNCHANGED <<mutex, derived, todo, starter>>
    BY <1>1 DEF refresh
  <2>2. CASE UNCHANGED <<pc, subscribing>>
    BY <2>1, <2>2 DEF IInv, TypeOK, ThreadsOK, Refreshing
  <2>3. CASE OpenWindow(t, x, "joinSub")
    <3>1. x # NoTopic
      OBVIOUS
    <3> QED
      BY <1>1, <2>1, <2>3, <3>1 DEF IInv, TypeOK, ThreadsOK, OpenWindow, Goto, Pcs, Refreshing
  <2> QED
    BY <1>3, <2>2, <2>3
<1>5. DbOK' /\ MembershipOK'
  BY <1>1, <1>2, <1>3 DEF IInv, TypeOK, DbOK, MembershipOK, catalog, notes
<1>6. DartOK'
  <2>1. told' \in [rooms : SUBSET Topic, tree : [parent : Parents, auto : Flags]]
    BY <1>3, <1>5 DEF IInv, TypeOK, DartOK, MembershipOK, PostRoomList
  <2>2. issued' \in 0..MaxCommands
    BY <1>1 DEF IInv, TypeOK, DartOK
  <2> QED
    BY <1>1, <2>1, <2>2 DEF IInv, TypeOK, DartOK
<1>7. TypeOK'
  BY <1>4, <1>5, <1>6 DEF TypeOK
<1>8. MembershipUnion' /\ JoinedBothWays'
  BY <1>1, <1>2, <1>3 DEF IInv, MembershipUnion, JoinedBothWays
<1>9. LiveOrNoticed'
  <2>1. \A y : y # NoTopic /\ (\E u \in Thread : subscribing[u] = y) => \E u \in Thread : subscribing'[u] = y
    BY <1>1, <1>3 DEF IInv, TypeOK, ThreadsOK, OpenWindow
  <2>2. x \notin g_roomTopics /\ x \in g_roomTopics' => \E u \in Thread : subscribing'[u] = x
    BY <1>3 DEF IInv, TypeOK, ThreadsOK, OpenWindow
  <2>3. NoTopic \notin g_roomTopics /\ g_roomTopics' \subseteq g_roomTopics \cup {x}
    BY <1>3 DEF IInv, TypeOK, MembershipOK
  <2> QED
    BY <1>1, <1>2, <2>1, <2>2, <2>3 DEF IInv, LiveOrNoticed, notes
<1>10. StoppedInv' /\ ParentInv' /\ StarterInv'
  BY <1>1, <1>2, <1>4 DEF IInv, TypeOK, ThreadsOK, StoppedInv, ParentInv, Exists, StarterInv, catalog, refresh
<1>11. RefreshInv' /\ DerivedCurrent'
  BY <1>1, <1>2, <1>4 DEF IInv, RefreshInv, DerivedCurrent, DerivedJoinedTopics, Tree, Quiet, refresh, catalog, notes
<1>12. ToldCurrent'
  <2>1. Quiet' <=> Quiet
    BY <1>4 DEF Quiet
  <2>2. Tree' = Tree
    BY <1>1 DEF Tree, catalog
  <2> QED
    BY <1>1, <1>3, <2>1, <2>2 DEF IInv, TypeOK, DartOK, ToldCurrent, PostRoomList
<1> QED
  BY <1>7, <1>8, <1>9, <1>10, <1>11, <1>12 DEF IInv

\* create_space: no room is under the new space.
LEMMA create_spaceKeeps ==
    ASSUME IInv, NEW t \in Thread, NEW s \in Space, create_space(t, s)
    PROVE  IInv'
<1>1. /\ m_running /\ issued < MaxCommands /\ issued' = issued + 1 /\ s \notin DOMAIN autoJoin
      /\ UNCHANGED <<parent, port, db, refresh, pc, subscribing, topics, notes, raced, opened>>
      /\ PostTree(told.rooms)
  BY DEF create_space, Accepts
<1>2. PICK on \in BOOLEAN :
         autoJoin' = [p \in DOMAIN autoJoin \cup {s} |-> IF p = s THEN on ELSE autoJoin[p]]
  BY DEF create_space
<1>0. loaded' = loaded \cup {s}
  BY DEF create_space
<1>3. autoJoin' \in Flags
  <2>1. PICK S \in SUBSET Space : autoJoin \in [S -> BOOLEAN]
    BY DEF IInv, TypeOK, MembershipOK, Flags
  <2>2. autoJoin' \in [S \cup {s} -> BOOLEAN]
    BY <1>2, <2>1
  <2>3. S \cup {s} \in SUBSET Space
    OBVIOUS
  <2> QED
    BY <2>2, <2>3 DEF Flags
<1>4. DbOK' /\ ThreadsOK' /\ MembershipOK'
  BY <1>0, <1>1, <1>3 DEF IInv, TypeOK, DbOK, ThreadsOK, MembershipOK, db, refresh, topics, notes
<1>5. /\ told' \in [rooms : SUBSET Topic, tree : [parent : Parents, auto : Flags]]
      /\ port' => told' = [rooms |-> told.rooms, tree |-> Tree']
  <2>1. told.rooms \in SUBSET Topic
    BY DEF IInv, TypeOK, DartOK
  <2> QED
    BY <1>1, <1>4, <2>1, PostTreeTypes DEF IInv
<1>6. TypeOK'
  <2>1. issued' \in 0..MaxCommands
    BY <1>1 DEF IInv, TypeOK, DartOK
  <2> QED
    BY <1>1, <1>4, <1>5, <2>1 DEF IInv, TypeOK, DartOK
<1>7. MembershipUnion' /\ JoinedBothWays' /\ LiveOrNoticed'
  BY <1>1 DEF IInv, MembershipUnion, JoinedBothWays, LiveOrNoticed, db, topics, notes
<1>8. StoppedInv' /\ StarterInv'
  BY <1>1 DEF IInv, StoppedInv, StarterInv, Refreshing, db, refresh
<1>9. ParentInv'
  BY <1>0, <1>1, <1>2 DEF IInv, ParentInv, Exists
<1>10. \A r \in Room :
          (\E p \in DOMAIN autoJoin' \cap loaded' : r \in loaded' /\ parent'[r] = p /\ autoJoin'[p])
          <=> (\E p \in DOMAIN autoJoin \cap loaded : r \in loaded /\ parent[r] = p /\ autoJoin[p])
  <2> SUFFICES ASSUME NEW r \in Room
               PROVE  (\E p \in DOMAIN autoJoin' \cap loaded' :
                          r \in loaded' /\ parent'[r] = p /\ autoJoin'[p])
                      <=> (\E p \in DOMAIN autoJoin \cap loaded :
                              r \in loaded /\ parent[r] = p /\ autoJoin[p])
    OBVIOUS
  <2>1. parent[r] # s
    BY <1>1 DEF IInv, ParentInv
  <2>2. r # s
    OBVIOUS
  <2>3. r \in loaded' <=> r \in loaded
    BY <1>0, <2>2
  <2>4. \A p : parent[r] = p => (p \in DOMAIN autoJoin' \cap loaded' <=> p \in DOMAIN autoJoin \cap loaded)
    BY <1>0, <1>2, <2>1
  <2>5. \A p \in DOMAIN autoJoin : p # s /\ autoJoin'[p] = autoJoin[p]
    BY <1>1, <1>2
  <2> QED
    BY <1>1, <2>3, <2>4, <2>5
<1>11. DerivedJoinedTopics(Tree') = DerivedJoinedTopics(Tree)
  <2>1. DerivedJoinedTopics(Tree) =
            {r \in Room : \E p \in DOMAIN autoJoin \cap loaded :
                              r \in loaded /\ parent[r] = p /\ autoJoin[p]}
    BY DEF IInv, TypeOK, MembershipOK, Flags, DerivedJoinedTopics, Tree
  <2>2. DerivedJoinedTopics(Tree') =
            {r \in Room : \E p \in DOMAIN autoJoin' \cap loaded' :
                              r \in loaded' /\ parent'[r] = p /\ autoJoin'[p]}
    BY <1>3 DEF Flags, DerivedJoinedTopics, Tree
  <2> QED
    BY <1>10, <2>1, <2>2
<1>12. RefreshInv'
  BY <1>1, <1>11 DEF IInv, RefreshInv, Refreshing, refresh, topics, notes
<1>13. DerivedCurrent'
  BY <1>1, <1>10 DEF IInv, DerivedCurrent, Quiet, Refreshing, db, refresh, topics, notes
<1>14. ToldCurrent'
  BY <1>1, <1>5 DEF IInv, ToldCurrent, Quiet, Refreshing, refresh, topics
<1> QED
  BY <1>6, <1>7, <1>8, <1>9, <1>12, <1>13, <1>14 DEF IInv

\* A command that changes the catalog and begins a refresh.
LEMMA CatalogKeeps ==
    ASSUME IInv, NEW t \in Thread, Accepts(t), BeginRefresh(t), Races(t),
           loaded' \subseteq Room \cup Space, parent' \in Parents, autoJoin' \in Flags, ParentInv',
           UNCHANGED <<db, starter, subscribing, topics, notes, dart, opened>>
    PROVE  IInv'
<1>1. /\ pc[t] = "idle" /\ Free /\ m_running /\ issued < MaxCommands /\ issued' = issued + 1
      /\ derived' = [derived EXCEPT ![t] = DerivedNow] /\ todo' = [todo EXCEPT ![t] = DerivedNow]
      /\ mutex' = t /\ pc' = [pc EXCEPT ![t] = "refresh"]
  BY DEF Accepts, BeginRefresh, Goto
<1>2. ThreadsOK' /\ Refreshing(t)'
  BY <1>1, BeginTypes DEF IInv, TypeOK, ThreadsOK
<1>3. DbOK' /\ MembershipOK'
  BY DEF IInv, TypeOK, DbOK, MembershipOK, db, topics, notes
<1>4. DartOK'
  <2>1. issued' \in 0..MaxCommands
    BY <1>1 DEF IInv, TypeOK, DartOK
  <2>2. raced' \subseteq {"catalog", "port"}
    BY DEF IInv, TypeOK, DartOK, Races
  <2> QED
    BY <2>1, <2>2 DEF IInv, TypeOK, DartOK, dart
<1>5. TypeOK'
  BY <1>2, <1>3, <1>4 DEF TypeOK
<1>6. MembershipUnion' /\ JoinedBothWays' /\ LiveOrNoticed'
  BY DEF IInv, MembershipUnion, JoinedBothWays, LiveOrNoticed, db, topics, notes
<1>7. \A u \in Thread : Refreshing(u)' <=> Refreshing(u) \/ u = t
  BY <1>1 DEF IInv, TypeOK, ThreadsOK, Refreshing
<1>8. StoppedInv' /\ StarterInv'
  BY <1>1, <1>7 DEF IInv, TypeOK, ThreadsOK, StoppedInv, StarterInv, Races, db, dart
<1>9. RefreshInv'
  <2> SUFFICES ASSUME "catalog" \notin raced'
               PROVE  \A u \in Thread : Refreshing(u)' =>
                         /\ u = t
                         /\ derived'[u] = DerivedNow /\ todo'[u] = DerivedNow
    BY <1>2 DEF RefreshInv, DerivedNow, DerivedJoinedTopics, Tree
  <2>1. \A u \in Thread \ {t} : ~Refreshing(u)
    BY DEF Races
  <2> QED
    BY <1>1, <1>7, <2>1 DEF IInv, TypeOK, ThreadsOK
<1>10. ToldCurrent' /\ DerivedCurrent'
  BY <1>2 DEF ToldCurrent, DerivedCurrent, Quiet
<1> QED
  BY <1>5, <1>6, <1>8, <1>9, <1>10 DEF IInv

\* create_room: under a space that exists, or standalone.
LEMMA create_roomKeeps ==
    ASSUME IInv, NEW t \in Thread, NEW r \in Room, create_room(t, r)
    PROVE  IInv'
<1>1. PICK p \in DOMAIN autoJoin \cup {Standalone} : parent' = [parent EXCEPT ![r] = p]
  BY DEF create_room, Tree
<1>2. autoJoin' = autoJoin /\ loaded' = loaded \cup {r}
  BY DEF create_room
<1>3. DOMAIN autoJoin \subseteq Space
  BY DEF IInv, TypeOK, MembershipOK, Flags
<1>4. parent' \in Parents /\ autoJoin' \in Flags /\ loaded' \subseteq Room \cup Space
  BY <1>1, <1>2, <1>3 DEF IInv, TypeOK, MembershipOK, Parents
<1>5. ParentInv'
  <2>1. parent'[r] = p /\ \A q \in Room \ {r} : parent'[q] = parent[q]
    BY <1>1 DEF IInv, TypeOK, MembershipOK, Parents
  <2>2. p # NotCreated
    BY <1>3
  <2>3. loaded' \subseteq {q \in Room : Exists(q)'} \cup DOMAIN autoJoin
    BY <1>2, <2>1, <2>2 DEF IInv, ParentInv, Exists
  <2>4. \A q \in Room : parent'[q] \in DOMAIN autoJoin \cup {NotCreated, Standalone}
    BY <2>1 DEF IInv, ParentInv
  <2> QED
    BY <1>2, <2>3, <2>4 DEF ParentInv, Exists
<1> QED
  BY <1>4, <1>5, CatalogKeeps DEF create_room

\* update_space keeps the set of spaces.
LEMMA update_spaceKeeps ==
    ASSUME IInv, NEW t \in Thread, NEW s \in Space, update_space(t, s)
    PROVE  IInv'
<1>1. PICK on \in BOOLEAN : autoJoin' = [autoJoin EXCEPT ![s] = on]
  BY DEF update_space
<1>2. parent' = parent /\ loaded' = loaded
  BY DEF update_space
<1>3. PICK S \in SUBSET Space : autoJoin \in [S -> BOOLEAN]
  BY DEF IInv, TypeOK, MembershipOK, Flags
<1>4. autoJoin' \in [S -> BOOLEAN] /\ DOMAIN autoJoin' = DOMAIN autoJoin
  BY <1>1, <1>3
<1>5. parent' \in Parents /\ autoJoin' \in Flags /\ loaded' \subseteq Room \cup Space
  BY <1>2, <1>4 DEF IInv, TypeOK, MembershipOK, Flags
<1>6. ParentInv'
  BY <1>2, <1>4 DEF IInv, ParentInv, Exists
<1> QED
  BY <1>5, <1>6, CatalogKeeps DEF update_space

\* Every step keeps the invariant.
LEMMA NextKeeps == IInv /\ [Next]_vars => IInv'
<1> SUFFICES ASSUME IInv, [Next]_vars PROVE IInv'
  OBVIOUS
<1>1. CASE UNCHANGED vars
  BY <1>1, StutterKeeps
<1>2. ASSUME NEW t \in Thread,
             gcs_init(t) \/ gcs_init_fails(t) \/ gcs_subscribe(t) \/ gcs_shutdown(t)
      PROVE  IInv'
  BY <1>2, gcs_initKeeps, gcs_init_failsKeeps, gcs_subscribeKeeps, gcs_shutdownKeeps
<1>3. ASSUME NEW t \in Thread, Command(t)
      PROVE  IInv'
  BY <1>3, join_topicKeeps, create_spaceKeeps, create_roomKeeps, update_spaceKeeps DEF Command
<1>4. ASSUME NEW t \in Thread, RefreshTopic(t) \/ RefreshBack(t) \/ RefreshDone(t) \/ JoinBack(t)
      PROVE  IInv'
  BY <1>4, RefreshTopicKeeps, RefreshBackKeeps, RefreshDoneKeeps, JoinBackKeeps
<1> QED
  BY <1>1, <1>2, <1>3, <1>4 DEF Next

\* The inductive invariant is an invariant.
THEOREM Inductive == Spec => []IInv
  BY InitKeeps, NextKeeps, PTL DEF Spec

\* gcs_core_ffi.cpp, g_roomTopics: the room list is the union of its three reasons.
THEOREM MembershipIsUnion == Spec => []MembershipUnion
<1>1. IInv => MembershipUnion
  BY DEF IInv
<1> QED
  BY <1>1, Inductive, PTL

\* gcs_core_ffi.cpp, join_topic and RefreshDerivedJoins: a listed room is registered
\* both ways.
THEOREM ListedIsRegistered == Spec => []JoinedBothWays
<1>1. IInv => JoinedBothWays
  BY DEF IInv
<1> QED
  BY <1>1, Inductive, PTL

\* gcs_core_ffi.cpp, the posts of the commands and of gcs_subscribe: when no refresh
\* runs the app has been told the present rooms and catalog.
THEOREM AppIsTold == Spec => []ToldCurrent
<1>1. IInv => ToldCurrent
  BY DEF IInv
<1> QED
  BY <1>1, Inductive, PTL

\* gcs_core_ffi.cpp, RefreshDerivedJoins: the derived joins are those of the catalog,
\* unless commands raced or a registration failed.
THEOREM DerivedIsCurrent == Spec => []DerivedCurrent
<1>1. IInv => DerivedCurrent
  BY DEF IInv
<1> QED
  BY <1>1, Inductive, PTL

\* gcs_core_ffi.cpp, SubscribeLive: a room without a live callback is known as such.
THEOREM DeafIsNoticed == Spec => []LiveOrNoticed
<1>1. IInv => LiveOrNoticed
  BY DEF IInv
<1> QED
  BY <1>1, Inductive, PTL

\* Type correctness, with the places of the threads.
THEOREM TypeCorrect == Spec => []TypeOK
<1>1. IInv => TypeOK
  BY DEF IInv
<1> QED
  BY <1>1, Inductive, PTL
=============================================================================
