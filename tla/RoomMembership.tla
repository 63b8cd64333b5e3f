---------------------------- MODULE RoomMembership ----------------------------
(***************************************************************************)
(* Which rooms a session is in (src/ffi/gcs_core_ffi.cpp): g_roomTopics,   *)
(* the list every RoomList event carries, is kept in step with three       *)
(* reasons to be in a room, the smoke set of gcs_init, join_topic and the  *)
(* derivation from the catalog, whose rooms are joined while their space   *)
(* has auto_join_rooms.                                                    *)
(*                                                                         *)
(* RefreshDerivedJoins computes the derived topics once, and then releases *)
(* g_mutex in SubscribeLive after each topic it adds: other threads run    *)
(* whole commands, refreshes of their own included, in these windows.  A   *)
(* command without a window is one step, taken when g_mutex is free.       *)
(*                                                                         *)
(* The catalog is the one of EntityStore with its commands atomic, and a   *)
(* command that fails there changes nothing here; a session may have only  *)
(* a part of it in memory.  The lifecycle of the                           *)
(* session (drain, teardown, exit) is GcsFfi's: here gcs_shutdown finds no *)
(* window open.  Vectors without duplicates are sets.                      *)
(***************************************************************************)
EXTENDS GcsGlobalDb

CONSTANTS
    Thread,       \* the threads that call the C ABI
    Space,        \* the spaces the catalog may get
    NoThread,     \* g_mutex is free
    NoTopic,      \* a thread outside SubscribeLive
    NotCreated,   \* the parent of a room that is not in the catalog
    Standalone,   \* the parent_space_id "" of a standalone room
    MaxSessions,  \* bound: sessions in a behaviour
    MaxCommands   \* bound: catalog commands and joins in a behaviour

ASSUME MembershipAssumption ==
    /\ NoThread \notin Thread /\ NoTopic \notin Topic
    /\ NotCreated # Standalone /\ {NotCreated, Standalone} \cap Space = {}
    /\ Room \cap Space = {}
    /\ MaxSessions \in Nat /\ MaxCommands \in Nat

VARIABLES
    mutex,           \* holder of g_mutex inside RefreshDerivedJoins
    pc,              \* where each thread is
    derived,         \* RefreshDerivedJoins: the topics computed at its start
    todo,            \* those its first loop has not visited
    subscribing,     \* the topic a thread's SubscribeLive has released g_mutex for
    starter,         \* the thread whose refresh is gcs_init's
    parent,          \* stored: the parent of each room
    autoJoin,        \* stored: the spaces, and whether auto_join_rooms is set
    loaded,          \* m_rooms and m_spaces: what of it this session has in memory
    g_roomTopics, g_derivedTopics, g_explicitTopics,
    preJoined,       \* the smoke topics gcs_init could join
    refused,         \* derived topics whose last registration failed
    noticed,         \* topics whose last subscribe failed, told by an ErrorNotice
    dropped,         \* those whose ErrorNotice found no port
    port,            \* a Dart port is registered
    told,            \* the last RoomList and SpaceTree posted to it
    raced,           \* what happened inside the window of another thread's refresh
    opened, issued

catalog == <<parent, autoJoin, loaded>>
topics  == <<g_roomTopics, g_derivedTopics, g_explicitTopics, preJoined>>
refresh == <<mutex, derived, todo, starter>>
notes   == <<refused, noticed, dropped>>
dart    == <<port, told>>
vars    == <<db, refresh, pc, subscribing, catalog, topics, notes, dart, raced, opened, issued>>

Pcs == {"idle", "refresh", "refreshSub", "joinSub"}

NoTree == [parent |-> [r \in Room |-> NotCreated], auto |-> [s \in {} |-> FALSE]]

Parents == [Room -> Space \cup {NotCreated, Standalone}]
Flags == UNION {[S -> BOOLEAN] : S \in SUBSET Space}

\* g_mutex is held exactly inside a refresh, a topic exactly inside SubscribeLive.
ThreadsOK ==
    /\ mutex \in Thread \cup {NoThread} /\ starter \in Thread \cup {NoThread}
    /\ pc \in [Thread -> Pcs]
    /\ derived \in [Thread -> SUBSET Room] /\ todo \in [Thread -> SUBSET Room]
    /\ subscribing \in [Thread -> Topic \cup {NoTopic}]
    /\ \A t \in Thread : mutex = t <=> pc[t] = "refresh"
    /\ \A t \in Thread : subscribing[t] # NoTopic <=> pc[t] \in {"refreshSub", "joinSub"}

MembershipOK ==
    /\ parent \in Parents /\ autoJoin \in Flags /\ loaded \subseteq Room \cup Space
    /\ g_roomTopics \subseteq Topic /\ g_derivedTopics \subseteq Room
    /\ g_explicitTopics \subseteq Topic /\ preJoined \subseteq Smoke
    /\ refused \subseteq Room /\ noticed \subseteq Topic /\ dropped \subseteq Topic

DartOK ==
    /\ port \in BOOLEAN
    /\ told \in [rooms : SUBSET Topic, tree : [parent : Parents, auto : Flags]]
    /\ raced \subseteq {"catalog", "port"}
    /\ opened \in 0..MaxSessions /\ issued \in 0..MaxCommands

\* The types, and the two places where a thread's place is also kept elsewhere.
TypeOK == DbOK /\ ThreadsOK /\ MembershipOK /\ DartOK

Init ==
    /\ DbInit
    /\ mutex = NoThread /\ starter = NoThread
    /\ pc = [t \in Thread |-> "idle"]
    /\ derived = [t \in Thread |-> {}] /\ todo = [t \in Thread |-> {}]
    /\ subscribing = [t \in Thread |-> NoTopic]
    /\ parent = NoTree.parent /\ autoJoin = NoTree.auto /\ loaded = {}
    /\ g_roomTopics = {} /\ g_derivedTopics = {} /\ g_explicitTopics = {} /\ preJoined = {}
    /\ refused = {} /\ noticed = {} /\ dropped = {}
    /\ port = FALSE /\ told = [rooms |-> {}, tree |-> NoTree]
    /\ raced = {} /\ opened = 0 /\ issued = 0

-----------------------------------------------------------------------------
(* The catalog, and what is posted of it.                                  *)

Exists(r) == parent[r] # NotCreated

\* EntityStore's Rooms and Spaces: what is in memory.
Tree == [parent |-> [r \in Room |-> IF r \in loaded THEN parent[r] ELSE NotCreated],
         auto |-> [s \in DOMAIN autoJoin \cap loaded |-> autoJoin[s]]]

\* EntityStore::DerivedJoinedTopics: a room whose space is not in memory is skipped.
DerivedJoinedTopics(tree) ==
    {r \in Room : tree.parent[r] \in DOMAIN tree.auto /\ tree.auto[tree.parent[r]]}

\* BuildRoomListEvent and BuildSpaceTreeEvent, posted if there is a port.
PostRoomList == told' = IF port THEN [told EXCEPT !.rooms = g_roomTopics'] ELSE told

\* Mutant: the tree is posted and the room list is not.
PostTreeOnly(rooms) ==
    told' = IF port' THEN [told EXCEPT !.tree = Tree'] ELSE told

PostTree(rooms) ==
    told' = IF port' THEN [rooms |-> rooms, tree |-> Tree'] ELSE told

-----------------------------------------------------------------------------
(* g_mutex and the windows.                                                *)

Free == mutex = NoThread

Goto(t, label) == pc' = [pc EXCEPT ![t] = label]

Refreshing(t) == pc[t] \in {"refresh", "refreshSub"}

\* The last thing before SubscribeLive: g_mutex is released.
OpenWindow(t, x, label) ==
    /\ subscribing' = [subscribing EXCEPT ![t] = x]
    /\ Goto(t, label)

\* Mutant: the failed subscribe is only logged.
LogOnly(x) == UNCHANGED <<noticed, dropped>>

\* Posted to the port, if there is one: gcs_init's refresh runs before there is.
PostErrorNotice(x) ==
    /\ noticed' = IF port THEN noticed \cup {x} ELSE noticed
    /\ dropped' = IF port THEN dropped ELSE dropped \cup {x}

\* The subscribe has succeeded or failed and the thread is back under g_mutex;
\* a failure is told by an ErrorNotice.
CloseWindow(t, label) ==
    /\ Free
    /\ LET x == subscribing[t]
       IN  \/ Subscribe(x) /\ noticed' = noticed \ {x} /\ dropped' = dropped \ {x}
           \/ UNCHANGED armed /\ PostErrorNotice(x)
    /\ subscribing' = [subscribing EXCEPT ![t] = NoTopic]
    /\ Goto(t, label)
    /\ UNCHANGED <<m_running, listening, broadcasting, refused>>

-----------------------------------------------------------------------------
(* RefreshDerivedJoins.                                                    *)

\* Mutant: the set is computed before the catalog is changed.
DerivedBefore == DerivedJoinedTopics(Tree)

\* The set is computed after the catalog was changed, in the same section.
DerivedNow == DerivedJoinedTopics(Tree')

BeginRefresh(t) ==
    /\ derived' = [derived EXCEPT ![t] = DerivedNow] /\ todo' = [todo EXCEPT ![t] = DerivedNow]
    /\ mutex' = t /\ Goto(t, "refresh")

\* Mutant: a topic that fails to register is added all the same.
KeepFailed(x) ==
    /\ g_derivedTopics' = g_derivedTopics \cup {x} /\ g_roomTopics' = g_roomTopics \cup {x}
    /\ UNCHANGED refused

\* A topic that fails to register is kept out of the projection.
SkipFailed(x) == refused' = refused \cup {x} /\ UNCHANGED <<g_derivedTopics, g_roomTopics>>

\* The first loop visits a topic: one that is derived already is skipped, a new
\* one is registered and enters both vectors, its history is replayed and
\* g_mutex is released for the live subscribe.
RefreshTopic(t) ==
    /\ pc[t] = "refresh"
    /\ \E x \in todo[t] :
          /\ todo' = [todo EXCEPT ![t] = @ \ {x}]
          /\ \/ /\ x \in g_derivedTopics
                /\ UNCHANGED <<db, mutex, pc, subscribing, g_derivedTopics, g_roomTopics, notes>>
             \/ /\ x \notin g_derivedTopics
                /\ RegisterFails(x) /\ SkipFailed(x)
                /\ UNCHANGED <<mutex, pc, subscribing, noticed, dropped>>
             \/ /\ x \notin g_derivedTopics
                /\ Registers(x)
                /\ g_derivedTopics' = g_derivedTopics \cup {x}
                /\ g_roomTopics' = g_roomTopics \cup {x}
                /\ mutex' = NoThread /\ OpenWindow(t, x, "refreshSub")
                /\ refused' = refused \ {x} /\ UNCHANGED <<noticed, dropped>>
    /\ UNCHANGED <<derived, starter, catalog, g_explicitTopics, preJoined, dart, raced, opened, issued>>

\* Mutant: the loop goes on without g_mutex.
Unlocked(t) == UNCHANGED mutex

Relock(t) == mutex' = t

\* Back from SubscribeLive: the loop goes on under g_mutex.
RefreshBack(t) ==
    /\ pc[t] = "refreshSub"
    /\ CloseWindow(t, "refresh") /\ Relock(t)
    /\ UNCHANGED <<derived, todo, starter, catalog, topics, dart, raced, opened, issued>>

\* Mutant: eviction revokes explicit membership too.
EvictAll(gone) == g_roomTopics' = g_roomTopics \ gone

\* Topics no longer derived leave the projection, unless joined explicitly (WR-03).
EvictDerived(gone) == g_roomTopics' = g_roomTopics \ (gone \ g_explicitTopics)

\* The second loop, and the caller's end: a command posts the tree and the room
\* list; gcs_init posts nothing.
RefreshDone(t) ==
    /\ pc[t] = "refresh" /\ todo[t] = {}
    /\ EvictDerived(g_derivedTopics \ derived[t])
    /\ g_derivedTopics' = g_derivedTopics \cap derived[t]
    /\ mutex' = NoThread /\ Goto(t, "idle")
    /\ derived' = [derived EXCEPT ![t] = {}]
    /\ UNCHANGED <<port, catalog>>
    /\ \/ starter = t /\ starter' = NoThread /\ UNCHANGED told
       \/ starter # t /\ PostTree(g_roomTopics') /\ UNCHANGED starter
    /\ UNCHANGED <<db, todo, subscribing, g_explicitTopics, preJoined, notes, raced, opened, issued>>

-----------------------------------------------------------------------------
(* The session.                                                            *)

\* The manifest's Get may fail, and so may any record's: what cannot be read is
\* left out of this session.
LoadFromStore ==
    /\ loaded' \in SUBSET ({r \in Room : Exists(r)} \cup DOMAIN autoJoin)
    /\ UNCHANGED <<parent, autoJoin>>

\* gcs_init: the smoke topics, of which at least one must join, the catalog as
\* far as it can be read, and a refresh.
gcs_init(t) ==
    /\ pc[t] = "idle" /\ Free /\ ~m_running
    /\ opened < MaxSessions /\ opened' = opened + 1
    /\ \E joined \in (SUBSET Smoke) \ {{}} :
          /\ Initialize(joined)
          /\ preJoined' = joined /\ g_roomTopics' = joined
    /\ LoadFromStore /\ BeginRefresh(t) /\ starter' = t
    /\ UNCHANGED <<armed, subscribing, g_derivedTopics, g_explicitTopics, notes, dart,
                   raced, issued>>

\* gcs_init returns null: the store does not open, or no smoke topic joins and the
\* session is shut down again.
gcs_init_fails(t) ==
    /\ pc[t] = "idle" /\ Free /\ InitializeFails
    /\ opened < MaxSessions /\ opened' = opened + 1
    /\ UNCHANGED <<refresh, pc, subscribing, catalog, topics, notes, dart, raced, issued>>

\* gcs_subscribe: the tree first, then the list, then readiness, to the port it is
\* given, which replaces an earlier one.
gcs_subscribe(t) ==
    /\ pc[t] = "idle" /\ Free /\ m_running
    /\ port' = TRUE
    /\ UNCHANGED catalog /\ PostTree(g_roomTopics)
    /\ raced' = IF starter # NoThread THEN raced \cup {"port"} ELSE raced \ {"port"}
    /\ UNCHANGED <<db, refresh, pc, subscribing, topics, notes, opened, issued>>

\* gcs_shutdown, its drain over: the globals are cleared.
gcs_shutdown(t) ==
    /\ pc[t] = "idle" /\ Free
    /\ \A u \in Thread : subscribing[u] = NoTopic
    /\ CoreShutdown
    /\ g_roomTopics' = {} /\ g_derivedTopics' = {} /\ g_explicitTopics' = {} /\ preJoined' = {}
    /\ refused' = {} /\ noticed' = {} /\ dropped' = {}
    /\ port' = FALSE /\ UNCHANGED told
    /\ raced' = {} /\ loaded' = {}
    /\ UNCHANGED <<refresh, pc, subscribing, parent, autoJoin, opened, issued>>

-----------------------------------------------------------------------------
(* gcs_publish.                                                            *)

Accepts(t) ==
    /\ pc[t] = "idle" /\ Free /\ m_running
    /\ issued < MaxCommands /\ issued' = issued + 1

\* join_topic: register, list, replay; the first join then subscribes.
join_topic(t, x) ==
    /\ Accepts(t)
    /\ \/ /\ RegisterFails(x)
          /\ UNCHANGED <<pc, subscribing, g_roomTopics, g_explicitTopics, told>>
       \/ /\ Registers(x)
          /\ g_roomTopics' = g_roomTopics \cup {x}
          /\ g_explicitTopics' = g_explicitTopics \cup {x}
          /\ PostRoomList
          /\ IF x \in g_roomTopics THEN UNCHANGED <<pc, subscribing>>
             ELSE OpenWindow(t, x, "joinSub")
    /\ UNCHANGED <<refresh, catalog, g_derivedTopics, preJoined, notes, port, raced, opened>>

JoinBack(t) ==
    /\ pc[t] = "joinSub"
    /\ CloseWindow(t, "idle")
    /\ UNCHANGED <<refresh, catalog, topics, dart, raced, opened, issued>>

\* create_space has no rooms yet: the tree alone is posted.
create_space(t, s) ==
    /\ Accepts(t) /\ s \notin DOMAIN autoJoin
    /\ \E on \in BOOLEAN :
          autoJoin' = [p \in DOMAIN autoJoin \cup {s} |-> IF p = s THEN on ELSE autoJoin[p]]
    /\ loaded' = loaded \cup {s}
    /\ UNCHANGED <<parent, port>> /\ PostTree(told.rooms)
    /\ UNCHANGED <<db, refresh, pc, subscribing, topics, notes, raced, opened>>

\* A change of the catalog while another refresh is in its window.
Races(t) == raced' = IF \E u \in Thread \ {t} : Refreshing(u) THEN raced \cup {"catalog"} ELSE raced

\* A room in a space that is in memory, or a standalone one.
create_room(t, r) ==
    /\ Accepts(t) /\ ~Exists(r)
    /\ \E p \in DOMAIN Tree.auto \cup {Standalone} : parent' = [parent EXCEPT ![r] = p]
    /\ loaded' = loaded \cup {r}
    /\ UNCHANGED autoJoin
    /\ BeginRefresh(t) /\ Races(t)
    /\ UNCHANGED <<db, starter, subscribing, topics, notes, dart, opened>>

update_space(t, s) ==
    /\ Accepts(t) /\ s \in DOMAIN Tree.auto
    /\ \E on \in BOOLEAN : autoJoin' = [autoJoin EXCEPT ![s] = on]
    /\ UNCHANGED <<parent, loaded>>
    /\ BeginRefresh(t) /\ Races(t)
    /\ UNCHANGED <<db, starter, subscribing, topics, notes, dart, opened>>

Command(t) ==
    \/ \E x \in Topic : join_topic(t, x)
    \/ \E s \in Space : create_space(t, s) \/ update_space(t, s)
    \/ \E r \in Room : create_room(t, r)

Next ==
    \E t \in Thread :
        \/ gcs_init(t) \/ gcs_init_fails(t) \/ gcs_subscribe(t) \/ gcs_shutdown(t) \/ Command(t)
        \/ RefreshTopic(t) \/ RefreshBack(t) \/ RefreshDone(t) \/ JoinBack(t)

Spec == Init /\ [][Next]_vars

-----------------------------------------------------------------------------
(* Properties.                                                             *)

\* A session is in a room for a reason and leaves it with the last one: the
\* room list is the smoke set, the explicit joins and the derived joins
\* together, whatever refreshes of several threads do in each other's windows.
MembershipUnion == g_roomTopics = preJoined \cup g_explicitTopics \cup g_derivedTopics

\* A listed room is one the store both listens to and broadcasts on (D-07).
JoinedBothWays == g_roomTopics \subseteq listening \cap broadcasting

Quiet == \A t \in Thread : ~Refreshing(t)

\* Once no refresh is in progress the app has been told the present rooms and
\* the present catalog, unless its port came while gcs_init was still refreshing.
ToldCurrent ==
    port /\ Quiet /\ "port" \notin raced => told = [rooms |-> g_roomTopics, tree |-> Tree]

\* The derived joins are those of the catalog in memory, but for topics that failed
\* to register, unless a command changed it in the window of another's refresh.
DerivedCurrent ==
    m_running /\ Quiet /\ "catalog" \notin raced =>
        \A r \in Room :
            LET inAutoJoinSpace ==
                    \E s \in DOMAIN autoJoin \cap loaded :
                        r \in loaded /\ parent[r] = s /\ autoJoin[s]
            IN  /\ r \in g_derivedTopics => inAutoJoinSpace
                /\ inAutoJoinSpace => r \in g_derivedTopics \cup refused

\* A room joined after the smoke set has a live callback, or is getting one, or
\* the app was told that it has none (WR-03), unless it had no port to be told on.
LiveOrNoticed ==
    \A x \in g_roomTopics \ preJoined :
        armed[x] > 0 \/ x \in noticed \cup dropped \/ \E t \in Thread : subscribing[t] = x

-----------------------------------------------------------------------------
(* The inductive invariant.                                                *)

\* Nothing is left of a session that is down.
StoppedInv ==
    ~m_running =>
        /\ Quiet /\ ~port /\ raced = {}
        /\ g_explicitTopics = {} /\ g_derivedTopics = {}

\* gcs_init's refresh is one, and a port that came during it is marked.
StarterInv ==
    starter # NoThread => Refreshing(starter) /\ (port => "port" \in raced)

\* A room is created under a space that exists, and what is in memory is stored.
ParentInv ==
    /\ \A r \in Room : parent[r] \in DOMAIN autoJoin \cup {NotCreated, Standalone}
    /\ loaded \subseteq {r \in Room : Exists(r)} \cup DOMAIN autoJoin

\* Unless commands raced, one refresh runs at a time, its set is the present one and
\* the topics it has visited are derived, or failed to register.
RefreshInv ==
    "catalog" \notin raced =>
        \A t \in Thread : Refreshing(t) =>
            /\ \A u \in Thread : Refreshing(u) => u = t
            /\ derived[t] = DerivedJoinedTopics(Tree)
            /\ derived[t] \ todo[t] \subseteq g_derivedTopics \cup refused

IInv ==
    /\ TypeOK /\ MembershipUnion /\ JoinedBothWays /\ LiveOrNoticed
    /\ StoppedInv /\ StarterInv /\ ParentInv /\ RefreshInv
    /\ ToldCurrent /\ DerivedCurrent
=============================================================================
