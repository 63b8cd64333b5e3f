# GeniusCognitiveSystem chat core: TLA+ models, checks and proofs

The chat core of GeniusCognitiveSystem is a C++ library (`src/lib`) behind a
four-function C ABI (`src/ffi`), driven by a Flutter application (`src/app`).
It keeps a catalog of spaces and rooms and the archived messages in a CRDT
key-value store (`GlobalDB`), delivers messages live over GossipSub, and runs
on an embedded GeniusSDK node. This directory specifies it in TLA+, checks the
specifications with TLC on small instances, and proves with TLAPS, for every
value of the constants, the properties that matter most. Paths below are
relative to the repository's `src/` unless they name another directory.

## 1. Inventory

| Component | State | Operations | Interacts with |
|---|---|---|---|
| C ABI (`ffi/gcs_core_ffi.cpp`, `gcs_core.h`) | `g_mutex`, `g_session`, `g_messaging`, `g_entities`, the topic vectors, `g_inFlight` + `g_idleCond`, `g_receivingDisabled`, `g_tearingDown`, `g_sdkBootedHere`, the Dart port | `gcs_init`, `gcs_publish` (five commands), `gcs_subscribe`, `gcs_shutdown`, the exit hook, the live and heal callbacks | everything |
| Entity catalog (`lib/gcs_entity_store`) | `m_spaces`, `m_rooms`; stored: manifest and one record per entity | `LoadFromStore`, `CreateSpace`, `CreateRoom`, `UpdateSpace`, `DerivedJoinedTopics` | Put/Get of the session, under `g_mutex` |
| Messaging (`lib/gcs_messaging`) | `m_seenIds`, archive queue and thread | `SendMessage`, `OnLiveMessage`, `OnMessageArrived`, `QueryHistory`, `ArchiveWorker` | session, crypto seam, sink (which takes `g_mutex`) |
| Store wrapper (`lib/gcs_storage/gcs_global_db`) | `m_running`, `m_db`, `m_pubsub`, io thread | `Initialize`, `Shutdown`, `Put`, `Get`, `QueryKeyValues`, `Publish`, `Subscribe`, topic and callback registration | GlobalDB, GossipSub |
| Session facade (`lib/gcs_core`) | owns the store | pass-through | store |
| Crypto (`lib/gcs_crypto`) | none | `DeriveRoomKey`, `EncryptPayload`, `DecryptPayload` | OpenSSL |
| Room membership (in `gcs_core_ffi.cpp`) | `g_roomTopics`, `g_derivedTopics`, `g_explicitTopics` | `RefreshDerivedJoins`, `join_topic`, the smoke joins of `gcs_init`, what `gcs_subscribe` and the commands post | catalog, store registrations, port |
| Dart session (`app/lib/cubits`) | handle, port, rail, flow, draft | `start`, `publishCommand`, `handlePushedBytes`, `close`, `selectRoom`, `send` | C ABI, port queue |
| Dart widgets (`app/lib/shell`) | the dialog's form | which rows can be tapped, the two ways to send, the create and edit dialog, `dispose` | cubits |
| Wire messages, vendored Dart API, runners | | | |

**External**: GlobalDB (a Put appends a DAG job that a DagWorker thread
executes while the caller waits; the new-element callbacks run on the worker,
inside the job), GossipSub (a strand that fulfils subscribe futures and runs
live callbacks), the node, the Dart VM.

**What is hard here.** (a) Host threads, DagWorkers, the pubsub strand, the
archive thread and the exit hook meet in one mutex, which some blocking calls
hold and others release, with raw pointers used while it is released. (b)
Teardown joins threads whose callbacks need the mutex. (c) A catalog that
cannot be enumerated depends on a manifest written by read-modify-write, with
Puts that fail half-way and processes that die. (d) Every message arrives twice,
through a bounded apply-once set and an asynchronous archive. (e) Events queue
on a port while the user changes rooms. `PROJECT.json` lists each hazard at its
line, with the properties that cover it or the reason why none does.

**What makes each component correct.** C ABI: nobody uses a destroyed object,
init and destruction never overlap, a shutdown ends and destroys its own
session, every call returns, queued archive writes land. Catalog: nothing a
command reported is lost, nothing stored is unreachable, records only move
forward. Messaging: applied once, archived as received, echoes end in a
terminal state. Membership: the joined list is the smoke topics, the explicit
joins and the derived ones, each is registered both ways, and the app is told.
Keys: the records of two rooms never meet in one store. Dart: the flow shows
the active room only and all of it, the rail shows what the core has, a dialog
acts once, the handle is closed with its session.

## 2. Modules

| Module | Models | Role |
|---|---|---|
| `GcsFfi` | `gcs_core_ffi.cpp` with the parts of `gcs_messaging.cpp` and `gcs_global_db.cpp` that block | threads, mutex, windows, teardown |
| `SessionLife` | what the C ABI promises of its sessions | abstract specification |
| `MCGcsFfi` | | thread sets for TLC |
| `GcsFfiProofs` | | `TypeCorrect`, `SafeWindows`, `WakeupsCome` |
| `GcsFfiCloserProofs` | | `SingleCloserIsSafe` |
| `GcsFfiArchiveProofs` | | `QueuedWritesLand`, `Implements` (refinement) |
| `EntityStore` | `gcs_entity_store.cpp` | catalog over a failing store and dying processes |
| `Catalog` | what the catalog promises | abstract specification |
| `EntityStoreProofs` | | `StoredAndListed`, `CatalogKept` (refinement) |
| `GcsGlobalDb` | `gcs_global_db.cpp`, `gcs_core.cpp` | the store's registrations and live callbacks, extended by `RoomMembership` |
| `RoomMembership` | the topic vectors of `gcs_core_ffi.cpp` | membership under refreshes of several threads |
| `RoomMembershipProofs` | | six invariants of the membership |
| `Messaging` | `gcs_messaging.cpp` | the messages of a room between nodes |
| `RoomLog` | what a user is shown of a room | abstract specification |
| `MessagingProofs` | | `HistoryIsDurable`, `ShownIsRecoverable`, `TypeCorrect`, `Implements` (refinement) |
| `RoomKeys` | the topic and key grammar, `gcs_crypto.cpp`, the replay of a store | operators, no state |
| `MCMessaging` | | `Messaging` and `RoomKeys` for TLC |
| `RoomKeysProofs` | | round trip, separation of rooms, order, replay |
| `CorePort` | the commands and events of `gcs_chat.proto` as the isolate meets them | the core's side of the port, extended by `ClientShell` |
| `ClientShell` | `app/lib/cubits`, `app/lib/shell` | the Dart client composed with the core |
| `ClientShellProofs` | | nine properties of the client |

### GcsFfi and SessionLife

Every variable is named for the global it stands for. `g_session` is a
generation number (0 for null): the three globals `g_session`, `g_messaging`
and `g_entities` are always set and evicted together, so one number stands for
them, and `messaging[s]`, `store[s]` say what became of generation `s`'s objects.
`window[t]` is the raw pointer thread `t` uses with `g_mutex` released. A handle is
the address of its session: `Address` is where the allocator places each
generation, and `HandleMatches` compares addresses, as lines 963 and 1286 do, so a
handle of a destroyed session matches a new one at the same place.

A thread holds `mutex` only in the sections in which it blocks with the mutex
held; a section that neither blocks nor releases the mutex is one atomic step
guarded by `Free`. This loses no behaviour: everything such a section reads is
guarded by the mutex, except the two atomic flags, whose unlocked accesses (the
callbacks' gate, the exit hook's stores) are steps of their own.

* `gcs_init` is `gcs_init` (checks, boot), `InitStore` / `InitStoreFails`,
  `InitJoin` / `InitJoinFails`, then the refresh loop `RefreshDerivedJoins`,
  `SubscribeLive`, `SubscribeReturn`, `RefreshReturn`. A boot that fails, bad
  arguments and every rejected command return with nothing changed and have no
  step.
* `join_topic` and `send_text` release the mutex (`EnterWindow`), block, and
  come back (`SubscribeReturn`, `SendReturn`). `SendMessage` is four steps,
  because the sink takes the mutex for each push.
* `create_space`, `create_room`, `update_space` are `EntityCommand` and one
  `EntityPut` per Put, all with `mutex` held.
* The two callbacks share their text: `CallbackGate`, `CallbackCopy`,
  `CallbackFunnel`, `CallbackLeave`, `CallbackNotify`, `CallbackReturns`. A
  DagWorker runs them inside a job, so a Put waits for them.
* `gcs_shutdown` gates intake and either tears down or sleeps in the drain;
  `DrainWakes` re-evaluates the predicate after a notify. `Evict`, `TearNode`,
  `TearMessaging`, `TearStore`, `TearReturns` are the shared teardown body, the
  last four with the mutex released. `ExitHook`, `ExitLock`, `ExitAbandons`,
  `ExitExpires` are the process-exit variant with its two bounded waits.

Abstracted: which topics are joined (the number of newly derived topics is any
number up to `MaxDerived`), the contents of messages (a received one is either
known already or new), log output, the Dart port (`RoomMembership` and
`CorePort` have the topics and the port). The elapsing of a bounded wait
is a choice that is possible whenever what it waits for has not happened; at the
end of the exit drain the hook takes the mutex back, and waits for it as long as
it is held.

`SessionLife` has no mutex, no windows and no flags: a session is opened, used by
any number of threads, retired, stopped and ended, once each and in this order,
and the only freedom is that a session may be retired while in use if the process
is exiting. `GcsFfi` implements it under `life <- Life(s)` (the published
generation is open; an evicted one is as far as its Messaging and its store are),
`uses <- window` and `forced <- drainExpired`.

### EntityStore and Catalog

`manifest` and `records` are the durable store, `entities` the two maps in
memory, `op` the Put the running command waits for. A create is `Create` with
the manifest Put, `PutSucceeds` with the record Put, `CommandSucceeds`; a Put
lands (`PutLands`) and is reported in two steps, so it may fail after it landed
(`PutFails`), and `Crash` may come anywhere. `Start` is a new process,
`Reload` a shutdown and init within one, both loading with any subset of the
records unreadable. The commands run one at a time because the C ABI holds
`g_mutex` across them (module `GcsFfi`, action `EntityCommand`). The model is
of one node: entity Puts carry no topics and are not replicated to others.

An id is a record of its kind, its process's seed and the counter. The seed is
the process's number: a wall-clock time and a random token, which the model
takes to be distinct between processes. `NowMs` is a wall clock: any reading of
`Stamps`, so two commands may have the same and a later one an earlier. No step
of the code compares two stamps. Which of two records is the later is said by
`version`, a history variable the code does not have and no step reads: the
number of the command that wrote the record. `updated_at_ms`, which nothing
reads, is left out.

`Catalog` has one variable, the loadable entities, and one kind of step: an
entity appears complete, or an edit of a space replaces it with a later command's record
and keeps its creation stamp.
`EntityStore` implements it under `known <- Loadable`, the listed records.

### GcsGlobalDb and RoomMembership

`GcsGlobalDb` is the store wrapper as the commands use it: the topics it listens
to and broadcasts on, and the number of live callbacks on each. A listen
registration that succeeded stays when the broadcast fails, `Subscribe` adds a
callback without looking for an earlier one, and nothing unregisters a topic but
`Shutdown`, after which the callbacks remain if the node does. `InitializeFails`
and `CoreShutdown` are the failing `Initialize` and the facade's guard.

`RoomMembership` extends it with the three vectors, the catalog (with its
commands atomic: `EntityStore` has their inside) and what the app was last told.
`RefreshDerivedJoins` is `BeginRefresh` (the set is computed once),
`RefreshTopic` for each topic in any order, `RefreshBack` (the window of
`SubscribeLive` closes and `g_mutex` is taken again), `RefreshDone` (the eviction
loop and the posts). `mutex` is held between them except in the window, where
any other thread runs any command, refreshes of its own included. `join_topic`
has the same window (`JoinBack`). `gcs_init` runs a refresh whose events have no
port to go to; `gcs_subscribe` may come in the window of that refresh, because
an idempotent `gcs_init` hands the handle out early; a repeated `gcs_subscribe`
replaces the port and is told again. `LoadFromStore` may leave out any part of the
stored catalog (the manifest's Get and any record's may fail): `loaded` is what
this session has in memory, and the derivation, the parents `create_room` admits
and the tree it posts come from that (`Tree`). `raced` remembers that a
catalog command, or the port, came inside another thread's refresh, and
`refused`, `noticed` and `dropped` what became of failed registrations and
subscribes: the properties are stated up to these and name each case.

Vectors are sets, since each insertion looks for the topic first. The drain and
the teardown are `GcsFfi`'s: `gcs_shutdown` finds no window open here.

### Messaging and RoomLog

One room, any set of nodes, each with a store that survives its process.
`SendMessage` is `Mint` (id, own id into `m_seenIds`), `PushPending`, `Publish`
(or its failure, or that of the encryption), `SendLands` (the store executes
the Put), `PutReturns` (an error may come before or after it landed) and
`PushTerminal`; `stage` is where each send is. A published message may reach any
node live, any number of times or never (`LiveArrives`); a landed one reaches
every store in any order (`Merge`), and every write, the node's own included,
runs the heal callback (`HealArrives`). Both go through `ApplyMessage`, split
where it releases `m_seenMutex`: `Applies` enters the id, `Apply` pushes and hands
over to the archive thread, whose Put is `ArchiveWorker`. A join is
`QueryHistory` (the scan), then `Absorb`, between which `g_mutex` is held and no
push gets through; the absorbing loop holds `m_seenMutex` and is one step, over
every order the records' times may have (`Absorbed` is the set after each of its
inserts). `Crash` takes everything but the store.

An id is its author, its process's seed and the counter; the seed is taken to be
distinct between processes, as in `EntityStore`. A message is its id: the
envelope, its decryption and its text are left out. The store's callback has
begun for one write of a message before a second write of it is executed, and a
node applies one delivery of a message at a time.

`RoomLog` is what the app is pushed: of an own message pending, then once
complete or error; of a peer's message, once, and only if its author sent it.
The exception is `forgot`, set when a full `m_seenIds` is cleared: from then
on a node may show a message again, a policy the code states, and the
specification says exactly where it begins.

### RoomKeys and MCMessaging

`RoomKeys` has no state. A topic or a key is the sequence of the segments
between its slashes, which is what the code's prefix and suffix comparisons
look at; the five forms of a key are those in which the store hands it to the
heal callback and to a query. `RoomTopicFromKey` finds the first archive prefix
and drops the raw suffix and, if anything is left before it, the id (`""` for another
key), `Scanned` is the prefix query, `Before` the
comparator of the history sort. The crypto seam is symbolic: an outcome is a
value or a failure, and an envelope opens with the key it was sealed with.
`HistoryOf` puts them together: what a replay makes of a store. The segments that
may stand in a topic include every reserved one (`v`, `p`, `crdt`, the prefix
itself), which is where the grammar could go wrong; ids are "msg-" with a seed
and a counter and are never reserved. `MCMessaging` instantiates `Messaging` for
`MsgDelivery` and has TLC evaluate these facts on every topic of up to four
segments, as assumptions of the run.

### CorePort and ClientShell

`CorePort` is the core as the one Dart isolate meets it. The isolate blocks in
each call, and a catalog command or a join is one step: a peer's message posted in
a window of its `SubscribeLive` counts as posted before or after the command's
events, on the side of its own room's history on which it is (with the list and the
tree it commutes, as far as the properties tell). A send is two: `send_text` mints the id and posts the
pending echo, and `SendReturns` posts the terminal one, after `SendMessage` ran
with `g_mutex` released (`sending` is the message in between). Peers add to the
port between any two steps, the two of a send included (`PushMessage`,
`ArchiveMessage`: a message may be shown before it is archived, or be archived
before it is shown). A message of the user may be archived although its send
fails: by a Put that reports an error after it landed, or from a peer that had it
live. `late` are the messages a replay left out because they were pushed and not
yet archived, the case of finding 5. The catalog is one space (none, auto-joining or manual) and
rooms that are standalone or in it; a message is its id.

`ClientShell` takes the events off one at a time. The isolate drains its
microtasks before the next event, so one step is an event, or a tap, together
with what the listeners on the rail's stream do about it: `selectRoom` sets the
selection, moves the composer (`FollowRail`) and, in `Rejoin`, clears the flow
and publishes a `join_topic`; `setRooms` clears a selection that is not listed
any more and lets the session forget it (`ForgetLastSeen`). `Take` is the queue's
head; `MessageEvent` and `HistoryEvent` pass the active-room gate (`Active`);
`upsert` and `replaceAll` are the flow's. `onSubmit` and `onPressed` are the two
ways to send, both through `send`; the isolate then waits (`Idle`) until `Sent`, which
clears the draft of a send that succeeded. `OpenDialog` to `CloseDialog` are the create and edit dialog, whose
`handled` flag is reset by a refusal. `Start`, `openDefaultFails`, `StartFails`,
`StartRefused`, `Dispose` and `close` are the session's life: `Dispose` is the
synchronous part of the shell's teardown, in which every cubit is closed up to
its first await, and `close` the native shutdown after the session cubit's, in a
microtask, so that no event is dispatched in between while peers still post. What
is on the port at the end is lost. Rows follow the code's two sources, the space's nested rows and
the standalone ones; a row is inert until its room is listed as joined.

Left out: the text of errors, names, visibility, expanded nodes, malformed
bytes, the cap on the flow's length, the smoke topics.

## 3. Runs

| Run | Expected | Shows |
|---|---|---|
| `FfiLifecycle` | pass | six properties and the refinement of `SessionLife` over two generations, two host threads that send and join, one closer |
| `FfiExit` | pass | the exit hook against an init, an entity command, a shutdown and two DagWorkers, where a subscribe may never return and a command may wedge |
| `EntityCatalog` | pass | three safety properties and the refinement, with a clock that repeats and goes back |
| `RoomMembership` | pass | six properties of the membership, two threads in each other's refresh windows, two sessions, the second with any part of the catalog |
| `MsgDelivery` | pass | two messages, two nodes, both paths, replays, a set of size one that is cleared again and again; the key grammar on every short topic |
| `MsgRestart` | pass | one node, two lives, two sends that may overlap: durability, one showing, echoes end |
| `ClientShell` | pass | ten properties of the client over the core: selections, sends and dialogs against a queue of events |
| `FfiDoubleShutdown` | violation | two shutdowns of one handle defeat the init/teardown exclusion |
| `FfiEntityPutCycle` | violation | a circular wait between an entity Put and a heal callback |
| `FfiStaleWaiter` | violation | a shutdown that waited destroys a session built meanwhile |
| `EntityLostManifest` | violation | a failed manifest read loses the list |
| `MsgReplay` | violation | a replay lacks a message that was shown |

The properties of `GcsFfi`: `NoUseAfterDestroy` (an unlocked window points to live
objects, and a thread back under the mutex finds the session it left),
`TeardownExcludesInit`, `ArchiveWritesLand` (the queue is
never popped into a store that is gone), `NoLostWakeup` (a drain asleep has a
window open or a notify to come), `CallsReturn` (every started call, and every
sleeping drain, ends), `ExitHookEnds` (the hook ends, or an entity command has wedged
with `g_mutex`) and `SessionsLive` (it implements `SessionLife`).
`ShutdownsOwnSession` and `NoCircularWait` are those of findings 3 and 1. `NoUseAfterDestroy` excepts states after
`ExitExpires`, where the code's own comment accepts the risk.

The properties of `Messaging`: `ShowsOnce` (it implements `RoomLog`),
`Recoverable` (what was shown as complete is archived, queued for it, or its
write failed), `DurableHistory` (an archived message stays with its author),
`EchoEnds` (a pending echo is followed by a terminal one) and, in `TypeOK`,
the bound of `m_seenIds`: its limit and the process's own sends.

The properties of `RoomMembership`: `MembershipUnion` (the list is the union of
its three reasons), `JoinedBothWays` (a listed topic is listened to and broadcast
on), `ToldCurrent` (with no refresh in progress the app was told the present list
and tree), `DerivedCurrent` (the derived joins are those of the catalog but for
topics that failed to register), `LiveOrNoticed` (a topic without a live callback
is getting one, or its failure was posted). Each names its exceptions: see the
observations in section 4.

The properties of `ClientShell`: `RoomsApart` (the flow holds the selected room's
messages only), `FlowComplete` (with an empty port it holds all of them that were
pushed, but for those a replay left out and for a failed replay), `OneBubble`,
`RailMirrorsCore` (with an empty port the rail is the core's catalog and
membership), `RowBeforeMembership` (a listed room has its row), `OneCommandPerDialog`, `EditKeepsSettings` (saving an untouched edit dialog
changes nothing, unless it was opened before an earlier change reached the rail),
`PendingAnswered` (a pending bubble on screen has its terminal state on the port) and
`PendingSettles` (it is settled or leaves the screen).

**Bounds.** `MaxSessions = 2` gives a second generation, enough for a late
callback or a stale handle to meet a session it does not belong to;
`MaxCommands`, `MaxArrivals` and `MaxDerived` of one or two let a window, a heal
job, a live delivery and a refresh be open at once, which is the most any
property relates. Two host threads suffice for `FfiLifecycle` (one in a window,
one that tears down); `FfiDoubleShutdown` has three because its behaviour needs
a second closer, as `FfiStaleWaiter` has. `SameAddress` puts the generations of
`FfiLifecycle` at one place, the worst an allocator can do; `OwnAddress` gives
each its own, so that the findings do not depend on it. `FfiExit` has two
workers and two arrivals, so that both workers can be parked in heal callbacks
while an entity command waits for its Put: the wedge forms before the hook, in its
bounded lock and in its drain. `EntityCatalog` has two lives, the least for an id
of a dead process to be met by its successor, two readings of the clock, which
may repeat and go back, and four commands: a space, a room under it, an update and
one more. The four bounds cap counters
in the guards of the actions that start something; nothing already started is
cut short.
`MsgDelivery` has `MaxSeen = 1` and two messages, the least for a second
delivery to come after a clear, and `MaxPushes = 2`, so that a message is shown
again; its nodes do not crash. `MsgRestart` has one node, since ids and echoes
are a node's own affair, two lives and `MaxSeen = 2`, at which a clear is
reached only through replays and heals. Crashes of a receiver and lives of two
nodes at once are beyond what TLC finishes at these bounds; all of
the run's safety properties and the refinement are proved without these bounds.

`RoomMembership` has two threads and two rooms in one space, so that one refresh
adds a room and evicts another while a second refresh, a join or a command runs in
its window; one smoke topic; two sessions, the second meeting the catalog and the
callbacks of the first; and five commands, enough for a space, two rooms, a toggle
and one more. `ClientShell` has two rooms, one message of a peer and one of the
user, `MaxTaps = 3` (select A, B and A again, the shortest way for a replay of A to
meet the reply to an earlier one), `MaxDialogs = 2`, the two together at most `MaxActs = 4`, and `MaxPort = 2`: a command or
a peer adds to the port while fewer than two events wait, so the queue grows to
five, a refresh's replays and the two posts included. The smaller number of
messages is what keeps it at 1.5 million states; the proofs are free of all of
these bounds. `MsgDelivery` gives `RoomKeys` two room names and two ids next to the
eight reserved segments.

**Fairness.** `SystemFairness`: the sections that hold the mutex, the callbacks,
DagWorkers with a queued job, the archive threads and teardowns keep running,
which is what running threads and the SDK's own threads do. Nothing obliges a
host to call, a peer to send, or a process to exit. `FairSpec` adds that a call
inside an unlocked window keeps running (`CallsReturn` needs it: a send that
never returns keeps a shutdown waiting, by design). `ExitSpec` does not: the
hook has to end beside a wedged sender, and only its own steps are added.
Weak fairness is enough: a step that waits for the mutex stays enabled while
the mutex is free, and the runs' bounds rule out endless overtaking (a
sending thread can starve a shutdown; see the hazards).

`Messaging`'s `FairSpec` (for `EchoEnds`): a thread inside a send, a callback or a
replay runs on. The send has strong fairness, because its push waits for a mutex
that replays take again and again; delivery, replication and users owe nothing.

`ClientShell`'s `Spec` has weak fairness of `Dispatch` and of `Sent`: a Dart isolate
comes to every event posted to it once it is out of a call, and a call of
`SendMessage` returns (`CallsReturn` of `GcsFfi`). Users and peers owe nothing. `RoomMembership` states
no liveness.

**Deadlock** is checked in the `GcsFfi` runs, with `Quiescent` as the only legal
rest, except in `FfiExit`, where the circular wait of finding 1 can stop everything,
the hook included; what may stop there is said by `ExitHookEnds`. `EntityStore`, `Messaging`, `RoomMembership` and `ClientShell` may
stop: their bounds are used up, and a disposed shell does nothing more.

## 4. Findings

Each is a run that TLC must find violated.

1. **Entity Puts under `g_mutex`** (`FfiEntityPutCycle`). The send path was moved
   out of the mutex to break exactly this cycle; the entity commands were not. The
   exit hook can be caught in it: its lock is bounded because "the hook must not
   wedge at exit" (`gcs_core_ffi.cpp` 311-312), but the `wait_for` of its drain
   (325) takes the mutex back without a bound, and an entity command does not
   look at `g_tearingDown`. `FfiExit` shows that this is the only way in which the
   hook does not end.
2. **Double shutdown** (`FfiDoubleShutdown`). The drain's waiter does not look at
   `g_session` again, and its empty teardown clears `g_tearingDown`.
3. **Stale waiter** (`FfiStaleWaiter`). The handle is compared before the drain's
   wait and not after it, so a shutdown that wakes late destroys the session of a
   later `gcs_init`, although "null or mismatched handles are a no-op"
   (`gcs_core.h` 143-145).
4. **Lost manifest** (`EntityLostManifest`). A Get that fails is an absent key.
5. **Incomplete replay** (`MsgReplay`). A batch that replaces the flow is scanned
   from an archive that a shown message has not reached yet. `ClientShell` has the
   effect on the screen: `late`, which `FlowComplete` excepts.

Further observations, met while modelling and named in the properties or the
hazards as exceptions:

* A handle is compared as a raw pointer (`gcs_core_ffi.cpp` 963, 1286), so one of a
  destroyed session is taken for a new one that the allocator put at the same
  address; the comparison "prevents double-free and use-after-free"
  (`gcs_core.h` 144-145) of the objects, which the model confirms, but not the
  shutdown of a session by a stale handle. The Dart client forgets its handle
  before it shuts down.
* The failed `gcs_init` that joined no smoke topic (`gcs_core_ffi.cpp` 852-857) leaves
  the node it booted running, where the other failure path (816-820) pairs the
  boot and says that it "mirrors the smoke-topic failure path below".
* `gcs_messaging.hpp` 242-243 calls `m_seenIds` "bounded by kMaxSeenIds".
  `SendMessage` (`gcs_messaging.cpp` 188) inserts without looking at the bound:
  the set may exceed it by the ids the process has sent since the last clear,
  and that looser bound is the one `TypeOK` of `Messaging` states and
  `TypeCorrect` proves.
* A send that fails keeps its draft for a re-send with a new id, although its
  publish or its Put may have succeeded.
* `SubscribeLive`'s comment (`gcs_core_ffi.cpp` 651-657, WR-03) promises a notice
  for a failed live subscribe. In `gcs_init`'s own refresh there is no port yet
  and the notice is lost (`dropped` in `RoomMembership`).
* A refresh that computed its set before another thread's catalog command goes on
  with it, and may evict a room that the command derived, until the next refresh
  (`raced`). The Dart isolate blocks in `gcs_publish`, so only a host with
  several threads can meet it.
* A port registered inside `gcs_init`'s refresh, through the handle an idempotent
  `gcs_init` returns, is not told of the topics that refresh adds afterwards.
* A topic that is joined explicitly and derived later, or evicted and derived
  again, is subscribed once more, so its callback runs twice per message, where
  `join_topic`'s comment (`gcs_core_ffi.cpp` 1037-1041, IN-05) has it armed exactly
  once per topic; the smoke topics are never subscribed at all. Both paths end in
  the apply-once set, so no property depends on the number.
* When the list drops the selected room, the selection goes and its bubbles stay
  on screen until the next selection (`message_flow_cubit.dart` 107-110 describes
  switches only); `RoomsApart` speaks of a selected room.
* `gcs_shell.dart` 118-120 says that `_closeNativeOnce` "runs before any await";
  `session_cubit.dart` 421-423 awaits the cancelled rail subscription first, so the
  flow and the rail are closed before the native session is. The two are `Dispose`
  and `close`: the core still posts in between, and the isolate takes none of it.
* An edit dialog opened before an earlier change was dispatched shows, and saves,
  the older settings (`stale` in the form).
* A draft kept after a refused send goes to whichever room is selected when the
  send button is pressed without a focused field; submitting the field, blank or
  not, replaces the draft "retained for a manual re-send" (`composer_cubit.dart`
  83).

## 5. Proofs

All theorems hold for every value of the constants that satisfies the
assumptions declared in the module of the specification
(`ThreadsAssumption`, `BoundsAssumption` in `GcsFfi`: disjoint sets of threads,
natural bounds; `CatalogAssumption`, `NoParentAssumption` in `EntityStore`;
`MessagingAssumption` in `Messaging`; `TopicAssumption`, `MembershipAssumption` in
`GcsGlobalDb` and `RoomMembership`: distinct names; `KeyAssumption`,
`IdOrderAssumption` in `RoomKeys`: ids are no reserved segment and their order is
total; `CoreAssumption`, `ClientAssumption` in `CorePort` and `ClientShell`:
finite sets of rooms and messages).

* **`TypeCorrect`, `SafeWindows`** (`GcsFfiProofs`). The inductive invariant
  `IInv` (in `GcsFfi`, so TLC can evaluate it) joins the type invariant to: the
  mutex is held exactly in the holding sections (`MutexInv`); a thread has a
  window exactly in the window sections (`WindowInv`); the counter is the
  number of those threads (`CountInv`); every open window is of the *current*
  session unless the exit drain expired (`CurrentInv`); the current session's
  objects are live and every evicted one is out of the globals (`SessionInv`);
  an init in progress builds the newest generation and no other (`BuildInv`);
  a locked command has a session (`CommandInv`). `NoUseAfterDestroy` is not inductive
  alone: that an eviction cannot strand a window needs `CountInv`, which is a
  statement about a cardinality; it is maintained through the lemmas about
  `InWindow` gaining and losing one thread. The step proof has one lemma per
  action.
* **`WakeupsCome`** (`GcsFfiProofs`) is the safety core of `CallsReturn`: it says that
  the wake-up of a sleeping drain is still to come, and fairness does the rest.
  Every step that lowers `g_inFlight` either notifies itself, which leaves nobody
  asleep, or is a callback's, which then stands at its notify; a thread goes to
  sleep only under the mutex, with a window open. Beside the types it needs no
  strengthening.
* **`SingleCloserIsSafe`** (`GcsFfiCloserProofs`). Assumes that at most one host
  thread calls `gcs_shutdown` and no process exit, as the Dart client does.
  `CloserInv` says that a destruction in progress keeps `g_tearingDown` set.
  That a shutdown destroys the session of its handle is not claimed: with one closer
  it depends on the addresses (section 4), with two it is false (finding 3).
* **`QueuedWritesLand`** (`GcsFfiArchiveProofs`), for any number of closers and with
  process exit. `ArchiveInv` says that what is queued or inside its Put belongs to
  a live Messaging over a running store (`QueuedInv`), that a teardown at the store
  has destroyed the Messaging above it (`StagesInv`, the order of
  `TeardownSessionAndNode`), and that a generation being built has none yet
  (`UnbuiltInv`, which lets a failed init shut its store down). A callback queues
  only through an open window, hence `CurrentInv` of `IInv`. After `ExitExpires`
  nothing is claimed, as in `SafeWindows`.
* **`Implements`** (`GcsFfiArchiveProofs`): the C ABI implements `SessionLife`, again
  for any number of closers and with process exit. To `IInv` it adds that a
  generation to come, or in the making, has no Messaging (`FutureInv`), and what a
  teardown holds at each of its stages: nothing before the eviction, then two live
  objects, then a dead Messaging over a running store, and never the session of
  another teardown (`HeldInv`). Of the actions seven move the abstract state besides
  opening and closing windows: `InitJoin` opens, the evictions of `gcs_shutdown`,
  `DrainWakes`, `ExitLock` and `ExitExpires` retire (or stutter, for the second of
  two shutdowns), `TearMessaging` stops and `TearStore` ends. Every other one is a
  step aside (`Aside`). It holds of a double shutdown too: finding 2 opens a new
  session during a destruction, and does not destroy anything twice.
* **`StoredAndListed`, `CatalogKept`** (`EntityStoreProofs`). Assume
  `GetFails = FALSE`; the run `EntityLostManifest` shows the assumption is
  necessary. The strengthening: ids are fresh (`MintedInv`), records are
  of past commands (`VersionInv`), and what a create or update in progress carries fits what
  is stored (`CreateInv`, `UpdateInv`). `TypeCorrect` and `MemoryIsStored` state
  two of the facts by themselves. `CatalogKept` then shows that a landing
  Put is an abstract step and every other action a stutter: nothing is asked of the
  clock, which `Stamps` leaves free, and the order of the records is that of the
  commands, which `g_mutex` serialises.

* **`HistoryIsDurable`, `ShownIsRecoverable`** (`MessagingProofs`). `HistoryInv` adds
  to the two properties that a send past its Put has landed
  (`PutBeforeComplete`): without it the complete echo would claim an archived
  message of a Put about which nothing is known. Durability rests on
  `IdsDiffer`: no two messages share a key, so no Put replaces another's.
* **`TypeCorrect`, `Implements`** (`MessagingProofs`) are about the apply-once set. The
  type invariant holds its bound, so it needs that a process has counted at most
  `MaxSends` ids (`CounterInv`), which gives that a new id is fresh. The invariant of
  the refinement adds that all a node has of a message comes from a send
  that showed its pending echo (`SourceInv`), and, for a node that has not forgotten
  (cleared its set), that it knows the id of every message it shows, is about to
  show or sends (`KnownInv`), has not shown what it is about to show (`ApplyInv`), and
  shows of a send in progress the pending echo and nothing else (`EchoInv`). The
  loop of `Absorb` runs over a batch of any length: that the recursive function
  `Absorbed` is what its definition says, keeps the bound, and gains the whole batch
  unless it is cleared on the way, is shown index by index through a least
  counterexample (`SetInduction`), because the library's induction theorems take
  an operator and cannot be instantiated here.
* **`MembershipIsUnion`, `ListedIsRegistered`, `AppIsTold`, `DerivedIsCurrent`,
  `DeafIsNoticed`, `TypeCorrect`** (`RoomMembershipProofs`). The invariant `IInv` adds
  to the properties: a session that is down has left nothing (`StoppedInv`), the
  refresh of `gcs_init` is one in progress (`StarterInv`), a room's space exists
  (`ParentInv`), and, unless commands raced, one refresh runs at a time with the
  present set, and the topics it has visited are derived or refused
  (`RefreshInv`). `MembershipUnion` needs no such exception: each of the two loops
  keeps it at every topic, whatever ran in the window before.
* **`ShapeIsRoomTopic`, `RoundTrip`, `KeysApart`, `ScanApart`** (`RoomKeysProofs`), for any
  set of segments. The proofs go through the lengths and positions of the pieces
  of a concatenation; `RoundTrip` shows that no later `gcs/messages` and no room
  called `v` misleads the parser, since the first prefix is the archive's and the
  last segment an id or a suffix. **`ReplayOrder`** is the comparator's.
  **`ReplayIsTheRooms`**: a replay of a well-written store is the room's archived
  messages, encrypted or not, given that an envelope opens with the key that sealed
  it (the symbolic seam, an assumption about OpenSSL and not a result).
* **The nine theorems of `ClientShellProofs`** relate the core's state to the screen
  through what is still on the port. For the rail: `MirrorInv` (the last tree and
  the last list on the port are the present ones, or none is left and the rail has
  them), `GrowingInv` (rooms are never removed from one tree to the next) and
  `ListedInv` (a list's rooms are in an earlier tree). For the flow: `FlowInv` (every
  pushed message of the selected room is shown, or an event that shows it is on
  the port, and a history without it comes before such an event) with `PortInv`
  and `WhereInv`. For the echoes: `PairsInv` (between a pending echo on the port and its
  answer, or after it while the send is in progress, there are messages only:
  peers' are, but no list and no history, which come from commands the isolate is
  not free to publish) and `NextInv` (a bubble pending on screen has its answer on
  the port with messages only before it, so neither a list nor a history takes
  the room or the bubble away first); `PendingIsAnswered` is the safety core of
  `PendingSettles`, to which fairness adds that the send returns and the answer is
  taken. For the rest: `FollowedInv`, `FormInv`, `ClosedInv`. The lemmas come
  in two kinds: what a step that takes the head of the port keeps, and what a step
  that appends events keeps, with one lemma per event and per command under them.

**Only model-checked**: liveness (`CallsReturn`, `ExitHookEnds`, `EchoEnds`,
`PendingSettles`), which rests on fairness and so on ENABLED, out of this prover's
reach. Every invariant, action property and refinement that a passing run checks is
proved, those of the closers and of the catalog under the assumptions named above.
`TeardownExcludesInit` and `ShutdownsOwnSession` with more than one closer do not
hold (findings 2 and 3), nor does `NoCircularWait` (finding 1), nor do
`NoOrphanRecords` and the refinement of the catalog with unreliable reads
(finding 4).

## 6. Not modelled

What is left of the components that are modelled in part:

* C ABI: the parsing of the configuration, of payloads and of handles; a rejected
  call changes nothing and has no step.
* Messaging: several rooms in one apply-once set (a clear caused by one room's
  traffic lets another room's message be shown again; `forgot` already allows it),
  and peers that restart while others receive, beyond what TLC finishes.
* Store wrapper: the io thread, and calls of the wrapper that overlap its own
  `Initialize` or `Shutdown` other than those of `GcsFfi`.
* Dart: malformed events, the cap on the flow, names, visibility and layout.

Left out for good: the strength of the cryptography, error names and logging,
generated and vendored code, and the platform runners, which are Flutter's
templates (see the notes in `PROJECT.json`).
