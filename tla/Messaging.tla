------------------------------ MODULE Messaging ------------------------------
(***************************************************************************)
(* The messages of one room among nodes that each run a Messaging          *)
(* component (src/lib/gcs_messaging.cpp).  A send is published live and    *)
(* written to the sender's archive, from where it replicates; every        *)
(* receiver therefore hears of a message twice, applies it once by the id  *)
(* in m_seenIds, shows it and archives it through its own archive thread.  *)
(* Joining the room replays the archive (QueryHistory).                    *)
(*                                                                         *)
(* g_mutex, which the event sink takes, keeps pushes and replays apart;    *)
(* m_seenMutex makes each use of m_seenIds atomic.                         *)
(*                                                                         *)
(* External: GossipSub, which may lose, delay and repeat a live message,   *)
(* and GlobalDB, in which a Put whose topics name the room reaches every   *)
(* node in the end, and which runs the new-element callback once for every *)
(* write it executes, remote or local, before the Put returns.             *)
(*                                                                         *)
(* A message stands for its text and envelope; one that does not decrypt   *)
(* or parse is dropped by every path without a trace and is left out.      *)
(***************************************************************************)
EXTENDS Integers, FiniteSets, SequencesExt

CONSTANTS
    Nodes,
    Senders,    \* the nodes whose user sends
    Joiners,    \* the nodes whose user selects the room again
    Crashers,   \* the nodes whose process may die and start again
    MaxSeen,    \* kMaxSeenIds
    MaxLives,   \* bound: process starts of a node
    MaxSending, \* bound: sends of a node in progress at one time
    MaxSends,   \* bound: messages sent in a behaviour
    MaxPushes   \* bound: deliveries of a message to a node that has shown it so often
                \* are not applied; one delivery of it at a time is

Messages == [author : Senders, life : 1..MaxLives, seq : 0..MaxSends - 1]

ASSUME MessagingAssumption ==
    /\ Senders \cup Joiners \cup Crashers \subseteq Nodes
    /\ MaxSeen \in Nat \ {0}
    /\ {MaxLives, MaxSending, MaxSends, MaxPushes} \subseteq Nat

VARIABLES
    up,        \* the nodes whose process runs a session that has joined the room
    life,      \* the seed of NextMessageId in the process
    seq,       \* the counter of NextMessageId
    stage,     \* where SendMessage is with each message
    published, \* messages GossipSub has taken
    landed,    \* messages whose Put, with the room as its topic, was executed
    archive,   \* each node's store, durable: the messages under gcs/messages/
    merged,    \* the remote writes each store has executed, durable
    heals,     \* new-element callbacks that have not yet looked at m_seenIds
    seen,      \* m_seenIds
    applying,  \* callbacks between the apply-once check and the push
    queue,     \* m_archiveQueue
    dropped,   \* received messages whose archive Put failed
    joining,   \* the nodes with a QueryHistory in progress
    batch,     \* the records it has scanned
    shown,     \* the message events pushed to the app since the process started
    forgot     \* nodes whose m_seenIds was cleared since the process started

sends == <<seq, stage, published, landed>>
replay == <<joining, batch>>
disk  == <<archive, merged>>
vars  == <<up, life, sends, disk, heals, seen, applying, queue, dropped, replay, shown, forgot>>

Stages == {"none", "minted", "pending", "published", "landed", "completing", "failing", "done"}
States == {"pending", "complete", "error"}

\* Mutant: the counter without the per-process seed.
CounterOnlyId(m) == <<m.author, m.seq>>

\* NextMessageId: prefix, seed (wall clock and a random token), counter.
NextMessageId(m) == <<m.author, m.life, m.seq>>

MessageIds == {NextMessageId(m) : m \in Messages}

\* m_seenIds holds at most kMaxSeenIds and the ids of the process's own sends, which
\* SendMessage enters without the check: more than gcs_messaging.hpp says ("bounded by
\* kMaxSeenIds").
TypeOK ==
    /\ up \subseteq Nodes /\ forgot \subseteq Nodes
    /\ life \in [Nodes -> 0..MaxLives] /\ seq \in [Nodes -> 0..MaxSends]
    /\ stage \in [Messages -> Stages]
    /\ published \subseteq Messages /\ landed \subseteq Messages
    /\ archive \in [Nodes -> SUBSET Messages] /\ merged \in [Nodes -> SUBSET Messages]
    /\ heals \in [Nodes -> SUBSET Messages] /\ applying \in [Nodes -> SUBSET Messages]
    /\ seen \in [Nodes -> SUBSET MessageIds]
    /\ \A n \in Nodes : Cardinality(seen[n]) <= MaxSeen + seq[n]
    /\ queue \in [Nodes -> Seq(Messages)]
    /\ dropped \in [Nodes -> SUBSET Messages]
    /\ joining \subseteq Nodes /\ batch \in [Nodes -> SUBSET Messages]
    /\ shown \in [Nodes -> [Messages -> Seq(States)]]

Nothing == [m \in Messages |-> << >>]
NoMessages == [n \in Nodes |-> {}]

Init ==
    /\ up = {} /\ forgot = {}
    /\ life = [n \in Nodes |-> 0] /\ seq = [n \in Nodes |-> 0]
    /\ stage = [m \in Messages |-> "none"]
    /\ published = {} /\ landed = {}
    /\ archive = NoMessages /\ merged = NoMessages
    /\ heals = NoMessages /\ seen = NoMessages /\ applying = NoMessages
    /\ queue = [n \in Nodes |-> << >>] /\ dropped = NoMessages
    /\ joining = {} /\ batch = NoMessages
    /\ shown = [n \in Nodes |-> Nothing]

-----------------------------------------------------------------------------
(* m_seenIds, the sink and the store.                                      *)

\* g_mutex is free for the sink: no replay holds it.
SinkFree(n) == n \notin joining

\* PushMessage.
Push(n, m, state) == shown' = [shown EXCEPT ![n][m] = Append(@, state)]

\* Mutant: the set is never cleared.
InsertUnbounded(old, m) == old \cup {NextMessageId(m)}

\* The bounded insert: a full set is cleared first.
Insert(old, m) ==
    (IF Cardinality(old) >= MaxSeen THEN {} ELSE old) \cup {NextMessageId(m)}

Remember(n, m) ==
    /\ seen' = [seen EXCEPT ![n] = Insert(@, m)]
    /\ forgot' = IF Cardinality(seen[n]) >= MaxSeen THEN forgot \cup {n} ELSE forgot

\* A Put to the archive key of m, which its id names, and the callback of the job.
\* Bound: a second one of m waits until the callback of the first has begun.
PutLands(n, m) ==
    /\ m \notin heals[n]
    /\ archive' = [archive EXCEPT ![n] =
                      {k \in @ : NextMessageId(k) # NextMessageId(m)} \cup {m}]
    /\ heals' = [heals EXCEPT ![n] = @ \cup {m}]

\* Put is in WaitForJob until the callback has returned.
JobRuns(n, m) == m \in heals[n] \cup applying[n]

-----------------------------------------------------------------------------
(* SendMessage.                                                            *)

\* m is a message of this process.
Sends(n, m) == n \in up /\ m.author = n /\ m.life = life[n] /\ stage[m] # "none"

Sending(n, m, at) == Sends(n, m) /\ stage[m] = at

Advance(m, to) == stage' = [stage EXCEPT ![m] = to]

Sent == {m \in Messages : stage[m] \notin {"none", "minted"}}

\* Mutant: the sender's own id is not entered.
MintUnseen(n) == UNCHANGED seen

\* The id is entered without the bound of the receive paths.
MintSeen(n) ==
    seen' = [seen EXCEPT ![n] =
                @ \cup {NextMessageId([author |-> n, life |-> life[n], seq |-> seq[n]])}]

Mint(n) ==
    /\ n \in up \cap Senders
    /\ Cardinality({m \in Messages : stage[m] # "none"}) < MaxSends
    /\ Cardinality({m \in Messages : Sends(n, m) /\ stage[m] # "done"}) < MaxSending
    /\ Advance([author |-> n, life |-> life[n], seq |-> seq[n]], "minted")
    /\ seq' = [seq EXCEPT ![n] = @ + 1]
    /\ MintSeen(n)
    /\ UNCHANGED <<up, life, published, landed, disk, heals, applying, queue, dropped, replay,
                   shown, forgot>>

PushPending(n, m) ==
    /\ Sending(n, m, "minted") /\ SinkFree(n)
    /\ Push(n, m, "pending") /\ Advance(m, "pending")
    /\ UNCHANGED <<up, life, seq, published, landed, disk, heals, seen, applying, queue,
                   dropped, replay, forgot>>

\* Encryption and the live publish; either may fail.
Publish(n, m) ==
    /\ Sending(n, m, "pending")
    /\ \/ Advance(m, "failing") /\ UNCHANGED published
       \/ Advance(m, "published") /\ published' = published \cup {m}
    /\ UNCHANGED <<up, life, seq, landed, disk, heals, seen, applying, queue, dropped, replay,
                   shown, forgot>>

\* The store executes the archive Put.
SendLands(n, m) ==
    /\ Sending(n, m, "published")
    /\ PutLands(n, m) /\ merged' = [merged EXCEPT ![n] = @ \cup {m}]
    /\ landed' = landed \cup {m}
    /\ Advance(m, "landed")
    /\ UNCHANGED <<up, life, seq, published, seen, applying, queue, dropped, replay, shown, forgot>>

\* Mutant: the send is complete when it is published.
PutForgotten(n, m) == Sending(n, m, "published") /\ Advance(m, "completing")

\* The Put returns: its job is done, or it failed before or after it landed.
PutAnswers(n, m) ==
    \/ Sending(n, m, "landed") /\ ~JobRuns(n, m) /\ Advance(m, "completing")
    \/ (Sending(n, m, "published") \/ Sending(n, m, "landed")) /\ Advance(m, "failing")

PutReturns(n, m) ==
    /\ PutAnswers(n, m)
    /\ UNCHANGED <<up, life, seq, published, landed, disk, heals, seen, applying, queue, dropped,
                   replay, shown, forgot>>

\* Mutant: a failed send returns without its echo.
SilentFailure(n, m) == Sending(n, m, "completing") /\ Push(n, m, "complete")

\* COMPLETE, or the ERROR of the failure path.
TerminalEcho(n, m) ==
    \/ Sending(n, m, "completing") /\ Push(n, m, "complete")
    \/ Sending(n, m, "failing") /\ Push(n, m, "error")

PushTerminal(n, m) ==
    /\ SinkFree(n) /\ TerminalEcho(n, m) /\ Advance(m, "done")
    /\ UNCHANGED <<up, life, seq, published, landed, disk, heals, seen, applying, queue,
                   dropped, replay, forgot>>

-----------------------------------------------------------------------------
(* The receive funnel.                                                     *)

\* ApplyMessage up to the push: an id that is known ends it here.
Applies(n, m) ==
    /\ NextMessageId(m) \notin seen[n]
    /\ Remember(n, m)
    /\ applying' = [applying EXCEPT ![n] = @ \cup {m}]

\* OnLiveMessage, on the strand: a peer's message or an echo of the node's own.
LiveArrives(n, m) ==
    /\ n \in up /\ m \in published \ applying[n]
    /\ Len(shown[n][m]) < MaxPushes
    /\ Applies(n, m)
    /\ UNCHANGED <<up, life, sends, disk, heals, queue, dropped, replay, shown>>

\* A DagWorker executes a peer's write.
Merge(n, m) ==
    /\ n \in up /\ m \in landed \ merged[n]
    /\ PutLands(n, m) /\ merged' = [merged EXCEPT ![n] = @ \cup {m}]
    /\ UNCHANGED <<up, life, sends, seen, applying, queue, dropped, replay, shown, forgot>>

\* OnMessageArrived, the new-element callback of a write.
HealArrives(n, m) ==
    /\ n \in up /\ m \in heals[n] \ applying[n]
    /\ heals' = [heals EXCEPT ![n] = @ \ {m}]
    /\ \/ /\ Len(shown[n][m]) < MaxPushes
          /\ Applies(n, m)
       \/ /\ NextMessageId(m) \in seen[n] \/ Len(shown[n][m]) >= MaxPushes
          /\ UNCHANGED <<seen, applying, forgot>>
    /\ UNCHANGED <<up, life, sends, disk, queue, dropped, replay, shown>>

\* Mutant: a message that is shown is not handed to the archive thread.
NotQueued(n, m) == UNCHANGED queue

EnqueueArchive(n, m) == queue' = [queue EXCEPT ![n] = Append(@, m)]

\* The push and the hand-over to the archive thread.
Apply(n, m) ==
    /\ n \in up /\ m \in applying[n] /\ SinkFree(n)
    /\ applying' = [applying EXCEPT ![n] = @ \ {m}]
    /\ Push(n, m, "complete")
    /\ EnqueueArchive(n, m)
    /\ UNCHANGED <<up, life, sends, disk, heals, seen, dropped, replay, forgot>>

\* The archive thread Puts one record, without topics: no peer hears of it.
ArchiveWorker(n) ==
    /\ n \in up /\ queue[n] # << >>
    /\ queue' = [queue EXCEPT ![n] = Tail(@)]
    /\ \/ PutLands(n, Head(queue[n])) /\ UNCHANGED dropped
       \/ /\ dropped' = [dropped EXCEPT ![n] = @ \cup {Head(queue[n])}]
          /\ UNCHANGED <<archive, heals>>
    /\ UNCHANGED <<up, life, sends, merged, seen, applying, replay, shown, forgot>>

-----------------------------------------------------------------------------
(* A join replays the history of the room, under g_mutex; a failed scan    *)
(* changes nothing.                                                        *)

QueryHistory(n) ==
    /\ n \in (up \cap Joiners) \ joining
    /\ joining' = joining \cup {n} /\ batch' = [batch EXCEPT ![n] = archive[n]]
    /\ UNCHANGED <<up, life, sends, disk, heals, seen, applying, queue, dropped, shown, forgot>>

\* m_seenIds after each of the first i messages of order was entered.
Absorbed(old, order) ==
    LET at[i \in 0..Len(order)] == IF i = 0 THEN old ELSE Insert(at[i - 1], order[i])
    IN  at

\* The ids of the batch are entered, in the order of the records' times, under
\* m_seenMutex; then the batch is posted and g_mutex released.
Absorb(n) ==
    /\ n \in up \cap joining
    /\ \E order \in SetToSeqs(batch[n]) :
          LET at == Absorbed(seen[n], order)
              full(i) == Cardinality(at[i - 1]) >= MaxSeen
          IN  /\ seen' = [seen EXCEPT ![n] = at[Len(order)]]
              /\ forgot' = IF \E i \in DOMAIN order : full(i) THEN forgot \cup {n} ELSE forgot
    /\ joining' = joining \ {n} /\ batch' = [batch EXCEPT ![n] = {}]
    /\ UNCHANGED <<up, life, sends, disk, heals, applying, queue, dropped, shown>>

-----------------------------------------------------------------------------
(* The life of a process.                                                  *)

Start(n) ==
    /\ n \notin up /\ life[n] < MaxLives
    /\ up' = up \cup {n}
    /\ life' = [life EXCEPT ![n] = @ + 1] /\ seq' = [seq EXCEPT ![n] = 0]
    /\ UNCHANGED <<stage, published, landed, disk, heals, seen, applying, queue, dropped, replay,
                   shown, forgot>>

\* Everything but the store is gone, the queued archive writes included.
Crash(n) ==
    /\ n \in up \cap Crashers /\ life[n] < MaxLives
    /\ up' = up \ {n}
    /\ heals' = [heals EXCEPT ![n] = {}] /\ applying' = [applying EXCEPT ![n] = {}]
    /\ seen' = [seen EXCEPT ![n] = {}] /\ forgot' = forgot \ {n}
    /\ queue' = [queue EXCEPT ![n] = << >>] /\ dropped' = [dropped EXCEPT ![n] = {}]
    /\ joining' = joining \ {n} /\ batch' = [batch EXCEPT ![n] = {}]
    /\ shown' = [shown EXCEPT ![n] = Nothing]
    /\ UNCHANGED <<life, sends, disk>>

SendStep(n, m) ==
    PushPending(n, m) \/ Publish(n, m) \/ SendLands(n, m) \/ PutReturns(n, m) \/ PushTerminal(n, m)

ReceiveStep(n, m) == HealArrives(n, m) \/ Apply(n, m)

Next ==
    \E n \in Nodes :
        \/ Mint(n) \/ ArchiveWorker(n) \/ QueryHistory(n) \/ Absorb(n)
        \/ Start(n) \/ Crash(n)
        \/ \E m \in Messages :
              SendStep(n, m) \/ LiveArrives(n, m) \/ Merge(n, m) \/ ReceiveStep(n, m)

Spec == Init /\ [][Next]_vars

\* A thread inside a send, a callback or a replay runs on.  Nothing is assumed
\* of live delivery, of replication, of users and of processes staying up.
Fairness ==
    /\ \A n \in Nodes : WF_vars(Absorb(n))
    /\ \A n \in Nodes, m \in Messages : WF_vars(ReceiveStep(n, m))
    /\ \A m \in Messages : SF_vars(SendStep(m.author, m))

FairSpec == Spec /\ Fairness

-----------------------------------------------------------------------------
(* Properties.                                                             *)

ShownAs(n, m, state) == \E i \in DOMAIN shown[n][m] : shown[n][m][i] = state

QueuedAt(n) == {queue[n][i] : i \in DOMAIN queue[n]}

\* What the user was shown as complete, her own message or a peer's, will be in
\* a later replay of the room: it is archived or about to be, unless this very
\* write failed.
Recoverable ==
    \A n \in Nodes, m \in Messages :
        ShownAs(n, m, "complete") => m \in archive[n] \cup QueuedAt(n) \cup dropped[n]

\* A message whose archive write was executed stays in its author's store,
\* through crashes and the author's next process (CR-01).
DurableHistory == \A m \in landed : m \in archive[m.author]

Log == INSTANCE RoomLog WITH sent <- Sent

\* Every message event the app gets is one the room's log allows: one pending
\* and one terminal echo of a send, one showing of a peer's message, unless
\* m_seenIds was cleared.
ShowsOnce == Log!Spec

\* A send that has shown its pending echo gets its terminal one.
EchoEnds ==
    \A m \in Messages :
        stage[m] = "pending" ~> stage[m] = "done" \/ m.author \notin up \/ m.life # life[m.author]

\* A replay, which replaces what the app shows of the room, has every peer's
\* message this process has already shown.
ReplayIsComplete ==
    \A n \in Nodes, m \in Messages :
        n \in joining /\ m.author # n /\ shown[n][m] # << >> => m \in batch[n]
=============================================================================
