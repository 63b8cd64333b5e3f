--------------------------- MODULE MessagingProofs ---------------------------
(***************************************************************************)
(* Proofs about Messaging for any nodes, bounds and size of m_seenIds: no  *)
(* archived message is lost by its author, and whatever a user was shown   *)
(* as complete is archived, in the archive queue or known to have failed.  *)
(* Neither rests on m_seenIds, so a cleared set cannot break them.  What   *)
(* the apply-once set gives is the second half: its size is bounded, and   *)
(* the message events pushed to the app implement RoomLog.                 *)
(***************************************************************************)
EXTENDS Messaging, FiniteSetTheorems, WellFoundedInduction, TLAPS

USE MessagingAssumption

\* The shapes of the variables the history depends on.
HistoryTypes ==
    /\ stage \in [Messages -> Stages]
    /\ landed \subseteq Messages
    /\ archive \in [Nodes -> SUBSET Messages] /\ dropped \in [Nodes -> SUBSET Messages]
    /\ queue \in [Nodes -> Seq(Messages)]
    /\ shown \in [Nodes -> [Messages -> Seq(States)]]

\* A send whose Put has answered, or has yet to answer, is one whose Put landed.
PutBeforeComplete ==
    \A m \in Messages : stage[m] \in {"landed", "completing"} => m \in landed

HistoryInv == HistoryTypes /\ PutBeforeComplete /\ DurableHistory /\ Recoverable

\* Where a message shown as complete may be found.
Kept(n) == archive[n] \cup QueuedAt(n) \cup dropped[n]

history == <<stage, landed, archive, queue, dropped, shown>>

\* Two messages of one id are the same message.
LEMMA IdsDiffer ==
    ASSUME NEW k \in Messages, NEW m \in Messages, NextMessageId(k) = NextMessageId(m)
    PROVE  k = m
  BY DEF Messages, NextMessageId

\* A Put adds its record and replaces no other.
LEMMA PutAdds ==
    ASSUME HistoryTypes, NEW n \in Nodes, NEW m \in Messages, PutLands(n, m)
    PROVE  /\ archive' \in [Nodes -> SUBSET Messages]
           /\ m \in archive'[n]
           /\ \A k \in Nodes : archive[k] \subseteq archive'[k]
  BY IdsDiffer DEF HistoryTypes, PutLands

\* The queue after its head was taken holds the rest of it.
LEMMA TailKeeps ==
    ASSUME NEW q \in Seq(Messages), q # << >>
    PROVE  /\ Head(q) \in Messages /\ Tail(q) \in Seq(Messages)
           /\ \A i \in DOMAIN q : q[i] = Head(q) \/ \E j \in DOMAIN Tail(q) : Tail(q)[j] = q[i]
<1>1. Head(q) \in Messages /\ Tail(q) \in Seq(Messages) /\ Head(q) = q[1]
  OBVIOUS
<1>2. Len(q) \in Nat /\ DOMAIN q = 1..Len(q) /\ DOMAIN Tail(q) = 1..(Len(q) - 1)
  OBVIOUS
<1>3. ASSUME NEW i \in DOMAIN q, i # 1
      PROVE  i - 1 \in DOMAIN Tail(q) /\ Tail(q)[i - 1] = q[i]
  BY <1>2, <1>3
<1> QED
  BY <1>1, <1>3

\* The queue after an append holds what it held, and the new element.
LEMMA AppendKeeps ==
    ASSUME NEW q \in Seq(Messages), NEW m \in Messages
    PROVE  /\ Append(q, m) \in Seq(Messages)
           /\ \A i \in DOMAIN q : i \in DOMAIN Append(q, m) /\ Append(q, m)[i] = q[i]
           /\ \E i \in DOMAIN Append(q, m) : Append(q, m)[i] = m
<1>1. Len(q) + 1 \in DOMAIN Append(q, m) /\ Append(q, m)[Len(q) + 1] = m
  OBVIOUS
<1> QED
  BY <1>1

\* A push appends one state to what one node shows of one message.
LEMMA PushShows ==
    ASSUME HistoryTypes, NEW n \in Nodes, NEW m \in Messages, NEW state \in States,
           Push(n, m, state)
    PROVE  /\ shown' \in [Nodes -> [Messages -> Seq(States)]]
           /\ \A k \in Nodes, l \in Messages :
                 ShownAs(k, l, "complete")' =>
                     \/ ShownAs(k, l, "complete")
                     \/ k = n /\ l = m /\ state = "complete"
<1>1. /\ shown[n] \in [Messages -> Seq(States)] /\ shown[n][m] \in Seq(States)
      /\ shown' = [shown EXCEPT ![n] = [shown[n] EXCEPT ![m] = Append(shown[n][m], state)]]
  BY DEF HistoryTypes, Push
<1>2. Append(shown[n][m], state) \in Seq(States)
  BY <1>1
<1>3. shown' \in [Nodes -> [Messages -> Seq(States)]]
  BY <1>1, <1>2 DEF HistoryTypes
<1>4. ASSUME NEW k \in Nodes, NEW l \in Messages, ShownAs(k, l, "complete")'
      PROVE  ShownAs(k, l, "complete") \/ (k = n /\ l = m /\ state = "complete")
  <2>1. CASE k # n \/ l # m
    <3>1. shown'[k][l] = shown[k][l]
      BY <1>1, <2>1 DEF HistoryTypes
    <3> QED
      BY <1>4, <3>1 DEF ShownAs
  <2>2. CASE k = n /\ l = m
    <3>1. shown'[k][l] = Append(shown[n][m], state)
      BY <1>1, <2>2 DEF HistoryTypes
    <3>2. PICK i \in DOMAIN Append(shown[n][m], state) :
             Append(shown[n][m], state)[i] = "complete"
      BY <1>4, <3>1 DEF ShownAs
    <3>3. (i \in DOMAIN shown[n][m] /\ shown[n][m][i] = "complete") \/ state = "complete"
      BY <1>1, <3>2
    <3> QED
      BY <2>2, <3>3 DEF ShownAs
  <2> QED
    BY <2>1, <2>2
<1> QED
  BY <1>3, <1>4

\* A step that touches none of the six variables keeps the invariant.
LEMMA StutterKeeps == HistoryInv /\ UNCHANGED history => HistoryInv'
  BY DEF HistoryInv, HistoryTypes, PutBeforeComplete, DurableHistory, Recoverable, ShownAs, QueuedAt,
     history

\* Recoverable survives a step that shows nothing and takes nothing away.
LEMMA KeptGrows ==
    ASSUME HistoryInv, UNCHANGED shown, \A n \in Nodes : Kept(n) \subseteq Kept(n)'
    PROVE  Recoverable'
  BY DEF HistoryInv, Recoverable, ShownAs, Kept

\* The steps of a send before and after its Put, which change only its stage, but
\* never to one of a landed message.
LEMMA AdvanceKeeps ==
    ASSUME HistoryInv, NEW m, NEW to \in Stages, Advance(m, to), to \notin {"landed", "completing"},
           UNCHANGED <<landed, archive, queue, dropped, shown>>
    PROVE  HistoryInv'
<1>1. HistoryTypes' /\ PutBeforeComplete'
  BY DEF HistoryInv, HistoryTypes, PutBeforeComplete, Advance
<1>2. DurableHistory' /\ Recoverable'
  BY DEF HistoryInv, DurableHistory, Recoverable, ShownAs, QueuedAt
<1> QED
  BY <1>1, <1>2 DEF HistoryInv

\* The id of a new message.
LEMMA MintKeeps ==
    ASSUME HistoryInv, NEW n \in Nodes, Mint(n)
    PROVE  HistoryInv'
<1>1. PICK m : Advance(m, "minted")
  BY DEF Mint
<1> QED
  BY <1>1, AdvanceKeeps DEF Mint, disk, replay, Stages

\* The pending echo: shown, but not as complete.
LEMMA PushPendingKeeps ==
    ASSUME HistoryInv, NEW n \in Nodes, NEW m \in Messages, PushPending(n, m)
    PROVE  HistoryInv'
<1>1. /\ shown' \in [Nodes -> [Messages -> Seq(States)]]
      /\ \A k \in Nodes, l \in Messages :
            ShownAs(k, l, "complete")' => ShownAs(k, l, "complete")
  BY PushShows DEF HistoryInv, PushPending, States
<1>2. HistoryTypes' /\ PutBeforeComplete'
  BY <1>1 DEF HistoryInv, HistoryTypes, PutBeforeComplete, PushPending, Advance, Stages, disk
<1>3. DurableHistory' /\ Recoverable'
  BY <1>1 DEF HistoryInv, DurableHistory, Recoverable, QueuedAt, PushPending, disk
<1> QED
  BY <1>2, <1>3 DEF HistoryInv

\* Encryption and the publish.
LEMMA PublishKeeps ==
    ASSUME HistoryInv, NEW n \in Nodes, NEW m \in Messages, Publish(n, m)
    PROVE  HistoryInv'
<1>1. Advance(m, "failing") \/ Advance(m, "published")
  BY DEF Publish
<1> QED
  BY <1>1, AdvanceKeeps DEF Publish, disk, replay, Stages

\* The archive Put of the sender.
LEMMA SendLandsKeeps ==
    ASSUME HistoryInv, NEW n \in Nodes, NEW m \in Messages, SendLands(n, m)
    PROVE  HistoryInv'
<1>1. /\ archive' \in [Nodes -> SUBSET Messages] /\ m \in archive'[n]
      /\ \A k \in Nodes : archive[k] \subseteq archive'[k]
  BY PutAdds DEF HistoryInv, SendLands
<1>2. m.author = n /\ landed' = landed \cup {m} /\ UNCHANGED <<queue, dropped, shown>>
  BY DEF SendLands, Sending, Sends
<1>3. HistoryTypes' /\ PutBeforeComplete'
  BY <1>1, <1>2 DEF HistoryInv, HistoryTypes, PutBeforeComplete, SendLands, Advance, Stages
<1>4. DurableHistory'
  <2>1. \A l \in Messages : l.author \in Nodes
    BY DEF Messages
  <2> QED
    BY <1>1, <1>2, <2>1 DEF HistoryInv, HistoryTypes, DurableHistory
<1>5. Recoverable'
  BY <1>1, <1>2, KeptGrows DEF Kept, QueuedAt
<1> QED
  BY <1>3, <1>4, <1>5 DEF HistoryInv

\* The answer of the Put: it succeeds only after it landed.
LEMMA PutReturnsKeeps ==
    ASSUME HistoryInv, NEW n \in Nodes, NEW m \in Messages, PutReturns(n, m)
    PROVE  HistoryInv'
<1>1. UNCHANGED <<landed, archive, queue, dropped, shown>>
  BY DEF PutReturns, disk
<1>2. CASE Advance(m, "failing")
  BY <1>1, <1>2, AdvanceKeeps DEF Stages
<1>3. CASE stage[m] = "landed" /\ Advance(m, "completing")
  <2>1. m \in landed
    BY <1>3 DEF HistoryInv, PutBeforeComplete
  <2>2. HistoryTypes' /\ PutBeforeComplete'
    BY <1>1, <1>3, <2>1 DEF HistoryInv, HistoryTypes, PutBeforeComplete, Advance, Stages
  <2>3. DurableHistory' /\ Recoverable'
    BY <1>1 DEF HistoryInv, DurableHistory, Recoverable, ShownAs, QueuedAt
  <2> QED
    BY <2>2, <2>3 DEF HistoryInv
<1> QED
  BY <1>2, <1>3 DEF PutReturns, PutAnswers, Sending

\* The terminal echo: a complete message is one whose Put landed, in this store.
LEMMA PushTerminalKeeps ==
    ASSUME HistoryInv, NEW n \in Nodes, NEW m \in Messages, PushTerminal(n, m)
    PROVE  HistoryInv'
<1>1. PICK state \in {"complete", "error"} :
         Push(n, m, state) /\ (state = "complete" => stage[m] = "completing" /\ m.author = n)
  BY DEF PushTerminal, TerminalEcho, Sending, Sends
<1>2. state \in States
  BY DEF States
<1>3. /\ shown' \in [Nodes -> [Messages -> Seq(States)]]
      /\ \A k \in Nodes, l \in Messages :
            ShownAs(k, l, "complete")' =>
                ShownAs(k, l, "complete") \/ (k = n /\ l = m /\ state = "complete")
  BY <1>1, <1>2, PushShows DEF HistoryInv
<1>4. state = "complete" => m \in archive[n]
  BY <1>1 DEF HistoryInv, PutBeforeComplete, DurableHistory
<1>5. UNCHANGED <<landed, archive, queue, dropped>> /\ Advance(m, "done")
  BY DEF PushTerminal, disk
<1>6. HistoryTypes' /\ PutBeforeComplete'
  BY <1>3, <1>5 DEF HistoryInv, HistoryTypes, PutBeforeComplete, Advance, Stages
<1>7. DurableHistory' /\ Recoverable'
  BY <1>3, <1>4, <1>5 DEF HistoryInv, DurableHistory, Recoverable, QueuedAt
<1> QED
  BY <1>6, <1>7 DEF HistoryInv

\* The write of a peer is executed.
LEMMA MergeKeeps ==
    ASSUME HistoryInv, NEW n \in Nodes, NEW m \in Messages, Merge(n, m)
    PROVE  HistoryInv'
<1>1. /\ archive' \in [Nodes -> SUBSET Messages]
      /\ \A k \in Nodes : archive[k] \subseteq archive'[k]
  BY PutAdds DEF HistoryInv, Merge
<1>2. UNCHANGED <<stage, landed, queue, dropped, shown>>
  BY DEF Merge, sends
<1>3. \A l \in Messages : l.author \in Nodes
  BY DEF Messages
<1>4. HistoryTypes' /\ PutBeforeComplete' /\ DurableHistory'
  BY <1>1, <1>2, <1>3 DEF HistoryInv, HistoryTypes, PutBeforeComplete, DurableHistory
<1>5. Recoverable'
  BY <1>1, <1>2, KeptGrows DEF Kept, QueuedAt
<1> QED
  BY <1>4, <1>5 DEF HistoryInv

\* A received message is shown and queued for the archive in one step.
LEMMA ApplyKeeps ==
    ASSUME HistoryInv, NEW n \in Nodes, NEW m \in Messages, Apply(n, m)
    PROVE  HistoryInv'
<1>1. /\ shown' \in [Nodes -> [Messages -> Seq(States)]]
      /\ \A k \in Nodes, l \in Messages :
            ShownAs(k, l, "complete")' => ShownAs(k, l, "complete") \/ (k = n /\ l = m)
  <2>1. "complete" \in States /\ Push(n, m, "complete")
    BY DEF States, Apply
  <2> QED
    BY <2>1, PushShows DEF HistoryInv
<1>2. UNCHANGED <<stage, landed, archive, dropped>>
  BY DEF Apply, sends, disk
<1>3. queue' = [queue EXCEPT ![n] = Append(queue[n], m)] /\ queue[n] \in Seq(Messages)
  BY DEF Apply, EnqueueArchive, HistoryInv, HistoryTypes
<1>4. /\ Append(queue[n], m) \in Seq(Messages)
      /\ \A i \in DOMAIN queue[n] :
            i \in DOMAIN Append(queue[n], m) /\ Append(queue[n], m)[i] = queue[n][i]
      /\ \E i \in DOMAIN Append(queue[n], m) : Append(queue[n], m)[i] = m
  BY <1>3, AppendKeeps
<1>5. m \in QueuedAt(n)' /\ \A k \in Nodes : QueuedAt(k) \subseteq QueuedAt(k)'
  <2>1. queue'[n] = Append(queue[n], m) /\ \A k \in Nodes \ {n} : queue'[k] = queue[k]
    BY <1>3 DEF HistoryInv, HistoryTypes
  <2> QED
    BY <1>4, <2>1 DEF QueuedAt
<1>6. HistoryTypes' /\ PutBeforeComplete' /\ DurableHistory'
  BY <1>1, <1>2, <1>3, <1>4 DEF HistoryInv, HistoryTypes, PutBeforeComplete, DurableHistory
<1>7. Recoverable'
  BY <1>1, <1>2, <1>5 DEF HistoryInv, Recoverable
<1> QED
  BY <1>6, <1>7 DEF HistoryInv

\* The archive thread: the record it takes off is stored or known to have failed.
LEMMA ArchiveWorkerKeeps ==
    ASSUME HistoryInv, NEW n \in Nodes, ArchiveWorker(n)
    PROVE  HistoryInv'
<1> DEFINE m == Head(queue[n])
<1>1. queue[n] \in Seq(Messages) /\ queue[n] # << >> /\ queue' = [queue EXCEPT ![n] = Tail(queue[n])]
  BY DEF ArchiveWorker, HistoryInv, HistoryTypes
<1>2. /\ m \in Messages /\ Tail(queue[n]) \in Seq(Messages)
      /\ \A i \in DOMAIN queue[n] :
            queue[n][i] = m \/ \E j \in DOMAIN Tail(queue[n]) : Tail(queue[n])[j] = queue[n][i]
  BY <1>1, TailKeeps
<1>3. \A k \in Nodes : QueuedAt(k) \subseteq QueuedAt(k)' \cup (IF k = n THEN {m} ELSE {})
  <2>1. queue'[n] = Tail(queue[n]) /\ \A k \in Nodes \ {n} : queue'[k] = queue[k]
    BY <1>1 DEF HistoryInv, HistoryTypes
  <2>2. ASSUME NEW l \in QueuedAt(n) PROVE l \in QueuedAt(n)' \cup {m}
    <3>1. PICK i \in DOMAIN queue[n] : l = queue[n][i]
      BY DEF QueuedAt
    <3>2. l = m \/ \E j \in DOMAIN queue'[n] : queue'[n][j] = l
      BY <1>2, <2>1, <3>1
    <3> QED
      BY <3>2 DEF QueuedAt
  <2>3. ASSUME NEW k \in Nodes \ {n} PROVE QueuedAt(k) \subseteq QueuedAt(k)'
    BY <2>1 DEF QueuedAt
  <2> QED
    BY <2>2, <2>3
<1>4. UNCHANGED <<stage, landed, shown>>
  BY DEF ArchiveWorker, sends
<1>5. /\ archive' \in [Nodes -> SUBSET Messages] /\ dropped' \in [Nodes -> SUBSET Messages]
      /\ \A k \in Nodes : archive[k] \subseteq archive'[k] /\ dropped[k] \subseteq dropped'[k]
      /\ m \in archive'[n] \cup dropped'[n]
  <2>1. CASE PutLands(n, m) /\ UNCHANGED dropped
    BY <1>2, <2>1, PutAdds DEF HistoryInv, HistoryTypes
  <2>2. CASE dropped' = [dropped EXCEPT ![n] = @ \cup {m}] /\ UNCHANGED archive
    BY <1>2, <2>2 DEF HistoryInv, HistoryTypes
  <2> QED
    BY <2>1, <2>2 DEF ArchiveWorker
<1>6. \A l \in Messages : l.author \in Nodes
  BY DEF Messages
<1>7. HistoryTypes' /\ PutBeforeComplete' /\ DurableHistory'
  BY <1>1, <1>2, <1>4, <1>5, <1>6 DEF HistoryInv, HistoryTypes, PutBeforeComplete, DurableHistory
<1>8. Recoverable'
  <2>1. \A k \in Nodes : Kept(k) \subseteq Kept(k)'
    BY <1>3, <1>5 DEF Kept
  <2> QED
    BY <1>4, <2>1, KeptGrows
<1> QED
  BY <1>7, <1>8 DEF HistoryInv

\* A crash empties the queue, and with it the window it had to account for.
LEMMA CrashKeeps ==
    ASSUME HistoryInv, NEW n \in Nodes, Crash(n)
    PROVE  HistoryInv'
<1>1. /\ queue' = [queue EXCEPT ![n] = << >>] /\ dropped' = [dropped EXCEPT ![n] = {}]
      /\ shown' = [shown EXCEPT ![n] = Nothing] /\ UNCHANGED <<stage, landed, archive>>
  BY DEF Crash, sends, disk
<1>2. Nothing \in [Messages -> Seq(States)] /\ << >> \in Seq(Messages)
  BY DEF Nothing
<1>3. HistoryTypes' /\ PutBeforeComplete' /\ DurableHistory'
  BY <1>1, <1>2 DEF HistoryInv, HistoryTypes, PutBeforeComplete, DurableHistory
<1>4. ASSUME NEW k \in Nodes, NEW l \in Messages, ShownAs(k, l, "complete")'
      PROVE  l \in Kept(k)'
  <2>1. k # n
    BY <1>1, <1>4 DEF HistoryInv, HistoryTypes, ShownAs, Nothing
  <2>2. shown'[k] = shown[k] /\ queue'[k] = queue[k] /\ dropped'[k] = dropped[k]
    BY <1>1, <2>1 DEF HistoryInv, HistoryTypes
  <2> QED
    BY <1>1, <1>4, <2>2 DEF HistoryInv, Recoverable, ShownAs, Kept, QueuedAt
<1> QED
  BY <1>3, <1>4 DEF HistoryInv, Recoverable, Kept

\* Every step keeps the invariant.
LEMMA NextKeeps == HistoryInv /\ [Next]_vars => HistoryInv'
<1> SUFFICES ASSUME HistoryInv, [Next]_vars PROVE HistoryInv'
  OBVIOUS
<1>1. CASE UNCHANGED vars
  BY <1>1, StutterKeeps DEF vars, history, sends, disk
<1>2. ASSUME NEW n \in Nodes,
             QueryHistory(n) \/ Absorb(n) \/ Start(n)
      PROVE  HistoryInv'
  BY <1>2, StutterKeeps DEF QueryHistory, Absorb, Start, history, sends, disk
<1>3. ASSUME NEW n \in Nodes, NEW m \in Messages, LiveArrives(n, m) \/ HealArrives(n, m)
      PROVE  HistoryInv'
  BY <1>3, StutterKeeps DEF LiveArrives, HealArrives, history, sends, disk
<1>4. ASSUME NEW n \in Nodes, Mint(n) \/ ArchiveWorker(n) \/ Crash(n)
      PROVE  HistoryInv'
  BY <1>4, MintKeeps, ArchiveWorkerKeeps, CrashKeeps
<1>5. ASSUME NEW n \in Nodes, NEW m \in Messages, SendStep(n, m)
      PROVE  HistoryInv'
  BY <1>5, PushPendingKeeps, PublishKeeps, SendLandsKeeps, PutReturnsKeeps, PushTerminalKeeps
     DEF SendStep
<1>6. ASSUME NEW n \in Nodes, NEW m \in Messages, Merge(n, m) \/ Apply(n, m)
      PROVE  HistoryInv'
  BY <1>6, MergeKeeps, ApplyKeeps
<1> QED
  BY <1>1, <1>2, <1>3, <1>4, <1>5, <1>6 DEF Next, ReceiveStep

\* The first state has no message anywhere.
LEMMA InitKeeps == Init => HistoryInv
  BY DEF Init, HistoryInv, HistoryTypes, PutBeforeComplete, DurableHistory, Recoverable, ShownAs,
     Nothing, NoMessages, Stages

\* The invariant holds throughout.
THEOREM HistoryInvariant == Spec => []HistoryInv
  BY InitKeeps, NextKeeps, PTL DEF Spec

\* A message whose archive write was executed is never lost by its author's store,
\* whatever crashes, restarts and other sends there are: message ids are never reused.
THEOREM HistoryIsDurable == Spec => []DurableHistory
  BY HistoryInvariant, PTL DEF HistoryInv

\* Whatever SendMessage or ApplyMessage showed as complete is archived, queued for the
\* archive, or one whose archive write failed; no clearing of m_seenIds breaks it.
THEOREM ShownIsRecoverable == Spec => []Recoverable
  BY HistoryInvariant, PTL DEF HistoryInv

-----------------------------------------------------------------------------
(* What the apply-once set is for.                                         *)

\* The messages that were given an id.
Minted == {m \in Messages : stage[m] # "none"}

\* Ids are counted up within a process, and a process in progress has its own seed.
CounterInv ==
    /\ IsFiniteSet(Minted) /\ Cardinality(Minted) <= MaxSends
    /\ \A n \in Nodes : seq[n] <= Cardinality(Minted)
    /\ \A n \in up : life[n] > 0
    /\ \A m \in Minted :
          m.life < life[m.author] \/ (m.life = life[m.author] /\ m.seq < seq[m.author])

\* Whatever a node holds of a message, its author had shown it as pending before.
SourceInv ==
    /\ published \cup landed \subseteq Sent
    /\ \A n \in Nodes :
          archive[n] \cup heals[n] \cup applying[n] \cup batch[n] \cup QueuedAt(n) \subseteq Sent
    /\ \A n \in Nodes, m \in Messages : shown[n][m] # << >> => m \in Sent

\* m_seenIds is the process's own.
SeenInv == \A n \in Nodes : IsFiniteSet(seen[n]) /\ (n \notin up => seen[n] = {})

\* A node that has forgotten nothing knows every message it shows, is about to show
\* or sends.
KnownInv ==
    \A n \in Nodes \ forgot, m \in Messages :
        shown[n][m] # << >> \/ m \in applying[n] \/ Sends(n, m) => NextMessageId(m) \in seen[n]

\* What it is about to show it has not shown yet, and does not send.
ApplyInv ==
    \A n \in Nodes \ forgot, m \in Messages :
        m \in applying[n] => shown[n][m] = << >> /\ ~Sends(n, m)

\* A send in progress shows its pending echo, and nothing else.
EchoInv ==
    \A n \in Nodes \ forgot, m \in Messages :
        Sends(n, m) /\ stage[m] \notin {"minted", "done"} => shown[n][m] = <<"pending">>

IInv ==
    /\ TypeOK /\ CounterInv /\ SourceInv /\ SeenInv
    /\ KnownInv /\ ApplyInv /\ EchoInv

-----------------------------------------------------------------------------
(* The bounded insert, and the replay's loop of inserts.                   *)

\* One insert keeps the set within its bound, enters the id, and forgets nothing
\* unless the set was full.
LEMMA InsertBounds ==
    ASSUME NEW old \in SUBSET MessageIds, IsFiniteSet(old), NEW m \in Messages
    PROVE  /\ Insert(old, m) \in SUBSET MessageIds /\ IsFiniteSet(Insert(old, m))
           /\ Cardinality(Insert(old, m)) <= MaxSeen
           /\ NextMessageId(m) \in Insert(old, m)
           /\ Cardinality(old) < MaxSeen => old \subseteq Insert(old, m)
<1> DEFINE kept == IF Cardinality(old) >= MaxSeen THEN {} ELSE old
<1>1. NextMessageId(m) \in MessageIds
  BY DEF MessageIds
<1>2. Cardinality(old) \in Nat
  BY FS_CardinalityType
<1>3. IsFiniteSet(kept) /\ Cardinality(kept) \in Nat /\ Cardinality(kept) < MaxSeen
  BY <1>2, FS_EmptySet
<1>4. /\ IsFiniteSet(kept \cup {NextMessageId(m)})
      /\ \/ Cardinality(kept \cup {NextMessageId(m)}) = Cardinality(kept)
         \/ Cardinality(kept \cup {NextMessageId(m)}) = Cardinality(kept) + 1
  BY <1>3, FS_AddElement
<1>5. Insert(old, m) = kept \cup {NextMessageId(m)}
  BY DEF Insert
<1> QED
  BY <1>1, <1>2, <1>3, <1>4, <1>5

\* Induction over the natural numbers, stated of a set.
LEMMA SetInduction ==
    ASSUME NEW S, 0 \in S, \A k \in Nat : k \in S => k + 1 \in S
    PROVE  Nat \subseteq S
<1> DEFINE R == {p \in Nat \X Nat : p[1] < p[2]}
           Bad == Nat \ S
<1>1. SUFFICES ASSUME Bad # {} PROVE FALSE
  OBVIOUS
<1>2. IsWellFoundedOn(R, Nat)
  BY NatLessThanWellFounded DEF OpToRel
<1>3. PICK x \in Bad : \A y \in Bad : <<y, x>> \notin R
  <2>1. Bad \subseteq Nat
    OBVIOUS
  <2> HIDE DEF R, Bad
  <2> QED
    BY <1>1, <1>2, <2>1, WFMin
<1>4. x \in Nat /\ x # 0 /\ x \notin S
  BY <1>3
<1>5. x - 1 \in Nat /\ <<x - 1, x>> \in R
  BY <1>4
<1>6. x - 1 \in S
  BY <1>3, <1>5
<1>7. (x - 1) + 1 \in S
  BY <1>5, <1>6
<1> QED
  BY <1>4, <1>7

\* What at is after the inserts of the first k messages of an order.
Inserts(at, old, order, k) ==
    at = [i \in 0..k |-> IF i = 0 THEN old ELSE Insert(at[i - 1], order[i])]

\* The loop's sets are defined, for every number of messages.
LEMMA InsertsExist ==
    ASSUME NEW old, NEW order, NEW len \in Nat
    PROVE  \E at : Inserts(at, old, order, len)
<1> DEFINE S == {k \in Nat : \E at : Inserts(at, old, order, k)}
<1>1. 0 \in S
  <2>1. Inserts([i \in 0..0 |-> old], old, order, 0)
    BY DEF Inserts
  <2> QED
    BY <2>1
<1>2. ASSUME NEW k \in Nat, k \in S PROVE k + 1 \in S
  <2>1. PICK g : g = [i \in 0..k |-> IF i = 0 THEN old ELSE Insert(g[i - 1], order[i])]
    BY <1>2 DEF Inserts
  <2> DEFINE h == [i \in 0..k + 1 |-> IF i = k + 1 THEN Insert(g[k], order[i]) ELSE g[i]]
  <2>2. ASSUME NEW i \in 0..k + 1
        PROVE  h[i] = IF i = 0 THEN old ELSE Insert(h[i - 1], order[i])
    <3>1. CASE i = k + 1
      BY <3>1
    <3>2. CASE i # k + 1
      <4>1. i \in 0..k /\ (i # 0 => i - 1 \in 0..k)
        BY <3>2
      <4>2. g[i] = IF i = 0 THEN old ELSE Insert(g[i - 1], order[i])
        BY <2>1, <4>1
      <4> QED
        BY <3>2, <4>1, <4>2
    <3> QED
      BY <3>1, <3>2
  <2>3. Inserts(h, old, order, k + 1)
    BY <2>2 DEF Inserts
  <2> QED
    BY <2>3
<1>3. Nat \subseteq S
  <2> HIDE DEF S
  <2> QED
    BY <1>1, <1>2, SetInduction
<1> QED
  BY <1>3

\* The sets of the loop, one from the other.
LEMMA AbsorbedDef ==
    ASSUME NEW old, NEW order, Len(order) \in Nat, NEW at, at = Absorbed(old, order)
    PROVE  Inserts(at, old, order, Len(order))
<1>1. \E g : Inserts(g, old, order, Len(order))
  <2>1. PICK len \in Nat : len = Len(order)
    OBVIOUS
  <2> QED
    BY <2>1, InsertsExist
<1>2. at = CHOOSE g : Inserts(g, old, order, Len(order))
  BY DEF Absorbed, Inserts
<1> QED
  BY <1>1, <1>2, Zenon

\* A replay keeps m_seenIds within its bound, and forgets nothing unless one of its
\* inserts found the set full.
LEMMA AbsorbedBounds ==
    ASSUME NEW old \in SUBSET MessageIds, IsFiniteSet(old), NEW order \in Seq(Messages),
           NEW bound \in Nat, MaxSeen <= bound, Cardinality(old) <= bound,
           NEW at, at = Absorbed(old, order)
    PROVE  /\ at[Len(order)] \in SUBSET MessageIds /\ IsFiniteSet(at[Len(order)])
           /\ Cardinality(at[Len(order)]) <= bound
           /\ (\A i \in DOMAIN order : ~ Cardinality(at[i - 1]) >= MaxSeen) =>
                 old \subseteq at[Len(order)]
<1> DEFINE len == Len(order)
           Fits(i) == /\ at[i] \in SUBSET MessageIds /\ IsFiniteSet(at[i])
                      /\ Cardinality(at[i]) <= bound
           Keeps(i) == (\A j \in 1..i : ~ Cardinality(at[j - 1]) >= MaxSeen) => old \subseteq at[i]
           S == {i \in Nat : i <= len => Fits(i) /\ Keeps(i)}
<1>1. len \in Nat /\ DOMAIN order = 1..len
  OBVIOUS
<1>2. at = [i \in 0..len |-> IF i = 0 THEN old ELSE Insert(at[i - 1], order[i])]
  BY <1>1, AbsorbedDef DEF Inserts
<1>3. 0 \in S
  <2>1. at[0] = old
    BY <1>1, <1>2
  <2> QED
    BY <2>1
<1>4. ASSUME NEW k \in Nat, k \in S PROVE k + 1 \in S
  <2>1. SUFFICES ASSUME k + 1 <= len PROVE Fits(k + 1) /\ Keeps(k + 1)
    OBVIOUS
  <2>2. Fits(k) /\ Keeps(k)
    BY <1>1, <1>4, <2>1
  <2>3. k + 1 \in 0..len /\ k + 1 # 0 /\ (k + 1) - 1 = k /\ order[k + 1] \in Messages
    BY <1>1, <2>1
  <2>4. at[k + 1] = Insert(at[k], order[k + 1])
    BY <1>2, <2>3
  <2>5. /\ at[k + 1] \in SUBSET MessageIds /\ IsFiniteSet(at[k + 1])
        /\ Cardinality(at[k + 1]) <= MaxSeen
        /\ Cardinality(at[k]) < MaxSeen => at[k] \subseteq at[k + 1]
    BY <2>2, <2>3, <2>4, InsertBounds
  <2>6. Cardinality(at[k]) \in Nat /\ Cardinality(at[k + 1]) \in Nat
    BY <2>2, <2>5, FS_CardinalityType
  <2>7. Fits(k + 1)
    BY <2>5, <2>6
  <2>8. Keeps(k + 1)
    <3>1. SUFFICES ASSUME \A j \in 1..k + 1 : ~ Cardinality(at[j - 1]) >= MaxSeen
                   PROVE  old \subseteq at[k + 1]
      OBVIOUS
    <3>2. k + 1 \in 1..k + 1 /\ 1..k \subseteq 1..k + 1
      OBVIOUS
    <3>3. ~ Cardinality(at[k]) >= MaxSeen
      BY <2>3, <3>1, <3>2
    <3>4. old \subseteq at[k]
      BY <2>2, <3>1, <3>2
    <3> QED
      BY <2>5, <2>6, <3>3, <3>4
  <2> QED
    BY <2>7, <2>8
<1>5. Nat \subseteq S
  <2> HIDE DEF S
  <2> QED
    BY <1>3, <1>4, SetInduction
<1>6. Fits(len) /\ Keeps(len)
  <2>1. len \in S
    BY <1>1, <1>5
  <2>2. \A i \in S : i <= len => Fits(i) /\ Keeps(i)
    <3> HIDE DEF Fits, Keeps
    <3> QED
      OBVIOUS
  <2> HIDE DEF S
  <2>3. len <= len
    BY <1>1
  <2> QED
    BY <2>1, <2>2, <2>3
<1> QED
  BY <1>1, <1>6

\* An order of a replayed batch is a sequence of messages.
LEMMA OrderIsSeq ==
    ASSUME NEW S \in SUBSET Messages, IsFiniteSet(S), NEW order \in SetToSeqs(S)
    PROVE  order \in Seq(Messages)
<1>1. Cardinality(S) \in Nat /\ order \in [1..Cardinality(S) -> S]
  BY FS_CardinalityType DEF SetToSeqs
<1> QED
  BY <1>1

-----------------------------------------------------------------------------
(* The steps of a send.                                                    *)

\* A message in progress that goes on is still minted, and Sends is as it was.
LEMMA AdvanceMinted ==
    ASSUME TypeOK, NEW m \in Messages, stage[m] # "none", NEW to \in Stages, to # "none",
           Advance(m, to), UNCHANGED <<up, life>>
    PROVE  /\ stage' \in [Messages -> Stages] /\ Minted' = Minted
           /\ \A l \in Messages : l # m => stage'[l] = stage[l]
           /\ stage'[m] = to
           /\ \A k \in Nodes, l \in Messages : Sends(k, l)' <=> Sends(k, l)
  BY DEF TypeOK, Advance, Minted, Sends

\* A new id: of a message that is new, and within the bounds.
LEMMA MintFresh ==
    ASSUME IInv, NEW n \in Nodes, Mint(n)
    PROVE  \E m \in Messages :
              /\ m = [author |-> n, life |-> life[n], seq |-> seq[n]] /\ stage[m] = "none"
              /\ seq[n] + 1 \in 0..MaxSends
              /\ IsFiniteSet(Minted') /\ Cardinality(Minted') = Cardinality(Minted) + 1
              /\ Minted' = Minted \cup {m} /\ Cardinality(Minted) + 1 <= MaxSends
              /\ stage' = [stage EXCEPT ![m] = "minted"]
<1>0. PICK m : m = [author |-> n, life |-> life[n], seq |-> seq[n]]
  OBVIOUS
<1>1. n \in up \cap Senders /\ Cardinality(Minted) < MaxSends
  BY DEF Mint, Minted
<1>2. Cardinality(Minted) \in Nat /\ IsFiniteSet(Minted)
  BY FS_CardinalityType DEF IInv, CounterInv
<1>3. seq[n] \in Nat /\ seq[n] <= MaxSends - 1 /\ life[n] \in 1..MaxLives
  BY <1>1, <1>2 DEF IInv, TypeOK, CounterInv
<1>4. m \in Messages
  BY <1>0, <1>1, <1>3 DEF Messages
<1>5. m \notin Minted
  BY <1>0, <1>3 DEF IInv, CounterInv
<1>6. stage' = [stage EXCEPT ![m] = "minted"]
  BY <1>0 DEF Mint, Advance
<1>7. Minted' = Minted \cup {m}
  BY <1>4, <1>6 DEF IInv, TypeOK, Minted
<1>8. /\ IsFiniteSet(Minted \cup {m})
      /\ Cardinality(Minted \cup {m}) = Cardinality(Minted) + 1
  BY <1>2, <1>5, FS_AddElement
<1>9. stage[m] = "none"
  BY <1>4, <1>5 DEF Minted
<1>10. seq[n] + 1 \in 0..MaxSends /\ Cardinality(Minted) + 1 <= MaxSends
  BY <1>1, <1>2, <1>3
<1> QED
  BY <1>0, <1>2, <1>4, <1>6, <1>7, <1>8, <1>9, <1>10

\* SendMessage mints an id that is new and enters it, unbounded, into the sender's set.
LEMMA MintSafe ==
    ASSUME IInv, NEW n \in Nodes, Mint(n)
    PROVE  IInv'
<1>1. PICK m \in Messages :
      /\ m = [author |-> n, life |-> life[n], seq |-> seq[n]] /\ stage[m] = "none"
      /\ seq[n] + 1 \in 0..MaxSends
      /\ IsFiniteSet(Minted') /\ Cardinality(Minted') = Cardinality(Minted) + 1
      /\ Minted' = Minted \cup {m} /\ Cardinality(Minted) + 1 <= MaxSends
      /\ stage' = [stage EXCEPT ![m] = "minted"]
  BY MintFresh
<1>2. /\ seq' = [seq EXCEPT ![n] = @ + 1]
      /\ seen' = [seen EXCEPT ![n] = @ \cup {NextMessageId(m)}]
      /\ n \in up
      /\ UNCHANGED <<up, life, published, landed, archive, merged, heals, applying, queue, dropped,
                     joining, batch, shown, forgot>>
  BY <1>1 DEF Mint, MintSeen, disk, replay
<1>3. /\ IsFiniteSet(seen'[n]) /\ Cardinality(seen'[n]) <= MaxSeen + seq'[n]
      /\ seen'[n] = seen[n] \cup {NextMessageId(m)}
  <2>1. seen'[n] = seen[n] \cup {NextMessageId(m)} /\ seq'[n] = seq[n] + 1
    BY <1>2 DEF IInv, TypeOK
  <2>2. IsFiniteSet(seen[n]) /\ Cardinality(seen[n]) \in Nat /\ Cardinality(seen[n]) <= MaxSeen + seq[n]
    BY FS_CardinalityType DEF IInv, SeenInv, TypeOK
  <2>3. /\ IsFiniteSet(seen[n] \cup {NextMessageId(m)})
        /\ \/ Cardinality(seen[n] \cup {NextMessageId(m)}) = Cardinality(seen[n])
           \/ Cardinality(seen[n] \cup {NextMessageId(m)}) = Cardinality(seen[n]) + 1
    BY <2>2, FS_AddElement
  <2>4. seq[n] \in Nat
    BY DEF IInv, TypeOK
  <2> QED
    BY <2>1, <2>2, <2>3, <2>4
<1>4. TypeOK'
  <2>1. NextMessageId(m) \in MessageIds
    BY <1>1 DEF MessageIds
  <2>2. seen' \in [Nodes -> SUBSET MessageIds] /\ seq' \in [Nodes -> 0..MaxSends]
    BY <1>1, <1>2, <2>1 DEF IInv, TypeOK
  <2>3. \A k \in Nodes : Cardinality(seen'[k]) <= MaxSeen + seq'[k]
    BY <1>2, <1>3 DEF IInv, TypeOK
  <2>4. stage' \in [Messages -> Stages]
    BY <1>1 DEF IInv, TypeOK, Stages
  <2> QED
    BY <1>2, <2>2, <2>3, <2>4 DEF IInv, TypeOK
<1>5. CounterInv'
  <2>1. Cardinality(Minted) \in Nat
    BY FS_CardinalityType DEF IInv, CounterInv
  <2>2. \A k \in Nodes : seq'[k] <= Cardinality(Minted')
    <3>1. ASSUME NEW k \in Nodes
          PROVE  seq[k] \in Nat /\ seq'[k] = IF k = n THEN seq[k] + 1 ELSE seq[k]
      BY <1>2 DEF IInv, TypeOK
    <3>2. ASSUME NEW k \in Nodes PROVE seq[k] <= Cardinality(Minted)
      BY DEF IInv, CounterInv
    <3> QED
      BY <1>1, <2>1, <3>1, <3>2
  <2>3. m.author = n /\ m.life = life[n] /\ m.seq = seq[n]
    BY <1>1
  <2>4. ASSUME NEW l \in Minted'
        PROVE  l.life < life'[l.author] \/ (l.life = life'[l.author] /\ l.seq < seq'[l.author])
    <3>1. l.author \in Nodes /\ l.seq \in Nat /\ seq[n] \in Nat
      BY DEF Minted, Messages, IInv, TypeOK
    <3>2. CASE l = m
      BY <1>2, <2>3, <3>1, <3>2 DEF IInv, TypeOK
    <3>3. CASE l \in Minted
      <4>1. l.life < life[l.author] \/ (l.life = life[l.author] /\ l.seq < seq[l.author])
        BY <3>3 DEF IInv, CounterInv
      <4>2. seq'[l.author] = IF l.author = n THEN seq[n] + 1 ELSE seq[l.author]
        BY <1>2, <3>1 DEF IInv, TypeOK
      <4> QED
        BY <1>2, <3>1, <4>1, <4>2
    <3> QED
      BY <1>1, <3>2, <3>3
  <2> QED
    BY <1>1, <1>2, <2>2, <2>4 DEF IInv, CounterInv
<1>6. Sent' = Sent
  BY <1>1 DEF IInv, TypeOK, Sent
<1>7. SourceInv'
  BY <1>2, <1>6 DEF IInv, SourceInv, QueuedAt
<1>8. SeenInv'
  BY <1>2, <1>3 DEF IInv, SeenInv, TypeOK
<1>9. \A k \in Nodes, l \in Messages : Sends(k, l)' => Sends(k, l) \/ (k = n /\ l = m)
  BY <1>1, <1>2 DEF IInv, TypeOK, Sends
<1>10. KnownInv'
  <2>1. \A k \in Nodes : seen[k] \subseteq seen'[k]
    BY <1>2 DEF IInv, TypeOK
  <2> QED
    BY <1>2, <1>3, <1>9, <2>1 DEF IInv, KnownInv
<1>11. ApplyInv'
  <2>1. m \notin applying[n]
    BY <1>1 DEF IInv, SourceInv, Sent
  <2> QED
    BY <1>2, <1>9, <2>1 DEF IInv, ApplyInv
<1>12. EchoInv'
  BY <1>1, <1>2, <1>9 DEF IInv, EchoInv, TypeOK
<1> QED
  BY <1>4, <1>5, <1>7, <1>8, <1>10, <1>11, <1>12 DEF IInv

\* A send in progress that goes on past its pending echo.
LEMMA ProgressKeeps ==
    ASSUME IInv, NEW m \in Messages, stage[m] # "none", NEW to \in Stages \ {"none", "minted"},
           Advance(m, to), UNCHANGED <<up, life, seq>>
    PROVE  /\ stage' \in [Messages -> Stages] /\ CounterInv' /\ Sent' = Sent \cup {m}
           /\ stage'[m] = to /\ \A l \in Messages : l # m => stage'[l] = stage[l]
           /\ \A k \in Nodes, l \in Messages : Sends(k, l)' <=> Sends(k, l)
<1>1. /\ stage' \in [Messages -> Stages] /\ Minted' = Minted
      /\ \A l \in Messages : l # m => stage'[l] = stage[l]
      /\ stage'[m] = to
      /\ \A k \in Nodes, l \in Messages : Sends(k, l)' <=> Sends(k, l)
  BY AdvanceMinted DEF IInv
<1>2. CounterInv'
  BY <1>1 DEF IInv, CounterInv
<1>3. Sent' = Sent \cup {m}
  BY <1>1 DEF Sent
<1> QED
  BY <1>1, <1>2, <1>3

\* A step that neither receives nor shows, and moves a send on if at all.
LEMMA DedupFrame ==
    ASSUME IInv, UNCHANGED <<shown, applying, seen, forgot>>,
           \A k \in Nodes, l \in Messages : Sends(k, l)' => Sends(k, l),
           \A l \in Messages : stage'[l] \notin {"minted", "done"} =>
                                 stage[l] \notin {"minted", "done"}
    PROVE  KnownInv' /\ ApplyInv' /\ EchoInv'
  BY DEF IInv, KnownInv, ApplyInv, EchoInv

\* A push appends one state to what one node shows of one message.
LEMMA PushAppends ==
    ASSUME TypeOK, NEW n \in Nodes, NEW m \in Messages, NEW state \in States,
           Push(n, m, state)
    PROVE  /\ shown' \in [Nodes -> [Messages -> Seq(States)]]
           /\ shown'[n][m] = Append(shown[n][m], state)
           /\ \A k \in Nodes, l \in Messages : k # n \/ l # m => shown'[k][l] = shown[k][l]
<1>1. /\ shown \in [Nodes -> [Messages -> Seq(States)]]
      /\ shown[n] \in [Messages -> Seq(States)] /\ shown[n][m] \in Seq(States)
      /\ shown' = [shown EXCEPT ![n] = [shown[n] EXCEPT ![m] = Append(shown[n][m], state)]]
  BY DEF TypeOK, Push
<1>2. Append(shown[n][m], state) \in Seq(States)
  BY <1>1
<1> QED
  BY <1>1, <1>2

\* A Put brings one message into the store and the callbacks of one node.
LEMMA PutBrings ==
    ASSUME TypeOK, NEW n \in Nodes, NEW m \in Messages, PutLands(n, m)
    PROVE  /\ archive' \in [Nodes -> SUBSET Messages] /\ heals' \in [Nodes -> SUBSET Messages]
           /\ \A k \in Nodes : archive'[k] \subseteq archive[k] \cup {m}
           /\ \A k \in Nodes : heals'[k] \subseteq heals[k] \cup {m}
<1>1. /\ archive' = [archive EXCEPT ![n] =
                        {k \in archive[n] : NextMessageId(k) # NextMessageId(m)} \cup {m}]
      /\ heals' = [heals EXCEPT ![n] = heals[n] \cup {m}]
  BY DEF PutLands
<1>2. archive \in [Nodes -> SUBSET Messages] /\ heals \in [Nodes -> SUBSET Messages]
  BY DEF TypeOK
<1> QED
  BY <1>1, <1>2

\* The pending echo is the first state the sender's process shows.
LEMMA PushPendingSafe ==
    ASSUME IInv, NEW n \in Nodes, NEW m \in Messages, PushPending(n, m)
    PROVE  IInv'
<1>1. /\ Sends(n, m) /\ stage[m] = "minted" /\ Advance(m, "pending") /\ Push(n, m, "pending")
      /\ UNCHANGED <<up, life, seq, published, landed, archive, merged, heals, seen, applying,
                     queue, dropped, joining, batch, forgot>>
  BY DEF PushPending, Sending, disk, replay
<1>2. "pending" \in Stages \ {"none", "minted"} /\ "pending" \in States
  BY DEF Stages, States
<1>3. /\ stage' \in [Messages -> Stages] /\ CounterInv' /\ Sent' = Sent \cup {m}
      /\ stage'[m] = "pending" /\ \A l \in Messages : l # m => stage'[l] = stage[l]
      /\ \A k \in Nodes, l \in Messages : Sends(k, l)' <=> Sends(k, l)
  BY <1>1, <1>2, ProgressKeeps
<1>4. /\ shown' \in [Nodes -> [Messages -> Seq(States)]]
      /\ shown'[n][m] = Append(shown[n][m], "pending")
      /\ \A k \in Nodes, l \in Messages : k # n \/ l # m => shown'[k][l] = shown[k][l]
  BY <1>1, <1>2, PushAppends DEF IInv
<1>5. shown[n][m] = << >>
  BY <1>1 DEF IInv, SourceInv, Sent
<1>6. TypeOK'
  BY <1>1, <1>3, <1>4 DEF IInv, TypeOK
<1>7. SourceInv'
  <2>1. \A k \in Nodes, l \in Messages : shown'[k][l] # << >> => l \in Sent'
    BY <1>3, <1>4 DEF IInv, SourceInv
  <2> QED
    BY <1>1, <1>3, <2>1 DEF IInv, SourceInv, QueuedAt
<1>8. SeenInv'
  BY <1>1 DEF IInv, SeenInv
<1>9. KnownInv'
  BY <1>1, <1>3, <1>4 DEF IInv, KnownInv
<1>10. ApplyInv'
  <2>1. ASSUME NEW k \in Nodes \ forgot, NEW l \in Messages, l \in applying[k]
        PROVE  shown[k][l] = << >> /\ ~Sends(k, l) /\ (k # n \/ l # m)
    BY <1>1, <2>1 DEF IInv, ApplyInv
  <2>2. ASSUME NEW k \in Nodes \ forgot', NEW l \in Messages, l \in applying'[k]
        PROVE  shown'[k][l] = << >> /\ ~Sends(k, l)'
    BY <1>1, <1>3, <1>4, <2>1, <2>2
  <2> QED
    BY <2>2 DEF ApplyInv
<1>11. EchoInv'
  <2>1. shown'[n][m] = <<"pending">>
    BY <1>4, <1>5
  <2>2. \A k \in Nodes : Sends(k, m) => k = n
    BY <1>1 DEF Sends
  <2>3. ASSUME NEW k \in Nodes \ forgot', NEW l \in Messages, Sends(k, l)',
               stage'[l] \notin {"minted", "done"}
        PROVE  shown'[k][l] = <<"pending">>
    BY <1>1, <1>3, <1>4, <2>1, <2>2, <2>3 DEF IInv, EchoInv
  <2> QED
    BY <2>3 DEF EchoInv
<1> QED
  BY <1>3, <1>6, <1>7, <1>8, <1>9, <1>10, <1>11 DEF IInv

\* A live publish changes what is on the wire and how far the send is.
LEMMA PublishSafe ==
    ASSUME IInv, NEW n \in Nodes, NEW m \in Messages, Publish(n, m)
    PROVE  IInv'
<1>1. PICK to \in {"failing", "published"} : Advance(m, to)
  BY DEF Publish
<1>2. /\ stage[m] = "pending" /\ published' \subseteq published \cup {m}
      /\ UNCHANGED <<up, life, seq, landed, archive, merged, heals, seen, applying, queue, dropped,
                     joining, batch, shown, forgot>>
  BY DEF Publish, Sending, disk, replay
<1>3. /\ stage' \in [Messages -> Stages] /\ CounterInv' /\ Sent' = Sent \cup {m}
      /\ stage'[m] = to /\ \A l \in Messages : l # m => stage'[l] = stage[l]
      /\ \A k \in Nodes, l \in Messages : Sends(k, l)' <=> Sends(k, l)
  <2>1. to \in Stages \ {"none", "minted"}
    BY DEF Stages
  <2> QED
    BY <1>1, <1>2, <2>1, ProgressKeeps
<1>4. TypeOK'
  BY <1>2, <1>3 DEF IInv, TypeOK
<1>5. SourceInv'
  BY <1>2, <1>3 DEF IInv, SourceInv, QueuedAt
<1>6. SeenInv'
  BY <1>2 DEF IInv, SeenInv
<1>7. KnownInv' /\ ApplyInv' /\ EchoInv'
  BY <1>2, <1>3, DedupFrame
<1> QED
  BY <1>3, <1>4, <1>5, <1>6, <1>7 DEF IInv

\* The Put's job at the sender: its id is in the set, so the heal callback drops it.
LEMMA SendLandsSafe ==
    ASSUME IInv, NEW n \in Nodes, NEW m \in Messages, SendLands(n, m)
    PROVE  IInv'
<1>1. /\ stage[m] = "published" /\ Advance(m, "landed") /\ PutLands(n, m)
      /\ merged' = [merged EXCEPT ![n] = @ \cup {m}] /\ landed' = landed \cup {m}
      /\ UNCHANGED <<up, life, seq, published, seen, applying, queue, dropped, joining, batch,
                     shown, forgot>>
  BY DEF SendLands, Sending, replay
<1>2. /\ stage' \in [Messages -> Stages] /\ CounterInv' /\ Sent' = Sent \cup {m}
      /\ stage'[m] = "landed" /\ \A l \in Messages : l # m => stage'[l] = stage[l]
      /\ \A k \in Nodes, l \in Messages : Sends(k, l)' <=> Sends(k, l)
  <2>1. "landed" \in Stages \ {"none", "minted"}
    BY DEF Stages
  <2> QED
    BY <1>1, <2>1, ProgressKeeps
<1>3. /\ archive' \in [Nodes -> SUBSET Messages] /\ heals' \in [Nodes -> SUBSET Messages]
      /\ \A k \in Nodes : archive'[k] \subseteq archive[k] \cup {m}
      /\ \A k \in Nodes : heals'[k] \subseteq heals[k] \cup {m}
  BY <1>1, PutBrings DEF IInv
<1>4. TypeOK'
  <2>1. merged' \in [Nodes -> SUBSET Messages] /\ landed' \subseteq Messages
    BY <1>1 DEF IInv, TypeOK
  <2> QED
    BY <1>1, <1>2, <1>3, <2>1 DEF IInv, TypeOK
<1>5. SourceInv'
  BY <1>1, <1>2, <1>3 DEF IInv, SourceInv, QueuedAt
<1>6. SeenInv'
  BY <1>1 DEF IInv, SeenInv
<1>7. KnownInv' /\ ApplyInv' /\ EchoInv'
  BY <1>1, <1>2, DedupFrame
<1> QED
  BY <1>2, <1>4, <1>5, <1>6, <1>7 DEF IInv

\* The Put's outcome: only the stage of the send changes.
LEMMA PutReturnsSafe ==
    ASSUME IInv, NEW n \in Nodes, NEW m \in Messages, PutReturns(n, m)
    PROVE  IInv'
<1>1. PICK to \in {"completing", "failing"} : Advance(m, to)
  BY DEF PutReturns, PutAnswers
<1>2. /\ stage[m] \in {"published", "landed"}
      /\ UNCHANGED <<up, life, seq, published, landed, archive, merged, heals, seen, applying,
                     queue, dropped, joining, batch, shown, forgot>>
  BY DEF PutReturns, PutAnswers, Sending, disk, replay
<1>3. /\ stage' \in [Messages -> Stages] /\ CounterInv' /\ Sent' = Sent \cup {m}
      /\ stage'[m] = to /\ \A l \in Messages : l # m => stage'[l] = stage[l]
      /\ \A k \in Nodes, l \in Messages : Sends(k, l)' <=> Sends(k, l)
  <2>1. to \in Stages \ {"none", "minted"}
    BY DEF Stages
  <2> QED
    BY <1>1, <1>2, <2>1, ProgressKeeps
<1>4. TypeOK'
  BY <1>2, <1>3 DEF IInv, TypeOK
<1>5. SourceInv'
  BY <1>2, <1>3 DEF IInv, SourceInv, QueuedAt
<1>6. SeenInv'
  BY <1>2 DEF IInv, SeenInv
<1>7. KnownInv' /\ ApplyInv' /\ EchoInv'
  BY <1>2, <1>3, DedupFrame
<1> QED
  BY <1>3, <1>4, <1>5, <1>6, <1>7 DEF IInv

\* The terminal echo ends the send and is shown after its pending echo only.
LEMMA PushTerminalSafe ==
    ASSUME IInv, NEW n \in Nodes, NEW m \in Messages, PushTerminal(n, m)
    PROVE  IInv'
<1>1. PICK state \in {"complete", "error"} : Push(n, m, state)
  BY DEF PushTerminal, TerminalEcho
<1>2. /\ Sends(n, m) /\ stage[m] \in {"completing", "failing"} /\ Advance(m, "done")
      /\ UNCHANGED <<up, life, seq, published, landed, archive, merged, heals, seen, applying,
                     queue, dropped, joining, batch, forgot>>
  BY DEF PushTerminal, TerminalEcho, Sending, disk, replay
<1>3. "done" \in Stages \ {"none", "minted"} /\ state \in States
  BY DEF Stages, States
<1>4. /\ stage' \in [Messages -> Stages] /\ CounterInv' /\ Sent' = Sent \cup {m}
      /\ stage'[m] = "done" /\ \A l \in Messages : l # m => stage'[l] = stage[l]
      /\ \A k \in Nodes, l \in Messages : Sends(k, l)' <=> Sends(k, l)
  BY <1>2, <1>3, ProgressKeeps
<1>5. /\ shown' \in [Nodes -> [Messages -> Seq(States)]]
      /\ \A k \in Nodes, l \in Messages : k # n \/ l # m => shown'[k][l] = shown[k][l]
  BY <1>1, <1>3, PushAppends DEF IInv
<1>6. TypeOK'
  BY <1>2, <1>4, <1>5 DEF IInv, TypeOK
<1>7. SourceInv'
  <2>1. \A k \in Nodes, l \in Messages : shown'[k][l] # << >> => l \in Sent'
    BY <1>4, <1>5 DEF IInv, SourceInv
  <2> QED
    BY <1>2, <1>4, <2>1 DEF IInv, SourceInv, QueuedAt
<1>8. SeenInv'
  BY <1>2 DEF IInv, SeenInv
<1>9. KnownInv' /\ ApplyInv' /\ EchoInv'
  <2>1. KnownInv'
    BY <1>2, <1>4, <1>5 DEF IInv, KnownInv
  <2>2. ApplyInv'
    <3>1. ASSUME NEW k \in Nodes \ forgot, NEW l \in Messages, l \in applying[k]
          PROVE  shown[k][l] = << >> /\ ~Sends(k, l) /\ (k # n \/ l # m)
      BY <1>2, <3>1 DEF IInv, ApplyInv
    <3>2. ASSUME NEW k \in Nodes \ forgot', NEW l \in Messages, l \in applying'[k]
          PROVE  shown'[k][l] = << >> /\ ~Sends(k, l)'
      <4>1. k \in Nodes \ forgot /\ l \in applying[k]
        BY <1>2, <3>2
      <4>2. shown[k][l] = << >> /\ ~Sends(k, l) /\ (k # n \/ l # m)
        BY <3>1, <4>1
      <4> QED
        BY <1>4, <1>5, <4>2
    <3> QED
      BY <3>2 DEF ApplyInv
  <2>3. EchoInv'
    BY <1>2, <1>4, <1>5 DEF IInv, EchoInv
  <2> QED
    BY <2>1, <2>2, <2>3
<1> QED
  BY <1>4, <1>6, <1>7, <1>8, <1>9 DEF IInv

-----------------------------------------------------------------------------
(* The steps of the receive funnel, of a replay and of a process.          *)

\* A step after which no send has moved, nor any process.
LEMMA IdleKeeps ==
    ASSUME IInv, UNCHANGED <<up, life, seq, stage>>
    PROVE  /\ CounterInv' /\ Sent' = Sent
           /\ \A k \in Nodes, l \in Messages : Sends(k, l)' <=> Sends(k, l)
  BY DEF IInv, CounterInv, Minted, Sent, Sends

\* The apply-once set after a receive, at the node and elsewhere.
LEMMA RememberBounds ==
    ASSUME IInv, NEW n \in up, NEW m \in Messages, Remember(n, m), UNCHANGED up
    PROVE  /\ seen' \in [Nodes -> SUBSET MessageIds] /\ forgot' \subseteq Nodes
           /\ \A k \in Nodes : Cardinality(seen'[k]) <= MaxSeen + seq[k]
           /\ SeenInv' /\ forgot \subseteq forgot' /\ NextMessageId(m) \in seen'[n]
           /\ \A k \in Nodes \ forgot' : seen[k] \subseteq seen'[k]
<1>1. n \in Nodes /\ seen[n] \in SUBSET MessageIds /\ IsFiniteSet(seen[n]) /\ seq[n] \in Nat
  BY DEF IInv, TypeOK, SeenInv
<1>2. /\ seen' = [seen EXCEPT ![n] = Insert(seen[n], m)]
      /\ forgot' = IF Cardinality(seen[n]) >= MaxSeen THEN forgot \cup {n} ELSE forgot
  BY DEF Remember
<1>3. /\ Insert(seen[n], m) \in SUBSET MessageIds /\ IsFiniteSet(Insert(seen[n], m))
      /\ Cardinality(Insert(seen[n], m)) <= MaxSeen
      /\ NextMessageId(m) \in Insert(seen[n], m)
      /\ Cardinality(seen[n]) < MaxSeen => seen[n] \subseteq Insert(seen[n], m)
  BY <1>1, InsertBounds
<1>4. Cardinality(seen[n]) \in Nat /\ Cardinality(Insert(seen[n], m)) \in Nat
  BY <1>1, <1>3, FS_CardinalityType
<1>5. /\ seen' \in [Nodes -> SUBSET MessageIds] /\ seen'[n] = Insert(seen[n], m)
      /\ \A k \in Nodes \ {n} : seen'[k] = seen[k]
  BY <1>1, <1>2, <1>3 DEF IInv, TypeOK
<1>6. \A k \in Nodes : Cardinality(seen'[k]) <= MaxSeen + seq[k]
  <2>1. Cardinality(seen'[n]) <= MaxSeen + seq[n]
    BY <1>1, <1>3, <1>4, <1>5
  <2> QED
    BY <1>5, <2>1 DEF IInv, TypeOK
<1>7. SeenInv'
  BY <1>1, <1>3, <1>5 DEF IInv, SeenInv
<1>8. forgot' \subseteq Nodes /\ forgot \subseteq forgot'
  BY <1>1, <1>2 DEF IInv, TypeOK
<1>9. \A k \in Nodes \ forgot' : seen[k] \subseteq seen'[k]
  BY <1>2, <1>3, <1>4, <1>5
<1> QED
  BY <1>3, <1>5, <1>6, <1>7, <1>8, <1>9

\* A message enters the funnel: the node knew nothing of it, unless it had forgotten.
LEMMA AppliesKeeps ==
    ASSUME IInv, NEW n \in up, NEW m \in Messages, Applies(n, m),
           UNCHANGED <<up, life, seq, stage, shown>>
    PROVE  /\ seen' \in [Nodes -> SUBSET MessageIds] /\ forgot' \subseteq Nodes
           /\ \A k \in Nodes : Cardinality(seen'[k]) <= MaxSeen + seq[k]
           /\ applying' \in [Nodes -> SUBSET Messages]
           /\ \A k \in Nodes : applying'[k] \subseteq applying[k] \cup {m}
           /\ SeenInv' /\ KnownInv' /\ ApplyInv' /\ EchoInv'
<1>1. /\ n \in Nodes /\ NextMessageId(m) \notin seen[n] /\ Remember(n, m)
      /\ applying' = [applying EXCEPT ![n] = applying[n] \cup {m}]
  BY DEF Applies, IInv, TypeOK
<1>2. /\ seen' \in [Nodes -> SUBSET MessageIds] /\ forgot' \subseteq Nodes
      /\ \A k \in Nodes : Cardinality(seen'[k]) <= MaxSeen + seq[k]
      /\ SeenInv' /\ forgot \subseteq forgot' /\ NextMessageId(m) \in seen'[n]
      /\ \A k \in Nodes \ forgot' : seen[k] \subseteq seen'[k]
  BY <1>1, RememberBounds
<1>3. /\ applying' \in [Nodes -> SUBSET Messages] /\ applying'[n] = applying[n] \cup {m}
      /\ \A k \in Nodes \ {n} : applying'[k] = applying[k]
  BY <1>1 DEF IInv, TypeOK
<1>4. \A k \in Nodes, l \in Messages : Sends(k, l)' <=> Sends(k, l)
  BY IdleKeeps
<1>5. n \notin forgot => shown[n][m] = << >> /\ ~Sends(n, m)
  BY <1>1 DEF IInv, KnownInv
<1>6. KnownInv'
  BY <1>2, <1>3, <1>4 DEF IInv, KnownInv
<1>7. ApplyInv'
  BY <1>2, <1>3, <1>4, <1>5 DEF IInv, ApplyInv
<1>8. EchoInv'
  BY <1>2, <1>4 DEF IInv, EchoInv
<1> QED
  BY <1>2, <1>3, <1>6, <1>7, <1>8

\* A live delivery: a known id is dropped, a new one enters the set and the funnel.
LEMMA LiveArrivesSafe ==
    ASSUME IInv, NEW n \in Nodes, NEW m \in Messages, LiveArrives(n, m)
    PROVE  IInv'
<1>1. /\ n \in up /\ m \in Sent /\ Applies(n, m)
      /\ UNCHANGED <<up, life, seq, stage, published, landed, archive, merged, heals, queue,
                     dropped, joining, batch, shown>>
  BY DEF LiveArrives, IInv, SourceInv, sends, disk, replay
<1>2. /\ seen' \in [Nodes -> SUBSET MessageIds] /\ forgot' \subseteq Nodes
      /\ \A k \in Nodes : Cardinality(seen'[k]) <= MaxSeen + seq[k]
      /\ applying' \in [Nodes -> SUBSET Messages]
      /\ \A k \in Nodes : applying'[k] \subseteq applying[k] \cup {m}
      /\ SeenInv' /\ KnownInv' /\ ApplyInv' /\ EchoInv'
  BY <1>1, AppliesKeeps
<1>3. CounterInv' /\ Sent' = Sent
  BY <1>1, IdleKeeps
<1>4. TypeOK'
  BY <1>1, <1>2 DEF IInv, TypeOK
<1>5. SourceInv'
  BY <1>1, <1>2, <1>3 DEF IInv, SourceInv, QueuedAt
<1> QED
  BY <1>2, <1>3, <1>4, <1>5 DEF IInv

\* The heal callback of a record: as a live delivery, and the callback is used up.
LEMMA HealArrivesSafe ==
    ASSUME IInv, NEW n \in Nodes, NEW m \in Messages, HealArrives(n, m)
    PROVE  IInv'
<1>1. /\ n \in up /\ m \in Sent
      /\ heals' = [heals EXCEPT ![n] = heals[n] \ {m}]
      /\ Applies(n, m) \/ UNCHANGED <<seen, applying, forgot>>
      /\ UNCHANGED <<up, life, seq, stage, published, landed, archive, merged, queue,
                     dropped, joining, batch, shown>>
  BY DEF HealArrives, IInv, SourceInv, sends, disk, replay
<1>2. /\ heals' \in [Nodes -> SUBSET Messages]
      /\ \A k \in Nodes : heals'[k] \subseteq heals[k]
  BY <1>1 DEF IInv, TypeOK
<1>3. /\ seen' \in [Nodes -> SUBSET MessageIds] /\ forgot' \subseteq Nodes
      /\ \A k \in Nodes : Cardinality(seen'[k]) <= MaxSeen + seq[k]
      /\ applying' \in [Nodes -> SUBSET Messages]
      /\ \A k \in Nodes : applying'[k] \subseteq applying[k] \cup {m}
      /\ SeenInv' /\ KnownInv' /\ ApplyInv' /\ EchoInv'
  <2>1. CASE Applies(n, m)
    BY <1>1, <2>1, AppliesKeeps
  <2>2. CASE UNCHANGED <<seen, applying, forgot>>
    <3>1. KnownInv' /\ ApplyInv' /\ EchoInv'
      BY <1>1, <2>2, IdleKeeps, DedupFrame
    <3> QED
      BY <1>1, <2>2, <3>1 DEF IInv, TypeOK, SeenInv
  <2> QED
    BY <1>1, <2>1, <2>2
<1>4. CounterInv' /\ Sent' = Sent
  BY <1>1, IdleKeeps
<1>5. TypeOK'
  BY <1>1, <1>2, <1>3 DEF IInv, TypeOK
<1>6. SourceInv'
  BY <1>1, <1>2, <1>3, <1>4 DEF IInv, SourceInv, QueuedAt
<1> QED
  BY <1>3, <1>4, <1>5, <1>6 DEF IInv

\* A peer's record reaches the store: its heal callback becomes due.
LEMMA MergeSafe ==
    ASSUME IInv, NEW n \in Nodes, NEW m \in Messages, Merge(n, m)
    PROVE  IInv'
<1>1. /\ m \in Sent /\ PutLands(n, m) /\ merged' = [merged EXCEPT ![n] = merged[n] \cup {m}]
      /\ UNCHANGED <<up, life, seq, stage, published, landed, seen, applying, queue, dropped,
                     joining, batch, shown, forgot>>
  BY DEF Merge, IInv, SourceInv, sends, replay
<1>2. /\ archive' \in [Nodes -> SUBSET Messages] /\ heals' \in [Nodes -> SUBSET Messages]
      /\ \A k \in Nodes : archive'[k] \subseteq archive[k] \cup {m}
      /\ \A k \in Nodes : heals'[k] \subseteq heals[k] \cup {m}
  BY <1>1, PutBrings DEF IInv
<1>3. CounterInv' /\ Sent' = Sent /\ KnownInv' /\ ApplyInv' /\ EchoInv'
  BY <1>1, IdleKeeps, DedupFrame
<1>4. TypeOK'
  <2>1. merged' \in [Nodes -> SUBSET Messages]
    BY <1>1 DEF IInv, TypeOK
  <2> QED
    BY <1>1, <1>2, <2>1 DEF IInv, TypeOK
<1>5. SourceInv'
  BY <1>1, <1>2, <1>3 DEF IInv, SourceInv, QueuedAt
<1>6. SeenInv'
  BY <1>1 DEF IInv, SeenInv
<1> QED
  BY <1>3, <1>4, <1>5, <1>6 DEF IInv

\* A message in the funnel is shown once: it was never shown here unless forgotten.
LEMMA ApplySafe ==
    ASSUME IInv, NEW n \in Nodes, NEW m \in Messages, Apply(n, m)
    PROVE  IInv'
<1>1. /\ m \in applying[n] /\ applying' = [applying EXCEPT ![n] = applying[n] \ {m}]
      /\ Push(n, m, "complete") /\ queue' = [queue EXCEPT ![n] = Append(queue[n], m)]
      /\ UNCHANGED <<up, life, seq, stage, published, landed, archive, merged, heals, seen,
                     dropped, joining, batch, forgot>>
  BY DEF Apply, EnqueueArchive, sends, disk, replay
<1>2. m \in Sent
  BY <1>1 DEF IInv, SourceInv
<1>3. /\ shown' \in [Nodes -> [Messages -> Seq(States)]]
      /\ \A k \in Nodes, l \in Messages : k # n \/ l # m => shown'[k][l] = shown[k][l]
  <2>1. "complete" \in States
    BY DEF States
  <2> QED
    BY <1>1, <2>1, PushAppends DEF IInv
<1>4. /\ applying' \in [Nodes -> SUBSET Messages] /\ applying'[n] = applying[n] \ {m}
      /\ \A k \in Nodes \ {n} : applying'[k] = applying[k]
  BY <1>1 DEF IInv, TypeOK
<1>5. queue[n] \in Seq(Messages) /\ Append(queue[n], m) \in Seq(Messages)
  <2>1. queue[n] \in Seq(Messages)
    BY DEF IInv, TypeOK
  <2> QED
    BY <2>1
<1>6. /\ queue' \in [Nodes -> Seq(Messages)]
      /\ \A k \in Nodes : QueuedAt(k)' \subseteq QueuedAt(k) \cup {m}
  <2>1. /\ queue' \in [Nodes -> Seq(Messages)] /\ queue'[n] = Append(queue[n], m)
        /\ \A k \in Nodes \ {n} : queue'[k] = queue[k]
    BY <1>1, <1>5 DEF IInv, TypeOK
  <2>2. \A i \in DOMAIN Append(queue[n], m) :
           Append(queue[n], m)[i] = m \/ (i \in DOMAIN queue[n] /\ Append(queue[n], m)[i] = queue[n][i])
    BY <1>5
  <2> QED
    BY <2>1, <2>2 DEF QueuedAt
<1>7. /\ CounterInv' /\ Sent' = Sent
      /\ \A k \in Nodes, l \in Messages : Sends(k, l)' <=> Sends(k, l)
  BY <1>1, IdleKeeps
<1>8. TypeOK'
  BY <1>1, <1>3, <1>4, <1>6 DEF IInv, TypeOK
<1>9. SourceInv'
  <2>1. \A k \in Nodes, l \in Messages : shown'[k][l] # << >> => l \in Sent'
    BY <1>2, <1>3, <1>7 DEF IInv, SourceInv
  <2>2. \A k \in Nodes : QueuedAt(k)' \subseteq Sent' /\ applying'[k] \subseteq Sent'
    BY <1>2, <1>4, <1>6, <1>7 DEF IInv, SourceInv
  <2> QED
    BY <1>1, <1>7, <2>1, <2>2 DEF IInv, SourceInv
<1>10. SeenInv'
  BY <1>1 DEF IInv, SeenInv
<1>11. KnownInv'
  <2>1. n \notin forgot => NextMessageId(m) \in seen[n]
    BY <1>1 DEF IInv, KnownInv
  <2>2. ASSUME NEW k \in Nodes \ forgot', NEW l \in Messages, k # n \/ l # m,
               shown'[k][l] # << >> \/ l \in applying'[k] \/ Sends(k, l)'
        PROVE  NextMessageId(l) \in seen[k]
    <3>1. k \in Nodes \ forgot /\ (shown[k][l] # << >> \/ l \in applying[k] \/ Sends(k, l))
      BY <1>1, <1>3, <1>4, <1>7, <2>2
    <3> QED
      BY <3>1 DEF IInv, KnownInv
  <2> QED
    BY <1>1, <2>1, <2>2 DEF KnownInv
<1>12. ApplyInv'
  <2>1. ASSUME NEW k \in Nodes \ forgot', NEW l \in Messages, l \in applying'[k]
        PROVE  shown'[k][l] = << >> /\ ~Sends(k, l)'
    <3>1. k \in Nodes \ forgot /\ l \in applying[k] /\ (k # n \/ l # m)
      BY <1>1, <1>4, <2>1
    <3>2. shown[k][l] = << >> /\ ~Sends(k, l)
      BY <3>1 DEF IInv, ApplyInv
    <3> QED
      BY <1>3, <1>7, <3>1, <3>2
  <2> QED
    BY <2>1 DEF ApplyInv
<1>13. EchoInv'
  <2>1. n \notin forgot => ~Sends(n, m)
    BY <1>1 DEF IInv, ApplyInv
  <2>2. ASSUME NEW k \in Nodes \ forgot', NEW l \in Messages, Sends(k, l)',
               stage'[l] \notin {"minted", "done"}
        PROVE  shown'[k][l] = <<"pending">>
    <3>1. k \in Nodes \ forgot /\ Sends(k, l) /\ stage[l] \notin {"minted", "done"}
      BY <1>1, <1>7, <2>2
    <3>2. shown[k][l] = <<"pending">> /\ (k # n \/ l # m)
      BY <2>1, <3>1 DEF IInv, EchoInv
    <3> QED
      BY <1>3, <3>1, <3>2
  <2> QED
    BY <2>2 DEF EchoInv
<1> QED
  BY <1>7, <1>8, <1>9, <1>10, <1>11, <1>12, <1>13 DEF IInv

\* The archive thread's Put: a record it writes was sent.
LEMMA ArchiveWorkerSafe ==
    ASSUME IInv, NEW n \in Nodes, ArchiveWorker(n)
    PROVE  IInv'
<1>1. /\ queue[n] # << >> /\ queue' = [queue EXCEPT ![n] = Tail(queue[n])]
      /\ queue[n] \in Seq(Messages)
      /\ UNCHANGED <<up, life, seq, stage, published, landed, merged, seen, applying,
                     joining, batch, shown, forgot>>
  BY DEF ArchiveWorker, IInv, TypeOK, sends, replay
<1>2. PICK m \in Messages : m = Head(queue[n])
  BY <1>1, TailKeeps
<1>3. m = queue[n][1] /\ 1 \in DOMAIN queue[n]
  BY <1>1, <1>2
<1>4. m \in Sent
  <2>1. m \in QueuedAt(n)
    BY <1>3 DEF QueuedAt
  <2> QED
    BY <2>1 DEF IInv, SourceInv
<1>5. /\ queue' \in [Nodes -> Seq(Messages)]
      /\ \A k \in Nodes : QueuedAt(k)' \subseteq QueuedAt(k)
  <2>1. Tail(queue[n]) \in Seq(Messages)
    BY <1>1, TailKeeps
  <2>2. /\ queue' \in [Nodes -> Seq(Messages)] /\ queue'[n] = Tail(queue[n])
        /\ \A k \in Nodes \ {n} : queue'[k] = queue[k]
    BY <1>1, <2>1 DEF IInv, TypeOK
  <2>3. \A i \in DOMAIN Tail(queue[n]) :
           i + 1 \in DOMAIN queue[n] /\ Tail(queue[n])[i] = queue[n][i + 1]
    BY <1>1
  <2>4. QueuedAt(n)' \subseteq QueuedAt(n)
    BY <2>2, <2>3 DEF QueuedAt
  <2>5. \A k \in Nodes \ {n} : QueuedAt(k)' = QueuedAt(k)
    BY <2>2 DEF QueuedAt
  <2> QED
    BY <2>2, <2>4, <2>5
<1>6. /\ archive' \in [Nodes -> SUBSET Messages] /\ heals' \in [Nodes -> SUBSET Messages]
      /\ dropped' \in [Nodes -> SUBSET Messages]
      /\ \A k \in Nodes : archive'[k] \subseteq archive[k] \cup {m}
      /\ \A k \in Nodes : heals'[k] \subseteq heals[k] \cup {m}
  <2>1. CASE PutLands(n, m) /\ UNCHANGED dropped
    BY <2>1, PutBrings DEF IInv, TypeOK
  <2>2. CASE /\ dropped' = [dropped EXCEPT ![n] = dropped[n] \cup {m}]
             /\ UNCHANGED <<archive, heals>>
    BY <2>2 DEF IInv, TypeOK
  <2> QED
    BY <1>2, <2>1, <2>2 DEF ArchiveWorker
<1>7. CounterInv' /\ Sent' = Sent /\ KnownInv' /\ ApplyInv' /\ EchoInv'
  BY <1>1, IdleKeeps, DedupFrame
<1>8. TypeOK'
  BY <1>1, <1>5, <1>6 DEF IInv, TypeOK
<1>9. SourceInv'
  <2>1. /\ \A k \in Nodes : archive'[k] \cup heals'[k] \subseteq Sent'
        /\ \A k \in Nodes : QueuedAt(k)' \subseteq Sent'
    BY <1>4, <1>5, <1>6, <1>7 DEF IInv, SourceInv
  <2> QED
    BY <1>1, <1>7, <2>1 DEF IInv, SourceInv
<1>10. SeenInv'
  BY <1>1 DEF IInv, SeenInv
<1> QED
  BY <1>7, <1>8, <1>9, <1>10 DEF IInv

\* The scan of a replay only remembers which records it found.
LEMMA QueryHistorySafe ==
    ASSUME IInv, NEW n \in Nodes, QueryHistory(n)
    PROVE  IInv'
<1>1. /\ joining' = joining \cup {n} /\ batch' = [batch EXCEPT ![n] = archive[n]]
      /\ UNCHANGED <<up, life, seq, stage, published, landed, archive, merged, heals, seen,
                     applying, queue, dropped, shown, forgot>>
  BY DEF QueryHistory, sends, disk
<1>2. CounterInv' /\ Sent' = Sent /\ KnownInv' /\ ApplyInv' /\ EchoInv'
  BY <1>1, IdleKeeps, DedupFrame
<1>3. /\ batch' \in [Nodes -> SUBSET Messages]
      /\ \A k \in Nodes : batch'[k] = IF k = n THEN archive[n] ELSE batch[k]
  BY <1>1 DEF IInv, TypeOK
<1>4. TypeOK'
  BY <1>1, <1>3 DEF IInv, TypeOK
<1>5. SourceInv'
  BY <1>1, <1>2, <1>3 DEF IInv, SourceInv, QueuedAt
<1>6. SeenInv'
  BY <1>1 DEF IInv, SeenInv
<1> QED
  BY <1>2, <1>4, <1>5, <1>6 DEF IInv

\* The end of a replay: every id of the batch is in the set, and the user sees no push.
LEMMA AbsorbSafe ==
    ASSUME IInv, NEW n \in Nodes, Absorb(n)
    PROVE  IInv'
<1>1. /\ n \in up /\ joining' = joining \ {n} /\ batch' = [batch EXCEPT ![n] = {}]
      /\ UNCHANGED <<up, life, seq, stage, published, landed, archive, merged, heals, applying,
                     queue, dropped, shown>>
  BY DEF Absorb, sends, disk
<1>2. PICK order \in SetToSeqs(batch[n]) :
         /\ seen' = [seen EXCEPT ![n] = Absorbed(seen[n], order)[Len(order)]]
         /\ forgot' = IF \E i \in DOMAIN order :
                            Cardinality(Absorbed(seen[n], order)[i - 1]) >= MaxSeen
                      THEN forgot \cup {n} ELSE forgot
  BY DEF Absorb
<1>3. order \in Seq(Messages)
  <2>1. batch[n] \in SUBSET Messages /\ batch[n] \subseteq Minted
    BY DEF IInv, TypeOK, SourceInv, Sent, Minted
  <2>2. IsFiniteSet(batch[n])
    BY <2>1, FS_Subset DEF IInv, CounterInv
  <2> QED
    BY <2>1, <2>2, OrderIsSeq
<1>4. PICK at : at = Absorbed(seen[n], order)
  OBVIOUS
<1>5. PICK bound : bound = MaxSeen + seq[n]
  OBVIOUS
<1>6. /\ at[Len(order)] \in SUBSET MessageIds /\ IsFiniteSet(at[Len(order)])
      /\ Cardinality(at[Len(order)]) <= MaxSeen + seq[n]
      /\ (\A i \in DOMAIN order : ~ Cardinality(at[i - 1]) >= MaxSeen) =>
            seen[n] \subseteq at[Len(order)]
  <2>1. seen[n] \in SUBSET MessageIds /\ IsFiniteSet(seen[n]) /\ Cardinality(seen[n]) <= bound
    BY <1>5 DEF IInv, TypeOK, SeenInv
  <2>2. bound \in Nat /\ MaxSeen <= bound
    BY <1>5 DEF IInv, TypeOK
  <2>3. /\ at[Len(order)] \in SUBSET MessageIds /\ IsFiniteSet(at[Len(order)])
        /\ Cardinality(at[Len(order)]) <= bound
        /\ (\A i \in DOMAIN order : ~ Cardinality(at[i - 1]) >= MaxSeen) =>
              seen[n] \subseteq at[Len(order)]
    BY <1>3, <1>4, <2>1, <2>2, AbsorbedBounds
  <2> QED
    BY <1>5, <2>3
<1>7. /\ seen' \in [Nodes -> SUBSET MessageIds] /\ seen'[n] = at[Len(order)]
      /\ \A k \in Nodes \ {n} : seen'[k] = seen[k]
  BY <1>2, <1>4, <1>6 DEF IInv, TypeOK
<1>8. /\ forgot' \subseteq Nodes /\ forgot \subseteq forgot'
      /\ n \notin forgot' => \A i \in DOMAIN order : ~ Cardinality(at[i - 1]) >= MaxSeen
  BY <1>2, <1>4 DEF IInv, TypeOK
<1>9. \A k \in Nodes \ forgot' : seen[k] \subseteq seen'[k]
  BY <1>6, <1>7, <1>8
<1>10. /\ CounterInv' /\ Sent' = Sent
       /\ \A k \in Nodes, l \in Messages : Sends(k, l)' <=> Sends(k, l)
  BY <1>1, IdleKeeps
<1>11. /\ batch' \in [Nodes -> SUBSET Messages]
       /\ \A k \in Nodes : batch'[k] \subseteq batch[k]
  BY <1>1 DEF IInv, TypeOK
<1>12. TypeOK'
  <2>1. \A k \in Nodes : Cardinality(seen'[k]) <= MaxSeen + seq'[k]
    BY <1>1, <1>6, <1>7 DEF IInv, TypeOK
  <2> QED
    BY <1>1, <1>7, <1>8, <1>11, <2>1 DEF IInv, TypeOK
<1>13. SourceInv'
  BY <1>1, <1>10, <1>11 DEF IInv, SourceInv, QueuedAt
<1>14. SeenInv'
  BY <1>1, <1>6, <1>7 DEF IInv, SeenInv
<1>15. KnownInv' /\ ApplyInv' /\ EchoInv'
  <2>1. KnownInv'
    BY <1>1, <1>8, <1>9, <1>10 DEF IInv, KnownInv
  <2>2. ApplyInv'
    BY <1>1, <1>8, <1>10 DEF IInv, ApplyInv
  <2>3. EchoInv'
    BY <1>1, <1>8, <1>10 DEF IInv, EchoInv
  <2> QED
    BY <2>1, <2>2, <2>3
<1> QED
  BY <1>10, <1>12, <1>13, <1>14, <1>15 DEF IInv

\* A process starts with an empty set and nothing shown.
LEMMA StartSafe ==
    ASSUME IInv, NEW n \in Nodes, Start(n)
    PROVE  IInv'
<1>1. /\ n \notin up /\ life[n] < MaxLives /\ up' = up \cup {n}
      /\ life' = [life EXCEPT ![n] = life[n] + 1] /\ seq' = [seq EXCEPT ![n] = 0]
      /\ UNCHANGED <<stage, published, landed, archive, merged, heals, seen, applying, queue,
                     dropped, joining, batch, shown, forgot>>
  BY DEF Start, disk, replay
<1>2. /\ life' \in [Nodes -> 0..MaxLives] /\ seq' \in [Nodes -> 0..MaxSends]
      /\ \A k \in Nodes : life'[k] = IF k = n THEN life[k] + 1 ELSE life[k]
      /\ \A k \in Nodes : seq'[k] = IF k = n THEN 0 ELSE seq[k]
  BY <1>1 DEF IInv, TypeOK
<1>3. Minted' = Minted /\ Sent' = Sent
  BY <1>1 DEF Minted, Sent
<1>4. Cardinality(Minted) \in Nat
  BY FS_CardinalityType DEF IInv, CounterInv
<1>5. CounterInv'
  <2>1. \A k \in Nodes : seq'[k] <= Cardinality(Minted')
    BY <1>2, <1>3, <1>4 DEF IInv, CounterInv
  <2>2. \A k \in up' : life'[k] > 0
    BY <1>1, <1>2 DEF IInv, CounterInv, TypeOK
  <2>3. ASSUME NEW m \in Minted'
        PROVE  m.life < life'[m.author] \/ (m.life = life'[m.author] /\ m.seq < seq'[m.author])
    <3>1. m \in Minted /\ m.author \in Nodes /\ m.life \in Int
      BY <1>3 DEF Minted, Messages
    <3>2. m.life < life[m.author] \/ (m.life = life[m.author] /\ m.seq < seq[m.author])
      BY <3>1 DEF IInv, CounterInv
    <3>3. life[m.author] \in Int
      BY <3>1 DEF IInv, TypeOK
    <3> QED
      BY <1>2, <3>1, <3>2, <3>3
  <2> QED
    BY <1>3, <2>1, <2>2, <2>3 DEF IInv, CounterInv
<1>6. \A k \in Nodes, l \in Messages : Sends(k, l)' => Sends(k, l)
  <2>1. ASSUME NEW l \in Minted, l.author = n PROVE l.life # life'[n]
    <3>1. l.life \in Int /\ life[n] \in Int
      BY DEF Minted, Messages, IInv, TypeOK
    <3>2. l.life <= life[n]
      BY <2>1, <3>1 DEF IInv, CounterInv
    <3> QED
      BY <1>2, <3>1, <3>2
  <2>2. ASSUME NEW k \in Nodes, NEW l \in Messages, Sends(k, l)' PROVE Sends(k, l)
    <3>1. l \in Minted /\ l.author = k /\ l.life = life'[k] /\ k \in up'
      BY <1>1, <2>2 DEF Sends, Minted
    <3>2. k # n
      BY <2>1, <3>1
    <3> QED
      BY <1>1, <1>2, <3>1, <3>2 DEF Sends, Minted
  <2> QED
    BY <2>2
<1>7. KnownInv' /\ ApplyInv' /\ EchoInv'
  BY <1>1, <1>6, DedupFrame
<1>8. TypeOK'
  <2>1. \A k \in Nodes : Cardinality(seen[k]) <= MaxSeen + seq'[k]
    <3>1. seen[n] = {} /\ Cardinality(seen[n]) = 0
      BY <1>1, FS_EmptySet DEF IInv, SeenInv
    <3>2. Cardinality(seen[n]) <= MaxSeen + seq'[n]
      BY <1>2, <3>1
    <3>3. \A k \in Nodes \ {n} : seq'[k] = seq[k]
      BY <1>2
    <3> QED
      BY <3>2, <3>3 DEF IInv, TypeOK
  <2> QED
    BY <1>1, <1>2, <2>1 DEF IInv, TypeOK
<1>9. SourceInv'
  BY <1>1, <1>3 DEF IInv, SourceInv, QueuedAt
<1>10. SeenInv'
  BY <1>1 DEF IInv, SeenInv
<1> QED
  BY <1>5, <1>7, <1>8, <1>9, <1>10 DEF IInv

\* A crash takes with it what the process showed, and its sends, funnel and set.
LEMMA CrashSafe ==
    ASSUME IInv, NEW n \in Nodes, Crash(n)
    PROVE  IInv'
<1>1. /\ up' = up \ {n}
      /\ heals' = [heals EXCEPT ![n] = {}] /\ applying' = [applying EXCEPT ![n] = {}]
      /\ seen' = [seen EXCEPT ![n] = {}] /\ forgot' = forgot \ {n}
      /\ queue' = [queue EXCEPT ![n] = << >>] /\ dropped' = [dropped EXCEPT ![n] = {}]
      /\ joining' = joining \ {n} /\ batch' = [batch EXCEPT ![n] = {}]
      /\ shown' = [shown EXCEPT ![n] = Nothing]
      /\ UNCHANGED <<life, seq, stage, published, landed, archive, merged>>
  BY DEF Crash, sends, disk
<1>2. Nothing \in [Messages -> Seq(States)] /\ << >> \in Seq(Messages)
  BY DEF Nothing
<1>3. /\ heals' \in [Nodes -> SUBSET Messages] /\ applying' \in [Nodes -> SUBSET Messages]
      /\ batch' \in [Nodes -> SUBSET Messages] /\ dropped' \in [Nodes -> SUBSET Messages]
      /\ seen' \in [Nodes -> SUBSET MessageIds]
      /\ heals'[n] = {} /\ applying'[n] = {} /\ batch'[n] = {} /\ seen'[n] = {}
      /\ \A k \in Nodes \ {n} : /\ heals'[k] = heals[k] /\ applying'[k] = applying[k]
                               /\ batch'[k] = batch[k] /\ seen'[k] = seen[k]
  BY <1>1 DEF IInv, TypeOK
<1>4. /\ queue' \in [Nodes -> Seq(Messages)] /\ queue'[n] = << >>
      /\ \A k \in Nodes \ {n} : queue'[k] = queue[k]
  BY <1>1, <1>2 DEF IInv, TypeOK
<1>5. /\ shown' \in [Nodes -> [Messages -> Seq(States)]]
      /\ \A m \in Messages : shown'[n][m] = << >>
      /\ \A k \in Nodes \ {n} : shown'[k] = shown[k]
  BY <1>1, <1>2 DEF IInv, TypeOK, Nothing
<1>6. Minted' = Minted /\ Sent' = Sent
  BY <1>1 DEF Minted, Sent
<1>7. CounterInv'
  BY <1>1, <1>6 DEF IInv, CounterInv
<1>8. \A k \in Nodes, l \in Messages : Sends(k, l)' => Sends(k, l) /\ k # n
  BY <1>1 DEF Sends
<1>9. TypeOK'
  <2>1. \A k \in Nodes : Cardinality(seen'[k]) <= MaxSeen + seq'[k]
    <3>1. Cardinality(seen'[n]) = 0 /\ seq[n] \in Nat
      BY <1>3, FS_EmptySet DEF IInv, TypeOK
    <3> QED
      BY <1>1, <1>3, <3>1 DEF IInv, TypeOK
  <2> QED
    BY <1>1, <1>3, <1>4, <1>5, <2>1 DEF IInv, TypeOK
<1>10. SourceInv'
  <2>1. \A k \in Nodes : QueuedAt(k)' \subseteq QueuedAt(k)
    BY <1>4 DEF QueuedAt
  <2>2. \A k \in Nodes : heals'[k] \cup applying'[k] \cup batch'[k] \subseteq Sent'
    BY <1>3, <1>6 DEF IInv, SourceInv
  <2>3. \A k \in Nodes, l \in Messages : shown'[k][l] # << >> => l \in Sent'
    BY <1>5, <1>6 DEF IInv, SourceInv
  <2> QED
    BY <1>1, <1>6, <2>1, <2>2, <2>3 DEF IInv, SourceInv
<1>11. SeenInv'
  BY <1>1, <1>3, FS_EmptySet DEF IInv, SeenInv
<1>12. KnownInv'
  BY <1>1, <1>3, <1>5, <1>8 DEF IInv, KnownInv
<1>13. ApplyInv'
  BY <1>1, <1>3, <1>5, <1>8 DEF IInv, ApplyInv
<1>14. EchoInv'
  BY <1>1, <1>5, <1>8 DEF IInv, EchoInv
<1> QED
  BY <1>7, <1>9, <1>10, <1>11, <1>12, <1>13, <1>14 DEF IInv

\* Every step keeps the invariant.
LEMMA NextSafe == IInv /\ [Next]_vars => IInv'
<1> SUFFICES ASSUME IInv, [Next]_vars PROVE IInv'
  OBVIOUS
<1>1. CASE UNCHANGED vars
  <2>1. UNCHANGED <<up, life, seq, stage, published, landed, archive, merged, heals, seen, applying,
                   queue, dropped, joining, batch, shown, forgot>>
    BY <1>1 DEF vars, sends, disk, replay
  <2>2. CounterInv' /\ Sent' = Sent /\ KnownInv' /\ ApplyInv' /\ EchoInv'
    BY <2>1, IdleKeeps, DedupFrame
  <2>3. TypeOK' /\ SourceInv' /\ SeenInv'
    BY <2>1, <2>2 DEF IInv, TypeOK, SourceInv, QueuedAt, SeenInv
  <2> QED
    BY <2>2, <2>3 DEF IInv
<1>2. ASSUME NEW n \in Nodes,
             Mint(n) \/ ArchiveWorker(n) \/ QueryHistory(n) \/ Absorb(n) \/ Start(n) \/ Crash(n)
      PROVE  IInv'
  BY <1>2, MintSafe, ArchiveWorkerSafe, QueryHistorySafe, AbsorbSafe, StartSafe, CrashSafe
<1>3. ASSUME NEW n \in Nodes, NEW m \in Messages, SendStep(n, m)
      PROVE  IInv'
  BY <1>3, PushPendingSafe, PublishSafe, SendLandsSafe, PutReturnsSafe, PushTerminalSafe DEF SendStep
<1>4. ASSUME NEW n \in Nodes, NEW m \in Messages,
             LiveArrives(n, m) \/ Merge(n, m) \/ ReceiveStep(n, m)
      PROVE  IInv'
  BY <1>4, LiveArrivesSafe, MergeSafe, HealArrivesSafe, ApplySafe DEF ReceiveStep
<1> QED
  BY <1>1, <1>2, <1>3, <1>4 DEF Next

\* The first state: nobody runs, nothing was sent.
LEMMA InitSafe == Init => IInv
<1> SUFFICES ASSUME Init PROVE IInv
  OBVIOUS
<1>1. Minted = {} /\ Sent = {} /\ Cardinality({}) = 0 /\ IsFiniteSet({})
  BY FS_EmptySet DEF Init, Minted, Sent
<1>2. TypeOK
  BY <1>1 DEF Init, TypeOK, NoMessages, Nothing, Stages
<1>3. CounterInv /\ SeenInv
  BY <1>1 DEF Init, CounterInv, SeenInv, NoMessages
<1>4. SourceInv
  BY <1>1 DEF Init, SourceInv, QueuedAt, NoMessages, Nothing
<1>5. KnownInv /\ ApplyInv /\ EchoInv
  BY DEF Init, KnownInv, ApplyInv, EchoInv, Sends, NoMessages, Nothing
<1> QED
  BY <1>2, <1>3, <1>4, <1>5 DEF IInv

\* The invariant of the apply-once set holds throughout.
THEOREM Invariance == Spec => []IInv
  BY InitSafe, NextSafe, PTL DEF Spec

\* m_seenIds never holds more than kMaxSeenIds and the ids of the process's own sends,
\* which SendMessage enters without the bound; every variable has its type.
THEOREM TypeCorrect == Spec => []TypeOK
  BY Invariance, PTL DEF IInv

-----------------------------------------------------------------------------
(* The refinement of RoomLog.                                              *)

\* Every step is one of the log's, or shows nothing.
LEMMA StepIsLogged == IInv /\ [Next]_vars => [Log!Next]_<<Sent, shown, forgot>>
<1> SUFFICES ASSUME IInv, [Next]_vars PROVE [Log!Next]_<<Sent, shown, forgot>>
  OBVIOUS
<1>1. CASE UNCHANGED vars
  BY <1>1 DEF vars, sends, Sent
<1>2. ASSUME NEW n \in Nodes, Mint(n) PROVE UNCHANGED <<Sent, shown, forgot>>
  <2>1. PICK m \in Messages : stage[m] = "none" /\ stage' = [stage EXCEPT ![m] = "minted"]
    BY <1>2, MintFresh
  <2> QED
    BY <1>2, <2>1 DEF Mint, Sent, IInv, TypeOK
<1>3. ASSUME NEW n \in Nodes, ArchiveWorker(n) \/ QueryHistory(n) \/ Start(n)
      PROVE  UNCHANGED <<Sent, shown, forgot>>
  BY <1>3 DEF ArchiveWorker, QueryHistory, Start, sends, Sent
<1>4. ASSUME NEW n \in Nodes, Absorb(n) PROVE Log!Forget(n) \/ UNCHANGED <<Sent, shown, forgot>>
  BY <1>4 DEF Absorb, Log!Forget, sends, Sent
<1>5. ASSUME NEW n \in Nodes, Crash(n) PROVE Log!Restart(n)
  BY <1>5 DEF Crash, Log!Restart, Nothing, Log!Nothing, sends, Sent
<1>6. ASSUME NEW n \in Nodes, NEW m \in Messages, PushPending(n, m)
      PROVE  Log!Send(n, m) /\ UNCHANGED forgot
  <2>1. /\ Sends(n, m) /\ stage[m] = "minted" /\ Advance(m, "pending") /\ Push(n, m, "pending")
        /\ UNCHANGED <<up, life, seq, forgot>>
    BY <1>6 DEF PushPending, Sending
  <2>2. m \notin Sent /\ shown[n][m] = << >> /\ m.author = n
    BY <2>1 DEF IInv, SourceInv, Sent, Sends
  <2>3. Sent' = Sent \cup {m}
    <3>1. "pending" \in Stages \ {"none", "minted"}
      BY DEF Stages
    <3> QED
      BY <2>1, <3>1, ProgressKeeps
  <2> QED
    BY <2>1, <2>2, <2>3 DEF Log!Send, Log!Show, Push
<1>7. ASSUME NEW n \in Nodes, NEW m \in Messages,
             Publish(n, m) \/ SendLands(n, m) \/ PutReturns(n, m)
      PROVE  UNCHANGED <<Sent, shown, forgot>>
  <2>1. PICK to \in Stages \ {"none", "minted"} : Advance(m, to)
    BY <1>7 DEF Publish, SendLands, PutReturns, PutAnswers, Stages
  <2>2. m \in Sent /\ UNCHANGED <<up, life, seq, shown, forgot>>
    BY <1>7 DEF Publish, SendLands, PutReturns, PutAnswers, Sending, Sent
  <2>3. Sent' = Sent \cup {m}
    BY <2>1, <2>2, ProgressKeeps DEF Sent
  <2> QED
    BY <2>2, <2>3
<1>8. ASSUME NEW n \in Nodes, NEW m \in Messages, PushTerminal(n, m)
      PROVE  Log!Finish(n, m) /\ UNCHANGED forgot
  <2>1. PICK state \in {"complete", "error"} : Push(n, m, state)
    BY <1>8 DEF PushTerminal, TerminalEcho
  <2>2. /\ Sends(n, m) /\ stage[m] \in {"completing", "failing"} /\ Advance(m, "done")
        /\ UNCHANGED <<up, life, seq, forgot>>
    BY <1>8 DEF PushTerminal, TerminalEcho, Sending
  <2>3. m.author = n /\ m \in Sent /\ (shown[n][m] = <<"pending">> \/ n \in forgot)
    BY <2>2 DEF IInv, EchoInv, Sent, Sends
  <2>4. Sent' = Sent \cup {m}
    <3>1. "done" \in Stages \ {"none", "minted"}
      BY DEF Stages
    <3> QED
      BY <2>2, <3>1, ProgressKeeps
  <2> QED
    BY <2>1, <2>2, <2>3, <2>4 DEF Log!Finish, Log!Show, Push
<1>9. ASSUME NEW n \in Nodes, NEW m \in Messages, LiveArrives(n, m) \/ HealArrives(n, m)
      PROVE  Log!Forget(n) \/ UNCHANGED <<Sent, shown, forgot>>
  BY <1>9 DEF LiveArrives, HealArrives, Applies, Remember, Log!Forget, sends, Sent
<1>10. ASSUME NEW n \in Nodes, NEW m \in Messages, Merge(n, m)
       PROVE  UNCHANGED <<Sent, shown, forgot>>
  BY <1>10 DEF Merge, sends, Sent
<1>11. ASSUME NEW n \in Nodes, NEW m \in Messages, Apply(n, m)
       PROVE  Log!Receive(n, m) /\ UNCHANGED forgot
  <2>1. /\ m \in applying[n] /\ Push(n, m, "complete") /\ UNCHANGED <<Sent, forgot>>
    BY <1>11 DEF Apply, sends, Sent
  <2>2. m \in Sent /\ (shown[n][m] = << >> \/ n \in forgot)
    BY <2>1 DEF IInv, SourceInv, ApplyInv
  <2> QED
    BY <2>1, <2>2 DEF Log!Receive, Log!Show, Push
<1>12. CASE Next
  <2>1. PICK n \in Nodes :
           \/ Mint(n) \/ ArchiveWorker(n) \/ QueryHistory(n) \/ Absorb(n) \/ Start(n) \/ Crash(n)
           \/ \E m \in Messages :
                 SendStep(n, m) \/ LiveArrives(n, m) \/ Merge(n, m) \/ ReceiveStep(n, m)
    BY <1>12 DEF Next
  <2>2. \/ Log!Forget(n) \/ Log!Restart(n) \/ UNCHANGED <<Sent, shown, forgot>>
        \/ \E m \in Messages :
              (Log!Send(n, m) \/ Log!Finish(n, m) \/ Log!Receive(n, m)) /\ UNCHANGED forgot
    BY <1>2, <1>3, <1>4, <1>5, <1>6, <1>7, <1>8, <1>9, <1>10, <1>11, <2>1 DEF SendStep, ReceiveStep
  <2> QED
    BY <2>2 DEF Log!Next
<1> QED
  BY <1>1, <1>12

\* What the user sees of a room is what RoomLog allows: a send is shown pending and then
\* once complete or failed, a peer's message only if it was sent, and once, however often
\* it is delivered and however replays and crashes fall, until m_seenIds is cleared.
THEOREM Implements == Spec => ShowsOnce
<1>1. Init => Log!Init
  BY DEF Init, Log!Init, Nothing, Log!Nothing, Sent
<1> QED
  BY <1>1, Invariance, StepIsLogged, PTL DEF Spec, ShowsOnce, Log!Spec
=============================================================================
