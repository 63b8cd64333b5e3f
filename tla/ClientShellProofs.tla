--------------------------- MODULE ClientShellProofs ---------------------------
(***************************************************************************)
(* Proofs about ClientShell for every number of rooms, messages, selections*)
(* and dialogs, and a port of any length: its safety properties, from one  *)
(* inductive invariant.  Beside the properties it says what is on the way, *)
(* on the port, to what the rail and the flow do not show yet.             *)
(***************************************************************************)
EXTENDS ClientShell, FiniteSetTheorems, SequenceTheorems, TLAPS

-----------------------------------------------------------------------------
(* Sequences made of sets, and the port.                                   *)

\* A finite set as a sequence: each element once.
LEMMA SetToSeqLists ==
    ASSUME NEW S, IsFiniteSet(S)
    PROVE  /\ SetToSeq(S) \in Seq(S)
           /\ \A k, l \in 1..Len(SetToSeq(S)) : SetToSeq(S)[k] = SetToSeq(S)[l] => k = l
           /\ \A x \in S : \E k \in 1..Len(SetToSeq(S)) : SetToSeq(S)[k] = x
<1> DEFINE n == Cardinality(S)
<1>1. n \in Nat /\ ExistsBijection(1..n, S)
  BY FS_CardinalityType
<1>2. \E f \in [1..n -> S] : IsInjective(f)
  BY <1>1 DEF ExistsBijection, Bijection, Injection
<1>3. SetToSeq(S) \in [1..n -> S] /\ IsInjective(SetToSeq(S))
  BY <1>2 DEF SetToSeq
<1>4. Cardinality(1..n) = n
  BY <1>1, FS_Interval
<1>5. SetToSeq(S) \in Injection(1..n, S)
  BY <1>3 DEF Injection
<1>6. SetToSeq(S) \in Surjection(1..n, S)
  BY <1>4, <1>5, FS_Injection
<1>7. SetToSeq(S) \in Seq(S) /\ Len(SetToSeq(S)) = n
  BY <1>1, <1>3
<1> QED
  BY <1>3, <1>6, <1>7 DEF IsInjective, Surjection

\* What an event of each kind carries.
LEMMA EventFields ==
    ASSUME NEW e \in Event
    PROVE  /\ e.kind = "spaceTree" => e.space \in Spaces /\ e.parent \in Parents
           /\ e.kind = "roomList" => e.rooms \subseteq Room
           /\ e.kind = "message" => e.id \in Message /\ e.room \in Room /\ e.state \in States
           /\ e.kind = "messageHistory" => e.room \in Room /\ e.messages \in Seq(Message)
  BY DEF Event

\* The head of the port is taken off.
LEMMA TakeIndex ==
    ASSUME port \in Seq(Event), port # <<>>, port' = Tail(port)
    PROVE  /\ port' \in Seq(Event) /\ Len(port) \in Nat /\ Len(port) >= 1
           /\ Head(port) = port[1] /\ port[1] \in Event
           /\ Len(port') = Len(port) - 1
           /\ \A i \in 1..Len(port') : port'[i] = port[i + 1] /\ i + 1 \in 1..Len(port)
           /\ \A i \in 1..Len(port) : i = 1 \/ (i - 1 \in 1..Len(port') /\ port'[i - 1] = port[i])
<1>1. port' \in Seq(Event) /\ Len(port') = Len(port) - 1 /\ Len(port) \in Nat /\ Len(port) >= 1
  BY HeadTailProperties, EmptySeq
<1>2. Head(port) = port[1] /\ port[1] \in Event
  BY <1>1
<1>3. \A i \in 1..(Len(port) - 1) : Tail(port)[i] = port[i + 1]
  BY HeadTailProperties
<1> QED
  BY <1>1, <1>2, <1>3

\* Events are posted.
LEMMA PostIndex ==
    ASSUME port \in Seq(Event), NEW evs \in Seq(Event), port' = port \o evs
    PROVE  /\ port' \in Seq(Event) /\ Len(port) \in Nat /\ Len(evs) \in Nat
           /\ Len(port') = Len(port) + Len(evs)
           /\ \A i \in 1..Len(port) : i \in 1..Len(port') /\ port'[i] = port[i]
           /\ \A k \in 1..Len(evs) : Len(port) + k \in 1..Len(port') /\ port'[Len(port) + k] = evs[k]
           /\ \A i \in 1..Len(port') :
                 i \in 1..Len(port) \/ \E k \in 1..Len(evs) : i = Len(port) + k
<1>1. port' \in Seq(Event) /\ Len(port) \in Nat /\ Len(evs) \in Nat
      /\ Len(port') = Len(port) + Len(evs)
  BY ConcatProperties
<1>2. \A i \in 1..Len(port) : port'[i] = port[i]
  BY ConcatProperties
<1>3. \A i \in 1..(Len(port) + Len(evs)) :
         port'[i] = IF i <= Len(port) THEN port[i] ELSE evs[i - Len(port)]
  BY ConcatProperties
<1>4. \A k \in 1..Len(evs) : port'[Len(port) + k] = evs[k]
  BY <1>1, <1>3
<1>5. ASSUME NEW i \in 1..Len(port'), i \notin 1..Len(port)
      PROVE  \E k \in 1..Len(evs) : i = Len(port) + k
  <2>1. i - Len(port) \in 1..Len(evs) /\ i = Len(port) + (i - Len(port))
    BY <1>1, <1>5
  <2> QED
    BY <2>1
<1> QED
  BY <1>1, <1>2, <1>4, <1>5

-----------------------------------------------------------------------------
(* What a dispatched event leaves of the invariant on the port.            *)

\* An event is taken off, and the core does nothing.
Taken ==
    /\ port # <<>> /\ port' = Tail(port)
    /\ shell = "shown" /\ shell' = "shown"
    /\ UNCHANGED <<open, late, catalog, membership, messages, handle, form, refused>>

LEMMA TakenPlaces ==
    ASSUME TypeOK, PortInv, Taken
    PROVE  PortInv'
<1>1. \A i \in 1..Len(port') : port'[i] = port[i + 1] /\ i + 1 \in 1..Len(port)
  BY TakeIndex DEF TypeOK, CoreOK, Taken
<1>2. where' = where
  BY DEF Taken, messages
<1> QED
  BY <1>1, <1>2 DEF PortInv

\* The rail shows the tree that was taken off, or the one it had.
LEMMA TakenGrowing ==
    ASSUME TypeOK, GrowingInv, Taken,
           \/ rail'.parent = rail.parent
           \/ port[1].kind = "spaceTree" /\ rail'.parent = port[1].parent
    PROVE  GrowingInv'
<1>1. /\ \A i \in 1..Len(port') : port'[i] = port[i + 1] /\ i + 1 \in 1..Len(port)
      /\ 1 \in 1..Len(port) /\ Len(port) \in Nat /\ Len(port') = Len(port) - 1
  BY TakeIndex DEF TypeOK, CoreOK, Taken
<1>2. parent' = parent
  BY DEF Taken, catalog
<1>3. ASSUME NEW r \in Room, Exists(rail'.parent, r)
      PROVE  Exists(parent', r) /\ \A i \in 1..Len(port') :
                                      port'[i].kind = "spaceTree" => Exists(port'[i].parent, r)
  <2>1. CASE rail'.parent = rail.parent
    BY <1>1, <1>2, <1>3, <2>1 DEF GrowingInv
  <2>2. CASE port[1].kind = "spaceTree" /\ rail'.parent = port[1].parent
    BY <1>1, <1>2, <1>3, <2>2 DEF GrowingInv
  <2> QED
    BY <2>1, <2>2
<1>4. ASSUME NEW i \in 1..Len(port'), NEW r \in Room,
             port'[i].kind = "spaceTree", Exists(port'[i].parent, r)
      PROVE  Exists(parent', r) /\ \A j \in i..Len(port') :
                                      port'[j].kind = "spaceTree" => Exists(port'[j].parent, r)
  <2>1. port[i + 1].kind = "spaceTree" /\ Exists(port[i + 1].parent, r)
    BY <1>1, <1>4
  <2>2. Exists(parent, r) /\ \A j \in (i + 1)..Len(port) :
                                port[j].kind = "spaceTree" => Exists(port[j].parent, r)
    BY <1>1, <2>1 DEF GrowingInv
  <2>3. \A j \in i..Len(port') : j + 1 \in (i + 1)..Len(port) /\ port'[j] = port[j + 1]
    BY <1>1
  <2> QED
    BY <1>2, <2>2, <2>3
<1> QED
  BY <1>3, <1>4 DEF GrowingInv, Exists

\* A tree that is taken off before a list is on the rail by then.
LEMMA TakenListed ==
    ASSUME TypeOK, GrowingInv, ListedInv, Taken,
           port[1].kind = "spaceTree" => rail'.parent = port[1].parent,
           port[1].kind # "spaceTree" => rail'.parent = rail.parent
    PROVE  ListedInv'
<1>1. /\ \A i \in 1..Len(port') : port'[i] = port[i + 1] /\ i + 1 \in 1..Len(port)
      /\ \A i \in 1..Len(port) : i = 1 \/ (i - 1 \in 1..Len(port') /\ port'[i - 1] = port[i])
      /\ 1 \in 1..Len(port) /\ Len(port) \in Nat /\ Len(port') = Len(port) - 1
  BY TakeIndex DEF TypeOK, CoreOK, Taken
<1>2. joined' = joined
  BY DEF Taken, membership, joined
<1>3. joined \subseteq Room
  BY DEF TypeOK, CoreOK, joined
<1>4. ASSUME NEW n \in 0..Len(port'), NEW r \in Room, Exists(rail.parent, r) \/ TreeBefore(port, n + 1, r)
      PROVE  Exists(rail'.parent, r) \/ TreeBefore(port', n, r)
  <2>1. CASE Exists(rail.parent, r)
    <3>1. port[1].kind = "spaceTree" => Exists(port[1].parent, r)
      BY <1>1, <2>1 DEF GrowingInv
    <3> QED
      BY <2>1, <3>1
  <2>2. CASE TreeBefore(port, n + 1, r)
    <3>1. PICK j \in 1..(n + 1) : port[j].kind = "spaceTree" /\ Exists(port[j].parent, r)
      BY <2>2 DEF TreeBefore
    <3>2. CASE j = 1
      BY <3>1, <3>2
    <3>3. CASE j # 1
      <4>1. j \in 1..Len(port) /\ j - 1 \in 1..n
        BY <1>1, <3>3
      <4>2. port'[j - 1] = port[j]
        BY <1>1, <3>3, <4>1
      <4> QED
        BY <3>1, <4>1, <4>2 DEF TreeBefore
    <3> QED
      BY <3>2, <3>3
  <2> QED
    BY <1>4, <2>1, <2>2
<1>5. ASSUME NEW i \in 1..Len(port'), NEW r \in Room, port'[i].kind = "roomList", r \in port'[i].rooms
      PROVE  Exists(rail'.parent, r) \/ TreeBefore(port', i, r)
  <2>1. port[i + 1].kind = "roomList" /\ r \in port[i + 1].rooms
    BY <1>1, <1>5
  <2>2. Exists(rail.parent, r) \/ TreeBefore(port, i + 1, r)
    BY <1>1, <2>1 DEF ListedInv
  <2>3. i \in 0..Len(port')
    BY <1>1
  <2> QED
    BY <1>4, <2>2, <2>3
<1>6. ASSUME NEW r \in joined'
      PROVE  Exists(rail'.parent, r) \/ TreeBefore(port', Len(port'), r)
  <2>1. Exists(rail.parent, r) \/ TreeBefore(port, Len(port') + 1, r)
    BY <1>1, <1>2, <1>6 DEF ListedInv
  <2>2. Len(port') \in 0..Len(port') /\ r \in Room
    BY <1>1, <1>2, <1>3, <1>6
  <2> QED
    BY <1>4, <2>1, <2>2
<1> QED
  BY <1>5, <1>6 DEF ListedInv, Exists

\* What the rail has is what was taken off, or what it had.
LEMMA TakenMirror ==
    ASSUME TypeOK, MirrorInv, Taken,
           port[1].kind = "spaceTree" => rail'.space = port[1].space /\ rail'.parent = port[1].parent,
           port[1].kind # "spaceTree" => rail'.space = rail.space /\ rail'.parent = rail.parent,
           port[1].kind = "roomList" => rail'.rooms = port[1].rooms,
           port[1].kind # "roomList" => rail'.rooms = rail.rooms
    PROVE  MirrorInv'
<1>1. /\ \A i \in 1..Len(port') : port'[i] = port[i + 1] /\ i + 1 \in 1..Len(port)
      /\ \A i \in 1..Len(port) : i = 1 \/ (i - 1 \in 1..Len(port') /\ port'[i - 1] = port[i])
      /\ 1 \in 1..Len(port) /\ Len(port) \in Nat /\ Len(port') = Len(port) - 1
  BY TakeIndex DEF TypeOK, CoreOK, Taken
<1>2. space' = space /\ parent' = parent /\ joined' = joined
  BY DEF Taken, catalog, membership, joined
<1>3. ASSUME NEW n \in 1..Len(port), NEW kind, NoneAfter(port, n, kind)
      PROVE  NoneAfter(port', n - 1, kind)
  <2>1. \A k \in ((n - 1) + 1)..Len(port') : k + 1 \in (n + 1)..Len(port) /\ port'[k] = port[k + 1]
    BY <1>1
  <2> QED
    BY <1>3, <2>1 DEF NoneAfter
<1>4. ASSUME NEW i \in 1..Len(port), i # 1
      PROVE  i - 1 \in 1..Len(port') /\ port'[i - 1] = port[i]
  BY <1>1, <1>4
<1>5. /\ NoneAfter(port, 1, "spaceTree") => NoneAfter(port', 0, "spaceTree")
      /\ NoneAfter(port, 1, "roomList") => NoneAfter(port', 0, "roomList")
  <2>1. 1 \in 1..Len(port) /\ 1 - 1 = 0
    BY <1>1
  <2> QED
    BY <1>3, <2>1
<1>6. \/ NoneAfter(port', 0, "spaceTree") /\ rail'.space = space' /\ rail'.parent = parent'
      \/ \E i \in 1..Len(port') :
            /\ port'[i].kind = "spaceTree" /\ port'[i].space = space' /\ port'[i].parent = parent'
            /\ NoneAfter(port', i, "spaceTree")
  <2>1. CASE NoneAfter(port, 0, "spaceTree") /\ rail.space = space /\ rail.parent = parent
    <3>1. port[1].kind # "spaceTree" /\ NoneAfter(port, 1, "spaceTree")
      BY <1>1, <2>1 DEF NoneAfter
    <3> QED
      BY <1>2, <1>5, <2>1, <3>1
  <2>2. CASE \E i \in 1..Len(port) :
                /\ port[i].kind = "spaceTree" /\ port[i].space = space /\ port[i].parent = parent
                /\ NoneAfter(port, i, "spaceTree")
    <3>1. PICK i \in 1..Len(port) :
                /\ port[i].kind = "spaceTree" /\ port[i].space = space /\ port[i].parent = parent
                /\ NoneAfter(port, i, "spaceTree")
      BY <2>2
    <3>2. CASE i = 1
      BY <1>2, <1>5, <3>1, <3>2
    <3>3. CASE i # 1
      <4>1. i - 1 \in 1..Len(port') /\ port'[i - 1] = port[i]
        BY <1>4, <3>3
      <4>3. NoneAfter(port', i - 1, "spaceTree")
        BY <1>3, <3>1
      <4> QED
        BY <1>2, <3>1, <4>1, <4>3
    <3> QED
      BY <3>2, <3>3
  <2> QED
    BY <2>1, <2>2 DEF MirrorInv, Taken
<1>7. \/ NoneAfter(port', 0, "roomList") /\ rail'.rooms = joined'
      \/ \E i \in 1..Len(port') :
            port'[i].kind = "roomList" /\ port'[i].rooms = joined' /\ NoneAfter(port', i, "roomList")
  <2>1. CASE NoneAfter(port, 0, "roomList") /\ rail.rooms = joined
    <3>1. port[1].kind # "roomList" /\ NoneAfter(port, 1, "roomList")
      BY <1>1, <2>1 DEF NoneAfter
    <3> QED
      BY <1>2, <1>5, <2>1, <3>1
  <2>2. CASE \E i \in 1..Len(port) :
                port[i].kind = "roomList" /\ port[i].rooms = joined /\ NoneAfter(port, i, "roomList")
    <3>1. PICK i \in 1..Len(port) :
                port[i].kind = "roomList" /\ port[i].rooms = joined /\ NoneAfter(port, i, "roomList")
      BY <2>2
    <3>2. CASE i = 1
      BY <1>2, <1>5, <3>1, <3>2
    <3>3. CASE i # 1
      <4>1. i - 1 \in 1..Len(port') /\ port'[i - 1] = port[i]
        BY <1>4, <3>3
      <4>3. NoneAfter(port', i - 1, "roomList")
        BY <1>3, <3>1
      <4> QED
        BY <1>2, <3>1, <4>1, <4>3
    <3> QED
      BY <3>2, <3>3
  <2> QED
    BY <2>1, <2>2 DEF MirrorInv, Taken
<1> QED
  BY <1>6, <1>7 DEF MirrorInv

\* A message of the room on screen that was shown, or that is taken off, is shown; or a
\* history without it is, and then it comes later.
LEMMA TakenFlow ==
    ASSUME TypeOK, WhereInv, FlowInv, Taken,
           activeRoom' \in {activeRoom, NoRoom},
           \A m \in pushed \ late : activeRoom' = where[m] /\ (Shown(m) \/ Shows(port[1], m)) =>
              \/ \E i \in 1..Len(flow') : flow'[i].id = m
              \/ port[1].kind = "messageHistory" /\ port[1].room = where[m] /\ ~Shows(port[1], m)
    PROVE  FlowInv'
<1>1. /\ \A i \in 1..Len(port') : port'[i] = port[i + 1] /\ i + 1 \in 1..Len(port)
      /\ \A i \in 1..Len(port) : i = 1 \/ (i - 1 \in 1..Len(port') /\ port'[i - 1] = port[i])
      /\ 1 \in 1..Len(port) /\ Len(port) \in Nat /\ Len(port') = Len(port) - 1
  BY TakeIndex DEF TypeOK, CoreOK, Taken
<1>2. pushed' = pushed /\ late' = late /\ where' = where /\ refused' = refused
  BY DEF Taken, messages
<1> SUFFICES ASSUME NEW m \in pushed \ late
             PROVE  /\ \A i \in 1..Len(port') :
                          port'[i].kind = "messageHistory" /\ port'[i].room = where[m] /\ ~Shows(port'[i], m) =>
                              \E j \in i..Len(port') : Shows(port'[j], m)
                    /\ activeRoom' = where[m] /\ ~refused =>
                          \/ \E i \in 1..Len(flow') : flow'[i].id = m
                          \/ \E j \in 1..Len(port') : Shows(port'[j], m)
  BY <1>2 DEF FlowInv, Shown, Shows
<1>3. ASSUME NEW i \in 1..Len(port), NEW j \in i..Len(port), j # 1, Shows(port[j], m)
      PROVE  \E l \in 1..Len(port') : l >= i - 1 /\ Shows(port'[l], m)
  <2>1. j \in 1..Len(port)
    BY <1>1
  <2>2. j - 1 \in 1..Len(port') /\ port'[j - 1] = port[j] /\ j - 1 >= i - 1
    BY <1>1, <1>3, <2>1
  <2> QED
    BY <1>3, <2>2
<1>4. ASSUME NEW i \in 1..Len(port'),
             port'[i].kind = "messageHistory", port'[i].room = where[m], ~Shows(port'[i], m)
      PROVE  \E j \in i..Len(port') : Shows(port'[j], m)
  <2>1. i + 1 \in 1..Len(port) /\ port'[i] = port[i + 1]
    BY <1>1
  <2>2. PICK j \in (i + 1)..Len(port) : Shows(port[j], m)
    BY <1>4, <2>1 DEF FlowInv
  <2>3. j # 1
    BY <1>1
  <2>4. PICK l \in 1..Len(port') : l >= (i + 1) - 1 /\ Shows(port'[l], m)
    BY <1>3, <2>1, <2>2, <2>3
  <2>5. l \in i..Len(port')
    BY <1>1, <2>4
  <2> QED
    BY <2>4, <2>5
<1>5. ASSUME activeRoom' = where[m], ~refused
      PROVE  \/ \E i \in 1..Len(flow') : flow'[i].id = m
             \/ \E j \in 1..Len(port') : Shows(port'[j], m)
  <2>1. activeRoom = where[m]
    BY <1>5, ClientAssumption DEF WhereInv
  <2>2. CASE Shown(m) \/ Shows(port[1], m)
    <3>1. CASE \E i \in 1..Len(flow') : flow'[i].id = m
      BY <3>1
    <3>2. CASE port[1].kind = "messageHistory" /\ port[1].room = where[m] /\ ~Shows(port[1], m)
      <4>1. PICK j \in 1..Len(port) : Shows(port[j], m)
        BY <1>1, <3>2 DEF FlowInv
      <4> QED
        BY <1>1, <1>3, <3>2, <4>1
    <3> QED
      BY <1>5, <2>2, <3>1, <3>2
  <2>3. CASE ~Shown(m) /\ ~Shows(port[1], m)
    <3>1. PICK j \in 1..Len(port) : Shows(port[j], m)
      BY <1>5, <2>1, <2>3 DEF FlowInv
    <3> QED
      BY <1>1, <1>3, <2>3, <3>1
  <2> QED
    BY <2>2, <2>3
<1> QED
  BY <1>4, <1>5

-----------------------------------------------------------------------------
(* What a posting step leaves of it.                                       *)

\* The core posts evs; what is known of them says the port's part of the invariant.
Posts(evs) == evs \in Seq(Event) /\ port' = port \o evs /\ UNCHANGED rail

\* A message keeps its room, and evs says it.
PostsPlaces(evs) ==
    /\ \A m \in Message : where[m] # Nowhere => where'[m] = where[m]
    /\ \A k \in 1..Len(evs) :
          /\ evs[k].kind = "message" => where'[evs[k].id] = evs[k].room
          /\ evs[k].kind = "messageHistory" =>
                LET batch == evs[k].messages
                IN  /\ \A i \in 1..Len(batch) : where'[batch[i]] = evs[k].room
                    /\ \A i, l \in 1..Len(batch) : batch[i] = batch[l] => i = l

\* Rooms are only created, and a tree is the one after the step.
PostsGrowing(evs) ==
    /\ \A r \in Room : Exists(parent, r) => Exists(parent', r)
    /\ \A k \in 1..Len(evs) : evs[k].kind = "spaceTree" => evs[k].parent = parent'

Known(r) == r \in joined \/ Exists(rail.parent, r)

\* A room that is joined by the step, or listed in evs, was joined or has its row, or an
\* earlier tree of evs has it.
PostsListed(evs) ==
    /\ \A r \in joined' : Known(r) \/ TreeBefore(evs, Len(evs), r)
    /\ \A k \in 1..Len(evs) : evs[k].kind = "roomList" =>
          \A r \in evs[k].rooms : Known(r) \/ TreeBefore(evs, k, r)

\* The last tree and the last list of evs are the core's, and there is one if it changed.
PostsMirror(evs) ==
    shell' = "shown" =>
        /\ \/ shell = "shown" /\ UNCHANGED catalog /\ NoneAfter(evs, 0, "spaceTree")
           \/ \E k \in 1..Len(evs) :
                 /\ evs[k].kind = "spaceTree" /\ evs[k].space = space' /\ evs[k].parent = parent'
                 /\ NoneAfter(evs, k, "spaceTree")
        /\ \/ shell = "shown" /\ joined' = joined /\ NoneAfter(evs, 0, "roomList")
           \/ \E k \in 1..Len(evs) :
                 evs[k].kind = "roomList" /\ evs[k].rooms = joined' /\ NoneAfter(evs, k, "roomList")

\* A message that is pushed by the step, or is on screen by a selection, is in evs; and a
\* history in evs without a message of its room makes the message late.
PostsFlow(evs) ==
    /\ late \subseteq late'
    /\ \A m \in pushed' \ late' :
          /\ m \in pushed \/ \E k \in 1..Len(evs) : Shows(evs[k], m)
          /\ \A k \in 1..Len(evs) :
                evs[k].kind = "messageHistory" /\ evs[k].room = where'[m] /\ ~Shows(evs[k], m) =>
                    \E j \in k..Len(evs) : Shows(evs[j], m)
          /\ activeRoom' = where'[m] /\ ~refused' =>
                \/ m \in pushed /\ activeRoom' = activeRoom /\ refused' = refused /\ flow' = flow
                \/ \E k \in 1..Len(evs) : Shows(evs[k], m)

LEMMA PostPlaces ==
    ASSUME TypeOK, PortInv, NEW evs, Posts(evs), PostsPlaces(evs)
    PROVE  PortInv'
<1>1. /\ \A i \in 1..Len(port) : port'[i] = port[i]
      /\ \A k \in 1..Len(evs) : port'[Len(port) + k] = evs[k]
      /\ \A i \in 1..Len(port') : i \in 1..Len(port) \/ \E k \in 1..Len(evs) : i = Len(port) + k
  BY PostIndex DEF TypeOK, CoreOK, Posts
<1> SUFFICES ASSUME NEW i \in 1..Len(port')
             PROVE  /\ port'[i].kind = "message" => where'[port'[i].id] = port'[i].room
                    /\ port'[i].kind = "messageHistory" =>
                          LET batch == port'[i].messages
                          IN  /\ \A k \in 1..Len(batch) : where'[batch[k]] = port'[i].room
                              /\ \A k, l \in 1..Len(batch) : batch[k] = batch[l] => k = l
  BY DEF PortInv
<1>2. CASE i \in 1..Len(port)
  <2>1. port[i] \in Event /\ port'[i] = port[i]
    BY <1>1, <1>2, ElementOfSeq DEF TypeOK, CoreOK
  <2>2. CASE port[i].kind = "message"
    <3>1. port[i].id \in Message /\ port[i].room \in Room
      BY <2>1, <2>2, EventFields
    <3>2. where[port[i].id] = port[i].room
      BY <1>2, <2>2 DEF PortInv
    <3> QED
      BY <2>1, <2>2, <3>1, <3>2, CoreAssumption DEF PostsPlaces
  <2>3. CASE port[i].kind = "messageHistory"
    <3> DEFINE batch == port[i].messages
    <3>1. batch \in Seq(Message) /\ port[i].room \in Room
      BY <2>1, <2>3, EventFields
    <3>2. /\ \A k \in 1..Len(batch) : where[batch[k]] = port[i].room
          /\ \A k, l \in 1..Len(batch) : batch[k] = batch[l] => k = l
      BY <1>2, <2>3 DEF PortInv
    <3>3. \A k \in 1..Len(batch) : batch[k] \in Message
      BY <3>1, ElementOfSeq
    <3>4. \A k \in 1..Len(batch) : where'[batch[k]] = port[i].room
      BY <3>1, <3>2, <3>3, CoreAssumption DEF PostsPlaces
    <3> QED
      BY <2>1, <2>3, <3>2, <3>4
  <2> QED
    BY <2>1, <2>2, <2>3
<1>3. CASE \E k \in 1..Len(evs) : i = Len(port) + k
  BY <1>1, <1>3 DEF PostsPlaces
<1> QED
  BY <1>1, <1>2, <1>3

\* Where the events of port' come from.
LEMMA PostPort ==
    ASSUME TypeOK, NEW evs, Posts(evs)
    PROVE  /\ Len(port) \in Nat /\ Len(evs) \in Nat /\ Len(port') = Len(port) + Len(evs)
           /\ port' \in Seq(Event) /\ rail' = rail
           /\ \A i \in 1..Len(port) : i \in 1..Len(port') /\ port'[i] = port[i]
           /\ \A k \in 1..Len(evs) : Len(port) + k \in 1..Len(port') /\ port'[Len(port) + k] = evs[k]
           /\ \A i \in 1..Len(port') :
                 i \in 1..Len(port) \/ \E k \in 1..Len(evs) : i = Len(port) + k
  BY PostIndex DEF TypeOK, CoreOK, Posts

LEMMA PostGrowing ==
    ASSUME TypeOK, GrowingInv, NEW evs, Posts(evs), PostsGrowing(evs)
    PROVE  GrowingInv'
<1>1. /\ rail' = rail
      /\ \A i \in 1..Len(port') :
            \/ i \in 1..Len(port) /\ port'[i] = port[i]
            \/ \E k \in 1..Len(evs) : port'[i] = evs[k]
  <2>1. rail' = rail
    BY PostPort
  <2>2. ASSUME NEW i \in 1..Len(port'), i \notin 1..Len(port)
        PROVE  \E k \in 1..Len(evs) : port'[i] = evs[k]
    <3>1. PICK k \in 1..Len(evs) : i = Len(port) + k
      BY <2>2, PostPort
    <3>2. port'[Len(port) + k] = evs[k]
      BY PostPort
    <3> QED
      BY <3>1, <3>2
  <2>3. \A i \in 1..Len(port) : port'[i] = port[i]
    BY PostPort
  <2> QED
    BY <2>1, <2>2, <2>3
<1>2. \A i \in 1..Len(port') :
         \/ i \in 1..Len(port) /\ port'[i] = port[i]
         \/ port'[i].kind = "spaceTree" => port'[i].parent = parent'
  BY <1>1 DEF PostsGrowing
<1>3. ASSUME NEW r \in Room, Exists(rail.parent, r)
      PROVE  Exists(parent', r) /\ \A i \in 1..Len(port') :
                                      port'[i].kind = "spaceTree" => Exists(port'[i].parent, r)
  <2>1. Exists(parent, r) /\ \A i \in 1..Len(port) :
                                port[i].kind = "spaceTree" => Exists(port[i].parent, r)
    BY <1>3 DEF GrowingInv
  <2>2. Exists(parent', r)
    BY <2>1 DEF PostsGrowing
  <2> QED
    BY <1>2, <2>1, <2>2
<1>4. ASSUME NEW i \in 1..Len(port'), NEW r \in Room,
             port'[i].kind = "spaceTree", Exists(port'[i].parent, r)
      PROVE  Exists(parent', r) /\ \A j \in i..Len(port') :
                                      port'[j].kind = "spaceTree" => Exists(port'[j].parent, r)
  <2>1. Exists(parent', r)
    <3>1. CASE i \in 1..Len(port) /\ port'[i] = port[i]
      <4>1. Exists(parent, r)
        BY <1>4, <3>1 DEF GrowingInv
      <4> QED
        BY <4>1 DEF PostsGrowing
    <3>2. CASE port'[i].parent = parent'
      BY <1>4, <3>2
    <3> QED
      BY <1>2, <1>4, <3>1, <3>2
  <2>2. ASSUME NEW j \in i..Len(port'), port'[j].kind = "spaceTree", port'[j].parent # parent'
        PROVE  Exists(port'[j].parent, r)
    <3>1. Len(port) \in Nat /\ Len(port') \in Nat /\ j \in 1..Len(port')
      BY PostPort
    <3>2. j \in 1..Len(port) /\ port'[j] = port[j]
      BY <1>2, <2>2, <3>1
    <3>3. i \in 1..Len(port) /\ j \in i..Len(port)
      BY <3>1, <3>2
    <3>4. port'[i] = port[i]
      BY <3>3, PostPort
    <3> QED
      BY <1>4, <2>2, <3>2, <3>3, <3>4 DEF GrowingInv
  <2> QED
    BY <2>1, <2>2
<1> QED
  BY <1>1, <1>3, <1>4 DEF GrowingInv, Exists

LEMMA PostListed ==
    ASSUME TypeOK, ListedInv, NEW evs, Posts(evs), PostsListed(evs)
    PROVE  ListedInv'
<1>1. /\ rail' = rail /\ Len(port) \in Nat /\ Len(evs) \in Nat /\ Len(port') = Len(port) + Len(evs)
      /\ \A i \in 1..Len(port) : i \in 1..Len(port') /\ port'[i] = port[i]
      /\ \A k \in 1..Len(evs) : Len(port) + k \in 1..Len(port') /\ port'[Len(port) + k] = evs[k]
      /\ \A i \in 1..Len(port') :
            i \in 1..Len(port) \/ \E k \in 1..Len(evs) : i = Len(port) + k
  BY PostPort
<1>2. ASSUME NEW n \in 1..Len(port), NEW k \in n..Len(port'), NEW r, TreeBefore(port, n, r)
      PROVE  TreeBefore(port', k, r)
  <2>1. PICK j \in 1..n : port[j].kind = "spaceTree" /\ Exists(port[j].parent, r)
    BY <1>2 DEF TreeBefore
  <2>2. j \in 1..Len(port) /\ j \in 1..k
    BY <1>1
  <2> QED
    BY <1>1, <2>1, <2>2 DEF TreeBefore
<1>3. ASSUME NEW k \in 0..Len(evs), NEW r, Known(r) \/ TreeBefore(evs, k, r)
      PROVE  Exists(rail.parent, r) \/ TreeBefore(port', Len(port) + k, r)
  <2>1. CASE TreeBefore(evs, k, r)
    <3>1. PICK j \in 1..k : evs[j].kind = "spaceTree" /\ Exists(evs[j].parent, r)
      BY <2>1 DEF TreeBefore
    <3>2. j \in 1..Len(evs) /\ Len(port) + j \in 1..(Len(port) + k)
      BY <1>1
    <3> QED
      BY <1>1, <3>1, <3>2 DEF TreeBefore
  <2>2. CASE r \in joined
    <3>1. CASE TreeBefore(port, Len(port), r)
      <4>1. PICK j \in 1..Len(port) : port[j].kind = "spaceTree" /\ Exists(port[j].parent, r)
        BY <3>1 DEF TreeBefore
      <4>2. j \in 1..(Len(port) + k)
        BY <1>1
      <4> QED
        BY <1>1, <4>1, <4>2 DEF TreeBefore
    <3> QED
      BY <2>2, <3>1 DEF ListedInv
  <2> QED
    BY <1>3, <2>1, <2>2 DEF Known
<1>4. ASSUME NEW i \in 1..Len(port'), NEW r \in Room, port'[i].kind = "roomList", r \in port'[i].rooms
      PROVE  Exists(rail.parent, r) \/ TreeBefore(port', i, r)
  <2>1. CASE i \in 1..Len(port)
    <3>1. Exists(rail.parent, r) \/ TreeBefore(port, i, r)
      BY <1>1, <1>4, <2>1 DEF ListedInv
    <3>2. i \in i..Len(port')
      BY <1>1
    <3> QED
      BY <1>2, <2>1, <3>1, <3>2
  <2>2. ASSUME NEW k \in 1..Len(evs), i = Len(port) + k
        PROVE  Exists(rail.parent, r) \/ TreeBefore(port', i, r)
    <3>1. evs[k].kind = "roomList" /\ r \in evs[k].rooms
      BY <1>1, <1>4, <2>2
    <3>2. Known(r) \/ TreeBefore(evs, k, r)
      BY <3>1 DEF PostsListed
    <3>3. k \in 0..Len(evs)
      BY <1>1
    <3> QED
      BY <1>3, <2>2, <3>2, <3>3
  <2> QED
    BY <1>1, <2>1, <2>2
<1>5. ASSUME NEW r \in joined'
      PROVE  Exists(rail.parent, r) \/ TreeBefore(port', Len(port'), r)
  <2>1. Len(evs) \in 0..Len(evs)
    BY <1>1
  <2> QED
    BY <1>1, <1>3, <2>1 DEF PostsListed
<1> QED
  BY <1>1, <1>4, <1>5 DEF ListedInv, Exists

LEMMA PostMirror ==
    ASSUME TypeOK, MirrorInv, NEW evs, Posts(evs), PostsMirror(evs)
    PROVE  MirrorInv'
<1>1. /\ rail' = rail /\ Len(port) \in Nat /\ Len(evs) \in Nat /\ Len(port') = Len(port) + Len(evs)
      /\ \A i \in 1..Len(port) : i \in 1..Len(port') /\ port'[i] = port[i]
      /\ \A k \in 1..Len(evs) : Len(port) + k \in 1..Len(port') /\ port'[Len(port) + k] = evs[k]
      /\ \A i \in 1..Len(port') :
            i \in 1..Len(port) \/ \E k \in 1..Len(evs) : i = Len(port) + k
  BY PostPort
<1>2. ASSUME NEW n \in 0..Len(port), NEW kind, NoneAfter(port, n, kind), NoneAfter(evs, 0, kind)
      PROVE  NoneAfter(port', n, kind)
  <2> SUFFICES ASSUME NEW i \in (n + 1)..Len(port')
               PROVE  port'[i].kind # kind
    BY DEF NoneAfter
  <2>1. i \in 1..Len(port')
    OBVIOUS
  <2>2. CASE i \in 1..Len(port)
    <3>1. i \in (n + 1)..Len(port)
      BY <2>2
    <3> QED
      BY <1>1, <1>2, <2>2, <3>1 DEF NoneAfter
  <2>3. ASSUME NEW k \in 1..Len(evs), i = Len(port) + k
        PROVE  port'[i].kind # kind
    <3>1. k \in (0 + 1)..Len(evs)
      OBVIOUS
    <3> QED
      BY <1>1, <1>2, <2>3, <3>1 DEF NoneAfter
  <2> QED
    BY <1>1, <2>1, <2>2, <2>3
<1>3. ASSUME NEW k \in 1..Len(evs), NEW kind, NoneAfter(evs, k, kind)
      PROVE  NoneAfter(port', Len(port) + k, kind)
  <2> SUFFICES ASSUME NEW i \in ((Len(port) + k) + 1)..Len(port')
               PROVE  port'[i].kind # kind
    BY DEF NoneAfter
  <2>1. i \in 1..Len(port') /\ i \notin 1..Len(port)
    BY <1>1
  <2>2. PICK l \in 1..Len(evs) : i = Len(port) + l
    BY <1>1, <2>1
  <2>3. l \in (k + 1)..Len(evs)
    BY <1>1, <2>2
  <2> QED
    BY <1>1, <1>3, <2>2, <2>3 DEF NoneAfter
<1>4. 0 \in 0..Len(port) /\ \A i \in 1..Len(port) : i \in 0..Len(port)
  BY <1>1
<1> SUFFICES ASSUME shell' = "shown"
             PROVE  /\ \/ /\ NoneAfter(port', 0, "spaceTree")
                          /\ rail'.space = space' /\ rail'.parent = parent'
                       \/ \E i \in 1..Len(port') :
                             /\ port'[i].kind = "spaceTree"
                             /\ port'[i].space = space' /\ port'[i].parent = parent'
                             /\ NoneAfter(port', i, "spaceTree")
                    /\ \/ NoneAfter(port', 0, "roomList") /\ rail'.rooms = joined'
                       \/ \E i \in 1..Len(port') :
                             /\ port'[i].kind = "roomList" /\ port'[i].rooms = joined'
                             /\ NoneAfter(port', i, "roomList")
  BY DEF MirrorInv
<1>5. \/ NoneAfter(port', 0, "spaceTree") /\ rail'.space = space' /\ rail'.parent = parent'
      \/ \E i \in 1..Len(port') :
            /\ port'[i].kind = "spaceTree" /\ port'[i].space = space' /\ port'[i].parent = parent'
            /\ NoneAfter(port', i, "spaceTree")
  <2>1. CASE shell = "shown" /\ UNCHANGED catalog /\ NoneAfter(evs, 0, "spaceTree")
    <3>1. space' = space /\ parent' = parent
      BY <2>1 DEF catalog
    <3>2. CASE NoneAfter(port, 0, "spaceTree") /\ rail.space = space /\ rail.parent = parent
      BY <1>1, <1>2, <1>4, <2>1, <3>1, <3>2
    <3>3. ASSUME NEW i \in 1..Len(port),
                 port[i].kind = "spaceTree", port[i].space = space, port[i].parent = parent,
                 NoneAfter(port, i, "spaceTree")
          PROVE  \E l \in 1..Len(port') :
                    /\ port'[l].kind = "spaceTree" /\ port'[l].space = space' /\ port'[l].parent = parent'
                    /\ NoneAfter(port', l, "spaceTree")
      <4>1. NoneAfter(port', i, "spaceTree")
        BY <1>2, <1>4, <2>1, <3>3
      <4> QED
        BY <1>1, <3>1, <3>3, <4>1
    <3> QED
      BY <2>1, <3>2, <3>3 DEF MirrorInv
  <2>2. ASSUME NEW k \in 1..Len(evs),
               evs[k].kind = "spaceTree", evs[k].space = space', evs[k].parent = parent',
               NoneAfter(evs, k, "spaceTree")
        PROVE  \E l \in 1..Len(port') :
                  /\ port'[l].kind = "spaceTree" /\ port'[l].space = space' /\ port'[l].parent = parent'
                  /\ NoneAfter(port', l, "spaceTree")
    <3>1. NoneAfter(port', Len(port) + k, "spaceTree")
      BY <1>3, <2>2
    <3> QED
      BY <1>1, <2>2, <3>1
  <2> QED
    BY <2>1, <2>2 DEF PostsMirror
<1>6. \/ NoneAfter(port', 0, "roomList") /\ rail'.rooms = joined'
      \/ \E i \in 1..Len(port') :
            port'[i].kind = "roomList" /\ port'[i].rooms = joined' /\ NoneAfter(port', i, "roomList")
  <2>1. CASE shell = "shown" /\ joined' = joined /\ NoneAfter(evs, 0, "roomList")
    <3>1. CASE NoneAfter(port, 0, "roomList") /\ rail.rooms = joined
      BY <1>1, <1>2, <1>4, <2>1, <3>1
    <3>2. ASSUME NEW i \in 1..Len(port),
                 port[i].kind = "roomList", port[i].rooms = joined, NoneAfter(port, i, "roomList")
          PROVE  \E l \in 1..Len(port') :
                    port'[l].kind = "roomList" /\ port'[l].rooms = joined' /\ NoneAfter(port', l, "roomList")
      <4>1. NoneAfter(port', i, "roomList")
        BY <1>2, <1>4, <2>1, <3>2
      <4> QED
        BY <1>1, <2>1, <3>2, <4>1
    <3> QED
      BY <2>1, <3>1, <3>2 DEF MirrorInv
  <2>2. ASSUME NEW k \in 1..Len(evs),
               evs[k].kind = "roomList", evs[k].rooms = joined', NoneAfter(evs, k, "roomList")
        PROVE  \E l \in 1..Len(port') :
                  port'[l].kind = "roomList" /\ port'[l].rooms = joined' /\ NoneAfter(port', l, "roomList")
    <3>1. NoneAfter(port', Len(port) + k, "roomList")
      BY <1>3, <2>2
    <3> QED
      BY <1>1, <2>2, <3>1
  <2> QED
    BY <2>1, <2>2 DEF PostsMirror
<1> QED
  BY <1>5, <1>6

LEMMA PostFlow ==
    ASSUME TypeOK, WhereInv, FlowInv, CoreAssumption, NEW evs, Posts(evs), PostsPlaces(evs), PostsFlow(evs)
    PROVE  FlowInv'
<1>1. /\ Len(port) \in Nat /\ Len(evs) \in Nat /\ Len(port') = Len(port) + Len(evs)
      /\ \A i \in 1..Len(port) : i \in 1..Len(port') /\ port'[i] = port[i]
      /\ \A k \in 1..Len(evs) : Len(port) + k \in 1..Len(port') /\ port'[Len(port) + k] = evs[k]
      /\ \A i \in 1..Len(port') :
            i \in 1..Len(port) \/ \E k \in 1..Len(evs) : i = Len(port) + k
  BY PostPort
<1> SUFFICES ASSUME NEW m \in pushed' \ late'
             PROVE  /\ \A i \in 1..Len(port') :
                          port'[i].kind = "messageHistory" /\ port'[i].room = where'[m] /\ ~Shows(port'[i], m) =>
                              \E j \in i..Len(port') : Shows(port'[j], m)
                    /\ activeRoom' = where'[m] /\ ~refused' =>
                          \/ \E i \in 1..Len(flow') : flow'[i].id = m
                          \/ \E j \in 1..Len(port') : Shows(port'[j], m)
  BY DEF FlowInv, Shown, Shows
<1>2. m \in pushed => m \in pushed \ late /\ where'[m] = where[m]
  BY CoreAssumption DEF PostsFlow, PostsPlaces, WhereInv, TypeOK, CoreOK
<1>3. ASSUME NEW k \in 1..Len(evs), Shows(evs[k], m)
      PROVE  /\ \E j \in 1..Len(port') : Shows(port'[j], m)
             /\ \A i \in 1..Len(port) : \E j \in i..Len(port') : Shows(port'[j], m)
  <2>1. Len(port) + k \in 1..Len(port') /\ port'[Len(port) + k] = evs[k]
    BY <1>1
  <2>2. \A i \in 1..Len(port) : Len(port) + k \in i..Len(port')
    BY <1>1
  <2> QED
    BY <1>3, <2>1, <2>2
<1>4. ASSUME NEW i \in 1..Len(port'),
             port'[i].kind = "messageHistory", port'[i].room = where'[m], ~Shows(port'[i], m)
      PROVE  \E j \in i..Len(port') : Shows(port'[j], m)
  <2>1. CASE i \in 1..Len(port)
    <3>1. CASE m \in pushed
      <4>1. PICK j \in i..Len(port) : Shows(port[j], m)
        BY <1>1, <1>2, <1>4, <2>1, <3>1 DEF FlowInv
      <4>2. j \in 1..Len(port) /\ j \in i..Len(port')
        BY <1>1
      <4> QED
        BY <1>1, <4>1, <4>2
    <3>2. CASE m \notin pushed
      BY <1>3, <2>1, <3>2 DEF PostsFlow
    <3> QED
      BY <3>1, <3>2
  <2>2. ASSUME NEW k \in 1..Len(evs), i = Len(port) + k
        PROVE  \E j \in i..Len(port') : Shows(port'[j], m)
    <3>1. PICK l \in k..Len(evs) : Shows(evs[l], m)
      BY <1>1, <1>4, <2>2 DEF PostsFlow
    <3>2. l \in 1..Len(evs) /\ Len(port) + l \in i..Len(port')
      BY <1>1, <2>2
    <3> QED
      BY <1>1, <3>1, <3>2
  <2> QED
    BY <1>1, <2>1, <2>2
<1>5. ASSUME activeRoom' = where'[m], ~refused'
      PROVE  \/ \E i \in 1..Len(flow') : flow'[i].id = m
             \/ \E j \in 1..Len(port') : Shows(port'[j], m)
  <2>1. CASE m \in pushed /\ activeRoom' = activeRoom /\ refused' = refused /\ flow' = flow
    <3>1. Shown(m) \/ \E j \in 1..Len(port) : Shows(port[j], m)
      BY <1>2, <1>5, <2>1 DEF FlowInv
    <3> QED
      BY <1>1, <2>1, <3>1 DEF Shown
  <2>2. CASE \E k \in 1..Len(evs) : Shows(evs[k], m)
    BY <1>3, <2>2
  <2> QED
    BY <1>5, <2>1, <2>2 DEF PostsFlow
<1> QED
  BY <1>4, <1>5

PortPart == PortInv /\ GrowingInv /\ ListedInv /\ MirrorInv /\ FlowInv

LEMMA PostKeeps ==
    ASSUME TypeOK, WhereInv, PortPart, NEW evs, Posts(evs), PostsPlaces(evs), PostsGrowing(evs),
           PostsListed(evs), PostsMirror(evs), PostsFlow(evs)
    PROVE  PortPart'
<1>1. PortInv'
  BY PostPlaces DEF PortPart
<1>2. GrowingInv'
  BY PostGrowing DEF PortPart
<1>3. ListedInv'
  BY PostListed DEF PortPart
<1>4. MirrorInv'
  BY PostMirror DEF PortPart
<1>5. FlowInv'
  BY PostFlow, CoreAssumption DEF PortPart
<1> QED
  BY <1>1, <1>2, <1>3, <1>4, <1>5 DEF PortPart

\* Nothing on the screen, nor in the core but for its messages.
OnlyMessages ==
    /\ UNCHANGED <<rail, activeRoom, flow, refused, catalog, derived, explicit, late>>
    /\ shell' = "shown" => shell = "shown"

\* A step that posts states of messages, and notices, or nothing.
LEMMA ChatKeeps ==
    ASSUME TypeOK, WhereInv, PortPart, OnlyMessages,
           NEW evs \in Seq(Event), port' = port \o evs,
           \A m \in Message : where[m] # Nowhere => where'[m] = where[m],
           \A k \in 1..Len(evs) :
              /\ evs[k].kind \in {"message", "error"}
              /\ evs[k].kind = "message" => where'[evs[k].id] = evs[k].room,
           \A m \in pushed' : m \in pushed \/ \E k \in 1..Len(evs) : Shows(evs[k], m)
    PROVE  PortPart'
<1>1. Posts(evs)
  BY DEF Posts, OnlyMessages
<1>2. PostsPlaces(evs)
  BY DEF PostsPlaces
<1>3. parent' = parent /\ catalog' = catalog /\ joined' = joined
  BY DEF OnlyMessages, catalog, joined
<1>4. PostsGrowing(evs)
  BY <1>3 DEF PostsGrowing
<1>5. PostsListed(evs)
  BY <1>3 DEF PostsListed, Known
<1>6. PostsMirror(evs)
  <2>1. \A k \in (0 + 1)..Len(evs) : evs[k].kind # "spaceTree" /\ evs[k].kind # "roomList"
    OBVIOUS
  <2> QED
    BY <1>3, <2>1 DEF PostsMirror, OnlyMessages, NoneAfter
<1>7. PostsFlow(evs)
  BY DEF PostsFlow, OnlyMessages
<1> QED
  BY <1>1, <1>2, <1>4, <1>5, <1>6, <1>7, PostKeeps

LEMMA QuietKeeps ==
    ASSUME TypeOK, WhereInv, PortPart, OnlyMessages, port' = port, pushed' = pushed,
           \A m \in Message : where[m] # Nowhere => where'[m] = where[m]
    PROVE  PortPart'
<1>1. <<>> \in Seq(Event) /\ Len(<<>>) = 0 /\ port' = port \o <<>>
  BY EmptySeq, ConcatEmptySeq DEF TypeOK, CoreOK
<1>2. \A k \in 1..Len(<<>>) : FALSE
  BY <1>1
<1> QED
  BY <1>1, <1>2, ChatKeeps

-----------------------------------------------------------------------------
(* The events.                                                             *)

LEMMA EventsTyped ==
    /\ ErrorNotice \in Event /\ Readiness \in Event
    /\ space' \in Spaces /\ parent' \in Parents => SpaceTree \in Event
    /\ derived' \subseteq Room /\ explicit' \subseteq Room => RoomList \in Event
    /\ \A m \in Message, r \in Room, state \in States : ChatMessageState(m, r, state) \in Event
<1>1. ErrorNotice \in Event /\ Readiness \in Event
  BY DEF ErrorNotice, Readiness, Event
<1>2. space' \in Spaces /\ parent' \in Parents => SpaceTree \in Event
  BY DEF SpaceTree, Event
<1>3. derived' \subseteq Room /\ explicit' \subseteq Room => RoomList \in Event
  BY DEF RoomList, Event
<1>4. \A m \in Message, r \in Room, state \in States : ChatMessageState(m, r, state) \in Event
  BY DEF ChatMessageState, Event
<1> QED
  BY <1>1, <1>2, <1>3, <1>4

LEMMA Pair ==
    ASSUME NEW S, NEW a \in S, NEW b \in S
    PROVE  /\ <<a, b>> \in Seq(S) /\ Len(<<a, b>>) = 2 /\ <<a, b>>[1] = a /\ <<a, b>>[2] = b
           /\ 1 \in 1..Len(<<a, b>>) /\ \A k \in 1..Len(<<a, b>>) : <<a, b>>[k] \in {a, b}
<1>1. \A k \in 1..2 : k = 1 \/ k = 2
  OBVIOUS
<1> QED
  BY <1>1

LEMMA Triple ==
    ASSUME NEW S, NEW a \in S, NEW b \in S, NEW c \in S
    PROVE  /\ <<a, b, c>> \in Seq(S) /\ Len(<<a, b, c>>) = 3
           /\ <<a, b, c>>[1] = a /\ <<a, b, c>>[2] = b /\ <<a, b, c>>[3] = c
           /\ 1 \in 1..Len(<<a, b, c>>) /\ \A k \in 1..Len(<<a, b, c>>) : <<a, b, c>>[k] \in {a, b, c}
<1>1. \A k \in 1..3 : k = 1 \/ k = 2 \/ k = 3
  OBVIOUS
<1> QED
  BY <1>1

\* The history of a room is what the archive holds of it.
LEMMA HistoryLists ==
    ASSUME CoreAssumption, NEW r \in Room
    PROVE  /\ MessageHistory(r) \in Event
           /\ MessageHistory(r).kind = "messageHistory" /\ MessageHistory(r).room = r
           /\ LET batch == MessageHistory(r).messages
              IN  /\ \A k \in 1..Len(batch) : batch[k] \in archived /\ where[batch[k]] = r
                  /\ \A k, l \in 1..Len(batch) : batch[k] = batch[l] => k = l
                  /\ \A m \in Message : m \in archived /\ where[m] = r =>
                        \E k \in 1..Len(batch) : batch[k] = m
<1> DEFINE S == archived \cap InRoom(r)
<1>1. IsFiniteSet(Message)
  BY CoreAssumption, FS_Union DEF CoreAssumption, Message
<1>2. S \subseteq Message /\ IsFiniteSet(S)
  BY <1>1, FS_Subset DEF InRoom
<1>3. /\ SetToSeq(S) \in Seq(S)
      /\ \A k, l \in 1..Len(SetToSeq(S)) : SetToSeq(S)[k] = SetToSeq(S)[l] => k = l
      /\ \A x \in S : \E k \in 1..Len(SetToSeq(S)) : SetToSeq(S)[k] = x
  BY <1>2, SetToSeqLists
<1>4. SetToSeq(S) \in Seq(Message)
  BY <1>2, <1>3, SeqMonotonic
<1>5. \A k \in 1..Len(SetToSeq(S)) : SetToSeq(S)[k] \in archived /\ where[SetToSeq(S)[k]] = r
  <2>1. \A k \in 1..Len(SetToSeq(S)) : SetToSeq(S)[k] \in S
    BY <1>3, ElementOfSeq
  <2> QED
    BY <2>1 DEF InRoom
<1>6. \A m \in Message : m \in archived /\ where[m] = r => m \in S
  BY DEF InRoom
<1>7. MessageHistory(r) = [kind |-> "messageHistory", room |-> r, messages |-> SetToSeq(S)]
  BY DEF MessageHistory
<1> HIDE DEF S
<1>8. MessageHistory(r) \in Event
  BY <1>4, <1>7 DEF Event
<1> QED
  BY <1>3, <1>5, <1>6, <1>7, <1>8

-----------------------------------------------------------------------------
(* The commands.                                                           *)

CorePart == TypeOK /\ WhereInv /\ PortPart

\* A message keeps its room.
Places == \A m \in Message : where[m] # Nowhere => where'[m] = where[m]

\* The client does nothing but send the command.
Sends == UNCHANGED <<shell, rail, activeRoom, flow, refused>>

CoreKept == CoreOK' /\ WhereInv' /\ PortPart' /\ Places

LEMMA RejectedKeeps ==
    ASSUME CorePart, Sends, Rejected
    PROVE  CoreKept /\ space' = space
<1> USE DEF CorePart
<1>1. port' = port \o <<ErrorNotice>>
  BY EventsTyped, AppendIsConcat DEF Rejected, TypeOK, CoreOK
<1>2. <<ErrorNotice>> \in Seq(Event) /\ Len(<<ErrorNotice>>) = 1 /\ <<ErrorNotice>>[1].kind = "error"
  BY EventsTyped DEF ErrorNotice
<1>3. OnlyMessages /\ where' = where /\ pushed' = pushed /\ archived' = archived
  BY DEF OnlyMessages, Sends, Rejected, membership, messages
<1>4. PortPart'
  <2> DEFINE evs == <<ErrorNotice>>
  <2>1. evs \in Seq(Event) /\ port' = port \o evs
    BY <1>1, <1>2
  <2>2. \A k \in 1..Len(evs) : evs[k].kind = "error"
    BY <1>2
  <2> HIDE DEF evs
  <2> QED
    BY <1>3, <2>1, <2>2, ChatKeeps
<1>5. port' \in Seq(Event)
  BY <1>1, <1>2, ConcatProperties DEF TypeOK, CoreOK
<1> QED
  BY <1>3, <1>4, <1>5
  DEF CoreKept, Places, WhereInv, TypeOK, CoreOK, Rejected, catalog, membership, messages

LEMMA SendKeeps ==
    ASSUME CorePart, CoreAssumption, Sends, NEW m \in Own \ pushed, NEW r \in Room,
           send_text(m, r)
    PROVE  CoreKept /\ space' = space /\ open' = open /\ joined' = joined
<1> USE DEF CorePart
<1>1. m \in Message /\ where[m] = Nowhere
  BY DEF Message, WhereInv
<1>2. /\ OnlyMessages /\ space' = space /\ open' = open /\ joined' = joined
      /\ UNCHANGED <<parent, derived, explicit, listening, late>>
  BY DEF OnlyMessages, Sends, send_text, catalog, membership, joined
<1>3. /\ where' = [where EXCEPT ![m] = r] /\ pushed' = pushed \cup {m}
      /\ archived' = archived /\ sending' = {m}
  BY DEF send_text
<1>4. where'[m] = r /\ Places
  BY <1>1, <1>3 DEF TypeOK, CoreOK, Places
<1> DEFINE evs == <<ChatMessageState(m, r, "pending")>>
<1>5. /\ evs \in Seq(Event) /\ port' = port \o evs
      /\ Len(evs) = 1 /\ evs[1] = ChatMessageState(m, r, "pending")
  BY <1>1, EventsTyped, AppendIsConcat DEF TypeOK, CoreOK, send_text, States
<1>6. \A k \in 1..Len(evs) : evs[k] = ChatMessageState(m, r, "pending")
  BY <1>5
<1>7. Shows(evs[1], m) /\ 1 \in 1..Len(evs)
  BY <1>5 DEF Shows, ChatMessageState
<1> HIDE DEF evs
<1>8. \A k \in 1..Len(evs) :
         /\ evs[k].kind \in {"message", "error"}
         /\ evs[k].kind = "message" => where'[evs[k].id] = evs[k].room
  BY <1>4, <1>6 DEF ChatMessageState
<1>9. PortPart'
  BY <1>2, <1>3, <1>4, <1>5, <1>7, <1>8, ChatKeeps DEF Places
<1>10. port' \in Seq(Event)
  BY <1>5, ConcatProperties DEF TypeOK, CoreOK
<1>11. WhereInv'
  BY <1>1, <1>3, <1>4, CoreAssumption DEF WhereInv, TypeOK, CoreOK, Places
<1>12. CoreOK'
  BY <1>1, <1>2, <1>3, <1>10 DEF TypeOK, CoreOK
<1> QED
  BY <1>2, <1>4, <1>9, <1>11, <1>12 DEF CoreKept

LEMMA ReturnKeeps ==
    ASSUME CorePart, CoreAssumption, Sends, NEW m \in Own, NEW ok, SendReturns(m, ok)
    PROVE  CoreKept /\ space' = space /\ open' = open /\ joined' = joined
<1> USE DEF CorePart
<1>1. m \in Message /\ m \in pushed /\ where[m] \in Room
  BY DEF Message, WhereInv, SendReturns
<1>2. /\ OnlyMessages /\ space' = space /\ open' = open /\ joined' = joined
      /\ UNCHANGED <<parent, derived, explicit, listening, late>>
  BY DEF OnlyMessages, Sends, SendReturns, catalog, membership, joined
<1>3. /\ where' = where /\ pushed' = pushed /\ sending' = {}
      /\ archived' \in {archived, archived \cup {m}}
  BY DEF SendReturns
<1>4. Places
  BY <1>3 DEF Places
<1> DEFINE Chat(state) == ChatMessageState(m, where[m], state)
<1>5. Chat("complete") \in Event /\ Chat("error") \in Event /\ ErrorNotice \in Event
  BY <1>1, EventsTyped DEF States
<1>6. \A state : Chat(state).kind = "message" /\ Chat(state).id = m /\ Chat(state).room = where[m]
  BY DEF ChatMessageState
<1>7. ErrorNotice.kind = "error"
  BY DEF ErrorNotice
<1>8. port' = Append(port, Chat("complete")) \/ port' = port \o <<Chat("error"), ErrorNotice>>
  BY DEF SendReturns, SendFailed
<1> HIDE DEF Chat
<1>9. PICK evs \in Seq(Event) :
         /\ port' = port \o evs
         /\ \A k \in 1..Len(evs) : evs[k] \in {Chat("complete"), Chat("error"), ErrorNotice}
  <2>1. CASE port' = Append(port, Chat("complete"))
    <3> DEFINE one == <<Chat("complete")>>
    <3>1. port' = port \o one
      BY <1>5, <2>1, AppendIsConcat DEF TypeOK, CoreOK
    <3>2. one \in Seq(Event) /\ Len(one) = 1 /\ one[1] = Chat("complete")
      BY <1>5
    <3> HIDE DEF one
    <3>3. \A k \in 1..Len(one) : one[k] = Chat("complete")
      BY <3>2
    <3> QED
      BY <3>1, <3>2, <3>3
  <2>2. CASE port' = port \o <<Chat("error"), ErrorNotice>>
    <3> DEFINE two == <<Chat("error"), ErrorNotice>>
    <3>1. two \in Seq(Event) /\ Len(two) = 2 /\ two[1] = Chat("error") /\ two[2] = ErrorNotice
      BY <1>5, Pair
    <3> HIDE DEF two
    <3>2. \A k \in 1..Len(two) : two[k] \in {Chat("error"), ErrorNotice}
      BY <3>1
    <3>3. port' = port \o two
      BY <2>2 DEF two
    <3> QED
      BY <3>1, <3>2, <3>3
  <2> QED
    BY <1>8, <2>1, <2>2
<1>10. PortPart'
  <2>1. \A k \in 1..Len(evs) :
           /\ evs[k].kind \in {"message", "error"}
           /\ evs[k].kind = "message" => where'[evs[k].id] = evs[k].room
    BY <1>3, <1>6, <1>7, <1>9
  <2> QED
    BY <1>2, <1>3, <1>9, <2>1, ChatKeeps
<1>11. port' \in Seq(Event)
  BY <1>9, ConcatProperties DEF TypeOK, CoreOK
<1>12. WhereInv'
  BY <1>1, <1>3 DEF WhereInv
<1>13. CoreOK'
  BY <1>1, <1>2, <1>3, <1>11 DEF TypeOK, CoreOK
<1> QED
  BY <1>2, <1>4, <1>10, <1>12, <1>13 DEF CoreKept

LEMMA PeersKeep ==
    ASSUME CorePart, CoreAssumption, Sends, NEW m \in Message, NEW r \in Room,
           (m \in Peer /\ PushMessage(m, r)) \/ ArchiveMessage(m, r)
    PROVE  CoreKept /\ space' = space /\ open' = open /\ joined' = joined
<1> USE DEF CorePart
<1>1. /\ m \in Own => m \in pushed
      /\ where[m] \in {Nowhere, r}
  BY CoreAssumption DEF Message, PushMessage, ArchiveMessage, Heard
<1>2. /\ OnlyMessages /\ space' = space /\ open' = open /\ joined' = joined
      /\ UNCHANGED <<parent, derived, explicit, listening, late>>
      /\ where' = [where EXCEPT ![m] = r]
  BY DEF OnlyMessages, Sends, PushMessage, ArchiveMessage, catalog, membership, joined
<1>3. where'[m] = r /\ Places /\ \A o \in Own \ pushed : where'[o] = where[o]
  BY <1>1, <1>2 DEF TypeOK, CoreOK, Places, Message
<1>4. CASE m \in Peer /\ PushMessage(m, r)
  <2> DEFINE evs == <<ChatMessageState(m, r, "complete")>>
  <2>1. /\ evs \in Seq(Event) /\ port' = port \o evs
        /\ Len(evs) = 1 /\ evs[1] = ChatMessageState(m, r, "complete")
    BY <1>1, <1>4, EventsTyped, AppendIsConcat DEF TypeOK, CoreOK, PushMessage, States
  <2>2. \A k \in 1..Len(evs) : evs[k] = ChatMessageState(m, r, "complete")
    BY <2>1
  <2>3. Shows(evs[1], m) /\ 1 \in 1..Len(evs)
    BY <2>1 DEF Shows, ChatMessageState
  <2> HIDE DEF evs
  <2>4. \A k \in 1..Len(evs) :
           /\ evs[k].kind \in {"message", "error"}
           /\ evs[k].kind = "message" => where'[evs[k].id] = evs[k].room
    BY <1>3, <2>2 DEF ChatMessageState
  <2>5. pushed' = pushed \cup {m} /\ archived' = archived /\ sending' = sending
    BY <1>4 DEF PushMessage
  <2>6. PortPart'
    BY <1>2, <1>3, <2>1, <2>3, <2>4, <2>5, ChatKeeps DEF Places
  <2>7. port' \in Seq(Event)
    BY <2>1, ConcatProperties DEF TypeOK, CoreOK
  <2>8. WhereInv'
    BY <1>1, <1>2, <1>3, <2>5 DEF WhereInv, TypeOK, CoreOK
  <2> QED
    BY <1>1, <1>2, <1>3, <2>5, <2>6, <2>7, <2>8 DEF CoreKept, TypeOK, CoreOK
<1>5. CASE ArchiveMessage(m, r)
  <2>1. port' = port /\ pushed' = pushed /\ archived' = archived \cup {m} /\ sending' = sending
    BY <1>5 DEF ArchiveMessage
  <2>2. PortPart'
    BY <1>2, <1>3, <2>1, QuietKeeps DEF Places
  <2>3. WhereInv'
    BY <1>1, <1>2, <1>3, <2>1 DEF WhereInv, TypeOK, CoreOK
  <2> QED
    BY <1>1, <1>2, <1>3, <2>1, <2>2, <2>3 DEF CoreKept, TypeOK, CoreOK
<1> QED
  BY <1>2, <1>4, <1>5

LEMMA CreateSpaceKeeps ==
    ASSUME CorePart, Sends, NEW on \in Spaces, create_space(on)
    PROVE  CoreKept /\ open' = open /\ space' = on
<1> USE DEF CorePart
<1>1. /\ space' = on /\ parent' = parent /\ joined' = joined /\ open' = open
      /\ UNCHANGED <<derived, explicit, listening, late, where, pushed, archived, sending>>
  BY DEF create_space, membership, messages, joined
<1>2. space' \in Spaces /\ parent' \in Parents
  BY <1>1 DEF TypeOK, CoreOK
<1> DEFINE evs == <<SpaceTree>>
<1>3. evs \in Seq(Event) /\ port' = port \o evs /\ Len(evs) = 1 /\ evs[1] = SpaceTree
  BY <1>2, EventsTyped, AppendIsConcat DEF create_space, TypeOK, CoreOK
<1> HIDE DEF evs
<1>4. evs[1].kind = "spaceTree" /\ evs[1].space = space' /\ evs[1].parent = parent'
  BY <1>3 DEF SpaceTree
<1>5. 1 \in 1..Len(evs) /\ \A k \in 1..Len(evs) : k = 1
  BY <1>3
<1>6. Posts(evs) /\ PostsPlaces(evs)
  BY <1>1, <1>3, <1>4, <1>5 DEF Posts, PostsPlaces, Sends
<1>7. PostsGrowing(evs)
  BY <1>1, <1>4, <1>5 DEF PostsGrowing
<1>8. PostsListed(evs)
  BY <1>1, <1>4, <1>5 DEF PostsListed, Known
<1>9. PostsMirror(evs)
  <2>1. NoneAfter(evs, 1, "spaceTree")
    BY <1>3 DEF NoneAfter
  <2>2. NoneAfter(evs, 0, "roomList")
    BY <1>4, <1>5 DEF NoneAfter
  <2> QED
    BY <1>1, <1>4, <1>5, <2>1, <2>2 DEF PostsMirror, Sends
<1>10. PostsFlow(evs)
  BY <1>1, <1>4, <1>5 DEF PostsFlow, Sends
<1>11. PortPart'
  BY <1>6, <1>7, <1>8, <1>9, <1>10, PostKeeps
<1>12. port' \in Seq(Event)
  BY <1>3, ConcatProperties DEF TypeOK, CoreOK
<1> QED
  BY <1>1, <1>2, <1>11, <1>12 DEF CoreKept, Places, WhereInv, TypeOK, CoreOK

\* The histories of the rooms that were replayed, then the catalog.
LEMMA RefreshKeeps ==
    ASSUME CorePart, CoreAssumption, Sends, space' \in Spaces, parent' \in Parents,
           \A r \in Room : Exists(parent, r) => Exists(parent', r),
           RefreshDerivedJoins
    PROVE  CoreKept /\ open' = open
<1> USE DEF CorePart
<1> DEFINE now == {r \in Room : parent'[r] = "space" /\ space' = "auto"}
<1>1. PICK new \in SUBSET (now \ derived) : \E replayed \in SUBSET new :
         /\ derived' = (derived \cap now) \cup new
         /\ listening' = listening \cup now
         /\ late' = late \cup LeftOut(replayed)
         /\ UNCHANGED <<open, explicit>> /\ UNCHANGED messages
         /\ LET order == SetToSeq(replayed)
            IN  port' = port \o [i \in 1..Len(order) |-> MessageHistory(order[i])] \o PostCatalog
  BY DEF RefreshDerivedJoins
<1>scanned. PICK replayed \in SUBSET new :
         /\ derived' = (derived \cap now) \cup new
         /\ listening' = listening \cup now
         /\ late' = late \cup LeftOut(replayed)
         /\ UNCHANGED <<open, explicit>> /\ UNCHANGED messages
         /\ LET order == SetToSeq(replayed)
            IN  port' = port \o [i \in 1..Len(order) |-> MessageHistory(order[i])] \o PostCatalog
  BY <1>1
<1>2. now \subseteq Room /\ \A r \in now : Exists(parent', r)
  BY DEF Exists
<1> HIDE DEF now
<1>3. /\ where' = where /\ pushed' = pushed /\ archived' = archived /\ sending' = sending
      /\ explicit' = explicit /\ open' = open
  BY <1>scanned DEF messages
<1>4. replayed \subseteq Room /\ derived' \subseteq now /\ derived' \subseteq Room /\ explicit' \subseteq Room
      /\ late \subseteq late' /\ late' \subseteq Message /\ listening' \subseteq Room
  BY <1>scanned, <1>1, <1>2, <1>3 DEF TypeOK, CoreOK, LeftOut
<1> DEFINE order == SetToSeq(replayed)
           n == Len(order)
           hist == [i \in 1..n |-> MessageHistory(order[i])]
           evs == hist \o PostCatalog
<1>5. order \in Seq(replayed) /\ n \in Nat
  <2>1. IsFiniteSet(replayed)
    BY <1>4, CoreAssumption, FS_Subset DEF CoreAssumption
  <2> QED
    BY <2>1, SetToSeqLists
<1>6. \A i \in 1..n : order[i] \in replayed /\ order[i] \in Room
  BY <1>4, <1>5, ElementOfSeq
<1> HIDE DEF order, n
<1>7. hist \in Seq(Event) /\ Len(hist) = n /\ \A i \in 1..n : hist[i] = MessageHistory(order[i])
  <2>1. \A i \in 1..n : MessageHistory(order[i]) \in Event
    BY <1>6, HistoryLists, CoreAssumption
  <2>2. hist \in [1..n -> Event]
    BY <2>1
  <2> QED
    BY <1>5, <2>2
<1>8. PostCatalog \in Seq(Event) /\ Len(PostCatalog) = 2
      /\ PostCatalog[1] = SpaceTree /\ PostCatalog[2] = RoomList
  <2>1. SpaceTree \in Event /\ RoomList \in Event
    BY <1>4, EventsTyped
  <2> QED
    BY <2>1, Pair DEF PostCatalog
<1> HIDE DEF hist
<1>9. evs \in Seq(Event) /\ Len(evs) = n + 2
      /\ (\A i \in 1..n : evs[i] = MessageHistory(order[i]))
      /\ evs[n + 1] = SpaceTree /\ evs[n + 2] = RoomList
  <2>0. /\ evs \in Seq(Event) /\ Len(evs) = Len(hist) + Len(PostCatalog)
        /\ \A i \in 1..Len(hist) + Len(PostCatalog) :
              evs[i] = IF i <= Len(hist) THEN hist[i] ELSE PostCatalog[i - Len(hist)]
    <3>1. hist \in Seq(Event) /\ PostCatalog \in Seq(Event)
      BY <1>7, <1>8
    <3> QED
      BY <3>1, ConcatProperties
  <2> HIDE DEF evs
  <2>1. evs \in Seq(Event) /\ Len(evs) = n + 2
        /\ \A i \in 1..(n + 2) : evs[i] = IF i <= n THEN hist[i] ELSE PostCatalog[i - n]
    BY <1>7, <1>8, <2>0
  <2>2. n + 1 \in 1..(n + 2) /\ n + 2 \in 1..(n + 2) /\ (n + 1) - n = 1 /\ (n + 2) - n = 2
        /\ ~(n + 1 <= n) /\ ~(n + 2 <= n) /\ \A i \in 1..n : i \in 1..(n + 2) /\ i <= n
    BY <1>5
  <2> QED
    BY <1>7, <1>8, <2>1, <2>2
<1>10. port' = port \o evs
  <2>1. port' = (port \o hist) \o PostCatalog
    BY <1>scanned DEF hist, n, order
  <2>2. port \in Seq(Event)
    BY DEF TypeOK, CoreOK
  <2>3. (port \o hist) \o PostCatalog = port \o (hist \o PostCatalog)
    <3>1. hist \in Seq(Event) /\ PostCatalog \in Seq(Event)
      BY <1>7, <1>8
    <3> QED
      BY <2>2, <3>1, ConcatAssociative
  <2> QED
    BY <2>1, <2>3
<1> HIDE DEF evs
<1>11. \A k \in 1..Len(evs) : k \in 1..n \/ k = n + 1 \/ k = n + 2
  BY <1>5, <1>9
<1>12. n + 1 \in 1..Len(evs) /\ n + 2 \in 1..Len(evs)
  BY <1>5, <1>9
<1>13. /\ evs[n + 1].kind = "spaceTree" /\ evs[n + 1].space = space' /\ evs[n + 1].parent = parent'
       /\ evs[n + 2].kind = "roomList" /\ evs[n + 2].rooms = joined'
  BY <1>9 DEF SpaceTree, RoomList, joined
<1>14. \A k \in 1..n : evs[k].kind = "messageHistory" /\ evs[k].room = order[k]
  BY <1>6, <1>9, HistoryLists, CoreAssumption
<1>15. Posts(evs)
  BY <1>9, <1>10 DEF Posts, Sends
<1>16. PostsPlaces(evs)
  <2> SUFFICES ASSUME NEW k \in 1..Len(evs)
               PROVE  /\ evs[k].kind # "message"
                      /\ evs[k].kind = "messageHistory" =>
                            LET batch == evs[k].messages
                            IN  /\ \A i \in 1..Len(batch) : where'[batch[i]] = evs[k].room
                                /\ \A i, l \in 1..Len(batch) : batch[i] = batch[l] => i = l
    BY <1>3 DEF PostsPlaces
  <2>1. CASE k \in 1..n
    BY <1>3, <1>6, <1>9, <1>14, <2>1, HistoryLists, CoreAssumption
  <2>2. CASE k = n + 1 \/ k = n + 2
    BY <1>13, <2>2
  <2> QED
    BY <1>11, <2>1, <2>2
<1>17. PostsGrowing(evs)
  BY <1>11, <1>13, <1>14 DEF PostsGrowing
<1>18. PostsListed(evs)
  <2>1. n + 1 \in 1..(n + 2)
    BY <1>5
  <2>2. \A r \in now : TreeBefore(evs, n + 2, r)
    BY <1>2, <1>13, <2>1 DEF TreeBefore
  <2>3. \A r \in joined' : r \in joined \/ TreeBefore(evs, n + 2, r)
    BY <1>3, <1>4, <2>2 DEF joined
  <2> QED
    BY <1>9, <1>11, <1>13, <1>14, <2>3 DEF PostsListed, Known
<1>19. PostsMirror(evs)
  <2>1. NoneAfter(evs, n + 1, "spaceTree")
    <3>1. \A k \in ((n + 1) + 1)..Len(evs) : k = n + 2
      BY <1>5, <1>9
    <3> QED
      BY <1>13, <3>1 DEF NoneAfter
  <2>2. NoneAfter(evs, n + 2, "roomList")
    <3>1. \A k \in ((n + 2) + 1)..Len(evs) : FALSE
      BY <1>5, <1>9
    <3> QED
      BY <3>1 DEF NoneAfter
  <2> QED
    BY <1>12, <1>13, <2>1, <2>2 DEF PostsMirror
<1>20. PostsFlow(evs)
  <2>1. ASSUME NEW m \in pushed' \ late', NEW k \in 1..Len(evs),
               evs[k].kind = "messageHistory", evs[k].room = where'[m], ~Shows(evs[k], m)
        PROVE  FALSE
    <3>1. k \in 1..n
      BY <1>11, <1>13, <2>1
    <3>2. evs[k] = MessageHistory(order[k]) /\ where[m] = order[k] /\ order[k] \in replayed
      BY <1>3, <1>6, <1>9, <1>14, <2>1, <3>1
    <3>3. m \in Message
      BY <1>3 DEF TypeOK, CoreOK
    <3>4. m \in archived
      BY <1>scanned, <1>3, <3>2, <3>3 DEF LeftOut
    <3>5. \E i \in 1..Len(evs[k].messages) : evs[k].messages[i] = m
      BY <1>6, <3>1, <3>2, <3>3, <3>4, HistoryLists, CoreAssumption
    <3> QED
      BY <2>1, <3>5 DEF Shows
  <2> QED
    BY <1>3, <1>4, <2>1 DEF PostsFlow, Sends
<1>21. PortPart'
  BY <1>15, <1>16, <1>17, <1>18, <1>19, <1>20, PostKeeps
<1>22. port' \in Seq(Event)
  BY <1>9, <1>10, ConcatProperties DEF TypeOK, CoreOK
<1> QED
  BY <1>3, <1>4, <1>21, <1>22 DEF CoreKept, Places, WhereInv, TypeOK, CoreOK

\* What a join posts, when it is registered: the list, and then a history, a notice, both
\* or none.
LEMMA JoinEvents ==
    ASSUME NEW l \in Event, NEW H \in Seq(Event), NEW E \in Seq(Event), Len(H) <= 1, Len(E) <= 1
    PROVE  LET evs == <<l>> \o H \o E
           IN  /\ evs \in Seq(Event) /\ 1 \in 1..Len(evs) /\ evs[1] = l
               /\ \A k \in 1..Len(evs) :
                     \/ k = 1
                     \/ k = 2 /\ Len(H) = 1 /\ evs[k] = H[1]
                     \/ Len(E) = 1 /\ evs[k] = E[1]
               /\ Len(H) = 1 => 2 \in 1..Len(evs) /\ evs[2] = H[1]
<1> DEFINE front == <<l>> \o H
           evs == front \o E
<1>1. <<l>> \in Seq(Event) /\ Len(<<l>>) = 1 /\ <<l>>[1] = l
  OBVIOUS
<1>2. /\ front \in Seq(Event) /\ Len(front) = 1 + Len(H)
      /\ \A i \in 1..(1 + Len(H)) : front[i] = IF i <= 1 THEN <<l>>[i] ELSE H[i - 1]
  <2>1. /\ front \in Seq(Event) /\ Len(front) = Len(<<l>>) + Len(H)
        /\ \A i \in 1..Len(<<l>>) + Len(H) :
              front[i] = IF i <= Len(<<l>>) THEN <<l>>[i] ELSE H[i - Len(<<l>>)]
    BY <1>1, ConcatProperties
  <2> HIDE DEF front
  <2> QED
    BY <1>1, <2>1
<1> HIDE DEF front
<1>3. /\ evs \in Seq(Event) /\ Len(evs) = Len(front) + Len(E)
      /\ \A i \in 1..Len(front) + Len(E) : evs[i] = IF i <= Len(front) THEN front[i] ELSE E[i - Len(front)]
  BY <1>2, ConcatProperties
<1> HIDE DEF evs
<1>4. /\ Len(H) \in Nat /\ Len(E) \in Nat
      /\ Len(H) = 0 \/ Len(H) = 1
      /\ Len(E) = 0 \/ Len(E) = 1
  OBVIOUS
<1>5. front[1] = l /\ (Len(H) = 1 => front[2] = H[1])
  BY <1>1, <1>2, <1>4
<1>6. 1 \in 1..Len(evs) /\ evs[1] = l
  BY <1>2, <1>3, <1>4, <1>5
<1>7. Len(H) = 1 => 2 \in 1..Len(evs) /\ evs[2] = H[1]
  BY <1>2, <1>3, <1>4, <1>5
<1>8. ASSUME NEW k \in 1..Len(evs), k # 1, ~(k = 2 /\ Len(H) = 1)
      PROVE  Len(E) = 1 /\ evs[k] = E[1]
  <2>1. Len(E) = 1 /\ k = Len(front) + 1
    BY <1>2, <1>3, <1>4, <1>8
  <2> QED
    BY <1>2, <1>3, <2>1
<1> QED
  BY <1>3, <1>6, <1>7, <1>8 DEF evs, front

\* The answer to a selection, whatever of it failed: the list if the room was registered,
\* and the history if it was replayed, and then what is left out of it is late.
LEMMA AnsweredKeeps ==
    ASSUME CorePart, CoreAssumption, shell = "shown", UNCHANGED <<shell, rail>>,
           NEW r \in Room, Exists(rail.parent, r), activeRoom' = r, refused' \in BOOLEAN,
           UNCHANGED <<space, parent, where, pushed, archived>>,
           late \subseteq late', ~refused' => LeftOut({r}) \subseteq late',
           NEW evs \in Seq(Event), port' = port \o evs, 1 \in 1..Len(evs),
           \/ joined' = joined /\ \A k \in 1..Len(evs) : evs[k].kind # "roomList"
           \/ joined' \subseteq joined \cup {r} /\ evs[1] = RoomList,
           \A k \in 1..Len(evs) :
              \/ evs[k] = ErrorNotice
              \/ k = 1 /\ evs[k] = RoomList
              \/ evs[k] = MessageHistory(r) /\ ~refused',
           ~refused' => \E k \in 1..Len(evs) : evs[k] = MessageHistory(r)
    PROVE  PortPart'
<1> USE DEF CorePart
<1>1. /\ \A m \in Message : m \in archived /\ where[m] = r => Shows(MessageHistory(r), m)
      /\ MessageHistory(r).kind = "messageHistory" /\ MessageHistory(r).room = r
  BY HistoryLists, CoreAssumption DEF Shows
<1>2. ErrorNotice.kind = "error" /\ RoomList.kind = "roomList" /\ RoomList.rooms = joined'
  BY DEF ErrorNotice, RoomList, joined
<1>3. Posts(evs)
  BY DEF Posts
<1>4. PostsPlaces(evs)
  <2> SUFFICES ASSUME NEW k \in 1..Len(evs)
               PROVE  /\ evs[k].kind # "message"
                      /\ evs[k].kind = "messageHistory" =>
                            LET batch == evs[k].messages
                            IN  /\ \A i \in 1..Len(batch) : where'[batch[i]] = evs[k].room
                                /\ \A i, l \in 1..Len(batch) : batch[i] = batch[l] => i = l
    BY DEF PostsPlaces
  <2>1. CASE evs[k] = MessageHistory(r)
    BY <2>1, HistoryLists, CoreAssumption
  <2>2. CASE evs[k] = ErrorNotice \/ evs[k] = RoomList
    BY <1>2, <2>2
  <2> QED
    BY <2>1, <2>2
<1>5. \A k \in 1..Len(evs) : evs[k].kind # "spaceTree"
  BY <1>1, <1>2
<1>6. \A k \in 1..Len(evs) : evs[k].kind = "roomList" => k = 1 /\ evs[1] = RoomList
  BY <1>1, <1>2
<1>7. PostsGrowing(evs)
  BY <1>5 DEF PostsGrowing
<1>8. PostsListed(evs)
  BY <1>2, <1>6 DEF PostsListed, Known
<1>9. PostsMirror(evs)
  <2>1. NoneAfter(evs, 0, "spaceTree") /\ catalog' = catalog
    BY <1>5 DEF NoneAfter, catalog
  <2>2. CASE joined' = joined /\ \A k \in 1..Len(evs) : evs[k].kind # "roomList"
    BY <2>1, <2>2 DEF PostsMirror, NoneAfter
  <2>3. CASE evs[1] = RoomList
    <3>1. NoneAfter(evs, 1, "roomList")
      <4>1. \A k \in (1 + 1)..Len(evs) : k \in 1..Len(evs) /\ k # 1
        OBVIOUS
      <4> QED
        BY <1>6, <4>1 DEF NoneAfter
    <3> QED
      BY <1>2, <2>1, <2>3, <3>1 DEF PostsMirror
  <2> QED
    BY <2>2, <2>3
<1>10. PostsFlow(evs)
  <2>1. ASSUME NEW m \in pushed' \ late', where'[m] = r, ~refused'
        PROVE  Shows(MessageHistory(r), m)
    <3>1. m \in Message /\ where[m] = r /\ m \in pushed
      BY <2>1 DEF TypeOK, CoreOK
    <3>2. m \in archived
      BY <2>1, <3>1 DEF LeftOut
    <3> QED
      BY <1>1, <3>1, <3>2
  <2>2. ASSUME NEW m \in pushed' \ late', NEW k \in 1..Len(evs),
               evs[k].kind = "messageHistory", evs[k].room = where'[m], ~Shows(evs[k], m)
        PROVE  FALSE
    BY <1>1, <1>2, <2>1, <2>2
  <2>3. ASSUME NEW m \in pushed' \ late', activeRoom' = where'[m], ~refused'
        PROVE  \E k \in 1..Len(evs) : Shows(evs[k], m)
    BY <2>1, <2>3
  <2> QED
    BY <2>2, <2>3 DEF PostsFlow
<1> QED
  BY <1>3, <1>4, <1>7, <1>8, <1>9, <1>10, PostKeeps

LEMMA JoinKeeps ==
    ASSUME CorePart, CoreAssumption, shell = "shown", UNCHANGED <<shell, rail>>,
           NEW r \in Room, Exists(rail.parent, r),
           activeRoom' = r, NEW replayed \in BOOLEAN, refused' = ~replayed, join_topic(r, replayed)
    PROVE  CoreKept /\ open' = open /\ space' = space
<1> USE DEF CorePart
<1>1. /\ UNCHANGED <<open, space, parent, where, pushed, archived, sending>>
      /\ listening' = listening \cup {r}
  BY DEF join_topic, catalog, messages
<1>2. ASSUME NEW evs \in Seq(Event), port' = port \o evs, PortPart',
             derived' \subseteq Room, explicit' \subseteq Room, late' \subseteq Message
      PROVE  CoreKept
  <2>1. port' \in Seq(Event)
    BY <1>2, ConcatProperties DEF TypeOK, CoreOK
  <2> QED
    BY <1>1, <1>2, <2>1 DEF CoreKept, Places, WhereInv, TypeOK, CoreOK
<1>3. CASE ~replayed /\ UNCHANGED <<derived, explicit, late>> /\ port' = Append(port, ErrorNotice)
  <2> DEFINE evs == <<ErrorNotice>>
  <2>1. evs \in Seq(Event) /\ port' = port \o evs /\ Len(evs) = 1 /\ evs[1] = ErrorNotice
    BY <1>3, EventsTyped, AppendIsConcat DEF TypeOK, CoreOK
  <2> HIDE DEF evs
  <2>2. 1 \in 1..Len(evs) /\ (\A k \in 1..Len(evs) : evs[k] = ErrorNotice)
        /\ (\A k \in 1..Len(evs) : evs[k].kind # "roomList")
    BY <2>1 DEF ErrorNotice
  <2>3. joined' = joined /\ refused'
    BY <1>3 DEF joined
  <2>4. PortPart'
    BY <1>1, <1>3, <2>1, <2>2, <2>3, AnsweredKeeps, CoreAssumption
  <2>5. derived' \subseteq Room /\ explicit' \subseteq Room /\ late' \subseteq Message
    BY <1>3 DEF TypeOK, CoreOK
  <2>6. CoreKept
    BY <1>2, <2>1, <2>4, <2>5
  <2> QED
    BY <1>1, <2>6
<1>4. ASSUME explicit' = explicit \cup {r}, UNCHANGED derived,
             late' = IF replayed THEN late \cup LeftOut({r}) ELSE late,
             NEW live \in BOOLEAN,
             port' = port \o <<RoomList>> \o PushMessageHistory(r, replayed)
                          \o (IF live THEN <<>> ELSE <<ErrorNotice>>)
      PROVE  CoreKept
  <2> DEFINE H == PushMessageHistory(r, replayed)
             E == IF live THEN <<>> ELSE <<ErrorNotice>>
             evs == <<RoomList>> \o H \o E
  <2>1. derived' \subseteq Room /\ explicit' \subseteq Room /\ late \subseteq late' /\ late' \subseteq Message
    BY <1>4 DEF TypeOK, CoreOK, LeftOut
  <2>2. RoomList \in Event /\ ErrorNotice \in Event /\ MessageHistory(r) \in Event
    BY <2>1, EventsTyped, HistoryLists, CoreAssumption
  <2>3. H \in Seq(Event) /\ Len(H) <= 1 /\ (Len(H) = 1 => replayed /\ H[1] = MessageHistory(r))
        /\ (replayed => Len(H) = 1)
    BY <2>2 DEF PushMessageHistory
  <2>4. E \in Seq(Event) /\ Len(E) <= 1 /\ (Len(E) = 1 => E[1] = ErrorNotice)
    BY <2>2
  <2>5. port' = port \o evs
    <3> HIDE DEF H, E
    <3>1. port' = ((port \o <<RoomList>>) \o H) \o E
      BY <1>4 DEF H, E
    <3>2. port \in Seq(Event) /\ <<RoomList>> \in Seq(Event) /\ H \in Seq(Event) /\ E \in Seq(Event)
      BY <2>2, <2>3, <2>4 DEF TypeOK, CoreOK
    <3>3. (port \o <<RoomList>>) \o H = port \o (<<RoomList>> \o H)
      BY <3>2, ConcatAssociative
    <3>4. <<RoomList>> \o H \in Seq(Event)
      BY <3>2, ConcatProperties
    <3>5. (port \o (<<RoomList>> \o H)) \o E = port \o ((<<RoomList>> \o H) \o E)
      BY <3>2, <3>4, ConcatAssociative
    <3> QED
      BY <3>1, <3>3, <3>5
  <2> HIDE DEF H, E
  <2>6. /\ evs \in Seq(Event) /\ 1 \in 1..Len(evs) /\ evs[1] = RoomList
        /\ \A k \in 1..Len(evs) :
              \/ k = 1
              \/ k = 2 /\ Len(H) = 1 /\ evs[k] = H[1]
              \/ Len(E) = 1 /\ evs[k] = E[1]
        /\ Len(H) = 1 => 2 \in 1..Len(evs) /\ evs[2] = H[1]
    BY <2>2, <2>3, <2>4, JoinEvents
  <2> HIDE DEF evs
  <2>7. /\ \A k \in 1..Len(evs) :
              \/ evs[k] = ErrorNotice
              \/ k = 1 /\ evs[k] = RoomList
              \/ evs[k] = MessageHistory(r) /\ ~refused'
        /\ ~refused' => \E k \in 1..Len(evs) : evs[k] = MessageHistory(r)
    BY <2>3, <2>4, <2>6
  <2>8. joined' \subseteq joined \cup {r} /\ (~refused' => LeftOut({r}) \subseteq late')
    BY <1>4 DEF joined
  <2>9. refused' \in BOOLEAN
    OBVIOUS
  <2>10. PortPart'
    BY <1>1, <2>1, <2>5, <2>6, <2>7, <2>8, <2>9, AnsweredKeeps, CoreAssumption
  <2> QED
    BY <1>2, <2>1, <2>5, <2>6, <2>10
<1>5. CASE /\ explicit' = explicit \cup {r} /\ UNCHANGED derived
           /\ late' = IF replayed THEN late \cup LeftOut({r}) ELSE late
           /\ \E live \in BOOLEAN :
                 /\ r \in joined => live
                 /\ port' = port \o <<RoomList>> \o PushMessageHistory(r, replayed)
                                \o (IF live THEN <<>> ELSE <<ErrorNotice>>)
  <2>1. PICK live \in BOOLEAN :
           port' = port \o <<RoomList>> \o PushMessageHistory(r, replayed)
                        \o (IF live THEN <<>> ELSE <<ErrorNotice>>)
    BY <1>5
  <2>2. CoreKept
    BY <1>4, <1>5, <2>1
  <2> QED
    BY <1>1, <2>2
<1> QED
  BY <1>3, <1>5 DEF join_topic

\* The start: the catalog, the list of what is derived from it, readiness.
LEMMA OpenKeeps ==
    ASSUME CorePart, ClosedInv, shell = "new", shell' = "shown",
           UNCHANGED <<rail, activeRoom, flow, refused>>, Open
    PROVE  CoreKept /\ open' = TRUE /\ space' = space
<1> USE DEF CorePart
<1>1. /\ UNCHANGED <<space, parent, explicit, late, where, pushed, archived, sending>>
      /\ open' = TRUE /\ listening' \subseteq Room
      /\ \A r \in derived' : r \in Room /\ parent[r] = "space"
  <2>1. \A new \in SUBSET {r \in Room : parent[r] = "space" /\ space = "auto"} :
           \A r \in new : r \in Room /\ parent[r] = "space"
    OBVIOUS
  <2>2. \A r \in derived' : r \in Room /\ parent[r] = "space"
    BY <2>1 DEF Open
  <2> QED
    BY <2>2 DEF Open, catalog, messages
<1>2. space' \in Spaces /\ parent' \in Parents /\ derived' \subseteq Room /\ explicit' \subseteq Room
      /\ explicit' \subseteq joined
  BY <1>1 DEF TypeOK, CoreOK, joined
<1> DEFINE evs == PostCatalog \o <<Readiness>>
<1>3. /\ evs \in Seq(Event) /\ Len(evs) = 3
      /\ evs[1] = SpaceTree /\ evs[2] = RoomList /\ evs[3] = Readiness
  <2>1. SpaceTree \in Event /\ RoomList \in Event /\ Readiness \in Event
    BY <1>2, EventsTyped
  <2>2. /\ PostCatalog \in Seq(Event) /\ Len(PostCatalog) = 2
        /\ PostCatalog[1] = SpaceTree /\ PostCatalog[2] = RoomList
    BY <2>1, Pair DEF PostCatalog
  <2>3. <<Readiness>> \in Seq(Event) /\ Len(<<Readiness>>) = 1 /\ <<Readiness>>[1] = Readiness
    BY <2>1
  <2>4. PostCatalog \in Seq(Event) /\ <<Readiness>> \in Seq(Event)
    BY <2>2, <2>3
  <2>5. /\ evs \in Seq(Event) /\ Len(evs) = Len(PostCatalog) + Len(<<Readiness>>)
        /\ \A i \in 1..Len(PostCatalog) + Len(<<Readiness>>) :
              evs[i] = IF i <= Len(PostCatalog) THEN PostCatalog[i]
                       ELSE <<Readiness>>[i - Len(PostCatalog)]
    BY <2>4, ConcatProperties
  <2> HIDE DEF evs
  <2> QED
    BY <2>2, <2>3, <2>5
<1>4. port' = port \o evs
  <2>1. port = <<>> /\ port' = evs
    BY DEF ClosedInv, Open
  <2> HIDE DEF evs
  <2> QED
    BY <1>3, <2>1, ConcatEmptySeq
<1> HIDE DEF evs
<1>5. /\ evs[1].kind = "spaceTree" /\ evs[1].space = space' /\ evs[1].parent = parent'
      /\ evs[2].kind = "roomList" /\ evs[2].rooms = joined' /\ evs[3].kind = "readiness"
  BY <1>3 DEF SpaceTree, RoomList, Readiness, joined
<1>6. /\ 1 \in 1..Len(evs) /\ 2 \in 1..Len(evs)
      /\ \A k \in 1..Len(evs) : k = 1 \/ k = 2 \/ k = 3
  BY <1>3
<1>7. Posts(evs) /\ PostsPlaces(evs) /\ PostsGrowing(evs)
  BY <1>1, <1>3, <1>4, <1>5, <1>6 DEF Posts, PostsPlaces, PostsGrowing
<1>8. PostsListed(evs)
  <2>1. \A r \in joined' : Known(r) \/ Exists(evs[1].parent, r)
    BY <1>1, <1>2, <1>5 DEF Known, Exists, joined
  <2>2. 1 \in 1..2 /\ 1 \in 1..Len(evs)
    BY <1>6
  <2> QED
    BY <1>5, <1>6, <2>1, <2>2 DEF PostsListed, TreeBefore
<1>9. PostsMirror(evs)
  <2>1. NoneAfter(evs, 1, "spaceTree") /\ NoneAfter(evs, 2, "roomList")
    <3>1. \A k \in (1 + 1)..Len(evs) : k \in 1..Len(evs) /\ k # 1
      BY <1>3
    <3>2. \A k \in (2 + 1)..Len(evs) : k = 3
      BY <1>3
    <3> QED
      BY <1>5, <1>6, <3>1, <3>2 DEF NoneAfter
  <2> QED
    BY <1>5, <1>6, <2>1 DEF PostsMirror
<1>10. PostsFlow(evs)
  BY <1>1, <1>5, <1>6 DEF PostsFlow
<1>11. PortPart'
  BY <1>7, <1>8, <1>9, <1>10, PostKeeps
<1>12. port' \in Seq(Event)
  BY <1>3, <1>4, ConcatProperties DEF TypeOK, CoreOK
<1> QED
  BY <1>1, <1>2, <1>11, <1>12 DEF CoreKept, Places, WhereInv, TypeOK, CoreOK

-----------------------------------------------------------------------------
(* The session takes events.                                               *)

\* What is on screen stays as it is, or no room is on screen.
LEMMA FlowKept ==
    ASSUME TypeOK, CoreAssumption, RoomsApart, OneBubble, Places, flow' = flow,
           activeRoom' \in {activeRoom, NoRoom}
    PROVE  RoomsApart' /\ OneBubble'
<1>1. OneBubble'
  BY DEF OneBubble
<1>2. ASSUME activeRoom' # NoRoom, NEW i \in 1..Len(flow)
      PROVE  where'[flow[i].id] = activeRoom
  <2>1. flow[i].id \in Message
    <3>1. flow \in Seq([id : Message, state : States])
      BY DEF TypeOK
    <3>2. flow[i] \in [id : Message, state : States]
      BY <3>1, ElementOfSeq
    <3> QED
      BY <3>2
  <2>2. where[flow[i].id] = activeRoom /\ activeRoom \in Room
    BY <1>2 DEF RoomsApart, TypeOK
  <2> QED
    BY <2>1, <2>2, CoreAssumption DEF Places
<1>3. RoomsApart'
  BY <1>2 DEF RoomsApart
<1> QED
  BY <1>1, <1>3

LEMMA TakeKeeps ==
    ASSUME IInv, ClientAssumption, NEW kind, Take(kind),
           kind = "spaceTree" => rail'.space = Head(port).space /\ rail'.parent = Head(port).parent,
           kind # "spaceTree" => rail'.space = rail.space /\ rail'.parent = rail.parent,
           kind = "roomList" => rail'.rooms = Head(port).rooms,
           kind # "roomList" => rail'.rooms = rail.rooms,
           activeRoom' \in {activeRoom, NoRoom},
           \A m \in pushed \ late : activeRoom' = where[m] /\ (Shown(m) \/ Shows(Head(port), m)) =>
              \/ \E i \in 1..Len(flow') : flow'[i].id = m
              \/ kind = "messageHistory" /\ Head(port).room = where[m] /\ ~Shows(Head(port), m)
    PROVE  /\ CoreOK' /\ WhereInv' /\ PortPart' /\ Places
           /\ ClosedInv' /\ FormInv' /\ RowBeforeMembership'
           /\ port[1] = Head(port) /\ port[1] \in Event /\ port[1].kind = kind
           /\ 1 \in 1..Len(port)
           /\ UNCHANGED <<shell, handle, form, refused, taps, dialogs>>
<1> USE DEF IInv
<1>1. Taken /\ UNCHANGED <<shell, handle, form, refused, taps, dialogs>>
  BY DEF Take, Taken, bounds
<1>2. /\ port' \in Seq(Event) /\ Head(port) = port[1] /\ port[1] \in Event
      /\ Len(port) \in Nat /\ Len(port) >= 1
  BY <1>1, TakeIndex DEF Taken, TypeOK, CoreOK
<1>3. port[1].kind = kind /\ 1 \in 1..Len(port)
  BY <1>2 DEF Take
<1>4. where' = where /\ Places
  BY <1>1 DEF Taken, messages, Places
<1>5. CoreOK' /\ WhereInv'
  BY <1>1, <1>2 DEF Taken, catalog, membership, messages, TypeOK, CoreOK, WhereInv
<1>6. PortInv'
  BY <1>1, TakenPlaces
<1>7. GrowingInv'
  BY <1>1, <1>2, <1>3, TakenGrowing
<1>8. ListedInv'
  BY <1>1, <1>2, <1>3, TakenListed
<1>9. MirrorInv'
  BY <1>1, <1>2, <1>3, TakenMirror
<1>10. FlowInv'
  BY <1>1, <1>2, <1>3, TakenFlow
<1>11. RowBeforeMembership'
  <2> SUFFICES ASSUME NEW r \in rail'.rooms
               PROVE  rail'.parent[r] # "none"
    BY DEF RowBeforeMembership
  <2>1. CASE kind = "roomList"
    <3>1. r \in port[1].rooms /\ port[1].kind = "roomList" /\ rail'.parent = rail.parent /\ r \in Room
      BY <1>2, <1>3, <2>1, EventFields
    <3>2. Exists(rail.parent, r) \/ TreeBefore(port, 1, r)
      BY <1>3, <3>1 DEF ListedInv
    <3>3. ~TreeBefore(port, 1, r)
      <4>1. \A j \in 1..1 : j = 1
        OBVIOUS
      <4> QED
        BY <3>1, <4>1 DEF TreeBefore
    <3> QED
      BY <3>1, <3>2, <3>3 DEF Exists
  <2>2. CASE kind = "spaceTree"
    <3>1. r \in rail.rooms /\ r \in Room /\ Exists(rail.parent, r)
      BY <2>2 DEF RowBeforeMembership, Exists, TypeOK
    <3>2. Exists(port[1].parent, r)
      BY <1>3, <2>2, <3>1 DEF GrowingInv
    <3> QED
      BY <1>2, <2>2, <3>2 DEF Exists
  <2>3. CASE kind # "roomList" /\ kind # "spaceTree"
    BY <2>3 DEF RowBeforeMembership
  <2> QED
    BY <2>1, <2>2, <2>3
<1>12. ClosedInv'
  BY <1>1 DEF Take, Taken, ClosedInv
<1>13. FormInv'
  BY <1>1 DEF Taken, catalog, FormInv
<1> QED
  BY <1>1, <1>2, <1>3, <1>4, <1>5, <1>6, <1>7, <1>8, <1>9, <1>10, <1>11, <1>12, <1>13 DEF PortPart

\* An event that the flow does not show.
LEMMA FlowShown ==
    ASSUME flow' = flow, NEW m, Shown(m)
    PROVE  \E i \in 1..Len(flow') : flow'[i].id = m
  BY DEF Shown

LEMMA setTreeKeeps ==
    ASSUME IInv, CoreAssumption, ClientAssumption, setTree
    PROVE  IInv'
<1> USE DEF IInv
<1>1. /\ Take("spaceTree") /\ UNCHANGED <<isReady, activeRoom, lastSeen, flow, composer>>
      /\ rail' = [rail EXCEPT !.space = Head(port).space, !.parent = Head(port).parent]
  BY DEF setTree, selection
<1>2. rail'.rooms = rail.rooms /\ rail'.space = Head(port).space /\ rail'.parent = Head(port).parent
  BY <1>1 DEF TypeOK
<1>3. Head(port).kind = "spaceTree" /\ \A m : ~Shows(Head(port), m)
  BY <1>1 DEF Take, Shows
<1>4. /\ CoreOK' /\ WhereInv' /\ PortPart' /\ Places
      /\ ClosedInv' /\ FormInv' /\ RowBeforeMembership'
      /\ port[1] = Head(port) /\ port[1] \in Event /\ port[1].kind = "spaceTree"
      /\ UNCHANGED <<shell, handle, form, refused, taps, dialogs>>
  BY <1>1, <1>2, <1>3, TakeKeeps, FlowShown, ClientAssumption
<1>5. port[1].space \in Spaces /\ port[1].parent \in Parents
  BY <1>4, EventFields
<1>6. rail' \in [rooms : SUBSET Room, space : Spaces, parent : Parents]
  BY <1>1, <1>4, <1>5 DEF TypeOK
<1>7. TypeOK'
  BY <1>1, <1>2, <1>4, <1>6 DEF TypeOK
<1>8. RoomsApart' /\ OneBubble'
  BY <1>1, <1>4, FlowKept, CoreAssumption
<1> QED
  BY <1>1, <1>4, <1>7, <1>8 DEF FollowedInv, PortPart

LEMMA setRoomsKeeps ==
    ASSUME IInv, CoreAssumption, ClientAssumption, setRooms
    PROVE  IInv'
<1> USE DEF IInv
<1>1. /\ Take("roomList") /\ UNCHANGED <<isReady, flow>>
      /\ rail' = [rail EXCEPT !.rooms = Head(port).rooms]
  BY DEF setRooms
<1>2. \/ UNCHANGED <<activeRoom, lastSeen, composer>> /\ activeRoom \in Head(port).rooms \cup {NoRoom}
      \/ activeRoom' = NoRoom /\ lastSeen' = NoRoom /\ composer' = [composer EXCEPT !.room = NoRoom]
  BY DEF setRooms, selection, Listed, ForgetLastSeen, FollowRail
<1>3. rail'.rooms = Head(port).rooms /\ rail'.space = rail.space /\ rail'.parent = rail.parent
  BY <1>1 DEF TypeOK
<1>4. Head(port).kind = "roomList" /\ \A m : ~Shows(Head(port), m)
  BY <1>1 DEF Take, Shows
<1>5. activeRoom' \in {activeRoom, NoRoom}
  BY <1>2
<1>6. /\ CoreOK' /\ WhereInv' /\ PortPart' /\ Places
      /\ ClosedInv' /\ FormInv' /\ RowBeforeMembership'
      /\ port[1] = Head(port) /\ port[1] \in Event /\ port[1].kind = "roomList"
      /\ UNCHANGED <<shell, handle, form, refused, taps, dialogs>>
  BY <1>1, <1>3, <1>4, <1>5, TakeKeeps, FlowShown, ClientAssumption
<1>7. port[1].rooms \subseteq Room
  BY <1>6, EventFields
<1>8. rail' \in [rooms : SUBSET Room, space : Spaces, parent : Parents]
  BY <1>1, <1>6, <1>7 DEF TypeOK
<1>9. /\ composer' \in [room : Room \cup {NoRoom}, draft : BOOLEAN]
      /\ lastSeen' = activeRoom' /\ composer'.room = activeRoom'
      /\ activeRoom' \in rail'.rooms \cup {NoRoom}
  BY <1>2, <1>3 DEF TypeOK, FollowedInv
<1>10. TypeOK'
  BY <1>1, <1>6, <1>8, <1>9 DEF TypeOK
<1>11. RoomsApart' /\ OneBubble'
  BY <1>1, <1>5, <1>6, FlowKept, CoreAssumption
<1> QED
  BY <1>6, <1>9, <1>10, <1>11 DEF FollowedInv, PortPart

LEMMA NoticeKeeps ==
    ASSUME IInv, CoreAssumption, ClientAssumption, Readied \/ ErrorEvent
    PROVE  IInv'
<1> USE DEF IInv
<1>1. PICK kind \in {"readiness", "error"} : Take(kind)
  BY DEF Readied, ErrorEvent
<1>2. UNCHANGED <<rail, activeRoom, lastSeen, flow, composer>> /\ isReady' \in BOOLEAN
  BY DEF Readied, ErrorEvent, selection, TypeOK
<1>3. Head(port).kind = kind /\ kind # "message" /\ kind # "messageHistory"
      /\ kind # "spaceTree" /\ kind # "roomList"
  BY <1>1 DEF Take
<1>4. \A m : ~Shows(Head(port), m)
  BY <1>3 DEF Shows
<1>5. /\ CoreOK' /\ WhereInv' /\ PortPart' /\ Places
      /\ ClosedInv' /\ FormInv' /\ RowBeforeMembership'
      /\ UNCHANGED <<shell, handle, form, refused, taps, dialogs>>
  BY <1>1, <1>2, <1>3, <1>4, TakeKeeps, FlowShown, ClientAssumption
<1>6. TypeOK'
  BY <1>2, <1>5 DEF TypeOK
<1>7. RoomsApart' /\ OneBubble'
  BY <1>2, <1>5, FlowKept, CoreAssumption
<1> QED
  BY <1>2, <1>5, <1>6, <1>7 DEF FollowedInv, PortPart

LEMMA MessageEventKeeps ==
    ASSUME IInv, CoreAssumption, ClientAssumption, MessageEvent
    PROVE  IInv'
<1> USE DEF IInv
<1>1. Take("message") /\ UNCHANGED <<isReady, rail, activeRoom, lastSeen, composer>>
  BY DEF MessageEvent, selection
<1> DEFINE e == Head(port)
           bubble == Bubble(e.id, e.state)
<1>2. \/ activeRoom # e.room /\ flow' = flow
      \/ /\ activeRoom = e.room
         /\ flow' = IF Shown(e.id)
                    THEN [i \in 1..Len(flow) |-> IF flow[i].id = e.id THEN bubble ELSE flow[i]]
                    ELSE Append(flow, bubble)
  BY DEF MessageEvent, Active, upsert, Bubble
<1>3. e.kind = "message" /\ \A m : Shows(e, m) <=> e.id = m
  BY <1>1 DEF Take, Shows
<1>4. e \in Event /\ port # <<>> /\ e = port[1] /\ 1 \in 1..Len(port)
  <2>1. port \in Seq(Event) /\ port # <<>>
    BY <1>1 DEF Take, TypeOK, CoreOK
  <2> QED
    BY <2>1, HeadTailProperties, EmptySeq
<1>5. e.id \in Message /\ e.room \in Room /\ e.state \in States /\ where[e.id] = e.room
  BY <1>3, <1>4, EventFields DEF PortPart, PortInv
<1>6. bubble \in [id : Message, state : States] /\ bubble.id = e.id
  BY <1>5 DEF Bubble
<1>7. flow \in Seq([id : Message, state : States]) /\ Len(flow) \in Nat
  BY DEF TypeOK
<1> HIDE DEF e, bubble
\* The flow after: its bubbles are the old ones, by their ids, and the new one.
<1>8. /\ flow' \in Seq([id : Message, state : States])
      /\ \A i \in 1..Len(flow) : i \in 1..Len(flow') /\ flow'[i].id = flow[i].id
      /\ \A i \in 1..Len(flow') :
            \/ i \in 1..Len(flow) /\ flow'[i].id = flow[i].id
            \/ i = Len(flow) + 1 /\ flow'[i].id = e.id /\ ~Shown(e.id) /\ activeRoom = e.room
      /\ activeRoom = e.room => \E i \in 1..Len(flow') : flow'[i].id = e.id
  <2>1. CASE activeRoom # e.room /\ flow' = flow
    BY <1>7, <2>1
  <2>2. CASE activeRoom = e.room /\ Shown(e.id)
    <3>1. flow' = [i \in 1..Len(flow) |-> IF flow[i].id = e.id THEN bubble ELSE flow[i]]
      BY <1>2, <2>2
    <3>2. \A i \in 1..Len(flow) : flow[i] \in [id : Message, state : States]
      BY <1>7, ElementOfSeq
    <3>3. \A i \in 1..Len(flow) :
             (IF flow[i].id = e.id THEN bubble ELSE flow[i]) \in [id : Message, state : States]
      BY <1>6, <3>2
    <3>4. flow' \in [1..Len(flow) -> [id : Message, state : States]]
      BY <3>1, <3>3
    <3>5. flow' \in Seq([id : Message, state : States]) /\ Len(flow') = Len(flow)
      BY <1>7, <3>4
    <3>6. \A i \in 1..Len(flow) : flow'[i].id = flow[i].id
      BY <1>6, <3>1
    <3>7. \E i \in 1..Len(flow') : flow'[i].id = e.id
      BY <2>2, <3>5, <3>6 DEF Shown
    <3> QED
      BY <3>5, <3>6, <3>7
  <2>3. CASE activeRoom = e.room /\ ~Shown(e.id)
    <3>1. flow' = Append(flow, bubble)
      BY <1>2, <2>3
    <3>2. /\ flow' \in Seq([id : Message, state : States]) /\ Len(flow') = Len(flow) + 1
          /\ (\A i \in 1..Len(flow) : flow'[i] = flow[i]) /\ flow'[Len(flow) + 1] = bubble
      BY <1>6, <1>7, <3>1, AppendProperties
    <3>3. \A i \in 1..Len(flow') : i \in 1..Len(flow) \/ i = Len(flow) + 1
      BY <1>7, <3>2
    <3>4. Len(flow) + 1 \in 1..Len(flow') /\ \A i \in 1..Len(flow) : i \in 1..Len(flow')
      BY <1>7, <3>2
    <3> QED
      BY <1>6, <2>3, <3>2, <3>3, <3>4
  <2> QED
    BY <1>2, <2>1, <2>2, <2>3
<1>9. \A m \in pushed \ late : activeRoom' = where[m] /\ (Shown(m) \/ Shows(Head(port), m)) =>
         \E i \in 1..Len(flow') : flow'[i].id = m
  <2> SUFFICES ASSUME NEW m, activeRoom = where[m], Shown(m) \/ Shows(Head(port), m)
               PROVE  \E i \in 1..Len(flow') : flow'[i].id = m
    BY <1>1
  <2>1. CASE Shown(m)
    BY <1>8, <2>1 DEF Shown
  <2>2. CASE Shows(Head(port), m)
    <3>1. e.id = m
      BY <1>3, <2>2 DEF e
    <3> QED
      BY <1>5, <1>8, <3>1
  <2> QED
    BY <2>1, <2>2
<1>10. /\ CoreOK' /\ WhereInv' /\ PortPart' /\ Places
       /\ ClosedInv' /\ FormInv' /\ RowBeforeMembership'
       /\ UNCHANGED <<shell, handle, form, refused, taps, dialogs>>
  BY <1>1, <1>9, TakeKeeps, ClientAssumption
<1>11. TypeOK'
  BY <1>1, <1>8, <1>10 DEF TypeOK
<1>12. where' = where
  BY <1>1 DEF Take, messages
<1>13. RoomsApart'
  <2>1. \A i \in 1..Len(flow') : activeRoom # NoRoom => where[flow'[i].id] = activeRoom
    BY <1>5, <1>8 DEF RoomsApart
  <2> QED
    BY <1>1, <1>12, <2>1 DEF RoomsApart
<1>14. OneBubble'
  <2> SUFFICES ASSUME NEW i \in 1..Len(flow'), NEW j \in 1..Len(flow'), flow'[i].id = flow'[j].id
               PROVE  i = j
    BY DEF OneBubble
  <2>1. CASE i \in 1..Len(flow) /\ j \in 1..Len(flow)
    BY <1>8, <2>1 DEF OneBubble
  <2>2. CASE i \notin 1..Len(flow) \/ j \notin 1..Len(flow)
    BY <1>8, <2>2 DEF Shown
  <2> QED
    BY <2>1, <2>2
<1> QED
  BY <1>1, <1>10, <1>11, <1>13, <1>14 DEF FollowedInv, PortPart

LEMMA HistoryEventKeeps ==
    ASSUME IInv, CoreAssumption, ClientAssumption, HistoryEvent
    PROVE  IInv'
<1> USE DEF IInv
<1>1. Take("messageHistory") /\ UNCHANGED <<isReady, rail, activeRoom, lastSeen, composer>>
  BY DEF HistoryEvent, selection
<1> DEFINE e == Head(port)
           batch == e.messages
<1>2. \/ activeRoom # e.room /\ flow' = flow
      \/ activeRoom = e.room /\ flow' = [i \in 1..Len(batch) |-> Bubble(batch[i], "complete")]
  BY DEF HistoryEvent, replaceAll
<1>3. e.kind = "messageHistory" /\ \A m : Shows(e, m) <=> \E k \in 1..Len(batch) : batch[k] = m
  BY <1>1 DEF Take, Shows
<1>4. e \in Event /\ port # <<>> /\ e = port[1] /\ 1 \in 1..Len(port)
  <2>1. port \in Seq(Event) /\ port # <<>>
    BY <1>1 DEF Take, TypeOK, CoreOK
  <2> QED
    BY <2>1, HeadTailProperties, EmptySeq
<1>5. batch \in Seq(Message) /\ Len(batch) \in Nat
  BY <1>3, <1>4, EventFields
<1>6. /\ \A k \in 1..Len(batch) : where[batch[k]] = e.room
      /\ \A k, l \in 1..Len(batch) : batch[k] = batch[l] => k = l
  BY <1>3, <1>4 DEF PortPart, PortInv
<1> HIDE DEF e, batch
<1>7. CASE activeRoom # e.room /\ flow' = flow
  <2>1. \A m \in pushed \ late : activeRoom' = where[m] /\ (Shown(m) \/ Shows(Head(port), m)) =>
           \E i \in 1..Len(flow') : flow'[i].id = m
    <3> SUFFICES ASSUME NEW m, activeRoom = where[m], Shown(m) \/ Shows(Head(port), m)
                 PROVE  \E i \in 1..Len(flow') : flow'[i].id = m
      BY <1>1
    <3>1. CASE Shown(m)
      BY <1>7, <3>1 DEF Shown
    <3>2. CASE Shows(Head(port), m)
      <4>1. where[m] = e.room
        BY <1>3, <1>6, <3>2 DEF e
      <4> QED
        BY <1>7, <4>1
    <3> QED
      BY <3>1, <3>2
  <2>2. /\ CoreOK' /\ WhereInv' /\ PortPart' /\ Places
        /\ ClosedInv' /\ FormInv' /\ RowBeforeMembership'
        /\ UNCHANGED <<shell, handle, form, refused, taps, dialogs>>
    BY <1>1, <2>1, TakeKeeps, ClientAssumption
  <2>3. TypeOK'
    BY <1>1, <1>7, <2>2 DEF TypeOK
  <2>4. RoomsApart' /\ OneBubble'
    BY <1>1, <1>7, <2>2, FlowKept, CoreAssumption
  <2> QED
    BY <1>1, <2>2, <2>3, <2>4 DEF FollowedInv, PortPart
<1>8. CASE activeRoom = e.room /\ flow' = [i \in 1..Len(batch) |-> Bubble(batch[i], "complete")]
  <2>1. /\ flow' \in Seq([id : Message, state : States]) /\ Len(flow') = Len(batch)
        /\ \A i \in 1..Len(batch) : flow'[i].id = batch[i]
    <3>1. \A i \in 1..Len(batch) : batch[i] \in Message
      BY <1>5, ElementOfSeq
    <3>2. \A i \in 1..Len(batch) : Bubble(batch[i], "complete") \in [id : Message, state : States]
      BY <3>1 DEF Bubble, States
    <3>3. flow' \in [1..Len(batch) -> [id : Message, state : States]]
      BY <1>8, <3>2
    <3>4. \A i \in 1..Len(batch) : flow'[i].id = batch[i]
      BY <1>8 DEF Bubble
    <3>5. ASSUME NEW S, flow' \in [1..Len(batch) -> S]
          PROVE  flow' \in Seq(S) /\ Len(flow') = Len(batch)
      BY <1>5, <3>5
    <3>6. flow' \in Seq([id : Message, state : States]) /\ Len(flow') = Len(batch)
      BY <3>3, <3>5
    <3> QED
      BY <3>4, <3>6
  <2>2. \A m \in pushed \ late : activeRoom' = where[m] /\ (Shown(m) \/ Shows(Head(port), m)) =>
           \/ \E i \in 1..Len(flow') : flow'[i].id = m
           \/ Head(port).room = where[m] /\ ~Shows(Head(port), m)
    <3> SUFFICES ASSUME NEW m, activeRoom = where[m], Shows(Head(port), m)
                 PROVE  \E i \in 1..Len(flow') : flow'[i].id = m
      BY <1>1, <1>8 DEF e
    <3>1. \E k \in 1..Len(batch) : batch[k] = m
      BY <1>3 DEF e
    <3> QED
      BY <2>1, <3>1
  <2>3. /\ CoreOK' /\ WhereInv' /\ PortPart' /\ Places
        /\ ClosedInv' /\ FormInv' /\ RowBeforeMembership'
        /\ UNCHANGED <<shell, handle, form, refused, taps, dialogs>>
    BY <1>1, <2>2, TakeKeeps, ClientAssumption
  <2>4. TypeOK'
    BY <1>1, <2>1, <2>3 DEF TypeOK
  <2>5. where' = where
    BY <1>1 DEF Take, messages
  <2>6. RoomsApart'
    BY <1>1, <1>6, <1>8, <2>1, <2>5 DEF RoomsApart
  <2>7. OneBubble'
    BY <1>6, <2>1 DEF OneBubble
  <2> QED
    BY <1>1, <2>3, <2>4, <2>6, <2>7 DEF FollowedInv, PortPart
<1> QED
  BY <1>2, <1>7, <1>8

-----------------------------------------------------------------------------
(* What the user and the peers do.                                         *)

Form == [mode : Modes \cup {"closed"}, type : {"space", "room"}, auto : Spaces,
         touched : BOOLEAN, stale : BOOLEAN, handled : BOOLEAN, published : Nat]

Composer == [room : Room \cup {NoRoom}, draft : BOOLEAN]

\* A step of the core, or of the form and the draft.
LEMMA StepKeeps ==
    ASSUME IInv, CoreAssumption, CoreKept, open' = open,
           UNCHANGED <<session, rail, selection, flow, refused>>,
           open \/ (port' = port /\ joined' = joined /\ sending' = sending),
           shell = "closing" => sending' = sending,
           composer' \in Composer, composer'.room = composer.room,
           form' \in Form, FormInv', taps' \in 0..MaxTaps, dialogs' \in 0..MaxDialogs
    PROVE  IInv'
<1> USE DEF IInv
<1>1. UNCHANGED <<shell, handle, isReady, activeRoom, lastSeen>>
  BY DEF session, selection
<1>2. CoreOK' /\ WhereInv' /\ PortPart' /\ Places
  BY DEF CoreKept
<1>3. TypeOK'
  BY <1>1, <1>2 DEF TypeOK, Form, Composer
<1>4. ClosedInv'
  BY <1>1 DEF ClosedInv
<1>5. FollowedInv' /\ RowBeforeMembership'
  BY <1>1 DEF FollowedInv, RowBeforeMembership
<1>6. RoomsApart' /\ OneBubble'
  BY <1>1, <1>2, FlowKept
<1> QED
  BY <1>2, <1>3, <1>4, <1>5, <1>6 DEF PortPart

LEMMA CoreUnchanged ==
    ASSUME CorePart, UNCHANGED <<core, rail, activeRoom, flow, refused>>,
           shell' = "shown" => shell = "shown"
    PROVE  /\ CoreKept /\ open' = open /\ port' = port /\ joined' = joined /\ space' = space
           /\ sending' = sending
<1> USE DEF CorePart
<1>1. UNCHANGED <<open, space, parent, derived, explicit, listening, where, pushed, archived, sending,
                  port, late>>
  BY DEF core
<1>2. OnlyMessages /\ Places /\ joined' = joined
  BY <1>1 DEF OnlyMessages, catalog, Places, joined
<1>3. PortPart'
  BY <1>1, <1>2, QuietKeeps
<1>4. CoreOK' /\ WhereInv'
  BY <1>1 DEF TypeOK, CoreOK, WhereInv
<1> QED
  BY <1>1, <1>2, <1>3, <1>4 DEF CoreKept

\* The draft and the form alone.
LEMMA QuietStepKeeps ==
    ASSUME IInv, CoreAssumption, UNCHANGED <<core, session, rail, selection, flow, refused>>,
           composer' \in Composer, composer'.room = composer.room,
           form' \in Form, FormInv', taps' \in 0..MaxTaps, dialogs' \in 0..MaxDialogs
    PROVE  IInv'
<1>1. CorePart
  BY DEF IInv, CorePart, PortPart
<1>2. shell' = shell /\ activeRoom' = activeRoom
  BY DEF session, selection
<1>3. CoreKept /\ open' = open /\ port' = port /\ joined' = joined /\ sending' = sending
  BY <1>1, <1>2, CoreUnchanged
<1> QED
  BY <1>3, StepKeeps

LEMMA DialogKeeps ==
    ASSUME IInv, CoreAssumption, ClientAssumption,
           \/ \E mode \in Modes : OpenDialog(mode)
           \/ selectSpaceType \/ setAutoJoinRooms \/ CloseDialog
    PROVE  IInv'
<1> USE DEF IInv
<1>1. /\ UNCHANGED <<core, session, rail, selection, flow, composer, refused, taps>>
      /\ dialogs' \in 0..MaxDialogs
  <2>1. CASE \E mode \in Modes : OpenDialog(mode)
    <3>1. dialogs < MaxDialogs /\ dialogs' = dialogs + 1
      BY <2>1 DEF OpenDialog
    <3>2. dialogs' \in 0..MaxDialogs
      BY <3>1, ClientAssumption DEF TypeOK
    <3> QED
      BY <2>1, <3>2 DEF OpenDialog
  <2>2. CASE selectSpaceType \/ setAutoJoinRooms \/ CloseDialog
    BY <2>2 DEF selectSpaceType, setAutoJoinRooms, CloseDialog, bounds, TypeOK
  <2> QED
    BY <2>1, <2>2
<1>2. composer' \in Composer /\ composer'.room = composer.room /\ taps' \in 0..MaxTaps
  BY <1>1 DEF TypeOK, Composer
<1>3. form \in Form /\ rail.space \in Spaces
  BY DEF TypeOK, Form
<1>4. Closed \in Form /\ Closed.mode = "closed" /\ ~Closed.handled /\ Closed.published = 0
  BY DEF Closed, Form, Modes, Spaces
<1>5. space' = space
  BY <1>1 DEF core
<1>6. form' \in Form /\ FormInv'
  <2>1. ASSUME NEW mode \in Modes, OpenDialog(mode)
        PROVE  form' \in Form /\ FormInv'
    <3>1. /\ form' = [Closed EXCEPT !.mode = mode, !.auto = Prefill(mode),
                                    !.stale = mode = "editSpace" /\ rail.space # space]
          /\ Prefill(mode) \in Spaces
      BY <1>3, <2>1 DEF OpenDialog, Prefill, Spaces
    <3>2. /\ form' \in Form /\ form'.mode = mode /\ form'.auto = Prefill(mode)
          /\ form'.stale = (mode = "editSpace" /\ rail.space # space)
          /\ form'.handled = FALSE /\ form'.published = 0
      BY <3>1 DEF Closed, Form, Spaces
    <3>3. form'.mode = "editSpace" /\ ~form'.stale => form'.auto = space
      BY <3>2 DEF Prefill
    <3> QED
      BY <1>5, <3>2, <3>3 DEF FormInv
  <2>2. CASE selectSpaceType
    <3>1. /\ form' \in Form /\ form.mode = "createFromHeader" /\ form'.mode = form.mode
          /\ form'.handled = form.handled /\ form'.published = form.published
      BY <1>3, <2>2 DEF selectSpaceType, ShowsTypeSelector, Form
    <3> QED
      BY <3>1 DEF FormInv
  <2>3. CASE setAutoJoinRooms
    <3>1. /\ form' \in Form /\ form'.mode = form.mode
          /\ form'.touched = (form.mode = "editSpace")
          /\ form'.handled = form.handled /\ form'.published = form.published
      BY <1>3, <2>3 DEF setAutoJoinRooms, Form, Spaces
    <3> QED
      BY <3>1 DEF FormInv
  <2>4. CASE CloseDialog
    BY <1>4, <2>4 DEF CloseDialog, FormInv
  <2> QED
    BY <2>1, <2>2, <2>3, <2>4
<1> QED
  BY <1>1, <1>2, <1>6, QuietStepKeeps

LEMMA SendStepKeeps ==
    ASSUME IInv, CoreAssumption, NEW m \in Own, m \notin pushed, NEW held \in BOOLEAN, send(m, held),
           UNCHANGED <<session, rail, selection, flow, form, refused, bounds>>
    PROVE  IInv'
<1> USE DEF IInv
<1>1. form' \in Form /\ taps' \in 0..MaxTaps /\ dialogs' \in 0..MaxDialogs
  BY DEF TypeOK, Form, bounds
<1>2. composer \in Composer /\ composer' \in Composer /\ composer'.room = composer.room
  BY DEF TypeOK, Composer, send
<1>3. CASE UNCHANGED core
  <2>1. FormInv'
    BY <1>3 DEF FormInv, core
  <2> QED
    BY <1>1, <1>2, <1>3, <2>1, QuietStepKeeps
<1>4. CASE composer.room # NoRoom /\ (send_text(m, composer.room) \/ Rejected)
  <2>1. composer.room \in Room
    BY <1>2, <1>4 DEF Composer
  <2>2. CorePart /\ Sends
    BY DEF CorePart, PortPart, Sends, session, selection
  <2>3. CoreKept /\ space' = space /\ open' = open
    BY <1>4, <2>1, <2>2, SendKeeps, RejectedKeeps DEF Rejected
  <2>4. FormInv'
    BY <2>3 DEF FormInv
  <2>5. open /\ shell # "closing"
    BY <1>4 DEF ClosedInv, FollowedInv
  <2> QED
    BY <1>1, <1>2, <2>3, <2>4, <2>5, StepKeeps
<1> QED
  BY <1>3, <1>4 DEF send

LEMMA SentKeeps ==
    ASSUME IInv, CoreAssumption, Sent
    PROVE  IInv'
<1> USE DEF IInv
<1>1. PICK m \in Own, ok \in BOOLEAN :
         SendReturns(m, ok) /\ composer' = [composer EXCEPT !.draft = ~ok]
  BY DEF Sent
<1>2. UNCHANGED <<session, rail, selection, flow, form, refused, bounds>>
  BY DEF Sent
<1>3. /\ composer' \in Composer /\ composer'.room = composer.room /\ form' \in Form
      /\ taps' \in 0..MaxTaps /\ dialogs' \in 0..MaxDialogs
  BY <1>1, <1>2 DEF TypeOK, Composer, Form, bounds
<1>4. CorePart /\ Sends
  BY <1>2 DEF CorePart, PortPart, Sends, session, selection
<1>5. CoreKept /\ space' = space /\ open' = open
  BY <1>1, <1>4, ReturnKeeps
<1>6. open /\ shell # "closing"
  BY <1>1 DEF SendReturns, ClosedInv
<1>7. FormInv'
  BY <1>2, <1>5 DEF FormInv
<1> QED
  BY <1>2, <1>3, <1>5, <1>6, <1>7, StepKeeps

LEMMA PeersStepKeeps ==
    ASSUME IInv, CoreAssumption, Peers
    PROVE  IInv'
<1> USE DEF IInv
<1>1. \E m \in Message, r \in Room : (m \in Peer /\ PushMessage(m, r)) \/ ArchiveMessage(m, r)
  BY DEF Peers, Message
<1>2. CorePart /\ Sends /\ UNCHANGED <<session, rail, selection, flow, composer, form, refused, bounds>>
  BY DEF Peers, CorePart, PortPart, Sends, session, selection
<1>3. CoreKept /\ space' = space /\ open' = open
  BY <1>1, <1>2, PeersKeep
<1>4. open /\ sending' = sending
  BY <1>1 DEF PushMessage, ArchiveMessage, Heard
<1>5. /\ composer' \in Composer /\ composer'.room = composer.room /\ form' \in Form
      /\ taps' \in 0..MaxTaps /\ dialogs' \in 0..MaxDialogs
  BY <1>2 DEF TypeOK, Composer, Form, bounds
<1>6. FormInv'
  BY <1>2, <1>3 DEF FormInv
<1> QED
  BY <1>2, <1>3, <1>4, <1>5, <1>6, StepKeeps

LEMMA submitKeeps ==
    ASSUME IInv, CoreAssumption, submit
    PROVE  IInv'
<1> USE DEF IInv
<1>1. UNCHANGED <<session, rail, selection, flow, composer, refused, bounds>>
  BY DEF submit
<1>2. /\ composer' \in Composer /\ composer'.room = composer.room /\ form \in Form
      /\ taps' \in 0..MaxTaps /\ dialogs' \in 0..MaxDialogs
  BY <1>1 DEF TypeOK, Composer, Form, bounds
<1>3. CASE UNCHANGED <<core, form>>
  <2>1. FormInv' /\ form' \in Form
    BY <1>2, <1>3 DEF FormInv, core
  <2> QED
    BY <1>1, <1>2, <1>3, <2>1, QuietStepKeeps
<1>4. ASSUME CanPublish
      PROVE  CorePart /\ Sends /\ open /\ shell # "closing"
  BY <1>1, <1>4 DEF CorePart, PortPart, Sends, session, selection, CanPublish, ClosedInv, submit, Interactive
<1>5. CASE CanPublish /\ Rejected /\ UNCHANGED form
  <2>1. CoreKept /\ space' = space
    BY <1>4, <1>5, RejectedKeeps
  <2>2. open' = open /\ FormInv' /\ form' \in Form
    BY <1>2, <1>5, <2>1 DEF Rejected, FormInv
  <2> QED
    BY <1>1, <1>2, <1>4, <1>5, <2>1, <2>2, StepKeeps
<1>6. CASE CanPublish /\ Publish /\ form' = [form EXCEPT !.handled = TRUE, !.published = @ + 1]
  <2>1. ~form.handled /\ form.published = 0 /\ form.mode # "closed"
    BY DEF submit, Confirmable, FormInv
  <2>2. /\ form' \in Form /\ form'.handled = TRUE /\ form'.published = 1
        /\ form'.mode = form.mode /\ form'.auto = form.auto
        /\ form'.touched = form.touched /\ form'.stale = form.stale
    <3>1. form.published + 1 = 1
      BY <2>1
    <3>2. form' = [form EXCEPT !.handled = TRUE, !.published = 1]
      BY <1>6, <3>1
    <3>3. 1 \in Nat
      OBVIOUS
    <3> QED
      BY <1>2, <3>2, <3>3 DEF Form
  <2>3. form.auto \in Spaces
    BY <1>2 DEF Form
  <2>4. CoreKept /\ open' = open /\ (form.mode = "editSpace" => space' = form.auto)
    <3>1. CASE form.mode = "createFromHeader" /\ create_space(form.auto)
      BY <1>4, <1>6, <2>3, <3>1, CreateSpaceKeeps
    <3>2. ASSUME NEW r \in Room, NEW in \in {"standalone", "space"}, form.mode # "editSpace",
                 create_room(r, in)
          PROVE  CoreKept /\ open' = open /\ form.mode # "editSpace"
      <4>1. space' \in Spaces /\ parent' \in Parents
        BY <3>2 DEF create_room, TypeOK, CoreOK, Parents
      <4>2. \A q \in Room : Exists(parent, q) => Exists(parent', q)
        BY <3>2 DEF create_room, TypeOK, CoreOK, Parents, Exists
      <4> QED
        BY <1>4, <1>6, <3>2, <4>1, <4>2, RefreshKeeps DEF create_room
    <3>3. CASE form.mode = "editSpace" /\ update_space(form.auto)
      <4>1. space' = form.auto /\ parent' = parent
        BY <3>3 DEF update_space
      <4>2. space' \in Spaces /\ parent' \in Parents
        BY <2>3, <4>1 DEF TypeOK, CoreOK
      <4>3. \A q \in Room : Exists(parent, q) => Exists(parent', q)
        BY <4>1
      <4> QED
        BY <1>4, <1>6, <3>3, <4>1, <4>2, <4>3, RefreshKeeps DEF update_space
    <3> QED
      BY <1>6, <3>1, <3>2, <3>3 DEF Publish
  <2>5. FormInv'
    BY <2>2, <2>4 DEF FormInv
  <2> QED
    BY <1>1, <1>2, <1>4, <1>6, <2>2, <2>4, <2>5, StepKeeps
<1> QED
  BY <1>3, <1>5, <1>6 DEF submit

LEMMA selectRoomKeeps ==
    ASSUME IInv, CoreAssumption, ClientAssumption, NEW r \in Room, selectRoom(r)
    PROVE  IInv'
<1> USE DEF IInv
<1>1. /\ UNCHANGED <<session, rail, form, dialogs>> /\ taps < MaxTaps /\ taps' = taps + 1
      /\ r \in rail.rooms /\ r # activeRoom /\ activeRoom' = r
      /\ composer' = [composer EXCEPT !.room = r]
  BY DEF selectRoom, Enabled, FollowRail
<1>2. taps' \in 0..MaxTaps
  BY <1>1, ClientAssumption DEF TypeOK
<1>3. PICK replayed \in BOOLEAN :
         lastSeen' = r /\ flow' = <<>> /\ join_topic(r, replayed) /\ refused' = ~replayed
  <2>1. r # lastSeen
    BY <1>1 DEF FollowedInv
  <2> QED
    BY <2>1 DEF selectRoom, Rejoin, clear
<1>4. open /\ shell = "shown" /\ UNCHANGED <<shell, handle, isReady>>
  BY <1>1 DEF ClosedInv, session, selectRoom, Act, Interactive
<1>5. Exists(rail.parent, r)
  BY <1>1 DEF RowBeforeMembership, Exists
<1>6. CorePart
  BY DEF CorePart, PortPart
<1>7. CoreKept /\ open' = open /\ space' = space
  BY <1>1, <1>3, <1>4, <1>5, <1>6, JoinKeeps
<1>8. /\ composer' \in Composer /\ composer'.room = r
      /\ flow' \in Seq([id : Message, state : States]) /\ Len(flow') = 0
  BY <1>1, <1>3 DEF TypeOK, Composer
<1>9. TypeOK'
  BY <1>1, <1>2, <1>3, <1>4, <1>7, <1>8 DEF TypeOK, CoreKept, Composer
<1>10. RoomsApart' /\ OneBubble'
  <2>1. \A i \in 1..Len(flow') : FALSE
    BY <1>8
  <2> QED
    BY <2>1 DEF RoomsApart, OneBubble
<1>11. ClosedInv' /\ FollowedInv' /\ FormInv'
  BY <1>1, <1>3, <1>4, <1>7, <1>8 DEF ClosedInv, FollowedInv, FormInv
<1>12. RowBeforeMembership'
  BY <1>1, <1>7 DEF RowBeforeMembership
<1> QED
  BY <1>7, <1>9, <1>10, <1>11, <1>12 DEF CoreKept, PortPart

-----------------------------------------------------------------------------
(* A session's beginning and its end.                                      *)

LEMMA StartKeeps ==
    ASSUME IInv, CoreAssumption, Start
    PROVE  IInv'
<1> USE DEF IInv
<1>1. /\ shell = "new" /\ shell' = "shown" /\ Open /\ handle' = TRUE
      /\ UNCHANGED <<isReady, rail, activeRoom, lastSeen, flow, composer, form, refused, taps, dialogs>>
  BY DEF Start, selection, bounds
<1>2. CorePart
  BY DEF CorePart, PortPart
<1>3. CoreKept /\ open' = TRUE /\ space' = space
  BY <1>1, <1>2, OpenKeeps
<1>4. TypeOK'
  BY <1>1, <1>3 DEF TypeOK, CoreKept
<1>5. RoomsApart' /\ OneBubble'
  BY <1>1, <1>3, FlowKept DEF CoreKept
<1>6. ClosedInv' /\ FollowedInv' /\ FormInv' /\ RowBeforeMembership'
  BY <1>1, <1>3 DEF ClosedInv, FollowedInv, FormInv, RowBeforeMembership
<1> QED
  BY <1>3, <1>4, <1>5, <1>6 DEF CoreKept, PortPart

LEMMA FailKeeps ==
    ASSUME IInv, CoreAssumption, openDefaultFails \/ StartFails
    PROVE  IInv'
<1> USE DEF IInv
<1>1. /\ shell = "new" /\ shell' = "failed"
      /\ UNCHANGED <<core, handle, isReady, rail, activeRoom, lastSeen, flow, composer, form, refused, taps, dialogs>>
  BY DEF openDefaultFails, StartFails, Unstarted, selection, bounds
<1>2. CorePart
  BY DEF CorePart, PortPart
<1>3. /\ CoreKept /\ open' = open /\ port' = port /\ joined' = joined /\ space' = space
      /\ sending' = sending
  BY <1>1, <1>2, CoreUnchanged
<1>4. TypeOK'
  BY <1>1, <1>3 DEF TypeOK, CoreKept
<1>5. RoomsApart' /\ OneBubble'
  BY <1>1, <1>3, FlowKept DEF CoreKept
<1>6. ClosedInv' /\ FollowedInv' /\ FormInv' /\ RowBeforeMembership'
  BY <1>1, <1>3 DEF ClosedInv, FollowedInv, FormInv, RowBeforeMembership
<1> QED
  BY <1>3, <1>4, <1>5, <1>6 DEF CoreKept, PortPart

\* The core gone, and no room on screen.
LEMMA GoneKeeps ==
    ASSUME IInv, CoreAssumption, ClientAssumption, Gone, open' = FALSE, shell' # "shown",
           sending = {}, activeRoom' = NoRoom, rail'.parent \in {rail.parent, NoRail.parent}
    PROVE  CoreOK' /\ WhereInv' /\ PortPart' /\ Places /\ port' = <<>> /\ joined' = {} /\ space' = space
<1> USE DEF IInv
<1>1. /\ derived' = {} /\ explicit' = {} /\ listening' = {} /\ port' = <<>>
      /\ UNCHANGED <<space, parent, where, pushed, archived, sending, late>>
  BY DEF Gone, catalog, messages
<1>2. port' \in Seq(Event) /\ Len(port') = 0 /\ \A i \in 1..Len(port') : FALSE
  BY <1>1, EmptySeq
<1>3. CoreOK' /\ WhereInv' /\ Places
  BY <1>1, <1>2 DEF TypeOK, CoreOK, WhereInv, Places
<1>4. joined' = {}
  BY <1>1 DEF joined
<1>5. PortInv'
  BY <1>2 DEF PortInv
<1>6. GrowingInv'
  <2>1. \A r \in Room : Exists(rail'.parent, r) => Exists(parent', r)
    BY <1>1 DEF GrowingInv, Exists, NoRail
  <2> QED
    BY <1>2, <2>1 DEF GrowingInv, Exists
<1>7. ListedInv'
  BY <1>2, <1>4 DEF ListedInv
<1>8. MirrorInv'
  BY DEF MirrorInv
<1>9. FlowInv'
  <2>1. \A m \in pushed' : where'[m] # NoRoom
    BY <1>1, ClientAssumption DEF WhereInv
  <2> QED
    BY <1>2, <2>1 DEF FlowInv
<1> QED
  BY <1>1, <1>3, <1>4, <1>5, <1>6, <1>7, <1>8, <1>9 DEF PortPart

LEMMA RefusedKeeps ==
    ASSUME IInv, CoreAssumption, ClientAssumption, StartRefused
    PROVE  IInv'
<1> USE DEF IInv
<1>1. /\ shell = "new" /\ shell' = "failed" /\ open' = FALSE /\ handle' = FALSE /\ Gone
      /\ UNCHANGED <<isReady, rail, activeRoom, lastSeen, flow, composer, form, refused, taps, dialogs>>
  BY DEF StartRefused, CloseNativeOnce, selection, bounds
<1>2. activeRoom = NoRoom /\ rail.rooms = {} /\ sending = {}
  BY <1>1 DEF ClosedInv
<1>3. CoreOK' /\ WhereInv' /\ PortPart' /\ Places /\ port' = <<>> /\ joined' = {} /\ space' = space
  BY <1>1, <1>2, GoneKeeps
<1>4. TypeOK'
  BY <1>1, <1>3 DEF TypeOK
<1>5. RoomsApart' /\ OneBubble'
  BY <1>1, <1>3, FlowKept
<1>6. ClosedInv' /\ FollowedInv' /\ FormInv' /\ RowBeforeMembership'
  BY <1>1, <1>2, <1>3 DEF ClosedInv, Gone, messages, FollowedInv, FormInv, RowBeforeMembership
<1> QED
  BY <1>3, <1>4, <1>5, <1>6 DEF PortPart

LEMMA DisposeKeeps ==
    ASSUME IInv, CoreAssumption, ClientAssumption, Dispose
    PROVE  IInv'
<1> USE DEF IInv
<1>1. /\ shell \in {"shown", "failed"} /\ sending = {} /\ shell' = "closing"
      /\ activeRoom' = NoRoom /\ lastSeen' = NoRoom
      /\ flow' = <<>> /\ composer' = NoComposer /\ form' = Closed /\ refused' = FALSE
      /\ UNCHANGED <<handle, isReady, rail, taps, dialogs>>
      /\ UNCHANGED <<open, space, parent, derived, explicit, listening, where, pushed, archived, sending,
                      port, late>>
  BY DEF Dispose, Idle, bounds, core
<1>2. CoreOK' /\ WhereInv' /\ joined' = joined
  BY <1>1 DEF TypeOK, CoreOK, WhereInv, joined
<1>3. /\ composer' \in [room : Room \cup {NoRoom}, draft : BOOLEAN] /\ composer'.room = NoRoom
      /\ form' \in [mode : Modes \cup {"closed"}, type : {"space", "room"}, auto : Spaces,
                    touched : BOOLEAN, stale : BOOLEAN, handled : BOOLEAN, published : Nat]
      /\ form'.mode = "closed" /\ form'.handled = FALSE /\ form'.published = 0
  BY <1>1 DEF NoComposer, Closed, Spaces
<1>4. flow' \in Seq([id : Message, state : States]) /\ \A i \in 1..Len(flow') : FALSE
  BY <1>1
<1>5. TypeOK'
  BY <1>1, <1>2, <1>3, <1>4 DEF TypeOK
<1>6. PortInv' /\ GrowingInv' /\ MirrorInv'
  BY <1>1 DEF PortInv, GrowingInv, MirrorInv, Exists
<1>7. ListedInv'
  BY <1>1, <1>2 DEF ListedInv, TreeBefore, Exists
<1>8. FlowInv'
  <2>1. \A m \in pushed' : where'[m] # NoRoom
    BY <1>1, ClientAssumption DEF WhereInv
  <2>2. \A m \in pushed \ late : \A i \in 1..Len(port) :
           port[i].kind = "messageHistory" /\ port[i].room = where[m] /\ ~Shows(port[i], m) =>
              \E j \in i..Len(port) : Shows(port[j], m)
    BY DEF FlowInv
  <2>3. \A m \in pushed' \ late' : \A i \in 1..Len(port') :
           port'[i].kind = "messageHistory" /\ port'[i].room = where'[m] /\ ~Shows(port'[i], m) =>
              \E j \in i..Len(port') : Shows(port'[j], m)
    BY <1>1, <2>2 DEF Shows
  <2> QED
    BY <1>1, <2>1, <2>3 DEF FlowInv
<1>9. RoomsApart' /\ OneBubble'
  BY <1>4 DEF RoomsApart, OneBubble
<1>10. ClosedInv' /\ FollowedInv' /\ FormInv' /\ RowBeforeMembership'
  BY <1>1, <1>2, <1>3 DEF ClosedInv, FollowedInv, FormInv, RowBeforeMembership
<1> QED
  BY <1>2, <1>5, <1>6, <1>7, <1>8, <1>9, <1>10

LEMMA closeKeeps ==
    ASSUME IInv, CoreAssumption, ClientAssumption, close
    PROVE  IInv'
<1> USE DEF IInv
<1>1. /\ shell = "closing" /\ shell' = "disposed" /\ open' = FALSE /\ handle' = FALSE /\ Gone
      /\ isReady' = FALSE /\ rail' = NoRail
      /\ UNCHANGED <<activeRoom, lastSeen, flow, composer, form, refused, taps, dialogs>>
  BY DEF close, CloseNativeOnce, selection, bounds
<1>2. activeRoom = NoRoom /\ sending = {} /\ sending' = {}
  BY <1>1 DEF Gone, messages, ClosedInv
<1>3. CoreOK' /\ WhereInv' /\ PortPart' /\ Places /\ port' = <<>> /\ joined' = {} /\ space' = space
  BY <1>1, <1>2, GoneKeeps
<1>4. rail' \in [rooms : SUBSET Room, space : Spaces, parent : Parents] /\ rail'.rooms = {}
  BY <1>1 DEF NoRail, Spaces, Parents
<1>5. TypeOK'
  BY <1>1, <1>2, <1>3, <1>4 DEF TypeOK
<1>6. RoomsApart' /\ OneBubble'
  BY <1>1, <1>3, FlowKept
<1>7. ClosedInv' /\ FollowedInv' /\ FormInv' /\ RowBeforeMembership'
  BY <1>1, <1>2, <1>3, <1>4 DEF ClosedInv, FollowedInv, FormInv, RowBeforeMembership
<1> QED
  BY <1>3, <1>5, <1>6, <1>7 DEF PortPart

-----------------------------------------------------------------------------
(* The theorems.                                                           *)

LEMMA InitHolds ==
    ASSUME CoreAssumption, ClientAssumption, Init
    PROVE  IInv
<1>1. /\ open = FALSE /\ space \in Spaces /\ parent \in Parents
      /\ derived = {} /\ explicit = {} /\ listening = {} /\ where = [m \in Message |-> Nowhere]
      /\ pushed = {} /\ archived = {} /\ late = {} /\ port = <<>> /\ sending = {}
  BY DEF Init, CoreInit
<1>2. /\ shell = "new" /\ handle = FALSE /\ isReady = FALSE /\ rail = NoRail
      /\ activeRoom = NoRoom /\ lastSeen = NoRoom /\ flow = <<>> /\ composer = NoComposer
      /\ form = Closed /\ refused = FALSE /\ taps = 0 /\ dialogs = 0
  BY DEF Init
<1>3. port \in Seq(Event) /\ Len(port) = 0 /\ (\A i \in 1..Len(port) : FALSE)
      /\ \A i \in 1..Len(flow) : FALSE
  BY <1>1, <1>2, EmptySeq
<1>4. CoreOK
  BY <1>1, <1>3 DEF CoreOK
<1>5. /\ rail \in [rooms : SUBSET Room, space : Spaces, parent : Parents]
      /\ rail.rooms = {} /\ \A r \in Room : rail.parent[r] = "none"
      /\ composer \in [room : Room \cup {NoRoom}, draft : BOOLEAN] /\ composer.room = NoRoom
  BY <1>2 DEF NoRail, NoComposer, Spaces, Parents
<1>6. /\ form \in [mode : Modes \cup {"closed"}, type : {"space", "room"}, auto : Spaces,
                   touched : BOOLEAN, stale : BOOLEAN, handled : BOOLEAN, published : Nat]
      /\ form.mode = "closed" /\ form.handled = FALSE /\ form.published = 0
  BY <1>2 DEF Closed, Spaces
<1>7. 0 \in 0..MaxTaps /\ 0 \in 0..MaxDialogs
  BY ClientAssumption
<1>8. flow \in Seq([id : Message, state : States])
  BY <1>2
<1>9. TypeOK
  BY <1>2, <1>4, <1>5, <1>6, <1>7, <1>8 DEF TypeOK
<1>10. ClosedInv /\ FollowedInv /\ FormInv /\ RowBeforeMembership
  BY <1>1, <1>2, <1>5, <1>6
  DEF ClosedInv, FollowedInv, FormInv, RowBeforeMembership, joined
<1>11. RoomsApart /\ OneBubble
  BY <1>3 DEF RoomsApart, OneBubble
<1>12. WhereInv
  BY <1>1 DEF WhereInv, Message
<1>13. PortInv /\ GrowingInv /\ ListedInv
  BY <1>1, <1>3, <1>5 DEF PortInv, GrowingInv, ListedInv, Exists, joined
<1>14. MirrorInv /\ FlowInv
  BY <1>1, <1>2 DEF MirrorInv, FlowInv
<1> QED
  BY <1>9, <1>10, <1>11, <1>12, <1>13, <1>14 DEF IInv

LEMMA NextKeeps ==
    ASSUME IInv, CoreAssumption, ClientAssumption, [Next]_vars
    PROVE  IInv'
<1>1. CASE Start \/ openDefaultFails \/ StartFails \/ StartRefused \/ Dispose \/ close
  BY <1>1, StartKeeps, FailKeeps, RefusedKeeps, DisposeKeeps, closeKeeps
<1>2. CASE Dispatch
  BY <1>2, setTreeKeeps, setRoomsKeeps, NoticeKeeps, MessageEventKeeps, HistoryEventKeeps DEF Dispatch
<1>3. CASE User
  <2>1. ASSUME NEW m \in Own, onSubmit(m) \/ onPressed(m)
        PROVE  IInv'
    <3>1. m \notin pushed /\ UNCHANGED <<session, rail, selection, flow, form, refused, bounds>>
      BY <2>1 DEF onSubmit, onPressed, CanSubmit
    <3>2. \E held \in BOOLEAN : send(m, held)
      <4>1. composer.draft \in BOOLEAN
        BY DEF IInv, TypeOK
      <4> QED
        BY <2>1, <4>1 DEF onSubmit, onPressed
    <3> QED
      BY <3>1, <3>2, SendStepKeeps
  <2>2. ASSUME NEW r \in Room, selectRoom(r)
        PROVE  IInv'
    BY <2>2, selectRoomKeeps
  <2> QED
    BY <1>3, <2>1, <2>2, DialogKeeps, submitKeeps DEF User
<1>4. CASE Sent \/ Peers
  BY <1>4, SentKeeps, PeersStepKeeps
<1>5. CASE UNCHANGED vars
  <2>1. UNCHANGED <<core, session, rail, selection, flow, composer, form, refused, bounds>>
    BY <1>5 DEF vars
  <2>2. /\ composer' \in Composer /\ composer'.room = composer.room /\ form' \in Form
        /\ taps' \in 0..MaxTaps /\ dialogs' \in 0..MaxDialogs
    BY <2>1 DEF IInv, TypeOK, Composer, Form, bounds
  <2>3. FormInv'
    BY <2>1 DEF IInv, FormInv, core
  <2> QED
    BY <2>1, <2>2, <2>3, QuietStepKeeps
<1> QED
  BY <1>1, <1>2, <1>3, <1>4, <1>5 DEF Next

\* Every step of the client, its session and the core keeps the invariant.
THEOREM Inductive == Spec => []IInv
<1>1. Init => IInv
  BY InitHolds, CoreAssumption, ClientAssumption
<1>2. IInv /\ [Next]_vars => IInv'
  BY NextKeeps, CoreAssumption, ClientAssumption
<1> QED
  BY <1>1, <1>2, PTL DEF Spec

\* Type correctness: a selection is a listed room, the port has events only.
THEOREM TypeCorrect == Spec => []TypeOK
<1>1. IInv => TypeOK
  BY DEF IInv
<1> QED
  BY <1>1, Inductive, PTL

\* The gate of _dispatchEvent (CR-01) keeps the rooms apart, in whatever order selections,
\* histories and messages come.
THEOREM NoBleed == Spec => []RoomsApart
<1>1. IInv => RoomsApart
  BY DEF IInv
<1> QED
  BY <1>1, Inductive, PTL

\* Between the replay of join_topic and the events that follow it no message is lost:
\* when the port is empty, all that was pushed and is not late is on screen.
THEOREM NothingMissing == Spec => []FlowComplete
<1>1. IInv => FlowComplete
  <2> SUFFICES ASSUME IInv, Settled, activeRoom # NoRoom, ~refused,
                      NEW m \in pushed \ late, where[m] = activeRoom
               PROVE  Shown(m)
    BY DEF FlowComplete
  <2>1. \A j \in 1..Len(port) : FALSE
    BY DEF Settled
  <2> QED
    BY <2>1 DEF IInv, FlowInv
<1> QED
  BY <1>1, Inductive, PTL

\* upsert and replaceAll leave one bubble for a message (D-07).
THEOREM NoDoubles == Spec => []OneBubble
<1>1. IInv => OneBubble
  BY DEF IInv
<1> QED
  BY <1>1, Inductive, PTL

\* With nothing on the port the rail is the core's catalog and membership.
THEOREM RailCurrent == Spec => []RailMirrorsCore
<1>1. IInv => RailMirrorsCore
  <2> SUFFICES ASSUME IInv, Settled
               PROVE  rail = [rooms |-> joined, space |-> space, parent |-> parent]
    BY DEF RailMirrorsCore
  <2>1. \A i \in 1..Len(port) : FALSE
    BY DEF Settled
  <2>2. rail.rooms = joined /\ rail.space = space /\ rail.parent = parent
    BY <2>1 DEF IInv, MirrorInv, Settled
  <2>3. rail \in [rooms : SUBSET Room, space : Spaces, parent : Parents]
    BY DEF IInv, TypeOK
  <2> QED
    BY <2>2, <2>3
<1> QED
  BY <1>1, Inductive, PTL

\* The catalog is always posted before the membership that rests on it (D-02), so a listed
\* room has its row.
THEOREM RowFirst == Spec => []RowBeforeMembership
<1>1. IInv => RowBeforeMembership
  BY DEF IInv
<1> QED
  BY <1>1, Inductive, PTL

\* The handled flag of the dialog (WR-04).
THEOREM ConfirmedOnce == Spec => []OneCommandPerDialog
<1>1. IInv => OneCommandPerDialog
  BY DEF IInv, FormInv, OneCommandPerDialog
<1> QED
  BY <1>1, Inductive, PTL

\* The prefilled settings of the edit dialog are the space's own, so an untouched save
\* changes nothing.
THEOREM SettingsKept == Spec => EditKeepsSettings
<1>1. ASSUME IInv, [Next]_vars, form.mode = "editSpace", ~form.touched, ~form.stale
      PROVE  space' = space
  <2>1. form.auto = space
    BY <1>1 DEF IInv, FormInv
  <2>2. CASE Start \/ openDefaultFails \/ StartFails \/ StartRefused \/ Dispose \/ close
    BY <2>2 DEF Start, Open, openDefaultFails, StartFails, Unstarted, StartRefused, Dispose, close, Gone, core, catalog
  <2>3. CASE Dispatch
    BY <2>3 DEF Dispatch, setTree, setRooms, Readied, MessageEvent, HistoryEvent, ErrorEvent, Take, catalog
  <2>4. ASSUME NEW m \in Own, onSubmit(m) \/ onPressed(m)
        PROVE  space' = space
    BY <2>4 DEF onSubmit, onPressed, send, send_text, Rejected, core, catalog
  <2>5. ASSUME NEW r \in Room, selectRoom(r)
        PROVE  space' = space
    BY <2>5 DEF selectRoom, Rejoin, join_topic, core, catalog
  <2>6. CASE (\E mode \in Modes : OpenDialog(mode)) \/ selectSpaceType \/ setAutoJoinRooms \/ CloseDialog
    BY <2>6 DEF OpenDialog, selectSpaceType, setAutoJoinRooms, CloseDialog, core
  <2>7. CASE submit
    <3>1. CASE Publish
      BY <1>1, <2>1, <3>1 DEF Publish, update_space
    <3>2. CASE Rejected \/ UNCHANGED core
      BY <3>2 DEF Rejected, core, catalog
    <3> QED
      BY <2>7, <3>1, <3>2 DEF submit
  <2>8. CASE Sent \/ Peers
    BY <2>8 DEF Sent, SendReturns, Peers, PushMessage, ArchiveMessage, catalog
  <2>9. CASE UNCHANGED vars
    BY <2>9 DEF vars, core
  <2>10. CASE User
    BY <2>4, <2>5, <2>6, <2>7, <2>10 DEF User
  <2> QED
    BY <1>1, <2>2, <2>3, <2>8, <2>9, <2>10 DEF Next
<1>2. IInv /\ [Next]_vars =>
         [form.mode = "editSpace" /\ ~form.touched /\ ~form.stale => UNCHANGED space]_vars
  BY <1>1
<1> QED
  BY <1>2, Inductive, PTL DEF Spec, EditKeepsSettings

-----------------------------------------------------------------------------
(* The answers to the pending echoes.                                      *)

\* Events that carry no message state.
Silent == {e \in Event : e.kind # "message"}

\* The screen as it was, or an empty flow.
ScreenKept == (flow' = flow /\ activeRoom' = activeRoom) \/ Len(flow') = 0

\* Nothing but messages, up to the n-th of what is posted.
Messages(evs, n) == \A k \in 1..n : evs[k].kind = "message"

\* A send goes on behind messages alone, or is answered behind messages alone; an echo
\* that begins one is followed by messages alone.
PostsEcho(evs) ==
    /\ \A m \in sending :
          \/ m \in sending' /\ Messages(evs, Len(evs))
          \/ \E k \in 1..Len(evs) : Answers(evs[k], m, where[m]) /\ Messages(evs, k)
    /\ \A k \in 1..Len(evs) : evs[k].kind = "message" /\ evs[k].state = "pending" =>
          evs[k].id \in sending' /\ Messages(evs, Len(evs))

\* A post comes behind the answers that are on the way.
LEMMA PostEcho ==
    ASSUME port \in Seq(Event), PortInv, EchoInv, NEW evs \in Seq(Event), port' = port \o evs,
           PostsEcho(evs), ScreenKept
    PROVE  EchoInv'
<1>1. /\ port' \in Seq(Event) /\ Len(port) \in Nat /\ Len(evs) \in Nat
      /\ Len(port') = Len(port) + Len(evs)
      /\ \A i \in 1..Len(port) : i \in 1..Len(port') /\ port'[i] = port[i]
      /\ \A k \in 1..Len(evs) : Len(port) + k \in 1..Len(port') /\ port'[Len(port) + k] = evs[k]
      /\ \A i \in 1..Len(port') : i \in 1..Len(port) \/ \E k \in 1..Len(evs) : i = Len(port) + k
  BY PostIndex
\* What is behind the old port, up to the n-th of what is posted.
<1>2. ASSUME NEW i \in 1..Len(port), Undisturbed(i, Len(port) + 1), NEW n \in 0..Len(evs), Messages(evs, n),
             NEW k \in i..(Len(port) + n)
      PROVE  port'[k].kind = "message"
  <2>1. CASE k <= Len(port)
    <3>1. k \in 1..Len(port) /\ k \in i..((Len(port) + 1) - 1)
      BY <1>1, <2>1
    <3>2. port[k].kind = "message"
      BY <1>2, <3>1 DEF Undisturbed
    <3> QED
      BY <1>1, <3>1, <3>2
  <2>2. CASE k > Len(port)
    <3>1. k - Len(port) \in 1..n /\ k - Len(port) \in 1..Len(evs) /\ k = Len(port) + (k - Len(port))
      BY <1>1, <2>2
    <3>2. evs[k - Len(port)].kind = "message"
      BY <1>2, <3>1 DEF Messages
    <3> QED
      BY <1>1, <3>1, <3>2
  <2> QED
    BY <1>1, <2>1, <2>2
<1>3. PairsInv'
  <2> SUFFICES ASSUME NEW i \in 1..Len(port'), port'[i].kind = "message", port'[i].state = "pending"
               PROVE  \/ port'[i].id \in sending' /\ \A k \in i..Len(port') : port'[k].kind = "message"
                      \/ \E j \in i..Len(port') :
                            /\ Answers(port'[j], port'[i].id, port'[i].room)
                            /\ \A k \in i..(j - 1) : port'[k].kind = "message"
    <3>1. (Len(port') + 1) - 1 = Len(port')
      BY <1>1
    <3> QED
      BY <3>1 DEF PairsInv, Undisturbed, Answers
  <2>1. CASE i \in 1..Len(port)
    <3>1. port'[i] = port[i]
      BY <1>1, <2>1
    <3>2. CASE port[i].id \in sending /\ Undisturbed(i, Len(port) + 1)
      <4>1. CASE port[i].id \in sending' /\ Messages(evs, Len(evs))
        <5>1. Len(evs) \in 0..Len(evs)
          BY <1>1
        <5>2. \A k \in i..(Len(port) + Len(evs)) : port'[k].kind = "message"
          BY <1>2, <2>1, <3>2, <4>1, <5>1
        <5> QED
          BY <1>1, <3>1, <4>1, <5>2
      <4>2. ASSUME NEW l \in 1..Len(evs), Answers(evs[l], port[i].id, where[port[i].id]), Messages(evs, l)
            PROVE  \E j \in i..Len(port') :
                      /\ Answers(port'[j], port'[i].id, port'[i].room)
                      /\ \A k \in i..(j - 1) : port'[k].kind = "message"
        <5>1. where[port[i].id] = port[i].room
          BY <2>1, <3>1 DEF PortInv
        <5>2. Len(port) + l \in i..Len(port') /\ port'[Len(port) + l] = evs[l] /\ l \in 0..Len(evs)
          BY <1>1, <2>1, <4>2
        <5>3. \A k \in i..(Len(port) + l) : port'[k].kind = "message"
          BY <1>2, <2>1, <3>2, <4>2, <5>2
        <5>4. \A k \in i..((Len(port) + l) - 1) : k \in i..(Len(port) + l)
          BY <1>1
        <5> QED
          BY <3>1, <4>2, <5>1, <5>2, <5>3, <5>4
      <4> QED
        BY <3>2, <4>1, <4>2 DEF PostsEcho
    <3>3. ASSUME NEW j \in i..Len(port), Answers(port[j], port[i].id, port[i].room), Undisturbed(i, j)
          PROVE  \E l \in i..Len(port') :
                    /\ Answers(port'[l], port'[i].id, port'[i].room)
                    /\ \A k \in i..(l - 1) : port'[k].kind = "message"
      <4>1. j \in 1..Len(port) /\ j \in i..Len(port') /\ \A k \in i..(j - 1) : k \in 1..Len(port)
        BY <1>1, <2>1
      <4>2. port'[j] = port[j] /\ \A k \in i..(j - 1) : port'[k].kind = "message"
        BY <1>1, <3>3, <4>1 DEF Undisturbed
      <4> QED
        BY <3>1, <3>3, <4>1, <4>2
    <3> QED
      BY <2>1, <3>1, <3>2, <3>3 DEF EchoInv, PairsInv
  <2>2. ASSUME NEW n \in 1..Len(evs), i = Len(port) + n
        PROVE  port'[i].id \in sending' /\ \A k \in i..Len(port') : port'[k].kind = "message"
    <3>1. port'[i] = evs[n]
      BY <1>1, <2>2
    <3>2. evs[n].id \in sending' /\ Messages(evs, Len(evs))
      BY <3>1 DEF PostsEcho
    <3>3. ASSUME NEW k \in i..Len(port')
          PROVE  port'[k].kind = "message"
      <4>1. k - Len(port) \in 1..Len(evs) /\ k = Len(port) + (k - Len(port))
        BY <1>1, <2>2
      <4>2. port'[k] = evs[k - Len(port)]
        BY <1>1, <4>1
      <4> QED
        BY <3>2, <4>1, <4>2 DEF Messages
    <3> QED
      BY <3>1, <3>2, <3>3
  <2> QED
    BY <1>1, <2>1, <2>2
<1>4. NextInv'
  <2> SUFFICES ASSUME NEW i \in 1..Len(flow'), flow'[i].state = "pending"
               PROVE  \E j \in 1..Len(port') :
                         /\ Answers(port'[j], flow'[i].id, activeRoom')
                         /\ \A k \in 1..(j - 1) : port'[k].kind = "message"
    BY DEF NextInv, Undisturbed, Answers
  <2>1. flow' = flow /\ activeRoom' = activeRoom
    BY DEF ScreenKept
  <2>2. PICK j \in 1..Len(port) : Answers(port[j], flow[i].id, activeRoom) /\ Undisturbed(1, j)
    BY <2>1 DEF EchoInv, NextInv
  <2>3. j \in 1..Len(port') /\ port'[j] = port[j] /\ \A k \in 1..(j - 1) : k \in 1..Len(port)
    BY <1>1
  <2>4. \A k \in 1..(j - 1) : port'[k].kind = "message"
    BY <1>1, <2>2, <2>3 DEF Undisturbed
  <2> QED
    BY <2>1, <2>2, <2>3, <2>4
<1> QED
  BY <1>3, <1>4 DEF EchoInv

\* Trees, lists, histories and notices begin no echo.
LEMMA SilentEcho ==
    ASSUME port \in Seq(Event), PortInv, EchoInv, sending = {}, NEW evs \in Seq(Silent),
           port' = port \o evs, ScreenKept
    PROVE  EchoInv'
<1>1. evs \in Seq(Event)
  BY SeqMonotonic DEF Silent
<1>2. \A k \in 1..Len(evs) : evs[k].kind # "message"
  <2>1. \A k \in 1..Len(evs) : evs[k] \in Silent
    BY ElementOfSeq
  <2> QED
    BY <2>1 DEF Silent
<1> QED
  BY <1>1, <1>2, PostEcho DEF PostsEcho

\* A step that posts nothing.
LEMMA QuietEcho ==
    ASSUME EchoInv, port' = port, sending' = sending, ScreenKept
    PROVE  EchoInv'
<1>1. PairsInv'
  BY DEF EchoInv, PairsInv, Undisturbed, Answers
<1>2. NextInv'
  BY DEF EchoInv, NextInv, Undisturbed, Answers, ScreenKept
<1> QED
  BY <1>1, <1>2 DEF EchoInv

\* A notice is posted.
LEMMA NoticeEcho ==
    ASSUME port \in Seq(Event), PortInv, EchoInv, sending = {}, port' = Append(port, ErrorNotice),
           ScreenKept
    PROVE  EchoInv'
<1>1. ErrorNotice \in Silent /\ ErrorNotice \in Event
  BY EventsTyped DEF Silent, ErrorNotice
<1>2. port' = port \o <<ErrorNotice>> /\ <<ErrorNotice>> \in Seq(Silent)
  BY <1>1, AppendIsConcat
<1> QED
  BY <1>2, SilentEcho

\* The two pushes of the catalog carry no message.
LEMMA CatalogSilent ==
    ASSUME space' \in Spaces, parent' \in Parents, derived' \subseteq Room, explicit' \subseteq Room
    PROVE  SpaceTree \in Silent /\ RoomList \in Silent /\ PostCatalog \in Seq(Silent)
<1>1. SpaceTree \in Silent /\ RoomList \in Silent
  BY EventsTyped DEF Silent, SpaceTree, RoomList
<1> QED
  BY <1>1, Pair DEF PostCatalog

\* A refresh of the derived joins posts histories and the catalog.
LEMMA RefreshEcho ==
    ASSUME TypeOK, PortInv, EchoInv, sending = {}, CoreAssumption, space' \in Spaces, parent' \in Parents,
           RefreshDerivedJoins, ScreenKept
    PROVE  EchoInv'
<1> DEFINE now == {r \in Room : parent'[r] = "space" /\ space' = "auto"}
<1>0. PICK new \in SUBSET (now \ derived) : \E replayed \in SUBSET new :
         /\ derived' = (derived \cap now) \cup new /\ explicit' = explicit
         /\ LET order == SetToSeq(replayed)
            IN  port' = port \o [i \in 1..Len(order) |-> MessageHistory(order[i])] \o PostCatalog
  BY DEF RefreshDerivedJoins
<1>1. PICK replayed \in SUBSET new :
         /\ derived' = (derived \cap now) \cup new /\ explicit' = explicit
         /\ LET order == SetToSeq(replayed)
            IN  port' = port \o [i \in 1..Len(order) |-> MessageHistory(order[i])] \o PostCatalog
  BY <1>0
<1>2. now \subseteq Room
  OBVIOUS
<1> HIDE DEF now
<1>3. replayed \subseteq Room /\ derived' \subseteq Room /\ explicit' \subseteq Room
  BY <1>1, <1>2 DEF TypeOK, CoreOK
<1>4. PostCatalog \in Seq(Silent)
  BY <1>3, CatalogSilent
<1> DEFINE order == SetToSeq(replayed)
           n == Len(order)
           hist == [i \in 1..n |-> MessageHistory(order[i])]
<1>5. order \in Seq(replayed) /\ n \in Nat
  <2>1. IsFiniteSet(replayed)
    BY <1>3, CoreAssumption, FS_Subset DEF CoreAssumption
  <2> QED
    BY <2>1, SetToSeqLists
<1>6. \A i \in 1..n : order[i] \in Room
  BY <1>3, <1>5, ElementOfSeq
<1>7. port' = (port \o hist) \o PostCatalog
  BY <1>1
<1> HIDE DEF order, n
<1>8. hist \in Seq(Silent)
  <2>1. \A i \in 1..n : MessageHistory(order[i]) \in Silent
    BY <1>6, HistoryLists, CoreAssumption DEF Silent
  <2>2. hist \in [1..n -> Silent]
    BY <2>1
  <2> QED
    BY <1>5, <2>2
<1> HIDE DEF hist
<1>9. port \in Seq(Event) /\ hist \in Seq(Event) /\ PostCatalog \in Seq(Event)
  BY <1>4, <1>8, SeqMonotonic DEF TypeOK, CoreOK, Silent
<1>10. port' = port \o (hist \o PostCatalog)
  BY <1>7, <1>9, ConcatAssociative, SMTT(60)
<1>11. hist \o PostCatalog \in Seq(Silent)
  BY <1>4, <1>8, ConcatProperties
<1> QED
  BY <1>9, <1>10, <1>11, SilentEcho

\* The first posts of a session.
LEMMA OpenEcho ==
    ASSUME TypeOK, Open, port = <<>>, sending = {}, flow' = flow, activeRoom' = activeRoom,
           PortInv, EchoInv
    PROVE  EchoInv'
<1>1. derived' \subseteq Room /\ explicit' \subseteq Room /\ space' \in Spaces /\ parent' \in Parents
  <2>1. PICK new \in SUBSET {r \in Room : parent[r] = "space" /\ space = "auto"} : derived' = new
    BY DEF Open
  <2> QED
    BY <2>1 DEF Open, catalog, TypeOK, CoreOK
<1>2. PostCatalog \in Seq(Silent) /\ Readiness \in Silent
  BY <1>1, CatalogSilent, EventsTyped DEF Silent, Readiness
<1>3. PostCatalog \o <<Readiness>> \in Seq(Silent)
  BY <1>2, ConcatProperties
<1> DEFINE evs == PostCatalog \o <<Readiness>>
<1>4. evs \in Seq(Event) /\ evs \in Seq(Silent)
  BY <1>3, SeqMonotonic DEF Silent
<1>5. port' = evs
  BY DEF Open
<1> HIDE DEF evs
<1>6. port' = port \o evs
  BY <1>4, <1>5, ConcatEmptySeq
<1> QED
  BY <1>4, <1>6, SilentEcho DEF ScreenKept, TypeOK, CoreOK

\* A join posts the list, a history, a notice.
LEMMA JoinEcho ==
    ASSUME TypeOK, PortInv, EchoInv, sending = {}, CoreAssumption, NEW r \in Room, NEW replayed \in BOOLEAN,
           join_topic(r, replayed), ScreenKept
    PROVE  EchoInv'
<1>1. CASE port' = Append(port, ErrorNotice)
  BY <1>1, NoticeEcho DEF TypeOK, CoreOK
<1>2. ASSUME explicit' = explicit \cup {r}, UNCHANGED derived, NEW live \in BOOLEAN,
             port' = port \o <<RoomList>> \o PushMessageHistory(r, replayed)
                          \o (IF live THEN <<>> ELSE <<ErrorNotice>>)
      PROVE  EchoInv'
  <2> DEFINE L == <<RoomList>>
             H == PushMessageHistory(r, replayed)
             E == IF live THEN <<>> ELSE <<ErrorNotice>>
  <2>1. RoomList \in Silent /\ ErrorNotice \in Silent /\ MessageHistory(r) \in Silent
    <3>1. derived' \subseteq Room /\ explicit' \subseteq Room
      BY <1>2 DEF TypeOK, CoreOK
    <3> QED
      BY <3>1, EventsTyped, HistoryLists, CoreAssumption DEF Silent, RoomList, ErrorNotice
  <2>2. L \in Seq(Silent) /\ H \in Seq(Silent) /\ E \in Seq(Silent)
    BY <2>1 DEF PushMessageHistory
  <2>3. port' = ((port \o L) \o H) \o E
    BY <1>2
  <2> HIDE DEF L, H, E
  <2>4. port \in Seq(Event) /\ L \in Seq(Event) /\ H \in Seq(Event) /\ E \in Seq(Event)
    BY <2>2, SeqMonotonic DEF TypeOK, CoreOK, Silent
  <2>5. L \o H \in Seq(Silent) /\ L \o H \in Seq(Event)
    BY <2>2, <2>4, ConcatProperties
  <2>6. (L \o H) \o E \in Seq(Silent)
    BY <2>2, <2>5, ConcatProperties
  <2>7. port' = port \o ((L \o H) \o E)
    <3>1. (port \o L) \o H = port \o (L \o H)
      BY <2>4, ConcatAssociative
    <3>2. (port \o (L \o H)) \o E = port \o ((L \o H) \o E)
      BY <2>4, <2>5, ConcatAssociative, SMTT(60)
    <3> QED
      BY <2>3, <3>1, <3>2
  <2> QED
    BY <2>4, <2>6, <2>7, SilentEcho
<1> QED
  BY <1>1, <1>2 DEF join_topic

\* A send begins with the pending echo.
LEMMA SendEcho ==
    ASSUME TypeOK, PortInv, EchoInv, sending = {}, NEW m \in Own, NEW r \in Room, send_text(m, r), ScreenKept
    PROVE  EchoInv'
<1> DEFINE e == ChatMessageState(m, r, "pending")
<1>1. e \in Event /\ e.kind = "message" /\ e.id = m
  BY EventsTyped DEF Message, States, ChatMessageState
<1>2. port' = Append(port, e) /\ sending' = {m}
  BY DEF send_text
<1> HIDE DEF e
<1>3. port' = port \o <<e>> /\ <<e>> \in Seq(Event) /\ Len(<<e>>) = 1 /\ <<e>>[1] = e
  BY <1>1, <1>2, AppendIsConcat DEF TypeOK, CoreOK
<1>4. PostsEcho(<<e>>)
  BY <1>1, <1>2, <1>3 DEF PostsEcho, Messages
<1> QED
  BY <1>3, <1>4, PostEcho DEF TypeOK, CoreOK

\* It ends with the terminal state, behind what peers' messages came meanwhile.
LEMMA ReturnEcho ==
    ASSUME TypeOK, WhereInv, PortInv, EchoInv, NEW m \in Own, NEW ok, SendReturns(m, ok), ScreenKept
    PROVE  EchoInv'
<1> DEFINE Chat(state) == ChatMessageState(m, where[m], state)
<1>1. m \in Message /\ where[m] \in Room /\ sending = {m}
  BY DEF Message, WhereInv, SendReturns
<1>2. Chat("complete") \in Event /\ Chat("error") \in Event /\ ErrorNotice \in Event
  BY <1>1, EventsTyped DEF States
<1>3. /\ \A state : /\ Chat(state).kind = "message" /\ Chat(state).id = m
                    /\ Chat(state).room = where[m] /\ Chat(state).state = state
      /\ ErrorNotice.kind = "error"
  BY DEF ChatMessageState, ErrorNotice
<1>4. port' = Append(port, Chat("complete")) \/ port' = port \o <<Chat("error"), ErrorNotice>>
  BY DEF SendReturns, SendFailed
<1> HIDE DEF Chat
<1>5. CASE port' = Append(port, Chat("complete"))
  <2> DEFINE evs == <<Chat("complete")>>
  <2>1. evs \in Seq(Event) /\ port' = port \o evs /\ Len(evs) = 1 /\ evs[1] = Chat("complete")
    <3>1. port \in Seq(Event) /\ Chat("complete") \in Event
      BY <1>2 DEF TypeOK, CoreOK
    <3>2. port' = port \o evs
      BY <1>5, <3>1, AppendIsConcat
    <3> QED
      BY <3>1, <3>2
  <2> HIDE DEF evs
  <2>2. PostsEcho(evs)
    BY <1>1, <1>3, <2>1 DEF PostsEcho, Messages, Answers
  <2> QED
    BY <2>1, <2>2, PostEcho DEF TypeOK, CoreOK
<1>6. CASE port' = port \o <<Chat("error"), ErrorNotice>>
  <2> DEFINE evs == <<Chat("error"), ErrorNotice>>
  <2>1. /\ evs \in Seq(Event) /\ port' = port \o evs /\ Len(evs) = 2
        /\ evs[1] = Chat("error") /\ evs[2] = ErrorNotice
    BY <1>2, <1>6, Pair
  <2> HIDE DEF evs
  <2>2. 1 \in 1..Len(evs) /\ Messages(evs, 1) /\ Answers(evs[1], m, where[m])
    BY <1>3, <2>1 DEF Messages, Answers
  <2>3. \A k \in 1..Len(evs) : ~(evs[k].kind = "message" /\ evs[k].state = "pending")
    BY <1>3, <2>1
  <2>4. PostsEcho(evs)
    BY <1>1, <2>2, <2>3 DEF PostsEcho
  <2> QED
    BY <2>1, <2>4, PostEcho DEF TypeOK, CoreOK
<1> QED
  BY <1>4, <1>5, <1>6

\* Peers: a message of theirs is complete when it is pushed.
LEMMA PeersEcho ==
    ASSUME TypeOK, PortInv, EchoInv, ScreenKept, NEW m \in Message, NEW r \in Room,
           PushMessage(m, r) \/ ArchiveMessage(m, r)
    PROVE  EchoInv'
<1>1. CASE ArchiveMessage(m, r)
  BY <1>1, QuietEcho DEF ArchiveMessage
<1>2. CASE PushMessage(m, r)
  <2> DEFINE e == ChatMessageState(m, r, "complete")
  <2>1. e \in Event /\ e.kind = "message" /\ e.state = "complete"
    BY EventsTyped DEF States, ChatMessageState
  <2>2. port' = Append(port, e) /\ sending' = sending
    BY <1>2 DEF PushMessage
  <2> HIDE DEF e
  <2>3. port' = port \o <<e>> /\ <<e>> \in Seq(Event) /\ Len(<<e>>) = 1 /\ <<e>>[1] = e
    BY <2>1, <2>2, AppendIsConcat DEF TypeOK, CoreOK
  <2>4. PostsEcho(<<e>>)
    BY <2>1, <2>2, <2>3 DEF PostsEcho, Messages
  <2> QED
    BY <2>3, <2>4, PostEcho DEF TypeOK, CoreOK
<1> QED
  BY <1>1, <1>2

\* A dispatched event: the answers behind it move up by one place.
LEMMA TakenPairs ==
    ASSUME TypeOK, PairsInv, sending = {}, port # <<>>, port' = Tail(port)
    PROVE  PairsInv'
<1>1. /\ Len(port) \in Nat /\ Len(port') = Len(port) - 1
      /\ \A i \in 1..Len(port') : port'[i] = port[i + 1] /\ i + 1 \in 1..Len(port)
  BY TakeIndex DEF TypeOK, CoreOK
<1> SUFFICES ASSUME NEW i \in 1..Len(port'), port'[i].kind = "message", port'[i].state = "pending"
             PROVE  \E j \in i..Len(port') :
                       /\ Answers(port'[j], port'[i].id, port'[i].room)
                       /\ \A k \in i..(j - 1) : port'[k].kind = "message"
  BY DEF PairsInv, Undisturbed, Answers
<1>2. port'[i] = port[i + 1] /\ i + 1 \in 1..Len(port)
  BY <1>1
<1>3. PICK j \in (i + 1)..Len(port) :
         Answers(port[j], port[i + 1].id, port[i + 1].room) /\ Undisturbed(i + 1, j)
  BY <1>2 DEF PairsInv
<1>4. j - 1 \in i..Len(port') /\ j - 1 \in 1..Len(port') /\ (j - 1) + 1 = j
  BY <1>1
<1>5. port'[j - 1] = port[j]
  BY <1>1, <1>4
<1>6. ASSUME NEW k \in i..((j - 1) - 1)
      PROVE  port'[k].kind = "message"
  <2>1. k \in 1..Len(port') /\ k + 1 \in (i + 1)..(j - 1)
    BY <1>1, <1>4
  <2> QED
    BY <1>1, <1>3, <2>1 DEF Undisturbed
<1> QED
  BY <1>2, <1>3, <1>4, <1>5, <1>6

\* No bubble is pending when an event other than a message's is dispatched.
LEMMA NoticeTaken ==
    ASSUME TypeOK, EchoInv, sending = {}, port # <<>>, port' = Tail(port), Head(port).kind # "message",
           \/ flow' = flow
           \/ \A i \in 1..Len(flow') : flow'[i].state # "pending"
    PROVE  EchoInv'
<1>1. Head(port) = port[1] /\ Len(port) \in Nat
  BY TakeIndex DEF TypeOK, CoreOK
<1>2. ASSUME NEW i \in 1..Len(flow), flow[i].state = "pending"
      PROVE  FALSE
  <2>1. PICK j \in 1..Len(port) : Answers(port[j], flow[i].id, activeRoom) /\ Undisturbed(1, j)
    BY <1>2 DEF EchoInv, NextInv
  <2>2. j # 1
    BY <1>1, <2>1 DEF Answers
  <2>3. 1 \in 1..(j - 1)
    BY <1>1, <2>2
  <2> QED
    BY <1>1, <2>1, <2>3 DEF Undisturbed
<1>3. NextInv'
  BY <1>2 DEF NextInv
<1> QED
  BY <1>3, TakenPairs DEF EchoInv

\* A message event: what is pending on screen after it is the echo it brought, or was
\* pending before and is of another message.
LEMMA MessageTaken ==
    ASSUME IInv, EchoInv, MessageEvent
    PROVE  EchoInv'
<1>1. /\ port # <<>> /\ port' = Tail(port) /\ Head(port).kind = "message" /\ activeRoom' = activeRoom
      /\ sending = {}
  BY DEF MessageEvent, Take, selection, Idle
<1>2. /\ Len(port) \in Nat /\ Len(port) >= 1 /\ Len(port') = Len(port) - 1
      /\ Head(port) = port[1] /\ port[1] \in Event /\ port' \in Seq(Event)
      /\ \A i \in 1..Len(port') : port'[i] = port[i + 1] /\ i + 1 \in 1..Len(port)
  BY <1>1, TakeIndex DEF IInv, TypeOK, CoreOK
<1> DEFINE e == port[1]
           bubble == Bubble(e.id, e.state)
<1>3. 1 \in 1..Len(port) /\ e.kind = "message"
  BY <1>1, <1>2
<1>4. \/ activeRoom # e.room /\ flow' = flow
      \/ /\ activeRoom = e.room
         /\ \/ Shown(e.id) /\ flow' = [i \in 1..Len(flow) |-> IF flow[i].id = e.id THEN bubble ELSE flow[i]]
            \/ ~Shown(e.id) /\ flow' = Append(flow, bubble)
  BY <1>2 DEF MessageEvent, Active, upsert, Bubble
<1>5. bubble.id = e.id /\ bubble.state = e.state /\ bubble \in [id : Message, state : States]
  <2>1. e.id \in Message /\ e.state \in States
    BY <1>2, <1>3, EventFields
  <2> QED
    BY <2>1 DEF Bubble
<1>6. flow \in Seq([id : Message, state : States]) /\ Len(flow) \in Nat
  BY DEF IInv, TypeOK
<1>7. PairsInv'
  BY <1>1, TakenPairs DEF IInv, EchoInv
\* An answer that is not the first event moves up.
<1>8. ASSUME NEW m, NEW j \in 2..Len(port), Answers(port[j], m, activeRoom), Undisturbed(1, j)
      PROVE  \E l \in 1..Len(port') :
                /\ Answers(port'[l], m, activeRoom)
                /\ \A k \in 1..(l - 1) : port'[k].kind = "message"
  <2>1. j - 1 \in 1..Len(port') /\ (j - 1) + 1 = j
    BY <1>2
  <2>2. port'[j - 1] = port[j]
    BY <1>2, <2>1
  <2>3. ASSUME NEW k \in 1..((j - 1) - 1)
        PROVE  port'[k].kind = "message"
    <3>1. k \in 1..Len(port') /\ k + 1 \in 1..(j - 1)
      BY <1>2, <2>1
    <3> QED
      BY <1>2, <1>8, <3>1 DEF Undisturbed
  <2> QED
    BY <1>8, <2>1, <2>2, <2>3
<1> HIDE DEF bubble, e
\* A bubble that was pending and that this event does not settle.
<1>9. ASSUME NEW i \in 1..Len(flow), flow[i].state = "pending",
             ~(flow[i].id = e.id /\ activeRoom = e.room)
      PROVE  \E l \in 1..Len(port') :
                /\ Answers(port'[l], flow[i].id, activeRoom)
                /\ \A k \in 1..(l - 1) : port'[k].kind = "message"
  <2>1. PICK j \in 1..Len(port) : Answers(port[j], flow[i].id, activeRoom) /\ Undisturbed(1, j)
    BY <1>9 DEF EchoInv, NextInv
  <2>2. j # 1
    BY <1>9, <2>1 DEF Answers, e
  <2>3. j \in 2..Len(port)
    BY <1>2, <2>2
  <2> QED
    BY <1>8, <2>1, <2>3
\* The echo it brought has its answer behind it.
<1>10. ASSUME e.state = "pending", activeRoom = e.room
       PROVE  \E l \in 1..Len(port') :
                 /\ Answers(port'[l], e.id, activeRoom)
                 /\ \A k \in 1..(l - 1) : port'[k].kind = "message"
  <2>1. PICK j \in 1..Len(port) : Answers(port[j], e.id, e.room) /\ Undisturbed(1, j)
    BY <1>1, <1>3, <1>10 DEF EchoInv, PairsInv, e
  <2>2. j # 1
    BY <1>10, <2>1 DEF Answers, e
  <2>3. j \in 2..Len(port)
    BY <1>2, <2>2
  <2> QED
    BY <1>8, <1>10, <2>1, <2>3
<1>11. ASSUME NEW i \in 1..Len(flow'), flow'[i].state = "pending"
       PROVE  \E l \in 1..Len(port') :
                 /\ Answers(port'[l], flow'[i].id, activeRoom)
                 /\ \A k \in 1..(l - 1) : port'[k].kind = "message"
  <2>1. CASE activeRoom # e.room /\ flow' = flow
    BY <1>9, <1>11, <2>1
  <2>2. CASE activeRoom = e.room /\ Shown(e.id)
             /\ flow' = [l \in 1..Len(flow) |-> IF flow[l].id = e.id THEN bubble ELSE flow[l]]
    <3>1. i \in 1..Len(flow) /\ flow'[i] = IF flow[i].id = e.id THEN bubble ELSE flow[i]
      BY <1>6, <2>2
    <3>2. CASE flow[i].id = e.id
      BY <1>5, <1>10, <1>11, <2>2, <3>1, <3>2
    <3>3. CASE flow[i].id # e.id
      BY <1>9, <1>11, <3>1, <3>3
    <3> QED
      BY <3>2, <3>3
  <2>3. CASE activeRoom = e.room /\ ~Shown(e.id) /\ flow' = Append(flow, bubble)
    <3>1. /\ Len(flow') = Len(flow) + 1
          /\ (\A l \in 1..Len(flow) : flow'[l] = flow[l]) /\ flow'[Len(flow) + 1] = bubble
      BY <1>5, <1>6, <2>3, AppendProperties
    <3>2. CASE i \in 1..Len(flow)
      <4>1. flow[i].id # e.id /\ flow'[i] = flow[i]
        BY <2>3, <3>1, <3>2 DEF Shown
      <4> QED
        BY <1>9, <1>11, <3>2, <4>1
    <3>3. CASE i = Len(flow) + 1
      BY <1>5, <1>10, <1>11, <2>3, <3>1, <3>3
    <3> QED
      BY <1>6, <3>1, <3>2, <3>3
  <2> QED
    BY <1>4, <2>1, <2>2, <2>3
<1>12. NextInv'
  BY <1>1, <1>11 DEF NextInv, Undisturbed, Answers
<1> QED
  BY <1>7, <1>12 DEF EchoInv

\* Every step keeps an answer, or its send, to each echo.
LEMMA NextEcho ==
    ASSUME IInv, EchoInv, CoreAssumption, ClientAssumption, [Next]_vars
    PROVE  EchoInv'
<1>0. TypeOK /\ port \in Seq(Event)
  BY DEF IInv, TypeOK, CoreOK
<1> USE DEF IInv
<1>1. CASE Start
  <2>1. port = <<>> /\ sending = {}
    BY <1>1 DEF IInv, ClosedInv, Start
  <2> QED
    BY <1>0, <1>1, <2>1, OpenEcho DEF Start, selection
<1>2. CASE openDefaultFails \/ StartFails \/ UNCHANGED vars
  BY <1>2, QuietEcho DEF openDefaultFails, StartFails, Unstarted, ScreenKept, core, selection, vars
<1>3. CASE StartRefused \/ close
  <2>1. port' = <<>> /\ \A i \in 1..Len(port') : FALSE
    BY <1>3 DEF StartRefused, close, Gone
  <2>2. port = <<>> \/ shell = "closing"
    BY <1>3 DEF StartRefused, close, ClosedInv
  <2>3. flow' = flow /\ \A i \in 1..Len(flow) : flow[i].state # "pending"
    BY <1>3, <2>2 DEF StartRefused, close, ClosedInv, EchoInv, NextInv
  <2> QED
    BY <2>1, <2>3 DEF EchoInv, PairsInv, NextInv
<1>14. CASE Dispose
  <2>1. ScreenKept
    BY <1>14 DEF Dispose, ScreenKept
  <2> QED
    BY <1>14, <2>1, QuietEcho DEF Dispose, core
<1>4. CASE setTree \/ setRooms \/ Readied \/ ErrorEvent
  BY <1>0, <1>4, NoticeTaken DEF setTree, setRooms, Readied, ErrorEvent, Take, Idle
<1>5. CASE MessageEvent
  BY <1>5, MessageTaken
<1>6. CASE HistoryEvent
  <2>1. flow' = flow \/ \A i \in 1..Len(flow') : flow'[i].state # "pending"
    <3>1. CASE replaceAll(Head(port).messages)
      <4> DEFINE batch == Head(port).messages
      <4>1. flow' = [i \in 1..Len(batch) |-> Bubble(batch[i], "complete")]
        BY <3>1 DEF replaceAll
      <4>2. Len(batch) \in Nat
        <5>1. port[1] \in Event /\ Head(port) = port[1] /\ Head(port).kind = "messageHistory"
          BY <1>0, <1>6, TakeIndex DEF HistoryEvent, Take
        <5> QED
          BY <5>1, EventFields
      <4> HIDE DEF batch
      <4>3. Len(flow') = Len(batch)
        BY <4>1, <4>2
      <4> QED
        BY <4>1, <4>3 DEF Bubble
    <3> QED
      BY <1>6, <3>1 DEF HistoryEvent
  <2> QED
    BY <1>0, <1>6, <2>1, NoticeTaken DEF HistoryEvent, Take, Idle
<1>7. ASSUME NEW r \in Room, selectRoom(r)
      PROVE  EchoInv'
  <2>1. lastSeen = activeRoom /\ r # activeRoom /\ Rejoin(r) /\ sending = {}
    BY <1>7 DEF FollowedInv, selectRoom, Act, Interactive, Idle
  <2>2. PICK replayed \in BOOLEAN : join_topic(r, replayed)
    BY <2>1 DEF Rejoin
  <2>3. Len(flow') = 0
    BY <2>1 DEF Rejoin, clear
  <2> QED
    BY <1>0, <2>1, <2>2, <2>3, JoinEcho DEF ScreenKept
<1>8. ASSUME NEW m \in Own, onSubmit(m) \/ onPressed(m)
      PROVE  EchoInv'
  <2>1. ScreenKept /\ sending = {}
    BY <1>8 DEF ScreenKept, onSubmit, onPressed, selection, CanSubmit, Interactive, Idle
  <2>2. PICK held : send(m, held)
    BY <1>8 DEF onSubmit, onPressed
  <2>3. CASE UNCHANGED core
    BY <2>1, <2>3, QuietEcho DEF core
  <2>4. CASE composer.room # NoRoom /\ send_text(m, composer.room)
    <3>1. composer.room \in Room
      BY <1>0, <2>4 DEF TypeOK
    <3> QED
      BY <1>0, <2>1, <2>4, <3>1, SendEcho
  <2>5. CASE Rejected
    BY <1>0, <2>1, <2>5, NoticeEcho DEF Rejected
  <2> QED
    BY <2>2, <2>3, <2>4, <2>5 DEF send
<1>9. CASE (\E mode \in Modes : OpenDialog(mode)) \/ selectSpaceType \/ setAutoJoinRooms \/ CloseDialog
  BY <1>9, QuietEcho DEF OpenDialog, selectSpaceType, setAutoJoinRooms, CloseDialog, ScreenKept, core, selection
<1>10. CASE submit
  <2>1. ScreenKept /\ sending = {}
    BY <1>10 DEF submit, ScreenKept, selection, Interactive, Idle
  <2>2. CASE UNCHANGED core
    BY <2>1, <2>2, QuietEcho DEF core
  <2>3. CASE Rejected
    BY <1>0, <2>1, <2>3, NoticeEcho DEF Rejected
  <2>4. CASE Publish
    <3>0. form.auto \in Spaces
      BY <1>0 DEF TypeOK
    <3>1. ASSUME create_space(form.auto)
          PROVE  EchoInv'
      <4>1. SpaceTree \in Silent
        <5>1. space' \in Spaces /\ parent' \in Parents
          BY <1>0, <3>0, <3>1 DEF create_space, TypeOK, CoreOK
        <5> QED
          BY <5>1, EventsTyped DEF Silent, SpaceTree
      <4>2. port' = port \o <<SpaceTree>> /\ <<SpaceTree>> \in Seq(Silent)
        <5>1. SpaceTree \in Event
          BY <4>1 DEF Silent
        <5> QED
          BY <1>0, <3>1, <4>1, <5>1, AppendIsConcat DEF create_space
      <4> QED
        BY <1>0, <2>1, <4>2, SilentEcho
    <3>2. ASSUME NEW r \in Room, NEW in \in {"standalone", "space"}, create_room(r, in)
          PROVE  EchoInv'
      <4>1. space' \in Spaces /\ parent' \in Parents
        BY <1>0, <3>2 DEF create_room, TypeOK, CoreOK, Parents
      <4> QED
        BY <1>0, <2>1, <3>2, <4>1, RefreshEcho DEF create_room
    <3>3. ASSUME update_space(form.auto)
          PROVE  EchoInv'
      <4>1. space' \in Spaces /\ parent' \in Parents
        BY <1>0, <3>0, <3>3 DEF update_space, TypeOK, CoreOK
      <4> QED
        BY <1>0, <2>1, <3>3, <4>1, RefreshEcho DEF update_space
    <3> QED
      BY <2>4, <3>1, <3>2, <3>3 DEF Publish
  <2> QED
    BY <1>10, <2>2, <2>3, <2>4 DEF submit
<1>11. CASE Peers
  <2>1. ScreenKept
    BY <1>11 DEF Peers, ScreenKept, selection
  <2>2. PICK m \in Message, r \in Room : PushMessage(m, r) \/ ArchiveMessage(m, r)
    BY <1>11 DEF Peers, Message
  <2> QED
    BY <1>0, <2>1, <2>2, PeersEcho
<1>15. CASE Sent
  <2>1. ScreenKept
    BY <1>15 DEF Sent, ScreenKept, selection
  <2>2. \E m \in Own, ok \in BOOLEAN : SendReturns(m, ok)
    BY <1>15 DEF Sent
  <2> QED
    BY <1>0, <2>1, <2>2, ReturnEcho
<1>12. CASE Dispatch
  BY <1>4, <1>5, <1>6, <1>12 DEF Dispatch
<1>13. CASE User
  BY <1>7, <1>8, <1>9, <1>10, <1>13 DEF User
<1> QED
  BY <1>1, <1>2, <1>3, <1>11, <1>12, <1>13, <1>14, <1>15 DEF Next

\* A bubble on screen as pending has its terminal state on the way to it (D-07): while
\* g_mutex is released for the send only peers' messages are posted behind the echo, and
\* the isolate, which waits in gcs_publish, lets no selection, replay or list between.
THEOREM PendingIsAnswered == Spec => []PendingAnswered
<1>1. Init => EchoInv
  BY DEF Init, CoreInit, EchoInv, PairsInv, NextInv
<1>2. IInv /\ EchoInv /\ [Next]_vars => EchoInv'
  BY NextEcho, CoreAssumption, ClientAssumption
<1>3. IInv /\ EchoInv => PendingAnswered
  BY DEF EchoInv, NextInv, PendingAnswered
<1> QED
  BY <1>1, <1>2, <1>3, Inductive, PTL DEF Spec
=============================================================================
