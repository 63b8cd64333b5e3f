-------------------------- MODULE EntityStoreProofs --------------------------
(***************************************************************************)
(* Proofs about EntityStore for every number of processes and commands,    *)
(* when Get fails only on a missing key (GetFails = FALSE): no record is   *)
(* orphaned, what memory shows is stored, and the store implements the     *)
(* Catalog.  EntityLostManifest shows that the condition is needed.        *)
(***************************************************************************)
EXTENDS EntityStore, TLAPS

USE CatalogAssumption, NoParentAssumption

\* The condition of the theorems: the manifest's Get fails only when no manifest
\* has been written.
ReliableGet == GetFails = FALSE

\* A Put of a well-typed record keeps a catalog well-typed.
LEMMA WithOK ==
    ASSUME NEW f, CatalogOK(f), NEW id \in Ids, NEW rec \in RecordOf(id)
    PROVE  CatalogOK(With(f, id, rec))
  BY DEF CatalogOK, With

\* An empty store with no process satisfies the invariant.
LEMMA InitKeeps == Init => IInv
<1> SUFFICES ASSUME Init PROVE IInv
  OBVIOUS
<1>1. TypeOK
  <2>1. CatalogOK(records) /\ CatalogOK(entities)
    BY DEF Init, CatalogOK, Empty
  <2>2. up \in BOOLEAN
    BY DEF Init
  <2>3. life \in 0..MaxLives /\ seq \in 0..MaxCommands /\ issued \in 0..MaxCommands
    BY DEF Init
  <2>4. manifest \subseteq Ids /\ OpOK
    BY DEF Init, OpOK
  <2> QED
    BY <2>1, <2>2, <2>3, <2>4 DEF TypeOK
<1>2. NoOrphanRecords /\ MemoryBacked /\ MintedInv /\ VersionInv
  BY DEF Init, NoOrphanRecords, MemoryBacked, MintedInv, VersionInv, Empty
<1>3. CreateInv /\ UpdateInv /\ ProcessInv
  BY DEF Init, CreateInv, UpdateInv, ProcessInv
<1> QED
  BY <1>1, <1>2, <1>3 DEF IInv

\* A step that changes nothing keeps the invariant.
LEMMA StutterKeeps == IInv /\ UNCHANGED vars => IInv'
  BY DEF IInv, TypeOK, CatalogOK, OpOK, NoOrphanRecords, MemoryBacked, MintedInv, VersionInv,
     CreateInv, UpdateInv, ProcessInv, vars

\* CreateSpace and CreateRoom, with the record each builds: the id is fresh, and the
\* manifest to be written is the stored one with the id added.
LEMMA CreateKeeps ==
    ASSUME ReliableGet, IInv, Issue, NEW kind \in {"space", "room"}, NEW rec,
           rec.version = issued',
           kind = "space" => rec \in SpaceRecord,
           kind = "room" => rec \in RoomRecord /\ rec.parent \in {NoParent} \cup DOMAIN entities,
           Create(NextEntityId(kind), rec)
    PROVE  IInv'
<1> DEFINE id == NextEntityId(kind)
<1>1. /\ id \in Ids /\ id.life = life /\ id.seq = seq /\ id.kind = kind
      /\ id \notin manifest
      /\ seq' \in 0..MaxCommands /\ seq' <= issued' /\ issued' \in 0..MaxCommands
  BY DEF IInv, TypeOK, MintedInv, Issue, NextEntityId, Ids, Create
<1>2. op' = FirstPut(id, rec, manifest \cup {id})
  BY DEF ReliableGet, ManifestReads, Create
<1>3. rec \in RecordOf(id)
  BY <1>1 DEF RecordOf
<1>4. OpOK'
  BY <1>1, <1>2, <1>3 DEF OpOK, FirstPut, Ops, RecordOf, IInv, TypeOK
<1>5. TypeOK'
  BY <1>1, <1>4 DEF IInv, TypeOK, Create, CatalogOK
<1>6. NoOrphanRecords' /\ MemoryBacked'
  BY DEF IInv, NoOrphanRecords, MemoryBacked, Create
<1>7. MintedInv' /\ VersionInv'
  <2>1. \A i \in DOMAIN records : records[i].version \in Nat
    BY DEF IInv, TypeOK, CatalogOK, RecordOf, SpaceRecord, RoomRecord, Versions
  <2>2. seq \in Nat /\ issued \in Nat /\ seq' = seq + 1 /\ issued' = issued + 1
    BY DEF IInv, TypeOK, Create, Issue
  <2>3. \A i \in manifest : i.seq \in Nat
    BY DEF IInv, TypeOK, Ids
  <2> QED
    BY <1>1, <2>1, <2>2, <2>3 DEF IInv, MintedInv, VersionInv, Create
<1>8. CreateInv'
  BY <1>1, <1>2 DEF IInv, TypeOK, CreateInv, NoOrphanRecords, VersionInv, FirstPut, Create
<1>9. UpdateInv' /\ ProcessInv'
  BY <1>2 DEF UpdateInv, ProcessInv, FirstPut, Issue, Create
<1> QED
  BY <1>5, <1>6, <1>7, <1>8, <1>9 DEF IInv

\* UpdateSpace starts from a space in memory, so from a stored one.
LEMMA UpdateSpaceKeeps ==
    ASSUME IInv, UpdateSpace
    PROVE  IInv'
<1>1. PICK id \in DOMAIN entities, auto \in BOOLEAN :
         /\ id.kind = "space"
         /\ op' = [verb |-> "update", stage |-> "record", id |-> id,
                   rec |-> Updated(id, auto), ids |-> {}]
  BY DEF UpdateSpace
<1>2. id \in Ids /\ entities[id] \in SpaceRecord /\ issued' \in Versions
      /\ id \in DOMAIN records /\ records[id] \in SpaceRecord
      /\ entities[id].created = records[id].created /\ records[id].version <= issued
  BY <1>1 DEF IInv, TypeOK, CatalogOK, RecordOf, VersionInv, UpdateSpace, Issue, Versions
<1>3. Updated(id, auto) \in SpaceRecord
  BY <1>2 DEF Updated, SpaceRecord
<1>4. OpOK'
  BY <1>1, <1>2, <1>3 DEF OpOK, Ops, RecordOf
<1>5. TypeOK'
  BY <1>4 DEF IInv, TypeOK, CatalogOK, UpdateSpace, Issue
<1>6. NoOrphanRecords' /\ MemoryBacked'
  BY DEF IInv, NoOrphanRecords, MemoryBacked, UpdateSpace
<1>7. MintedInv' /\ VersionInv'
  BY DEF IInv, TypeOK, CatalogOK, RecordOf, SpaceRecord, RoomRecord, Versions, MintedInv, VersionInv, UpdateSpace, Issue
<1>8. CreateInv' /\ ProcessInv'
  BY <1>1 DEF CreateInv, ProcessInv, UpdateSpace, Issue
<1>9. UpdateInv'
  BY <1>1, <1>2 DEF UpdateInv, Updated, UpdateSpace, Issue, SpaceRecord, Versions, IInv, TypeOK
<1> QED
  BY <1>5, <1>6, <1>7, <1>8, <1>9 DEF IInv

\* The manifest lands before the record of its new id, a record only under a listed id.
LEMMA PutLandsKeeps ==
    ASSUME IInv, PutLands
    PROVE  IInv'
<1>1. op # NoOp /\ op \in Ops /\ op.rec \in RecordOf(op.id)
  BY DEF PutLands, NoOp, IInv, TypeOK, OpOK
<1>2. CASE op.stage = "manifest"
  <2>1. /\ op' = [op EXCEPT !.stage = "manifestLanded"] /\ manifest' = op.ids
        /\ UNCHANGED <<records, entities, up, life, seq, issued>>
    BY <1>2 DEF PutLands
  <2>2. op.verb = "create" /\ op.ids = manifest \cup {op.id}
    BY <1>1, <1>2 DEF IInv, CreateInv, UpdateInv, Ops
  <2>3. /\ op' \in Ops /\ op'.id = op.id /\ op'.rec = op.rec /\ op'.verb = "create"
        /\ op'.stage = "manifestLanded"
    BY <1>1, <2>1, <2>2 DEF Ops
  <2>4. TypeOK'
    BY <1>1, <2>1, <2>3 DEF IInv, TypeOK, OpOK, CatalogOK, Ops
  <2>5. NoOrphanRecords' /\ MemoryBacked'
    BY <2>1, <2>2 DEF IInv, NoOrphanRecords, MemoryBacked
  <2>6. MintedInv' /\ VersionInv'
    BY <1>1, <2>1, <2>2 DEF IInv, MintedInv, VersionInv, CreateInv
  <2>7. CreateInv' /\ UpdateInv' /\ ProcessInv'
    BY <1>1, <1>2, <2>1, <2>2, <2>3 DEF IInv, CreateInv, UpdateInv, ProcessInv
  <2> QED
    BY <2>4, <2>5, <2>6, <2>7 DEF IInv
<1>3. CASE op.stage = "record"
  <2>1. /\ op' = [op EXCEPT !.stage = "recordLanded"]
        /\ records' = With(records, op.id, op.rec)
        /\ UNCHANGED <<manifest, entities, up, life, seq, issued>>
    BY <1>3 DEF PutLands
  <2>2. /\ op' \in Ops /\ op'.id = op.id /\ op'.rec = op.rec /\ op'.verb = op.verb
        /\ op'.stage = "recordLanded"
    BY <1>1, <2>1 DEF Ops
  <2>3. /\ DOMAIN records' = DOMAIN records \cup {op.id}
        /\ records'[op.id] = op.rec
        /\ \A id \in DOMAIN records \ {op.id} : records'[id] = records[id]
    BY <2>1 DEF With
  <2>4. op.verb \in {"create", "update"} /\ op.rec.version = issued
    BY <1>1 DEF IInv, CreateInv, UpdateInv, Ops
  <2>5. TypeOK'
    BY <1>1, <2>1, <2>2, WithOK DEF IInv, TypeOK, OpOK, CatalogOK, Ops
  <2>6. NoOrphanRecords'
    BY <1>1, <1>3, <2>1, <2>3, <2>4 DEF IInv, NoOrphanRecords, CreateInv, UpdateInv
  <2>7. \A id \in DOMAIN entities : id \in DOMAIN records /\ entities[id].version <= issued
                                    /\ entities[id].version \in Nat
    BY DEF IInv, TypeOK, CatalogOK, MemoryBacked, VersionInv, RecordOf, SpaceRecord, RoomRecord, Versions
  <2>8. MemoryBacked'
    BY <2>1, <2>3, <2>4, <2>7 DEF IInv, TypeOK, MemoryBacked
  <2>9. MintedInv'
    BY <2>1 DEF IInv, MintedInv
  <2>10. VersionInv'
    BY <1>1, <1>3, <2>1, <2>3, <2>4 DEF IInv, TypeOK, VersionInv, CreateInv, UpdateInv
  <2>11. CreateInv' /\ UpdateInv' /\ ProcessInv'
    BY <1>1, <1>3, <2>1, <2>2, <2>3 DEF IInv, CreateInv, UpdateInv, ProcessInv
  <2> QED
    BY <2>5, <2>6, <2>8, <2>9, <2>10, <2>11 DEF IInv
<1> QED
  BY <1>2, <1>3 DEF PutLands

\* Between its two Puts a create has its id listed and no record yet.
LEMMA PutSucceedsKeeps ==
    ASSUME IInv, PutSucceeds
    PROVE  IInv'
<1>1. op # NoOp /\ op \in Ops /\ op.rec \in RecordOf(op.id)
  BY DEF PutSucceeds, NoOp, IInv, TypeOK, OpOK
<1>2. /\ op' \in Ops /\ op'.id = op.id /\ op'.rec = op.rec /\ op'.verb = op.verb
      /\ op'.stage = "record" /\ op.stage = "manifestLanded"
  BY <1>1 DEF Ops, PutSucceeds
<1>3. TypeOK'
  BY <1>1, <1>2 DEF IInv, TypeOK, OpOK, CatalogOK, PutSucceeds
<1>4. NoOrphanRecords' /\ MemoryBacked' /\ MintedInv' /\ VersionInv'
  BY DEF IInv, NoOrphanRecords, MemoryBacked, MintedInv, VersionInv, PutSucceeds
<1>5. CreateInv' /\ UpdateInv' /\ ProcessInv'
  BY <1>1, <1>2 DEF IInv, CreateInv, UpdateInv, ProcessInv, PutSucceeds
<1> QED
  BY <1>3, <1>4, <1>5 DEF IInv

\* Memory follows the store, never the other way round.
LEMMA CommandSucceedsKeeps ==
    ASSUME IInv, CommandSucceeds
    PROVE  IInv'
<1>1. op # NoOp /\ op \in Ops /\ op.rec \in RecordOf(op.id) /\ op.stage = "recordLanded"
  BY DEF CommandSucceeds, LastPut, NoOp, IInv, TypeOK, OpOK
<1>2. op.id \in DOMAIN records /\ records[op.id] = op.rec /\ op.id \in manifest
  BY <1>1 DEF IInv, CreateInv, UpdateInv, NoOrphanRecords, Ops
<1>3. /\ \A id \in DOMAIN entities' :
            \/ id \in DOMAIN entities /\ entities'[id] = entities[id]
            \/ id = op.id /\ entities'[id] = op.rec
      /\ op' = NoOp /\ UNCHANGED <<manifest, records, up, life, seq, issued>>
  BY DEF CommandSucceeds, With
<1>4. TypeOK'
  <2>1. CatalogOK(entities)'
    BY <1>1, WithOK DEF CommandSucceeds, IInv, TypeOK, Ops
  <2> QED
    BY <1>3, <2>1 DEF IInv, TypeOK, OpOK, CatalogOK
<1>5. NoOrphanRecords' /\ MintedInv' /\ CreateInv' /\ UpdateInv' /\ ProcessInv'
  BY <1>3 DEF IInv, NoOrphanRecords, MintedInv, CreateInv, UpdateInv, ProcessInv
<1>6. op.rec.version \in Nat
  <2>1. op.rec \in SpaceRecord \/ op.rec \in RoomRecord
    BY <1>1 DEF RecordOf
  <2> QED
    BY <2>1 DEF SpaceRecord, RoomRecord, Versions
<1>7. MemoryBacked' /\ VersionInv'
  BY <1>2, <1>3, <1>6 DEF IInv, MemoryBacked, VersionInv
<1> QED
  BY <1>4, <1>5, <1>7 DEF IInv

\* A Put that reports an error leaves what it may have stored consistent.
LEMMA PutFailsKeeps ==
    ASSUME IInv, PutFails
    PROVE  IInv'
<1>1. TypeOK'
  BY DEF IInv, TypeOK, OpOK, CatalogOK, PutFails
<1>2. NoOrphanRecords' /\ MemoryBacked' /\ MintedInv' /\ VersionInv'
  BY DEF IInv, NoOrphanRecords, MemoryBacked, MintedInv, VersionInv, PutFails
<1>3. CreateInv' /\ UpdateInv' /\ ProcessInv'
  BY DEF CreateInv, UpdateInv, ProcessInv, PutFails
<1> QED
  BY <1>1, <1>2, <1>3 DEF IInv

\* LoadFromStore loads nothing but stored and listed records, whatever it skips.
LEMMA Loaded ==
    ASSUME IInv, LoadFromStore
    PROVE  /\ CatalogOK(entities')
           /\ \A id \in DOMAIN entities' :
                 id \in manifest /\ id \in DOMAIN records /\ entities'[id] = records[id]
  BY DEF IInv, TypeOK, CatalogOK, LoadFromStore, LoadedRecords

\* A new process has a new seed, so its ids are fresh from the first on.
LEMMA StartKeeps ==
    ASSUME IInv, Start
    PROVE  IInv'
<1>1. /\ op = NoOp /\ op' = NoOp /\ up' = TRUE /\ life' = life + 1 /\ seq' = 0
      /\ UNCHANGED <<manifest, records, issued>>
  BY DEF IInv, ProcessInv, Start
<1>2. /\ CatalogOK(entities')
      /\ \A id \in DOMAIN entities' :
            id \in manifest /\ id \in DOMAIN records /\ entities'[id] = records[id]
  BY Loaded DEF Start
<1>3. TypeOK'
  BY <1>1, <1>2 DEF IInv, TypeOK, OpOK, CatalogOK, Start
<1>4. NoOrphanRecords'
  BY <1>1 DEF IInv, NoOrphanRecords
<1>5. MemoryBacked' /\ VersionInv'
  BY <1>1, <1>2 DEF IInv, TypeOK, CatalogOK, RecordOf, SpaceRecord, RoomRecord, Versions,
     MemoryBacked, VersionInv
<1>6. MintedInv'
  BY <1>1 DEF IInv, TypeOK, Ids, MintedInv
<1>7. CreateInv' /\ UpdateInv' /\ ProcessInv'
  BY <1>1 DEF CreateInv, UpdateInv, ProcessInv
<1> QED
  BY <1>3, <1>4, <1>5, <1>6, <1>7 DEF IInv

\* A session reopened in the same process goes on with its seed and counter.
LEMMA ReloadKeeps ==
    ASSUME IInv, Reload
    PROVE  IInv'
<1>1. op' = NoOp /\ UNCHANGED <<manifest, records, up, life, seq, op, issued>>
  BY DEF Reload
<1>2. /\ CatalogOK(entities')
      /\ \A id \in DOMAIN entities' :
            id \in manifest /\ id \in DOMAIN records /\ entities'[id] = records[id]
  BY Loaded DEF Reload
<1>3. TypeOK'
  BY <1>1, <1>2 DEF IInv, TypeOK, OpOK, CatalogOK
<1>4. NoOrphanRecords' /\ MintedInv'
  BY <1>1 DEF IInv, NoOrphanRecords, MintedInv
<1>5. MemoryBacked' /\ VersionInv'
  BY <1>1, <1>2 DEF IInv, TypeOK, CatalogOK, RecordOf, SpaceRecord, RoomRecord, Versions,
     MemoryBacked, VersionInv
<1>6. CreateInv' /\ UpdateInv' /\ ProcessInv'
  BY <1>1 DEF IInv, CreateInv, UpdateInv, ProcessInv
<1> QED
  BY <1>3, <1>4, <1>5, <1>6 DEF IInv

\* A crash loses memory and the running command, and nothing that is stored.
LEMMA CrashKeeps ==
    ASSUME IInv, Crash
    PROVE  IInv'
<1>1. TypeOK'
  BY DEF IInv, TypeOK, OpOK, CatalogOK, Empty, Crash
<1>2. NoOrphanRecords' /\ MemoryBacked' /\ MintedInv' /\ VersionInv'
  BY DEF IInv, NoOrphanRecords, MemoryBacked, MintedInv, VersionInv, Empty, Crash
<1>3. CreateInv' /\ UpdateInv' /\ ProcessInv'
  BY DEF CreateInv, UpdateInv, ProcessInv, Crash
<1> QED
  BY <1>1, <1>2, <1>3 DEF IInv

\* Every step of the entity store keeps the invariant.
LEMMA NextKeeps ==
    ASSUME ReliableGet
    PROVE  IInv /\ [Next]_vars => IInv'
<1> SUFFICES ASSUME IInv, [Next]_vars PROVE IInv'
  OBVIOUS
<1>1. CASE CreateSpace
  <2>1. PICK auto \in BOOLEAN, now \in Stamps :
           Create(NextEntityId("space"),
                  [created |-> now, version |-> issued', auto_join_rooms |-> auto])
    BY <1>1 DEF CreateSpace
  <2>2. Issue /\ issued' \in Versions
    BY <1>1 DEF CreateSpace, Issue, Versions, IInv, TypeOK
  <2> DEFINE rec == [created |-> now, version |-> issued', auto_join_rooms |-> auto]
  <2>3. rec \in SpaceRecord /\ rec.version = issued'
    BY <2>2 DEF SpaceRecord
  <2> QED
    BY <2>1, <2>2, <2>3, CreateKeeps
<1>2. CASE CreateRoom
  <2>1. PICK parent \in {NoParent} \cup {id \in Ids : id.kind = "space"}, now \in Stamps :
           /\ parent # NoParent => IsValidParentSpace(parent)
           /\ Create(NextEntityId("room"),
                     [created |-> now, version |-> issued', parent |-> parent])
    BY <1>2 DEF CreateRoom
  <2>2. Issue /\ issued' \in Versions
    BY <1>2 DEF CreateRoom, Issue, Versions, IInv, TypeOK
  <2> DEFINE rec == [created |-> now, version |-> issued', parent |-> parent]
  <2>3. /\ rec \in RoomRecord /\ rec.version = issued'
        /\ rec.parent \in {NoParent} \cup DOMAIN entities
    BY <2>1, <2>2 DEF RoomRecord, IsValidParentSpace
  <2> QED
    BY <2>1, <2>2, <2>3, CreateKeeps
<1>3. CASE UpdateSpace
  BY <1>3, UpdateSpaceKeeps
<1>4. CASE PutLands \/ PutSucceeds \/ CommandSucceeds \/ PutFails
  BY <1>4, PutLandsKeeps, PutSucceedsKeeps, CommandSucceedsKeeps, PutFailsKeeps
<1>5. CASE Start \/ Reload \/ Crash
  BY <1>5, StartKeeps, ReloadKeeps, CrashKeeps
<1>6. CASE UNCHANGED vars
  BY <1>6, StutterKeeps
<1> QED
  BY <1>1, <1>2, <1>3, <1>4, <1>5, <1>6 DEF Next

\* The invariant holds in every state of every execution with a reliable Get.
THEOREM Inductive ==
    ASSUME ReliableGet
    PROVE  Spec => []IInv
<1>1. IInv /\ [Next]_vars => IInv'
  BY NextKeeps
<1> QED
  BY <1>1, InitKeeps, PTL DEF Spec

\* Manifest first, record second, memory last: through failed Puts, crashes and
\* restarts no record is orphaned, and what CreateSpace, CreateRoom, UpdateSpace and
\* LoadFromStore put into memory is stored, listed and no newer than the store.
THEOREM StoredAndListed ==
    ASSUME ReliableGet
    PROVE  Spec => [](TypeOK /\ NoOrphanRecords /\ MemoryBacked)
<1>1. IInv => TypeOK /\ NoOrphanRecords /\ MemoryBacked
  BY DEF IInv
<1> QED
  BY <1>1, Inductive, PTL

\* The types alone, with the manifest, the records and the map in memory.
THEOREM TypeCorrect ==
    ASSUME ReliableGet
    PROVE  Spec => []TypeOK
<1> QED
  BY StoredAndListed, PTL

\* What CreateSpace, CreateRoom, UpdateSpace and LoadFromStore put into memory, and the
\* SpaceTree shows, survives the process.
THEOREM MemoryIsStored ==
    ASSUME ReliableGet
    PROVE  Spec => []MemoryBacked
<1> QED
  BY StoredAndListed, PTL

\* The empty store is the empty catalog.
LEMMA InitPromised == Init => Promised!Init
  BY DEF Init, Promised!Init, Loadable, Empty

\* A step that writes nothing to the store is a stutter of the catalog.
LEMMA SameStorePromised ==
    ASSUME UNCHANGED <<manifest, records>>
    PROVE  UNCHANGED Loadable
  BY DEF Loadable

\* A manifest Put is a stutter (the new id has no record yet); the record Put that
\* lands is the moment the catalog gains the entity, or replaces it on an update.
LEMMA PutLandsPromised ==
    ASSUME IInv, PutLands
    PROVE  [Promised!Next]_Loadable
<1>1. op # NoOp /\ op \in Ops
  BY DEF PutLands, NoOp, IInv, TypeOK, OpOK
<1>2. CASE op.stage = "manifest"
  <2>1. op.verb = "create" /\ manifest' = manifest \cup {op.id} /\ records' = records
    BY <1>1, <1>2 DEF PutLands, IInv, CreateInv, UpdateInv, Ops
  <2>2. op.id \notin DOMAIN records
    BY <1>1, <1>2, <2>1 DEF IInv, CreateInv
  <2>3. manifest' \cap DOMAIN records' = manifest \cap DOMAIN records
    BY <2>1, <2>2
  <2> QED
    BY <2>1, <2>3 DEF Loadable
<1>3. CASE op.stage = "record"
  <2>1. manifest' = manifest /\ records' = With(records, op.id, op.rec)
    BY <1>3 DEF PutLands
  <2>2. op.id \in manifest
    BY <1>1, <1>3 DEF IInv, CreateInv, UpdateInv, NoOrphanRecords, Ops
  <2>3. /\ DOMAIN Loadable = DOMAIN records
        /\ DOMAIN Loadable' = DOMAIN records \cup {op.id}
        /\ \A id \in DOMAIN records : Loadable[id] = records[id]
        /\ Loadable'[op.id] = op.rec
        /\ \A id \in DOMAIN records \ {op.id} : Loadable'[id] = records[id]
    BY <2>1, <2>2 DEF IInv, NoOrphanRecords, Loadable, With
  <2>4. CASE op.verb = "create"
    <3>1. Promised!Create(op.id)
      BY <1>1, <1>3, <2>3, <2>4 DEF Promised!Create, IInv, CreateInv
    <3> QED
      BY <2>3, <3>1 DEF Promised!Next
  <2>5. CASE op.verb = "update"
    <3>1. Promised!Edit(op.id)
      BY <1>1, <1>3, <2>3, <2>5 DEF Promised!Edit, IInv, TypeOK, CatalogOK, UpdateInv,
         RecordOf, SpaceRecord, Versions
    <3> QED
      BY <2>3, <3>1 DEF Promised!Next
  <2> QED
    BY <1>1, <2>4, <2>5 DEF Ops
<1> QED
  BY <1>2, <1>3 DEF PutLands

\* Every step of the entity store is a step of the catalog or a stutter.
LEMMA NextPromised ==
    ASSUME IInv, [Next]_vars
    PROVE  [Promised!Next]_Loadable
<1>1. CASE PutLands
  BY <1>1, PutLandsPromised
<1>2. CASE [Next]_vars /\ ~PutLands
  <2>1. UNCHANGED <<manifest, records>>
    BY <1>2 DEF Next, CreateSpace, CreateRoom, UpdateSpace, Create, PutSucceeds,
       CommandSucceeds, PutFails, Start, Reload, Crash, vars
  <2> QED
    BY <2>1, SameStorePromised
<1> QED
  BY <1>1, <1>2

\* The entity store implements the Catalog: an entity appears once and complete, a
\* room only under a known space, edits are newer and keep the creation stamp, and
\* nothing is ever lost (NextEntityId's seed, the order of the Puts, the skips of
\* LoadFromStore).
THEOREM CatalogKept ==
    ASSUME ReliableGet
    PROVE  Spec => KeepsPromise
<1>1. IInv /\ [Next]_vars => [Promised!Next]_Loadable
  BY NextPromised
<1> QED
  BY <1>1, Inductive, InitPromised, PTL DEF Spec, KeepsPromise, Promised!Spec
=============================================================================
