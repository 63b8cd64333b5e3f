----------------------------- MODULE EntityStore -----------------------------
(***************************************************************************)
(* The catalog of spaces and rooms (src/lib/gcs_entity_store.cpp): records *)
(* under one key each, and a manifest key that lists their ids, because    *)
(* GlobalDB cannot be enumerated.  A create reads the manifest, Puts it    *)
(* back with the new id, Puts the record and only then updates its maps in *)
(* memory; every Put may fail, before or after it has landed, and the      *)
(* process may die between any two of these steps.  The C ABI serialises   *)
(* the commands under g_mutex (GcsFfi), so at most one runs.               *)
(*                                                                         *)
(* External: the key-value store under CoreSession::Put/Get.  It outlives  *)
(* the process.  Entity writes carry no topics, so no peer sees them.      *)
(*                                                                         *)
(* Names, is_public and updated_at_ms are left out (nothing reads them),   *)
(* and so are the tombstone fields, which every write of this code leaves  *)
(* cleared.  In their place a record has a version, a history variable:    *)
(* the number of the command that wrote it.  The code has no such field    *)
(* and no step depends on it; it lets the properties say which of two      *)
(* records is the later one, which the wall clock cannot.                  *)
(***************************************************************************)
EXTENDS Integers, FiniteSets

CONSTANTS
    NoParent,     \* the parent_space_id "" of a standalone room
    GetFails,     \* whether Get(kManifestKey) may fail although the key is there
    Stamps,       \* the readings of NowMs: a wall clock, which may repeat or go back
    MaxLives,     \* bound: process starts
    MaxCommands   \* bound: commands

ASSUME CatalogAssumption ==
    GetFails \in BOOLEAN /\ MaxLives \in Nat /\ MaxCommands \in Nat

Ids == [kind : {"space", "room"}, life : 0..MaxLives, seq : 0..MaxCommands]
Versions == 1..MaxCommands

ASSUME NoParentAssumption == NoParent \notin Ids

VARIABLES
    manifest,  \* stored: the ids under gcs/index/manifest
    records,   \* stored: gcs/entities/<kind>s/<id> -> record
    up,        \* a process runs and has a session
    life,      \* the seed of NextEntityId in this process
    seq,       \* the counter of NextEntityId in this process
    entities,  \* m_spaces and m_rooms, one map
    op,        \* the Put the running command waits for
    issued

vars == <<manifest, records, up, life, seq, entities, op, issued>>

SpaceRecord == [created : Stamps, version : Versions, auto_join_rooms : BOOLEAN]
RoomRecord  == [created : Stamps, version : Versions, parent : Ids \cup {NoParent}]
RecordOf(id) == IF id.kind = "space" THEN SpaceRecord ELSE RoomRecord

NoOp == [stage |-> "none"]

\* A stage is named for the key of the Put, and whether the store has it yet.
Ops == [verb : {"create", "update"},
        stage : {"manifest", "manifestLanded", "record", "recordLanded"},
        id : Ids, rec : SpaceRecord \cup RoomRecord, ids : SUBSET Ids]

OpOK == op = NoOp \/ (op \in Ops /\ op.rec \in RecordOf(op.id))

CatalogOK(f) == DOMAIN f \subseteq Ids /\ \A id \in DOMAIN f : f[id] \in RecordOf(id)

TypeOK ==
    /\ manifest \subseteq Ids
    /\ CatalogOK(records) /\ CatalogOK(entities)
    /\ up \in BOOLEAN /\ life \in 0..MaxLives /\ seq \in 0..MaxCommands
    /\ OpOK
    /\ issued \in 0..MaxCommands

Empty == [id \in {} |-> NoParent]

\* An empty store and no process.
Init ==
    /\ manifest = {} /\ records = Empty
    /\ up = FALSE /\ life = 0 /\ seq = 0
    /\ entities = Empty /\ op = NoOp
    /\ issued = 0

With(f, id, value) == [i \in DOMAIN f \cup {id} |-> IF i = id THEN value ELSE f[i]]

-----------------------------------------------------------------------------
(* The commands, up to their first Put.                                    *)

\* Mutant: the counter without the per-process seed (CR-01).
CounterOnlyId(kind) == [kind |-> kind, life |-> 0, seq |-> seq]

\* prefix + seed + counter: the counter restarts with the process, the seed
\* (wall clock and a random token) is one no other process has.
NextEntityId(kind) == [kind |-> kind, life |-> life, seq |-> seq]

\* AppendToManifest's read: a Get that fails, and bytes that do not parse,
\* are an empty manifest.
ManifestReads == {manifest} \cup (IF GetFails THEN {{}} ELSE {})

\* Mutant: the record is written before the manifest.
RecordPutFirst(id, rec, ids) ==
    [verb |-> "create", stage |-> "record", id |-> id, rec |-> rec, ids |-> ids]

\* A create Puts the manifest with the new id first (WR-02).
FirstPut(id, rec, ids) ==
    [verb |-> "create", stage |-> "manifest", id |-> id, rec |-> rec, ids |-> ids]

\* A command starts, the issued'-th.
Issue == up /\ op = NoOp /\ issued < MaxCommands /\ issued' = issued + 1

Create(id, rec) ==
    /\ \E ids \in ManifestReads : op' = FirstPut(id, rec, ids \cup {id})
    /\ seq' = seq + 1
    /\ UNCHANGED <<manifest, records, up, life, entities>>

CreateSpace ==
    /\ Issue
    /\ \E auto \in BOOLEAN, now \in Stamps :
          Create(NextEntityId("space"),
                 [created |-> now, version |-> issued', auto_join_rooms |-> auto])

IsValidParentSpace(id) == id \in DOMAIN entities

\* A parent that is named must be a space this process knows.
CreateRoom ==
    /\ Issue
    /\ \E parent \in {NoParent} \cup {id \in Ids : id.kind = "space"}, now \in Stamps :
          /\ parent # NoParent => IsValidParentSpace(parent)
          /\ Create(NextEntityId("room"),
                    [created |-> now, version |-> issued', parent |-> parent])

\* A full desired state, with the creation stamp of the stored record.
Updated(id, auto) ==
    [created |-> entities[id].created, version |-> issued', auto_join_rooms |-> auto]

\* A known space is rewritten whole.
UpdateSpace ==
    /\ Issue
    /\ \E id \in DOMAIN entities, auto \in BOOLEAN :
          /\ id.kind = "space"
          /\ op' = [verb |-> "update", stage |-> "record", id |-> id,
                    rec |-> Updated(id, auto), ids |-> {}]
    /\ UNCHANGED <<manifest, records, up, life, seq, entities>>

-----------------------------------------------------------------------------
(* The Puts.                                                               *)

\* The store applies the Put.
PutLands ==
    /\ \/ /\ op.stage = "manifest" /\ op' = [op EXCEPT !.stage = "manifestLanded"]
          /\ manifest' = op.ids
          /\ UNCHANGED records
       \/ /\ op.stage = "record" /\ op' = [op EXCEPT !.stage = "recordLanded"]
          /\ records' = With(records, op.id, op.rec)
          /\ UNCHANGED manifest
    /\ UNCHANGED <<up, life, seq, entities, issued>>

\* Mutant: a create is complete with its first Put.
AnyPut == op.stage \in {"manifestLanded", "recordLanded"}

\* The Put that completes a command: the record's.
LastPut == op.stage = "recordLanded"

\* The manifest Put succeeded: the record Put starts.
PutSucceeds ==
    /\ op.stage = "manifestLanded"
    /\ op' = [op EXCEPT !.stage = "record"]
    /\ UNCHANGED <<manifest, records, up, life, seq, entities, issued>>

\* The record Put succeeded: the maps in memory follow (emplace on a create,
\* assignment on an update) and the command reports success.
CommandSucceeds ==
    /\ LastPut
    /\ entities' = IF op.verb = "create" /\ op.id \in DOMAIN entities THEN entities
                   ELSE With(entities, op.id, op.rec)
    /\ op' = NoOp
    /\ UNCHANGED <<manifest, records, up, life, seq, issued>>

\* The Put reports an error, whether or not it has landed: the command
\* returns it and the maps stay as they were.
PutFails ==
    /\ op # NoOp
    /\ op' = NoOp
    /\ UNCHANGED <<manifest, records, up, life, seq, entities, issued>>

-----------------------------------------------------------------------------
(* The life of a process.                                                  *)

\* Mutant: a listed id whose record cannot be read is loaded as a default.
DefaultsLoaded(ids, unread) ==
    [id \in ids |-> IF id \in unread THEN [created |-> 0, version |-> 0, parent |-> NoParent]
                                     ELSE records[id]]

\* A listed id whose record is missing, or whose Get or parse fails, is skipped.
LoadedRecords(ids, unread) == [id \in ids \ unread |-> records[id]]

\* The manifest's Get may fail (an empty catalog), and so may any record's.
LoadFromStore ==
    \E ids \in {manifest, {}} :
    \E unread \in {u \in SUBSET ids : ids \ DOMAIN records \subseteq u} :
        entities' = LoadedRecords(ids, unread)

\* The first gcs_init of a process.
Start ==
    /\ ~up /\ life < MaxLives
    /\ up' = TRUE /\ life' = life + 1 /\ seq' = 0
    /\ LoadFromStore
    /\ UNCHANGED <<manifest, records, op, issued>>

\* gcs_shutdown and gcs_init in the same process: seed and counter go on.
Reload ==
    /\ up /\ op = NoOp
    /\ LoadFromStore
    /\ UNCHANGED <<manifest, records, up, life, seq, op, issued>>

\* The process ends, in the middle of a command or not.
Crash ==
    /\ up /\ up' = FALSE
    /\ op' = NoOp /\ entities' = Empty
    /\ UNCHANGED <<manifest, records, life, seq, issued>>

Next ==
    \/ CreateSpace \/ CreateRoom \/ UpdateSpace
    \/ PutLands \/ PutSucceeds \/ CommandSucceeds \/ PutFails
    \/ Start \/ Reload \/ Crash

Spec == Init /\ [][Next]_vars

-----------------------------------------------------------------------------
(* Properties.                                                             *)

\* No record is out of reach: the manifest lists it, whatever Put failed and
\* wherever the process died (WR-02, "never unreachable orphan record bytes").
NoOrphanRecords == DOMAIN records \subseteq manifest

\* What a command reported as done, and the tree therefore shows, is in the
\* store: listed, and with a record of the same command or a later one.
MemoryBacked ==
    \A id \in DOMAIN entities :
        /\ id \in manifest /\ id \in DOMAIN records
        /\ records[id].version >= entities[id].version

\* The manifest is append-only membership (AppendToManifest).
ManifestAppendOnly == [][manifest \subseteq manifest']_manifest

\* What the next process can load: the listed records.
Loadable == [id \in manifest \cap DOMAIN records |-> records[id]]

Promised == INSTANCE Catalog WITH known <- Loadable

\* The catalog keeps its promise through failed Puts, crashes and restarts.
KeepsPromise == Promised!Spec

-----------------------------------------------------------------------------
(* The inductive invariant behind KeepsPromise, for GetFails = FALSE.      *)

\* Every id the store knows was minted before: NextEntityId is fresh.
MintedInv ==
    /\ seq <= issued
    /\ \A id \in manifest : id.life < life \/ (id.life = life /\ id.seq < seq)

\* Every record is a past command's; what is in memory is the stored record or
\* an older edit of the same entity.
VersionInv ==
    /\ \A id \in DOMAIN records : records[id].version <= issued
    /\ \A id \in DOMAIN entities :
          id \in DOMAIN records /\ entities[id].created = records[id].created

\* A create in progress has an id of its own and a known parent, and its
\* manifest is the stored one with the id added.
CreateInv ==
    op # NoOp /\ op.verb = "create" =>
        /\ op.id.life = life /\ op.id.seq < seq
        /\ op.id.kind = "room" => op.rec.parent \in {NoParent} \cup DOMAIN records
        /\ op.stage = "manifest" => op.ids = manifest \cup {op.id}
        /\ op.stage # "manifest" => op.id \in manifest
        /\ op.stage # "recordLanded" => op.id \notin DOMAIN records
        /\ op.stage = "recordLanded" => op.id \in DOMAIN records /\ records[op.id] = op.rec
        /\ op.rec.version = issued

\* An update in progress rewrites a stored record with a later one.
UpdateInv ==
    op # NoOp /\ op.verb = "update" =>
        /\ op.stage \in {"record", "recordLanded"}
        /\ op.id.kind = "space" /\ op.id \in DOMAIN records
        /\ op.rec.created = records[op.id].created
        /\ op.rec.version = issued
        /\ op.stage = "record" => records[op.id].version < issued
        /\ op.stage = "recordLanded" => records[op.id] = op.rec

ProcessInv == ~up => op = NoOp

IInv ==
    /\ TypeOK /\ NoOrphanRecords /\ MemoryBacked
    /\ MintedInv /\ VersionInv /\ CreateInv /\ UpdateInv /\ ProcessInv
=============================================================================
