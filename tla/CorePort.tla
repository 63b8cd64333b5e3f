------------------------------ MODULE CorePort ------------------------------
(***************************************************************************)
(* The core as the Dart isolate meets it: the commands it publishes        *)
(* (GcsCommand of src/proto/gcs_chat.proto, the arms of gcs_publish) and   *)
(* the events that come back on its port (GcsEvent), in the order in which *)
(* the core posts them.                                                    *)
(*                                                                         *)
(* The isolate blocks in each call.  A catalog command or a join is one    *)
(* step: a message of a peer that is posted in a window of SubscribeLive   *)
(* counts as posted before or after its events, on the side of its own     *)
(* room's history on which it is.  A send is two, the pending echo and the *)
(* answer, with peers' messages between them.  The membership rules are    *)
(* RoomMembership's and a message's way to the archive is Messaging's; one *)
(* space stands for the catalog's, and the smoke rooms, which no rail row  *)
(* stands for, are left out.                                               *)
(***************************************************************************)
EXTENDS Integers, Sequences, FiniteSets, SequencesExt

CONSTANTS
    Room,
    Peer,     \* the messages peers write
    Own,      \* the messages this user writes
    Nowhere   \* the room of a message that does not exist yet

ASSUME CoreAssumption ==
    /\ IsFiniteSet(Room) /\ IsFiniteSet(Peer) /\ IsFiniteSet(Own)
    /\ Nowhere \notin Room /\ Peer \cap Own = {}

Message == Peer \cup Own

VARIABLES
    open,       \* g_session is set and the port registered
    space,      \* the space: "none", or its auto_join_rooms, "auto" or "manual"
    parent,     \* of each room: "none" (no room), "standalone" or "space"
    derived, explicit,   \* the two reasons to be in a room
    listening,  \* rooms the store is registered for: there is no way back
    where,      \* the room of each message
    pushed,     \* m_seenIds
    archived,   \* messages in the store
    sending,    \* the message gcs_publish is in SendMessage with, if it is
    port,       \* events posted and not yet taken off
    late        \* messages a replay left out: pushed, and archived only after it

core == <<open, space, parent, derived, explicit, listening, where, pushed, archived, sending,
          port, late>>

catalog == <<space, parent>>
membership == <<derived, explicit, listening>>
messages == <<where, pushed, archived, sending>>

joined == derived \cup explicit

Spaces == {"none", "auto", "manual"}
Parents == [Room -> {"none", "standalone", "space"}]
States == {"pending", "complete", "error"}

Event ==
    [kind : {"spaceTree"}, space : Spaces, parent : Parents]
        \cup [kind : {"roomList"}, rooms : SUBSET Room]
        \cup [kind : {"message"}, id : Message, room : Room, state : States]
        \cup [kind : {"messageHistory"}, room : Room, messages : Seq(Message)]
        \cup [kind : {"readiness", "error"}]

CoreOK ==
    /\ open \in BOOLEAN
    /\ space \in Spaces /\ parent \in Parents
    /\ derived \subseteq Room /\ explicit \subseteq Room /\ listening \subseteq Room
    /\ where \in [Message -> Room \cup {Nowhere}]
    /\ pushed \subseteq Message /\ archived \subseteq Message /\ late \subseteq Message
    /\ sending \subseteq Own
    /\ port \in Seq(Event)

\* What an earlier run left in the store.
CoreInit ==
    /\ open = FALSE
    /\ space \in Spaces /\ parent \in Parents
    /\ space = "none" => \A r \in Room : parent[r] # "space"
    /\ derived = {} /\ explicit = {} /\ listening = {}
    /\ where = [m \in Message |-> Nowhere]
    /\ pushed = {} /\ archived = {} /\ late = {} /\ sending = {}
    /\ port = <<>>

-----------------------------------------------------------------------------
(* GcsEvent.                                                               *)

SpaceTree == [kind |-> "spaceTree", space |-> space', parent |-> parent']

RoomList == [kind |-> "roomList", rooms |-> derived' \cup explicit']

Readiness == [kind |-> "readiness"]

ErrorNotice == [kind |-> "error"]

ChatMessageState(m, r, state) == [kind |-> "message", id |-> m, room |-> r, state |-> state]

InRoom(r) == {m \in Message : where[m] = r}

\* QueryHistory: what the archive holds of the room, by now.
MessageHistory(r) ==
    [kind |-> "messageHistory", room |-> r, messages |-> SetToSeq(archived \cap InRoom(r))]

\* A scan that fails is only logged.
PushMessageHistory(r, replayed) == IF replayed THEN <<MessageHistory(r)>> ELSE <<>>

LeftOut(rooms) == {m \in pushed \ archived : where[m] \in rooms}

-----------------------------------------------------------------------------
(* Commands.                                                               *)

\* Mutant: membership is posted before the catalog.
PostListFirst == <<RoomList, SpaceTree>>

\* Mutant: the membership is not posted.
PostTreeOnly == <<SpaceTree>>

PostCatalog == <<SpaceTree, RoomList>>

\* RefreshDerivedJoins: what registers of the newly derived rooms is replayed, if
\* its scan succeeds.  Rooms that are not derived any more are dropped.
RefreshDerivedJoins ==
    LET now == {r \in Room : parent'[r] = "space" /\ space' = "auto"}
    IN  \E new \in SUBSET (now \ derived) : \E replayed \in SUBSET new :
          /\ derived' = (derived \cap now) \cup new
          /\ listening' = listening \cup now
          /\ late' = late \cup LeftOut(replayed)
          /\ UNCHANGED <<open, explicit>> /\ UNCHANGED messages
          /\ LET order == SetToSeq(replayed)
             IN  port' = port \o [i \in 1..Len(order) |-> MessageHistory(order[i])] \o PostCatalog

\* gcs_init and gcs_subscribe: posts of the first find no port yet.
Open ==
    /\ open' = TRUE
    /\ \E new \in SUBSET {r \in Room : parent[r] = "space" /\ space = "auto"} : derived' = new
    /\ listening' = {r \in Room : parent[r] = "space" /\ space = "auto"}
    /\ UNCHANGED <<explicit, late>> /\ UNCHANGED catalog /\ UNCHANGED messages
    /\ port' = PostCatalog \o <<Readiness>>

\* join_topic: the registration may fail, and the live subscribe of a first join.
\* `replayed` is whether a history was posted.
join_topic(r, replayed) ==
    /\ UNCHANGED <<open>> /\ UNCHANGED catalog /\ UNCHANGED messages
    /\ listening' = listening \cup {r}
    /\ \/ /\ ~replayed
          /\ UNCHANGED <<derived, explicit, late>>
          /\ port' = Append(port, ErrorNotice)
       \/ /\ explicit' = explicit \cup {r} /\ UNCHANGED derived
          /\ late' = IF replayed THEN late \cup LeftOut({r}) ELSE late
          /\ \E live \in BOOLEAN :
                /\ r \in joined => live
                /\ port' = port \o <<RoomList>> \o PushMessageHistory(r, replayed)
                                \o (IF live THEN <<>> ELSE <<ErrorNotice>>)

\* A command the core rejects, or whose store write fails.
Rejected ==
    /\ port' = Append(port, ErrorNotice)
    /\ UNCHANGED <<open, late>> /\ UNCHANGED catalog /\ UNCHANGED membership /\ UNCHANGED messages

\* send_text of a joined room: the id is minted and the pending echo posted, and
\* the rest of SendMessage runs with g_mutex released.
send_text(m, r) ==
    /\ r \in joined /\ m \notin pushed
    /\ where' = [where EXCEPT ![m] = r]
    /\ pushed' = pushed \cup {m} /\ sending' = {m}
    /\ port' = Append(port, ChatMessageState(m, r, "pending"))
    /\ UNCHANGED <<open, archived, late>> /\ UNCHANGED catalog /\ UNCHANGED membership

\* Mutant: a failed send ends in the notice alone.
NoTerminalState(m) == <<ErrorNotice>>

\* A failed send: the error state of the id, then the notice.
SendFailed(m) == <<ChatMessageState(m, where[m], "error"), ErrorNotice>>

\* SendMessage returns.  `ok` is whether gcs_publish answers GCS_OK.
SendReturns(m, ok) ==
    /\ sending = {m} /\ sending' = {}
    /\ \/ /\ ok
          /\ archived' = archived \cup {m}
          /\ port' = Append(port, ChatMessageState(m, where[m], "complete"))
       \/ ~ok /\ UNCHANGED archived /\ port' = port \o SendFailed(m)
    /\ UNCHANGED <<open, where, pushed, late>> /\ UNCHANGED catalog /\ UNCHANGED membership

create_space(on) ==
    /\ space = "none" /\ space' = on /\ UNCHANGED parent
    /\ UNCHANGED <<open, late>> /\ UNCHANGED membership /\ UNCHANGED messages
    /\ port' = Append(port, SpaceTree)

create_room(r, in) ==
    /\ parent[r] = "none"
    /\ parent' = [parent EXCEPT ![r] = in] /\ UNCHANGED space
    /\ RefreshDerivedJoins

update_space(on) ==
    /\ space' = on /\ UNCHANGED parent
    /\ RefreshDerivedJoins

-----------------------------------------------------------------------------
(* The core's own threads, also while the isolate is in a call.            *)

Heard(m, r) == open /\ r \in listening /\ where[m] \in {Nowhere, r}

\* ApplyMessage: pushed at once, by the live path or by the heal callback.
PushMessage(m, r) ==
    /\ Heard(m, r) /\ m \notin pushed
    /\ pushed' = pushed \cup {m} /\ where' = [where EXCEPT ![m] = r]
    /\ port' = Append(port, ChatMessageState(m, r, "complete"))
    /\ UNCHANGED <<open, archived, sending, late>> /\ UNCHANGED catalog /\ UNCHANGED membership

\* In the store: by the archive worker once pushed, or replicated before it.  One
\* of this user's: by a Put that fails after it landed, or from a peer that had it live.
ArchiveMessage(m, r) ==
    /\ Heard(m, r) /\ m \notin archived /\ m \in Peer \cup pushed
    /\ archived' = archived \cup {m} /\ where' = [where EXCEPT ![m] = r]
    /\ UNCHANGED <<open, pushed, sending, late, port>> /\ UNCHANGED catalog /\ UNCHANGED membership
=============================================================================
