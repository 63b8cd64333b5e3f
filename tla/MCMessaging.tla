----------------------------- MODULE MCMessaging -----------------------------
(* Finite instances of Messaging and RoomKeys for TLC, and RoomKeys evaluated *)
(* on every topic of up to four segments.                                     *)
EXTENDS Messaging, RoomKeys

\* Ids in the order of their strings.
AscendingIds == {<<"msg-1", "msg-2">>}

Segments(n) == UNION {[1..k -> Segment] : k \in 0..n}

\* The topics the C ABI lets in are the room topics, of all that could be asked for.
ASSUME \A topic \in Segments(4) : IsValidRoomTopicShape(topic) <=> topic \in RoomTopic

\* A topic is read back from each form of each of its keys.
ASSUME \A topic \in RoomTopic, id \in Id :
          \A form \in StoreForms(BuildKey(topic, id)) : RoomTopicFromKey(form) = topic

\* A key that is not an archive key has no topic, and all that follows the prefix is
\* the topic of one without an id.
ASSUME /\ \A key \in Segments(3) :
             (~\E i \in 1..Len(key) : PrefixAt(key, i)) => RoomTopicFromKey(key) = EmptyString
       /\ \A name \in Segment \ {"v", "p"} :
             RoomTopicFromKey(kMessagesKeyPrefix \o <<name>>) = <<name>>

\* The scan of a room finds its own keys only.
ASSUME \A topic, other \in RoomTopic, id \in Id :
          Scanned(topic, BuildKey(other, id)) <=> topic = other

\* A replay of a store of two records yields the room's own messages.
ASSUME \A m, n \in {k \in Message : k.timestamp = 0 /\ k.sender = "self"},
          topic \in RoomTopic, encrypted \in BOOLEAN :
             \A p \in Payload(m, encrypted), q \in Payload(n, encrypted) :
                HistoryOf(topic, {[key |-> BuildKey(m.room, m.id), value |-> p],
                                  [key |-> BuildKey(n.room, n.id), value |-> q]}, encrypted)
                    = {k \in {m, n} : k.room = topic}
=============================================================================
