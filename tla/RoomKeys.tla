------------------------------ MODULE RoomKeys ------------------------------
(***************************************************************************)
(* What keeps the messages of two rooms apart in one store: the topics the *)
(* C ABI lets in (IsValidRoomTopicShape), the archive keys made of them    *)
(* and read back (BuildKey, RoomTopicFromKey), the prefix scan of a replay *)
(* and the key each room's payloads are encrypted with                     *)
(* (src/lib/gcs_crypto.cpp).                                               *)
(*                                                                         *)
(* A topic or a key is the sequence of what stands between its slashes.    *)
(* The cryptography is symbolic: a key is its room, an envelope opens with *)
(* the key it was sealed with and with no other, and any OpenSSL call may  *)
(* fail.                                                                   *)
(***************************************************************************)
EXTENDS Integers, Sequences

CONSTANTS
    Segment,    \* what may stand between two slashes
    Id,         \* message ids: "msg-", the seed of the process and a counter
    Nonce,
    Sender,
    IdBefore,   \* pairs of ids: the first is the smaller string
    MaxTime     \* bound: timestamps

ASSUME KeyAssumption ==
    /\ {"", "gcs", "chat", "messages", "crdt", "k", "v", "p"} \subseteq Segment
    /\ Id \subseteq Segment \ {"", "gcs", "chat", "messages", "crdt", "k", "v", "p"}
    /\ MaxTime \in Nat

\* std::string's <, on ids.
ASSUME IdOrderAssumption ==
    /\ \A a, b \in Id : a # b => <<a, b>> \in IdBefore \/ <<b, a>> \in IdBefore
    /\ \A a, b \in Id : <<a, b>> \in IdBefore => <<b, a>> \notin IdBefore
    /\ \A a, b, c \in Id :
          <<a, b>> \in IdBefore /\ <<b, c>> \in IdBefore => <<a, c>> \in IdBefore

-----------------------------------------------------------------------------
(* Topics and keys.                                                        *)

kRoomTopicNamespace == <<"gcs", "chat">>

kMessagesKeyPrefix == <<"gcs", "messages">>

\* The namespace, a non-empty id and no further slash (WR-03).
IsValidRoomTopicShape(topic) ==
    /\ topic \in Seq(Segment) /\ Len(topic) = Len(kRoomTopicNamespace) + 1
    /\ \A i \in 1..Len(kRoomTopicNamespace) : topic[i] = kRoomTopicNamespace[i]
    /\ topic[Len(topic)] # ""

RoomTopic == {kRoomTopicNamespace \o <<name>> : name \in Segment \ {""}}

BuildKey(topic, id) == kMessagesKeyPrefix \o topic \o <<id>>

\* The forms in which the store hands a key back: as it is, to a callback, and raw,
\* from a query.
StoreForms(key) ==
    {key, <<"">> \o key} \cup
        {<<"", "crdt", "k">> \o key \o <<suffix>> : suffix \in {"v", "p"}}

PrefixAt(key, i) ==
    /\ i + Len(kMessagesKeyPrefix) <= Len(key)
    /\ key[i] = "gcs" /\ key[i + 1] = "messages"

First(key) ==
    CHOOSE i \in 1..Len(key) : PrefixAt(key, i) /\ \A j \in 1..(i - 1) : ~PrefixAt(key, j)

\* How many segments a raw suffix takes.
Suffix(key) == IF key[Len(key)] \in {"v", "p"} THEN 1 ELSE 0

\* The string "": no slash, so one segment.
EmptyString == <<"">>

\* What follows the first prefix, without a raw suffix and without the last segment if
\* there are more; "" for another key.  Nothing writes a key that is the prefix and a
\* bare suffix, where the code's substr throws.
RoomTopicFromKey(key) ==
    IF \E i \in 1..Len(key) : PrefixAt(key, i)
    THEN LET first == First(key) + 2
             last  == Len(key) - Suffix(key)
         IN  SubSeq(key, first, IF last > first THEN last - 1 ELSE last)
    ELSE EmptyString

\* The keys a prefix query for the room returns.
Scanned(topic, key) ==
    LET prefix == kMessagesKeyPrefix \o topic
    IN  Len(key) > Len(prefix) /\ SubSeq(key, 1, Len(prefix)) = prefix

-----------------------------------------------------------------------------
(* The crypto seam: an outcome is <<value>>, or <<>> for a failure.        *)

Failure == <<>>

DeriveRoomKey(topic) == <<"gcs-messages-v1", topic>>

\* A fresh nonce, and the plaintext sealed under the room's key.
EncryptPayload(topic, plaintext) ==
    {Failure} \cup
        {<<[nonce |-> n, key |-> DeriveRoomKey(topic), sealed |-> plaintext]>> : n \in Nonce}

\* GCM's tag only fits the key it was made with.
DecryptPayload(topic, envelope) ==
    {Failure} \cup
        (IF envelope.key = DeriveRoomKey(topic) THEN {<<envelope.sealed>>} ELSE {})

-----------------------------------------------------------------------------
(* The replay of a room.                                                   *)

Message == [id : Id, room : RoomTopic, sender : Sender, timestamp : 0..MaxTime]

\* The values SendMessage may put under the message's key, with the seam and without.
Payload(m, encrypted) ==
    IF encrypted THEN {outcome[1] : outcome \in EncryptPayload(m.room, m) \ {Failure}} ELSE {m}

\* A store all of whose records were put by SendMessage or, as received, by the
\* archive worker.
WellWritten(store, encrypted) ==
    \A entry \in store :
        \E m \in Message :
            /\ entry.key = BuildKey(m.room, m.id)
            /\ entry.value \in Payload(m, encrypted)

\* The plaintexts an entry may yield to the replay of the room: one that does not
\* decrypt is skipped.
Opened(topic, value, encrypted) ==
    IF encrypted THEN {outcome[1] : outcome \in DecryptPayload(topic, value) \ {Failure}} ELSE {value}

\* QueryHistory, when no OpenSSL call fails.
HistoryOf(topic, store, encrypted) ==
    UNION {Opened(topic, entry.value, encrypted) :
              entry \in {e \in store : Scanned(topic, e.key)}}

\* RoleFor.
RoleFor(m, sender) == IF m.sender = sender THEN "self" ELSE "peer"

\* The comparator of the sort: timestamps, and the id between equal ones (D-01).
Before(a, b) ==
    \/ a.timestamp < b.timestamp
    \/ a.timestamp = b.timestamp /\ <<a.id, b.id>> \in IdBefore
=============================================================================
