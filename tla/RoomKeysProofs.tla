--------------------------- MODULE RoomKeysProofs ---------------------------
(***************************************************************************)
(* Facts about topics, archive keys and replays, for every set of names,   *)
(* ids and messages.                                                       *)
(***************************************************************************)
EXTENDS RoomKeys, SequenceTheorems, TLAPS

LEMMA Names ==
    /\ {"gcs", "chat", "messages"} \subseteq Segment
    /\ Id \subseteq Segment
  BY KeyAssumption

LEMMA Pair ==
    ASSUME NEW x \in Segment, NEW y \in Segment
    PROVE  /\ <<x>> \in Seq(Segment) /\ Len(<<x>>) = 1 /\ <<x>>[1] = x
           /\ <<x, y>> \in Seq(Segment) /\ Len(<<x, y>>) = 2 /\ <<x, y>>[1] = x /\ <<x, y>>[2] = y
  OBVIOUS

LEMMA Constants ==
    /\ kRoomTopicNamespace \in Seq(Segment) /\ kMessagesKeyPrefix \in Seq(Segment)
    /\ \A x \in Segment : <<x>> \in Seq(Segment) /\ Len(<<x>>) = 1 /\ <<x>>[1] = x
    /\ Len(kRoomTopicNamespace) = 2 /\ Len(kMessagesKeyPrefix) = 2
    /\ kRoomTopicNamespace[1] = "gcs" /\ kRoomTopicNamespace[2] = "chat"
    /\ kMessagesKeyPrefix[1] = "gcs" /\ kMessagesKeyPrefix[2] = "messages"
    /\ Id \subseteq Segment
<1>1. "gcs" \in Segment /\ "chat" \in Segment /\ "messages" \in Segment
  BY Names
<1>2. /\ kRoomTopicNamespace \in Seq(Segment) /\ Len(kRoomTopicNamespace) = 2
      /\ kRoomTopicNamespace[1] = "gcs" /\ kRoomTopicNamespace[2] = "chat"
  BY <1>1, Pair DEF kRoomTopicNamespace
<1>3. /\ kMessagesKeyPrefix \in Seq(Segment) /\ Len(kMessagesKeyPrefix) = 2
      /\ kMessagesKeyPrefix[1] = "gcs" /\ kMessagesKeyPrefix[2] = "messages"
  BY <1>1, Pair DEF kMessagesKeyPrefix
<1> QED
  BY <1>2, <1>3, Pair, Names

\* The topic of a name, segment by segment.
LEMMA TopicOfName ==
    ASSUME NEW name \in Segment
    PROVE  LET topic == kRoomTopicNamespace \o <<name>>
           IN  /\ topic \in Seq(Segment) /\ Len(topic) = 3
               /\ topic[1] = "gcs" /\ topic[2] = "chat" /\ topic[3] = name
<1> DEFINE topic == kRoomTopicNamespace \o <<name>>
<1>1. <<name>> \in Seq(Segment) /\ kRoomTopicNamespace \in Seq(Segment)
  BY Constants
<1>2. /\ topic \in Seq(Segment) /\ Len(topic) = Len(kRoomTopicNamespace) + Len(<<name>>)
      /\ \A i \in 1..Len(kRoomTopicNamespace) + Len(<<name>>) :
            topic[i] = IF i <= Len(kRoomTopicNamespace) THEN kRoomTopicNamespace[i]
                       ELSE <<name>>[i - Len(kRoomTopicNamespace)]
  BY <1>1, ConcatProperties
<1>3. Len(kRoomTopicNamespace) = 2 /\ Len(<<name>>) = 1 /\ <<name>>[1] = name
  BY Constants
<1>4. topic[1] = kRoomTopicNamespace[1] /\ topic[2] = kRoomTopicNamespace[2] /\ topic[3] = <<name>>[1]
  <2> HIDE DEF topic
  <2> QED
    BY <1>2, <1>3
<1> QED
  BY <1>2, <1>3, <1>4, Constants

LEMMA TopicShape ==
    ASSUME NEW topic \in RoomTopic
    PROVE  /\ topic \in Seq(Segment) /\ Len(topic) = 3
           /\ topic[1] = "gcs" /\ topic[2] = "chat" /\ topic[3] \in Segment \ {""}
           /\ topic = kRoomTopicNamespace \o <<topic[3]>>
<1>1. PICK name \in Segment \ {""} : topic = kRoomTopicNamespace \o <<name>>
  BY DEF RoomTopic
<1>2. /\ topic \in Seq(Segment) /\ Len(topic) = 3
      /\ topic[1] = "gcs" /\ topic[2] = "chat" /\ topic[3] = name
  BY <1>1, TopicOfName
<1> QED
  BY <1>1, <1>2

\* A topic is its name.
LEMMA TopicByName ==
    ASSUME NEW topic \in RoomTopic, NEW other \in RoomTopic, topic[3] = other[3]
    PROVE  topic = other
<1>1. topic = kRoomTopicNamespace \o <<topic[3]>> /\ other = kRoomTopicNamespace \o <<other[3]>>
  BY TopicShape
<1> QED
  BY <1>1

\* The C ABI lets in the room topics and nothing else (WR-03).
THEOREM ShapeIsRoomTopic ==
    \A topic : IsValidRoomTopicShape(topic) <=> topic \in RoomTopic
<1> TAKE topic
<1>1. Len(kRoomTopicNamespace) = 2
  BY Constants
<1>2. kRoomTopicNamespace[1] = "gcs" /\ kRoomTopicNamespace[2] = "chat"
  BY Constants
<1>3. ASSUME IsValidRoomTopicShape(topic) PROVE topic \in RoomTopic
  <2>1. topic \in Seq(Segment)
    BY <1>3 DEF IsValidRoomTopicShape
  <2>2. Len(topic) = Len(kRoomTopicNamespace) + 1
    BY <1>3 DEF IsValidRoomTopicShape
  <2>3. Len(topic) = 3
    BY <1>1, <2>2
  <2>4. \A i \in 1..Len(kRoomTopicNamespace) : topic[i] = kRoomTopicNamespace[i]
    BY <1>3 DEF IsValidRoomTopicShape
  <2>5. 1 \in 1..Len(kRoomTopicNamespace) /\ 2 \in 1..Len(kRoomTopicNamespace)
    BY <1>1
  <2>6. topic[1] = "gcs" /\ topic[2] = "chat"
    BY <1>2, <2>4, <2>5
  <2>7. topic[3] # ""
    BY <1>3, <2>3 DEF IsValidRoomTopicShape
  <2>8. 3 \in 1..Len(topic)
    BY <2>3
  <2>9. topic[3] \in Segment
    BY <2>1, <2>8, ElementOfSeq
  <2> DEFINE twin == kRoomTopicNamespace \o <<topic[3]>>
  <2>10. /\ twin \in Seq(Segment) /\ Len(twin) = 3
         /\ twin[1] = "gcs" /\ twin[2] = "chat" /\ twin[3] = topic[3]
    BY <2>9, TopicOfName
  <2>11. topic = twin
    <3> HIDE DEF twin
    <3>1. Len(topic) = Len(twin)
      BY <2>3, <2>10
    <3>2. \A i \in 1..Len(topic) : i = 1 \/ i = 2 \/ i = 3
      BY <2>3
    <3>3. topic[1] = twin[1] /\ topic[2] = twin[2] /\ topic[3] = twin[3]
      BY <2>6, <2>10
    <3>4. \A i \in 1..Len(topic) : topic[i] = twin[i]
      BY <3>2, <3>3
    <3> QED
      BY <2>1, <2>10, <3>1, <3>4, SeqEqual
  <2> QED
    BY <2>7, <2>9, <2>11 DEF RoomTopic
<1>4. ASSUME topic \in RoomTopic PROVE IsValidRoomTopicShape(topic)
  <2>1. topic \in Seq(Segment) /\ Len(topic) = 3
    BY <1>4, TopicShape
  <2>2. topic[1] = "gcs" /\ topic[2] = "chat" /\ topic[3] # ""
    BY <1>4, TopicShape
  <2>3. Len(topic) = Len(kRoomTopicNamespace) + 1
    BY <1>1, <2>1
  <2>4. \A i \in 1..Len(kRoomTopicNamespace) : i = 1 \/ i = 2
    BY <1>1
  <2>5. \A i \in 1..Len(kRoomTopicNamespace) : topic[i] = kRoomTopicNamespace[i]
    BY <1>2, <2>2, <2>4
  <2> QED
    BY <2>1, <2>2, <2>3, <2>5 DEF IsValidRoomTopicShape
<1> QED
  BY <1>3, <1>4

\* The concatenation of two sequences of segments.
LEMMA Joined ==
    ASSUME NEW s \in Seq(Segment), NEW t \in Seq(Segment)
    PROVE  /\ s \o t \in Seq(Segment) /\ Len(s \o t) = Len(s) + Len(t)
           /\ \A i \in 1..Len(s) : (s \o t)[i] = s[i]
           /\ \A i \in 1..Len(t) : (s \o t)[Len(s) + i] = t[i]
<1>1. /\ s \o t \in Seq(Segment) /\ Len(s \o t) = Len(s) + Len(t)
      /\ \A i \in 1..Len(s) + Len(t) : (s \o t)[i] = IF i <= Len(s) THEN s[i] ELSE t[i - Len(s)]
  BY ConcatProperties
<1>2. Len(s) \in Nat /\ Len(t) \in Nat
  BY LenProperties
<1>3. ASSUME NEW i \in 1..Len(s) PROVE (s \o t)[i] = s[i]
  BY <1>1, <1>2
<1>4. ASSUME NEW i \in 1..Len(t) PROVE (s \o t)[Len(s) + i] = t[i]
  <2>1. Len(s) + i \in 1..Len(s) + Len(t) /\ ~(Len(s) + i <= Len(s)) /\ Len(s) + i - Len(s) = i
    BY <1>2
  <2> QED
    BY <1>1, <2>1
<1> QED
  BY <1>1, <1>3, <1>4

\* The key of a message, segment by segment.
LEMMA KeyShape ==
    ASSUME NEW topic \in RoomTopic, NEW id \in Id
    PROVE  LET key == BuildKey(topic, id)
           IN  /\ key \in Seq(Segment) /\ Len(key) = 6
               /\ key[1] = "gcs" /\ key[2] = "messages" /\ key[3] = "gcs" /\ key[4] = "chat"
               /\ key[5] = topic[3] /\ key[6] = id
<1> DEFINE front == kMessagesKeyPrefix \o topic
           key == front \o <<id>>
<1>1. topic \in Seq(Segment) /\ Len(topic) = 3
  BY TopicShape
<1>2. <<id>> \in Seq(Segment) /\ Len(<<id>>) = 1
  BY Constants
<1>3. kMessagesKeyPrefix \in Seq(Segment) /\ Len(kMessagesKeyPrefix) = 2
  BY Constants
<1>4. /\ front \in Seq(Segment) /\ Len(front) = Len(kMessagesKeyPrefix) + Len(topic)
      /\ \A i \in 1..Len(kMessagesKeyPrefix) : front[i] = kMessagesKeyPrefix[i]
      /\ \A i \in 1..Len(topic) : front[Len(kMessagesKeyPrefix) + i] = topic[i]
  BY <1>1, <1>3, Joined
<1> HIDE DEF front
<1>5. front \in Seq(Segment) /\ Len(front) = 5
  BY <1>1, <1>3, <1>4
<1>6. /\ front[1] = kMessagesKeyPrefix[1] /\ front[2] = kMessagesKeyPrefix[2]
      /\ front[3] = topic[1] /\ front[4] = topic[2] /\ front[5] = topic[3]
  BY <1>1, <1>3, <1>4
<1>7. /\ key \in Seq(Segment) /\ Len(key) = Len(front) + Len(<<id>>)
      /\ \A i \in 1..Len(front) : key[i] = front[i]
      /\ \A i \in 1..Len(<<id>>) : key[Len(front) + i] = <<id>>[i]
  BY <1>2, <1>5, Joined
<1> HIDE DEF key
<1>8. Len(key) = 6
  BY <1>2, <1>5, <1>7
<1>9. /\ key[1] = front[1] /\ key[2] = front[2] /\ key[3] = front[3] /\ key[4] = front[4]
      /\ key[5] = front[5] /\ key[6] = <<id>>[1]
  BY <1>2, <1>5, <1>7
<1>10. /\ kMessagesKeyPrefix[1] = "gcs" /\ kMessagesKeyPrefix[2] = "messages"
       /\ topic[1] = "gcs" /\ topic[2] = "chat" /\ <<id>>[1] = id
  BY Constants, TopicShape
<1>11. BuildKey(topic, id) = key
  BY DEF BuildKey, key, front
<1> QED
  BY <1>6, <1>7, <1>8, <1>9, <1>10, <1>11

\* A key that holds an archive key after d segments, none of which begins the prefix.
LEMMA FramedTopic ==
    ASSUME NEW topic \in RoomTopic, NEW d \in Nat, NEW framed \in Seq(Segment),
           Len(framed) >= d + 6,
           framed[d + 1] = "gcs", framed[d + 2] = "messages", framed[d + 3] = "gcs",
           framed[d + 4] = "chat", framed[d + 5] = topic[3],
           \A j \in 1..d : ~PrefixAt(framed, j),
           Len(framed) - Suffix(framed) = d + 6
    PROVE  RoomTopicFromKey(framed) = topic
<1>1. Len(kMessagesKeyPrefix) = 2
  BY Constants
<1>2. Len(framed) \in Nat
  BY LenProperties
<1>3. d + 1 \in 1..Len(framed) /\ d + 1 + Len(kMessagesKeyPrefix) <= Len(framed)
  BY <1>1, <1>2
<1>4. (d + 1) + 1 = d + 2
  OBVIOUS
<1>5. PrefixAt(framed, d + 1)
  BY <1>3, <1>4 DEF PrefixAt
<1>6. \A j \in 1..((d + 1) - 1) : ~PrefixAt(framed, j)
  <2>1. (d + 1) - 1 = d
    OBVIOUS
  <2> QED
    BY <2>1
<1>7. First(framed) = d + 1
  <2> DEFINE Begins(i) == PrefixAt(framed, i) /\ \A j \in 1..(i - 1) : ~PrefixAt(framed, j)
  <2>1. Begins(d + 1)
    BY <1>5, <1>6
  <2>2. \A i \in 1..Len(framed) : Begins(i) => i = d + 1
    <3> SUFFICES ASSUME NEW i \in 1..Len(framed), Begins(i) PROVE i = d + 1
      OBVIOUS
    <3>1. ~(i < d + 1)
      <4>1. i < d + 1 => i \in 1..d
        BY <1>2
      <4> QED
        BY <4>1
    <3>2. ~(i > d + 1)
      <4>1. i > d + 1 => d + 1 \in 1..(i - 1)
        BY <1>2
      <4> QED
        BY <1>5, <4>1
    <3> QED
      BY <1>2, <3>1, <3>2
  <2>3. First(framed) = CHOOSE i \in 1..Len(framed) : Begins(i)
    BY DEF First
  <2> HIDE DEF Begins
  <2> QED
    BY <1>3, <2>1, <2>2, <2>3
<1>8. RoomTopicFromKey(framed) = SubSeq(framed, d + 3, d + 5)
  <2>1. (d + 1) + 2 = d + 3
    OBVIOUS
  <2>2. \E i \in 1..Len(framed) : PrefixAt(framed, i)
    BY <1>3, <1>5
  <2>3. (d + 6) - 1 = d + 5 /\ d + 6 > d + 3
    OBVIOUS
  <2>4. First(framed) + 2 = d + 3
    BY <1>7, <2>1
  <2> QED
    BY <2>2, <2>3, <2>4 DEF RoomTopicFromKey
<1> DEFINE found == SubSeq(framed, d + 3, d + 5)
<1>9. \A i \in (d + 3)..(d + 5) : framed[i] \in Segment
  <2>1. \A i \in (d + 3)..(d + 5) : i \in 1..Len(framed)
    BY <1>2
  <2> QED
    BY <2>1, ElementOfSeq
<1>10. d + 3 \in Int /\ d + 5 \in Int /\ (d + 5) - (d + 3) + 1 = 3 /\ d + 3 <= d + 5
  OBVIOUS
<1>11. found \in Seq(Segment) /\ Len(found) = 3
       /\ \A i \in 1..3 : found[i] = framed[(d + 3) + i - 1]
  <2>1. /\ found \in Seq(Segment)
        /\ Len(found) = IF d + 3 <= d + 5 THEN (d + 5) - (d + 3) + 1 ELSE 0
        /\ \A i \in 1..((d + 5) - (d + 3) + 1) : found[i] = framed[(d + 3) + i - 1]
    BY <1>9, <1>10, SubSeqProperties
  <2> QED
    BY <1>10, <2>1
<1> HIDE DEF found
<1>12. found[1] = framed[d + 3] /\ found[2] = framed[d + 4] /\ found[3] = framed[d + 5]
  <2>1. (d + 3) + 1 - 1 = d + 3 /\ (d + 3) + 2 - 1 = d + 4 /\ (d + 3) + 3 - 1 = d + 5
    OBVIOUS
  <2>2. found[1] = framed[(d + 3) + 1 - 1] /\ found[2] = framed[(d + 3) + 2 - 1]
        /\ found[3] = framed[(d + 3) + 3 - 1]
    BY <1>11
  <2> QED
    BY <2>1, <2>2
<1>13. topic \in Seq(Segment) /\ Len(topic) = 3
  BY TopicShape
<1>14. found[1] = topic[1] /\ found[2] = topic[2] /\ found[3] = topic[3]
  BY <1>12, TopicShape
<1>15. found = topic
  <2>1. \A i \in 1..Len(found) : i = 1 \/ i = 2 \/ i = 3
    BY <1>11
  <2>2. \A i \in 1..Len(found) : found[i] = topic[i]
    BY <1>14, <2>1
  <2>3. Len(found) = Len(topic)
    BY <1>11, <1>13
  <2> QED
    BY <1>11, <1>13, <2>2, <2>3, SeqEqual
<1> QED
  BY <1>8, <1>15 DEF found

\* The topic is read back from a key with other segments before and a suffix after it.
LEMMA Framed ==
    ASSUME NEW topic \in RoomTopic, NEW id \in Id,
           NEW before \in Seq(Segment), NEW after \in Seq(Segment), Len(after) \in 0..1,
           \A i \in 1..Len(before) : before[i] # "gcs",
           \A i \in 1..Len(after) : after[i] \in {"v", "p"}
    PROVE  RoomTopicFromKey((before \o BuildKey(topic, id)) \o after) = topic
<1> DEFINE key == BuildKey(topic, id)
           front == before \o key
           framed == front \o after
           d == Len(before)
<1>1. key \in Seq(Segment) /\ Len(key) = 6
  BY KeyShape
<1>2. /\ key[1] = "gcs" /\ key[2] = "messages" /\ key[3] = "gcs" /\ key[4] = "chat"
      /\ key[5] = topic[3] /\ key[6] = id
  BY KeyShape
<1>3. d \in Nat /\ Len(after) \in Nat
  BY LenProperties
<1> HIDE DEF key
<1>4. /\ front \in Seq(Segment) /\ Len(front) = d + Len(key)
      /\ \A i \in 1..d : front[i] = before[i]
      /\ \A i \in 1..Len(key) : front[d + i] = key[i]
  <2>1. /\ front \in Seq(Segment) /\ Len(front) = Len(before) + Len(key)
        /\ \A i \in 1..Len(before) : front[i] = before[i]
        /\ \A i \in 1..Len(key) : front[Len(before) + i] = key[i]
    BY <1>1, Joined
  <2> HIDE DEF front
  <2> QED
    BY <1>3, <2>1
<1> HIDE DEF front
<1>5. Len(front) = d + 6 /\ \A i \in 1..6 : front[d + i] = key[i]
  BY <1>1, <1>4
<1>6. /\ framed \in Seq(Segment) /\ Len(framed) = Len(front) + Len(after)
      /\ \A i \in 1..Len(front) : framed[i] = front[i]
      /\ \A i \in 1..Len(after) : framed[Len(front) + i] = after[i]
  BY <1>4, Joined
<1> HIDE DEF framed
<1>7. Len(framed) = d + 6 + Len(after)
      /\ \A i \in 1..Len(after) : framed[d + 6 + i] = after[i]
  BY <1>5, <1>6
<1>8. \A i \in 1..d : framed[i] = before[i]
  <2>1. \A i \in 1..d : i \in 1..Len(front)
    BY <1>3, <1>5
  <2> QED
    BY <1>4, <1>6, <2>1
<1>9. \A i \in 1..6 : framed[d + i] = key[i]
  <2>1. \A i \in 1..6 : d + i \in 1..Len(front)
    BY <1>3, <1>5
  <2> QED
    BY <1>5, <1>6, <2>1
<1>10. /\ framed[d + 1] = key[1] /\ framed[d + 2] = key[2] /\ framed[d + 3] = key[3]
       /\ framed[d + 4] = key[4] /\ framed[d + 5] = key[5] /\ framed[d + 6] = key[6]
  BY <1>9
<1>11. (before \o BuildKey(topic, id)) \o after = framed
  BY DEF framed, front, key
<1>12. id \notin {"v", "p"}
  BY KeyAssumption
<1> HIDE DEF d
<1>13. \A j \in 1..d : ~PrefixAt(framed, j)
  BY <1>8 DEF PrefixAt, d
<1>14. framed[d + 1] = "gcs" /\ framed[d + 2] = "messages" /\ framed[d + 3] = "gcs"
       /\ framed[d + 4] = "chat" /\ framed[d + 5] = topic[3] /\ framed[d + 6] = id
  BY <1>2, <1>10
<1>15. Len(framed) >= d + 6 /\ Len(framed) - Suffix(framed) = d + 6
  <2>1. CASE Len(after) = 0
    <3>1. Len(framed) = d + 6
      BY <1>3, <1>7, <2>1
    <3>2. Suffix(framed) = 0
      BY <1>12, <1>14, <3>1 DEF Suffix
    <3> QED
      BY <1>3, <3>1, <3>2
  <2>2. CASE Len(after) = 1
    <3>1. Len(framed) = d + 6 + 1 /\ 1 \in 1..Len(after)
      BY <1>3, <1>7, <2>2
    <3>2. framed[d + 6 + 1] \in {"v", "p"}
      BY <1>7, <3>1
    <3>3. Suffix(framed) = 1
      BY <3>1, <3>2 DEF Suffix
    <3> QED
      BY <1>3, <3>1, <3>3
  <2>3. Len(after) = 0 \/ Len(after) = 1
    OBVIOUS
  <2> QED
    BY <2>1, <2>2, <2>3
<1>16. RoomTopicFromKey(framed) = topic
  BY <1>3, <1>6, <1>13, <1>14, <1>15, FramedTopic
<1> QED
  BY <1>11, <1>16

\* Whatever form the store hands an archive key back in, the topic that is read from
\* it is the one it was built with: the receive path decrypts with the right room's
\* key, for any topic the C ABI lets in and any id that is minted.
THEOREM RoundTrip ==
    \A topic \in RoomTopic, id \in Id :
        \A form \in StoreForms(BuildKey(topic, id)) : RoomTopicFromKey(form) = topic
<1> SUFFICES ASSUME NEW topic \in RoomTopic, NEW id \in Id,
                    NEW form \in StoreForms(BuildKey(topic, id))
             PROVE  RoomTopicFromKey(form) = topic
  OBVIOUS
<1> DEFINE key == BuildKey(topic, id)
<1>1. key \in Seq(Segment)
  BY KeyShape
<1>2. id \notin {"v", "p"} /\ "" \in Segment /\ "crdt" \in Segment /\ "k" \in Segment
      /\ "v" \in Segment /\ "p" \in Segment
  BY KeyAssumption
<1>3. <<>> \in Seq(Segment) /\ Len(<<>>) = 0
  BY EmptySeq
<1>4. <<"">> \in Seq(Segment) /\ Len(<<"">>) = 1 /\ <<"">>[1] = ""
  BY <1>2, Pair
<1>5. CASE form = key
  <2>1. form = (<<>> \o key) \o <<>>
    BY <1>1, <1>3, <1>5, ConcatEmptySeq
  <2>2. /\ form \in Seq(Segment) /\ Len(form) = 6
        /\ form[1] = "gcs" /\ form[2] = "messages" /\ form[3] = "gcs" /\ form[4] = "chat"
        /\ form[5] = topic[3] /\ form[6] = id
    BY <1>5, KeyShape
  <2>3. Suffix(form) = 0
    BY <1>2, <2>2 DEF Suffix
  <2> HIDE DEF key
  <2>4. Len(form) >= 0 + 6 /\ Len(form) - Suffix(form) = 0 + 6
    BY <2>2, <2>3
  <2>5. 0 + 1 = 1 /\ 0 + 2 = 2 /\ 0 + 3 = 3 /\ 0 + 4 = 4 /\ 0 + 5 = 5 /\ 0 \in Nat
        /\ \A j \in 1..0 : ~PrefixAt(form, j)
    OBVIOUS
  <2> QED
    BY <2>2, <2>4, <2>5, FramedTopic
<1>6. CASE form = <<"">> \o key
  <2> DEFINE before == <<"">>
             after == <<>>
  <2>1. form = (before \o key) \o after
    BY <1>1, <1>4, <1>6, Joined, ConcatEmptySeq
  <2>2. before \in Seq(Segment) /\ after \in Seq(Segment) /\ Len(after) = 0
    BY <1>3, <1>4
  <2>3. Len(before) = 1
    BY <1>4
  <2>4. before[1] = ""
    BY <1>4
  <2> HIDE DEF before, after
  <2>a. \A i \in 1..Len(before) : i = 1
    BY <2>3
  <2>5. \A i \in 1..Len(before) : before[i] # "gcs"
    BY <2>4, <2>a
  <2>6. Len(after) \in 0..1 /\ \A i \in 1..Len(after) : after[i] \in {"v", "p"}
    BY <2>2
  <2>7. RoomTopicFromKey((before \o key) \o after) = topic
    BY <2>2, <2>5, <2>6, Framed
  <2> QED
    BY <2>1, <2>7
<1>7. ASSUME NEW suffix \in {"v", "p"}, form = <<"", "crdt", "k">> \o key \o <<suffix>>
      PROVE  RoomTopicFromKey(form) = topic
  <2> DEFINE before == <<"", "crdt", "k">>
             after == <<suffix>>
  <2>1. before \in Seq(Segment)
    <3>1. ASSUME NEW x \in Segment, NEW y \in Segment, NEW z \in Segment
          PROVE  <<x, y, z>> \in Seq(Segment)
      OBVIOUS
    <3> QED
      BY <1>2, <3>1
  <2>2. Len(before) = 3
    OBVIOUS
  <2>3. before[1] = "" /\ before[2] = "crdt" /\ before[3] = "k"
    OBVIOUS
  <2>4. after \in Seq(Segment) /\ Len(after) = 1
    BY <1>2, Pair
  <2>5. after[1] = suffix
    OBVIOUS
  <2>6. form = (before \o key) \o after
    BY <1>7
  <2> HIDE DEF before, after
  <2>7. (\A i \in 1..Len(before) : i = 1 \/ i = 2 \/ i = 3) /\ (\A i \in 1..Len(after) : i = 1)
    BY <2>2, <2>4
  <2>8. \A i \in 1..Len(before) : before[i] # "gcs"
    BY <2>3, <2>7
  <2>9. \A i \in 1..Len(after) : after[i] \in {"v", "p"}
    BY <2>5, <2>7
  <2>10. Len(after) \in 0..1
    BY <2>4
  <2>11. RoomTopicFromKey((before \o key) \o after) = topic
    BY <2>1, <2>4, <2>8, <2>9, <2>10, Framed
  <2> QED
    BY <2>6, <2>11
<1>8. \/ form = key
      \/ form = <<"">> \o key
      \/ \E suffix \in {"v", "p"} : form = <<"", "crdt", "k">> \o key \o <<suffix>>
  BY DEF StoreForms
<1> QED
  BY <1>5, <1>6, <1>7, <1>8

\* Two messages share an archive key only if they share room and id: no message
\* overwrites one of another room.
THEOREM KeysApart ==
    \A topic, other \in RoomTopic, id, otherId \in Id :
        BuildKey(topic, id) = BuildKey(other, otherId) => topic = other /\ id = otherId
<1> SUFFICES ASSUME NEW topic \in RoomTopic, NEW other \in RoomTopic,
                    NEW id \in Id, NEW otherId \in Id,
                    BuildKey(topic, id) = BuildKey(other, otherId)
             PROVE  topic = other /\ id = otherId
  OBVIOUS
<1>1. BuildKey(topic, id)[5] = topic[3] /\ BuildKey(topic, id)[6] = id
  BY KeyShape
<1>2. BuildKey(other, otherId)[5] = other[3] /\ BuildKey(other, otherId)[6] = otherId
  BY KeyShape
<1> QED
  BY <1>1, <1>2, TopicByName

\* The prefix scan of a replay returns the records of the room and of no other one,
\* which is what the shape check is there for (WR-03).
THEOREM ScanApart ==
    \A topic, other \in RoomTopic, id \in Id :
        Scanned(topic, BuildKey(other, id)) <=> topic = other
<1> SUFFICES ASSUME NEW topic \in RoomTopic, NEW other \in RoomTopic, NEW id \in Id
             PROVE  Scanned(topic, BuildKey(other, id)) <=> topic = other
  OBVIOUS
<1> DEFINE key == BuildKey(other, id)
           prefix == kMessagesKeyPrefix \o topic
           found == SubSeq(key, 1, Len(prefix))
<1>1. key \in Seq(Segment) /\ Len(key) = 6
  BY KeyShape
<1>2. /\ key[1] = "gcs" /\ key[2] = "messages" /\ key[3] = "gcs" /\ key[4] = "chat"
      /\ key[5] = other[3]
  BY KeyShape
<1>3. topic \in Seq(Segment) /\ Len(topic) = 3
  BY TopicShape
<1>4. kMessagesKeyPrefix \in Seq(Segment) /\ Len(kMessagesKeyPrefix) = 2
  BY Constants
<1>5. /\ kMessagesKeyPrefix[1] = "gcs" /\ kMessagesKeyPrefix[2] = "messages"
      /\ topic[1] = "gcs" /\ topic[2] = "chat"
  BY Constants, TopicShape
<1>6. /\ prefix \in Seq(Segment) /\ Len(prefix) = Len(kMessagesKeyPrefix) + Len(topic)
      /\ \A i \in 1..Len(kMessagesKeyPrefix) : prefix[i] = kMessagesKeyPrefix[i]
      /\ \A i \in 1..Len(topic) : prefix[Len(kMessagesKeyPrefix) + i] = topic[i]
  BY <1>3, <1>4, Joined
<1>7. Scanned(topic, BuildKey(other, id)) <=> Len(key) > Len(prefix) /\ found = prefix
  BY DEF Scanned
<1> HIDE DEF key, prefix
<1>8. Len(prefix) = 5
  BY <1>3, <1>4, <1>6
<1>9. /\ prefix[1] = kMessagesKeyPrefix[1] /\ prefix[2] = kMessagesKeyPrefix[2]
      /\ prefix[3] = topic[1] /\ prefix[4] = topic[2] /\ prefix[5] = topic[3]
  BY <1>3, <1>4, <1>6
<1>10. found \in Seq(Segment) /\ Len(found) = 5 /\ \A i \in 1..5 : found[i] = key[i]
  <2>1. \A i \in 1..5 : i \in 1..Len(key)
    BY <1>1
  <2>2. \A i \in 1..5 : key[i] \in Segment
    BY <1>1, <2>1, ElementOfSeq
  <2>3. /\ SubSeq(key, 1, 5) \in Seq(Segment)
        /\ Len(SubSeq(key, 1, 5)) = IF 1 <= 5 THEN 5 - 1 + 1 ELSE 0
        /\ \A i \in 1..(5 - 1 + 1) : SubSeq(key, 1, 5)[i] = key[1 + i - 1]
    BY <2>2, SubSeqProperties
  <2>4. \A i \in 1..5 : SubSeq(key, 1, 5)[i] = key[i]
    <3> SUFFICES ASSUME NEW i \in 1..5 PROVE SubSeq(key, 1, 5)[i] = key[i]
      OBVIOUS
    <3>1. i \in 1..(5 - 1 + 1) /\ 1 + i - 1 = i
      OBVIOUS
    <3> QED
      BY <2>3, <3>1
  <2> QED
    BY <1>8, <2>3, <2>4
<1> HIDE DEF found
<1>11. found[1] = key[1] /\ found[2] = key[2] /\ found[3] = key[3] /\ found[4] = key[4]
       /\ found[5] = key[5]
  BY <1>10
<1>12. ASSUME found = prefix PROVE topic = other
  <2>1. topic[3] = other[3]
    BY <1>2, <1>9, <1>11, <1>12
  <2> QED
    BY <2>1, TopicByName
<1>13. ASSUME topic = other PROVE Len(key) > Len(prefix) /\ found = prefix
  <2>1. Len(key) > Len(prefix)
    BY <1>1, <1>8
  <2>2. /\ found[1] = prefix[1] /\ found[2] = prefix[2] /\ found[3] = prefix[3]
        /\ found[4] = prefix[4] /\ found[5] = prefix[5]
    BY <1>2, <1>5, <1>9, <1>11, <1>13
  <2>3. \A i \in 1..Len(found) : i = 1 \/ i = 2 \/ i = 3 \/ i = 4 \/ i = 5
    BY <1>10
  <2>4. \A i \in 1..Len(found) : found[i] = prefix[i]
    BY <2>2, <2>3
  <2>5. Len(found) = Len(prefix)
    BY <1>8, <1>10
  <2> QED
    BY <1>6, <1>10, <2>1, <2>4, <2>5, SeqEqual
<1> QED
  BY <1>7, <1>12, <1>13

\* An envelope opens with its own room's key, and with no other room's (D-08).
LEMMA OpensInItsRoom ==
    \A topic, other : \A m : \A outcome \in EncryptPayload(other, m) \ {Failure} :
        DecryptPayload(topic, outcome[1]) \ {Failure} = IF topic = other THEN {<<m>>} ELSE {}
<1> SUFFICES ASSUME NEW topic, NEW other, NEW m,
                    NEW outcome \in EncryptPayload(other, m) \ {Failure}
             PROVE  DecryptPayload(topic, outcome[1]) \ {Failure} =
                        IF topic = other THEN {<<m>>} ELSE {}
  OBVIOUS
<1>1. PICK n \in Nonce :
          outcome = <<[nonce |-> n, key |-> DeriveRoomKey(other), sealed |-> m]>>
  BY DEF EncryptPayload
<1> DEFINE envelope == outcome[1]
<1>2. envelope.key = DeriveRoomKey(other) /\ envelope.sealed = m
  BY <1>1
<1>3. DeriveRoomKey(topic) = DeriveRoomKey(other) <=> topic = other
  BY DEF DeriveRoomKey
<1>4. <<m>> # Failure
  BY DEF Failure
<1> HIDE DEF envelope
<1>5. DecryptPayload(topic, envelope) =
          {Failure} \cup (IF topic = other THEN {<<m>>} ELSE {})
  BY <1>2, <1>3 DEF DecryptPayload
<1>6. DecryptPayload(topic, envelope) \ {Failure} = IF topic = other THEN {<<m>>} ELSE {}
  BY <1>4, <1>5
<1> QED
  BY <1>6 DEF envelope

\* The replay's order is total on messages that share no id, and a strict order on all,
\* which std::sort depends on (D-01).
THEOREM ReplayOrder ==
    /\ \A a \in Message : ~Before(a, a)
    /\ \A a, b, c \in Message : Before(a, b) /\ Before(b, c) => Before(a, c)
    /\ \A a, b \in Message : a.id # b.id => (Before(a, b) <=> ~Before(b, a))
<1>1. \A a \in Message : a.id \in Id /\ a.timestamp \in Nat
  <2>1. \A a \in Message : a.id \in Id /\ a.timestamp \in 0..MaxTime
    BY DEF Message
  <2>2. 0..MaxTime \subseteq Nat
    OBVIOUS
  <2> QED
    BY <2>1, <2>2
<1>2. \A a \in Message : ~Before(a, a)
  BY <1>1, IdOrderAssumption DEF Before
<1>3. ASSUME NEW a \in Message, NEW b \in Message, NEW c \in Message, Before(a, b), Before(b, c)
      PROVE  Before(a, c)
  BY <1>1, <1>3, IdOrderAssumption DEF Before
<1>4. ASSUME NEW a \in Message, NEW b \in Message, a.id # b.id
      PROVE  Before(a, b) <=> ~Before(b, a)
  BY <1>1, <1>4, IdOrderAssumption DEF Before
<1> QED
  BY <1>2, <1>3, <1>4

\* A store filled by sends and by the archiving of what was received yields, to the
\* replay of a room, the messages of that room that were archived, all of them and
\* nothing else, encrypted or not.
THEOREM ReplayIsTheRooms ==
    \A encrypted \in BOOLEAN, topic \in RoomTopic : \A store : WellWritten(store, encrypted) =>
        HistoryOf(topic, store, encrypted) =
            {m \in Message : /\ m.room = topic
                             /\ \E entry \in store : /\ entry.key = BuildKey(m.room, m.id)
                                                     /\ entry.value \in Payload(m, encrypted)}
<1> SUFFICES ASSUME NEW encrypted \in BOOLEAN, NEW topic \in RoomTopic, NEW store,
                    WellWritten(store, encrypted)
             PROVE  HistoryOf(topic, store, encrypted) =
                        {m \in Message :
                            /\ m.room = topic
                            /\ \E entry \in store : /\ entry.key = BuildKey(m.room, m.id)
                                                    /\ entry.value \in Payload(m, encrypted)}
  OBVIOUS
<1> DEFINE IsOf(m, entry) == /\ entry.key = BuildKey(m.room, m.id)
                             /\ entry.value \in Payload(m, encrypted)
<1>1. \A m \in Message : m.room \in RoomTopic /\ m.id \in Id
  BY DEF Message
<1>2. ASSUME NEW m \in Message, NEW entry, IsOf(m, entry)
      PROVE  /\ Scanned(topic, entry.key) <=> m.room = topic
             /\ m.room = topic => Opened(topic, entry.value, encrypted) = {m}
  <2>1. Scanned(topic, entry.key) <=> m.room = topic
    BY <1>1, <1>2, ScanApart
  <2>2. CASE encrypted
    <3>1. PICK outcome \in EncryptPayload(m.room, m) \ {Failure} : entry.value = outcome[1]
      BY <1>2, <2>2 DEF Payload
    <3>2. m.room = topic => DecryptPayload(topic, entry.value) \ {Failure} = {<<m>>}
      BY <3>1, OpensInItsRoom
    <3>3. {o[1] : o \in {<<m>>}} = {m}
      OBVIOUS
    <3>4. m.room = topic => Opened(topic, entry.value, encrypted) = {m}
      BY <2>2, <3>2, <3>3 DEF Opened
    <3> QED
      BY <2>1, <3>4
  <2>3. CASE ~encrypted
    BY <1>2, <2>1, <2>3 DEF Payload, Opened
  <2> QED
    BY <2>2, <2>3
<1>3. \A entry \in store : \E m \in Message : IsOf(m, entry)
  BY DEF WellWritten
<1> HIDE DEF IsOf
<1>4. ASSUME NEW m \in HistoryOf(topic, store, encrypted)
      PROVE  m \in Message /\ m.room = topic /\ \E entry \in store : IsOf(m, entry)
  <2>1. PICK entry \in store :
            Scanned(topic, entry.key) /\ m \in Opened(topic, entry.value, encrypted)
    BY <1>4 DEF HistoryOf
  <2>2. PICK n \in Message : IsOf(n, entry)
    BY <1>3
  <2>3. n.room = topic /\ m = n
    BY <1>2, <2>1, <2>2
  <2> QED
    BY <2>2, <2>3
<1>5. ASSUME NEW m \in Message, m.room = topic, NEW entry \in store, IsOf(m, entry)
      PROVE  m \in HistoryOf(topic, store, encrypted)
  <2>1. Scanned(topic, entry.key) /\ Opened(topic, entry.value, encrypted) = {m}
    BY <1>2, <1>5
  <2> QED
    BY <2>1 DEF HistoryOf
<1>6. HistoryOf(topic, store, encrypted) =
          {m \in Message : m.room = topic /\ \E entry \in store : IsOf(m, entry)}
  BY <1>4, <1>5
<1> QED
  BY <1>6 DEF IsOf
=============================================================================
