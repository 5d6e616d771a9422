------------------------------ MODULE MqttMsg ------------------------------
(***************************************************************************)
(* The packets of MQTT 3.1.1, as the client lays them out in its buffers    *)
(* and reads them back. A packet is abstracted to what the code computes:   *)
(* the fields of its first byte, the bytes of its remaining length, and the *)
(* places and lengths of the rest. Places count from 0, as in the code.     *)
(***************************************************************************)
EXTENDS Integers, TLAPS

MQTT_MAX_FIXED_HEADER_SIZE == 5

\* The largest remaining length that four bytes can say.
MaxRemaining == 268435455

\* 128^j, the weight of byte j of a remaining length.
Weight(j) ==
    IF j = 0 THEN 1 ELSE IF j = 1 THEN 128 ELSE IF j = 2 THEN 16384
    ELSE IF j = 3 THEN 2097152 ELSE 268435456

LenBytes(n) ==
    IF n < Weight(1) THEN 1 ELSE IF n < Weight(2) THEN 2 ELSE IF n < Weight(3) THEN 3 ELSE 4

\* fini_message: seven bits to a byte, the lowest first, a bit set if more follow.
EncodedLength(n) ==
    [j \in 0 .. LenBytes(n) - 1 |->
        ((n \div Weight(j)) % 128) + (IF n >= Weight(j + 1) THEN 128 ELSE 0)]

Ends(bytes, j) == bytes[j] < 128 /\ \A i \in 0 .. j - 1 : bytes[i] >= 128

\* mqtt_get_total_length: the packet's length, and that of its fixed header.
FixedSize(bytes) == 2 + CHOOSE j \in 0 .. 3 : Ends(bytes, j)

TotalLength(bytes) ==
    LET Part(i) == IF i + 2 <= FixedSize(bytes) THEN (bytes[i] % 128) * Weight(i) ELSE 0
    IN  Part(0) + Part(1) + Part(2) + Part(3) + FixedSize(bytes)
-----------------------------------------------------------------------------
(* The first byte. *)

Types == {"CONNECT", "CONNACK", "PUBLISH", "PUBACK", "PUBREC", "PUBREL", "PUBCOMP",
          "SUBSCRIBE", "SUBACK", "UNSUBSCRIBE", "UNSUBACK", "PINGREQ", "PINGRESP",
          "DISCONNECT"}

FirstByte(type, dup, qos, retain) ==
    [type |-> type, dup |-> dup, qos |-> qos, retain |-> retain]

\* mqtt_has_valid_msg_hdr.
ValidHeader(b) ==
    \/ b.type = "PUBLISH" /\ b.qos < 3 /\ (b.qos > 0 \/ b.dup = 0)
    \/ b.type \in {"PUBREL", "SUBSCRIBE", "UNSUBSCRIBE"}
       /\ b.dup = 0 /\ b.qos = 1 /\ b.retain = 0
    \/ b.type \in Types \ {"PUBLISH", "PUBREL", "SUBSCRIBE", "UNSUBSCRIBE"}
       /\ b.dup = 0 /\ b.qos = 0 /\ b.retain = 0

\* What the functions mqtt_msg_... pass to fini_message.
PublishByte(qos, retain) == FirstByte("PUBLISH", 0, qos, retain)
RequestByte(type) == FirstByte(type, 0, 1, 0)
OtherByte(type) == FirstByte(type, 0, 0, 0)

\* mqtt_resend_queued: a PUBLISH that has been transmitted is marked a duplicate.
Duplicate(b) == IF b.qos > 0 THEN FirstByte(b.type, 1, b.qos, b.retain) ELSE b
-----------------------------------------------------------------------------
(* PUBLISH: topic and payload of given lengths, laid out after the room left for *)
(* the longest fixed header.                                                     *)

IdSize(qos) == IF qos > 0 THEN 2 ELSE 0

\* What comes before the payload, without the fixed header.
VariableHeader(topic, qos) == 2 + topic + IdSize(qos)

Remaining(topic, qos, len) == VariableHeader(topic, qos) + len

\* mqtt_msg_publish makes a packet at all.
Fits(topic, qos, buffer) ==
    topic > 0 /\ MQTT_MAX_FIXED_HEADER_SIZE + VariableHeader(topic, qos) <= buffer

\* fini_message moves the start of a packet to where its shorter fixed header begins;
\* what that makes of outbound_message.length.
Offs(topic, qos, len) == MQTT_MAX_FIXED_HEADER_SIZE - 1 - LenBytes(Remaining(topic, qos, len))

Fragmented(topic, qos, len, buffer) ==
    MQTT_MAX_FIXED_HEADER_SIZE + Remaining(topic, qos, len) > buffer

OutboundLength(topic, qos, len, buffer) ==
    (IF Fragmented(topic, qos, len, buffer) THEN buffer
     ELSE MQTT_MAX_FIXED_HEADER_SIZE + Remaining(topic, qos, len)) - Offs(topic, qos, len)

\* And of .fragmented_msg_data_offset, which was before: every message takes its own
\* shift from it, but only a fragmented publish sets it.
DataOffset(topic, qos, len, buffer, before) ==
    (IF Fragmented(topic, qos, len, buffer)
     THEN MQTT_MAX_FIXED_HEADER_SIZE + VariableHeader(topic, qos)
     ELSE before) - Offs(topic, qos, len)

\* esp_mqtt_client_publish: what the first write counts as payload, after which the
\* offset is 0, and what a later one takes with so much left.
FirstData(topic, qos, len, buffer, before) ==
    OutboundLength(topic, qos, len, buffer) - DataOffset(topic, qos, len, buffer, before)

NextData(left, buffer) == IF left > buffer THEN buffer ELSE left
-----------------------------------------------------------------------------
(* The same packet in the receiver's buffer, of which have bytes are there. *)

Packet(topic, qos, len) ==
    [fixed |-> 1 + LenBytes(Remaining(topic, qos, len)), topic |-> topic, qos |-> qos,
     total |-> 1 + LenBytes(Remaining(topic, qos, len)) + Remaining(topic, qos, len)]

\* mqtt_get_publish_topic finds a topic, which starts at TopicAt.
HasTopic(p, have) == p.fixed + 2 < have /\ p.fixed + 2 + p.topic <= have

TopicAt(p) == p.fixed + 2

\* mqtt_get_id finds an identifier, at IdAt.
IdAt(p) == p.fixed + 2 + p.topic

HasId(p, have) == HasTopic(p, have) /\ p.qos > 0 /\ IdAt(p) + 2 <= have

\* mqtt_get_publish_data finds data, DataHere bytes of them at DataAt.
DataAt(p) == p.fixed + VariableHeader(p.topic, p.qos)

HasData(p, have) ==
    /\ p.fixed + 2 < have /\ IdAt(p) < have /\ DataAt(p) < have
    /\ p.total >= DataAt(p)

DataHere(p, have) ==
    IF ~HasData(p, have) THEN 0
    ELSE IF p.total <= have THEN p.total - DataAt(p) ELSE have - DataAt(p)

\* mqtt_message_receive: what it reads of a PUBLISH into a buffer, and whether it does.
Taken(p, buffer) == IF p.total > buffer THEN buffer ELSE p.total

Accepted(p, buffer) ==
    p.total <= buffer \/ p.fixed + p.topic + IdSize(p.qos) <= buffer

\* deliver_publish: total_data_len of the events, and the data of one after the first.
TotalData(p, have) == DataHere(p, have) + p.total - have

NextEventData(p, read, buffer) ==
    IF p.total - read > buffer THEN 1 .. buffer ELSE 1 .. p.total - read
-----------------------------------------------------------------------------
(* CONNECT and the packets with an identifier only. *)

\* The strings mqtt_msg_connect appends, of which the caller gave the nonempty ones;
\* a password without a username brings an empty one.
Strings(given) ==
    {"client_id"}
    \cup (IF "will_topic" \in given THEN {"will_topic", "will_message"} ELSE {})
    \cup (IF given \cap {"username", "password"} # {} THEN {"username"} ELSE {})
    \cup (given \cap {"password"})

ConnectFlags(given) ==
    {f \in {"will_topic", "username", "password"} :
        f \in given \/ (f = "username" /\ "password" \in given)}

\* The packets with an identifier first, of which mqtt_get_id reads it only if the
\* remaining length is one byte.
AckRemaining == 2
SubscribeRemaining(filter) == 2 + 2 + filter + 1
UnsubscribeRemaining(filter) == 2 + 2 + filter

HasShortId(remaining) == LenBytes(remaining) = 1 /\ 2 + remaining >= 4

\* mqtt_get_suback_data: one return code for each filter.
ReturnCodes(have) == IF have > 4 THEN have - 4 ELSE 0
-----------------------------------------------------------------------------
(* What the packets are relied upon for. *)

\* A number below 2^28 is the sum of its groups of seven bits.
LEMMA Sevens ==
    ASSUME NEW n \in Nat, n <= MaxRemaining
    PROVE  /\ n < 128 => n = n % 128
           /\ n < 16384 => n = (n % 128) + ((n \div 128) % 128) * 128
           /\ n < 2097152 => n = (n % 128) + ((n \div 128) % 128) * 128
                                 + ((n \div 16384) % 128) * 16384
           /\ n = (n % 128) + ((n \div 128) % 128) * 128
                   + ((n \div 16384) % 128) * 16384 + ((n \div 2097152) % 128) * 2097152
BY SMT DEF MaxRemaining

LEMMA MaxIsNat == MaxRemaining \in Nat
BY SMT DEF MaxRemaining

LEMMA Weights ==
    /\ Weight(0) = 1 /\ Weight(1) = 128 /\ Weight(2) = 16384 /\ Weight(3) = 2097152
    /\ Weight(4) = MaxRemaining + 1
BY SMT DEF Weight, MaxRemaining

\* The bytes of a remaining length, each with seven of its bits.
LEMMA Digits ==
    ASSUME NEW n \in 0 .. MaxRemaining, NEW j \in 0 .. LenBytes(n) - 1
    PROVE  /\ EncodedLength(n)[j] \in 0 .. 255
           /\ EncodedLength(n)[j] % 128 = (n \div Weight(j)) % 128
           /\ EncodedLength(n)[j] < 128 <=> j = LenBytes(n) - 1
<1> DEFINE digit == (n \div Weight(j)) % 128
           more == n >= Weight(j + 1)
<1>1. EncodedLength(n)[j] = digit + (IF more THEN 128 ELSE 0)
  BY DEF EncodedLength
<1>2. MaxRemaining \in Int /\ n \in Nat
  BY MaxIsNat
<1>3. j \in 0 .. 3 /\ LenBytes(n) \in 1 .. 4
  BY SMT DEF LenBytes
<1>4. more <=> j < LenBytes(n) - 1
  <2>1. j = 0 \/ j = 1 \/ j = 2 \/ j = 3
    BY <1>3
  <2> QED BY <1>2, <1>3, <2>1, Weights, SMT DEF LenBytes
<1>5. digit \in 0 .. 127
  BY <1>2, <1>3, SMT DEF Weight
<1> HIDE DEF digit, more
<1>6. EncodedLength(n)[j] \in 0 .. 255 /\ EncodedLength(n)[j] % 128 = digit
  BY <1>1, <1>5, SMT
<1>7. EncodedLength(n)[j] < 128 <=> ~more
  BY <1>1, <1>5, SMT
<1>8. ~more <=> j = LenBytes(n) - 1
  BY <1>3, <1>4, SMT
<1> QED BY <1>6, <1>7, <1>8 DEF digit

\* fini_message and mqtt_get_total_length agree on what a packet's length is, for
\* every remaining length that can be sent: the receiver finds where the next packet
\* starts.
THEOREM LengthRoundTrip ==
    ASSUME NEW n \in 0 .. MaxRemaining
    PROVE  /\ FixedSize(EncodedLength(n)) = 1 + LenBytes(n)
           /\ TotalLength(EncodedLength(n)) = 1 + LenBytes(n) + n
<1> DEFINE b == EncodedLength(n)
           last == LenBytes(n) - 1
           D(i) == (n \div Weight(i)) % 128
<1>1. last \in 0 .. 3 /\ LenBytes(n) = last + 1
  BY SMT DEF LenBytes
<1>2. \A j \in 0 .. last : b[j] \in Int /\ b[j] % 128 = D(j) /\ (b[j] < 128 <=> j = last)
  BY Digits, SMT
<1>3. n = (IF 0 <= last THEN D(0) * Weight(0) ELSE 0)
          + (IF 1 <= last THEN D(1) * Weight(1) ELSE 0)
          + (IF 2 <= last THEN D(2) * Weight(2) ELSE 0)
          + (IF 3 <= last THEN D(3) * Weight(3) ELSE 0)
  <2>1. n \in Nat /\ n <= MaxRemaining /\ MaxRemaining \in Nat
    BY MaxIsNat
  <2>2. n \div 1 = n
    BY <2>1, SMT
  <2>3. CASE n < 128
    BY <2>1, <2>2, <2>3, Sevens, Weights, SMT DEF LenBytes
  <2>4. CASE 128 <= n /\ n < 16384
    BY <2>1, <2>2, <2>4, Sevens, Weights, SMT DEF LenBytes
  <2>5. CASE 16384 <= n /\ n < 2097152
    BY <2>1, <2>2, <2>5, Sevens, Weights, SMT DEF LenBytes
  <2>6. CASE 2097152 <= n
    BY <2>1, <2>2, <2>6, Sevens, Weights, SMTT(30) DEF LenBytes
  <2> QED BY <2>1, <2>3, <2>4, <2>5, <2>6
<1> HIDE DEF b, last, D
<1>4. Ends(b, last)
  BY <1>1, <1>2 DEF Ends
<1>5. ASSUME NEW j \in 0 .. 3, Ends(b, j) PROVE j = last
  <2>1. CASE j <= last
    BY <1>1, <1>2, <1>5, <2>1 DEF Ends
  <2>2. CASE j > last
    BY <1>1, <1>2, <1>5, <2>2 DEF Ends
  <2> QED BY <1>1, <2>1, <2>2
<1>6. FixedSize(b) = last + 2
  BY <1>1, <1>4, <1>5 DEF FixedSize
<1> DEFINE P(i) == IF i + 2 <= FixedSize(b) THEN (b[i] % 128) * Weight(i) ELSE 0
<1>7. TotalLength(b) = P(0) + P(1) + P(2) + P(3) + FixedSize(b)
  BY DEF TotalLength
<1>8. \A i \in 0 .. 3 : P(i) = IF i <= last THEN D(i) * Weight(i) ELSE 0
  BY <1>1, <1>2, <1>6
<1> HIDE DEF P
<1>9. P(0) + P(1) + P(2) + P(3) = n
  BY <1>3, <1>8
<1>10. TotalLength(b) = n + (last + 2)
  BY <1>6, <1>7, <1>9
<1> QED BY <1>1, <1>6, <1>10 DEF b

\* Every packet the client sends starts with a byte that its own check of received
\* packets accepts, the retransmission of a PUBLISH included.
THEOREM HeadersAreValid ==
    ASSUME NEW qos \in 0 .. 2, NEW retain \in 0 .. 1
    PROVE  /\ ValidHeader(PublishByte(qos, retain))
           /\ ValidHeader(Duplicate(PublishByte(qos, retain)))
           /\ \A t \in {"PUBREL", "SUBSCRIBE", "UNSUBSCRIBE"} : ValidHeader(RequestByte(t))
           /\ \A t \in {"CONNECT", "PUBACK", "PUBREC", "PUBCOMP", "PINGREQ", "DISCONNECT"} :
                 ValidHeader(OtherByte(t))
<1>1. ValidHeader(PublishByte(qos, retain))
  BY DEF ValidHeader, PublishByte, FirstByte
<1>2. ValidHeader(Duplicate(PublishByte(qos, retain)))
  BY DEF ValidHeader, Duplicate, PublishByte, FirstByte
<1>3. \A t \in {"PUBREL", "SUBSCRIBE", "UNSUBSCRIBE"} : ValidHeader(RequestByte(t))
  BY DEF ValidHeader, RequestByte, FirstByte
<1>4. \A t \in {"CONNECT", "PUBACK", "PUBREC", "PUBCOMP", "PINGREQ", "DISCONNECT"} :
        ValidHeader(OtherByte(t))
  BY DEF ValidHeader, OtherByte, FirstByte, Types
<1> QED BY <1>1, <1>2, <1>3, <1>4

Numbers(topic, qos, len, buffer) ==
    /\ topic \in Nat /\ qos \in 0 .. 2 /\ len \in Nat /\ buffer \in Nat
    /\ Fits(topic, qos, buffer)

LEMMA Sizes ==
    ASSUME NEW topic, NEW qos, NEW len, NEW buffer, Numbers(topic, qos, len, buffer)
    PROVE  /\ topic \in Nat /\ qos \in 0 .. 2 /\ len \in Nat /\ buffer \in Nat
           /\ topic > 0 /\ IdSize(qos) \in {0, 2} /\ (IdSize(qos) = 0 <=> qos = 0)
           /\ VariableHeader(topic, qos) = 2 + topic + IdSize(qos)
           /\ Remaining(topic, qos, len) = VariableHeader(topic, qos) + len
           /\ LenBytes(Remaining(topic, qos, len)) \in 1 .. 4
           /\ 5 + VariableHeader(topic, qos) <= buffer
<1>1. topic > 0 /\ 5 + VariableHeader(topic, qos) <= buffer
  BY DEF Numbers, Fits, MQTT_MAX_FIXED_HEADER_SIZE
<1>2. IdSize(qos) \in {0, 2} /\ (IdSize(qos) = 0 <=> qos = 0)
  BY DEF Numbers, IdSize
<1>3. LenBytes(Remaining(topic, qos, len)) \in 1 .. 4
  BY DEF LenBytes
<1>4. topic \in Nat /\ qos \in 0 .. 2 /\ len \in Nat /\ buffer \in Nat
  BY DEF Numbers
<1> QED BY <1>1, <1>2, <1>3, <1>4 DEF VariableHeader, Remaining

LEMMA WriteSizes ==
    ASSUME NEW topic, NEW qos, NEW len, NEW buffer, Numbers(topic, qos, len, buffer),
           NEW before \in Int
    PROVE  LET v == VariableHeader(topic, qos)
               o == Offs(topic, qos, len)
           IN  /\ v \in Nat /\ o \in 0 .. 3 /\ 5 + v <= buffer
               /\ buffer \in Nat /\ len \in Nat
               /\ Packet(topic, qos, len).total = 5 - o + v + len
               /\ Fragmented(topic, qos, len, buffer) <=> 5 + v + len > buffer
               /\ OutboundLength(topic, qos, len, buffer)
                     = (IF 5 + v + len > buffer THEN buffer ELSE 5 + v + len) - o
               /\ DataOffset(topic, qos, len, buffer, before)
                     = (IF 5 + v + len > buffer THEN 5 + v ELSE before) - o
<1> DEFINE v == VariableHeader(topic, qos)
           k == LenBytes(Remaining(topic, qos, len))
           o == Offs(topic, qos, len)
<1>1. /\ v \in Nat /\ k \in 1 .. 4 /\ 5 + v <= buffer /\ buffer \in Nat /\ len \in Nat
      /\ Remaining(topic, qos, len) = v + len
  <2>1. topic \in Nat /\ buffer \in Nat /\ len \in Nat
    BY DEF Numbers
  <2>2. /\ IdSize(qos) \in {0, 2} /\ v = 2 + topic + IdSize(qos)
        /\ Remaining(topic, qos, len) = v + len /\ k \in 1 .. 4 /\ 5 + v <= buffer
    BY Sizes
  <2> QED BY <2>1, <2>2
<1>2. o = 4 - k
  BY <1>1 DEF Offs, MQTT_MAX_FIXED_HEADER_SIZE
<1>3. Packet(topic, qos, len).total = 1 + k + (v + len)
  BY <1>1 DEF Packet
<1>4. Fragmented(topic, qos, len, buffer) <=> 5 + (v + len) > buffer
  BY <1>1 DEF Fragmented, MQTT_MAX_FIXED_HEADER_SIZE
<1>5. OutboundLength(topic, qos, len, buffer)
        = (IF 5 + (v + len) > buffer THEN buffer ELSE 5 + (v + len)) - o
  BY <1>1, <1>4 DEF OutboundLength, MQTT_MAX_FIXED_HEADER_SIZE
<1>6. DataOffset(topic, qos, len, buffer, before)
        = (IF 5 + (v + len) > buffer THEN 5 + v ELSE before) - o
  BY <1>4 DEF DataOffset, MQTT_MAX_FIXED_HEADER_SIZE
<1> HIDE DEF v, k, o
<1>7. /\ o \in 0 .. 3 /\ 5 + (v + len) = 5 + v + len
      /\ 1 + k + (v + len) = 5 - o + v + len
  BY <1>1, <1>2
<1> QED BY <1>1, <1>3, <1>4, <1>5, <1>6, <1>7 DEF v, o

\* The writes of a fragmented PUBLISH carry its packet and nothing else: what the first
\* does not carry is left, and a later write takes as much of that as the buffer holds
\* and never nothing. One that fits is written at once, and whether it ends there is
\* up to the offset that was left before, which its topic's length must not fall short of.
THEOREM WritesCarryPacket ==
    ASSUME NEW topic, NEW qos, NEW len, NEW buffer, Numbers(topic, qos, len, buffer),
           NEW before \in Int
    PROVE  LET left == len - FirstData(topic, qos, len, buffer, before)
               first == OutboundLength(topic, qos, len, buffer)
               total == Packet(topic, qos, len).total
           IN  /\ Fragmented(topic, qos, len, buffer) =>
                     /\ left \in 1 .. len /\ first + left = total
                     /\ \A some \in 1 .. left : NextData(some, buffer) \in 1 .. some
               /\ ~Fragmented(topic, qos, len, buffer) =>
                     /\ first = total
                     /\ left > 0 <=> before > 5 + VariableHeader(topic, qos)
<1> DEFINE v == VariableHeader(topic, qos)
           o == Offs(topic, qos, len)
           first == OutboundLength(topic, qos, len, buffer)
           total == Packet(topic, qos, len).total
           left == len - FirstData(topic, qos, len, buffer, before)
<1>1. /\ v \in Nat /\ o \in 0 .. 3 /\ 5 + v <= buffer
      /\ buffer \in Nat /\ len \in Nat
      /\ total = 5 - o + v + len
      /\ Fragmented(topic, qos, len, buffer) <=> 5 + v + len > buffer
      /\ first = (IF 5 + v + len > buffer THEN buffer ELSE 5 + v + len) - o
      /\ DataOffset(topic, qos, len, buffer, before)
            = (IF 5 + v + len > buffer THEN 5 + v ELSE before) - o
  BY WriteSizes
<1>2. left = len - (first - DataOffset(topic, qos, len, buffer, before))
  BY DEF FirstData
<1> HIDE DEF v, o, first, total, left
<1>3. CASE 5 + v + len > buffer
  <2>1. left \in 1 .. len /\ first + left = total
    BY <1>1, <1>2, <1>3
  <2>2. \A some \in 1 .. left : NextData(some, buffer) \in 1 .. some
    BY <1>1, <2>1 DEF NextData
  <2> QED BY <1>1, <1>3, <2>1, <2>2 DEF v, first, total, left
<1>4. CASE ~(5 + v + len > buffer)
  <2>1. first = total /\ (left > 0 <=> before > 5 + v)
    BY <1>1, <1>2, <1>4
  <2> QED BY <1>1, <1>4, <2>1 DEF v, first, total, left
<1> QED BY <1>3, <1>4

\* Such an offset is what a fragmented PUBLISH leaves that is made and not written, as
\* no error path resets it (mqtt_client.c:2154, 2267). The next one that fits is then
\* followed by bytes that are not its own exactly if its topic is shorter by more than
\* the messages made since, itself left out, have shifted.
THEOREM StaleOffset ==
    ASSUME NEW topic, NEW qos, NEW len, NEW buffer, Numbers(topic, qos, len, buffer),
           Fragmented(topic, qos, len, buffer), NEW before \in Int, NEW since \in Nat,
           NEW topic2, NEW qos2, NEW len2, Numbers(topic2, qos2, len2, buffer),
           ~Fragmented(topic2, qos2, len2, buffer)
    PROVE  LET stale == DataOffset(topic, qos, len, buffer, before) - since
           IN  len2 - FirstData(topic2, qos2, len2, buffer, stale) > 0
                   <=> VariableHeader(topic2, qos2) + Offs(topic, qos, len) + since
                           < VariableHeader(topic, qos)
<1> DEFINE stale == DataOffset(topic, qos, len, buffer, before) - since
<1>1. /\ VariableHeader(topic, qos) \in Nat /\ Offs(topic, qos, len) \in 0 .. 3
      /\ DataOffset(topic, qos, len, buffer, before)
            = 5 + VariableHeader(topic, qos) - Offs(topic, qos, len)
  BY WriteSizes
<1>2. VariableHeader(topic2, qos2) \in Nat
  BY WriteSizes, 0 \in Int
<1>3. stale \in Int
  BY <1>1
<1>4. len2 - FirstData(topic2, qos2, len2, buffer, stale) > 0
          <=> stale > 5 + VariableHeader(topic2, qos2)
  <2> HIDE DEF stale
  <2> QED BY <1>3, WritesCarryPacket
<1> QED BY <1>1, <1>2, <1>4

\* A received PUBLISH that fits the buffer is delivered as it was sent: the topic, the
\* identifier if there is one, and the payload, an empty one too.
THEOREM DeliveredWhole ==
    ASSUME NEW topic, NEW qos, NEW len, NEW buffer, Numbers(topic, qos, len, buffer),
           Packet(topic, qos, len).total <= buffer
    PROVE  LET p == Packet(topic, qos, len)
               have == Taken(p, buffer)
           IN  /\ Accepted(p, buffer) /\ have = p.total
               /\ HasTopic(p, have)
               /\ HasId(p, have) <=> qos > 0
               /\ DataHere(p, have) = len /\ TotalData(p, have) = len
<1> DEFINE p == Packet(topic, qos, len)
           have == Taken(p, buffer)
           k == LenBytes(Remaining(topic, qos, len))
           i == IdSize(qos)
<1>1. /\ k \in 1 .. 4 /\ i \in {0, 2} /\ topic \in Nat /\ topic > 0
      /\ buffer \in Nat /\ len \in Nat /\ qos \in 0 .. 2 /\ (i = 0 <=> qos = 0)
  BY Sizes
<1>2. /\ p.fixed = 1 + k /\ p.topic = topic /\ p.qos = qos
      /\ p.total = 1 + k + (2 + topic + i + len)
  BY <1>1, Sizes DEF Packet
<1>3. have = p.total
  BY <1>1, <1>2 DEF Taken
<1>4. IdAt(p) = 3 + k + topic /\ DataAt(p) = 3 + k + topic + i
  BY <1>1, <1>2 DEF IdAt, DataAt, VariableHeader
<1> HIDE DEF p, have, k, i
<1>5. Accepted(p, buffer)
  BY DEF Accepted, p
<1>6. HasTopic(p, have)
  BY <1>1, <1>2, <1>3 DEF HasTopic
<1>7. HasId(p, have) <=> qos > 0
  BY <1>1, <1>2, <1>3, <1>4, <1>6 DEF HasId
<1>8. HasData(p, have) <=> len > 0
  BY <1>1, <1>2, <1>3, <1>4 DEF HasData
<1>9. DataHere(p, have) = len
  BY <1>1, <1>2, <1>3, <1>4, <1>8 DEF DataHere
<1>10. TotalData(p, have) = len
  BY <1>1, <1>2, <1>3, <1>9 DEF TotalData
<1> QED BY <1>3, <1>5, <1>6, <1>7, <1>9, <1>10 DEF p, have

\* One that does not fit is accepted with what the buffer holds, as long as the topic
\* and the identifier are there; the lengths that its events announce and carry are
\* the payload's, and the events go on until it is all there.
THEOREM DeliveredInParts ==
    ASSUME NEW topic, NEW qos, NEW len, NEW buffer, Numbers(topic, qos, len, buffer),
           Packet(topic, qos, len).total > buffer,
           DataAt(Packet(topic, qos, len)) <= buffer
    PROVE  LET p == Packet(topic, qos, len)
               have == Taken(p, buffer)
           IN  /\ Accepted(p, buffer) /\ have = buffer
               /\ HasTopic(p, have)
               /\ HasId(p, have) <=> qos > 0
               /\ TotalData(p, have) = len
               /\ DataHere(p, have) + (p.total - have) = len
               /\ \A read \in have .. p.total - 1, n \in 1 .. buffer :
                     n \in NextEventData(p, read, buffer) => read + n <= p.total
<1> DEFINE p == Packet(topic, qos, len)
           have == Taken(p, buffer)
           k == LenBytes(Remaining(topic, qos, len))
           i == IdSize(qos)
<1>1. /\ k \in 1 .. 4 /\ i \in {0, 2} /\ topic \in Nat /\ topic > 0
      /\ buffer \in Nat /\ len \in Nat /\ qos \in 0 .. 2 /\ (i = 0 <=> qos = 0)
  BY Sizes
<1>2. /\ p.fixed = 1 + k /\ p.topic = topic /\ p.qos = qos
      /\ p.total = 1 + k + (2 + topic + i + len)
  BY <1>1, Sizes DEF Packet
<1>3. have = buffer /\ p.total > buffer /\ DataAt(p) <= buffer
  BY DEF Taken
<1>4. IdAt(p) = 3 + k + topic /\ DataAt(p) = 3 + k + topic + i
  BY <1>1, <1>2 DEF IdAt, DataAt, VariableHeader
<1>5. i = IdSize(p.qos)
  BY <1>2
<1> HIDE DEF p, have, k, i
<1>6. Accepted(p, buffer)
  BY <1>1, <1>2, <1>3, <1>4, <1>5 DEF Accepted
<1>7. HasTopic(p, have)
  BY <1>1, <1>2, <1>3, <1>4 DEF HasTopic
<1>8. HasId(p, have) <=> qos > 0
  BY <1>1, <1>2, <1>3, <1>4, <1>7 DEF HasId
<1>9. HasData(p, have) <=> DataAt(p) < have
  BY <1>1, <1>2, <1>3, <1>4 DEF HasData
<1>10. DataHere(p, have) = have - DataAt(p)
  BY <1>1, <1>2, <1>3, <1>4, <1>9 DEF DataHere
<1>11. TotalData(p, have) = len /\ DataHere(p, have) + (p.total - have) = len
  BY <1>1, <1>2, <1>3, <1>4, <1>10 DEF TotalData
<1>12. ASSUME NEW read \in have .. p.total - 1, NEW n \in 1 .. buffer,
              n \in NextEventData(p, read, buffer)
       PROVE  read + n <= p.total
  BY <1>1, <1>2, <1>3, <1>12 DEF NextEventData
<1> QED BY <1>3, <1>6, <1>7, <1>8, <1>11, <1>12 DEF p, have

\* What the check of a packet that does not fit leaves out is the two bytes of the
\* topic's length. The publishes that are accepted although their topic is then not
\* found are those without an identifier whose topic is one or two bytes too long.
THEOREM AcceptedAndUnread ==
    ASSUME NEW topic \in Nat \ {0}, NEW qos \in 0 .. 2, NEW len \in Nat, NEW buffer \in Nat
    PROVE  LET p == Packet(topic, qos, len)
           IN  Accepted(p, buffer) /\ ~HasTopic(p, Taken(p, buffer))
                   <=> qos = 0 /\ p.fixed + topic \in {buffer - 1, buffer}
<1> DEFINE p == Packet(topic, qos, len)
           k == LenBytes(Remaining(topic, qos, len))
           i == IdSize(qos)
<1>1. k \in 1 .. 4 /\ i \in {0, 2} /\ (i = 0 <=> qos = 0)
  BY DEF LenBytes, IdSize
<1>2. /\ p.fixed = 1 + k /\ p.topic = topic /\ p.qos = qos
      /\ p.total = 1 + k + (2 + topic + i + len)
  BY DEF Packet, Remaining, VariableHeader
<1>3. Accepted(p, buffer) <=> p.total <= buffer \/ 1 + k + topic + i <= buffer
  BY <1>2 DEF Accepted
<1>4. HasTopic(p, Taken(p, buffer))
          <=> IF p.total > buffer THEN 3 + k < buffer /\ 3 + k + topic <= buffer
              ELSE 3 + k < p.total /\ 3 + k + topic <= p.total
  <2> HIDE DEF p, k
  <2> QED BY <1>1, <1>2 DEF HasTopic, Taken
<1> HIDE DEF p, k, i
<1>5. CASE p.total > buffer
  BY <1>1, <1>2, <1>3, <1>4, <1>5 DEF p
<1>6. CASE ~(p.total > buffer)
  BY <1>1, <1>2, <1>3, <1>4, <1>6 DEF p
<1> QED BY <1>1, <1>2, <1>5, <1>6

\* CONNECT announces the strings that follow, no more and no less, and never a password
\* without a username [MQTT-3.1.2-22].
THEOREM FlagsAnnounceStrings ==
    ASSUME NEW given \in SUBSET {"will_topic", "username", "password"}
    PROVE  /\ ConnectFlags(given) = Strings(given) \ {"client_id", "will_message"}
           /\ "will_message" \in Strings(given) <=> "will_topic" \in ConnectFlags(given)
           /\ "password" \in ConnectFlags(given) => "username" \in ConnectFlags(given)
BY DEF ConnectFlags, Strings

\* The identifiers of acknowledgements and of requests for topics of up to 120
\* characters can be read back, and a SUBACK for n filters has n return codes.
THEOREM ShortIdsAreRead ==
    ASSUME NEW filter \in 1 .. 120, NEW n \in 1 .. 125
    PROVE  /\ HasShortId(AckRemaining)
           /\ HasShortId(SubscribeRemaining(filter)) /\ HasShortId(UnsubscribeRemaining(filter))
           /\ HasShortId(AckRemaining + n) /\ ReturnCodes(2 + AckRemaining + n) = n
BY SMT DEF HasShortId, AckRemaining, SubscribeRemaining, UnsubscribeRemaining, ReturnCodes,
       LenBytes, Weight
=============================================================================
