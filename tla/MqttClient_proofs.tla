-------------------------- MODULE MqttClient_proofs --------------------------
(***************************************************************************)
(* Proofs about the MQTT client: its flag, its types, and what happens to    *)
(* a message on its way through the outbox.                                  *)
(***************************************************************************)
EXTENDS MqttClient, SequenceTheorems, WellFoundedInduction, TLAPS

\* A set of naturals that is not empty has a least one.
LEMMA LeastOf ==
    ASSUME NEW T \in SUBSET Nat, T # {}
    PROVE  Min(T) \in T /\ \A y \in T : Min(T) <= y
<1> DEFINE Below == {ss \in Nat \X Nat : ss[1] < ss[2]}
<1>1. IsWellFoundedOn(Below, Nat)
  BY NatLessThanWellFounded DEF OpToRel
<1>2. PICK x \in T : \A y \in T : ~(<<y, x>> \in Below)
  <2> HIDE DEF Below
  <2> QED BY <1>1, WFMin
<1>3. ASSUME NEW y \in T PROVE x <= y
  <2>1. x \in Nat /\ y \in Nat /\ ~(y < x)
    BY <1>2
  <2> QED BY <2>1
<1> QED BY <1>3 DEF Min

\* A set of naturals that has 0 and, below L, successors, has all up to L.
LEMMA SetInduction ==
    ASSUME NEW L \in Nat, NEW T, 0 \in T,
           \A i \in 0 .. L - 1 : i \in T => i + 1 \in T
    PROVE  \A i \in 0 .. L : i \in T
<1> DEFINE Missing == {i \in 0 .. L : i \notin T}
<1> SUFFICES ASSUME Missing # {} PROVE FALSE
  OBVIOUS
<1>1. PICK x \in Missing : \A y \in Missing : x <= y
  <2>1. Missing \in SUBSET Nat
    OBVIOUS
  <2> HIDE DEF Missing
  <2> QED BY <2>1, LeastOf
<1>2. x # 0 /\ x - 1 \in 0 .. L - 1 /\ x - 1 + 1 = x
  BY <1>1
<1>3. x - 1 \in T
  BY <1>1, <1>2
<1> QED BY <1>1, <1>2, <1>3

-----------------------------------------------------------------------------
(* The outbox.                                                               *)

LEMMA GetIs ==
    ASSUME NEW S, NEW box \in Seq(S), NEW id
    PROVE  LET i == outbox_get(box, id) IN
           /\ i = 0 => \A k \in 1 .. Len(box) : box[k].id # id
           /\ i # 0 => i \in 1 .. Len(box) /\ box[i].id = id
<1> DEFINE T == {k \in 1 .. Len(box) : box[k].id = id}
<1>1. T \in SUBSET Nat /\ \A k \in T : k # 0
  BY LenProperties
<1>2. outbox_get(box, id) = IF T # {} THEN Min(T) ELSE 0
  BY DEF outbox_get, FirstItem, SelectInSeq
<1>3. CASE T # {}
  <2>1. Min(T) \in T
    <3> HIDE DEF T
    <3> QED BY <1>1, <1>3, LeastOf
  <2> QED BY <1>2, <1>3, <2>1
<1> QED BY <1>2, <1>3

\* The item that is found by its pending state.
LEMMA DequeueIs ==
    ASSUME NEW S, NEW box \in Seq(S), NEW pending
    PROVE  LET i == outbox_dequeue(box, pending) IN
           i # 0 => i \in 1 .. Len(box) /\ box[i].pending = pending
<1> DEFINE T == {k \in 1 .. Len(box) : box[k].pending = pending}
<1>1. T \in SUBSET Nat /\ \A k \in T : k # 0
  BY LenProperties
<1>2. outbox_dequeue(box, pending) = IF T # {} THEN Min(T) ELSE 0
  BY DEF outbox_dequeue, FirstItem, SelectInSeq
<1>3. CASE T # {}
  <2>1. Min(T) \in T
    <3> HIDE DEF T
    <3> QED BY <1>1, <1>3, LeastOf
  <2> QED BY <1>2, <1>3, <2>1
<1> QED BY <1>2, <1>3

\* A sequence without the element at one place.
LEMMA RemoveAtIs ==
    ASSUME NEW S, NEW box \in Seq(S), NEW i \in 1 .. Len(box)
    PROVE  /\ RemoveAt(box, i) \in Seq(S)
           /\ Len(RemoveAt(box, i)) = Len(box) - 1
           /\ \A k \in 1 .. Len(box) - 1 :
                RemoveAt(box, i)[k] = IF k < i THEN box[k] ELSE box[k + 1]
<1>1. Len(box) \in Nat /\ \A k \in 1 .. Len(box) : box[k] \in S
  BY LenProperties, ElementOfSeq
<1>2. PICK s \in Seq(S) : s = SubSeq(box, 1, i - 1)
  <2>1. i - 1 \in Int /\ 1 \in Int /\ \A k \in 1 .. i - 1 : box[k] \in S
    BY <1>1
  <2>2. SubSeq(box, 1, i - 1) \in Seq(S)
    BY <2>1, SubSeqProperties
  <2> QED BY <2>2
<1>3. Len(s) = i - 1 /\ \A k \in 1 .. i - 1 : s[k] = box[k]
  <2>1. /\ i - 1 \in Int /\ 1 \in Int /\ \A k \in 1 .. i - 1 : box[k] \in S
        /\ (IF 1 <= i - 1 THEN i - 1 - 1 + 1 ELSE 0) = i - 1
        /\ \A k \in 1 .. i - 1 - 1 + 1 : 1 + k - 1 = k
    BY <1>1
  <2> QED BY <1>2, <2>1, SubSeqProperties
<1>4. PICK m \in Int : m = i + 1
  BY <1>1
<1>5. PICK n \in Int : n = Len(box)
  BY <1>1
<1>6. \A k \in m .. n : box[k] \in S
  BY <1>1, <1>4, <1>5
<1>7. PICK t \in Seq(S) : t = SubSeq(box, m, n)
  BY <1>6, SubSeqProperties
<1>8. /\ Len(t) = IF m <= n THEN n - m + 1 ELSE 0
      /\ \A k \in 1 .. n - m + 1 : t[k] = box[m + k - 1]
  BY <1>6, <1>7, SubSeqProperties
<1>9. Len(t) = Len(box) - i /\ \A k \in 1 .. Len(box) - i : t[k] = box[i + k]
  <2>1. /\ (IF m <= n THEN n - m + 1 ELSE 0) = Len(box) - i
        /\ n - m + 1 = Len(box) - i
        /\ \A k \in 1 .. Len(box) - i : m + k - 1 = i + k
    BY <1>1, <1>4, <1>5
  <2> QED BY <1>8, <2>1
<1>10. RemoveAt(box, i) = s \o t
  BY <1>2, <1>4, <1>5, <1>7 DEF RemoveAt
<1>11. PICK u : u = s \o t
  OBVIOUS
<1>12. /\ u \in Seq(S) /\ Len(u) = Len(s) + Len(t)
       /\ \A k \in 1 .. Len(s) + Len(t) : u[k] = IF k <= Len(s) THEN s[k] ELSE t[k - Len(s)]
  BY <1>11, ConcatProperties
<1>13. ASSUME NEW k \in 1 .. Len(box) - 1
       PROVE  u[k] = IF k < i THEN box[k] ELSE box[k + 1]
  <2>1. CASE k < i
    <3>1. k \in 1 .. Len(s) + Len(t) /\ k <= Len(s) /\ k \in 1 .. i - 1
      BY <1>1, <1>3, <1>9, <2>1
    <3> QED BY <1>3, <1>12, <2>1, <3>1
  <2>2. CASE ~(k < i)
    <3>1. /\ k \in 1 .. Len(s) + Len(t) /\ ~(k <= Len(s)) /\ k - Len(s) \in 1 .. Len(box) - i
          /\ i + (k - Len(s)) = k + 1
      BY <1>1, <1>3, <1>9, <2>2
    <3> QED BY <1>9, <1>12, <2>2, <3>1
  <2> QED BY <2>1, <2>2
<1> QED BY <1>1, <1>3, <1>9, <1>10, <1>11, <1>12, <1>13

\* The function that outbox_delete_expired takes its last value of.
Remaining(box, old, n, f) ==
    f = [k \in 0 .. n |-> IF k = 0 THEN <<>>
                          ELSE IF box[k].body \in old THEN f[k - 1]
                          ELSE Append(f[k - 1], box[k])]

\* There is one, so that outbox_delete_expired is what its definition says.
LEMMA RemainingExists ==
    ASSUME NEW S, NEW box \in Seq(S), NEW old
    PROVE  \E f : Remaining(box, old, Len(box), f) /\ outbox_delete_expired(box, old) = f[Len(box)]
<1> DEFINE L == Len(box)
           T == {k \in 0 .. L : \E f : Remaining(box, old, k, f)}
<1>1. L \in Nat
  BY LenProperties
<1>2. 0 \in T
  <2> DEFINE f == [k \in 0 .. 0 |-> <<>>]
  <2>1. Remaining(box, old, 0, f)
    BY DEF Remaining
  <2> HIDE DEF f
  <2> QED BY <1>1, <2>1
<1>3. ASSUME NEW k \in 0 .. L - 1, k \in T PROVE k + 1 \in T
  <2>1. PICK f : Remaining(box, old, k, f)
    BY <1>3
  <2> DEFINE g == [i \in 0 .. k + 1 |->
                      IF i <= k THEN f[i]
                      ELSE IF box[k + 1].body \in old THEN f[k] ELSE Append(f[k], box[k + 1])]
  <2>4. ASSUME NEW i \in 0 .. k + 1
        PROVE  g[i] = IF i = 0 THEN <<>> ELSE IF box[i].body \in old THEN g[i - 1]
                      ELSE Append(g[i - 1], box[i])
    <3>1. CASE i <= k
      <4>1. f[i] = IF i = 0 THEN <<>> ELSE IF box[i].body \in old THEN f[i - 1]
                   ELSE Append(f[i - 1], box[i])
        <5>1. i \in 0 .. k
          BY <1>1, <3>1
        <5> QED BY <2>1, <5>1 DEF Remaining
      <4>2. g[i] = f[i] /\ (i # 0 => g[i - 1] = f[i - 1])
        BY <1>1, <3>1
      <4> QED BY <4>1, <4>2
    <3>2. CASE i = k + 1
      <4>1. i # 0 /\ i - 1 = k /\ g[k] = f[k]
        BY <1>1, <3>2
      <4> QED BY <1>1, <3>2, <4>1
    <3> QED BY <1>1, <3>1, <3>2
  <2>2. \A i \in 0 .. k + 1 :
            g[i] = IF i = 0 THEN <<>> ELSE IF box[i].body \in old THEN g[i - 1]
                   ELSE Append(g[i - 1], box[i])
    BY <2>4
  <2>3. Remaining(box, old, k + 1, g)
    BY <1>1, <2>2 DEF Remaining
  <2> HIDE DEF g
  <2> QED BY <1>1, <2>3
<1>4. L \in T
  <2> HIDE DEF T, L
  <2>1. \A i \in 0 .. L : i \in T
    BY <1>1, <1>2, <1>3, SetInduction
  <2> QED BY <1>1, <2>1
<1> DEFINE f == CHOOSE f : Remaining(box, old, Len(box), f)
<1>5. Remaining(box, old, Len(box), f)
  BY <1>4
<1>6. outbox_delete_expired(box, old) = f[Len(box)]
  BY DEF outbox_delete_expired, Remaining
<1> QED BY <1>5, <1>6

\* What the last value of that function is.
LEMMA RemainingSteps ==
    ASSUME NEW S, NEW box \in Seq(S), NEW old, NEW f, Remaining(box, old, Len(box), f)
    PROVE  /\ f[0] = <<>>
           /\ \A k \in 1 .. Len(box) :
                f[k] = IF box[k].body \in old THEN f[k - 1] ELSE Append(f[k - 1], box[k])
<1>1. Len(box) \in Nat
  BY LenProperties
<1>2. f[0] = <<>>
  BY <1>1 DEF Remaining
<1>3. ASSUME NEW k \in 1 .. Len(box)
      PROVE  f[k] = IF box[k].body \in old THEN f[k - 1] ELSE Append(f[k - 1], box[k])
  <2>1. k \in 0 .. Len(box) /\ k # 0
    BY <1>1
  <2> QED BY <2>1 DEF Remaining
<1> QED BY <1>2, <1>3

\* The elements of a sequence, by their place.
LEMMA RangeIs ==
    ASSUME NEW S, NEW s \in Seq(S)
    PROVE  /\ Range(s) \subseteq S
           /\ \A k \in 1 .. Len(s) : s[k] \in Range(s)
           /\ \A e \in Range(s) : \E k \in 1 .. Len(s) : s[k] = e
<1>1. Range(s) = {s[k] : k \in 1 .. Len(s)} /\ \A k \in 1 .. Len(s) : s[k] \in S
  BY RangeEquality, ElementOfSeq
<1> QED BY <1>1

LEMMA AppendRange ==
    ASSUME NEW S, NEW s \in Seq(S), NEW e \in S
    PROVE  Append(s, e) \in Seq(S) /\ Range(Append(s, e)) = Range(s) \cup {e}
<1>1. PICK t \in Seq(S) : t = Append(s, e)
  BY AppendProperties
<1>2. /\ Len(s) \in Nat /\ Len(t) = Len(s) + 1 /\ t[Len(s) + 1] = e
      /\ \A k \in 1 .. Len(s) : t[k] = s[k]
  BY <1>1, AppendProperties, LenProperties
<1>3. Range(t) = {t[k] : k \in 1 .. Len(t)} /\ Range(s) = {s[k] : k \in 1 .. Len(s)}
  BY RangeEquality
<1>4. Range(t) \subseteq Range(s) \cup {e}
  <2>1. ASSUME NEW k \in 1 .. Len(t) PROVE t[k] \in Range(s) \cup {e}
    <3>1. k \in 1 .. Len(s) \/ k = Len(s) + 1
      BY <1>2
    <3> QED BY <1>2, <1>3, <3>1
  <2> QED BY <1>3, <2>1
<1>5. Range(s) \cup {e} \subseteq Range(t)
  <2>1. ASSUME NEW k \in 1 .. Len(s) PROVE s[k] \in Range(t)
    <3>1. k \in 1 .. Len(t) /\ t[k] = s[k]
      BY <1>2
    <3> QED BY <1>3, <3>1
  <2>2. Len(s) + 1 \in 1 .. Len(t)
    BY <1>2
  <2> QED BY <1>2, <1>3, <2>1, <2>2
<1> QED BY <1>1, <1>4, <1>5

LEMMA TailRange ==
    ASSUME NEW S, NEW s \in Seq(S), s # <<>>
    PROVE  /\ Head(s) \in S /\ Tail(s) \in Seq(S)
           /\ Range(s) = {Head(s)} \cup Range(Tail(s))
<1>1. Head(s) \in S
  BY HeadTailProperties
<1>2. PICK t \in Seq(S) : t = Tail(s)
  BY HeadTailProperties
<1>3. /\ Len(s) \in Nat \ {0} /\ Len(t) = Len(s) - 1 /\ s[1] = Head(s)
      /\ \A k \in 1 .. Len(t) : t[k] = s[k + 1]
  BY <1>2, HeadTailProperties, EmptySeq, LenProperties
<1>4. Range(t) = {t[k] : k \in 1 .. Len(t)} /\ Range(s) = {s[k] : k \in 1 .. Len(s)}
  BY RangeEquality
<1>5. Range(s) \subseteq {Head(s)} \cup Range(t)
  <2>1. ASSUME NEW k \in 1 .. Len(s) PROVE s[k] \in {Head(s)} \cup Range(t)
    <3>1. CASE k = 1
      BY <1>3, <3>1
    <3>2. CASE k # 1
      <4>1. k - 1 \in 1 .. Len(t) /\ k - 1 + 1 = k
        BY <1>3, <3>2
      <4> QED BY <1>3, <1>4, <4>1
    <3> QED BY <3>1, <3>2
  <2> QED BY <1>4, <2>1
<1>6. {Head(s)} \cup Range(t) \subseteq Range(s)
  <2>1. ASSUME NEW k \in 1 .. Len(t) PROVE t[k] \in Range(s)
    <3>1. k + 1 \in 1 .. Len(s)
      BY <1>3
    <3> QED BY <1>3, <1>4, <3>1
  <2>2. 1 \in 1 .. Len(s)
    BY <1>3
  <2> QED BY <1>3, <1>4, <2>1, <2>2
<1> QED BY <1>1, <1>2, <1>5, <1>6

-----------------------------------------------------------------------------
(* The types of what is stored and of what is under way.                     *)

\* An item has the quality of service of its message; a subscription has none.
Stored ==
    {e \in Items(MsgId, Body) :
        IF e.type = "PUBLISH" THEN e.body \in Msg /\ e.qos = QosOf[e.body]
        ELSE e.body \in Topic /\ e.qos = 0}

UpType == {"PUBLISH", "SUBSCRIBE", "PUBREL", "PINGREQ"}
Acks == {"PUBACK", "PUBREC", "PUBCOMP"}

\* Only a message of quality of service 0 travels without an identifier.
UpPacket ==
    {p \in [type : UpType, id : MsgId \cup {0}, body : Body \cup {None}] :
        /\ p.type = "PUBLISH" => p.body \in Msg /\ (QosOf[p.body] > 0 => p.id \in MsgId)
        /\ p.type = "SUBSCRIBE" => p.body \in Topic /\ p.id \in MsgId
        /\ p.type = "PUBREL" => p.id \in MsgId}

DownPacket ==
    {p \in [type : Acks \cup {"SUBACK", "PINGRESP", "PUBLISH"}, id : MsgId \cup {0},
            body : Body \cup {None}] :
        p.type \in Acks => p.id \in MsgId}

\* The inductive invariant of the types.
Types ==
    /\ state \in {"INIT", "DISCONNECTED", "CONNECTED", "WAIT_RECONNECT"}
    /\ run \in BOOLEAN
    /\ pc \in {"none", "loop", "state", "event", "data", "resend", "pubrel", "keepalive",
              "poll"}
    /\ outbox \in Seq(Stored)
    /\ wait_for_ping_resp \in BOOLEAN
    /\ mqtt_connected \in BOOLEAN
    /\ asked \subseteq Topic
    /\ link \in {"none", "up", "dead", "broken"}
    /\ session \subseteq [id : MsgId, body : Msg]
    /\ subscribed \subseteq Topic
    /\ delivered \cup lost \cup published \cup discarded \subseteq Msg
    /\ toBroker \in Seq(UpPacket)
    /\ toClient \in Seq(DownPacket)
    /\ \A e \in session : QosOf[e.body] = 2
    /\ count \in [Msg -> 0 .. 2]

LEMMA NewItem ==
    ASSUME NEW id \in MsgId, NEW type \in MsgType, NEW qos, NEW body, NEW pending \in Pending,
           IF type = "PUBLISH" THEN body \in Msg /\ qos = QosOf[body]
           ELSE body \in Topic /\ qos = 0
    PROVE  [id |-> id, type |-> type, qos |-> qos, pending |-> pending, body |-> body] \in Stored
<1>1. qos \in 0 .. 2 /\ body \in Body
  BY ContentAssumption DEF Body
<1> QED BY <1>1 DEF Stored, Items

LEMMA MarkedItem ==
    ASSUME NEW e \in Stored, NEW pending \in Pending
    PROVE  /\ [e EXCEPT !.pending = pending] \in Stored
           /\ [e EXCEPT !.pending = pending].id = e.id
           /\ [e EXCEPT !.pending = pending].type = e.type
           /\ [e EXCEPT !.pending = pending].qos = e.qos
           /\ [e EXCEPT !.pending = pending].body = e.body
           /\ [e EXCEPT !.pending = pending].pending = pending
BY DEF Stored, Items

\* The functions of the outbox keep its type.
LEMMA EnqueueType ==
    ASSUME NEW box \in Seq(Stored), NEW id \in MsgId, NEW type \in MsgType, NEW qos, NEW body,
           IF type = "PUBLISH" THEN body \in Msg /\ qos = QosOf[body]
           ELSE body \in Topic /\ qos = 0
    PROVE  outbox_enqueue(box, id, type, qos, body) \in Seq(Stored)
<1>1. [id |-> id, type |-> type, qos |-> qos, pending |-> "QUEUED", body |-> body] \in Stored
  BY NewItem DEF Pending
<1> QED BY <1>1, AppendProperties DEF outbox_enqueue

LEMMA SetPendingType ==
    ASSUME NEW box \in Seq(Stored), NEW id, NEW pending \in Pending
    PROVE  outbox_set_pending(box, id, pending) \in Seq(Stored)
<1>1. PICK i : i = outbox_get(box, id)
  OBVIOUS
<1>2. outbox_set_pending(box, id, pending) =
        IF i = 0 THEN box ELSE [box EXCEPT ![i].pending = pending]
  BY <1>1 DEF outbox_set_pending
<1>3. CASE i # 0
  <2>1. i \in 1 .. Len(box)
    BY <1>1, <1>3, GetIs
  <2>2. PICK e \in Stored : e = [box[i] EXCEPT !.pending = pending]
    <3>1. box[i] \in Stored
      BY <2>1, ElementOfSeq
    <3> QED BY <3>1, MarkedItem
  <2>3. [box EXCEPT ![i].pending = pending] = [box EXCEPT ![i] = e]
    BY <2>2
  <2>4. [box EXCEPT ![i] = e] \in Seq(Stored)
    BY <2>1, ExceptSeq
  <2> QED BY <1>2, <1>3, <2>3, <2>4
<1> QED BY <1>2, <1>3

LEMMA DeleteIs ==
    ASSUME NEW S, NEW box \in Seq(S), NEW id, NEW type
    PROVE  \/ /\ outbox_delete(box, id, type) = box
              /\ \A k \in 1 .. Len(box) : ~(box[k].id = id /\ box[k].type = type)
           \/ \E i \in 1 .. Len(box) :
                /\ box[i].id = id /\ box[i].type = type
                /\ outbox_delete(box, id, type) = RemoveAt(box, i)
<1> DEFINE T == {k \in 1 .. Len(box) : box[k].id = id /\ box[k].type = type}
           i == IF T # {} THEN Min(T) ELSE 0
<1>1. T \in SUBSET Nat /\ \A k \in T : k # 0
  BY LenProperties
<1>2. outbox_delete(box, id, type) = IF i = 0 THEN box ELSE RemoveAt(box, i)
  BY DEF outbox_delete, FirstItem, SelectInSeq
<1>3. CASE T # {}
  <2>1. Min(T) \in T
    <3> HIDE DEF T
    <3> QED BY <1>1, <1>3, LeastOf
  <2> QED BY <1>1, <1>2, <1>3, <2>1
<1> QED BY <1>2, <1>3

LEMMA DeleteType ==
    ASSUME NEW S, NEW box \in Seq(S), NEW id, NEW type
    PROVE  outbox_delete(box, id, type) \in Seq(S)
BY DeleteIs, RemoveAtIs

\* No identifier is in the outbox twice.
Distinct(box) == \A j, k \in 1 .. Len(box) : box[j].id = box[k].id => j = k

\* That stays so when an item is appended whose identifier is not there.
LEMMA AppendDistinct ==
    ASSUME NEW S, NEW box \in Seq(S), NEW e \in S, Distinct(box),
           \A f \in Range(box) : f.id # e.id
    PROVE  Distinct(Append(box, e))
<1>1. PICK t \in Seq(S) : t = Append(box, e)
  BY AppendProperties
<1>2. /\ Len(box) \in Nat /\ Len(t) = Len(box) + 1 /\ t[Len(box) + 1] = e
      /\ \A k \in 1 .. Len(box) : t[k] = box[k] /\ box[k].id # e.id
  BY <1>1, AppendProperties, LenProperties, RangeIs
<1>3. ASSUME NEW j \in 1 .. Len(t), NEW k \in 1 .. Len(t), t[j].id = t[k].id PROVE j = k
  <2>1. /\ j \in 1 .. Len(box) \/ j = Len(box) + 1
        /\ k \in 1 .. Len(box) \/ k = Len(box) + 1
    BY <1>2
  <2> QED BY <1>2, <1>3, <2>1 DEF Distinct
<1> QED BY <1>1, <1>3 DEF Distinct

\* What is not expired stays, in its order.
LEMMA ExpiredIs ==
    ASSUME NEW S, NEW box \in Seq(S), NEW old
    PROVE  /\ outbox_delete_expired(box, old) \in Seq(S)
           /\ Range(outbox_delete_expired(box, old)) = {e \in Range(box) : e.body \notin old}
           /\ Distinct(box) => Distinct(outbox_delete_expired(box, old))
<1>1. PICK f : Remaining(box, old, Len(box), f) /\ outbox_delete_expired(box, old) = f[Len(box)]
  BY RemainingExists
<1>2. /\ f[0] = <<>>
      /\ \A k \in 1 .. Len(box) :
            f[k] = IF box[k].body \in old THEN f[k - 1] ELSE Append(f[k - 1], box[k])
  BY <1>1, RemainingSteps
<1>3. Len(box) \in Nat /\ \A k \in 1 .. Len(box) : box[k] \in S
  BY LenProperties, ElementOfSeq
<1> DEFINE Left(k) == {e \in {box[j] : j \in 1 .. k} : e.body \notin old}
           T == {k \in 0 .. Len(box) : f[k] \in Seq(S) /\ Range(f[k]) = Left(k)}
           Unique == {k \in 0 .. Len(box) : Distinct(f[k])}
<1>4. 0 \in T
  <2>1. PICK t \in Seq(S) : t = <<>> /\ Len(t) = 0
    BY EmptySeq
  <2>2. Range(t) = {t[j] : j \in 1 .. Len(t)}
    BY RangeEquality
  <2>3. Range(t) = {} /\ Left(0) = {}
    BY <2>1, <2>2
  <2>4. f[0] \in Seq(S) /\ Range(f[0]) = Left(0)
    BY <1>2, <2>1, <2>3
  <2> HIDE DEF Left
  <2> QED BY <1>3, <2>4
<1>5. ASSUME NEW k \in 0 .. Len(box) - 1, k \in T PROVE k + 1 \in T
  <2>1. k + 1 \in 1 .. Len(box) /\ k + 1 - 1 = k /\ k + 1 \in 0 .. Len(box)
    BY <1>3
  <2>2. PICK s \in Seq(S) : s = f[k] /\ Range(s) = Left(k)
    BY <1>5
  <2>3. PICK e \in S : e = box[k + 1]
    BY <1>3, <2>1
  <2>4. f[k + 1] = IF e.body \in old THEN s ELSE Append(s, e)
    BY <1>2, <2>1, <2>2, <2>3
  <2>5. {box[j] : j \in 1 .. k + 1} = {box[j] : j \in 1 .. k} \cup {e}
    <3>1. 1 .. k + 1 = (1 .. k) \cup {k + 1}
      BY <1>3
    <3> QED BY <2>3, <3>1
  <2>6. Left(k + 1) = IF e.body \in old THEN Left(k) ELSE Left(k) \cup {e}
    BY <2>5
  <2>7. CASE e.body \in old
    <3> HIDE DEF Left
    <3> QED BY <2>1, <2>2, <2>4, <2>6, <2>7
  <2>8. CASE e.body \notin old
    <3>1. Append(s, e) \in Seq(S) /\ Range(Append(s, e)) = Range(s) \cup {e}
      BY AppendRange
    <3> HIDE DEF Left
    <3> QED BY <2>1, <2>2, <2>4, <2>6, <2>8, <3>1
  <2> QED BY <2>7, <2>8
<1>6. Len(box) \in T
  <2> HIDE DEF T
  <2>1. \A k \in 0 .. Len(box) : k \in T
    BY <1>3, <1>4, <1>5, SetInduction
  <2> QED BY <1>3, <2>1
<1>7. Range(box) = {box[j] : j \in 1 .. Len(box)}
  BY RangeEquality
<1>8. ASSUME Distinct(box) PROVE Distinct(f[Len(box)])
  <2>1. \A k \in 0 .. Len(box) : f[k] \in Seq(S) /\ Range(f[k]) = Left(k)
    <3>1. \A k \in 0 .. Len(box) : k \in T
      <4> HIDE DEF T
      <4> QED BY <1>3, <1>4, <1>5, SetInduction
    <3> HIDE DEF Left
    <3> QED BY <3>1
  <2>2. 0 \in Unique
    <3>1. PICK t \in Seq(S) : t = <<>> /\ Len(t) = 0
      BY EmptySeq
    <3>2. Distinct(t)
      BY <3>1 DEF Distinct
    <3> QED BY <1>2, <1>3, <3>1, <3>2
  <2>3. ASSUME NEW k \in 0 .. Len(box) - 1, k \in Unique PROVE k + 1 \in Unique
    <3>1. k + 1 \in 1 .. Len(box) /\ k + 1 - 1 = k /\ k + 1 \in 0 .. Len(box) /\ k \in 0 .. Len(box)
      BY <1>3
    <3>2. PICK s \in Seq(S) : s = f[k] /\ Range(s) = Left(k)
      BY <2>1, <3>1
    <3>3. PICK e \in S : e = box[k + 1]
      BY <1>3, <3>1
    <3>4. Distinct(s)
      BY <2>3, <3>2
    <3>5. ASSUME NEW g \in Range(s) PROVE g.id # e.id
      <4>1. PICK j \in 1 .. k : g = box[j]
        BY <3>2
      <4>2. j \in 1 .. Len(box) /\ j # k + 1
        BY <1>3
      <4> QED BY <1>8, <3>1, <3>3, <4>1, <4>2 DEF Distinct
    <3>6. Distinct(Append(s, e))
      BY <3>4, <3>5, AppendDistinct
    <3>7. f[k + 1] = IF e.body \in old THEN s ELSE Append(s, e)
      BY <1>2, <3>1, <3>2, <3>3
    <3>8. Distinct(f[k + 1])
      BY <3>4, <3>6, <3>7
    <3> QED BY <3>1, <3>8
  <2> HIDE DEF Unique
  <2>4. \A k \in 0 .. Len(box) : k \in Unique
    BY <1>3, <2>2, <2>3, SetInduction
  <2>5. Len(box) \in Unique
    BY <1>3, <2>4
  <2> QED BY <2>5 DEF Unique
<1>9. f[Len(box)] \in Seq(S) /\ Range(f[Len(box)]) = Left(Len(box))
  BY <1>6
<1> QED BY <1>1, <1>7, <1>8, <1>9

LEMMA NoWires == <<>> \in Seq(UpPacket) /\ <<>> \in Seq(DownPacket) /\ <<>> \in Seq(Stored)
BY EmptySeq

\* A packet made of an item of the outbox.
LEMMA DataType ==
    ASSUME NEW e \in Stored
    PROVE  outbox_item_get_data(e) \in UpPacket
BY DEF Stored, Items, UpPacket, UpType, MsgType, outbox_item_get_data, Packet

LEMMA OtherTypes ==
    /\ Packet("PINGREQ", 0, None) \in UpPacket
    /\ \A id \in MsgId : Packet("PUBREL", id, None) \in UpPacket
    /\ \A id \in MsgId, t \in Topic : Packet("SUBSCRIBE", id, t) \in UpPacket
    /\ \A id \in MsgId, m \in Msg : make_publish(m, id) \in UpPacket
BY ContentAssumption DEF UpPacket, UpType, Packet, make_publish, Body

LEMMA WrittenType ==
    ASSUME toBroker \in Seq(UpPacket), NEW p \in UpPacket, Written(p)
    PROVE  toBroker' \in Seq(UpPacket)
BY AppendProperties DEF Written

\* What an answer does to the outbox.
LEMMA AnsweredType ==
    ASSUME Types, NEW a
    PROVE  Answered(a) \in Seq(Stored)
<1>1. outbox_delete(outbox, a.id, "PUBLISH") \in Seq(Stored)
  BY DeleteType DEF Types
<1>2. outbox_delete(outbox, a.id, "SUBSCRIBE") \in Seq(Stored)
  BY DeleteType DEF Types
<1>3. outbox_set_pending(outbox, a.id, "ACKNOWLEDGED") \in Seq(Stored)
  BY SetPendingType DEF Types, Pending
<1> QED BY <1>1, <1>2, <1>3 DEF Answered, remove_initiator_message, Types

LEMMA TransmittedType ==
    ASSUME Types, NEW i \in 1 .. Len(outbox)
    PROVE  Transmitted(i) \in Seq(Stored)
<1>1. outbox_set_pending(outbox, outbox[i].id, "TRANSMITTED") \in Seq(Stored)
  BY SetPendingType DEF Types, Pending
<1>2. RemoveAt(outbox, i) \in Seq(Stored)
  BY RemoveAtIs DEF Types
<1> QED BY <1>1, <1>2 DEF Transmitted, outbox_delete_item, Types

LEMMA ReplyType ==
    ASSUME NEW p \in UpPacket, Reply(p) # "none"
    PROVE  Packet(Reply(p), p.id, None) \in DownPacket
<1>1. p.type = "PUBLISH" => QosOf[p.body] \in 0 .. 2 /\ p.body \in Msg /\ (QosOf[p.body] > 0 => p.id \in MsgId)
  BY ContentAssumption DEF UpPacket
<1>2. p.type \in UpType /\ p.id \in MsgId \cup {0}
  BY DEF UpPacket
<1>3. CASE p.type = "PUBLISH"
  <2>1. Reply(p) = <<"none", "PUBACK", "PUBREC">>[QosOf[p.body] + 1]
    BY <1>3 DEF Reply, Qos
  <2>2. QosOf[p.body] \in {1, 2} /\ Reply(p) \in {"PUBACK", "PUBREC"}
    BY <1>1, <1>3, <2>1
  <2> QED BY <1>1, <1>3, <2>2 DEF DownPacket, Acks, Packet
<1>4. CASE p.type = "PUBREL"
  <2>1. Reply(p) = "PUBCOMP" /\ p.id \in MsgId
    BY <1>4 DEF Reply, UpPacket
  <2> QED BY <2>1 DEF DownPacket, Acks, Packet
<1>5. CASE p.type = "SUBSCRIBE"
  BY <1>2, <1>5 DEF DownPacket, Acks, Packet, Reply
<1>6. CASE p.type = "PINGREQ"
  BY <1>2, <1>6 DEF DownPacket, Acks, Packet, Reply
<1> QED BY <1>2, <1>3, <1>4, <1>5, <1>6 DEF UpType

LEMMA InitTypes == Init => Types
<1> SUFFICES ASSUME Init PROVE Types
  OBVIOUS
<1>2. count \in [Msg -> 0 .. 2]
  BY DEF Init
<1> QED BY <1>2, NoWires DEF Init, Types, outbox_init


\* The types are those of the module, and more.
LEMMA TypesImply == Types => TypeOK
<1>1. outbox \in Seq(Stored) => outbox \in Seq(Items(MsgId, Body))
  BY SeqMonotonic DEF Stored
<1> QED BY <1>1 DEF Types, TypeOK

\* What an aborted connection leaves.
LEMMA AbortTypes ==
    ASSUME Abort
    PROVE  toBroker' \in Seq(UpPacket) /\ toClient' \in Seq(DownPacket)
BY NoWires DEF Abort

LEMMA WrittenOrAbortedTypes ==
    ASSUME Types, NEW p \in UpPacket, WrittenOrAborted(p)
    PROVE  /\ toBroker' \in Seq(UpPacket) /\ toClient' \in Seq(DownPacket)
           /\ state' \in {state, "WAIT_RECONNECT"} /\ wait_for_ping_resp' \in BOOLEAN
           /\ mqtt_connected' \in BOOLEAN /\ link' \in {link, "none"}
<1>1. CASE Written(p) /\ UNCHANGED <<state, wait_for_ping_resp, mqtt_connected, link, toClient>>
  BY <1>1, WrittenType DEF Types
<1>2. CASE WriteFails /\ Abort
  BY <1>2, AbortTypes DEF Abort
<1> QED BY <1>1, <1>2 DEF WrittenOrAborted

\* Every step keeps the types, whatever identifiers are drawn.
LEMMA TypesKept == Types /\ [Next]_vars => Types'
<1> SUFFICES ASSUME Types, [Next]_vars PROVE Types'
  OBVIOUS
<1>i. \A id \in NewIds : id \in MsgId
  BY DEF NewIds
<1>1. CASE UNCHANGED vars
  BY <1>1 DEF Types, vars, taskVars, linkVars, brokerVars, ghostVars
<1>2. CASE Lock
  <2>1. outbox' \in Seq(Stored) /\ discarded' \subseteq Msg
    BY <1>2, ExpiredIs DEF Types, Lock
  <2> QED BY <1>2, <2>1 DEF Types, Lock, linkVars, brokerVars
<1>3. CASE Exit
  BY <1>3, NoWires DEF Types, Exit, outbox_delete_all_items, brokerVars
<1>4. CASE ConnectSucceeds
  <2>1. count' \in [Msg -> 0 .. 2]
    BY <1>4 DEF ConnectSucceeds, NewSession
  <2>2. session' = {} /\ subscribed' = {} /\ lost' \subseteq Msg
    BY <1>4 DEF Types, ConnectSucceeds, NewSession, Held
  <2> QED BY <1>4, <2>1, <2>2 DEF Types, ConnectSucceeds, ghostVars
<1>5. CASE ConnectFails
  BY <1>5, AbortTypes DEF Types, ConnectFails, Abort, EndOfPass, brokerVars
<1>6. CASE Reconnect
  BY <1>6 DEF Types, Reconnect, linkVars, brokerVars, ghostVars
<1>7. ASSUME NEW t \in Topic, NEW id \in NewIds, Subscribe(t, id) PROVE Types'
  <2>1. mqtt_enqueue(id, "SUBSCRIBE", 0, t) \in Seq(Stored)
    BY <1>i, EnqueueType DEF Types, mqtt_enqueue, MsgType
  <2>2. outbox' \in Seq(Stored)
    BY <1>7, <2>1, SetPendingType DEF Subscribe, Pending
  <2>3. toBroker' \in Seq(UpPacket)
    BY <1>i, <1>7, OtherTypes, WrittenType DEF Types, Subscribe
  <2>4. mqtt_connected' \in BOOLEAN
    BY <1>7 DEF Types, Subscribe, esp_mqtt_client_dispatch_transport_error
  <2> QED BY <1>7, <2>2, <2>3, <2>4 DEF Types, Subscribe, brokerVars, ghostVars
<1>8. CASE Handled
  BY <1>8 DEF Types, Handled, linkVars, brokerVars, ghostVars
<1>9. CASE DataHandled
  BY <1>9 DEF Types, DataHandled, linkVars, brokerVars, ghostVars
<1>10. CASE ReceiveNothing
  BY <1>10 DEF Types, ReceiveNothing, linkVars, brokerVars, ghostVars
<1>11. CASE ReceiveFails
  BY <1>11, AbortTypes DEF Types, ReceiveFails, Abort, EndOfPass, brokerVars, ghostVars
<1>12. CASE Receive
  <2>1. Head(toClient) \in DownPacket /\ toClient' \in Seq(DownPacket)
    BY <1>12, TailRange DEF Types, Receive
  <2>2. outbox' \in Seq(Stored)
    BY <1>12, AnsweredType DEF Receive
  <2>3. toBroker' \in Seq(UpPacket)
    <3>1. Head(toClient).type = "PUBREC" => Packet("PUBREL", Head(toClient).id, None) \in UpPacket
      BY <2>1, OtherTypes DEF DownPacket, Acks
    <3> QED BY <1>12, <3>1, WrittenType DEF Types, Receive, AnswerWithPubrel
  <2>4. wait_for_ping_resp' \in BOOLEAN
    BY <1>12 DEF Receive, StillAwaited, Types
  <2>5. pc' \in {"data", "resend"}
    BY <1>12 DEF Receive
  <2>6. mqtt_connected' \in BOOLEAN
    BY <1>12 DEF Receive, AnswerWithPubrel, esp_mqtt_client_dispatch_transport_error, Types
  <2> QED BY <1>12, <2>1, <2>2, <2>3, <2>4, <2>5, <2>6 DEF Types, Receive, brokerVars, ghostVars
<1>13. CASE ResendQueued
  <2>1. PICK i : i = outbox_dequeue(outbox, "QUEUED") /\ i \in 1 .. Len(outbox)
    BY <1>13, DequeueIs DEF Types, ResendQueued
  <2>2. outbox[i] \in Stored /\ Transmitted(i) \in Seq(Stored)
    BY <2>1, ElementOfSeq, TransmittedType DEF Types
  <2>3. CASE /\ Written(outbox_item_get_data(outbox[i]))
             /\ outbox' = Transmitted(i)
             /\ UNCHANGED <<state, wait_for_ping_resp, mqtt_connected, link, toClient>>
    <3>1. toBroker' \in Seq(UpPacket)
      BY <2>2, <2>3, DataType, WrittenType DEF Types
    <3> QED BY <1>13, <2>2, <2>3, <3>1 DEF Types, ResendQueued, brokerVars, ghostVars
  <2>4. CASE Abort /\ UNCHANGED outbox
    BY <1>13, <2>4, AbortTypes DEF Types, ResendQueued, Abort, brokerVars, ghostVars
  <2> QED BY <1>13, <2>1, <2>3, <2>4 DEF ResendQueued
<1>14. CASE ResendTransmitted
  <2>1. PICK i : i = outbox_dequeue(outbox, "TRANSMITTED") /\ i \in 1 .. Len(outbox)
    BY <1>14, DequeueIs DEF Types, ResendTransmitted
  <2>2. outbox_item_get_data(outbox[i]) \in UpPacket
    BY <2>1, ElementOfSeq, DataType DEF Types
  <2>3. WrittenOrAborted(outbox_item_get_data(outbox[i]))
    BY <1>14, <2>1 DEF ResendTransmitted
  <2> QED BY <1>14, <2>2, <2>3, WrittenOrAbortedTypes DEF Types, ResendTransmitted, brokerVars, ghostVars
<1>15. CASE TransmittedNotDue
  BY <1>15 DEF Types, TransmittedNotDue, linkVars, brokerVars, ghostVars
<1>16. CASE ResendPubrel
  <2>1. PICK i : i = outbox_dequeue(outbox, "ACKNOWLEDGED") /\ i \in 1 .. Len(outbox)
    BY <1>16, DequeueIs DEF Types, ResendPubrel
  <2>2. Packet("PUBREL", outbox[i].id, None) \in UpPacket
    BY <2>1, ElementOfSeq, OtherTypes DEF Types, Stored, Items
  <2>3. WrittenOrAborted(Packet("PUBREL", outbox[i].id, None))
    BY <1>16, <2>1 DEF ResendPubrel
  <2> QED BY <1>16, <2>2, <2>3, WrittenOrAbortedTypes DEF Types, ResendPubrel, brokerVars, ghostVars
<1>17. CASE PubrelNotDue
  BY <1>17 DEF Types, PubrelNotDue, linkVars, brokerVars, ghostVars
<1>18. CASE StaysAlive
  BY <1>18 DEF Types, StaysAlive, linkVars, brokerVars, ghostVars
<1>19. CASE Ping
  <2>1. toBroker' \in Seq(UpPacket) /\ toClient' \in Seq(DownPacket)
    BY <1>19, OtherTypes, WrittenType, AbortTypes DEF Types, Ping, esp_mqtt_client_ping
  <2> QED BY <1>19, <2>1 DEF Types, Ping, esp_mqtt_client_ping, Abort, EndOfPass, brokerVars, ghostVars
<1>20. CASE PingOverdue
  BY <1>20, AbortTypes DEF Types, PingOverdue, Abort, EndOfPass, brokerVars
<1>21. CASE PollFails
  BY <1>21, AbortTypes DEF Types, PollFails, Abort, brokerVars, ghostVars
<1>22. CASE Start
  BY <1>22 DEF Types, Start, linkVars, brokerVars, ghostVars
<1>23. CASE Stop
  BY <1>23 DEF Types, Stop, linkVars, brokerVars
<1>24. CASE Recreate
  BY <1>24, NoWires DEF Types, Recreate, esp_mqtt_client_destroy, esp_mqtt_client_init, outbox_init,
                        linkVars, brokerVars
<1>25. ASSUME NEW m \in Msg, NEW id \in NewIds, Publish(m, id) PROVE Types'
  <2>1. Unwritten(m, id) \in Seq(Stored)
    BY <1>i, EnqueueType DEF Types, Unwritten, mqtt_enqueue, MsgType
  <2>2. outbox_set_pending(Unwritten(m, id), id, "TRANSMITTED") \in Seq(Stored)
    BY <2>1, SetPendingType DEF Pending
  <2>3. outbox' \in Seq(Stored)
    <3>1. outbox' \in {outbox, Unwritten(m, id), outbox_set_pending(Unwritten(m, id), id, "TRANSMITTED")}
      BY <1>25 DEF Publish
    <3> QED BY <2>1, <2>2, <3>1 DEF Types
  <2>4. toBroker' \in Seq(UpPacket) /\ toClient' \in Seq(DownPacket)
    BY <1>i, <1>25, OtherTypes, WrittenType, AbortTypes DEF Types, Publish, linkVars
  <2>5. /\ state' \in {state, "WAIT_RECONNECT"} /\ wait_for_ping_resp' \in BOOLEAN
        /\ mqtt_connected' \in BOOLEAN /\ link' \in {link, "none"} /\ published' \subseteq Msg
    BY <1>25 DEF Types, Publish, Abort, linkVars
  <2> QED BY <1>25, <2>3, <2>4, <2>5 DEF Types, Publish, brokerVars
<1>26. ASSUME NEW m \in Msg, NEW id \in NewIds, Enqueue(m, id) PROVE Types'
  <2>1. outbox' \in Seq(Stored)
    BY <1>i, <1>26, EnqueueType DEF Types, Enqueue, mqtt_enqueue, MsgType
  <2> QED BY <1>26, <2>1 DEF Types, Enqueue, taskVars, linkVars, brokerVars
<1>27. CASE BrokerReceives
  <2>1. PICK p \in UpPacket : p = Head(toBroker) /\ toBroker' \in Seq(UpPacket)
    BY <1>27, TailRange DEF Types, BrokerReceives
  <2>2. p.type = "PUBLISH" => p.body \in Msg /\ (QosOf[p.body] > 0 => p.id \in MsgId)
    BY DEF UpPacket
  <2>3. PassedOn(p) \subseteq Msg
    BY <2>2 DEF PassedOn, Types
  <2>4. toClient' \in Seq(DownPacket)
    <3>1. Reply(p) # "none" => Append(toClient, Packet(Reply(p), p.id, None)) \in Seq(DownPacket)
      BY ReplyType, AppendProperties DEF Types
    <3> QED BY <1>27, <2>1, <3>1 DEF Types, BrokerReceives
  <2>5. count' \in [Msg -> 0 .. 2]
    BY <1>27, <2>1 DEF Types, BrokerReceives
  <2>6. session' \subseteq [id : MsgId, body : Msg] /\ \A e \in session' : QosOf[e.body] = 2
    <3>1. Qos(p) = 2 => p.type = "PUBLISH" /\ QosOf[p.body] = 2
      BY DEF Qos
    <3>2. \/ session' \subseteq session
          \/ Qos(p) = 2 /\ session' = session \cup {[id |-> p.id, body |-> p.body]}
      BY <1>27, <2>1 DEF BrokerReceives
    <3> QED BY <2>2, <3>1, <3>2 DEF Types
  <2>7. subscribed' \subseteq Topic
    BY <1>27, <2>1 DEF Types, BrokerReceives, UpPacket
  <2> QED BY <1>27, <2>1, <2>3, <2>4, <2>5, <2>6, <2>7 DEF Types, BrokerReceives, taskVars, ghostVars
<1>28. CASE BrokerPublishes
  <2>1. PICK t \in subscribed : toClient' = Append(toClient, Packet("PUBLISH", 0, t))
    BY <1>28 DEF BrokerPublishes
  <2>2. Packet("PUBLISH", 0, t) \in DownPacket
    BY <2>1 DEF Types, DownPacket, Packet, Acks, Body
  <2>3. toClient' \in Seq(DownPacket)
    BY <2>1, <2>2, AppendProperties DEF Types
  <2> QED BY <1>28, <2>3 DEF Types, BrokerPublishes, taskVars, brokerVars
<1>29. ASSUME NEW to \in {"broken", "dead"}, LoseLink(to) PROVE Types'
  BY <1>29, NoWires DEF Types, LoseLink, taskVars, brokerVars
<1> QED
  BY <1>1, <1>2, <1>3, <1>4, <1>5, <1>6, <1>7, <1>8, <1>9, <1>10, <1>11, <1>12, <1>13, <1>14,
     <1>15, <1>16, <1>17, <1>18, <1>19, <1>20, <1>21, <1>22, <1>23, <1>24, <1>25, <1>26, <1>27,
     <1>28, <1>29
     DEF Next, TaskStep, Connect, HandlerStep, ReceiveStep, ResendStep, KeepaliveStep, Call, Network

\* Every variable of the client, the network and the broker keeps its type, whatever
\* identifiers append_message_id draws and whenever the broker passes messages on; an
\* item of the outbox keeps the quality of service of its message.
THEOREM TypeCorrect == Spec => []TypeOK
<1>1. Spec => []Types
  <2>1. Init => Types
    BY InitTypes
  <2> QED BY <2>1, TypesKept, PTL DEF Spec
<1> QED BY <1>1, TypesImply, PTL

-----------------------------------------------------------------------------
(* The application's flag.                                                   *)

\* The flag is set only while the client is connected or after it was stopped, and a
\* client in the state DISCONNECTED does not run: FlagSound, made inductive.
Flagged ==
    /\ mqtt_connected => state \in {"CONNECTED", "DISCONNECTED"}
    /\ state = "DISCONNECTED" => ~run

LEMMA FlaggedKept == Flagged /\ [Next]_vars => Flagged'
<1> SUFFICES ASSUME Flagged, [Next]_vars PROVE Flagged'
  OBVIOUS
<1> USE DEF Flagged
<1>1. CASE UNCHANGED vars
  BY <1>1 DEF vars, taskVars
<1>2. CASE Lock \/ Exit
  BY <1>2 DEF Lock, Exit
<1>3. CASE Connect
  BY <1>3 DEF Connect, ConnectSucceeds, ConnectFails, Reconnect, Abort
<1>4. CASE HandlerStep
  BY <1>4 DEF HandlerStep, Subscribe, Handled, DataHandled, esp_mqtt_client_dispatch_transport_error
<1>5. CASE ReceiveStep
  BY <1>5 DEF ReceiveStep, ReceiveNothing, ReceiveFails, Receive, AnswerWithPubrel,
              esp_mqtt_client_dispatch_transport_error, Abort
<1>6. CASE ResendStep
  <2>1. ASSUME ResendQueued PROVE Flagged'
    BY <2>1 DEF ResendQueued, Abort
  <2>2. ASSUME ResendTransmitted \/ ResendPubrel PROVE Flagged'
    <3>1. \/ UNCHANGED <<state, mqtt_connected, run>>
          \/ Abort /\ UNCHANGED run
      BY <2>2 DEF ResendTransmitted, ResendPubrel, WrittenOrAborted
    <3> QED BY <3>1 DEF Abort
  <2>3. ASSUME TransmittedNotDue \/ PubrelNotDue PROVE Flagged'
    BY <2>3 DEF TransmittedNotDue, PubrelNotDue
  <2> QED BY <1>6, <2>1, <2>2, <2>3 DEF ResendStep
<1>7. CASE KeepaliveStep
  BY <1>7 DEF KeepaliveStep, StaysAlive, Ping, PingOverdue, Abort
<1>8. CASE PollFails
  BY <1>8 DEF PollFails, Abort
<1>9. CASE Start \/ Stop \/ Recreate
  BY <1>9 DEF Start, Stop, Recreate
<1>10. ASSUME NEW m \in Msg, NEW id \in NewIds, Publish(m, id) \/ Enqueue(m, id) PROVE Flagged'
  BY <1>10 DEF Publish, Enqueue, Abort, taskVars
<1>11. CASE Network
  BY <1>11 DEF Network, BrokerReceives, BrokerPublishes, LoseLink, taskVars
<1> QED
  BY <1>1, <1>2, <1>3, <1>4, <1>5, <1>6, <1>7, <1>8, <1>9, <1>10, <1>11 DEF Next, TaskStep, Call

\* is_mqtt_connected never tells the application of a connection that is gone, whichever
\* task aborted it and wherever the client's task was; but for esp_mqtt_client_stop.
THEOREM FlagIsSound == Spec => []FlagSound
<1>1. Init => Flagged
  BY DEF Init, Flagged
<1>2. Flagged => FlagSound
  BY DEF Flagged, FlagSound
<1> QED BY <1>1, <1>2, FlaggedKept, PTL DEF Spec

-----------------------------------------------------------------------------
(* What a message goes through, if no identifier is drawn that is in use.    *)

\* The identifiers with what they stand for: in the outbox, in packets on their way
\* to the broker, and in the broker's session.
Names(items, packets, held) ==
    {<<e.id, e.body>> : e \in items}
    \cup {<<p.id, p.body>> : p \in {q \in packets : q.type \in {"PUBLISH", "SUBSCRIBE"} /\ q.id # 0}}
    \cup {<<e.id, e.body>> : e \in held}
Named == Names(Range(outbox), Range(toBroker), session)

\* An identifier stands for one message, and a message has one identifier.
OneToOne(names) ==
    \A x, y \in names :
        /\ x[1] = y[1] => x[2] = y[2]
        /\ x[2] = y[2] /\ x[2] \in Msg => x[1] = y[1]

\* Nothing is known of a message that was not published.
Handed ==
    /\ \A x \in Named : x[2] \in Msg => x[2] \in published
    /\ \A p \in Range(toBroker) : p.type = "PUBLISH" => p.body \in published
    /\ \A m \in Msg : count[m] > 0 => m \in published
    /\ delivered \cup lost \cup discarded \subseteq published

Identified == Distinct(outbox) /\ OneToOne(Named) /\ Handed

\* The identifiers that the broker has acknowledged, as far as that is known somewhere.
AckedIds ==
    {p.id : p \in {q \in Range(toClient) : q.type \in Acks}}
    \cup {p.id : p \in {q \in Range(toBroker) : q.type = "PUBREL"}}
    \cup {e.id : e \in {f \in Range(outbox) : f.pending = "ACKNOWLEDGED"}}

\* And those of messages it has done with.
SettledIds == {p.id : p \in {q \in Range(toClient) : q.type \in {"PUBACK", "PUBCOMP"}}}

\* What the broker has, or had.
AtBroker == {e.body : e \in session} \cup delivered \cup lost

\* What was acknowledged is or was at the broker; what it has done with is passed on or
\* lost; and what it holds is passed on, if it does that on PUBLISH.
Acknowledged ==
    /\ \A x \in Named : x[1] \in AckedIds /\ x[2] \in Msg => x[2] \in AtBroker
    /\ \A x \in Named : x[1] \in SettledIds /\ x[2] \in Msg => x[2] \in delivered \cup lost
    /\ Onward = "PUBLISH" => \A e \in session : e.body \in delivered

\* On the wire no PUBLISH comes after the PUBREL of its identifier.
Orderly(up) ==
    \A j, k \in 1 .. Len(up) :
        j < k /\ up[j].type = "PUBREL" /\ up[k].type = "PUBLISH" => up[j].id # up[k].id

\* A message that was released: the broker does not hold it and will not get it again.
Gone(m) ==
    /\ \A e \in session : e.body # m
    /\ \A p \in Range(toBroker) : p.type = "PUBLISH" => p.body # m
    /\ \A e \in Range(outbox) : e.body = m => e.pending = "ACKNOWLEDGED"

\* A message of quality of service 2 that was delivered is held by the broker or gone.
OnceOfTwo ==
    /\ Orderly(toBroker)
    /\ \A p \in Range(toBroker), e \in Range(outbox) :
            p.type = "PUBREL" /\ p.id = e.id => e.pending = "ACKNOWLEDGED"
    /\ \A m \in Msg : QosOf[m] = 2 /\ count[m] > 0 =>
            /\ count[m] = 1
            /\ (Onward = "PUBLISH" /\ \E e \in session : e.body = m) \/ Gone(m)

\* On the wire no message of quality of service 0 is twice.
Singly(up) ==
    \A j, k \in 1 .. Len(up) :
        /\ up[j].type = "PUBLISH" /\ up[k].type = "PUBLISH"
        /\ up[j].body = up[k].body /\ QosOf[up[j].body] = 0
        => j = k

\* One of quality of service 0 is at one place only.
OnceOfZero ==
    /\ Singly(toBroker)
    /\ \A e \in Range(outbox) : e.type = "PUBLISH" /\ e.qos = 0 =>
            /\ e.pending # "TRANSMITTED"
            /\ count[e.body] = 0
            /\ \A p \in Range(toBroker) : p.type = "PUBLISH" => p.body # e.body
    /\ \A p \in Range(toBroker) : p.type = "PUBLISH" /\ QosOf[p.body] = 0 => count[p.body] = 0
    /\ \A m \in Msg : QosOf[m] = 0 => count[m] <= 1

-----------------------------------------------------------------------------
(* The outbox as a set of items.                                             *)

LEMMA RemovedItem ==
    ASSUME NEW S, NEW box \in Seq(S), NEW i \in 1 .. Len(box), Distinct(box)
    PROVE  /\ RemoveAt(box, i) \in Seq(S) /\ Distinct(RemoveAt(box, i))
           /\ Range(RemoveAt(box, i)) = {e \in Range(box) : e.id # box[i].id}
<1>1. PICK t \in Seq(S) : t = RemoveAt(box, i)
  BY RemoveAtIs
<1>2. /\ Len(box) \in Nat /\ Len(t) = Len(box) - 1
      /\ \A k \in 1 .. Len(t) : t[k] = IF k < i THEN box[k] ELSE box[k + 1]
  BY <1>1, RemoveAtIs, LenProperties
<1>3. Range(t) = {t[k] : k \in 1 .. Len(t)} /\ Range(box) = {box[k] : k \in 1 .. Len(box)}
  BY RangeEquality
<1>4. ASSUME NEW k \in 1 .. Len(t)
      PROVE  \E j \in 1 .. Len(box) : j # i /\ t[k] = box[j] /\ j = IF k < i THEN k ELSE k + 1
  <2>1. CASE k < i
    BY <1>2, <2>1
  <2>2. CASE ~(k < i)
    <3>1. k + 1 \in 1 .. Len(box) /\ k + 1 # i
      BY <1>2, <2>2
    <3> QED BY <1>2, <2>2, <3>1
  <2> QED BY <2>1, <2>2
<1>5. ASSUME NEW j \in 1 .. Len(box), j # i PROVE \E k \in 1 .. Len(t) : t[k] = box[j]
  <2>1. CASE j < i
    <3>1. j \in 1 .. Len(t)
      BY <1>2, <2>1
    <3> QED BY <1>2, <2>1, <3>1
  <2>2. CASE ~(j < i)
    <3>1. j - 1 \in 1 .. Len(t) /\ ~(j - 1 < i) /\ j - 1 + 1 = j
      BY <1>2, <1>5, <2>2
    <3> QED BY <1>2, <3>1
  <2> QED BY <2>1, <2>2
<1>6. Distinct(t)
  <2>1. ASSUME NEW j \in 1 .. Len(t), NEW k \in 1 .. Len(t), t[j].id = t[k].id PROVE j = k
    <3>1. PICK u \in 1 .. Len(box) : t[j] = box[u] /\ u = IF j < i THEN j ELSE j + 1
      BY <1>4
    <3>2. PICK v \in 1 .. Len(box) : t[k] = box[v] /\ v = IF k < i THEN k ELSE k + 1
      BY <1>4
    <3>3. u = v
      BY <2>1, <3>1, <3>2 DEF Distinct
    <3> QED BY <1>2, <3>1, <3>2, <3>3
  <2> QED BY <2>1 DEF Distinct
<1>7. Range(t) \subseteq {e \in Range(box) : e.id # box[i].id}
  BY <1>3, <1>4 DEF Distinct
<1>8. {e \in Range(box) : e.id # box[i].id} \subseteq Range(t)
  <2>1. ASSUME NEW e \in Range(box), e.id # box[i].id PROVE e \in Range(t)
    <3>1. PICK j \in 1 .. Len(box) : e = box[j]
      BY <1>3
    <3>2. j # i
      BY <2>1, <3>1
    <3> QED BY <1>3, <1>5, <3>1, <3>2
  <2> QED BY <2>1
<1> QED BY <1>1, <1>6, <1>7, <1>8

\* An item and the same with another pending state.
Same(e, f) == e.id = f.id /\ e.type = f.type /\ e.qos = f.qos /\ e.body = f.body

LEMMA MarkedItems ==
    ASSUME NEW box \in Seq(Stored), NEW id, NEW pending \in Pending, Distinct(box)
    PROVE  LET new == outbox_set_pending(box, id, pending) IN
           /\ new \in Seq(Stored) /\ Distinct(new)
           /\ \A f \in Range(new) :
                \/ f \in Range(box) /\ f.id # id
                \/ f.id = id /\ f.pending = pending /\ \E e \in Range(box) : Same(f, e)
           /\ \A e \in Range(box) : \E f \in Range(new) : Same(f, e)
<1>1. PICK i : i = outbox_get(box, id)
  OBVIOUS
<1>2. outbox_set_pending(box, id, pending) =
        IF i = 0 THEN box ELSE [box EXCEPT ![i].pending = pending]
  BY <1>1 DEF outbox_set_pending
<1>3. Range(box) = {box[k] : k \in 1 .. Len(box)}
  BY RangeEquality
<1>4. CASE i = 0
  <2>1. \A k \in 1 .. Len(box) : box[k].id # id
    BY <1>1, <1>4, GetIs
  <2> QED BY <1>2, <1>3, <1>4, <2>1 DEF Same
<1>5. CASE i # 0
  <2>1. i \in 1 .. Len(box) /\ box[i].id = id
    BY <1>1, <1>5, GetIs
  <2>2. PICK e \in Stored : e = [box[i] EXCEPT !.pending = pending] /\ Same(e, box[i]) /\ e.pending = pending
    <3>1. box[i] \in Stored
      BY <2>1, ElementOfSeq
    <3> QED BY <3>1, MarkedItem DEF Same
  <2>3. PICK t \in Seq(Stored) : t = [box EXCEPT ![i] = e]
    BY <2>1, ExceptSeq
  <2>4. outbox_set_pending(box, id, pending) = t
    BY <1>2, <1>5, <2>2, <2>3
  <2>5. Len(t) = Len(box) /\ \A j \in 1 .. Len(box) : t[j] = IF j = i THEN e ELSE box[j]
    BY <2>1, <2>3, ExceptSeq
  <2>6. Range(t) = {t[k] : k \in 1 .. Len(t)}
    BY RangeEquality
  <2>7. \A j \in 1 .. Len(box) : t[j].id = box[j].id
    BY <2>2, <2>5 DEF Same
  <2>8. Distinct(t)
    BY <2>5, <2>7 DEF Distinct
  <2>9. ASSUME NEW f \in Range(t)
        PROVE  \/ f \in Range(box) /\ f.id # id
               \/ f.id = id /\ f.pending = pending /\ \E g \in Range(box) : Same(f, g)
    <3>1. PICK k \in 1 .. Len(box) : f = t[k]
      BY <2>5, <2>6
    <3>2. CASE k = i
      BY <1>3, <2>1, <2>2, <2>5, <3>1, <3>2 DEF Same
    <3>3. CASE k # i
      <4>1. f = box[k] /\ f.id # id
        BY <2>1, <2>5, <3>1, <3>3 DEF Distinct
      <4> QED BY <1>3, <4>1
    <3> QED BY <3>2, <3>3
  <2>10. ASSUME NEW g \in Range(box) PROVE \E f \in Range(t) : Same(f, g)
    <3>1. PICK k \in 1 .. Len(box) : g = box[k]
      BY <1>3
    <3>2. t[k] \in Range(t) /\ Same(t[k], g)
      BY <2>2, <2>5, <2>6, <3>1 DEF Same
    <3> QED BY <3>2
  <2> QED BY <2>4, <2>8, <2>9, <2>10
<1> QED BY <1>4, <1>5

LEMMA DeletedItem ==
    ASSUME NEW S, NEW box \in Seq(S), NEW id, NEW type, Distinct(box)
    PROVE  LET new == outbox_delete(box, id, type) IN
           /\ new \in Seq(S) /\ Distinct(new)
           /\ Range(new) = {e \in Range(box) : ~(e.id = id /\ e.type = type)}
<1>1. Range(box) = {box[k] : k \in 1 .. Len(box)}
  BY RangeEquality
<1>2. CASE /\ outbox_delete(box, id, type) = box
           /\ \A k \in 1 .. Len(box) : ~(box[k].id = id /\ box[k].type = type)
  BY <1>1, <1>2
<1>3. ASSUME NEW i \in 1 .. Len(box), box[i].id = id, box[i].type = type,
             outbox_delete(box, id, type) = RemoveAt(box, i)
      PROVE  LET new == outbox_delete(box, id, type) IN
             /\ new \in Seq(S) /\ Distinct(new)
             /\ Range(new) = {e \in Range(box) : ~(e.id = id /\ e.type = type)}
  <2>1. /\ RemoveAt(box, i) \in Seq(S) /\ Distinct(RemoveAt(box, i))
        /\ Range(RemoveAt(box, i)) = {e \in Range(box) : e.id # box[i].id}
    BY RemovedItem
  <2>2. \A e \in Range(box) : e.id = id => e = box[i]
    BY <1>1, <1>3 DEF Distinct
  <2>3. {e \in Range(box) : e.id # box[i].id} = {e \in Range(box) : ~(e.id = id /\ e.type = type)}
    BY <1>3, <2>2
  <2> QED BY <1>3, <2>1, <2>3
<1> QED BY <1>2, <1>3, DeleteIs

\* A new item, marked at once or not.
LEMMA EnqueuedItem ==
    ASSUME NEW box \in Seq(Stored), NEW id \in MsgId, NEW type \in MsgType, NEW qos, NEW body,
           IF type = "PUBLISH" THEN body \in Msg /\ qos = QosOf[body]
           ELSE body \in Topic /\ qos = 0,
           Distinct(box), \A e \in Range(box) : e.id # id
    PROVE  LET new == outbox_enqueue(box, id, type, qos, body)
               item(p) == [id |-> id, type |-> type, qos |-> qos, pending |-> p, body |-> body]
           IN  /\ item("QUEUED") \in Stored /\ item("TRANSMITTED") \in Stored
               /\ new \in Seq(Stored) /\ Distinct(new)
               /\ Range(new) = Range(box) \cup {item("QUEUED")}
               /\ outbox_set_pending(new, id, "TRANSMITTED") \in Seq(Stored)
               /\ Distinct(outbox_set_pending(new, id, "TRANSMITTED"))
               /\ Range(outbox_set_pending(new, id, "TRANSMITTED")) = Range(box) \cup {item("TRANSMITTED")}
<1> DEFINE item(p) == [id |-> id, type |-> type, qos |-> qos, pending |-> p, body |-> body]
<1>1. item("QUEUED") \in Stored /\ item("TRANSMITTED") \in Stored
  BY NewItem DEF Pending
<1>2. PICK q \in Stored : q = item("QUEUED")
  BY <1>1
<1>3. PICK t \in Stored : t = item("TRANSMITTED")
  BY <1>1
<1>4. outbox_enqueue(box, id, type, qos, body) = Append(box, q)
  BY <1>2 DEF outbox_enqueue
<1>5. q.id = id /\ t.id = id /\ Same(t, q) /\ t.pending = "TRANSMITTED"
  BY <1>2, <1>3 DEF Same
<1>6. PICK new \in Seq(Stored) : new = Append(box, q)
  BY AppendProperties
<1>7. Range(new) = Range(box) \cup {q}
  BY <1>6, AppendRange
<1>8. Distinct(new)
  BY <1>5, <1>6, AppendDistinct
<1>9. PICK u \in Seq(Stored) : u = outbox_set_pending(new, id, "TRANSMITTED")
  BY SetPendingType DEF Pending
<1>10. /\ Distinct(u)
       /\ \A f \in Range(u) :
            \/ f \in Range(new) /\ f.id # id
            \/ f.id = id /\ f.pending = "TRANSMITTED" /\ \E e \in Range(new) : Same(f, e)
       /\ \A e \in Range(new) : \E f \in Range(u) : Same(f, e)
  BY <1>8, <1>9, MarkedItems DEF Pending
<1>11. \A f \in Range(u) : f \in Stored
  BY RangeIs
<1>12. \A f, g \in Stored : Same(f, g) /\ f.pending = g.pending => f = g
  BY DEF Stored, Items, Same
<1>13. \A f \in Range(u) : f \in Range(box) \cup {t}
  <2>1. ASSUME NEW f \in Range(u), f.id = id, f.pending = "TRANSMITTED",
               NEW e \in Range(new), Same(f, e)
        PROVE  f = t
    <3>1. e = q
      BY <1>7, <2>1 DEF Same
    <3>2. Same(f, t) /\ f.pending = t.pending /\ f \in Stored
      BY <1>5, <1>11, <2>1, <3>1 DEF Same
    <3> QED BY <1>12, <3>2
  <2> QED BY <1>5, <1>7, <1>10, <2>1
<1>14. \A f \in Range(box) \cup {t} : f \in Range(u)
  <2>1. ASSUME NEW f \in Range(box) PROVE f \in Range(u)
    <3>1. PICK g \in Range(u) : Same(g, f)
      BY <1>7, <1>10
    <3>2. g.id # id
      BY <3>1 DEF Same
    <3>3. g \in Range(new)
      BY <1>10, <3>2
    <3>4. PICK j \in 1 .. Len(new) : new[j] = g
      BY <3>3, RangeIs
    <3>5. PICK k \in 1 .. Len(new) : new[k] = f
      <4>1. f \in Range(new)
        BY <1>7
      <4> QED BY <4>1, RangeIs
    <3>6. j = k
      BY <1>8, <3>1, <3>4, <3>5 DEF Distinct, Same
    <3> QED BY <3>4, <3>5, <3>6
  <2>2. t \in Range(u)
    <3>1. PICK g \in Range(u) : Same(g, q)
      BY <1>7, <1>10
    <3>2. g.id = id
      BY <1>5, <3>1 DEF Same
    <3>3. g.pending = "TRANSMITTED"
      BY <1>10, <3>2
    <3>4. Same(g, t) /\ g \in Stored
      BY <1>5, <1>11, <3>1 DEF Same
    <3> QED BY <1>5, <1>12, <3>3, <3>4
  <2> QED BY <2>1, <2>2
<1>15. Range(u) = Range(box) \cup {t}
  BY <1>13, <1>14
<1> HIDE DEF item
<1>16. /\ new = outbox_enqueue(box, id, type, qos, body)
       /\ u = outbox_set_pending(outbox_enqueue(box, id, type, qos, body), id, "TRANSMITTED")
  BY <1>4, <1>6, <1>9
<1> QED BY <1>1, <1>2, <1>3, <1>7, <1>8, <1>9, <1>10, <1>15, <1>16 DEF item

-----------------------------------------------------------------------------
(* The wire to the broker.                                                   *)

LEMMA EmptyWire ==
    /\ Orderly(<<>>) /\ Singly(<<>>) /\ Range(<<>>) = {}
<1>1. PICK t \in Seq(UpPacket) : t = <<>> /\ Len(t) = 0
  BY EmptySeq
<1>2. Orderly(t) /\ Singly(t)
  BY <1>1 DEF Orderly, Singly
<1>3. Range(t) = {t[j] : j \in 1 .. Len(t)}
  BY RangeEquality
<1> QED BY <1>1, <1>2, <1>3

LEMMA SentOrderly ==
    ASSUME NEW up \in Seq(UpPacket), NEW p \in UpPacket, Orderly(up),
           p.type = "PUBLISH" => \A q \in Range(up) : q.type = "PUBREL" => q.id # p.id
    PROVE  Orderly(Append(up, p))
<1>1. PICK t \in Seq(UpPacket) : t = Append(up, p)
  BY AppendProperties
<1>2. /\ Len(up) \in Nat /\ Len(t) = Len(up) + 1 /\ t[Len(up) + 1] = p
      /\ \A k \in 1 .. Len(up) : t[k] = up[k] /\ up[k] \in Range(up)
  BY <1>1, AppendProperties, LenProperties, RangeIs
<1>3. ASSUME NEW j \in 1 .. Len(t), NEW k \in 1 .. Len(t),
             j < k, t[j].type = "PUBREL", t[k].type = "PUBLISH"
      PROVE  t[j].id # t[k].id
  <2>1. j \in 1 .. Len(up) /\ (k \in 1 .. Len(up) \/ k = Len(up) + 1)
    BY <1>2, <1>3
  <2> QED BY <1>2, <1>3, <2>1 DEF Orderly
<1> QED BY <1>1, <1>3 DEF Orderly

LEMMA SentSingly ==
    ASSUME NEW up \in Seq(UpPacket), NEW p \in UpPacket, Singly(up),
           p.type = "PUBLISH" /\ QosOf[p.body] = 0 =>
              \A q \in Range(up) : q.type = "PUBLISH" => q.body # p.body
    PROVE  Singly(Append(up, p))
<1>1. PICK t \in Seq(UpPacket) : t = Append(up, p)
  BY AppendProperties
<1>2. /\ Len(up) \in Nat /\ Len(t) = Len(up) + 1 /\ t[Len(up) + 1] = p
      /\ \A k \in 1 .. Len(up) : t[k] = up[k] /\ up[k] \in Range(up)
  BY <1>1, AppendProperties, LenProperties, RangeIs
<1>3. ASSUME NEW j \in 1 .. Len(t), NEW k \in 1 .. Len(t),
             t[j].type = "PUBLISH", t[k].type = "PUBLISH",
             t[j].body = t[k].body, QosOf[t[j].body] = 0
      PROVE  j = k
  <2>1. /\ j \in 1 .. Len(up) \/ j = Len(up) + 1
        /\ k \in 1 .. Len(up) \/ k = Len(up) + 1
    BY <1>2
  <2>2. CASE j \in 1 .. Len(up) /\ k \in 1 .. Len(up)
    BY <1>2, <1>3, <2>2 DEF Singly
  <2>3. CASE j = Len(up) + 1 /\ k \in 1 .. Len(up)
    BY <1>2, <1>3, <2>3
  <2>4. CASE j \in 1 .. Len(up) /\ k = Len(up) + 1
    BY <1>2, <1>3, <2>4
  <2> QED BY <2>1, <2>2, <2>3, <2>4
<1> QED BY <1>1, <1>3 DEF Singly

\* The first packet leaves the wire: what is known of the others.
LEMMA ReleaseLeaves ==
    ASSUME NEW up \in Seq(UpPacket), up # <<>>, Orderly(up)
    PROVE  /\ Orderly(Tail(up))
           /\ Head(up).type = "PUBREL" =>
                \A q \in Range(Tail(up)) : q.type = "PUBLISH" => q.id # Head(up).id
<1>1. PICK t \in Seq(UpPacket) : t = Tail(up)
  BY HeadTailProperties
<1>2. /\ Len(up) \in Nat \ {0} /\ Len(t) = Len(up) - 1 /\ up[1] = Head(up)
      /\ \A k \in 1 .. Len(t) : t[k] = up[k + 1]
  BY <1>1, HeadTailProperties, EmptySeq, LenProperties
<1>3. 1 \in 1 .. Len(up) /\ \A k \in 1 .. Len(t) : k + 1 \in 1 .. Len(up) /\ 1 < k + 1
  BY <1>2
<1>4. Orderly(t)
  <2>1. \A j, k \in 1 .. Len(t) : j < k => j + 1 < k + 1
    BY <1>2
  <2> QED BY <1>2, <1>3, <2>1 DEF Orderly
<1>5. ASSUME Head(up).type = "PUBREL", NEW q \in Range(t), q.type = "PUBLISH" PROVE q.id # Head(up).id
  <2>1. PICK k \in 1 .. Len(t) : q = up[k + 1]
    BY <1>2, RangeIs
  <2> QED BY <1>2, <1>3, <1>5, <2>1 DEF Orderly
<1> QED BY <1>1, <1>4, <1>5

LEMMA ZeroLeaves ==
    ASSUME NEW up \in Seq(UpPacket), up # <<>>, Singly(up)
    PROVE  /\ Singly(Tail(up))
           /\ Head(up).type = "PUBLISH" /\ QosOf[Head(up).body] = 0 =>
                \A q \in Range(Tail(up)) : q.type = "PUBLISH" => q.body # Head(up).body
<1>1. PICK t \in Seq(UpPacket) : t = Tail(up)
  BY HeadTailProperties
<1>2. /\ Len(up) \in Nat \ {0} /\ Len(t) = Len(up) - 1 /\ up[1] = Head(up)
      /\ \A k \in 1 .. Len(t) : t[k] = up[k + 1]
  BY <1>1, HeadTailProperties, EmptySeq, LenProperties
<1>3. 1 \in 1 .. Len(up) /\ \A k \in 1 .. Len(t) : k + 1 \in 1 .. Len(up) /\ 1 # k + 1
  BY <1>2
<1>4. Singly(t)
  <2>1. \A j, k \in 1 .. Len(t) : j + 1 = k + 1 => j = k
    BY <1>2
  <2> QED BY <1>2, <1>3, <2>1 DEF Singly
<1>5. ASSUME Head(up).type = "PUBLISH", QosOf[Head(up).body] = 0,
             NEW q \in Range(t), q.type = "PUBLISH"
      PROVE  q.body # Head(up).body
  <2>1. PICK k \in 1 .. Len(t) : q = up[k + 1]
    BY <1>2, RangeIs
  <2> QED BY <1>2, <1>3, <1>5, <2>1 DEF Singly
<1> QED BY <1>1, <1>4, <1>5

-----------------------------------------------------------------------------
(* The kinds of steps, by what they do to the outbox, the wires and the      *)
(* broker.                                                                   *)

\* Nothing new but a PINGREQ or a command: items leave the outbox, packets are lost.
Quiet ==
    /\ Distinct(outbox')
    /\ Range(outbox') \subseteq Range(outbox)
    /\ toBroker' \in {toBroker, <<>>, Append(toBroker, Packet("PINGREQ", 0, None))}
    /\ \A p \in Range(toClient') : p.type \in Acks => p \in Range(toClient)
    /\ UNCHANGED <<session, count, delivered, lost, published>>
    /\ discarded' \subseteq discarded \cup (Bodies(outbox) \cap Msg)

\* A session begins.
Renewal ==
    /\ session' = {} /\ lost' = lost \cup Held
    /\ count' = [m \in Msg |-> 0]
    /\ UNCHANGED <<outbox, toBroker, toClient, delivered, published, discarded>>

\* A new item with an identifier of its own, transmitted or not.
Entry(e) ==
    /\ e \in Stored /\ e.id \notin InUse
    /\ e.pending = "QUEUED" \/ (e.pending = "TRANSMITTED" /\ (e.type = "PUBLISH" => e.qos > 0))
    /\ Distinct(outbox')
    /\ Range(outbox') = Range(outbox) \cup {e}
    /\ \/ toBroker' \in {toBroker, <<>>}
       \/ e.pending = "TRANSMITTED" /\ toBroker' = Append(toBroker, outbox_item_get_data(e))
    /\ toClient' \in {toClient, <<>>}
    /\ e.body \notin published /\ published' = published \cup ({e.body} \cap Msg)
    /\ UNCHANGED <<session, count, delivered, lost, discarded>>

\* An item is transmitted, for the first time or again.
Transmission(e) ==
    /\ e \in Range(outbox) /\ e.pending \in {"QUEUED", "TRANSMITTED"}
    /\ Distinct(outbox')
    /\ \A f \in Range(outbox') :
        \/ f \in Range(outbox) /\ f.id # e.id
        \/ /\ Same(f, e) /\ f.pending \in {"QUEUED", "TRANSMITTED"}
           /\ ~(e.type = "PUBLISH" /\ e.qos = 0)
    /\ toBroker' \in {toBroker, Append(toBroker, outbox_item_get_data(e))}
    /\ UNCHANGED <<toClient, session, count, delivered, lost, published, discarded>>

\* A message is released, after its PUBREC or again.
Release(id) ==
    /\ id \in AckedIds
    /\ Distinct(outbox')
    /\ \A f \in Range(outbox') :
        /\ f.id = id => f.pending = "ACKNOWLEDGED"
        /\ f \in Range(outbox) \/ (f.id = id /\ \E e \in Range(outbox) : Same(f, e))
    /\ toBroker' \in {toBroker, Append(toBroker, Packet("PUBREL", id, None))}
    /\ Range(toClient') \subseteq Range(toClient)
    /\ UNCHANGED <<session, count, delivered, lost, published, discarded>>

\* A message of quality of service 0 passes the outbox by.
Shot(m) ==
    /\ QosOf[m] = 0 /\ m \notin published /\ published' = published \cup {m}
    /\ toBroker' \in {toBroker, <<>>, Append(toBroker, Packet("PUBLISH", 0, m))}
    /\ toClient' \in {toClient, <<>>}
    /\ UNCHANGED <<outbox, session, count, delivered, lost, discarded>>

\* A quality of service 0 message is never kept once it was transmitted.
NoneKept == \A e \in Range(outbox) : e.type = "PUBLISH" /\ e.qos = 0 => e.pending # "TRANSMITTED"

LEMMA BodiesAre ==
    ASSUME NEW S, NEW box \in Seq(S)
    PROVE  Bodies(box) = {e.body : e \in Range(box)}
<1>1. Range(box) = {box[k] : k \in 1 .. Len(box)} /\ DOMAIN box = 1 .. Len(box)
  BY RangeEquality, LenProperties
<1> QED BY <1>1 DEF Bodies

\* Where the outbox stays and the wires stay or are cut.
LEMMA QuietCut ==
    ASSUME Types, Distinct(outbox), UNCHANGED <<outbox, brokerVars, published>>,
           discarded' \subseteq discarded \cup (Bodies(outbox) \cap Msg),
           toBroker' \in {toBroker, <<>>, Append(toBroker, Packet("PINGREQ", 0, None))},
           toClient' \in {toClient, <<>>}
    PROVE  Quiet
BY EmptyWire DEF Quiet, brokerVars

SomeKind ==
    \/ Quiet
    \/ Renewal
    \/ \E e \in Stored : Entry(e)
    \/ \E e \in Stored : Transmission(e)
    \/ \E id \in MsgId : Release(id)
    \/ \E m \in Msg : Shot(m)
    \/ BrokerReceives

\* An identifier that is drawn is a new one.
LEMMA NewId ==
    ASSUME Types, ~Reuse, NEW id \in NewIds
    PROVE  id \in MsgId /\ id \notin InUse /\ \A e \in Range(outbox) : e.id # id
<1>1. id \in MsgId /\ id \notin InUse
  BY DEF NewIds
<1>2. ASSUME NEW e \in Range(outbox) PROVE e.id \in InUse
  <2>1. PICK k \in 1 .. Len(outbox) : outbox[k] = e
    BY RangeIs DEF Types
  <2>2. k \in DOMAIN outbox
    BY LenProperties DEF Types
  <2> QED BY <2>1, <2>2 DEF InUse
<1> QED BY <1>1, <1>2

\* What is subscribed to or published, but for quality of service 0, enters the outbox.
LEMMA SubscribeEnters ==
    ASSUME Types, Distinct(outbox), ~Reuse, NEW t \in Topic, NEW id \in NewIds, Subscribe(t, id)
    PROVE  \E e \in Stored : Entry(e)
<1>i. id \in MsgId /\ id \notin InUse /\ \A f \in Range(outbox) : f.id # id
  BY NewId
<1>b. outbox \in Seq(Stored)
  BY DEF Types
<1> DEFINE item(p) == [id |-> id, type |-> "SUBSCRIBE", qos |-> 0, pending |-> p, body |-> t]
           new == outbox_enqueue(outbox, id, "SUBSCRIBE", 0, t)
           sent == outbox_set_pending(new, id, "TRANSMITTED")
<1>0. /\ item("QUEUED") \in Stored /\ item("TRANSMITTED") \in Stored
      /\ Distinct(new) /\ Range(new) = Range(outbox) \cup {item("QUEUED")}
      /\ Distinct(sent) /\ Range(sent) = Range(outbox) \cup {item("TRANSMITTED")}
  <2>1. \A f \in Range(outbox) : f.id # id
    BY <1>i
  <2>2. id \in MsgId
    BY <1>i
  <2>3. /\ "SUBSCRIBE" \in MsgType
        /\ IF "SUBSCRIBE" = "PUBLISH" THEN t \in Msg /\ 0 = QosOf[t] ELSE t \in Topic /\ 0 = 0
    BY DEF MsgType
  <2> QED BY <1>b, <2>1, <2>2, <2>3, EnqueuedItem
<1>1. PICK e : e = item("TRANSMITTED")
  OBVIOUS
<1>2. e \in Stored /\ Distinct(outbox') /\ Range(outbox') = Range(outbox) \cup {e}
  <2>1. outbox' = sent
    BY DEF Subscribe, mqtt_enqueue
  <2> HIDE DEF item, new, sent
  <2> QED BY <1>0, <1>1, <2>1
<1>3. toBroker' \in {toBroker, Append(toBroker, outbox_item_get_data(e))}
  BY <1>1 DEF Subscribe, Written, outbox_item_get_data
<1>4. t \notin published /\ {t} \cap Msg = {}
  BY ContentAssumption DEF Types
<1>5. Entry(e)
  BY <1>i, <1>1, <1>2, <1>3, <1>4 DEF Entry, Subscribe, brokerVars, ghostVars
<1> QED BY <1>2, <1>5

LEMMA PublishEnters ==
    ASSUME Types, Distinct(outbox), ~Reuse, NEW m \in Msg, NEW id \in NewIds,
           Publish(m, id) \/ Enqueue(m, id), Publish(m, id) => QosOf[m] # 0
    PROVE  \E e \in Stored : Entry(e)
<1>i. id \in MsgId /\ id \notin InUse /\ \A f \in Range(outbox) : f.id # id
  BY NewId
<1>b. outbox \in Seq(Stored)
  BY DEF Types
<1> DEFINE item(p) == [id |-> id, type |-> "PUBLISH", qos |-> QosOf[m], pending |-> p, body |-> m]
           new == outbox_enqueue(outbox, id, "PUBLISH", QosOf[m], m)
           sent == outbox_set_pending(new, id, "TRANSMITTED")
<1>1. /\ item("QUEUED") \in Stored /\ item("TRANSMITTED") \in Stored
      /\ Distinct(new) /\ Range(new) = Range(outbox) \cup {item("QUEUED")}
      /\ Distinct(sent) /\ Range(sent) = Range(outbox) \cup {item("TRANSMITTED")}
  <2>1. \A f \in Range(outbox) : f.id # id
    BY <1>i
  <2>2. id \in MsgId /\ "PUBLISH" \in MsgType
    BY <1>i DEF MsgType
  <2> QED BY <1>b, <2>1, <2>2, EnqueuedItem
<1>2. PICK q \in Stored : q = item("QUEUED")
  BY <1>1
<1>3. PICK t \in Stored : t = item("TRANSMITTED")
  BY <1>1
<1>4. /\ q.id = id /\ q.pending = "QUEUED" /\ q.body = m
      /\ t.id = id /\ t.pending = "TRANSMITTED" /\ t.body = m /\ t.qos = QosOf[m]
  BY <1>2, <1>3
<1>5. /\ m \notin published /\ published' = published \cup {m} /\ {m} \cap Msg = {m}
      /\ UNCHANGED <<session, count, delivered, lost, discarded>>
  BY DEF Publish, Enqueue, brokerVars
<1>6. \/ outbox' = new /\ toBroker' \in {toBroker, <<>>} /\ toClient' \in {toClient, <<>>}
      \/ /\ outbox' = sent /\ UNCHANGED toClient /\ QosOf[m] # 0
         /\ toBroker' \in {toBroker, Append(toBroker, outbox_item_get_data(t))}
  <2>1. CASE Enqueue(m, id)
    BY <2>1 DEF Enqueue, mqtt_enqueue, linkVars
  <2>2. CASE Publish(m, id)
    <3>1. QosOf[m] # 0 /\ Unwritten(m, id) = new
      BY <2>2 DEF Unwritten, mqtt_enqueue
    <3>2. make_publish(m, id) = outbox_item_get_data(t)
      BY <1>3, <3>1 DEF make_publish, outbox_item_get_data
    <3>3. \/ outbox' = Unwritten(m, id) /\ UNCHANGED linkVars
          \/ Written(make_publish(m, id)) /\ UNCHANGED toClient
             /\ outbox' = outbox_set_pending(Unwritten(m, id), id, "TRANSMITTED")
          \/ Abort /\ outbox' = Unwritten(m, id)
      BY <2>2, <3>1 DEF Publish
    <3> HIDE DEF new
    <3> QED BY <3>1, <3>2, <3>3 DEF Written, Abort, linkVars
  <2> QED BY <2>1, <2>2
<1>7. QosOf[m] # 0 => QosOf[m] > 0
  BY ContentAssumption
<1> HIDE DEF item, new, sent
<1>8. Entry(q) \/ Entry(t)
  BY <1>i, <1>1, <1>2, <1>3, <1>4, <1>5, <1>6, <1>7 DEF Entry
<1> QED BY <1>8

\* There are no others, while no identifier is drawn that is in use.
LEMMA StepKinds ==
    ASSUME Types, Distinct(outbox), NoneKept, ~Reuse, Next
    PROVE  SomeKind
<1>b. outbox \in Seq(Stored) /\ \A e \in Range(outbox) : e \in Stored
  BY RangeIs DEF Types
<1>1. ASSUME Lock PROVE Quiet
  <2>1. CASE UNCHANGED <<outbox, discarded, budget>>
    <3>1. UNCHANGED <<outbox, brokerVars, published, discarded, toBroker, toClient>>
      BY <1>1, <2>1 DEF Lock, linkVars
    <3> QED BY <3>1, QuietCut
  <2>2. ASSUME NEW old \in SUBSET Bodies(outbox), outbox' = outbox_delete_expired(outbox, old),
               discarded' = discarded \cup (old \cap Msg)
        PROVE  Quiet
    <3>1. Distinct(outbox') /\ Range(outbox') \subseteq Range(outbox)
      BY <1>b, <2>2, ExpiredIs
    <3> QED BY <1>1, <2>2, <3>1 DEF Lock, linkVars, brokerVars, Quiet
  <2> QED BY <1>1, <2>1, <2>2 DEF Lock
<1>2. ASSUME Exit \/ Recreate PROVE Quiet
  <2>1. outbox' = <<>>
    BY <1>2 DEF Exit, Recreate, outbox_delete_all_items, esp_mqtt_client_init, outbox_init
  <2>2. Distinct(outbox') /\ Range(outbox') \subseteq Range(outbox)
    <3>1. PICK t \in Seq(Stored) : t = <<>> /\ Len(t) = 0
      BY EmptySeq
    <3> QED BY <2>1, <3>1, EmptyWire DEF Distinct
  <2>3. \A p \in Range(toClient') : p \in Range(toClient)
    BY <1>2, EmptyWire DEF Exit, Recreate, linkVars
  <2>4. /\ toBroker' \in {toBroker, <<>>} /\ UNCHANGED <<session, count, delivered, lost, published>>
        /\ discarded' = discarded \cup (Bodies(outbox) \cap Msg)
    BY <1>2 DEF Exit, Recreate, linkVars, brokerVars, esp_mqtt_client_destroy
  <2> QED BY <2>2, <2>3, <2>4 DEF Quiet
<1>3. ASSUME ConnectSucceeds PROVE Renewal
  BY <1>3 DEF ConnectSucceeds, NewSession, Renewal, ghostVars
<1>4. ASSUME \/ ConnectFails \/ Reconnect \/ Handled \/ DataHandled \/ ReceiveNothing \/ ReceiveFails
             \/ TransmittedNotDue \/ PubrelNotDue \/ StaysAlive \/ Ping \/ PingOverdue \/ PollFails
             \/ Start \/ Stop \/ \E to \in {"broken", "dead"} : LoseLink(to)
      PROVE  Quiet
  <2>1. UNCHANGED <<outbox, brokerVars, published, discarded>>
    BY <1>4 DEF ConnectFails, Reconnect, Handled, DataHandled, ReceiveNothing, ReceiveFails,
                TransmittedNotDue, PubrelNotDue, StaysAlive, Ping, PingOverdue, PollFails, Start, Stop,
                LoseLink, ghostVars
  <2>2. \/ UNCHANGED <<toBroker, toClient>>
        \/ toBroker' = <<>> /\ toClient' = <<>>
        \/ toBroker' = Append(toBroker, Packet("PINGREQ", 0, None)) /\ UNCHANGED toClient
    BY <1>4 DEF ConnectFails, Reconnect, Handled, DataHandled, ReceiveNothing, ReceiveFails,
                TransmittedNotDue, PubrelNotDue, StaysAlive, Ping, PingOverdue, PollFails, Start, Stop,
                LoseLink, linkVars, Abort, esp_mqtt_client_ping, Written
  <2> QED BY <2>1, <2>2, QuietCut
<1>5. ASSUME NEW t \in Topic, NEW id \in NewIds, Subscribe(t, id) PROVE SomeKind
  BY <1>5, SubscribeEnters DEF SomeKind
<1>6. ASSUME Receive PROVE SomeKind
  <2>1. PICK a \in DownPacket : a = Head(toClient) /\ toClient' = Tail(toClient)
                               /\ Range(toClient) = {a} \cup Range(toClient')
    BY <1>6, TailRange DEF Receive, Types
  <2>2. outbox' = Answered(a)
    BY <1>6, <2>1 DEF Receive
  <2>3. UNCHANGED <<session, count, delivered, lost, published, discarded>>
    BY <1>6 DEF Receive, brokerVars, ghostVars
  <2>4. CASE a.type = "PUBREC"
    <3>1. a.id \in MsgId /\ a.id \in AckedIds
      BY <2>1, <2>4 DEF DownPacket, Acks, AckedIds
    <3>2. outbox' = outbox_set_pending(outbox, a.id, "ACKNOWLEDGED")
      BY <2>2, <2>4 DEF Answered
    <3>3. /\ Distinct(outbox')
          /\ \A f \in Range(outbox') :
                \/ f \in Range(outbox) /\ f.id # a.id
                \/ f.id = a.id /\ f.pending = "ACKNOWLEDGED" /\ \E e \in Range(outbox) : Same(f, e)
      BY <1>b, <3>2, MarkedItems DEF Pending
    <3>4. toBroker' \in {toBroker, Append(toBroker, Packet("PUBREL", a.id, None))}
      BY <1>6, <2>1, <2>4 DEF Receive, AnswerWithPubrel, Written
    <3>5. Release(a.id)
      BY <2>1, <2>3, <3>1, <3>3, <3>4 DEF Release
    <3> QED BY <3>1, <3>5 DEF SomeKind
  <2>5. CASE a.type # "PUBREC"
    <3>1. outbox' \in {outbox, outbox_delete(outbox, a.id, "PUBLISH"), outbox_delete(outbox, a.id, "SUBSCRIBE")}
      BY <2>2, <2>5 DEF Answered, remove_initiator_message
    <3>2. Distinct(outbox') /\ Range(outbox') \subseteq Range(outbox)
      BY <1>b, <3>1, DeletedItem
    <3>3. toBroker' = toBroker
      BY <1>6, <2>1, <2>5 DEF Receive
    <3>4. Quiet
      BY <2>1, <2>3, <3>2, <3>3 DEF Quiet
    <3> QED BY <3>4 DEF SomeKind
  <2> QED BY <2>4, <2>5
<1>7. ASSUME ResendQueued PROVE SomeKind
  <2>1. PICK i : i = outbox_dequeue(outbox, "QUEUED") /\ i \in 1 .. Len(outbox) /\ outbox[i].pending = "QUEUED"
    BY <1>7, <1>b, DequeueIs DEF ResendQueued
  <2>2. PICK e \in Stored : e = outbox[i] /\ e \in Range(outbox) /\ e.pending = "QUEUED"
    BY <1>b, <2>1, RangeIs
  <2>3. UNCHANGED <<brokerVars, published, discarded>>
    BY <1>7 DEF ResendQueued, ghostVars
  <2>4. CASE Written(outbox_item_get_data(e)) /\ outbox' = Transmitted(i) /\ UNCHANGED toClient
    <3>1. toBroker' \in {toBroker, Append(toBroker, outbox_item_get_data(e))}
      BY <2>4 DEF Written
    <3>2. /\ Distinct(outbox')
          /\ \A f \in Range(outbox') :
                \/ f \in Range(outbox) /\ f.id # e.id
                \/ /\ Same(f, e) /\ f.pending \in {"QUEUED", "TRANSMITTED"}
                   /\ ~(e.type = "PUBLISH" /\ e.qos = 0)
      <4>0. \A f \in Range(outbox) : f.id = e.id => f = e
        <5>1. ASSUME NEW f \in Range(outbox), f.id = e.id PROVE f = e
          <6>1. PICK k \in 1 .. Len(outbox) : outbox[k] = f
            BY <1>b, RangeIs
          <6> QED BY <2>1, <2>2, <5>1, <6>1 DEF Distinct
        <5> QED BY <5>1
      <4>1. CASE e.qos > 0
        <5>1. outbox' = outbox_set_pending(outbox, e.id, "TRANSMITTED")
          BY <2>2, <2>4, <4>1 DEF Transmitted
        <5>2. /\ Distinct(outbox')
              /\ \A f \in Range(outbox') :
                    \/ f \in Range(outbox) /\ f.id # e.id
                    \/ /\ f.id = e.id /\ f.pending = "TRANSMITTED"
                       /\ \E g \in Range(outbox) : Same(f, g)
          BY <1>b, <5>1, MarkedItems DEF Pending
        <5>3. ASSUME NEW f \in Range(outbox'), f.id = e.id, NEW g \in Range(outbox), Same(f, g)
              PROVE  Same(f, e)
          BY <4>0, <5>3 DEF Same
        <5>4. ~(e.type = "PUBLISH" /\ e.qos = 0)
          BY <4>1
        <5> QED BY <5>2, <5>3, <5>4
      <4>2. CASE ~(e.qos > 0) /\ e.type = "PUBLISH"
        <5>1. outbox' = RemoveAt(outbox, i)
          BY <2>2, <2>4, <4>2 DEF Transmitted, outbox_delete_item
        <5> QED BY <1>b, <2>1, <2>2, <5>1, RemovedItem
      <4>3. CASE ~(e.qos > 0) /\ e.type # "PUBLISH"
        <5>1. outbox' = outbox
          BY <2>2, <2>4, <4>3 DEF Transmitted
        <5> QED BY <2>2, <4>0, <4>3, <5>1 DEF Same
      <4> QED BY <4>1, <4>2, <4>3
    <3>3. Transmission(e)
      BY <2>2, <2>3, <2>4, <3>1, <3>2 DEF Transmission, brokerVars
    <3> QED BY <3>3 DEF SomeKind
  <2>5. CASE Abort /\ UNCHANGED outbox
    <3>1. toBroker' = <<>> /\ toClient' = <<>>
      BY <2>5 DEF Abort
    <3>2. Quiet
      BY <2>3, <2>5, <3>1, QuietCut
    <3> QED BY <3>2 DEF SomeKind
  <2> QED BY <1>7, <2>1, <2>2, <2>4, <2>5 DEF ResendQueued
<1>8. ASSUME ResendTransmitted PROVE SomeKind
  <2>1. PICK i : /\ i = outbox_dequeue(outbox, "TRANSMITTED") /\ i \in 1 .. Len(outbox)
                 /\ outbox[i].pending = "TRANSMITTED"
    BY <1>8, <1>b, DequeueIs DEF ResendTransmitted
  <2>2. PICK e \in Stored : e = outbox[i] /\ e \in Range(outbox) /\ e.pending = "TRANSMITTED"
    BY <1>b, <2>1, RangeIs
  <2>3. UNCHANGED <<outbox, brokerVars, published, discarded>>
    BY <1>8 DEF ResendTransmitted, ghostVars
  <2>4. WrittenOrAborted(outbox_item_get_data(e))
    BY <1>8, <2>1, <2>2 DEF ResendTransmitted
  <2>5. CASE Written(outbox_item_get_data(e)) /\ UNCHANGED toClient
    <3>1. \A f \in Range(outbox) : f.id = e.id => f = e
      <4>1. ASSUME NEW f \in Range(outbox), f.id = e.id PROVE f = e
        <5>1. PICK k \in 1 .. Len(outbox) : outbox[k] = f
          BY <1>b, RangeIs
        <5> QED BY <2>1, <2>2, <4>1, <5>1 DEF Distinct
      <4> QED BY <4>1
    <3>2. ~(e.type = "PUBLISH" /\ e.qos = 0)
      BY <2>2 DEF NoneKept
    <3>3. toBroker' \in {toBroker, Append(toBroker, outbox_item_get_data(e))}
      BY <2>5 DEF Written
    <3>4. Transmission(e)
      BY <2>2, <2>3, <2>5, <3>1, <3>2, <3>3 DEF Transmission, brokerVars, Same
    <3> QED BY <3>4 DEF SomeKind
  <2>6. CASE Abort
    <3>1. toBroker' = <<>> /\ toClient' = <<>>
      BY <2>6 DEF Abort
    <3>2. Quiet
      BY <2>3, <3>1, QuietCut
    <3> QED BY <3>2 DEF SomeKind
  <2> QED BY <2>4, <2>5, <2>6 DEF WrittenOrAborted
<1>9. ASSUME ResendPubrel PROVE SomeKind
  <2>1. PICK i : /\ i = outbox_dequeue(outbox, "ACKNOWLEDGED") /\ i \in 1 .. Len(outbox)
                 /\ outbox[i].pending = "ACKNOWLEDGED"
    BY <1>9, <1>b, DequeueIs DEF ResendPubrel
  <2>2. PICK e \in Stored : e = outbox[i] /\ e \in Range(outbox) /\ e.pending = "ACKNOWLEDGED"
    BY <1>b, <2>1, RangeIs
  <2>3. UNCHANGED <<outbox, brokerVars, published, discarded>>
    BY <1>9 DEF ResendPubrel, ghostVars
  <2>4. WrittenOrAborted(Packet("PUBREL", e.id, None))
    BY <1>9, <2>1, <2>2 DEF ResendPubrel
  <2>5. CASE Written(Packet("PUBREL", e.id, None)) /\ UNCHANGED toClient
    <3>1. \A f \in Range(outbox) : f.id = e.id => f = e
      <4>1. ASSUME NEW f \in Range(outbox), f.id = e.id PROVE f = e
        <5>1. PICK k \in 1 .. Len(outbox) : outbox[k] = f
          BY <1>b, RangeIs
        <5> QED BY <2>1, <2>2, <4>1, <5>1 DEF Distinct
      <4> QED BY <4>1
    <3>2. e.id \in AckedIds /\ e.id \in MsgId
      BY <2>2 DEF AckedIds, Stored, Items
    <3>3. toBroker' \in {toBroker, Append(toBroker, Packet("PUBREL", e.id, None))}
      BY <2>5 DEF Written
    <3>4. Release(e.id)
      BY <2>2, <2>3, <2>5, <3>1, <3>2, <3>3 DEF Release, brokerVars
    <3> QED BY <3>2, <3>4 DEF SomeKind
  <2>6. CASE Abort
    <3>1. toBroker' = <<>> /\ toClient' = <<>>
      BY <2>6 DEF Abort
    <3>2. Quiet
      BY <2>3, <3>1, QuietCut
    <3> QED BY <3>2 DEF SomeKind
  <2> QED BY <2>4, <2>5, <2>6 DEF WrittenOrAborted
<1>10. ASSUME NEW m \in Msg, NEW id \in NewIds, Publish(m, id), QosOf[m] = 0 PROVE SomeKind
  <2>1. outbox' = outbox
    BY <1>10 DEF Publish
  <2>2. /\ toBroker' \in {toBroker, <<>>, Append(toBroker, Packet("PUBLISH", 0, m))}
        /\ toClient' \in {toClient, <<>>}
    BY <1>10 DEF Publish, Written, Abort, make_publish, linkVars
  <2>3. Shot(m)
    BY <1>10, <2>1, <2>2 DEF Shot, Publish, brokerVars
  <2> QED BY <2>3 DEF SomeKind
<1>11. ASSUME NEW m \in Msg, NEW id \in NewIds, Publish(m, id) \/ Enqueue(m, id),
              Publish(m, id) => QosOf[m] # 0
       PROVE  SomeKind
  BY <1>11, PublishEnters DEF SomeKind
<1>12. ASSUME BrokerPublishes PROVE Quiet
  <2>1. PICK t \in subscribed : toClient' = Append(toClient, Packet("PUBLISH", 0, t))
    BY <1>12 DEF BrokerPublishes
  <2>2. Packet("PUBLISH", 0, t) \in DownPacket /\ Packet("PUBLISH", 0, t).type \notin Acks
    BY <2>1 DEF Types, DownPacket, Packet, Acks, Body
  <2>3. Range(toClient') = Range(toClient) \cup {Packet("PUBLISH", 0, t)}
    BY <2>1, <2>2, AppendRange DEF Types
  <2> QED BY <1>12, <2>2, <2>3 DEF BrokerPublishes, Quiet, brokerVars
<1>13. Quiet \/ Renewal \/ (\E e \in Stored : Entry(e)) \/ BrokerReceives => SomeKind
  BY DEF SomeKind
<1> QED
  BY <1>1, <1>2, <1>3, <1>4, <1>5, <1>6, <1>7, <1>8, <1>9, <1>10, <1>11, <1>12, <1>13
     DEF Next, TaskStep, Connect, HandlerStep, ReceiveStep, ResendStep, KeepaliveStep, Call, Network

-----------------------------------------------------------------------------
(* Identifiers and messages.                                                 *)

LEMMA WireRange ==
    ASSUME toBroker \in Seq(UpPacket), NEW p \in UpPacket,
           toBroker' \in {toBroker, <<>>, Append(toBroker, p)}
    PROVE  Range(toBroker') \subseteq Range(toBroker) \cup {p}
<1>1. Range(Append(toBroker, p)) = Range(toBroker) \cup {p}
  BY AppendRange
<1>2. Range(<<>>) = {}
  BY EmptyWire
<1> QED BY <1>1, <1>2

\* The elements of the sequences.
LEMMA Elements ==
    ASSUME Types
    PROVE  /\ Range(outbox) \subseteq Stored
           /\ Range(toBroker) \subseteq UpPacket
           /\ Range(toClient) \subseteq DownPacket
BY RangeIs DEF Types

LEMMA NamedInUse ==
    ASSUME Types
    PROVE  /\ \A x \in Named : x[1] \in InUse
           /\ \A i \in AckedIds : i \in InUse
           /\ \A p \in Range(toBroker) : p.id \in InUse
           /\ \A e \in Range(outbox) : e.id \in InUse
<1>1. \A e \in Range(outbox) : e.id \in InUse
  <2>1. \A e \in Range(outbox) : \E k \in DOMAIN outbox : outbox[k] = e
    BY RangeIs, LenProperties DEF Types
  <2> QED BY <2>1 DEF InUse
<1>2. \A p \in Range(toBroker) : p.id \in InUse
  <2>1. \A p \in Range(toBroker) : \E k \in DOMAIN toBroker : toBroker[k] = p
    BY RangeIs, LenProperties DEF Types
  <2> QED BY <2>1 DEF InUse
<1>3. \A p \in Range(toClient) : p.id \in InUse
  <2>1. \A p \in Range(toClient) : \E k \in DOMAIN toClient : toClient[k] = p
    BY RangeIs, LenProperties DEF Types
  <2> QED BY <2>1 DEF InUse
<1>4. \A e \in session : e.id \in InUse
  BY DEF InUse
<1>5. \A x \in Named : x[1] \in InUse
  BY <1>1, <1>2, <1>4 DEF Named, Names
<1>6. \A i \in AckedIds : i \in InUse
  BY <1>1, <1>2, <1>3 DEF AckedIds
<1> QED BY <1>1, <1>2, <1>5, <1>6

LEMMA PingIs ==
    /\ Packet("PINGREQ", 0, None) \in UpPacket
    /\ Packet("PINGREQ", 0, None).type = "PINGREQ"
BY OtherTypes DEF Packet

LEMMA DataIs ==
    ASSUME NEW e \in Stored
    PROVE  /\ outbox_item_get_data(e) \in UpPacket
           /\ outbox_item_get_data(e).type = e.type
           /\ outbox_item_get_data(e).id = e.id
           /\ outbox_item_get_data(e).body = e.body
BY DataType DEF outbox_item_get_data, Packet

LEMMA PubrelIs ==
    ASSUME NEW id \in MsgId
    PROVE  /\ Packet("PUBREL", id, None) \in UpPacket
           /\ Packet("PUBREL", id, None).type = "PUBREL"
           /\ Packet("PUBREL", id, None).id = id
BY OtherTypes DEF Packet

\* Only an entry names something that was not named before.
LEMMA NamesStay ==
    ASSUME Types,
           \/ Quiet
           \/ Renewal
           \/ \E e \in Stored : Transmission(e)
           \/ \E id \in MsgId : Release(id)
           \/ \E m \in Msg : Shot(m)
           \/ BrokerReceives
    PROVE  Named' \subseteq Named
<1>1. SUFFICES Names(Range(outbox'), Range(toBroker'), session') \subseteq Named
  BY DEF Named
<1> USE Elements
<1>2. CASE Quiet
  <2>1. Range(toBroker') \subseteq Range(toBroker) \cup {Packet("PINGREQ", 0, None)}
    BY <1>2, PingIs, WireRange DEF Quiet, Types
  <2> QED BY <1>2, <2>1, PingIs DEF Quiet, Names, Named
<1>3. CASE Renewal
  BY <1>3 DEF Renewal, Names, Named
<1>4. ASSUME NEW e \in Stored, Transmission(e)
      PROVE  Names(Range(outbox'), Range(toBroker'), session') \subseteq Named
  <2>1. Range(toBroker') \subseteq Range(toBroker) \cup {outbox_item_get_data(e)}
    BY <1>4, DataIs, WireRange DEF Transmission, Types
  <2>2. \A f \in Range(outbox') : \E g \in Range(outbox) : f.id = g.id /\ f.body = g.body
    BY <1>4 DEF Transmission, Same
  <2>3. e \in Range(outbox) /\ session' = session
    BY <1>4 DEF Transmission
  <2> QED BY <2>1, <2>2, <2>3, DataIs DEF Names, Named
<1>5. ASSUME NEW id \in MsgId, Release(id)
      PROVE  Names(Range(outbox'), Range(toBroker'), session') \subseteq Named
  <2>1. Range(toBroker') \subseteq Range(toBroker) \cup {Packet("PUBREL", id, None)}
    BY <1>5, PubrelIs, WireRange DEF Release, Types
  <2>2. \A f \in Range(outbox') : \E g \in Range(outbox) : f.id = g.id /\ f.body = g.body
    BY <1>5 DEF Release, Same
  <2>3. session' = session
    BY <1>5 DEF Release
  <2> QED BY <2>1, <2>2, <2>3, PubrelIs DEF Names, Named
<1>6. ASSUME NEW m \in Msg, Shot(m)
      PROVE  Names(Range(outbox'), Range(toBroker'), session') \subseteq Named
  <2>1. Packet("PUBLISH", 0, m) \in UpPacket /\ Packet("PUBLISH", 0, m).id = 0
    BY <1>6 DEF Shot, Packet, UpPacket, UpType, Body
  <2>2. Range(toBroker') \subseteq Range(toBroker) \cup {Packet("PUBLISH", 0, m)}
    BY <1>6, <2>1, WireRange DEF Shot, Types
  <2>3. outbox' = outbox /\ session' = session
    BY <1>6 DEF Shot
  <2> QED BY <2>1, <2>2, <2>3 DEF Names, Named
<1>7. CASE BrokerReceives
  <2>1. PICK p \in UpPacket : /\ p = Head(toBroker) /\ toBroker' = Tail(toBroker)
                              /\ Range(toBroker) = {p} \cup Range(toBroker')
    BY <1>7, TailRange DEF BrokerReceives, Types
  <2>2. outbox' = outbox
    BY <1>7 DEF BrokerReceives
  <2>3. \/ session' \subseteq session
        \/ Qos(p) = 2 /\ session' = session \cup {[id |-> p.id, body |-> p.body]}
    BY <1>7, <2>1 DEF BrokerReceives
  <2>4. Qos(p) = 2 => p.type = "PUBLISH" /\ p.id # 0
    BY IdAssumption DEF Qos, UpPacket
  <2>5. PICK s \in {[id |-> p.id, body |-> p.body]} : s.id = p.id /\ s.body = p.body
    OBVIOUS
  <2> QED BY <2>1, <2>2, <2>3, <2>4, <2>5 DEF Names, Named
<1> QED BY <1>2, <1>3, <1>4, <1>5, <1>6, <1>7

LEMMA IdentifiedKept ==
    ASSUME Types, Identified, SomeKind
    PROVE  Identified'
<1> USE Elements
<1>0. /\ Distinct(outbox) /\ OneToOne(Named)
      /\ \A x \in Named : x[2] \in Msg => x[2] \in published
      /\ \A p \in Range(toBroker) : p.type = "PUBLISH" => p.body \in published
      /\ \A m \in Msg : count[m] > 0 => m \in published
      /\ delivered \cup lost \cup discarded \subseteq published
  BY DEF Identified, Handed
<1>1. Distinct(outbox')
  BY <1>0 DEF SomeKind, Quiet, Renewal, Entry, Transmission, Release, Shot, BrokerReceives
<1>2. published \subseteq published'
  BY DEF SomeKind, Quiet, Renewal, Entry, Transmission, Release, Shot, BrokerReceives, ghostVars
<1>3. OneToOne(Named') /\ \A x \in Named' : x[2] \in Msg => x[2] \in published'
  <2>1. CASE Named' \subseteq Named
    BY <1>0, <1>2, <2>1 DEF OneToOne
  <2>2. ASSUME NEW e \in Stored, Entry(e)
        PROVE  OneToOne(Named') /\ \A x \in Named' : x[2] \in Msg => x[2] \in published'
    <3>1. toBroker' \in {toBroker, <<>>, Append(toBroker, outbox_item_get_data(e))}
      BY <2>2 DEF Entry
    <3>2. Range(toBroker') \subseteq Range(toBroker) \cup {outbox_item_get_data(e)}
      BY <3>1, DataIs, WireRange DEF Types
    <3>3. Range(outbox') = Range(outbox) \cup {e} /\ session' = session
      BY <2>2 DEF Entry
    <3>4. Named' \subseteq Named \cup {<<e.id, e.body>>}
      <4>1. Names(Range(outbox'), Range(toBroker'), session') \subseteq Named \cup {<<e.id, e.body>>}
        BY <3>2, <3>3, DataIs DEF Names, Named
      <4> QED BY <4>1 DEF Named
    <3>5. /\ e.id \notin InUse /\ e.body \notin published
          /\ published' = published \cup ({e.body} \cap Msg)
      BY <2>2 DEF Entry
    <3>6. \A x \in Named : x[1] # e.id /\ (x[2] \in Msg => x[2] # e.body)
      BY <1>0, <3>5, NamedInUse
    <3>9. PICK y : y = <<e.id, e.body>>
      OBVIOUS
    <3>7. y = <<e.id, e.body>> /\ y[1] = e.id /\ y[2] = e.body
      BY <3>9
    <3>8. OneToOne(Named')
      <4>1. ASSUME NEW x \in Named', NEW z \in Named'
            PROVE  (x[1] = z[1] => x[2] = z[2]) /\ (x[2] = z[2] /\ x[2] \in Msg => x[1] = z[1])
        <5>1. (x \in Named \/ x = y) /\ (z \in Named \/ z = y)
          BY <3>4, <3>7
        <5> QED BY <1>0, <3>6, <3>7, <5>1 DEF OneToOne
      <4> QED BY <4>1 DEF OneToOne
    <3> QED BY <1>0, <3>4, <3>5, <3>7, <3>8
  <2> QED BY <2>1, <2>2, NamesStay DEF SomeKind
<1>4. \A p \in Range(toBroker') : p.type = "PUBLISH" => p.body \in published'
  <2>1. CASE Quiet
    <3>1. Range(toBroker') \subseteq Range(toBroker) \cup {Packet("PINGREQ", 0, None)}
      BY <2>1, PingIs, WireRange DEF Quiet, Types
    <3> QED BY <1>0, <1>2, <3>1, PingIs
  <2>2. CASE Renewal
    BY <1>0, <1>2, <2>2 DEF Renewal
  <2>3. ASSUME NEW e \in Stored, Entry(e)
        PROVE  \A p \in Range(toBroker') : p.type = "PUBLISH" => p.body \in published'
    <3>1. toBroker' \in {toBroker, <<>>, Append(toBroker, outbox_item_get_data(e))}
      BY <2>3 DEF Entry
    <3>2. Range(toBroker') \subseteq Range(toBroker) \cup {outbox_item_get_data(e)}
      BY <3>1, DataIs, WireRange DEF Types
    <3>3. e.type = "PUBLISH" => e.body \in published'
      BY <2>3 DEF Entry, Stored
    <3> QED BY <1>0, <1>2, <3>2, <3>3, DataIs
  <2>4. ASSUME NEW e \in Stored, Transmission(e)
        PROVE  \A p \in Range(toBroker') : p.type = "PUBLISH" => p.body \in published'
    <3>1. Range(toBroker') \subseteq Range(toBroker) \cup {outbox_item_get_data(e)}
      BY <2>4, DataIs, WireRange DEF Transmission, Types
    <3>2. e.type = "PUBLISH" => e.body \in published
      <4>1. e.type = "PUBLISH" => e.body \in Msg
        BY DEF Stored
      <4>2. PICK y \in {<<e.id, e.body>>} : y = <<e.id, e.body>> /\ y[2] = e.body
        OBVIOUS
      <4>3. y \in Named
        BY <2>4, <4>2 DEF Transmission, Named, Names
      <4> QED BY <1>0, <4>1, <4>2, <4>3
    <3> QED BY <1>0, <1>2, <3>1, <3>2, DataIs
  <2>5. ASSUME NEW id \in MsgId, Release(id)
        PROVE  \A p \in Range(toBroker') : p.type = "PUBLISH" => p.body \in published'
    <3>1. Range(toBroker') \subseteq Range(toBroker) \cup {Packet("PUBREL", id, None)}
      BY <2>5, PubrelIs, WireRange DEF Release, Types
    <3> QED BY <1>0, <1>2, <3>1, PubrelIs
  <2>6. ASSUME NEW m \in Msg, Shot(m)
        PROVE  \A p \in Range(toBroker') : p.type = "PUBLISH" => p.body \in published'
    <3>1. Packet("PUBLISH", 0, m) \in UpPacket /\ Packet("PUBLISH", 0, m).body = m
      BY <2>6 DEF Shot, Packet, UpPacket, UpType, Body
    <3>2. Range(toBroker') \subseteq Range(toBroker) \cup {Packet("PUBLISH", 0, m)}
      BY <2>6, <3>1, WireRange DEF Shot, Types
    <3>3. m \in published'
      BY <2>6 DEF Shot
    <3> QED BY <1>0, <1>2, <3>1, <3>2, <3>3
  <2>7. CASE BrokerReceives
    <3>1. Range(toBroker') \subseteq Range(toBroker)
      BY <2>7, TailRange DEF BrokerReceives, Types
    <3> QED BY <1>0, <1>2, <3>1
  <2> QED BY <2>1, <2>2, <2>3, <2>4, <2>5, <2>6, <2>7 DEF SomeKind
<1>5. (\A m \in Msg : count'[m] > 0 => m \in published') /\ delivered' \subseteq published'
  <2>1. CASE BrokerReceives
    <3>1. PICK p \in UpPacket : p = Head(toBroker) /\ p \in Range(toBroker)
      BY <2>1, TailRange DEF BrokerReceives, Types
    <3>2. PassedOn(p) \cap Msg \subseteq published
      <4>1. ASSUME NEW e \in session PROVE e.body \in published
        <5>1. e.body \in Msg
          BY DEF Types
        <5>2. PICK y \in {<<e.id, e.body>>} : y = <<e.id, e.body>> /\ y[2] = e.body
          OBVIOUS
        <5>3. y \in Named
          BY <5>2 DEF Named, Names
        <5> QED BY <1>0, <5>1, <5>2, <5>3
      <4> QED BY <1>0, <3>1, <4>1 DEF PassedOn
    <3>3. PassedOn(p) \subseteq Msg
      BY DEF PassedOn, Types, UpPacket
    <3>4. \A m \in Msg : count'[m] > 0 => count[m] > 0 \/ m \in PassedOn(p)
      BY <2>1, <3>1 DEF BrokerReceives
    <3>5. delivered' = delivered \cup PassedOn(p)
      BY <2>1, <3>1 DEF BrokerReceives
    <3> QED BY <1>0, <1>2, <3>2, <3>3, <3>4, <3>5
  <2>2. CASE Renewal
    BY <1>0, <1>2, <2>2 DEF Renewal
  <2>3. CASE UNCHANGED <<count, delivered>>
    BY <1>0, <1>2, <2>3
  <2> QED BY <2>1, <2>2, <2>3 DEF SomeKind, Quiet, Entry, Transmission, Release, Shot
<1>6. discarded' \subseteq published'
  <2>1. CASE Quiet
    <3>1. Bodies(outbox) = {e.body : e \in Range(outbox)}
      BY BodiesAre DEF Types
    <3>2. ASSUME NEW e \in Range(outbox), e.body \in Msg PROVE e.body \in published
      <4>1. PICK y \in {<<e.id, e.body>>} : y = <<e.id, e.body>> /\ y[2] = e.body
        OBVIOUS
      <4>2. y \in Named
        BY <4>1 DEF Named, Names
      <4> QED BY <1>0, <3>2, <4>1, <4>2
    <3> QED BY <1>0, <1>2, <2>1, <3>1, <3>2 DEF Quiet
  <2>2. CASE discarded' = discarded
    BY <1>0, <1>2, <2>2
  <2> QED BY <2>1, <2>2 DEF SomeKind, Renewal, Entry, Transmission, Release, Shot, BrokerReceives, ghostVars
<1>7. lost' \subseteq published'
  <2>1. CASE Renewal
    <3>1. ASSUME NEW e \in session PROVE e.body \in published
      <4>1. e.body \in Msg
        BY DEF Types
      <4>2. PICK y \in {<<e.id, e.body>>} : y = <<e.id, e.body>> /\ y[2] = e.body
        OBVIOUS
      <4>3. y \in Named
        BY <4>2 DEF Named, Names
      <4> QED BY <1>0, <4>1, <4>2, <4>3
    <3> QED BY <1>0, <1>2, <2>1, <3>1 DEF Renewal, Held
  <2>2. CASE lost' = lost
    BY <1>0, <1>2, <2>2
  <2> QED BY <2>1, <2>2 DEF SomeKind, Quiet, Entry, Transmission, Release, Shot, BrokerReceives
<1> QED BY <1>1, <1>3, <1>4, <1>5, <1>6, <1>7 DEF Identified, Handed

\* What carries a name.
Carriers ==
    Range(outbox) \cup session
    \cup {p \in Range(toBroker) : p.type \in {"PUBLISH", "SUBSCRIBE"} /\ p.id # 0}

LEMMA CarriersAgree ==
    ASSUME Identified
    PROVE  /\ \A a, b \in Carriers :
                /\ a.id = b.id => a.body = b.body
                /\ a.body = b.body /\ a.body \in Msg => a.id = b.id
           /\ \A a \in Carriers : a.body \in Msg => a.body \in published
<1>1. ASSUME NEW a \in Carriers PROVE <<a.id, a.body>> \in Named
  BY DEF Carriers, Named, Names
<1>2. ASSUME NEW a \in Carriers, NEW b \in Carriers
      PROVE  /\ a.id = b.id => a.body = b.body
             /\ a.body = b.body /\ a.body \in Msg => a.id = b.id
  <2>1. PICK x \in Named : x = <<a.id, a.body>>
    BY <1>1
  <2>2. PICK y \in Named : y = <<b.id, b.body>>
    BY <1>1
  <2>3. x[1] = a.id /\ x[2] = a.body /\ y[1] = b.id /\ y[2] = b.body
    BY <2>1, <2>2
  <2> QED BY <2>3 DEF Identified, OneToOne
<1>3. ASSUME NEW a \in Carriers, a.body \in Msg PROVE a.body \in published
  <2>1. PICK x \in Named : x = <<a.id, a.body>>
    BY <1>1
  <2>2. x[2] = a.body
    BY <2>1
  <2> QED BY <1>3, <2>2 DEF Identified, Handed
<1> QED BY <1>2, <1>3

\* What the broker passes on.
LEMMA PassedOnIs ==
    ASSUME Types, NEW p \in UpPacket, NEW m \in PassedOn(p)
    PROVE  /\ m \in Msg
           /\ QosOf[m] < 2 => p.type = "PUBLISH" /\ p.body = m
           /\ QosOf[m] = 2 =>
                \/ /\ Onward = "PUBLISH" /\ p.type = "PUBLISH" /\ p.body = m
                   /\ \A e \in session : e.id # p.id
                \/ /\ Onward = "PUBREL" /\ p.type = "PUBREL"
                   /\ \E e \in session : e.id = p.id /\ e.body = m
<1>1. p.type = "PUBLISH" => p.body \in Msg /\ Qos(p) = QosOf[p.body] /\ QosOf[p.body] \in 0 .. 2
  BY ContentAssumption DEF UpPacket, Qos
<1>2. \A e \in session : e.body \in Msg /\ QosOf[e.body] = 2
  BY DEF Types
<1>3. CASE p.type = "PUBLISH" /\ Qos(p) < 2
  <2>1. m = p.body
    BY <1>3 DEF PassedOn
  <2> QED BY <1>1, <1>3, <2>1
<1>4. CASE p.type = "PUBLISH" /\ Qos(p) = 2
  <2>1. Onward = "PUBLISH" /\ {e \in session : e.id = p.id} = {} /\ m = p.body
    BY <1>4 DEF PassedOn
  <2> QED BY <1>1, <1>4, <2>1
<1>5. CASE p.type = "PUBREL"
  <2>1. Onward = "PUBREL" /\ \E e \in session : e.id = p.id /\ e.body = m
    BY <1>5 DEF PassedOn
  <2> QED BY <1>2, <1>5, <2>1
<1>6. CASE p.type \notin {"PUBLISH", "PUBREL"}
  BY <1>6 DEF PassedOn
<1> QED BY <1>1, <1>3, <1>4, <1>5, <1>6

-----------------------------------------------------------------------------
(* Quality of service 0.                                                     *)

LEMMA OnceOfZeroKept ==
    ASSUME Types, Identified, OnceOfZero, SomeKind
    PROVE  OnceOfZero'
<1> USE Elements
<1>0. /\ Singly(toBroker)
      /\ \A e \in Range(outbox) : e.type = "PUBLISH" /\ e.qos = 0 =>
            /\ e.pending # "TRANSMITTED"
            /\ count[e.body] = 0
            /\ \A p \in Range(toBroker) : p.type = "PUBLISH" => p.body # e.body
      /\ \A p \in Range(toBroker) : p.type = "PUBLISH" /\ QosOf[p.body] = 0 => count[p.body] = 0
      /\ \A m \in Msg : QosOf[m] = 0 => count[m] <= 1
  BY DEF OnceOfZero
<1>1. /\ toBroker \in Seq(UpPacket) /\ count \in [Msg -> 0 .. 2]
      /\ \A e \in Stored : e.type = "PUBLISH" => e.body \in Msg /\ e.qos = QosOf[e.body]
      /\ \A p \in UpPacket : p.type = "PUBLISH" => p.body \in Msg
  BY DEF Types, Stored, UpPacket
<1>2. /\ \A e \in Range(outbox) : e.body \in Msg => e.body \in published
      /\ \A p \in Range(toBroker) : p.type = "PUBLISH" => p.body \in published
      /\ \A m \in Msg \ published : count[m] = 0
  <2>1. \A e \in Range(outbox) : e.body \in Msg => e.body \in published
    BY CarriersAgree DEF Carriers
  <2>2. \A m \in Msg \ published : count[m] \in 0 .. 2 /\ ~(count[m] > 0)
    BY <1>1 DEF Identified, Handed
  <2>3. \A m \in Msg \ published : count[m] = 0
    BY <2>2
  <2> QED BY <2>1, <2>3 DEF Identified, Handed
<1>3. CASE Quiet
  <2>1. Range(toBroker') \subseteq Range(toBroker) \cup {Packet("PINGREQ", 0, None)}
    BY <1>1, <1>3, PingIs, WireRange DEF Quiet
  <2>2. Singly(toBroker')
    <3>1. Singly(Append(toBroker, Packet("PINGREQ", 0, None)))
      BY <1>0, <1>1, PingIs, SentSingly
    <3> QED BY <1>0, <1>3, <3>1, EmptyWire DEF Quiet
  <2>3. count' = count /\ Range(outbox') \subseteq Range(outbox)
    BY <1>3 DEF Quiet
  <2> QED BY <1>0, <2>1, <2>2, <2>3, PingIs DEF OnceOfZero
<1>4. CASE Renewal
  <2>1. \A m \in Msg : count'[m] = 0
    BY <1>4 DEF Renewal
  <2>2. outbox' = outbox /\ toBroker' = toBroker
    BY <1>4 DEF Renewal
  <2> QED BY <1>0, <1>1, <2>1, <2>2 DEF OnceOfZero
<1>5. ASSUME NEW e \in Stored, Entry(e) PROVE OnceOfZero'
  <2> DEFINE d == outbox_item_get_data(e)
  <2>0. d \in UpPacket /\ d.type = e.type /\ d.id = e.id /\ d.body = e.body
    BY DataIs
  <2>1. toBroker' \in {toBroker, <<>>, Append(toBroker, d)}
    BY <1>5 DEF Entry
  <2> HIDE DEF d
  <2>2. Range(toBroker') \subseteq Range(toBroker) \cup {d}
    BY <1>1, <2>0, <2>1, WireRange
  <2>3. /\ Range(outbox') = Range(outbox) \cup {e} /\ count' = count /\ e.body \notin published
        /\ e.type = "PUBLISH" /\ e.qos = 0 =>
                e.pending # "TRANSMITTED" /\ toBroker' \in {toBroker, <<>>}
    BY <1>5 DEF Entry
  <2>4. Singly(toBroker')
    <3>1. e.type = "PUBLISH" => \A q \in Range(toBroker) : q.type = "PUBLISH" => q.body # e.body
      BY <1>2, <2>3
    <3>2. Singly(Append(toBroker, d))
      BY <1>0, <1>1, <2>0, <3>1, SentSingly
    <3> QED BY <1>0, <2>1, <3>2, EmptyWire
  <2>5. ASSUME NEW f \in Range(outbox'), f.type = "PUBLISH", f.qos = 0
        PROVE  /\ f.pending # "TRANSMITTED" /\ count'[f.body] = 0
               /\ \A p \in Range(toBroker') : p.type = "PUBLISH" => p.body # f.body
    <3>1. CASE f \in Range(outbox)
      <4>1. f.body \in published
        BY <1>1, <1>2, <2>5, <3>1
      <4> QED BY <1>0, <2>0, <2>2, <2>3, <2>5, <3>1, <4>1
    <3>2. CASE f = e
      <4>1. Range(toBroker') \subseteq Range(toBroker)
        BY <2>3, <2>5, <3>2, EmptyWire
      <4> QED BY <1>1, <1>2, <2>3, <2>5, <3>2, <4>1
    <3> QED BY <2>3, <3>1, <3>2
  <2>6. ASSUME NEW p \in Range(toBroker'), p.type = "PUBLISH", QosOf[p.body] = 0 PROVE count'[p.body] = 0
    <3>1. CASE p \in Range(toBroker)
      BY <1>0, <2>3, <2>6, <3>1
    <3>2. CASE p = d
      BY <1>1, <1>2, <2>0, <2>3, <2>6, <3>2
    <3> QED BY <2>2, <3>1, <3>2
  <2> QED BY <1>0, <2>3, <2>4, <2>5, <2>6 DEF OnceOfZero
<1>6. ASSUME NEW e \in Stored, Transmission(e) PROVE OnceOfZero'
  <2> DEFINE d == outbox_item_get_data(e)
  <2>0. d \in UpPacket /\ d.type = e.type /\ d.id = e.id /\ d.body = e.body
    BY DataIs
  <2>1. toBroker' \in {toBroker, Append(toBroker, d)}
    BY <1>6 DEF Transmission
  <2> HIDE DEF d
  <2>2. Range(toBroker') \subseteq Range(toBroker) \cup {d}
    BY <1>1, <2>0, <2>1, WireRange
  <2>3. /\ e \in Range(outbox) /\ count' = count
        /\ \A f \in Range(outbox') :
                \/ f \in Range(outbox) /\ f.id # e.id
                \/ Same(f, e) /\ ~(e.type = "PUBLISH" /\ e.qos = 0)
    BY <1>6 DEF Transmission
  <2>4. e.type = "PUBLISH" /\ QosOf[e.body] = 0 =>
            count[e.body] = 0 /\ \A q \in Range(toBroker) : q.type = "PUBLISH" => q.body # e.body
    BY <1>0, <1>1, <2>3
  <2>5. Singly(toBroker')
    <3>1. Singly(Append(toBroker, d))
      BY <1>0, <1>1, <2>0, <2>4, SentSingly
    <3> QED BY <1>0, <2>1, <3>1
  <2>6. ASSUME NEW f \in Range(outbox'), f.type = "PUBLISH", f.qos = 0
        PROVE  /\ f.pending # "TRANSMITTED" /\ count'[f.body] = 0
               /\ \A p \in Range(toBroker') : p.type = "PUBLISH" => p.body # f.body
    <3>1. f \in Range(outbox) /\ f.id # e.id
      BY <2>3, <2>6 DEF Same
    <3>2. f.body # e.body
      <4>1. f \in Carriers /\ e \in Carriers /\ f.body \in Msg
        BY <1>1, <2>3, <2>6, <3>1 DEF Carriers
      <4> QED BY <3>1, <4>1, CarriersAgree
    <3> QED BY <1>0, <2>0, <2>2, <2>3, <2>6, <3>1, <3>2
  <2>7. ASSUME NEW p \in Range(toBroker'), p.type = "PUBLISH", QosOf[p.body] = 0 PROVE count'[p.body] = 0
    BY <1>0, <2>0, <2>2, <2>3, <2>4, <2>7
  <2> QED BY <1>0, <2>3, <2>5, <2>6, <2>7 DEF OnceOfZero
<1>7. ASSUME NEW id \in MsgId, Release(id) PROVE OnceOfZero'
  <2> DEFINE d == Packet("PUBREL", id, None)
  <2>0. d \in UpPacket /\ d.type = "PUBREL"
    BY PubrelIs
  <2>1. toBroker' \in {toBroker, Append(toBroker, d)}
    BY <1>7 DEF Release
  <2> HIDE DEF d
  <2>2. Range(toBroker') \subseteq Range(toBroker) \cup {d}
    BY <1>1, <2>0, <2>1, WireRange
  <2>3. Singly(toBroker')
    <3>1. Singly(Append(toBroker, d))
      BY <1>0, <1>1, <2>0, SentSingly
    <3> QED BY <1>0, <2>1, <3>1
  <2>4. /\ count' = count
        /\ \A f \in Range(outbox') :
              \/ f \in Range(outbox)
              \/ f.pending = "ACKNOWLEDGED" /\ \E e \in Range(outbox) : Same(f, e)
    BY <1>7 DEF Release
  <2>5. ASSUME NEW f \in Range(outbox'), f.type = "PUBLISH", f.qos = 0
        PROVE  /\ f.pending # "TRANSMITTED" /\ count'[f.body] = 0
               /\ \A p \in Range(toBroker') : p.type = "PUBLISH" => p.body # f.body
    <3>1. CASE f \in Range(outbox)
      BY <1>0, <2>0, <2>2, <2>4, <2>5, <3>1
    <3>2. ASSUME f.pending = "ACKNOWLEDGED", NEW e \in Range(outbox), Same(f, e)
          PROVE  /\ f.pending # "TRANSMITTED" /\ count'[f.body] = 0
                 /\ \A p \in Range(toBroker') : p.type = "PUBLISH" => p.body # f.body
      BY <1>0, <2>0, <2>2, <2>4, <2>5, <3>2 DEF Same
    <3> QED BY <2>4, <3>1, <3>2
  <2> QED BY <1>0, <2>0, <2>2, <2>3, <2>4, <2>5 DEF OnceOfZero
<1>8. ASSUME NEW m \in Msg, Shot(m) PROVE OnceOfZero'
  <2> DEFINE d == Packet("PUBLISH", 0, m)
  <2>0. d \in UpPacket /\ d.type = "PUBLISH" /\ d.body = m
    BY <1>8 DEF Shot, Packet, UpPacket, UpType, Body
  <2>1. /\ toBroker' \in {toBroker, <<>>, Append(toBroker, d)}
        /\ outbox' = outbox /\ count' = count /\ m \notin published
    BY <1>8 DEF Shot
  <2> HIDE DEF d
  <2>2. Range(toBroker') \subseteq Range(toBroker) \cup {d}
    BY <1>1, <2>0, <2>1, WireRange
  <2>3. Singly(toBroker')
    <3>1. Singly(Append(toBroker, d))
      BY <1>0, <1>1, <1>2, <2>0, <2>1, SentSingly
    <3> QED BY <1>0, <2>1, <3>1, EmptyWire
  <2>4. \A f \in Range(outbox) : f.type = "PUBLISH" => f.body # m
    BY <1>1, <1>2, <2>1
  <2> QED BY <1>0, <1>2, <2>0, <2>1, <2>2, <2>3, <2>4 DEF OnceOfZero
<1>9. CASE BrokerReceives
  <2>1. PICK p \in UpPacket : /\ p = Head(toBroker) /\ toBroker' = Tail(toBroker) /\ toBroker # <<>>
                              /\ Range(toBroker) = {p} \cup Range(toBroker')
    BY <1>1, <1>9, TailRange DEF BrokerReceives
  <2>2. /\ outbox' = outbox
        /\ \A m \in Msg : count'[m] = IF m \in PassedOn(p) /\ count[m] < 2 THEN count[m] + 1 ELSE count[m]
    BY <1>9, <2>1 DEF BrokerReceives
  <2>3. /\ Singly(toBroker')
        /\ p.type = "PUBLISH" /\ QosOf[p.body] = 0 =>
              \A q \in Range(toBroker') : q.type = "PUBLISH" => q.body # p.body
    <3>1. Singly(Tail(toBroker)) /\ (p.type = "PUBLISH" /\ QosOf[p.body] = 0 =>
              \A q \in Range(Tail(toBroker)) : q.type = "PUBLISH" => q.body # p.body)
      BY <1>0, <1>1, <2>1, ZeroLeaves
    <3> QED BY <2>1, <3>1
  <2>4. ASSUME NEW m \in Msg, QosOf[m] = 0, m \in PassedOn(p)
        PROVE  p.type = "PUBLISH" /\ p.body = m /\ count[m] = 0
    <3>1. p.type = "PUBLISH" /\ p.body = m
      BY <2>4, PassedOnIs
    <3> QED BY <1>0, <2>1, <2>4, <3>1
  <2>5. ASSUME NEW f \in Range(outbox), f.type = "PUBLISH", f.qos = 0
        PROVE  f.pending # "TRANSMITTED" /\ count'[f.body] = 0
               /\ \A q \in Range(toBroker') : q.type = "PUBLISH" => q.body # f.body
    <3>1. f.body \in Msg /\ QosOf[f.body] = 0
      BY <1>1, <2>5
    <3>2. f.body \notin PassedOn(p)
      BY <1>0, <2>1, <2>4, <2>5, <3>1
    <3> QED BY <1>0, <2>1, <2>2, <2>5, <3>1, <3>2
  <2>6. ASSUME NEW q \in Range(toBroker'), q.type = "PUBLISH", QosOf[q.body] = 0 PROVE count'[q.body] = 0
    <3>1. q.body \in Msg /\ q \in Range(toBroker)
      BY <1>1, <2>1, <2>6
    <3>2. q.body \notin PassedOn(p)
      BY <2>3, <2>4, <2>6, <3>1
    <3> QED BY <1>0, <2>2, <2>6, <3>1, <3>2
  <2>7. \A m \in Msg : QosOf[m] = 0 => count'[m] <= 1
    BY <1>0, <2>2, <2>4
  <2> QED BY <2>2, <2>3, <2>5, <2>6, <2>7 DEF OnceOfZero
<1> QED BY <1>3, <1>4, <1>5, <1>6, <1>7, <1>8, <1>9 DEF SomeKind

-----------------------------------------------------------------------------
(* Quality of service 2.                                                     *)

LEMMA OnceOfTwoKept ==
    ASSUME Types, Identified, OnceOfTwo, SomeKind
    PROVE  OnceOfTwo'
<1> USE Elements
<1>0. /\ Orderly(toBroker)
      /\ \A p \in Range(toBroker), e \in Range(outbox) :
            p.type = "PUBREL" /\ p.id = e.id => e.pending = "ACKNOWLEDGED"
      /\ \A m \in Msg : QosOf[m] = 2 /\ count[m] > 0 =>
            /\ count[m] = 1
            /\ (Onward = "PUBLISH" /\ \E e \in session : e.body = m) \/ Gone(m)
  BY DEF OnceOfTwo
<1>1. /\ toBroker \in Seq(UpPacket) /\ count \in [Msg -> 0 .. 2]
      /\ \A e \in Stored : e.type = "PUBLISH" => e.body \in Msg /\ e.qos = QosOf[e.body]
      /\ \A p \in UpPacket : p.type = "PUBLISH" => p.body \in Msg
      /\ \A p \in UpPacket : p.type = "PUBREL" => p.id \in MsgId /\ p.id # 0
  BY IdAssumption DEF Types, Stored, UpPacket
<1>2. \A m \in Msg : count[m] > 0 => m \in published
  BY DEF Identified, Handed
<1>3. CASE Quiet
  <2>1. Range(toBroker') \subseteq Range(toBroker) \cup {Packet("PINGREQ", 0, None)}
    BY <1>1, <1>3, PingIs, WireRange DEF Quiet
  <2>2. Orderly(toBroker')
    <3>1. Orderly(Append(toBroker, Packet("PINGREQ", 0, None)))
      BY <1>0, <1>1, PingIs, SentOrderly
    <3> QED BY <1>0, <1>3, <3>1, EmptyWire DEF Quiet
  <2>3. count' = count /\ session' = session /\ Range(outbox') \subseteq Range(outbox)
    BY <1>3 DEF Quiet
  <2>4. \A m \in Msg : Gone(m) => Gone(m)'
    BY <2>1, <2>3, PingIs DEF Gone
  <2>5. \A p \in Range(toBroker'), e \in Range(outbox') :
            p.type = "PUBREL" /\ p.id = e.id => e.pending = "ACKNOWLEDGED"
    BY <1>0, <2>1, <2>3, PingIs
  <2> QED BY <1>0, <2>2, <2>3, <2>4, <2>5 DEF OnceOfTwo
<1>4. CASE Renewal
  <2>1. \A m \in Msg : ~(count'[m] > 0)
    BY <1>4 DEF Renewal
  <2>2. outbox' = outbox /\ toBroker' = toBroker
    BY <1>4 DEF Renewal
  <2> QED BY <1>0, <2>1, <2>2 DEF OnceOfTwo
<1>5. ASSUME NEW e \in Stored, Entry(e) PROVE OnceOfTwo'
  <2> DEFINE d == outbox_item_get_data(e)
  <2>0. d \in UpPacket /\ d.type = e.type /\ d.id = e.id /\ d.body = e.body /\ e.type # "PUBREL"
    BY DataIs DEF Stored, Items, MsgType
  <2>1. toBroker' \in {toBroker, <<>>, Append(toBroker, d)}
    BY <1>5 DEF Entry
  <2> HIDE DEF d
  <2>2. Range(toBroker') \subseteq Range(toBroker) \cup {d}
    BY <1>1, <2>0, <2>1, WireRange
  <2>3. /\ Range(outbox') = Range(outbox) \cup {e} /\ count' = count /\ session' = session
        /\ e.body \notin published /\ \A q \in Range(toBroker) : q.id # e.id
    BY <1>5, NamedInUse DEF Entry
  <2>4. Orderly(toBroker')
    <3>1. Orderly(Append(toBroker, d))
      BY <1>0, <1>1, <2>0, <2>3, SentOrderly
    <3> QED BY <1>0, <2>1, <3>1, EmptyWire
  <2>5. ASSUME NEW p \in Range(toBroker'), NEW f \in Range(outbox'), p.type = "PUBREL", p.id = f.id
        PROVE  f.pending = "ACKNOWLEDGED"
    <3>1. p \in Range(toBroker)
      BY <2>0, <2>2, <2>5
    <3> QED BY <1>0, <2>3, <2>5, <3>1
  <2>6. ASSUME NEW m \in Msg, count[m] > 0, Gone(m) PROVE Gone(m)'
    <3>1. m # e.body
      BY <1>2, <2>3, <2>6
    <3> QED BY <2>0, <2>2, <2>3, <2>6, <3>1 DEF Gone
  <2> QED BY <1>0, <2>3, <2>4, <2>5, <2>6 DEF OnceOfTwo
<1>6. ASSUME NEW e \in Stored, Transmission(e) PROVE OnceOfTwo'
  <2> DEFINE d == outbox_item_get_data(e)
  <2>0. d \in UpPacket /\ d.type = e.type /\ d.id = e.id /\ d.body = e.body /\ e.type # "PUBREL"
    BY DataIs DEF Stored, Items, MsgType
  <2>1. toBroker' \in {toBroker, Append(toBroker, d)}
    BY <1>6 DEF Transmission
  <2> HIDE DEF d
  <2>2. Range(toBroker') \subseteq Range(toBroker) \cup {d}
    BY <1>1, <2>0, <2>1, WireRange
  <2>3. /\ e \in Range(outbox) /\ count' = count /\ session' = session /\ e.pending # "ACKNOWLEDGED"
        /\ \A f \in Range(outbox') : f \in Range(outbox) \/ Same(f, e)
    BY <1>6 DEF Transmission
  <2>4. \A q \in Range(toBroker) : q.type = "PUBREL" => q.id # e.id
    BY <1>0, <2>3
  <2>5. Orderly(toBroker')
    <3>1. Orderly(Append(toBroker, d))
      BY <1>0, <1>1, <2>0, <2>4, SentOrderly
    <3> QED BY <1>0, <2>1, <3>1
  <2>6. ASSUME NEW p \in Range(toBroker'), NEW f \in Range(outbox'), p.type = "PUBREL", p.id = f.id
        PROVE  f.pending = "ACKNOWLEDGED"
    <3>1. p \in Range(toBroker)
      BY <2>0, <2>2, <2>6
    <3> QED BY <1>0, <2>3, <2>4, <2>6, <3>1 DEF Same
  <2>7. ASSUME NEW m \in Msg, Gone(m) PROVE Gone(m)'
    <3>1. m # e.body
      BY <2>3, <2>7 DEF Gone
    <3> QED BY <2>0, <2>2, <2>3, <2>7, <3>1 DEF Gone, Same
  <2> QED BY <1>0, <2>3, <2>5, <2>6, <2>7 DEF OnceOfTwo
<1>7. ASSUME NEW id \in MsgId, Release(id) PROVE OnceOfTwo'
  <2> DEFINE d == Packet("PUBREL", id, None)
  <2>0. d \in UpPacket /\ d.type = "PUBREL" /\ d.id = id
    BY PubrelIs
  <2>1. toBroker' \in {toBroker, Append(toBroker, d)}
    BY <1>7 DEF Release
  <2> HIDE DEF d
  <2>2. Range(toBroker') \subseteq Range(toBroker) \cup {d}
    BY <1>1, <2>0, <2>1, WireRange
  <2>3. Orderly(toBroker')
    <3>1. Orderly(Append(toBroker, d))
      BY <1>0, <1>1, <2>0, SentOrderly
    <3> QED BY <1>0, <2>1, <3>1
  <2>4. /\ count' = count /\ session' = session
        /\ \A f \in Range(outbox') :
              /\ f.id = id => f.pending = "ACKNOWLEDGED"
              /\ f \in Range(outbox) \/ f.id = id
    BY <1>7 DEF Release
  <2>5. \A p \in Range(toBroker'), f \in Range(outbox') :
            p.type = "PUBREL" /\ p.id = f.id => f.pending = "ACKNOWLEDGED"
    BY <1>0, <2>0, <2>2, <2>4
  <2>6. \A m \in Msg : Gone(m) => Gone(m)'
    BY <2>0, <2>2, <2>4 DEF Gone
  <2> QED BY <1>0, <2>3, <2>4, <2>5, <2>6 DEF OnceOfTwo
<1>8. ASSUME NEW n \in Msg, Shot(n) PROVE OnceOfTwo'
  <2> DEFINE d == Packet("PUBLISH", 0, n)
  <2>0. d \in UpPacket /\ d.type = "PUBLISH" /\ d.body = n /\ d.id = 0
    BY <1>8 DEF Shot, Packet, UpPacket, UpType, Body
  <2>1. /\ toBroker' \in {toBroker, <<>>, Append(toBroker, d)}
        /\ outbox' = outbox /\ count' = count /\ session' = session /\ QosOf[n] = 0
    BY <1>8 DEF Shot
  <2> HIDE DEF d
  <2>2. Range(toBroker') \subseteq Range(toBroker) \cup {d}
    BY <1>1, <2>0, <2>1, WireRange
  <2>3. Orderly(toBroker')
    <3>1. \A q \in Range(toBroker) : q.type = "PUBREL" => q.id # d.id
      BY <1>1, <2>0
    <3>2. Orderly(Append(toBroker, d))
      BY <1>0, <1>1, <2>0, <3>1, SentOrderly
    <3> QED BY <1>0, <2>1, <3>2, EmptyWire
  <2>4. \A p \in Range(toBroker'), f \in Range(outbox') :
            p.type = "PUBREL" /\ p.id = f.id => f.pending = "ACKNOWLEDGED"
    BY <1>0, <2>0, <2>1, <2>2
  <2>5. \A m \in Msg : QosOf[m] = 2 /\ Gone(m) => Gone(m)'
    <3>1. \A m \in Msg : QosOf[m] = 2 => m # n
      BY <2>1
    <3> QED BY <2>0, <2>1, <2>2, <3>1 DEF Gone
  <2> QED BY <1>0, <2>1, <2>3, <2>4, <2>5 DEF OnceOfTwo
<1>9. CASE BrokerReceives
  <2>1. PICK p \in UpPacket : /\ p = Head(toBroker) /\ toBroker' = Tail(toBroker) /\ toBroker # <<>>
                              /\ Range(toBroker) = {p} \cup Range(toBroker')
    BY <1>1, <1>9, TailRange DEF BrokerReceives
  <2>2. /\ outbox' = outbox
        /\ \A m \in Msg : count'[m] = IF m \in PassedOn(p) /\ count[m] < 2 THEN count[m] + 1 ELSE count[m]
    BY <1>9, <2>1 DEF BrokerReceives
  <2>3. /\ Orderly(toBroker')
        /\ p.type = "PUBREL" => \A q \in Range(toBroker') : q.type = "PUBLISH" => q.id # p.id
    <3>1. /\ Orderly(Tail(toBroker))
          /\ p.type = "PUBREL" => \A q \in Range(Tail(toBroker)) : q.type = "PUBLISH" => q.id # p.id
      BY <1>0, <1>1, <2>1, ReleaseLeaves
    <3> QED BY <2>1, <3>1
  <2> DEFINE held == {e \in session : e.id = p.id}
             s == [id |-> p.id, body |-> p.body]
  <2>4. /\ Qos(p) = 2 /\ held = {} => session' = session \cup {s}
        /\ p.type = "PUBREL" => session' = session \ held
        /\ ~(Qos(p) = 2 /\ held = {}) /\ p.type # "PUBREL" => session' = session
    <3>1. p.type = "PUBREL" => Qos(p) # 2
      BY DEF Qos
    <3> QED BY <1>9, <2>1, <3>1 DEF BrokerReceives
  <2>5. s.id = p.id /\ s.body = p.body
    OBVIOUS
  <2>6. \A q \in Range(toBroker'), f \in Range(outbox') :
            q.type = "PUBREL" /\ q.id = f.id => f.pending = "ACKNOWLEDGED"
    BY <1>0, <2>1, <2>2
  <2>7. \A e \in session : e.body \in Msg /\ QosOf[e.body] = 2 /\ e \in Carriers
    BY DEF Types, Carriers
  <2>8. \A q \in Range(toBroker) : q.type = "PUBLISH" /\ QosOf[q.body] = 2 => q \in Carriers
    <3>1. \A q \in UpPacket : q.type = "PUBLISH" /\ QosOf[q.body] = 2 => q.id # 0
      BY IdAssumption DEF UpPacket
    <3> QED BY <3>1 DEF Carriers
  <2>9. \A e \in Range(outbox) : e \in Carriers
    BY DEF Carriers
  \* A message that the broker held and that is released is gone.
  <2>10. ASSUME NEW m \in Msg, QosOf[m] = 2, p.type = "PUBREL", NEW e \in session, e.id = p.id, e.body = m
         PROVE  Gone(m)'
    <3>1. \A f \in session' : f.body # m
      BY <2>4, <2>7, <2>10, CarriersAgree
    <3>2. \A q \in Range(toBroker') : q.type = "PUBLISH" => q.body # m
      <4>1. ASSUME NEW q \in Range(toBroker'), q.type = "PUBLISH", q.body = m PROVE FALSE
        <5>1. q \in Carriers /\ e \in Carriers
          BY <2>1, <2>7, <2>8, <2>10, <4>1
        <5>2. q.id = p.id
          BY <2>10, <4>1, <5>1, CarriersAgree
        <5> QED BY <2>3, <2>10, <4>1, <5>2
      <4> QED BY <4>1
    <3>3. \A f \in Range(outbox') : f.body = m => f.pending = "ACKNOWLEDGED"
      <4>1. ASSUME NEW f \in Range(outbox), f.body = m PROVE f.pending = "ACKNOWLEDGED"
        <5>1. f.id = p.id
          BY <2>7, <2>9, <2>10, <4>1, CarriersAgree
        <5> QED BY <1>0, <2>1, <2>10, <5>1
      <4> QED BY <2>2, <4>1
    <3> QED BY <3>1, <3>2, <3>3 DEF Gone
  \* One that is gone stays gone: no PUBLISH of it comes.
  <2>11. ASSUME NEW m \in Msg, Gone(m) PROVE Gone(m)'
    <3>1. p.type = "PUBLISH" => p.body # m
      BY <2>1, <2>11 DEF Gone
    <3>2. Qos(p) = 2 => p.type = "PUBLISH"
      BY DEF Qos
    <3>3. \A f \in session' : f.body # m
      BY <2>4, <2>5, <2>11, <3>1, <3>2 DEF Gone
    <3> QED BY <2>1, <2>2, <2>11, <3>3 DEF Gone
  <2>12. ASSUME NEW m \in Msg, QosOf[m] = 2, count'[m] > 0
         PROVE  /\ count'[m] = 1
                /\ (Onward = "PUBLISH" /\ \E e \in session' : e.body = m) \/ Gone(m)'
    <3>0. count[m] \in 0 .. 2
      BY <1>1
    <3>1. CASE m \in PassedOn(p) /\ Onward = "PUBLISH"
      <4>1. p.type = "PUBLISH" /\ p.body = m /\ \A e \in session : e.id # p.id
        BY <2>12, <3>1, PassedOnIs
      <4>2. count[m] = 0
        <5>1. ASSUME count[m] > 0 PROVE FALSE
          <6>1. ~Gone(m)
            BY <2>1, <4>1 DEF Gone
          <6>2. PICK e \in session : e.body = m
            BY <1>0, <2>12, <5>1, <6>1
          <6>3. p \in Carriers
            BY <2>1, <2>8, <2>12, <4>1
          <6>4. e.id = p.id
            BY <2>7, <4>1, <6>2, <6>3, CarriersAgree
          <6> QED BY <4>1, <6>4
        <5> QED BY <3>0, <5>1
      <4>3. session' = session \cup {s}
        <5>1. Qos(p) = 2 /\ held = {}
          BY <2>12, <4>1 DEF Qos
        <5> QED BY <2>4, <5>1
      <4>4. s \in session' /\ s.body = m
        BY <2>5, <4>1, <4>3
      <4> QED BY <2>2, <3>1, <4>2, <4>4
    <3>2. CASE m \in PassedOn(p) /\ Onward # "PUBLISH"
      <4>1. p.type = "PUBREL" /\ \E e \in session : e.id = p.id /\ e.body = m
        BY <2>12, <3>2, PassedOnIs
      <4>2. ~Gone(m)
        BY <4>1 DEF Gone
      <4>3. count[m] = 0
        BY <1>0, <2>12, <3>0, <3>2, <4>2
      <4>4. Gone(m)'
        BY <2>10, <2>12, <4>1
      <4> QED BY <2>2, <3>2, <4>3, <4>4
    <3>3. CASE m \notin PassedOn(p)
      <4>1. count'[m] = count[m]
        BY <2>2, <3>3
      <4>2. CASE Gone(m)
        BY <1>0, <2>11, <2>12, <4>1, <4>2
      <4>3. CASE ~Gone(m)
        <5>1. PICK e \in session : e.body = m
          BY <1>0, <2>12, <4>1, <4>3
        <5>2. CASE p.type = "PUBREL" /\ e.id = p.id
          BY <1>0, <2>10, <2>12, <4>1, <5>1, <5>2
        <5>3. CASE ~(p.type = "PUBREL" /\ e.id = p.id)
          <6>1. e \in session'
            BY <2>4, <5>3
          <6> QED BY <1>0, <2>12, <4>1, <4>3, <5>1, <6>1
        <5> QED BY <5>2, <5>3
      <4> QED BY <4>2, <4>3
    <3> QED BY <3>1, <3>2, <3>3
  <2> QED BY <2>3, <2>6, <2>12 DEF OnceOfTwo
<1> QED BY <1>3, <1>4, <1>5, <1>6, <1>7, <1>8, <1>9 DEF SomeKind

\* The inductive invariant of what is delivered once.
Once == Types /\ Identified /\ OnceOfZero /\ OnceOfTwo

LEMMA InitOnce == Init => Once
<1> SUFFICES ASSUME Init PROVE Once
  OBVIOUS
<1>1. /\ outbox = <<>> /\ toBroker = <<>> /\ toClient = <<>> /\ session = {}
      /\ delivered = {} /\ lost = {} /\ discarded = {} /\ count = [m \in Msg |-> 0]
  BY DEF Init, outbox_init
<1>2. \A m \in Msg : count[m] = 0
  BY <1>1
<1>3. Distinct(outbox)
  <2>1. PICK t \in Seq(Stored) : t = <<>> /\ Len(t) = 0
    BY EmptySeq
  <2> QED BY <1>1, <2>1 DEF Distinct
<1>4. Range(outbox) = {} /\ Range(toBroker) = {} /\ Orderly(toBroker) /\ Singly(toBroker)
  BY <1>1, EmptyWire
<1>5. Named = {}
  BY <1>1, <1>4 DEF Named, Names
<1>6. Identified
  BY <1>1, <1>2, <1>3, <1>4, <1>5 DEF Identified, Handed, OneToOne
<1>7. OnceOfZero /\ OnceOfTwo
  BY <1>2, <1>4 DEF OnceOfZero, OnceOfTwo
<1> QED BY <1>6, <1>7, InitTypes DEF Once

LEMMA EveryStep ==
    ASSUME ~Reuse, Once, [Next]_vars
    PROVE  SomeKind
<1>1. Types /\ Distinct(outbox) /\ NoneKept
  BY DEF Once, OnceOfZero, NoneKept, Identified
<1>2. CASE Next
  BY <1>1, <1>2, StepKinds
<1>3. CASE UNCHANGED vars
  <2>1. Quiet
    BY <1>1, <1>3, QuietCut DEF vars, linkVars, ghostVars
  <2> QED BY <2>1 DEF SomeKind
<1> QED BY <1>2, <1>3

LEMMA OnceKept ==
    ASSUME ~Reuse, Once, [Next]_vars
    PROVE  Once'
<1>1. Types'
  BY TypesKept DEF Once
<1>2. Identified' /\ OnceOfZero' /\ OnceOfTwo'
  BY EveryStep, IdentifiedKept, OnceOfZeroKept, OnceOfTwoKept DEF Once
<1> QED BY <1>1, <1>2 DEF Once

\* While no identifier is drawn that is in use, the broker delivers a message of quality
\* of service 0 or 2 at most once in a session, whatever is sent again and when, and
\* whether it passes on a message of quality of service 2 on its PUBLISH or its PUBREL.
THEOREM DeliveredOnce ==
    ASSUME ~Reuse
    PROVE  Spec => []AtMostOnce
<1>1. Once => AtMostOnce
  <2> SUFFICES ASSUME Once, NEW m \in Msg, QosOf[m] # 1 PROVE count[m] <= 1
    BY DEF AtMostOnce
  <2>1. count[m] \in 0 .. 2 /\ QosOf[m] \in {0, 2}
    BY ContentAssumption DEF Once, Types
  <2>2. CASE QosOf[m] = 0
    BY <2>2 DEF Once, OnceOfZero
  <2>3. CASE QosOf[m] = 2
    <3>1. count[m] > 0 => count[m] = 1
      BY <2>3 DEF Once, OnceOfTwo
    <3> QED BY <2>1, <3>1
  <2> QED BY <2>1, <2>2, <2>3
<1>2. Init => Once
  BY InitOnce
<1>3. Once /\ [Next]_vars => Once'
  BY OnceKept
<1> QED BY <1>1, <1>2, <1>3, PTL DEF Spec

-----------------------------------------------------------------------------
(* What was acknowledged is at the broker, was passed on, or was lost with a *)
(* session.                                                                  *)

\* The identifiers of acknowledgements on their way, and of what follows them.
AckedBy(items, packets, answers) ==
    {p.id : p \in {q \in answers : q.type \in Acks}}
    \cup {p.id : p \in {q \in packets : q.type = "PUBREL"}}
    \cup {e.id : e \in {f \in items : f.pending = "ACKNOWLEDGED"}}

LEMMA AcknowledgedKept ==
    ASSUME Types, Identified, Acknowledged, SomeKind
    PROVE  Acknowledged'
<1> USE Elements
<1>0. /\ \A x \in Named : x[1] \in AckedIds /\ x[2] \in Msg => x[2] \in AtBroker
      /\ \A x \in Named : x[1] \in SettledIds /\ x[2] \in Msg => x[2] \in delivered \cup lost
      /\ Onward = "PUBLISH" => \A e \in session : e.body \in delivered
  BY DEF Acknowledged
<1>1. toBroker \in Seq(UpPacket) /\ toClient \in Seq(DownPacket)
  BY DEF Types
<1>a. /\ AckedIds = AckedBy(Range(outbox), Range(toBroker), Range(toClient))
      /\ AckedIds' = AckedBy(Range(outbox'), Range(toBroker'), Range(toClient'))
  BY DEF AckedIds, AckedBy
<1>b. ASSUME \A p \in Range(toClient') : p.type \in Acks => p \in Range(toClient)
      PROVE  SettledIds' \subseteq SettledIds
  BY <1>b DEF SettledIds, Acks
<1>2. ASSUME Named' \subseteq Named, AckedIds' \subseteq AckedIds, UNCHANGED <<session, delivered, lost>>,
             \A p \in Range(toClient') : p.type \in Acks => p \in Range(toClient)
      PROVE  Acknowledged'
  <2>1. AtBroker' = AtBroker
    BY <1>2 DEF AtBroker
  <2> QED BY <1>0, <1>2, <1>b, <2>1 DEF Acknowledged
<1>3. CASE Quiet
  <2>1. Range(toBroker') \subseteq Range(toBroker) \cup {Packet("PINGREQ", 0, None)}
    BY <1>1, <1>3, PingIs, WireRange DEF Quiet
  <2>2. AckedIds' \subseteq AckedIds
    BY <1>a, <1>3, <2>1, PingIs DEF AckedBy, Quiet
  <2>3. Named' \subseteq Named
    BY <1>3, NamesStay
  <2>4. /\ UNCHANGED <<session, delivered, lost>>
        /\ \A p \in Range(toClient') : p.type \in Acks => p \in Range(toClient)
    BY <1>3 DEF Quiet
  <2> QED BY <1>2, <2>2, <2>3, <2>4
<1>4. CASE Renewal
  <2>1. /\ AckedIds' = AckedIds /\ SettledIds' = SettledIds
        /\ session' = {} /\ delivered' = delivered /\ lost \subseteq lost'
    BY <1>a, <1>4 DEF Renewal, SettledIds
  <2>2. Named' \subseteq Named
    BY <1>4, NamesStay
  <2>3. AtBroker \subseteq AtBroker'
    BY <1>4 DEF Renewal, AtBroker, Held
  <2> QED BY <1>0, <2>1, <2>2, <2>3 DEF Acknowledged
<1>5. ASSUME NEW e \in Stored, Entry(e) PROVE Acknowledged'
  <2> DEFINE d == outbox_item_get_data(e)
  <2>0. d \in UpPacket /\ d.type = e.type /\ d.id = e.id /\ d.body = e.body /\ e.type # "PUBREL"
    BY DataIs DEF Stored, Items, MsgType
  <2>1. toBroker' \in {toBroker, <<>>, Append(toBroker, d)}
    BY <1>5 DEF Entry
  <2> HIDE DEF d
  <2>2. Range(toBroker') \subseteq Range(toBroker) \cup {d}
    BY <1>1, <2>0, <2>1, WireRange
  <2>3. /\ Range(outbox') = Range(outbox) \cup {e}
        /\ UNCHANGED <<session, delivered, lost>>
        /\ e.pending # "ACKNOWLEDGED" /\ e.id \notin InUse
        /\ toClient' \in {toClient, <<>>}
    BY <1>5 DEF Entry
  <2>4. AckedIds' \subseteq AckedIds /\ SettledIds' \subseteq SettledIds
    <3>1. Range(toClient') \subseteq Range(toClient)
      BY <2>3, EmptyWire
    <3> QED BY <1>a, <1>b, <2>0, <2>2, <2>3, <3>1 DEF AckedBy
  <2>5. Named' \subseteq Named \cup {<<e.id, e.body>>}
    <3>1. Names(Range(outbox'), Range(toBroker'), session') \subseteq Named \cup {<<e.id, e.body>>}
      BY <2>0, <2>2, <2>3 DEF Names, Named
    <3> QED BY <3>1 DEF Named
  <2>6. e.id \notin AckedIds /\ SettledIds \subseteq AckedIds
    BY <2>3, NamedInUse DEF SettledIds, AckedIds, Acks
  <2>7. \A x \in Named' : x[1] \in AckedIds => x \in Named
    <3>1. ASSUME NEW x \in Named', x = <<e.id, e.body>> PROVE x[1] = e.id
      BY <3>1
    <3> QED BY <2>5, <2>6, <3>1
  <2>8. AtBroker' = AtBroker
    BY <2>3 DEF AtBroker
  <2> QED BY <1>0, <2>3, <2>4, <2>6, <2>7, <2>8 DEF Acknowledged
<1>6. ASSUME NEW e \in Stored, Transmission(e) PROVE Acknowledged'
  <2> DEFINE d == outbox_item_get_data(e)
  <2>0. d \in UpPacket /\ d.type = e.type /\ d.id = e.id /\ d.body = e.body /\ e.type # "PUBREL"
    BY DataIs DEF Stored, Items, MsgType
  <2>1. toBroker' \in {toBroker, <<>>, Append(toBroker, d)}
    BY <1>6 DEF Transmission
  <2> HIDE DEF d
  <2>2. Range(toBroker') \subseteq Range(toBroker) \cup {d}
    BY <1>1, <2>0, <2>1, WireRange
  <2>3. /\ UNCHANGED <<session, delivered, lost>> /\ toClient' = toClient
        /\ \A f \in Range(outbox') : f.pending = "ACKNOWLEDGED" => f \in Range(outbox)
    BY <1>6 DEF Transmission
  <2>4. AckedIds' \subseteq AckedIds
    BY <1>a, <2>0, <2>2, <2>3 DEF AckedBy
  <2>5. Named' \subseteq Named
    BY <1>6, NamesStay
  <2> QED BY <1>2, <2>3, <2>4, <2>5
<1>7. ASSUME NEW id \in MsgId, Release(id) PROVE Acknowledged'
  <2> DEFINE d == Packet("PUBREL", id, None)
  <2>0. d \in UpPacket /\ d.type = "PUBREL" /\ d.id = id
    BY PubrelIs
  <2>1. toBroker' \in {toBroker, <<>>, Append(toBroker, d)}
    BY <1>7 DEF Release
  <2> HIDE DEF d
  <2>2. Range(toBroker') \subseteq Range(toBroker) \cup {d}
    BY <1>1, <2>0, <2>1, WireRange
  <2>3. /\ UNCHANGED <<session, delivered, lost>> /\ Range(toClient') \subseteq Range(toClient)
        /\ id \in AckedIds
        /\ \A f \in Range(outbox') : f \in Range(outbox) \/ f.id = id
    BY <1>7 DEF Release
  <2>4. AckedIds' \subseteq AckedIds
    BY <1>a, <2>0, <2>2, <2>3 DEF AckedBy
  <2>5. Named' \subseteq Named
    BY <1>7, NamesStay
  <2> QED BY <1>2, <2>3, <2>4, <2>5
<1>8. ASSUME NEW m \in Msg, Shot(m) PROVE Acknowledged'
  <2> DEFINE d == Packet("PUBLISH", 0, m)
  <2>0. d \in UpPacket /\ d.type = "PUBLISH"
    BY <1>8 DEF Shot, Packet, UpPacket, UpType, Body
  <2>1. toBroker' \in {toBroker, <<>>, Append(toBroker, d)}
    BY <1>8 DEF Shot
  <2> HIDE DEF d
  <2>2. Range(toBroker') \subseteq Range(toBroker) \cup {d}
    BY <1>1, <2>0, <2>1, WireRange
  <2>3. /\ UNCHANGED <<session, delivered, lost>> /\ outbox' = outbox
        /\ Range(toClient') \subseteq Range(toClient)
    BY <1>8, EmptyWire DEF Shot
  <2>4. AckedIds' \subseteq AckedIds
    BY <1>a, <2>0, <2>2, <2>3 DEF AckedBy
  <2>5. Named' \subseteq Named
    BY <1>8, NamesStay
  <2> QED BY <1>2, <2>3, <2>4, <2>5
<1>9. CASE BrokerReceives
  <2>1. PICK p \in UpPacket : /\ p = Head(toBroker) /\ toBroker' = Tail(toBroker) /\ toBroker # <<>>
                              /\ Range(toBroker) = {p} \cup Range(toBroker')
    BY <1>1, <1>9, TailRange DEF BrokerReceives
  <2> DEFINE held == {e \in session : e.id = p.id}
             s == [id |-> p.id, body |-> p.body]
             r == Packet(Reply(p), p.id, None)
  <2>2. /\ outbox' = outbox /\ delivered' = delivered \cup PassedOn(p) /\ lost' = lost
        /\ \/ session' = session /\ p.type # "PUBREL"
           \/ p.type = "PUBREL" /\ session' = session \ held
           \/ Qos(p) = 2 /\ held = {} /\ session' = session \cup {s}
        /\ toClient' = IF Reply(p) = "none" THEN toClient ELSE Append(toClient, r)
    BY <1>9, <2>1 DEF BrokerReceives
  <2>3. s.body = p.body /\ r.id = p.id /\ r.type = Reply(p)
    BY DEF Packet
  \* A message of QoS 1 the broker passes on; one of QoS 2 it has from then on.
  <2>4. ASSUME p.type = "PUBLISH", Qos(p) > 0
        PROVE  /\ p.id \in MsgId /\ p.id # 0 /\ p.body \in Msg /\ p.body \in AtBroker'
               /\ Reply(p) \in {"PUBACK", "PUBCOMP"} => p.body \in delivered'
    <3>1. Qos(p) = QosOf[p.body] /\ p.body \in Msg /\ p.id \in MsgId /\ QosOf[p.body] \in 0 .. 2
      BY <2>4, ContentAssumption DEF Qos, UpPacket
    <3>2. CASE Qos(p) = 1
      <4>1. PassedOn(p) = {p.body}
        BY <2>4, <3>2 DEF PassedOn
      <4> QED BY <2>2, <3>1, <4>1, IdAssumption DEF AtBroker
    <3>3. CASE Qos(p) = 2
      <4>1. Reply(p) = "PUBREC"
        BY <2>4, <3>3 DEF Reply
      <4>2. p.body \in {e.body : e \in session'}
        <5>1. CASE held = {}
          <6>1. session' = session \cup {s}
            BY <1>9, <2>1, <3>3, <5>1 DEF BrokerReceives
          <6> QED BY <2>3, <6>1
        <5>2. CASE held # {}
          <6>1. PICK e \in session : e.id = p.id
            BY <5>2
          <6>2. p \in Carriers /\ e \in Carriers
            BY <2>1, <2>4, <3>1, IdAssumption DEF Carriers
          <6>3. e.body = p.body
            BY <6>1, <6>2, CarriersAgree
          <6>4. session' = session
            BY <2>2, <2>4, <5>2
          <6> QED BY <6>1, <6>3, <6>4
        <5> QED BY <5>1, <5>2
      <4> QED BY <3>1, <4>1, <4>2, IdAssumption DEF AtBroker
    <3> QED BY <2>4, <3>1, <3>2, <3>3
  <2>5. Reply(p) \in Acks => p.type = "PUBREL" \/ (p.type = "PUBLISH" /\ Qos(p) > 0)
    <3>1. p.type \in UpType
      BY DEF UpPacket
    <3>2. p.type = "PUBLISH" /\ Qos(p) = 0 => Reply(p) = "none"
      BY DEF Reply
    <3>3. p.type = "PUBLISH" => Qos(p) \in 0 .. 2
      BY ContentAssumption DEF Qos, UpPacket
    <3>4. p.type \in {"SUBSCRIBE", "PINGREQ"} => Reply(p) \in {"SUBACK", "PINGRESP"}
      BY DEF Reply
    <3> QED BY <3>1, <3>2, <3>3, <3>4 DEF UpType, Acks
  <2>6. /\ AckedIds' \subseteq AckedIds \cup (IF Reply(p) \in Acks THEN {p.id} ELSE {})
        /\ SettledIds' \subseteq SettledIds \cup (IF Reply(p) \in {"PUBACK", "PUBCOMP"} THEN {p.id} ELSE {})
    <3>1. Range(toClient') \subseteq Range(toClient) \cup (IF Reply(p) = "none" THEN {} ELSE {r})
      <4>1. CASE Reply(p) = "none"
        BY <2>2, <4>1
      <4>2. CASE Reply(p) # "none"
        <5>1. r \in DownPacket
          BY <4>2, ReplyType
        <5> HIDE DEF r
        <5>2. Range(Append(toClient, r)) = Range(toClient) \cup {r}
          BY <1>1, <5>1, AppendRange
        <5> QED BY <2>2, <4>2, <5>2
      <4> QED BY <4>1, <4>2
    <3> HIDE DEF r
    <3> QED BY <1>a, <2>1, <2>2, <2>3, <3>1 DEF AckedBy, SettledIds
  <2>7. p.type = "PUBREL" => p.id \in AckedIds
    BY <1>a, <2>1 DEF AckedBy
  <2>8. Named' \subseteq Named
    BY <1>9, NamesStay
  \* What leaves the session is passed on then, if it was not before.
  <2>9. \A e \in session : p.type = "PUBREL" /\ e.id = p.id => e.body \in delivered'
    <3>1. ASSUME NEW e \in session, p.type = "PUBREL", e.id = p.id PROVE e.body \in delivered'
      <4>1. CASE Onward = "PUBLISH"
        BY <1>0, <2>2, <4>1
      <4>2. CASE Onward = "PUBREL"
        <5>1. e.body \in PassedOn(p)
          BY <3>1, <4>2 DEF PassedOn
        <5> QED BY <2>2, <5>1
      <4> QED BY <4>1, <4>2, BrokerAssumption
    <3> QED BY <3>1
  <2>10. AtBroker \subseteq AtBroker'
    <3>1. ASSUME NEW e \in session PROVE e.body \in AtBroker'
      <4>1. CASE p.type = "PUBREL" /\ e.id = p.id
        BY <2>9, <4>1 DEF AtBroker
      <4>2. CASE ~(p.type = "PUBREL" /\ e.id = p.id)
        <5>1. e \in session'
          BY <2>2, <4>2
        <5> QED BY <5>1 DEF AtBroker
      <4> QED BY <4>1, <4>2
    <3>2. delivered \cup lost \subseteq AtBroker'
      BY <2>2 DEF AtBroker
    <3> QED BY <3>1, <3>2 DEF AtBroker
  \* The packet's identifier stands for its message, or for the one it releases.
  <2>11. ASSUME NEW x \in Named', x[1] = p.id, x[2] \in Msg, p.type = "PUBLISH", Qos(p) > 0
         PROVE  x[2] = p.body
    <3>1. PICK y \in Named : y = <<p.id, p.body>>
      BY <2>1, <2>4, <2>11 DEF Named, Names
    <3>2. y[1] = p.id /\ y[2] = p.body
      BY <3>1
    <3> QED BY <2>8, <2>11, <3>2 DEF Identified, OneToOne
  <2>12. ASSUME NEW x \in Named', x[1] \in AckedIds', x[2] \in Msg PROVE x[2] \in AtBroker'
    <3>1. CASE x[1] \in AckedIds
      BY <1>0, <2>8, <2>10, <2>12, <3>1
    <3>2. CASE x[1] \notin AckedIds
      <4>1. x[1] = p.id /\ p.type = "PUBLISH" /\ Qos(p) > 0
        BY <2>5, <2>6, <2>7, <2>12, <3>2
      <4> QED BY <2>4, <2>11, <2>12, <4>1
    <3> QED BY <3>1, <3>2
  <2>13. ASSUME NEW x \in Named', x[1] \in SettledIds', x[2] \in Msg
         PROVE  x[2] \in delivered' \cup lost'
    <3>1. CASE x[1] \in SettledIds
      BY <1>0, <2>2, <2>8, <2>13, <3>1
    <3>2. CASE x[1] = p.id /\ p.type = "PUBLISH" /\ Qos(p) > 0 /\ Reply(p) \in {"PUBACK", "PUBCOMP"}
      BY <2>4, <2>11, <2>13, <3>2
    <3>3. CASE x[1] = p.id /\ p.type = "PUBREL"
      <4>1. x \in Named /\ x[2] \in AtBroker
        BY <1>0, <2>7, <2>8, <2>13, <3>3
      <4>2. CASE x[2] \in delivered \cup lost
        BY <2>2, <4>2
      <4>3. ASSUME NEW e \in session, e.body = x[2] PROVE x[2] \in delivered'
        <5>1. PICK y \in Named : y = <<e.id, e.body>>
          BY DEF Named, Names
        <5>2. y[1] = e.id /\ y[2] = e.body
          BY <5>1
        <5>3. e.id = p.id
          BY <2>13, <3>3, <4>1, <4>3, <5>2 DEF Identified, OneToOne
        <5> QED BY <2>9, <3>3, <4>3, <5>3
      <4> QED BY <4>1, <4>2, <4>3 DEF AtBroker
    <3>4. x[1] \in SettledIds \/ (x[1] = p.id /\ Reply(p) \in {"PUBACK", "PUBCOMP"})
      BY <2>6, <2>13
    <3> QED BY <2>5, <3>1, <3>2, <3>3, <3>4 DEF Acks
  <2>14. ASSUME Onward = "PUBLISH", NEW e \in session' PROVE e.body \in delivered'
    <3>1. CASE e \in session
      BY <1>0, <2>2, <2>14, <3>1
    <3>2. CASE e \notin session
      <4>1. Qos(p) = 2 /\ held = {} /\ e = s
        BY <2>2, <3>2
      <4>2. p.type = "PUBLISH"
        BY <4>1 DEF Qos
      <4>3. PassedOn(p) = {p.body}
        BY <2>14, <4>1, <4>2 DEF PassedOn
      <4> QED BY <2>2, <2>3, <4>1, <4>3
    <3> QED BY <3>1, <3>2
  <2> QED BY <2>12, <2>13, <2>14 DEF Acknowledged
<1> QED BY <1>3, <1>4, <1>5, <1>6, <1>7, <1>8, <1>9 DEF SomeKind

LEMMA InitAcknowledged == Init => Acknowledged
<1> SUFFICES ASSUME Init PROVE Acknowledged
  OBVIOUS
<1>1. Range(outbox) = {} /\ Range(toBroker) = {} /\ Range(toClient) = {} /\ session = {}
  BY EmptyWire DEF Init, outbox_init
<1>2. Named = {}
  BY <1>1 DEF Named, Names
<1> QED BY <1>1, <1>2 DEF Acknowledged

-----------------------------------------------------------------------------
(* The client implements MqttDelivery.                                       *)

\* What of the outbox the promise is about.
Kept == Bodies(outbox) \cap Reliable

LEMMA ReliableIs ==
    ASSUME NEW e \in Stored
    PROVE  /\ e.body \in Msg <=> e.type = "PUBLISH"
           /\ e.body \in Reliable <=> e.type = "PUBLISH" /\ e.qos > 0
BY ContentAssumption DEF Stored, Items, MsgType, Reliable

LEMMA KeptIs ==
    ASSUME Types
    PROVE  Kept = {e.body : e \in Range(outbox)} \cap Reliable
BY BodiesAre DEF Types, Kept

\* The steps of MqttDelivery.
LEMMA Stutters ==
    ASSUME Kept' = Kept, UNCHANGED <<session, delivered, lost, discarded>>
    PROVE  UNCHANGED D!vars
BY DEF Kept, D!vars, Reliable, Held

LEMMA Discards ==
    ASSUME NEW old \in SUBSET Bodies(outbox), Kept' = Kept \ old,
           discarded' = discarded \cup (old \cap Msg), UNCHANGED <<session, delivered, lost>>
    PROVE  D!Next
<1> DEFINE gone == old \cap Reliable
<1>1. gone \in SUBSET Kept /\ Kept' = Kept \ gone
  BY DEF Kept
<1>2. discarded' \cap Reliable = (discarded \cap Reliable) \cup gone
  BY DEF Reliable
<1>3. D!Discard(gone)
  BY <1>1, <1>2 DEF Kept, D!Discard, Reliable, Held
<1> HIDE DEF gone
<1> QED BY <1>1, <1>3 DEF D!Next, Kept

LEMMA Accepts ==
    ASSUME Types, Identified, NEW m \in Reliable, m \notin published,
           Kept' = Kept \cup {m}, UNCHANGED <<session, delivered, lost, discarded>>
    PROVE  D!Next
<1>1. \A e \in Range(outbox) : e.body \in Msg => e.body \in published
  BY CarriersAgree DEF Carriers
<1>2. m \in Msg /\ m \notin Kept
  BY <1>1, KeptIs DEF Reliable
<1>3. m \notin delivered \cup lost \cup discarded
  BY DEF Identified, Handed
<1>4. m \notin Held
  BY CarriersAgree DEF Carriers, Held, Types
<1>5. D!Accept(m)
  BY <1>2, <1>3, <1>4 DEF D!Accept, Kept, Reliable, Held
<1> QED BY <1>5 DEF D!Next

LEMMA Settles ==
    ASSUME NEW m \in Kept, m \in delivered \cup lost, Kept' = Kept \ {m}, UNCHANGED <<session, delivered, lost, discarded>>
    PROVE  D!Next
<1>1. m \in Reliable
  BY DEF Kept
<1>2. D!Settle(m)
  BY <1>1 DEF D!Settle, Kept, Reliable, Held
<1> QED BY <1>1, <1>2 DEF D!Next

LEMMA Delivers ==
    ASSUME NEW m \in Msg, UNCHANGED <<outbox, lost, discarded>>, delivered' = delivered \cup {m},
           Held' = Held \ {m}, m \in Held => m \in Reliable
    PROVE  D!Next \/ UNCHANGED D!vars
<1>1. CASE m \in Reliable
  <2>1. D!Deliver(m)
    BY <1>1 DEF D!Deliver, Bodies, Reliable
  <2> QED BY <1>1, <2>1 DEF D!Next
<1>2. CASE m \notin Reliable
  <2>1. Kept' = Kept /\ delivered' \cap Reliable = delivered \cap Reliable /\ Held' = Held
    BY <1>2 DEF Kept, Bodies, Reliable
  <2> QED BY <2>1 DEF D!vars, Kept, Reliable
<1> QED BY <1>1, <1>2

LEMMA Holds ==
    ASSUME NEW m \in Reliable, UNCHANGED <<outbox, delivered, lost, discarded>>, m \notin delivered,
           Held' = Held \cup {m}
    PROVE  D!Next
<1>1. D!Hold(m)
  BY DEF D!Hold, Bodies, Reliable
<1> QED BY <1>1 DEF D!Next

\* A new session: what the old one held is lost.
LEMMA ConnectSucceedsMaps ==
    ASSUME ConnectSucceeds
    PROVE  D!Next
<1>1. /\ UNCHANGED <<outbox, delivered, discarded>>
      /\ lost' = lost \cup Held /\ session' = {}
  BY DEF ConnectSucceeds, NewSession, ghostVars
<1>2. Held' = {}
  BY <1>1 DEF Held
<1>3. D!EndSession
  BY <1>1, <1>2 DEF D!EndSession, Bodies, Reliable
<1> QED BY <1>3 DEF D!Next

\* What the functions of the outbox do to it.
LEMMA MarkedKept ==
    ASSUME Types, Identified, NEW id, NEW pending \in Pending,
           outbox' = outbox_set_pending(outbox, id, pending)
    PROVE  Kept' = Kept
<1>1. /\ \A f \in Range(outbox') : \E e \in Range(outbox) : f.body = e.body
      /\ \A e \in Range(outbox) : \E f \in Range(outbox') : f.body = e.body
      /\ outbox' \in Seq(Stored)
  BY MarkedItems DEF Types, Identified, Same
<1>2. Bodies(outbox') = {e.body : e \in Range(outbox')}
  BY <1>1, BodiesAre
<1>3. Bodies(outbox) = {e.body : e \in Range(outbox)}
  BY BodiesAre DEF Types
<1>4. Bodies(outbox') = Bodies(outbox)
  BY <1>1, <1>2, <1>3
<1> QED BY <1>4 DEF Kept, Reliable

LEMMA AddedKept ==
    ASSUME Types, NEW e \in Stored, outbox' \in Seq(Stored), Range(outbox') = Range(outbox) \cup {e}
    PROVE  Kept' = Kept \cup ({e.body} \cap Reliable)
<1>1. Bodies(outbox') = {f.body : f \in Range(outbox')}
  BY BodiesAre
<1>2. Bodies(outbox) = {f.body : f \in Range(outbox)}
  BY BodiesAre DEF Types
<1>3. Bodies(outbox') = Bodies(outbox) \cup {e.body}
  BY <1>1, <1>2
<1> QED BY <1>3 DEF Kept, Reliable

\* Where some items leave the outbox, and nothing else that bears their identifiers.
LEMMA LeftKept ==
    ASSUME Types, Identified, NEW gone \in SUBSET Range(outbox), outbox' \in Seq(Stored),
           Range(outbox') = Range(outbox) \ gone
    PROVE  Kept' = Kept \ {e.body : e \in gone}
<1> USE Elements
<1>1. Bodies(outbox') = {e.body : e \in Range(outbox')}
  BY BodiesAre
<1>2. Bodies(outbox) = {e.body : e \in Range(outbox)}
  BY BodiesAre DEF Types
<1>3. ASSUME NEW e \in Range(outbox), NEW f \in Range(outbox), e.body = f.body, e.body \in Reliable
      PROVE  e = f
  <2>1. e.id = f.id
    BY <1>3, CarriersAgree DEF Carriers, Reliable
  <2>2. PICK j \in 1 .. Len(outbox) : outbox[j] = e
    BY RangeIs DEF Types
  <2>3. PICK k \in 1 .. Len(outbox) : outbox[k] = f
    BY RangeIs DEF Types
  <2>4. j = k
    BY <2>1, <2>2, <2>3 DEF Identified, Distinct
  <2> QED BY <2>2, <2>3, <2>4
<1>4. ASSUME NEW b \in Reliable
      PROVE  b \in Bodies(outbox') <=> b \in Bodies(outbox) /\ b \notin {e.body : e \in gone}
  BY <1>1, <1>2, <1>3
<1> QED BY <1>4 DEF Kept, Reliable

\* An answer of the broker settles a message, or nothing.
LEMMA ReceiveMaps ==
    ASSUME Types, Identified, Acknowledged, Receive
    PROVE  D!Next \/ UNCHANGED D!vars
<1> USE Elements
<1>1. PICK a \in DownPacket : a = Head(toClient) /\ a \in Range(toClient)
  BY TailRange DEF Receive, Types
<1>2. outbox' = Answered(a) /\ UNCHANGED <<session, delivered, lost, discarded>>
  BY <1>1 DEF Receive, brokerVars, ghostVars
<1>3. outbox \in Seq(Stored) /\ Distinct(outbox)
  BY DEF Types, Identified
<1>4. CASE a.type \in {"PUBACK", "PUBCOMP"}
  <2> DEFINE gone == {e \in Range(outbox) : e.id = a.id /\ e.type = "PUBLISH"}
  <2>1. outbox' = outbox_delete(outbox, a.id, "PUBLISH")
    BY <1>2, <1>4 DEF Answered, remove_initiator_message
  <2>2. /\ outbox' \in Seq(Stored)
        /\ Range(outbox') = {e \in Range(outbox) : ~(e.id = a.id /\ e.type = "PUBLISH")}
    BY <1>3, <2>1, DeletedItem
  <2>3. Range(outbox') = Range(outbox) \ gone /\ gone \in SUBSET Range(outbox)
    BY <2>2
  <2>4. Kept' = Kept \ {e.body : e \in gone}
    <3> HIDE DEF gone
    <3> QED BY <2>2, <2>3, LeftKept
  <2>5. CASE \E e \in gone : e.body \in Reliable
    <3>1. PICK e \in gone : e.body \in Reliable
      BY <2>5
    <3>2. \A f \in gone : f.body = e.body
      BY <3>1, CarriersAgree DEF Carriers
    <3>3. e.body \in delivered \cup lost
      <4>1. a.id \in SettledIds
        BY <1>1, <1>4 DEF SettledIds
      <4>2. PICK x \in Named : x = <<e.id, e.body>>
        BY <3>1 DEF Named, Names
      <4>3. x[1] = a.id /\ x[2] = e.body /\ e.body \in Msg
        BY <3>1, <4>2 DEF Reliable
      <4> QED BY <4>1, <4>3 DEF Acknowledged
    <3>4. e.body \in Kept
      BY <3>1, KeptIs
    <3>5. {f.body : f \in gone} = {e.body}
      BY <3>1, <3>2
    <3> HIDE DEF gone
    <3> QED BY <1>2, <2>4, <3>3, <3>4, <3>5, Settles
  <2>6. CASE \A e \in gone : e.body \notin Reliable
    <3>1. Kept' = Kept
      <4>1. \A b \in Kept : b \in Reliable
        BY DEF Kept
      <4> HIDE DEF gone
      <4> QED BY <2>4, <2>6, <4>1
    <3> QED BY <1>2, <3>1, Stutters
  <2> QED BY <2>5, <2>6
<1>5. CASE a.type = "PUBREC"
  <2>1. Kept' = Kept
    BY <1>2, <1>5, MarkedKept DEF Answered, Pending
  <2> QED BY <1>2, <2>1, Stutters
<1>6. CASE a.type = "SUBACK"
  <2> DEFINE gone == {e \in Range(outbox) : e.id = a.id /\ e.type = "SUBSCRIBE"}
  <2>1. outbox' = outbox_delete(outbox, a.id, "SUBSCRIBE")
    BY <1>2, <1>6 DEF Answered, remove_initiator_message
  <2>2. /\ outbox' \in Seq(Stored)
        /\ Range(outbox') = {e \in Range(outbox) : ~(e.id = a.id /\ e.type = "SUBSCRIBE")}
    BY <1>3, <2>1, DeletedItem
  <2>3. Range(outbox') = Range(outbox) \ gone /\ gone \in SUBSET Range(outbox)
    BY <2>2
  <2>4. Kept' = Kept \ {e.body : e \in gone}
    <3> HIDE DEF gone
    <3> QED BY <2>2, <2>3, LeftKept
  <2>5. \A e \in gone : e.body \notin Reliable
    BY ReliableIs
  <2>6. Kept' = Kept
    <3>1. \A b \in Kept : b \in Reliable
      BY DEF Kept
    <3> HIDE DEF gone
    <3> QED BY <2>4, <2>5, <3>1
  <2> QED BY <1>2, <2>6, Stutters
<1>7. CASE a.type \notin {"PUBACK", "PUBCOMP", "PUBREC", "SUBACK"}
  <2>1. outbox' = outbox
    BY <1>2, <1>7 DEF Answered
  <2>2. Kept' = Kept
    BY <2>1 DEF Kept, Bodies, Reliable
  <2> QED BY <1>2, <2>2, Stutters
<1> QED BY <1>4, <1>5, <1>6, <1>7

\* A packet makes the broker hold a message, or pass one on, or neither.
LEMMA BrokerReceivesMaps ==
    ASSUME Types, Identified, Acknowledged, BrokerReceives
    PROVE  D!Next \/ UNCHANGED D!vars
<1>1. PICK p \in UpPacket : p = Head(toBroker)
  BY TailRange DEF BrokerReceives, Types
<1> DEFINE held == {e \in session : e.id = p.id}
<1>2. /\ delivered' = delivered \cup PassedOn(p) /\ UNCHANGED <<outbox, lost, discarded>>
      /\ session' = IF Qos(p) = 2 /\ held = {}
                    THEN session \cup {[id |-> p.id, body |-> p.body]}
                    ELSE IF p.type = "PUBREL" THEN session \ held ELSE session
  BY <1>1 DEF BrokerReceives, ghostVars
<1>3. p.type = "PUBLISH" => p.body \in Msg /\ Qos(p) = QosOf[p.body] /\ QosOf[p.body] \in 0 .. 2
  BY ContentAssumption DEF UpPacket, Qos
<1>4. p.type # "PUBLISH" => Qos(p) = 0
  BY DEF Qos
<1>5. \A e \in session : e.body \in Reliable
  BY DEF Types, Reliable
<1>6. CASE p.type = "PUBLISH" /\ Qos(p) < 2
  <2>1. PassedOn(p) = {p.body} /\ session' = session
    BY <1>2, <1>6 DEF PassedOn
  <2>2. Held' = Held \ {p.body}
    BY <1>2, <2>1 DEF Held
  <2>3. p.body \in Held => p.body \in Reliable
    BY <1>5 DEF Held
  <2> QED BY <1>2, <1>3, <1>6, <2>1, <2>2, <2>3, Delivers
<1>7. CASE p.type = "PUBLISH" /\ Qos(p) = 2 /\ held = {}
  <2>1. PICK s \in {[id |-> p.id, body |-> p.body]} : s.body = p.body
    OBVIOUS
  <2>2. session' = session \cup {s} /\ p.body \in Reliable
    BY <1>2, <1>3, <1>7, <2>1 DEF Reliable
  <2>3. CASE Onward = "PUBLISH"
    <3>1. PassedOn(p) = {p.body}
      BY <1>7, <2>3 DEF PassedOn
    <3>2. Held' = Held \ {p.body}
      BY <1>2, <2>1, <2>2, <3>1 DEF Held
    <3> QED BY <1>2, <1>3, <1>7, <2>2, <3>1, <3>2, Delivers
  <2>4. CASE Onward = "PUBREL"
    <3>1. PassedOn(p) = {}
      BY <1>7, <2>4 DEF PassedOn
    <3>2. Held' = IF p.body \in delivered THEN Held ELSE Held \cup {p.body}
      BY <1>2, <2>1, <2>2, <3>1 DEF Held
    <3>3. CASE p.body \in delivered
      BY <1>2, <3>1, <3>2, <3>3 DEF D!vars, Bodies, Reliable
    <3>4. CASE p.body \notin delivered
      BY <1>2, <2>2, <3>1, <3>2, <3>4, Holds
    <3> QED BY <3>3, <3>4
  <2> QED BY <2>3, <2>4, BrokerAssumption
<1>8. CASE p.type = "PUBREL" /\ Onward = "PUBREL" /\ held # {}
  <2>1. PICK e \in session : e.id = p.id
    BY <1>8
  <2>2. \A f \in held : f.body = e.body
    BY <2>1, CarriersAgree DEF Carriers
  <2>3. PassedOn(p) = {e.body} /\ session' = session \ held
    BY <1>2, <1>4, <1>8, <2>1, <2>2 DEF PassedOn
  <2>4. Held' = Held \ {e.body}
    BY <1>2, <2>2, <2>3 DEF Held
  <2>5. e.body \in Reliable /\ e.body \in Msg
    BY <1>5, <2>1 DEF Reliable
  <2> QED BY <1>2, <2>3, <2>4, <2>5, Delivers
\* A broker that passes on at PUBLISH has passed on all that it holds.
<1>9. CASE p.type = "PUBREL" /\ Onward = "PUBLISH"
  <2>1. PassedOn(p) = {} /\ session' \subseteq session
    BY <1>2, <1>4, <1>9 DEF PassedOn
  <2>2. Held = {} /\ Held' = {}
    BY <1>2, <1>9, <2>1 DEF Held, Acknowledged
  <2> QED BY <1>2, <2>1, <2>2 DEF D!vars, Bodies, Reliable
<1>10. ASSUME \/ p.type = "PUBLISH" /\ Qos(p) = 2 /\ held # {}
              \/ p.type = "PUBREL" /\ Onward = "PUBREL" /\ held = {}
              \/ p.type \notin {"PUBLISH", "PUBREL"}
       PROVE  UNCHANGED D!vars
  <2>1. PassedOn(p) = {} /\ session' = session
    BY <1>2, <1>4, <1>10 DEF PassedOn
  <2> QED BY <1>2, <2>1 DEF D!vars, Bodies, Reliable, Held
<1> QED BY <1>3, <1>6, <1>7, <1>8, <1>9, <1>10, BrokerAssumption

\* What the task transmits for the first time stays, but for quality of service 0.
LEMMA ResendQueuedMaps ==
    ASSUME Types, Identified, ResendQueued
    PROVE  UNCHANGED D!vars
<1> USE Elements
<1>1. outbox \in Seq(Stored) /\ Distinct(outbox)
  BY DEF Types, Identified
<1>2. PICK i : i = outbox_dequeue(outbox, "QUEUED") /\ i \in 1 .. Len(outbox)
  BY <1>1, DequeueIs DEF ResendQueued
<1>3. PICK e \in Stored : e = outbox[i] /\ e \in Range(outbox)
  BY <1>1, <1>2, RangeIs
<1>4. UNCHANGED <<session, delivered, lost, discarded>>
  BY DEF ResendQueued, brokerVars, ghostVars
<1>5. outbox' \in {outbox, Transmitted(i)}
  BY <1>2 DEF ResendQueued
<1>6. CASE outbox' = outbox
  <2>1. Kept' = Kept
    BY <1>6 DEF Kept, Bodies, Reliable
  <2> QED BY <1>4, <2>1, Stutters
<1>7. CASE outbox' = Transmitted(i) /\ e.qos > 0
  <2>1. outbox' = outbox_set_pending(outbox, e.id, "TRANSMITTED")
    BY <1>3, <1>7 DEF Transmitted
  <2>2. Kept' = Kept
    BY <2>1, MarkedKept DEF Pending
  <2> QED BY <1>4, <2>2, Stutters
<1>8. CASE outbox' = Transmitted(i) /\ ~(e.qos > 0) /\ outbox' # outbox
  <2> DEFINE gone == {f \in Range(outbox) : f.id = e.id}
  <2>1. outbox' = RemoveAt(outbox, i)
    BY <1>3, <1>8 DEF Transmitted, outbox_delete_item
  <2>2. /\ outbox' \in Seq(Stored)
        /\ Range(outbox') = {f \in Range(outbox) : f.id # e.id}
    BY <1>1, <1>2, <1>3, <2>1, RemovedItem
  <2>3. Range(outbox') = Range(outbox) \ gone /\ gone \in SUBSET Range(outbox)
    BY <2>2
  <2>4. Kept' = Kept \ {f.body : f \in gone}
    <3> HIDE DEF gone
    <3> QED BY <2>2, <2>3, LeftKept
  <2>5. e.body \notin Reliable
    BY <1>8, ReliableIs
  <2>6. \A f \in gone : f.body = e.body
    BY <1>3, CarriersAgree DEF Carriers
  <2>7. Kept' = Kept
    <3>1. \A b \in Kept : b \in Reliable
      BY DEF Kept
    <3> HIDE DEF gone
    <3> QED BY <2>4, <2>5, <2>6, <3>1
  <2> QED BY <1>4, <2>7, Stutters
<1> QED BY <1>5, <1>6, <1>7, <1>8

\* A new item is one more message to keep, unless it is of quality of service 0 or a
\* subscription.
LEMMA EntryMaps ==
    ASSUME Types, Identified, NEW e \in Stored, Entry(e), outbox' \in Seq(Stored)
    PROVE  D!Next \/ UNCHANGED D!vars
<1>1. /\ Range(outbox') = Range(outbox) \cup {e} /\ UNCHANGED <<session, delivered, lost, discarded>>
      /\ e.body \notin published
  BY DEF Entry
<1>2. Kept' = Kept \cup ({e.body} \cap Reliable)
  BY <1>1, AddedKept
<1>3. CASE e.body \in Reliable
  BY <1>1, <1>2, <1>3, Accepts
<1>4. CASE e.body \notin Reliable
  <2>1. Kept' = Kept
    BY <1>2, <1>4
  <2> QED BY <1>1, <2>1, Stutters
<1> QED BY <1>3, <1>4

\* The items that expire, or go with the client, are discarded.
LEMMA LockMaps ==
    ASSUME Types, Lock
    PROVE  D!Next \/ UNCHANGED D!vars
<1>1. UNCHANGED <<session, delivered, lost>>
  BY DEF Lock, brokerVars
<1>2. CASE UNCHANGED <<outbox, discarded>>
  <2>1. Kept' = Kept
    BY <1>2 DEF Kept, Bodies, Reliable
  <2> QED BY <1>1, <1>2, <2>1, Stutters
<1>3. ASSUME NEW old \in SUBSET Bodies(outbox), outbox' = outbox_delete_expired(outbox, old),
             discarded' = discarded \cup (old \cap Msg)
      PROVE  D!Next
  <2>1. outbox' \in Seq(Stored) /\ Range(outbox') = {e \in Range(outbox) : e.body \notin old}
    BY <1>3, ExpiredIs DEF Types
  <2>2. Bodies(outbox') = {e.body : e \in Range(outbox')}
    BY <2>1, BodiesAre
  <2>3. Bodies(outbox) = {e.body : e \in Range(outbox)}
    BY BodiesAre DEF Types
  <2>4. Bodies(outbox') = Bodies(outbox) \ old
    BY <2>1, <2>2, <2>3
  <2>5. Kept' = Kept \ old
    BY <2>4 DEF Kept, Reliable
  <2> QED BY <1>1, <1>3, <2>5, Discards
<1> QED BY <1>2, <1>3 DEF Lock

LEMMA ExitMaps ==
    ASSUME Exit \/ Recreate
    PROVE  D!Next
<1>1. /\ outbox' = <<>> /\ UNCHANGED <<session, delivered, lost>>
      /\ discarded' = discarded \cup (Bodies(outbox) \cap Msg)
  BY DEF Exit, Recreate, outbox_delete_all_items, esp_mqtt_client_destroy, esp_mqtt_client_init,
         outbox_init, brokerVars
<1>2. Bodies(outbox') = {}
  BY <1>1 DEF Bodies
<1>3. Kept' = Kept \ Bodies(outbox)
  BY <1>2 DEF Kept
<1> QED BY <1>1, <1>3, Discards

LEMMA StepMaps ==
    ASSUME Once, Acknowledged, ~Reuse, Types', SomeKind, Next
    PROVE  D!Next \/ UNCHANGED D!vars
<1>1. Types /\ Identified /\ outbox' \in Seq(Stored)
  BY DEF Once, Types
<1>2. CASE UNCHANGED <<outbox, session, delivered, lost, discarded>>
  <2>1. Kept' = Kept
    BY <1>2 DEF Kept, Bodies, Reliable
  <2> QED BY <1>2, <2>1, Stutters
<1>3. CASE \E e \in Stored : Entry(e)
  BY <1>1, <1>3, EntryMaps
<1>4. CASE Lock
  BY <1>1, <1>4, LockMaps
<1>5. CASE Exit \/ Recreate
  BY <1>5, ExitMaps
<1>6. CASE Receive
  BY <1>1, <1>6, ReceiveMaps
<1>7. CASE ResendQueued
  BY <1>1, <1>7, ResendQueuedMaps
<1>8. CASE BrokerReceives
  BY <1>1, <1>8, BrokerReceivesMaps
<1>9. ASSUME NEW t \in Topic, NEW id \in NewIds, Subscribe(t, id) PROVE \E e \in Stored : Entry(e)
  BY <1>1, <1>9, SubscribeEnters DEF Identified
<1>10. ASSUME NEW m \in Msg, NEW id \in NewIds, Publish(m, id) \/ Enqueue(m, id)
       PROVE  (\E e \in Stored : Entry(e)) \/ UNCHANGED <<outbox, session, delivered, lost, discarded>>
  <2>1. CASE Publish(m, id) /\ QosOf[m] = 0
    BY <2>1 DEF Publish, brokerVars
  <2>2. CASE ~(Publish(m, id) /\ QosOf[m] = 0)
    BY <1>1, <1>10, <2>2, PublishEnters DEF Identified
  <2> QED BY <2>1, <2>2
<1>11. ASSUME \/ ConnectFails \/ Reconnect \/ Handled \/ DataHandled
              \/ ReceiveNothing \/ ReceiveFails \/ ResendTransmitted \/ TransmittedNotDue
              \/ ResendPubrel \/ PubrelNotDue \/ StaysAlive \/ Ping \/ PingOverdue \/ PollFails
              \/ Start \/ Stop \/ BrokerPublishes \/ \E to \in {"broken", "dead"} : LoseLink(to)
       PROVE  UNCHANGED <<outbox, session, delivered, lost, discarded>>
  BY <1>11 DEF ConnectFails, Reconnect, Handled, DataHandled, ReceiveNothing,
               ReceiveFails, ResendTransmitted, TransmittedNotDue, ResendPubrel, PubrelNotDue,
               StaysAlive, Ping, PingOverdue, PollFails, Start, Stop, BrokerPublishes, LoseLink,
               brokerVars, ghostVars
<1>12. CASE ConnectSucceeds
  BY <1>12, ConnectSucceedsMaps
<1> QED
  BY <1>2, <1>3, <1>4, <1>5, <1>6, <1>7, <1>8, <1>9, <1>10, <1>11, <1>12
     DEF Next, TaskStep, Connect, HandlerStep, ReceiveStep, ResendStep, KeepaliveStep, Call, Network

\* While no identifier is drawn that is in use, a message of quality of service 1 or 2
\* that the client took is kept until the broker has passed it on or lost it with the
\* session it held it in, or is discarded for its age or with its client, however often
\* the connection is lost, whether the broker passes a message of quality of service 2 on
\* when it gets it or, as Mosquitto and aedes, when it is released.
THEOREM KeptForDelivery ==
    ASSUME ~Reuse
    PROVE  Spec => KeptUntilDelivered
<1>1. Init => Once /\ Acknowledged
  BY InitOnce, InitAcknowledged
<1>2. Once /\ [Next]_vars => SomeKind
  BY EveryStep
<1>3. Once /\ Acknowledged /\ [Next]_vars => Once' /\ Acknowledged'
  BY <1>2, OnceKept, AcknowledgedKept DEF Once
<1>4. Init => D!Init
  <2> SUFFICES ASSUME Init PROVE D!Init
    OBVIOUS
  <2>1. Bodies(outbox) = {} /\ Held = {} /\ delivered = {} /\ lost = {} /\ discarded = {}
    BY DEF Init, outbox_init, Bodies, Held
  <2> QED BY <2>1 DEF D!Init
<1>5. Once /\ Acknowledged /\ Once' /\ [Next]_vars => [D!Next]_(D!vars)
  <2> SUFFICES ASSUME Once, Acknowledged, Once', [Next]_vars PROVE D!Next \/ UNCHANGED D!vars
    OBVIOUS
  <2>1. CASE Next
    BY <1>2, <2>1, StepMaps DEF Once
  <2>2. CASE UNCHANGED vars
    <3>1. UNCHANGED <<outbox, session, delivered, lost, discarded>>
      BY <2>2 DEF vars, brokerVars, ghostVars
    <3>2. Kept' = Kept
      BY <3>1 DEF Kept, Bodies, Reliable
    <3> QED BY <3>1, <3>2, Stutters
  <2> QED BY <2>1, <2>2
<1> QED BY <1>1, <1>3, <1>4, <1>5, PTL DEF Spec, KeptUntilDelivered, D!Spec
=============================================================================
