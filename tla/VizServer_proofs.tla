--------------------------- MODULE VizServer_proofs ---------------------------
(***************************************************************************)
(* Proofs about the visualization server and its pages.                     *)
(***************************************************************************)
EXTENDS VizServer, FiniteSetTheorems, SequenceTheorems, WellFoundedInduction, TLAPS

-----------------------------------------------------------------------------
(* Induction over naturals, for sets: the library's theorem is about an      *)
(* operator.                                                                *)

\* A set of naturals that has 0 and, below L, successors, has all up to L.
LEMMA SetInduction ==
    ASSUME NEW L \in Nat, NEW T, 0 \in T,
           \A i \in 0 .. L - 1 : i \in T => i + 1 \in T
    PROVE  \A i \in 0 .. L : i \in T
<1> DEFINE Missing == {i \in 0 .. L : i \notin T}
           Below == {ss \in Nat \X Nat : ss[1] < ss[2]}
<1>1. IsWellFoundedOn(Below, Nat)
  BY NatLessThanWellFounded DEF OpToRel
<1>2. SUFFICES ASSUME Missing # {} PROVE FALSE
  OBVIOUS
<1>3. PICK x \in Missing : \A y \in Missing : ~(<<y, x>> \in Below)
  <2>1. Missing \subseteq Nat
    OBVIOUS
  <2> HIDE DEF Missing, Below
  <2> QED BY <1>1, <1>2, <2>1, WFMin
<1>4. x # 0 /\ x - 1 \in 0 .. L - 1 /\ x - 1 + 1 = x
  BY <1>3
<1>5. x - 1 \in T
  <2>1. <<x - 1, x>> \in Below
    BY <1>3, <1>4
  <2> HIDE DEF Below
  <2> QED BY <1>3, <1>4, <2>1
<1> QED BY <1>3, <1>4, <1>5

-----------------------------------------------------------------------------
(* What a page holds once it has read a sequence of messages.                *)

\* The function that After takes its last value of.
Run(forgets, held, msgs, f) ==
    f = [i \in 0 .. Len(msgs) |-> IF i = 0 THEN held ELSE Read(forgets, f[i - 1], msgs[i])]

\* There is one, so that After is what its definition says.
LEMMA RunExists ==
    ASSUME NEW S, NEW forgets, NEW held, NEW msgs \in Seq(S)
    PROVE  \E f : Run(forgets, held, msgs, f) /\ After(forgets, held, msgs) = f[Len(msgs)]
<1> DEFINE L == Len(msgs)
           UpTo(k, f) == f = [i \in 0 .. k |-> IF i = 0 THEN held ELSE Read(forgets, f[i - 1], msgs[i])]
           T == {k \in 0 .. L : \E f : UpTo(k, f)}
<1>1. L \in Nat
  BY LenProperties
<1>2. 0 \in T
  <2>1. UpTo(0, [i \in 0 .. 0 |-> held])
    OBVIOUS
  <2> HIDE DEF UpTo
  <2> QED BY <1>1, <2>1
<1>3. ASSUME NEW k \in 0 .. L - 1, k \in T PROVE k + 1 \in T
  <2>1. PICK f : UpTo(k, f)
    BY <1>3
  <2> DEFINE g == [i \in 0 .. k + 1 |-> IF i <= k THEN f[i] ELSE Read(forgets, f[k], msgs[k + 1])]
  <2>2. \A i \in 0 .. k + 1 :
            g[i] = IF i = 0 THEN held ELSE Read(forgets, g[i - 1], msgs[i])
    BY <1>1, <2>1
  <2>3. UpTo(k + 1, g)
    BY <1>1, <2>2
  <2> HIDE DEF UpTo, g
  <2> QED BY <1>1, <2>3
<1>4. L \in T
  <2> HIDE DEF T, L
  <2>1. \A i \in 0 .. L : i \in T
    BY <1>1, <1>2, <1>3, SetInduction
  <2> QED BY <1>1, <2>1
<1>5. \E f : Run(forgets, held, msgs, f)
  BY <1>4 DEF Run
<1> DEFINE after == CHOOSE f : Run(forgets, held, msgs, f)
<1>6. Run(forgets, held, msgs, after)
  BY <1>5
<1>7. After(forgets, held, msgs) = after[Len(msgs)]
  BY DEF After, Run
<1> QED BY <1>6, <1>7

LEMMA RunSteps ==
    ASSUME NEW S, NEW forgets, NEW held, NEW msgs \in Seq(S), NEW f, Run(forgets, held, msgs, f)
    PROVE  f[0] = held /\ \A i \in 1 .. Len(msgs) : f[i] = Read(forgets, f[i - 1], msgs[i])
<1>1. Len(msgs) \in Nat
  BY LenProperties
<1> QED BY <1>1 DEF Run

\* Reading two sequences after one another.
LEMMA AfterConcat ==
    ASSUME NEW S, NEW forgets, NEW held, NEW s \in Seq(S), NEW t \in Seq(S)
    PROVE  After(forgets, held, s \o t) = After(forgets, After(forgets, held, s), t)
<1>1. PICK u \in Seq(S) : u = s \o t
  BY ConcatProperties
<1>2. /\ Len(u) = Len(s) + Len(t) /\ Len(s) \in Nat /\ Len(t) \in Nat
      /\ \A i \in 1 .. Len(s) : u[i] = s[i]
      /\ \A i \in 1 .. Len(t) : u[Len(s) + i] = t[i]
  BY <1>1, ConcatProperties, LenProperties
<1>3. PICK f : Run(forgets, held, u, f) /\ After(forgets, held, u) = f[Len(u)]
  BY RunExists
<1>4. PICK g : Run(forgets, held, s, g) /\ After(forgets, held, s) = g[Len(s)]
  BY RunExists
<1>5. PICK h : Run(forgets, g[Len(s)], t, h) /\ After(forgets, g[Len(s)], t) = h[Len(t)]
  BY RunExists
<1>6. f[0] = held /\ \A i \in 1 .. Len(u) : f[i] = Read(forgets, f[i - 1], u[i])
  BY <1>3, RunSteps
<1>7. g[0] = held /\ \A i \in 1 .. Len(s) : g[i] = Read(forgets, g[i - 1], s[i])
  BY <1>4, RunSteps
<1>8. h[0] = g[Len(s)] /\ \A i \in 1 .. Len(t) : h[i] = Read(forgets, h[i - 1], t[i])
  BY <1>5, RunSteps
<1>9. f[Len(s)] = g[Len(s)]
  <2> DEFINE T == {j \in 0 .. Len(s) : f[j] = g[j]}
  <2>1. 0 \in T
    BY <1>2, <1>6, <1>7
  <2>2. ASSUME NEW j \in 0 .. Len(s) - 1, j \in T PROVE j + 1 \in T
    <3>1. /\ j + 1 \in 1 .. Len(s) /\ j + 1 \in 1 .. Len(u) /\ j + 1 - 1 = j
          /\ u[j + 1] = s[j + 1] /\ f[j] = g[j]
      BY <1>2, <2>2
    <3> QED BY <1>2, <1>6, <1>7, <3>1
  <2> HIDE DEF T
  <2>3. \A j \in 0 .. Len(s) : j \in T
    BY <1>2, <2>1, <2>2, SetInduction
  <2> QED BY <1>2, <2>3 DEF T
<1>10. f[Len(s) + Len(t)] = h[Len(t)]
  <2> DEFINE T == {j \in 0 .. Len(t) : f[Len(s) + j] = h[j]}
  <2>1. 0 \in T
    BY <1>2, <1>8, <1>9
  <2>2. ASSUME NEW j \in 0 .. Len(t) - 1, j \in T PROVE j + 1 \in T
    <3>1. PICK k \in 1 .. Len(u) : k = Len(s) + (j + 1)
      BY <1>2
    <3>2. /\ j + 1 \in 1 .. Len(t) /\ j + 1 - 1 = j /\ k - 1 = Len(s) + j
          /\ u[k] = t[j + 1] /\ f[Len(s) + j] = h[j]
      BY <1>2, <2>2, <3>1
    <3>3. f[k] = Read(forgets, h[j], t[j + 1])
      BY <1>6, <3>2
    <3>4. h[j + 1] = Read(forgets, h[j], t[j + 1])
      BY <1>8, <3>2
    <3> QED BY <1>2, <3>1, <3>3, <3>4
  <2> HIDE DEF T
  <2>3. \A j \in 0 .. Len(t) : j \in T
    BY <1>2, <2>1, <2>2, SetInduction
  <2> QED BY <1>2, <2>3 DEF T
<1> QED BY <1>1, <1>2, <1>3, <1>4, <1>5, <1>10

LEMMA AfterNothing ==
    ASSUME NEW forgets, NEW held
    PROVE  After(forgets, held, <<>>) = held
<1>1. PICK u \in Seq({}) : u = <<>>
  BY EmptySeq
<1>2. Len(u) = 0
  BY <1>1, EmptySeq
<1>3. PICK f : Run(forgets, held, u, f) /\ After(forgets, held, u) = f[Len(u)]
  BY RunExists
<1> QED BY <1>1, <1>2, <1>3 DEF Run

LEMMA AfterOne ==
    ASSUME NEW forgets, NEW held, NEW msg
    PROVE  After(forgets, held, <<msg>>) = Read(forgets, held, msg)
<1>1. PICK u \in Seq({msg}) : u = <<msg>>
  <2>1. <<msg>> \in Seq({msg})
    OBVIOUS
  <2> QED BY <2>1
<1>2. Len(u) = 1 /\ u[1] = msg
  BY <1>1
<1>3. PICK f : Run(forgets, held, u, f) /\ After(forgets, held, u) = f[Len(u)]
  BY RunExists
<1>4. f[1] = Read(forgets, f[0], u[1]) /\ f[0] = held
  BY <1>2, <1>3 DEF Run
<1> QED BY <1>1, <1>2, <1>3, <1>4

\* Reading a sequence is reading its first message, then the others.
LEMMA AfterFirst ==
    ASSUME NEW S, NEW forgets, NEW held, NEW msgs \in Seq(S), msgs # <<>>
    PROVE  After(forgets, held, msgs) = After(forgets, Read(forgets, held, Head(msgs)), Tail(msgs))
<1>1. PICK u \in Seq(S) : u = <<Head(msgs)>>
  <2>1. Head(msgs) \in S
    BY HeadTailProperties
  <2>2. \A e \in S : <<e>> \in Seq(S)
    OBVIOUS
  <2> QED BY <2>1, <2>2
<1>2. PICK r \in Seq(S) : r = Tail(msgs)
  BY HeadTailProperties
<1>3. msgs = u \o r
  BY <1>1, <1>2, HeadTailProperties, ConcatProperties
<1>4. After(forgets, held, u \o r) = After(forgets, After(forgets, held, u), r)
  BY AfterConcat
<1> QED BY <1>1, <1>2, <1>3, <1>4, AfterOne
-----------------------------------------------------------------------------
(* The nodes of a set, one after another.                                    *)

LEMMA SetToSeqIs ==
    ASSUME NEW S, IsFiniteSet(S)
    PROVE  /\ SetToSeq(S) \in Seq(S)
           /\ \A x \in S : \E i \in DOMAIN SetToSeq(S) : SetToSeq(S)[i] = x
<1> DEFINE n == Cardinality(S)
<1>1. n \in Nat /\ ExistsBijection(1 .. n, S)
  BY FS_CardinalityType
<1>2. PICK b \in [1 .. n -> S] : IsInjective(b)
  BY <1>1 DEF ExistsBijection, Bijection, Injection
<1>3. SetToSeq(S) \in [1 .. n -> S] /\ IsInjective(SetToSeq(S))
  BY <1>2 DEF SetToSeq
<1>4. SetToSeq(S) \in Injection(1 .. n, S)
  BY <1>3 DEF Injection
<1>5. IsFiniteSet(1 .. n) /\ Cardinality(1 .. n) = n
  BY <1>1, FS_Interval
<1>6. SetToSeq(S) \in Surjection(1 .. n, S)
  <2> HIDE DEF n
  <2>1. Cardinality(S) = n
    BY DEF n
  <2> QED BY <1>4, <1>5, <2>1, FS_Injection
<1>7. \A x \in S : \E i \in 1 .. n : SetToSeq(S)[i] = x
  BY <1>6 DEF Surjection
<1> HIDE DEF n
<1>8. SetToSeq(S) \in Seq(S) /\ DOMAIN SetToSeq(S) = 1 .. n
  BY <1>1, <1>3
<1> QED BY <1>7, <1>8

-----------------------------------------------------------------------------
(* Types.                                                                   *)

Node ==
    {node \in UNION {[D -> BOOLEAN \cup SUBSET Neighbor] : D \in SUBSET Field} : IsNode(node)}

NodeMap == UNION {[D -> Node] : D \in SUBSET Mac}

Sent == [type : {"full_state", "node_update"}, data : NodeMap]

\* TypeOK, and the messages to a page form a sequence.
Types ==
    /\ nodes \in NodeMap
    /\ receivedAt \in [DOMAIN nodes -> 0 .. StaleTimeout + 1]
    /\ silent \in [Mac -> 0 .. StaleTimeout + 1]
    /\ isConnected \in [Page -> BOOLEAN] /\ fresh \subseteq Page
    /\ view \in [Page -> NodeMap] /\ toPage \in [Page -> Seq(Sent)]
    /\ isPaused \in [Page -> BOOLEAN] /\ minRssi \in [Page -> Int] /\ drawn \in [Page -> BOOLEAN]
    /\ unresolved \in [Page -> SUBSET Mac]

LEMMA NodeMapIs ==
    ASSUME NEW held \in NodeMap
    PROVE  /\ DOMAIN held \in SUBSET Mac /\ IsMap(held)
           /\ \A m \in DOMAIN held : held[m] \in Node
BY DEF NodeMap, Node, IsMap

LEMMA NodeIs ==
    ASSUME NEW node \in Node
    PROVE  /\ DOMAIN node \in SUBSET Field /\ IsNode(node)
           /\ \A f \in DOMAIN node : node[f] \in BOOLEAN \cup SUBSET Neighbor
BY DEF Node

LEMMA MapsToNodes ==
    ASSUME NEW D \in SUBSET Mac, NEW held \in [D -> Node]
    PROVE  held \in NodeMap
BY DEF NodeMap

LEMMA AssignIsNode ==
    ASSUME NEW node \in Node, NEW more \in Node
    PROVE  Assign(node, more) \in Node
<1> DEFINE D == DOMAIN node \cup DOMAIN more
<1>1. D \in SUBSET Field /\ Assign(node, more) \in [D -> BOOLEAN \cup SUBSET Neighbor]
  BY NodeIs DEF Assign
<1>2. IsNode(Assign(node, more))
  BY NodeIs DEF Assign, IsNode
<1> QED BY <1>1, <1>2 DEF Node

\* Object literals, field by field.
LEMMA RecordFields ==
    ASSUME NEW ns, NEW r,
           \/ r = [neighbors |-> ns, config |-> TRUE]
           \/ r = [neighbors |-> ns, discoveredFromTopology |-> TRUE]
           \/ r = [neighbors |-> ns, config |-> TRUE, discoveredFromTopology |-> FALSE]
    PROVE  /\ DOMAIN r \in SUBSET Field /\ r = [f \in DOMAIN r |-> r[f]]
           /\ "neighbors" \in DOMAIN r /\ r["neighbors"] = ns
           /\ \A f \in DOMAIN r \ {"neighbors"} : r[f] \in BOOLEAN
<1>1. CASE r = [neighbors |-> ns, config |-> TRUE]
  <2>1. DOMAIN r = {"neighbors", "config"} /\ r = [f \in DOMAIN r |-> r[f]]
    BY <1>1
  <2>2. r["neighbors"] = ns
    BY <1>1
  <2>3. r["config"] = TRUE
    BY <1>1
  <2> QED BY <2>1, <2>2, <2>3 DEF Field
<1>2. CASE r = [neighbors |-> ns, discoveredFromTopology |-> TRUE]
  <2>1. DOMAIN r = {"neighbors", "discoveredFromTopology"} /\ r = [f \in DOMAIN r |-> r[f]]
    BY <1>2
  <2>2. r["neighbors"] = ns
    BY <1>2
  <2>3. r["discoveredFromTopology"] = TRUE
    BY <1>2
  <2> QED BY <2>1, <2>2, <2>3 DEF Field
<1>3. CASE r = [neighbors |-> ns, config |-> TRUE, discoveredFromTopology |-> FALSE]
  <2>1. DOMAIN r = {"neighbors", "config", "discoveredFromTopology"} /\ r = [f \in DOMAIN r |-> r[f]]
    BY <1>3
  <2>2. r["neighbors"] = ns
    BY <1>3
  <2>3. r["config"] = TRUE /\ r["discoveredFromTopology"] = FALSE
    BY <1>3
  <2> QED BY <2>1, <2>2, <2>3 DEF Field
<1> QED BY <1>1, <1>2, <1>3

LEMMA FieldsMakeNodes ==
    ASSUME NEW r, DOMAIN r \in SUBSET Field, r = [f \in DOMAIN r |-> r[f]],
           "neighbors" \in DOMAIN r, r["neighbors"] \in SUBSET Neighbor,
           \A f \in DOMAIN r \ {"neighbors"} : r[f] \in BOOLEAN
    PROVE  r \in Node
<1>1. IsNode(r)
  BY DEF IsNode
<1>2. \A f \in DOMAIN r : r[f] \in BOOLEAN \cup SUBSET Neighbor
  OBVIOUS
<1>3. r \in [DOMAIN r -> BOOLEAN \cup SUBSET Neighbor]
  BY <1>2
<1> QED BY <1>1, <1>3 DEF Node

LEMMA RecordsAreNodes ==
    ASSUME NEW ns \in SUBSET Neighbor
    PROVE  /\ TopologyRecord(ns) \in Node /\ StateRecord(ns) \in Node /\ Placeholder \in Node
           /\ \A node \in Node : WithTopology(node, ns) \in Node /\ WithState(node, ns) \in Node
<1>1. TopologyRecord(ns) \in Node
  <2>1. TopologyRecord(ns) \in [{"neighbors"} -> BOOLEAN \cup SUBSET Neighbor]
    BY DEF TopologyRecord
  <2>2. IsNode(TopologyRecord(ns))
    BY DEF TopologyRecord, IsNode, Field
  <2> QED BY <2>1, <2>2 DEF Node, Field
<1>2. StateRecord(ns) \in Node
  <2>1. PICK r : r = StateRecord(ns) /\ r = [neighbors |-> ns, config |-> TRUE]
    BY DEF StateRecord
  <2> QED BY <2>1, RecordFields, FieldsMakeNodes
<1>3. Placeholder \in Node
  <2>1. PICK r : r = Placeholder /\ r = [neighbors |-> {}, discoveredFromTopology |-> TRUE]
    BY DEF Placeholder
  <2> QED BY <2>1, RecordFields, FieldsMakeNodes
<1>4. \A node \in Node : WithTopology(node, ns) \in Node
  BY <1>1, AssignIsNode DEF WithTopology
<1>5. ASSUME NEW node \in Node PROVE WithState(node, ns) \in Node
  <2> DEFINE all == IF ns = {} THEN node["neighbors"] ELSE ns
  <2>1. all \in SUBSET Neighbor
    BY NodeIs DEF IsNode
  <2>2. PICK more :
            /\ WithState(node, ns) = Assign(node, more)
            /\ more = [neighbors |-> all, config |-> TRUE, discoveredFromTopology |-> FALSE]
    BY DEF WithState
  <2> HIDE DEF all
  <2>3. more \in Node
    BY <2>1, <2>2, RecordFields, FieldsMakeNodes
  <2> QED BY <2>2, <2>3, AssignIsNode
<1> QED BY <1>1, <1>2, <1>3, <1>4, <1>5

LEMMA AssignIsMap ==
    ASSUME NEW held \in NodeMap, NEW more \in NodeMap
    PROVE  Assign(held, more) \in NodeMap
<1> DEFINE D == DOMAIN held \cup DOMAIN more
<1>1. D \in SUBSET Mac /\ Assign(held, more) \in [D -> Node]
  BY NodeMapIs DEF Assign
<1> QED BY <1>1, MapsToNodes

LEMMA MergeIsMap ==
    ASSUME NEW held \in NodeMap, NEW more \in NodeMap
    PROVE  MergeNodeData(held, more) \in NodeMap
<1> DEFINE D == DOMAIN held \cup DOMAIN more
<1>1. D \in SUBSET Mac
  BY NodeMapIs
<1>2. \A m \in DOMAIN held \cap DOMAIN more : Assign(held[m], more[m]) \in Node
  BY NodeMapIs, AssignIsNode
<1>3. MergeNodeData(held, more) \in [D -> Node]
  BY <1>2, NodeMapIs DEF MergeNodeData
<1> QED BY <1>1, <1>3, MapsToNodes

LEMMA EmptyIsMap == Empty \in NodeMap
<1>1. Empty \in [{} -> Node]
  BY DEF Empty
<1> QED BY <1>1, MapsToNodes

LEMMA ReadIsMap ==
    ASSUME NEW forgets, NEW held \in NodeMap, NEW msg \in Sent
    PROVE  Read(forgets, held, msg) \in NodeMap
BY EmptyIsMap, MergeIsMap DEF Read, Sent

LEMMA LinksToNodes ==
    ASSUME NEW p \in Page, NEW held \in NodeMap, NEW least, Types
    PROVE  Linked(held, least) \subseteq Mac /\ LeftOf(p, held, least) \subseteq SUBSET Mac
<1>1. Linked(held, least) \subseteq Mac
  BY NodeMapIs DEF Linked, Links
<1>2. unresolved[p] \subseteq Mac
  BY DEF Types
<1> QED BY <1>1, <1>2 DEF LeftOf

\* What is drawn, or is not, keeps its types.
LEMMA UpdateTypes ==
    ASSUME Types, NEW p \in Page, NEW held \in NodeMap, NEW least,
           UpdateVisualization(p, held, least) \/ UpdateSimulation(p, held, least)
    PROVE  drawn' \in [Page -> BOOLEAN] /\ unresolved' \in [Page -> SUBSET Mac]
<1>1. CASE UpdateSimulation(p, held, least)
  <2>1. drawn' \in [Page -> BOOLEAN]
    BY <1>1 DEF Types, UpdateSimulation, Draws
  <2>2. LeftOf(p, held, least) \subseteq SUBSET Mac
    BY LinksToNodes
  <2> QED BY <1>1, <2>1, <2>2 DEF Types, UpdateSimulation
<1>2. CASE /\ drawn' = [drawn EXCEPT ![p] = @ /\ held = view[p] /\ least = minRssi[p]]
           /\ UNCHANGED unresolved
  BY <1>2 DEF Types
<1> QED BY <1>1, <1>2 DEF UpdateVisualization
-----------------------------------------------------------------------------
(* What a report of either kind does to the server.                          *)

\* The nodes in heard, and no others, are new or have a new record, have been heard of, and
\* are sent to the pages in some order.
Updated(heard) ==
    /\ heard \in SUBSET Mac /\ nodes' \in NodeMap /\ DOMAIN nodes' = DOMAIN nodes \cup heard
    /\ \A m \in DOMAIN nodes \ heard : nodes'[m] = nodes[m]
    /\ Heard(heard)
    /\ \E changed \in Seq(heard) :
           /\ \A m \in heard : \E i \in 1 .. Len(changed) : changed[i] = m
           /\ Broadcast(changed)
    /\ UNCHANGED <<fresh, isConnected, view, isPaused, minRssi, drawn, unresolved>>

LEMMA WithNodeIs ==
    ASSUME NEW known \in NodeMap, NEW m \in Mac, NEW node \in Node
    PROVE  /\ WithNode(known, m, node) \in NodeMap
           /\ DOMAIN WithNode(known, m, node) = DOMAIN known \cup {m}
           /\ WithNode(known, m, node)[m] = node
           /\ \A n \in DOMAIN known \ {m} : WithNode(known, m, node)[n] = known[n]
<1> DEFINE more == [n \in {m} |-> node]
<1>1. more \in NodeMap
  BY MapsToNodes
<1>2. WithNode(known, m, node) \in NodeMap
  BY <1>1, AssignIsMap DEF WithNode
<1> QED BY <1>2 DEF WithNode, Assign

LEMMA NamedIs ==
    ASSUME NEW known \in NodeMap, NEW named \in SUBSET Mac
    PROVE  /\ Named(known, named) \in NodeMap
           /\ DOMAIN Named(known, named) = DOMAIN known \cup named
           /\ \A n \in DOMAIN known : Named(known, named)[n] = known[n]
           /\ \A n \in named \ DOMAIN known : Named(known, named)[n] = Placeholder
<1> DEFINE more == [n \in named |-> Placeholder]
<1>1. more \in NodeMap
  BY RecordsAreNodes, MapsToNodes
<1>2. Named(known, named) \in NodeMap
  BY <1>1, AssignIsMap DEF Named
<1> QED BY <1>2 DEF Named, Assign

LEMMA StateUpdates ==
    ASSUME Types, NEW m \in Mac, NEW ns \in SUBSET Neighbor, StateMessage(m, ns)
    PROVE  Updated({m})
<1> DEFINE node == IF m \in DOMAIN nodes THEN WithState(nodes[m], ns) ELSE StateRecord(ns)
<1>1. nodes \in NodeMap
  BY DEF Types
<1>2. node \in Node
  BY <1>1, NodeMapIs, RecordsAreNodes
<1>3. nodes' = WithNode(nodes, m, node)
  BY DEF StateMessage
<1>4. /\ nodes' \in NodeMap /\ DOMAIN nodes' = DOMAIN nodes \cup {m}
      /\ \A n \in DOMAIN nodes \ {m} : nodes'[n] = nodes[n]
  <2> HIDE DEF node
  <2> QED BY <1>1, <1>2, <1>3, WithNodeIs
<1>5. \E changed \in Seq({m}) :
          /\ \A n \in {m} : \E i \in 1 .. Len(changed) : changed[i] = n
          /\ Broadcast(changed)
  <2>1. <<m>> \in Seq({m}) /\ Len(<<m>>) = 1 /\ <<m>>[1] = m
    OBVIOUS
  <2>2. Broadcast(<<m>>)
    BY DEF StateMessage
  <2> WITNESS <<m>> \in Seq({m})
  <2> QED BY <2>1, <2>2
<1> QED BY <1>4, <1>5 DEF StateMessage, Updated

LEMMA TopologyUpdates ==
    ASSUME Types, NEW m \in Mac, NEW named \in SUBSET Mac, NEW ns \in SUBSET Neighbor,
           TopologyMessage(m, ns, named)
    PROVE  Updated({m} \cup named)
<1> DEFINE root == IF m \in DOMAIN nodes THEN WithTopology(nodes[m], ns) ELSE TopologyRecord(ns)
           heard == {m} \cup named
           all == WithNode(nodes, m, root)
<1>1. nodes \in NodeMap
  BY DEF Types
<1>2. root \in Node
  BY <1>1, NodeMapIs, RecordsAreNodes
<1>3. /\ all \in NodeMap /\ DOMAIN all = DOMAIN nodes \cup {m}
      /\ \A n \in DOMAIN nodes \ {m} : all[n] = nodes[n]
  <2> HIDE DEF root
  <2> QED BY <1>1, <1>2, WithNodeIs
<1>4. nodes' = Named(all, named)
  BY DEF TopologyMessage
<1>5. /\ nodes' \in NodeMap /\ DOMAIN nodes' = DOMAIN nodes \cup heard
      /\ \A n \in DOMAIN nodes \ heard : nodes'[n] = nodes[n]
  <2> HIDE DEF all
  <2>1. /\ nodes' \in NodeMap /\ DOMAIN nodes' = DOMAIN all \cup named
        /\ \A n \in DOMAIN all : nodes'[n] = all[n]
    BY <1>3, <1>4, NamedIs
  <2> QED BY <1>3, <2>1
<1>6. \E changed \in Seq(heard) :
          /\ \A n \in heard : \E i \in 1 .. Len(changed) : changed[i] = n
          /\ Broadcast(changed)
  <2>1. PICK others \in Seq(named) :
            /\ others = SetToSeq(named)
            /\ \A n \in named : \E i \in DOMAIN others : others[i] = n
    <3>1. IsFiniteSet(named)
      BY MacAssumption, FS_Subset
    <3> QED BY <3>1, SetToSeqIs
  <2>2. PICK first \in Seq(heard) : first = <<m>>
    <3>1. <<m>> \in Seq(heard)
      OBVIOUS
    <3> QED BY <3>1
  <2>3. Len(first) = 1 /\ first[1] = m /\ others \in Seq(heard) /\ Len(others) \in Nat
        /\ DOMAIN others = 1 .. Len(others)
    BY <2>2, LenProperties
  <2>4. PICK changed \in Seq(heard) : changed = first \o others
    BY <2>3, ConcatProperties
  <2>5. /\ Len(changed) = 1 + Len(others) /\ changed[1] = m
        /\ \A i \in 1 .. Len(others) : changed[1 + i] = others[i]
    <3>1. /\ Len(changed) = Len(first) + Len(others)
          /\ \A i \in 1 .. Len(first) + Len(others) :
                changed[i] = IF i <= Len(first) THEN first[i] ELSE others[i - Len(first)]
      BY <2>3, <2>4, ConcatProperties
    <3> HIDE DEF heard
    <3>2. /\ Len(changed) = 1 + Len(others)
          /\ \A i \in 1 .. 1 + Len(others) :
                changed[i] = IF i <= 1 THEN first[i] ELSE others[i - 1]
      BY <2>3, <3>1
    <3>3. changed[1] = m
      BY <2>3, <3>2
    <3>4. ASSUME NEW i \in 1 .. Len(others) PROVE changed[1 + i] = others[i]
      <4>1. 1 + i \in 1 .. 1 + Len(others) /\ ~(1 + i <= 1) /\ 1 + i - 1 = i
        BY <2>3
      <4> QED BY <3>2, <4>1
    <3> QED BY <3>2, <3>3, <3>4
  <2>6. \A n \in heard : \E i \in 1 .. Len(changed) : changed[i] = n
    <3>1. \A i \in DOMAIN others : 1 + i \in 1 .. Len(changed) /\ changed[1 + i] = others[i]
      BY <2>3, <2>5
    <3>2. 1 \in 1 .. Len(changed)
      BY <2>3, <2>5
    <3>3. ASSUME NEW n \in named PROVE \E i \in 1 .. Len(changed) : changed[i] = n
      <4>1. PICK i \in DOMAIN others : others[i] = n
        BY <2>1
      <4>2. 1 + i \in 1 .. Len(changed) /\ changed[1 + i] = n
        BY <3>1, <4>1
      <4> QED BY <4>2
    <3>4. \E i \in 1 .. Len(changed) : changed[i] = m
      BY <2>5, <3>2
    <3> QED BY <3>3, <3>4
  <2>7. Broadcast(changed)
    BY <2>1, <2>2, <2>4 DEF TopologyMessage
  <2> QED BY <2>6, <2>7
<1> QED BY <1>5, <1>6 DEF TopologyMessage, Updated

\* Whoever a report is from or names is among those it updates.
LEMMA MentionUpdates ==
    ASSUME Types, NEW m \in Mac, Mentions(m)
    PROVE  \E heard : Updated(heard)
BY StateUpdates, TopologyUpdates DEF Mentions

\* What the pages are sent by it.
LEMMA UpdateIsSent ==
    ASSUME Types, NEW heard \in SUBSET Mac, nodes' \in NodeMap, heard \subseteq DOMAIN nodes',
           NEW changed \in Seq(heard), Broadcast(changed), NEW p \in Page
    PROVE  \/ ~isConnected[p] /\ toPage'[p] = toPage[p]
           \/ \E msgs \in Seq(Sent) :
                  /\ Len(msgs) = Len(changed) /\ toPage'[p] = toPage[p] \o msgs
                  /\ \A i \in 1 .. Len(changed) :
                         msgs[i] = Message("node_update", [n \in {changed[i]} |-> nodes'[n]])
<1> DEFINE msgs == [i \in DOMAIN changed |->
                       Message("node_update", [n \in {changed[i]} |-> nodes'[n]])]
<1>1. DOMAIN changed = 1 .. Len(changed) /\ Len(changed) \in Nat
      /\ \A i \in DOMAIN changed : changed[i] \in heard
  BY LenProperties, ElementOfSeq
<1>2. \A c \in heard : [n \in {c} |-> nodes'[n]] \in NodeMap
  <2> TAKE c \in heard
  <2>1. [n \in {c} |-> nodes'[n]] \in [{c} -> Node]
    BY NodeMapIs
  <2> QED BY <2>1, MapsToNodes
<1>3. \A i \in DOMAIN changed : msgs[i] \in Sent
  BY <1>1, <1>2 DEF Message, Sent
<1>4. msgs \in Seq(Sent) /\ Len(msgs) = Len(changed)
  <2>1. PICK n \in Nat : n = Len(changed)
    BY <1>1
  <2>2. msgs \in [1 .. n -> Sent]
    BY <1>1, <1>3, <2>1
  <2> HIDE DEF msgs
  <2>3. msgs \in Seq(Sent) /\ Len(msgs) = n
    BY <2>2
  <2> QED BY <2>1, <2>3
<1>5. toPage'[p] = IF isConnected[p] THEN toPage[p] \o msgs ELSE toPage[p]
  BY DEF Broadcast
<1>6. \A i \in 1 .. Len(changed) :
          msgs[i] = Message("node_update", [n \in {changed[i]} |-> nodes'[n]])
  BY <1>1
<1> HIDE DEF msgs
<1> QED BY <1>4, <1>5, <1>6

LEMMA InitTypes == Init => Types
<1> SUFFICES ASSUME Init PROVE Types
  OBVIOUS
<1>1. nodes \in NodeMap /\ receivedAt \in [DOMAIN nodes -> 0 .. StaleTimeout + 1]
  BY EmptyIsMap DEF Init, Empty
<1>2. silent \in [Mac -> 0 .. StaleTimeout + 1]
  BY TimeoutAssumption DEF Init
<1>3. view \in [Page -> NodeMap]
  BY EmptyIsMap DEF Init
<1>4. toPage \in [Page -> Seq(Sent)]
  BY EmptySeq DEF Init
<1>5. minRssi \in [Page -> Int]
  BY DEF Init, FirstMinRssi
<1> QED BY <1>1, <1>2, <1>3, <1>4, <1>5 DEF Init, Types

LEMMA UpdatedTypes ==
    ASSUME Types, NEW heard, Updated(heard)
    PROVE  Types'
<1>1. receivedAt' \in [DOMAIN nodes' -> 0 .. StaleTimeout + 1]
  BY TimeoutAssumption DEF Types, Updated, Heard, Assign
<1>2. silent' \in [Mac -> 0 .. StaleTimeout + 1]
  BY TimeoutAssumption DEF Types, Updated, Heard, Assign
<1>3. ASSUME NEW p \in Page PROVE toPage'[p] \in Seq(Sent)
  <2>1. PICK changed \in Seq(heard) : Broadcast(changed)
    BY DEF Updated
  <2>2. heard \in SUBSET Mac /\ heard \subseteq DOMAIN nodes' /\ nodes' \in NodeMap
    BY DEF Updated
  <2>3. CASE toPage'[p] = toPage[p]
    BY <2>3 DEF Types
  <2>4. CASE \E msgs \in Seq(Sent) : toPage'[p] = toPage[p] \o msgs
    BY <2>4, ConcatProperties DEF Types
  <2> QED BY <2>1, <2>2, <2>3, <2>4, UpdateIsSent
<1>4. toPage' \in [Page -> Seq(Sent)]
  <2>1. toPage' = [p \in Page |-> toPage'[p]]
    BY DEF Updated, Broadcast
  <2> QED BY <1>3, <2>1
<1> QED BY <1>1, <1>2, <1>4 DEF Types, Updated

LEMMA CleanupTypes ==
    ASSUME Types, Cleanup
    PROVE  Types'
<1> DEFINE D == DOMAIN nodes \ Stale
<1>1. D \in SUBSET Mac /\ nodes' \in [D -> Node]
  BY NodeMapIs DEF Types, Cleanup
<1>2. nodes' \in NodeMap /\ receivedAt' \in [DOMAIN nodes' -> 0 .. StaleTimeout + 1]
  <2>1. receivedAt' \in [D -> 0 .. StaleTimeout + 1]
    BY DEF Types, Cleanup
  <2> QED BY <1>1, <2>1, MapsToNodes
<1> QED BY <1>2 DEF Types, Cleanup, pageVars

LEMMA TickTypes ==
    ASSUME Types, Tick
    PROVE  Types'
BY TimeoutAssumption DEF Types, Tick, pageVars

LEMMA ConnectTypes ==
    ASSUME Types, NEW p \in Page, Connect(p)
    PROVE  Types'
<1>1. Message("full_state", nodes) \in Sent
  BY DEF Types, Message, Sent
<1>2. <<Message("full_state", nodes)>> \in Seq(Sent)
  BY <1>1
<1>3. toPage' \in [Page -> Seq(Sent)]
  BY <1>2 DEF Types, Connect
<1> QED BY <1>3 DEF Types, Connect, serverVars

LEMMA DisconnectTypes ==
    ASSUME Types, NEW p \in Page, Disconnect(p)
    PROVE  Types'
<1>1. toPage' \in [Page -> Seq(Sent)]
  BY EmptySeq DEF Types, Disconnect
<1> QED BY <1>1 DEF Types, Disconnect, serverVars

LEMMA ReloadTypes ==
    ASSUME Types, NEW p \in Page, Reload(p)
    PROVE  Types'
<1>1. toPage' \in [Page -> Seq(Sent)]
  BY EmptySeq DEF Types, Reload
<1>2. view' \in [Page -> NodeMap]
  BY EmptyIsMap DEF Types, Reload
<1>3. minRssi' \in [Page -> Int]
  BY DEF Types, Reload, FirstMinRssi
<1> QED BY <1>1, <1>2, <1>3 DEF Types, Reload, serverVars

LEMMA ReceiveTypes ==
    ASSUME Types, NEW p \in Page, Receive(p)
    PROVE  Types'
<1> DEFINE held == Read(p \in fresh, view[p], Head(toPage[p]))
<1>1. toPage[p] \in Seq(Sent) /\ toPage[p] # <<>> /\ view[p] \in NodeMap
  BY DEF Types, Receive
<1>2. Head(toPage[p]) \in Sent /\ Tail(toPage[p]) \in Seq(Sent)
  BY <1>1, HeadTailProperties
<1>3. held \in NodeMap
  BY <1>1, <1>2, ReadIsMap
<1>4. /\ view' = [view EXCEPT ![p] = held] /\ toPage' = [toPage EXCEPT ![p] = Tail(@)]
      /\ UpdateVisualization(p, held, minRssi[p])
  BY DEF Receive
<1> HIDE DEF held
<1>5. view' \in [Page -> NodeMap] /\ toPage' \in [Page -> Seq(Sent)]
  BY <1>2, <1>3, <1>4 DEF Types
<1>6. drawn' \in [Page -> BOOLEAN] /\ unresolved' \in [Page -> SUBSET Mac]
  BY <1>3, <1>4, UpdateTypes
<1> QED BY <1>5, <1>6 DEF Types, Receive, serverVars

LEMMA TogglePauseTypes ==
    ASSUME Types, NEW p \in Page, TogglePause(p)
    PROVE  Types'
<1>1. drawn' \in [Page -> BOOLEAN] /\ unresolved' \in [Page -> SUBSET Mac]
  <2>1. view[p] \in NodeMap
    BY DEF Types
  <2>2. CASE UpdateSimulation(p, view[p], minRssi[p])
    BY <2>1, <2>2, UpdateTypes
  <2>3. CASE UNCHANGED <<drawn, unresolved>>
    BY <2>3 DEF Types
  <2> QED BY <2>2, <2>3 DEF TogglePause
<1>2. isPaused' \in [Page -> BOOLEAN]
  BY DEF Types, TogglePause
<1> QED BY <1>1, <1>2 DEF Types, TogglePause, serverVars

LEMMA OnMinRssiChangeTypes ==
    ASSUME Types, NEW p \in Page, NEW least \in Slider, OnMinRssiChange(p, least)
    PROVE  Types'
<1>1. view[p] \in NodeMap /\ UpdateVisualization(p, view[p], least)
  BY DEF Types, OnMinRssiChange
<1>2. drawn' \in [Page -> BOOLEAN] /\ unresolved' \in [Page -> SUBSET Mac]
  BY <1>1, UpdateTypes
<1>3. minRssi' \in [Page -> Int]
  BY SliderAssumption DEF Types, OnMinRssiChange
<1> QED BY <1>2, <1>3 DEF Types, OnMinRssiChange, serverVars

LEMMA OnWindowResizeTypes ==
    ASSUME Types, NEW p \in Page, OnWindowResize(p)
    PROVE  Types'
<1>1. view[p] \in NodeMap /\ UpdateVisualization(p, view[p], minRssi[p])
  BY DEF Types, OnWindowResize
<1>2. drawn' \in [Page -> BOOLEAN] /\ unresolved' \in [Page -> SUBSET Mac]
  BY <1>1, UpdateTypes
<1> QED BY <1>2 DEF Types, OnWindowResize, serverVars

LEMMA TypesKept == Types /\ [Next]_vars => Types'
<1> SUFFICES ASSUME Types, [Next]_vars PROVE Types'
  OBVIOUS
<1>1. CASE \E m \in Mac : Mentions(m)
  BY <1>1, MentionUpdates, UpdatedTypes
<1>2. CASE Cleanup
  BY <1>2, CleanupTypes
<1>3. CASE Tick
  BY <1>3, TickTypes
<1>4. CASE Pages
  BY <1>4, ConnectTypes, DisconnectTypes, ReloadTypes, ReceiveTypes, TogglePauseTypes,
     OnMinRssiChangeTypes, OnWindowResizeTypes DEF Pages
<1>5. CASE UNCHANGED vars
  BY <1>5 DEF Types, vars, serverVars, pageVars
<1> QED BY <1>1, <1>2, <1>3, <1>4, <1>5 DEF Next, Server

LEMMA TypesAlways == Spec => []Types
BY InitTypes, TypesKept, PTL DEF Spec

\* The server's map, the pages' and the messages between them are well-formed: every record
\* has a list of neighbors, which createPlaceholderNode and the converters see to.
THEOREM TypeCorrect == Spec => []TypeOK
<1>1. Types => TypeOK
  <2> SUFFICES ASSUME Types PROVE TypeOK
    OBVIOUS
  <2>1. IsMap(nodes)
    BY NodeMapIs DEF Types
  <2>2. ASSUME NEW p \in Page
        PROVE  IsMap(view[p]) /\ \A i \in DOMAIN toPage[p] : IsMap(toPage[p][i].data)
    <3>1. IsMap(view[p])
      BY NodeMapIs DEF Types
    <3>2. \A i \in DOMAIN toPage[p] : toPage[p][i] \in Sent
      BY ElementOfSeq DEF Types
    <3> QED BY <3>1, <3>2, NodeMapIs DEF Sent
  <2> QED BY <2>1, <2>2 DEF Types, TypeOK
<1> QED BY <1>1, TypesAlways, PTL
-----------------------------------------------------------------------------
(* Pages mirror the map.                                                     *)

ReflectsNode(map, held, m) ==
    /\ m \in DOMAIN held
    /\ \A f \in DOMAIN map[m] : f \in DOMAIN held[m] /\ held[m][f] = map[m][f]

UpdateOf(map, c) == Message("node_update", [n \in {c} |-> map[n]])

\* A record that is read is reflected, and one that was stays so.
LEMMA ReadUpdate ==
    ASSUME NEW forgets, NEW held, NEW map, NEW c
    PROVE  /\ ReflectsNode(map, Read(forgets, held, UpdateOf(map, c)), c)
           /\ \A m : ReflectsNode(map, held, m)
                      => ReflectsNode(map, Read(forgets, held, UpdateOf(map, c)), m)
<1> DEFINE in == [n \in {c} |-> map[n]]
           now == MergeNodeData(held, in)
<1>1. Read(forgets, held, UpdateOf(map, c)) = now
  BY DEF Read, Message, UpdateOf
<1>2. DOMAIN now = DOMAIN held \cup {c} /\ \A m \in DOMAIN held \ {c} : now[m] = held[m]
  BY DEF MergeNodeData
<1>3. now[c] = IF c \in DOMAIN held THEN Assign(held[c], map[c]) ELSE map[c]
  BY DEF MergeNodeData
<1>4. \A f \in DOMAIN map[c] : f \in DOMAIN now[c] /\ now[c][f] = map[c][f]
  <2> HIDE DEF now
  <2>1. CASE c \in DOMAIN held
    BY <1>3, <2>1 DEF Assign
  <2>2. CASE c \notin DOMAIN held
    BY <1>3, <2>2
  <2> QED BY <2>1, <2>2
<1> HIDE DEF now
<1> QED BY <1>1, <1>2, <1>4 DEF ReflectsNode

LEMMA BatchReflects ==
    ASSUME NEW forgets, NEW held, NEW map, NEW changed \in Seq(Mac), NEW msgs \in Seq(Sent),
           Len(msgs) = Len(changed),
           \A i \in 1 .. Len(changed) : msgs[i] = UpdateOf(map, changed[i])
    PROVE  \A m \in Mac :
               ReflectsNode(map, held, m) \/ (\E i \in 1 .. Len(changed) : changed[i] = m)
                   => ReflectsNode(map, After(forgets, held, msgs), m)
<1> DEFINE L == Len(msgs)
<1>1. L \in Nat
  BY LenProperties
<1>2. PICK f : Run(forgets, held, msgs, f) /\ After(forgets, held, msgs) = f[L]
  BY RunExists
<1>3. f[0] = held /\ \A i \in 1 .. L : f[i] = Read(forgets, f[i - 1], msgs[i])
  BY <1>2, RunSteps
<1> DEFINE T == {k \in 0 .. L : \A m \in Mac :
                     ReflectsNode(map, held, m) \/ (\E i \in 1 .. k : changed[i] = m)
                         => ReflectsNode(map, f[k], m)}
<1>4. 0 \in T
  BY <1>1, <1>3
<1>5. ASSUME NEW k \in 0 .. L - 1, k \in T PROVE k + 1 \in T
  <2>1. PICK j \in 1 .. L : j = k + 1
    BY <1>1
  <2>2. f[j] = Read(forgets, f[k], msgs[j])
    BY <1>1, <1>3, <2>1
  <2>3. msgs[j] = UpdateOf(map, changed[j])
    OBVIOUS
  <2>4. /\ ReflectsNode(map, f[j], changed[j])
        /\ \A m : ReflectsNode(map, f[k], m) => ReflectsNode(map, f[j], m)
    BY <2>2, <2>3, ReadUpdate
  <2>5. ASSUME NEW m \in Mac,
               ReflectsNode(map, held, m) \/ (\E i \in 1 .. j : changed[i] = m)
        PROVE  ReflectsNode(map, f[j], m)
    <3>1. CASE changed[j] = m
      BY <2>4, <3>1
    <3>2. CASE changed[j] # m
      <4>1. ReflectsNode(map, held, m) \/ (\E i \in 1 .. k : changed[i] = m)
        BY <1>1, <2>1, <2>5, <3>2
      <4> QED BY <1>5, <2>4, <4>1
    <3> QED BY <3>1, <3>2
  <2> QED BY <1>1, <2>1, <2>5
<1> HIDE DEF T, L
<1>6. L \in T
  <2>1. \A k \in 0 .. L : k \in T
    BY <1>1, <1>4, <1>5, SetInduction
  <2> QED BY <1>1, <2>1
<1> QED BY <1>2, <1>6 DEF T, L

LEMMA UpdatedMirrors ==
    ASSUME Types, Mirrors, NEW heard, Updated(heard)
    PROVE  Mirrors'
<1> SUFFICES ASSUME NEW p \in Page, isConnected'[p], NEW m \in DOMAIN nodes'
             PROVE  ReflectsNode(nodes', After(p \in fresh', view'[p], toPage'[p]), m)
  BY DEF Mirrors, Reflects, ReflectsNode
<1>1. /\ heard \in SUBSET Mac /\ nodes' \in NodeMap /\ DOMAIN nodes' = DOMAIN nodes \cup heard
      /\ view' = view /\ isConnected' = isConnected /\ fresh' = fresh
  BY DEF Updated
<1>2. PICK changed \in Seq(heard) :
          /\ \A n \in heard : \E i \in 1 .. Len(changed) : changed[i] = n
          /\ Broadcast(changed)
  BY DEF Updated
<1>3. PICK msgs \in Seq(Sent) :
          /\ Len(msgs) = Len(changed) /\ toPage'[p] = toPage[p] \o msgs
          /\ \A i \in 1 .. Len(changed) :
                 msgs[i] = Message("node_update", [n \in {changed[i]} |-> nodes'[n]])
  BY <1>1, <1>2, UpdateIsSent
<1>4. PICK forgets, was : forgets = (p \in fresh) /\ was = After(forgets, view[p], toPage[p])
  OBVIOUS
<1>5. After(p \in fresh', view'[p], toPage'[p]) = After(forgets, was, msgs)
  <2>1. toPage[p] \in Seq(Sent)
    BY DEF Types
  <2>2. After(forgets, view[p], toPage[p] \o msgs)
            = After(forgets, After(forgets, view[p], toPage[p]), msgs)
    BY <2>1, AfterConcat
  <2> QED BY <1>1, <1>3, <1>4, <2>2
<1>6. ReflectsNode(nodes', was, m) \/ \E i \in 1 .. Len(changed) : changed[i] = m
  <2>1. CASE m \in heard
    BY <1>2, <2>1
  <2>2. CASE m \notin heard
    <3>1. m \in DOMAIN nodes /\ nodes'[m] = nodes[m]
      BY <1>1, <2>2 DEF Updated
    <3>2. Reflects(was)
      BY <1>1, <1>4 DEF Mirrors
    <3> QED BY <3>1, <3>2 DEF Reflects, ReflectsNode
  <2> QED BY <2>1, <2>2
<1>7. PICK c \in Seq(Mac) : c = changed
  BY <1>1, <1>2, SeqDef
<1>8. PICK map : map = nodes'
  OBVIOUS
<1>9. ReflectsNode(map, After(forgets, was, msgs), m)
  <2>1. m \in Mac
    BY <1>1, NodeMapIs
  <2>2. /\ Len(msgs) = Len(c)
        /\ \A i \in 1 .. Len(c) : msgs[i] = UpdateOf(map, c[i])
    BY <1>3, <1>7, <1>8 DEF UpdateOf
  <2>3. ReflectsNode(map, was, m) \/ \E i \in 1 .. Len(c) : c[i] = m
    BY <1>6, <1>7, <1>8
  <2> QED BY <2>1, <2>2, <2>3, BatchReflects
<1> QED BY <1>5, <1>8, <1>9

\* Actions that leave the server and what a page has to read alone.
LEMMA SameMirrors ==
    ASSUME Mirrors, UNCHANGED <<nodes, fresh>>, NEW q,
           \A p \in Page \ {q} : /\ isConnected'[p] = isConnected[p]
                                 /\ view'[p] = view[p] /\ toPage'[p] = toPage[p],
           q \in Page /\ isConnected'[q]
               => Reflects(After(q \in fresh, view'[q], toPage'[q]))
    PROVE  Mirrors'
BY DEF Mirrors, Reflects

LEMMA CleanupMirrors ==
    ASSUME Types, Mirrors, Cleanup
    PROVE  Mirrors'
<1>1. \A m \in DOMAIN nodes' : m \in DOMAIN nodes /\ nodes'[m] = nodes[m]
  BY DEF Cleanup
<1>2. UNCHANGED <<fresh, isConnected, view, toPage>>
  BY DEF Cleanup, pageVars
<1> QED BY <1>1, <1>2 DEF Mirrors, Reflects

LEMMA ConnectMirrors ==
    ASSUME Types, Mirrors, NEW q \in Page, Connect(q)
    PROVE  Mirrors'
<1> DEFINE msg == Message("full_state", nodes)
<1>1. PICK forgets : forgets = (q \in fresh)
  OBVIOUS
<1>2. Reflects(Read(forgets, view[q], msg))
  BY DEF Read, Message, MergeNodeData, Assign, Reflects
<1>3. After(forgets, view[q], <<msg>>) = Read(forgets, view[q], msg)
  BY AfterOne
<1>4. /\ UNCHANGED <<nodes, fresh, view>>
      /\ \A p \in Page \ {q} : isConnected'[p] = isConnected[p] /\ toPage'[p] = toPage[p]
      /\ toPage'[q] = <<msg>>
  BY DEF Types, Connect, serverVars
<1> HIDE DEF msg
<1> QED BY <1>1, <1>2, <1>3, <1>4, SameMirrors

LEMMA ReceiveMirrors ==
    ASSUME Types, Mirrors, NEW q \in Page, Receive(q)
    PROVE  Mirrors'
<1>1. PICK forgets : forgets = (q \in fresh)
  OBVIOUS
<1>2. toPage[q] \in Seq(Sent) /\ toPage[q] # <<>>
  BY DEF Types, Receive
<1>3. After(forgets, view[q], toPage[q])
          = After(forgets, Read(forgets, view[q], Head(toPage[q])), Tail(toPage[q]))
  BY <1>2, AfterFirst
<1>4. /\ UNCHANGED <<nodes, fresh, isConnected>>
      /\ \A p \in Page \ {q} : view'[p] = view[p] /\ toPage'[p] = toPage[p]
      /\ toPage'[q] = Tail(toPage[q])
      /\ view'[q] = Read(q \in fresh, view[q], Head(toPage[q]))
  BY DEF Types, Receive, serverVars
<1>5. isConnected[q] => Reflects(After(forgets, view[q], toPage[q]))
  BY <1>1 DEF Mirrors
<1> QED BY <1>1, <1>3, <1>4, <1>5, SameMirrors

LEMMA MirrorsKept == Types /\ Mirrors /\ [Next]_vars => Mirrors'
<1> SUFFICES ASSUME Types, Mirrors, [Next]_vars PROVE Mirrors'
  OBVIOUS
<1>1. CASE \E m \in Mac : Mentions(m)
  BY <1>1, MentionUpdates, UpdatedMirrors
<1>2. CASE Cleanup
  BY <1>2, CleanupMirrors
<1>3. CASE Tick \/ UNCHANGED vars
  BY <1>3 DEF Tick, vars, serverVars, pageVars, Mirrors, Reflects
<1>4. ASSUME NEW p \in Page, Connect(p) \/ Receive(p) PROVE Mirrors'
  BY <1>4, ConnectMirrors, ReceiveMirrors
<1>5. ASSUME NEW q \in Page, Disconnect(q) \/ Reload(q) PROVE Mirrors'
  <2>1. /\ UNCHANGED <<nodes, fresh>> /\ ~isConnected'[q]
        /\ \A p \in Page \ {q} : /\ isConnected'[p] = isConnected[p]
                                 /\ view'[p] = view[p] /\ toPage'[p] = toPage[p]
    BY <1>5 DEF Types, Disconnect, Reload, serverVars
  <2> QED BY <2>1, SameMirrors
<1>6. ASSUME NEW p \in Page,
             TogglePause(p) \/ (\E least \in Slider : OnMinRssiChange(p, least)) \/ OnWindowResize(p)
      PROVE  Mirrors'
  BY <1>6 DEF TogglePause, OnMinRssiChange, OnWindowResize, serverVars, Mirrors, Reflects
<1> QED BY <1>1, <1>2, <1>3, <1>4, <1>5, <1>6 DEF Next, Server, Pages

\* However connections break, pages are loaded again and reports come in between, an open
\* page that has read what is under way has every node and field the server has.
THEOREM PagesMirror == Spec => []Mirrors
<1>1. Init => Mirrors
  BY DEF Init, Mirrors
<1> QED BY <1>1, TypesAlways, MirrorsKept, PTL DEF Spec

-----------------------------------------------------------------------------
(* Placeholders and configurations.                                          *)

LEMMA FieldsOf ==
    ASSUME NEW ns
    PROVE  /\ DOMAIN StateRecord(ns) = {"neighbors", "config"}
           /\ DOMAIN TopologyRecord(ns) = {"neighbors"}
           /\ DOMAIN Placeholder = {"neighbors", "discoveredFromTopology"}
BY DEF StateRecord, TopologyRecord, Placeholder

LEMMA WithStateIs ==
    ASSUME NEW node, NEW ns
    PROVE  /\ "config" \in DOMAIN WithState(node, ns)
           /\ "discoveredFromTopology" \in DOMAIN WithState(node, ns)
           /\ WithState(node, ns)["discoveredFromTopology"] = FALSE
<1> DEFINE all == IF ns = {} THEN node["neighbors"] ELSE ns
<1>1. PICK more :
          /\ WithState(node, ns) = Assign(node, more)
          /\ more = [neighbors |-> all, config |-> TRUE, discoveredFromTopology |-> FALSE]
  BY DEF WithState
<1> HIDE DEF all
<1>2. DOMAIN more = {"neighbors", "config", "discoveredFromTopology"}
  BY <1>1
<1>3. more["discoveredFromTopology"] = FALSE
  BY <1>1
<1> QED BY <1>1, <1>2, <1>3 DEF Assign

LEMMA WithTopologyIs ==
    ASSUME NEW node, NEW ns
    PROVE  /\ DOMAIN WithTopology(node, ns) = DOMAIN node \cup {"neighbors"}
           /\ \A f \in DOMAIN node \ {"neighbors"} : WithTopology(node, ns)[f] = node[f]
<1>1. DOMAIN TopologyRecord(ns) = {"neighbors"}
  BY FieldsOf
<1> QED BY <1>1 DEF WithTopology, Assign

\* What a step leaves of a node's record: nothing, all of it, or a report's merge.
Changed(m) ==
    \/ m \notin DOMAIN nodes'
    \/ m \in DOMAIN nodes /\ nodes'[m] = nodes[m]
    \/ m \notin DOMAIN nodes /\ \E ns \in SUBSET Neighbor :
           nodes'[m] \in {StateRecord(ns), TopologyRecord(ns), Placeholder}
    \/ m \in DOMAIN nodes /\ \E ns \in SUBSET Neighbor :
           nodes'[m] \in {WithState(nodes[m], ns), WithTopology(nodes[m], ns)}

LEMMA RecordsChange ==
    ASSUME Types, [Next]_vars, NEW m \in Mac
    PROVE  Changed(m)
<1>1. nodes \in NodeMap
  BY DEF Types
<1>2. ASSUME NEW n \in Mac, NEW ns \in SUBSET Neighbor, StateMessage(n, ns) PROVE Changed(m)
  <2> DEFINE node == IF n \in DOMAIN nodes THEN WithState(nodes[n], ns) ELSE StateRecord(ns)
  <2>1. node \in Node
    BY <1>1, NodeMapIs, RecordsAreNodes
  <2>2. nodes' = WithNode(nodes, n, node)
    BY <1>2 DEF StateMessage
  <2>3. CASE m = n
    <3>1. nodes'[m] = node
      <4> HIDE DEF node
      <4> QED BY <1>1, <2>1, <2>2, <2>3, WithNodeIs
    <3> QED BY <2>3, <3>1 DEF Changed
  <2>4. CASE m # n
    <3> HIDE DEF node
    <3>1. /\ DOMAIN nodes' = DOMAIN nodes \cup {n}
          /\ \A x \in DOMAIN nodes \ {n} : nodes'[x] = nodes[x]
      <4>1. /\ DOMAIN WithNode(nodes, n, node) = DOMAIN nodes \cup {n}
            /\ \A x \in DOMAIN nodes \ {n} : WithNode(nodes, n, node)[x] = nodes[x]
        BY <1>1, <2>1, WithNodeIs
      <4> QED BY <2>2, <4>1
    <3> QED BY <2>4, <3>1 DEF Changed
  <2> QED BY <2>3, <2>4
<1>3. ASSUME NEW n \in Mac, NEW named \in SUBSET Mac, NEW ns \in SUBSET Neighbor,
             TopologyMessage(n, ns, named)
      PROVE  Changed(m)
  <2> DEFINE root == IF n \in DOMAIN nodes THEN WithTopology(nodes[n], ns) ELSE TopologyRecord(ns)
             all == WithNode(nodes, n, root)
  <2>1. root \in Node
    BY <1>1, NodeMapIs, RecordsAreNodes
  <2>2. nodes' = Named(all, named)
    BY <1>3 DEF TopologyMessage
  <2>3. /\ all \in NodeMap /\ DOMAIN all = DOMAIN nodes \cup {n} /\ all[n] = root
        /\ \A x \in DOMAIN nodes \ {n} : all[x] = nodes[x]
    <3> HIDE DEF root
    <3> QED BY <1>1, <2>1, WithNodeIs
  <2>4. /\ DOMAIN nodes' = DOMAIN all \cup named
        /\ \A x \in DOMAIN all : nodes'[x] = all[x]
        /\ \A x \in named \ DOMAIN all : nodes'[x] = Placeholder
    <3> HIDE DEF all
    <3>1. /\ DOMAIN Named(all, named) = DOMAIN all \cup named
          /\ \A x \in DOMAIN all : Named(all, named)[x] = all[x]
          /\ \A x \in named \ DOMAIN all : Named(all, named)[x] = Placeholder
      BY <2>3, NamedIs
    <3> QED BY <2>2, <3>1
  <2> HIDE DEF all
  <2>5. CASE m = n
    <3>1. nodes'[m] = root /\ ns \in SUBSET Neighbor
      BY <2>3, <2>4, <2>5
    <3> QED BY <2>5, <3>1 DEF Changed
  <2>6. CASE m # n
    BY <2>3, <2>4, <2>6 DEF Changed
  <2> QED BY <2>5, <2>6
<1>4. ASSUME NEW n \in Mac, Mentions(n) PROVE Changed(m)
  BY <1>2, <1>3, <1>4 DEF Mentions
<1>5. CASE Cleanup
  BY <1>5 DEF Cleanup, Changed
<1>6. CASE Tick \/ Pages \/ UNCHANGED vars
  <2>1. nodes' = nodes
    BY <1>6 DEF Tick, Pages, Connect, Disconnect, Reload, Receive, TogglePause,
             OnMinRssiChange, OnWindowResize, vars, serverVars
  <2> QED BY <2>1 DEF Changed
<1> QED BY <1>4, <1>5, <1>6 DEF Next, Server

LEMMA PlaceholderKept == Types /\ PlaceholderUnheard /\ [Next]_vars => PlaceholderUnheard'
<1> SUFFICES ASSUME Types, PlaceholderUnheard, [Next]_vars, NEW m \in Mac,
                    HasConfig(m)', IsPlaceholder(m)'
             PROVE  FALSE
  BY DEF PlaceholderUnheard
<1>1. /\ m \in DOMAIN nodes' /\ "config" \in DOMAIN nodes'[m]
      /\ "discoveredFromTopology" \in DOMAIN nodes'[m] /\ nodes'[m]["discoveredFromTopology"]
  BY DEF HasConfig, IsPlaceholder
<1>2. CASE m \in DOMAIN nodes /\ nodes'[m] = nodes[m]
  BY <1>1, <1>2 DEF PlaceholderUnheard, HasConfig, IsPlaceholder
<1>3. ASSUME NEW ns, nodes'[m] \in {StateRecord(ns), TopologyRecord(ns), Placeholder} PROVE FALSE
  BY <1>1, <1>3, FieldsOf
<1>4. ASSUME m \in DOMAIN nodes, NEW ns, nodes'[m] = WithState(nodes[m], ns) PROVE FALSE
  BY <1>1, <1>4, WithStateIs
<1>5. ASSUME m \in DOMAIN nodes, NEW ns, nodes'[m] = WithTopology(nodes[m], ns) PROVE FALSE
  <2>1. /\ "config" \in DOMAIN nodes[m] /\ "discoveredFromTopology" \in DOMAIN nodes[m]
        /\ nodes'[m]["discoveredFromTopology"] = nodes[m]["discoveredFromTopology"]
    <3>1. PICK was : was = nodes[m]
      OBVIOUS
    <3>2. /\ DOMAIN WithTopology(was, ns) = DOMAIN was \cup {"neighbors"}
          /\ \A f \in DOMAIN was \ {"neighbors"} : WithTopology(was, ns)[f] = was[f]
      BY WithTopologyIs
    <3>3. "config" \in DOMAIN was /\ "discoveredFromTopology" \in DOMAIN was
      <4>1. /\ "config" \in DOMAIN WithTopology(was, ns)
            /\ "discoveredFromTopology" \in DOMAIN WithTopology(was, ns)
        BY <1>1, <1>5, <3>1
      <4> QED BY <3>2, <4>1
    <3>4. WithTopology(was, ns)["discoveredFromTopology"] = was["discoveredFromTopology"]
      BY <3>2, <3>3
    <3> QED BY <1>5, <3>1, <3>3, <3>4
  <2> QED BY <1>1, <1>5, <2>1 DEF PlaceholderUnheard, HasConfig, IsPlaceholder
<1>6. Changed(m)
  BY RecordsChange
<1> QED BY <1>1, <1>2, <1>3, <1>4, <1>5, <1>6 DEF Changed

\* No record is marked as known from topology only and has a configuration, in whatever
\* order state and topology reports of it and about it come.
THEOREM PlaceholdersAreUnheard == Spec => []PlaceholderUnheard
<1>1. Init => PlaceholderUnheard
  BY DEF Init, Empty, PlaceholderUnheard, HasConfig, IsPlaceholder
<1> QED BY <1>1, TypesAlways, PlaceholderKept, PTL DEF Spec

\* A node's configuration goes with the node only: no topology report, of it or naming it,
\* takes it away.
THEOREM ConfigStays == Spec => KeepsConfig
<1>1. ASSUME Types, [Next]_vars
      PROVE  \A m \in Mac : HasConfig(m) => HasConfig(m)' \/ m \notin DOMAIN nodes'
  <2> SUFFICES ASSUME NEW m \in Mac, HasConfig(m), m \in DOMAIN nodes' PROVE HasConfig(m)'
    OBVIOUS
  <2>1. m \in DOMAIN nodes /\ "config" \in DOMAIN nodes[m] /\ Changed(m)
    BY <1>1, RecordsChange DEF HasConfig
  <2>2. \A ns : /\ "config" \in DOMAIN WithState(nodes[m], ns)
                /\ "config" \in DOMAIN WithTopology(nodes[m], ns)
    BY <2>1, WithStateIs, WithTopologyIs
  <2>3. "config" \in DOMAIN nodes'[m]
    BY <2>1, <2>2 DEF Changed
  <2> QED BY <2>3 DEF HasConfig
<1> QED BY <1>1, TypesAlways, PTL DEF Spec, KeepsConfig
-----------------------------------------------------------------------------
(* Nodes that are heard of stay.                                             *)

\* The time the server counts from is the time the node was last heard of: a record that
\* goes takes its time with it, and a new one begins now.
Ages == \A m \in DOMAIN nodes : receivedAt[m] = silent[m]

LEMMA AgesKept == Types /\ Ages /\ [Next]_vars => Ages'
<1> SUFFICES ASSUME Types, Ages, [Next]_vars PROVE Ages'
  OBVIOUS
<1>1. ASSUME NEW heard, Updated(heard) PROVE Ages'
  <2>1. /\ heard \in SUBSET Mac /\ DOMAIN nodes' = DOMAIN nodes \cup heard
        /\ DOMAIN receivedAt = DOMAIN nodes /\ DOMAIN silent = Mac /\ DOMAIN nodes \in SUBSET Mac
    BY <1>1, NodeMapIs DEF Types, Updated
  <2>2. /\ receivedAt' = Assign(receivedAt, [m \in heard |-> 0])
        /\ silent' = Assign(silent, [m \in heard |-> 0])
    BY <1>1 DEF Updated, Heard
  <2>3. ASSUME NEW m \in DOMAIN nodes' PROVE receivedAt'[m] = silent'[m]
    <3>1. receivedAt'[m] = IF m \in heard THEN 0 ELSE receivedAt[m]
      BY <2>1, <2>2 DEF Assign
    <3>2. silent'[m] = IF m \in heard THEN 0 ELSE silent[m]
      BY <2>1, <2>2 DEF Assign
    <3> QED BY <2>1, <3>1, <3>2 DEF Ages
  <2> QED BY <2>3 DEF Ages
<1>2. CASE Cleanup
  BY <1>2 DEF Types, Ages, Cleanup
<1>3. CASE Tick
  <2>1. DOMAIN nodes \in SUBSET Mac /\ DOMAIN receivedAt = DOMAIN nodes
    BY NodeMapIs DEF Types
  <2> QED BY <1>3, <2>1 DEF Ages, Tick
<1>4. CASE Pages \/ UNCHANGED vars
  <2>1. UNCHANGED serverVars
    BY <1>4 DEF Pages, Connect, Disconnect, Reload, Receive, TogglePause,
             OnMinRssiChange, OnWindowResize, vars
  <2> QED BY <2>1 DEF Ages, serverVars
<1> QED BY <1>1, <1>2, <1>3, <1>4, MentionUpdates DEF Next, Server

\* No step of the server or of a page removes a node heard of within the timeout.
THEOREM TheMentionedStay == Spec => MentionedStays
<1>1. Init => Ages
  BY DEF Init, Empty, Ages
<1>2. ASSUME Types, Ages, [Next]_vars
      PROVE  \A m \in DOMAIN nodes : silent[m] <= StaleTimeout => m \in DOMAIN nodes'
  <2> SUFFICES ASSUME NEW m \in DOMAIN nodes, silent[m] <= StaleTimeout PROVE m \in DOMAIN nodes'
    OBVIOUS
  <2>1. ASSUME NEW heard, Updated(heard) PROVE m \in DOMAIN nodes'
    BY <2>1 DEF Updated
  <2>2. CASE Cleanup
    <3>1. receivedAt[m] = silent[m] /\ silent[m] \in Nat
      BY <1>2, NodeMapIs DEF Types, Ages
    <3>2. m \notin Stale
      BY <3>1, TimeoutAssumption DEF Stale
    <3> QED BY <2>2, <3>2 DEF Cleanup
  <2>3. CASE Tick \/ Pages \/ UNCHANGED vars
    BY <2>3 DEF Tick, Pages, Connect, Disconnect, Reload, Receive, TogglePause,
             OnMinRssiChange, OnWindowResize, vars, serverVars
  <2> QED BY <1>2, <2>1, <2>2, <2>3, MentionUpdates DEF Next, Server
<1> QED BY <1>1, <1>2, TypesAlways, AgesKept, PTL DEF Spec, MentionedStays

-----------------------------------------------------------------------------
(* Pages draw what they can.                                                 *)

\* A page that cannot draw waits for a node it does not have.
LEMMA WaitsForMissing ==
    ASSUME NEW p, NEW held, NEW least, ~Draws(p, held, least), NEW left \in LeftOf(p, held, least)
    PROVE  ~(left \subseteq DOMAIN held)
BY DEF LeftOf, Draws

\* It is enough that the page that a step is about keeps the property.
LEMMA OthersDraw ==
    ASSUME DrawnWhenLinked, NEW p \in Page,
           \A q \in Page \ {p} : /\ view'[q] = view[q] /\ isPaused'[q] = isPaused[q]
                                 /\ minRssi'[q] = minRssi[q] /\ drawn'[q] = drawn[q]
                                 /\ unresolved'[q] = unresolved[q],
           ~isPaused'[p] /\ Draws(p, view[p], minRssi[p])' => drawn'[p]
    PROVE  DrawnWhenLinked'
BY DEF DrawnWhenLinked, Draws

\* A page that has just tried to draw what it holds keeps it.
LEMMA SimulationDraws ==
    ASSUME Types, DrawnWhenLinked, NEW p \in Page, NEW held, NEW least,
           UpdateSimulation(p, held, least), view'[p] = held, minRssi'[p] = least,
           \A q \in Page \ {p} : /\ view'[q] = view[q] /\ isPaused'[q] = isPaused[q]
                                 /\ minRssi'[q] = minRssi[q]
    PROVE  DrawnWhenLinked'
<1>1. \A q \in Page \ {p} : drawn'[q] = drawn[q] /\ unresolved'[q] = unresolved[q]
  BY DEF Types, UpdateSimulation
<1>2. drawn'[p] = Draws(p, held, least) /\ unresolved'[p] \in LeftOf(p, held, least)
  BY DEF Types, UpdateSimulation
<1>3. ASSUME Draws(p, view[p], minRssi[p])' PROVE drawn'[p]
  <2>1. unresolved'[p] \subseteq DOMAIN held
    BY <1>3 DEF Draws
  <2> QED BY <1>2, <2>1, WaitsForMissing
<1> QED BY <1>1, <1>3, OthersDraw

\* Nor does a page that has had reason to, and did unless it was paused.
LEMMA VisualizationDraws ==
    ASSUME Types, DrawnWhenLinked, NEW p \in Page, NEW held, NEW least,
           UpdateVisualization(p, held, least), view'[p] = held, minRssi'[p] = least,
           UNCHANGED isPaused,
           \A q \in Page \ {p} : view'[q] = view[q] /\ minRssi'[q] = minRssi[q]
    PROVE  DrawnWhenLinked'
<1>1. CASE ~isPaused[p]
  BY <1>1, SimulationDraws DEF UpdateVisualization
<1>2. CASE isPaused[p]
  <2>1. \A q \in Page \ {p} : drawn'[q] = drawn[q] /\ unresolved'[q] = unresolved[q]
    BY <1>2 DEF Types, UpdateVisualization
  <2> QED BY <1>2, <2>1, OthersDraw
<1> QED BY <1>1, <1>2

LEMMA ReceiveDraws ==
    ASSUME Types, DrawnWhenLinked, NEW p \in Page, Receive(p)
    PROVE  DrawnWhenLinked'
<1>1. PICK held : held = Read(p \in fresh, view[p], Head(toPage[p]))
  OBVIOUS
<1>2. /\ UNCHANGED <<isPaused, minRssi>> /\ view' = [view EXCEPT ![p] = held]
      /\ UpdateVisualization(p, held, minRssi[p])
  BY <1>1 DEF Receive
<1>3. view'[p] = held /\ \A q \in Page \ {p} : view'[q] = view[q]
  BY <1>2 DEF Types
<1> QED BY <1>2, <1>3, VisualizationDraws

LEMMA ToggleDraws ==
    ASSUME Types, DrawnWhenLinked, NEW p \in Page, TogglePause(p)
    PROVE  DrawnWhenLinked'
<1>1. /\ UNCHANGED <<view, minRssi>> /\ isPaused'[p] = ~isPaused[p]
      /\ \A q \in Page \ {p} : isPaused'[q] = isPaused[q]
  BY DEF Types, TogglePause
<1>2. CASE isPaused[p]
  <2>1. UpdateSimulation(p, view[p], minRssi[p])
    BY <1>2 DEF TogglePause
  <2> QED BY <1>1, <2>1, SimulationDraws
<1>3. CASE ~isPaused[p]
  <2>1. UNCHANGED <<drawn, unresolved>>
    BY <1>3 DEF TogglePause
  <2> QED BY <1>1, <1>3, <2>1, OthersDraw
<1> QED BY <1>2, <1>3

LEMMA SliderDraws ==
    ASSUME Types, DrawnWhenLinked, NEW p \in Page, NEW least \in Slider, OnMinRssiChange(p, least)
    PROVE  DrawnWhenLinked'
<1>1. minRssi'[p] = least /\ \A q \in Page \ {p} : minRssi'[q] = minRssi[q]
  BY DEF Types, OnMinRssiChange
<1>2. UNCHANGED <<view, isPaused>> /\ UpdateVisualization(p, view[p], least)
  BY DEF OnMinRssiChange
<1> QED BY <1>1, <1>2, VisualizationDraws

LEMMA ResizeDraws ==
    ASSUME Types, DrawnWhenLinked, NEW p \in Page, OnWindowResize(p)
    PROVE  DrawnWhenLinked'
<1>1. UNCHANGED <<view, minRssi, isPaused>> /\ UpdateVisualization(p, view[p], minRssi[p])
  BY DEF OnWindowResize
<1> QED BY <1>1, VisualizationDraws

LEMMA DrawnKept == Types /\ DrawnWhenLinked /\ [Next]_vars => DrawnWhenLinked'
<1> SUFFICES ASSUME Types, DrawnWhenLinked, [Next]_vars PROVE DrawnWhenLinked'
  OBVIOUS
<1>1. CASE UNCHANGED <<view, isPaused, minRssi, drawn, unresolved>>
  BY <1>1 DEF DrawnWhenLinked, Draws
<1>2. ASSUME NEW p \in Page, Reload(p) PROVE DrawnWhenLinked'
  <2> SUFFICES ASSUME NEW q \in Page, ~isPaused'[q], Draws(q, view[q], minRssi[q])' PROVE drawn'[q]
    BY DEF DrawnWhenLinked
  <2>1. CASE q = p
    BY <1>2, <2>1 DEF Types, Reload
  <2>2. CASE q # p
    <3>1. drawn'[q] = drawn[q] /\ Draws(q, view[q], minRssi[q]) /\ ~isPaused[q]
      BY <1>2, <2>2 DEF Types, Reload, Draws
    <3> QED BY <3>1 DEF DrawnWhenLinked
  <2> QED BY <2>1, <2>2
<1>3. CASE \E m \in Mac : Mentions(m)
  BY <1>1, <1>3, MentionUpdates DEF Updated
<1>4. CASE Cleanup \/ Tick \/ UNCHANGED vars
  BY <1>1, <1>4 DEF Cleanup, Tick, vars, pageVars
<1>5. ASSUME NEW p \in Page, Connect(p) \/ Disconnect(p) PROVE DrawnWhenLinked'
  BY <1>1, <1>5 DEF Connect, Disconnect
<1> QED BY <1>2, <1>3, <1>4, <1>5, ReceiveDraws, ToggleDraws, SliderDraws, ResizeDraws
         DEF Next, Server, Pages

\* A failed drawing is made good: a page that is not paused and has all nodes that its
\* links and those that wait name has drawn what it holds.
THEOREM PagesDraw == Spec => []DrawnWhenLinked
<1>1. Init => DrawnWhenLinked
  BY DEF Init, DrawnWhenLinked
<1> QED BY <1>1, TypesAlways, DrawnKept, PTL DEF Spec
=============================================================================
