------------------------------ MODULE Automaton ------------------------------
(***************************************************************************)
(* One step of the cellular automaton on a node: from the neighbor table to  *)
(* the inputs, their weighted sum, and the activation rules, for the presets. *)
(* Sums and thresholds are in halves, so that 4.5 and 0.5 are integers; the   *)
(* floats of the presets are exact.                                          *)
(***************************************************************************)
EXTENDS Integers, FiniteSets, FiniteSetTheorems, TLAPS

MAX_NEIGHBORS == 8
KERNEL_SIZE == 9

\* The neighbor table: a slot has a value once the board in it reported its state.
Slot == [active : BOOLEAN, has_state : BOOLEAN, value : 0 .. 255]
Table == [0 .. MAX_NEIGHBORS - 1 -> Slot]

Counted(table) ==
    {i \in 0 .. MAX_NEIGHBORS - 1 : table[i].active /\ table[i].has_state}

Live(table) == {i \in Counted(table) : table[i].value # 0}

\* fill_neighbor_values writes slot i at input Rank(table, i), and zeros after the last.
Rank(table, i) == Cardinality({j \in Counted(table) : j < i})

fill_neighbor_values(table) ==
    [k \in 0 .. KERNEL_SIZE - 2 |->
        IF \E i \in Live(table) : Rank(table, i) = k THEN 1 ELSE 0]

\* apply_activation_function: a presence sensed overwrites input 0, the node's own value
\* is the last input.
Inputs(table, presence, value) ==
    [k \in 0 .. KERNEL_SIZE - 1 |->
        IF k = KERNEL_SIZE - 1 THEN value
        ELSE IF k = 0 /\ presence THEN 1 ELSE fill_neighbor_values(table)[k]]

Sum(kernel, x) ==
    2 * (kernel[0] * x[0] + kernel[1] * x[1] + kernel[2] * x[2] + kernel[3] * x[3]
         + kernel[4] * x[4] + kernel[5] * x[5] + kernel[6] * x[6] + kernel[7] * x[7]
         + kernel[8] * x[8])

\* The rules are alternatives; a node without rules compares with zero.
Holds(rule, sum) ==
    \/ rule.op = 0 /\ sum < rule.value
    \/ rule.op = 1 /\ sum <= rule.value
    \/ rule.op = 2 /\ sum = rule.value
    \/ rule.op = 3 /\ sum >= rule.value
    \/ rule.op = 4 /\ sum > rule.value

NextValue(rules, sum) ==
    IF rules = {} THEN sum > 0 ELSE \E rule \in rules : Holds(rule, sum)

\* load_preset_data. Rule values in halves.
Kernel(name) ==
    [k \in 0 .. KERNEL_SIZE - 1 |->
        IF name = "conway" THEN IF k = 8 THEN 9 ELSE 1
        ELSE IF name = "rule30" THEN IF k < 3 THEN 1 ELSE 0
        ELSE IF k = 8 THEN 0 ELSE 1]

Rule(op, value) == [op |-> op, value |-> value]

Rules(name) ==
    IF name = "conway" THEN {Rule(2, 6), Rule(2, 22), Rule(2, 24)}
    ELSE IF name = "rule30" THEN {Rule(2, 2), Rule(2, 4)}
    ELSE IF name = "majority" THEN {Rule(3, 9)}
    ELSE IF name = "and" THEN {Rule(2, 16)}
    ELSE {Rule(3, 1)}

\* The node is alive after a step with the preset.
Alive(name, table, presence, value) ==
    NextValue(Rules(name), Sum(Kernel(name), Inputs(table, presence, value)))
-----------------------------------------------------------------------------
(* How many inputs are one. *)

Ones(x, n) == {k \in 0 .. n - 1 : x[k] = 1}

LEMMA OnesStep ==
    ASSUME NEW x, NEW n \in Nat, x[n] \in {0, 1}, IsFiniteSet(Ones(x, n))
    PROVE  /\ IsFiniteSet(Ones(x, n + 1))
           /\ Cardinality(Ones(x, n + 1)) = Cardinality(Ones(x, n)) + x[n]
<1>1. 0 .. (n + 1) - 1 = (0 .. n - 1) \cup {n} /\ n \notin 0 .. n - 1
  OBVIOUS
<1>2. Cardinality(Ones(x, n)) \in Nat
  BY FS_CardinalityType
<1>3. CASE x[n] = 1
  <2>1. Ones(x, n + 1) = Ones(x, n) \cup {n} /\ n \notin Ones(x, n)
    BY <1>1, <1>3 DEF Ones
  <2> QED BY <1>3, <2>1, FS_AddElement
<1>4. CASE x[n] = 0
  <2>1. Ones(x, n + 1) = Ones(x, n)
    BY <1>1, <1>4 DEF Ones
  <2> QED BY <1>2, <1>4, <2>1
<1> QED BY <1>3, <1>4

LEMMA OnesAreCounted ==
    ASSUME NEW x, \A k \in 0 .. 7 : x[k] \in {0, 1}
    PROVE  /\ IsFiniteSet(Ones(x, 8))
           /\ Cardinality(Ones(x, 8))
              = x[0] + x[1] + x[2] + x[3] + x[4] + x[5] + x[6] + x[7]
<1> DEFINE C(n) == Cardinality(Ones(x, n))
<1>0. /\ x[0] \in {0, 1} /\ x[1] \in {0, 1} /\ x[2] \in {0, 1} /\ x[3] \in {0, 1}
      /\ x[4] \in {0, 1} /\ x[5] \in {0, 1} /\ x[6] \in {0, 1} /\ x[7] \in {0, 1}
  OBVIOUS
<1>1. Ones(x, 0) = {}
  BY DEF Ones
<1>2. IsFiniteSet(Ones(x, 0)) /\ C(0) = 0
  BY <1>1, FS_EmptySet
<1>3. ASSUME NEW n \in 0 .. 7, IsFiniteSet(Ones(x, n))
      PROVE  IsFiniteSet(Ones(x, n + 1)) /\ C(n + 1) = C(n) + x[n]
  <2>1. n \in Nat /\ x[n] \in {0, 1}
    OBVIOUS
  <2> QED BY <1>3, <2>1, OnesStep
<1> HIDE DEF C
<1>4. IsFiniteSet(Ones(x, 1)) /\ C(1) = x[0]
  <2>1. IsFiniteSet(Ones(x, 0 + 1)) /\ C(0 + 1) = C(0) + x[0]
    BY <1>2, <1>3
  <2> QED BY <1>0, <1>2, <2>1
<1>5. IsFiniteSet(Ones(x, 2)) /\ C(2) = C(1) + x[1]
  <2>1. IsFiniteSet(Ones(x, 1 + 1)) /\ C(1 + 1) = C(1) + x[1]
    BY <1>3, <1>4
  <2> QED BY <2>1
<1>6. IsFiniteSet(Ones(x, 3)) /\ C(3) = C(2) + x[2]
  <2>1. IsFiniteSet(Ones(x, 2 + 1)) /\ C(2 + 1) = C(2) + x[2]
    BY <1>3, <1>5
  <2> QED BY <2>1
<1>7. IsFiniteSet(Ones(x, 4)) /\ C(4) = C(3) + x[3]
  <2>1. IsFiniteSet(Ones(x, 3 + 1)) /\ C(3 + 1) = C(3) + x[3]
    BY <1>3, <1>6
  <2> QED BY <2>1
<1>8. IsFiniteSet(Ones(x, 5)) /\ C(5) = C(4) + x[4]
  <2>1. IsFiniteSet(Ones(x, 4 + 1)) /\ C(4 + 1) = C(4) + x[4]
    BY <1>3, <1>7
  <2> QED BY <2>1
<1>9. IsFiniteSet(Ones(x, 6)) /\ C(6) = C(5) + x[5]
  <2>1. IsFiniteSet(Ones(x, 5 + 1)) /\ C(5 + 1) = C(5) + x[5]
    BY <1>3, <1>8
  <2> QED BY <2>1
<1>10. IsFiniteSet(Ones(x, 7)) /\ C(7) = C(6) + x[6]
  <2>1. IsFiniteSet(Ones(x, 6 + 1)) /\ C(6 + 1) = C(6) + x[6]
    BY <1>3, <1>9
  <2> QED BY <2>1
<1>11. IsFiniteSet(Ones(x, 8)) /\ C(8) = C(7) + x[7]
  <2>1. IsFiniteSet(Ones(x, 7 + 1)) /\ C(7 + 1) = C(7) + x[7]
    BY <1>3, <1>10
  <2> QED BY <2>1
<1>12. C(8) = x[0] + x[1] + x[2] + x[3] + x[4] + x[5] + x[6] + x[7]
  BY <1>0, <1>4, <1>5, <1>6, <1>7, <1>8, <1>9, <1>10, <1>11
<1> QED BY <1>11, <1>12 DEF C
-----------------------------------------------------------------------------
(* The inputs are the neighbors' values, each once. *)

LEMMA EightPlaces == IsFiniteSet(0 .. 7) /\ Cardinality(0 .. 7) = 8
<1>1. 0 \in Int /\ 7 \in Int /\ ~(0 > 7) /\ 7 - 0 + 1 = 8
  OBVIOUS
<1>2. IsFiniteSet(0 .. 7) /\ Cardinality(0 .. 7) = IF 0 > 7 THEN 0 ELSE 7 - 0 + 1
  BY <1>1, FS_Interval, Zenon
<1> QED BY <1>1, <1>2

LEMMA CountedIsFinite ==
    ASSUME NEW table \in Table
    PROVE  /\ Counted(table) \subseteq 0 .. 7 /\ Live(table) \subseteq Counted(table)
           /\ IsFiniteSet(Counted(table)) /\ IsFiniteSet(Live(table))
<1>1. Counted(table) \subseteq 0 .. 7 /\ Live(table) \subseteq Counted(table)
  BY DEF Counted, Live, MAX_NEIGHBORS
<1>2. IsFiniteSet(Counted(table))
  BY <1>1, EightPlaces, FS_Subset
<1> QED BY <1>1, <1>2, FS_Subset

LEMMA RankIsAPlace ==
    ASSUME NEW table \in Table, NEW i \in Counted(table)
    PROVE  Rank(table, i) \in 0 .. 7
<1> DEFINE Before == {j \in Counted(table) : j < i}
<1>1. i \in 0 .. 7 /\ i \notin Before /\ Before \subseteq 0 .. 7
  BY CountedIsFinite
<1>2. IsFiniteSet(0 .. 7) /\ Cardinality(0 .. 7) = 8
  BY EightPlaces
<1>3. Cardinality(Before) \in Nat /\ Cardinality(Before) < 8
  <2>1. IsFiniteSet(Before) /\ Cardinality(Before) <= 8
        /\ (Cardinality(Before) = 8 => Before = 0 .. 7)
    BY <1>1, <1>2, FS_Subset
  <2>2. Cardinality(Before) \in Nat
    BY <2>1, FS_CardinalityType
  <2> QED BY <1>1, <2>1, <2>2
<1> QED BY <1>3 DEF Rank

LEMMA RanksDiffer ==
    ASSUME NEW table \in Table, NEW i \in Counted(table), NEW j \in Counted(table), i < j
    PROVE  Rank(table, i) < Rank(table, j)
<1> DEFINE Before(k) == {c \in Counted(table) : c < k}
<1>1. i \in 0 .. 7 /\ j \in 0 .. 7 /\ Counted(table) \subseteq 0 .. 7
  BY CountedIsFinite
<1>2. Before(i) \subseteq Before(j)
  BY <1>1
<1>3. i \in Before(j) /\ i \notin Before(i)
  BY <1>1
<1>4. IsFiniteSet(Before(i)) /\ IsFiniteSet(Before(j))
  <2>1. Before(i) \subseteq Counted(table) /\ Before(j) \subseteq Counted(table)
    OBVIOUS
  <2> QED BY <2>1, CountedIsFinite, FS_Subset
<1> HIDE DEF Before
<1>5. /\ Cardinality(Before(i)) \in Nat /\ Cardinality(Before(j)) \in Nat
      /\ Cardinality(Before(i)) <= Cardinality(Before(j))
      /\ Cardinality(Before(i)) # Cardinality(Before(j))
  BY <1>2, <1>3, <1>4, FS_Subset, FS_CardinalityType
<1> QED BY <1>5 DEF Rank, Before

LEMMA AliveInputs ==
    ASSUME NEW table \in Table
    PROVE  /\ \A k \in 0 .. 7 : fill_neighbor_values(table)[k] \in {0, 1}
           /\ Cardinality(Ones(fill_neighbor_values(table), 8)) = Cardinality(Live(table))
           /\ Cardinality(Live(table)) \in 0 .. 8
<1> DEFINE x == fill_neighbor_values(table)
           place == [i \in Live(table) |-> Rank(table, i)]
<1>1. \A k \in 0 .. 7 : x[k] = IF \E i \in Live(table) : Rank(table, i) = k THEN 1 ELSE 0
  BY DEF fill_neighbor_values, KERNEL_SIZE
<1>2. \A i \in Live(table) : i \in Counted(table) /\ Rank(table, i) \in 0 .. 7
  BY CountedIsFinite, RankIsAPlace
<1>3. \A i, j \in Live(table) : Rank(table, i) = Rank(table, j) => i = j
  <2> SUFFICES ASSUME NEW i \in Live(table), NEW j \in Live(table), i # j
               PROVE  Rank(table, i) # Rank(table, j)
    OBVIOUS
  <2>1. i \in Counted(table) /\ j \in Counted(table) /\ i \in 0 .. 7 /\ j \in 0 .. 7
    BY CountedIsFinite
  <2>2. Rank(table, i) \in 0 .. 7 /\ Rank(table, j) \in 0 .. 7
    BY <2>1, RankIsAPlace
  <2>3. i < j \/ j < i
    BY <2>1
  <2> QED BY <2>1, <2>2, <2>3, RanksDiffer
<1>4. \A k : k \in Ones(x, 8) <=> k \in 0 .. 7 /\ \E i \in Live(table) : Rank(table, i) = k
  BY <1>1 DEF Ones
<1> HIDE DEF x
<1>5. place \in Bijection(Live(table), Ones(x, 8))
  <2>1. place \in [Live(table) -> Ones(x, 8)]
    BY <1>2, <1>4
  <2>2. place \in Injection(Live(table), Ones(x, 8))
    BY <2>1, <1>3 DEF Injection, IsInjective
  <2>3. place \in Surjection(Live(table), Ones(x, 8))
    BY <2>1, <1>4 DEF Surjection
  <2> QED BY <2>2, <2>3 DEF Bijection
<1>6. Cardinality(Ones(x, 8)) = Cardinality(Live(table))
  BY <1>5, CountedIsFinite, FS_Bijection DEF ExistsBijection
<1>7. Cardinality(Live(table)) \in 0 .. 8
  <2>1. IsFiniteSet(0 .. 7) /\ Cardinality(0 .. 7) = 8
    BY EightPlaces
  <2>2. Live(table) \subseteq 0 .. 7 /\ IsFiniteSet(Live(table))
    BY CountedIsFinite
  <2>3. Cardinality(Live(table)) \in Nat /\ Cardinality(Live(table)) <= 8
    BY <2>1, <2>2, FS_Subset, FS_CardinalityType
  <2> QED BY <2>3
<1>8. \A k \in 0 .. 7 : x[k] \in {0, 1}
  BY <1>1 DEF x
<1> QED BY <1>6, <1>7, <1>8 DEF x
-----------------------------------------------------------------------------
(* What the presets compute. *)

\* The neighbors a node counts: a presence takes the place of the first one.
Seen(table, presence) ==
    IF presence THEN Cardinality(Live(table)) + 1 - fill_neighbor_values(table)[0]
    ELSE Cardinality(Live(table))

LEMMA InputsAddUp ==
    ASSUME NEW table \in Table, NEW presence \in BOOLEAN, NEW value \in {0, 1}
    PROVE  LET x == Inputs(table, presence, value)
           IN  /\ x[0] + x[1] + x[2] + x[3] + x[4] + x[5] + x[6] + x[7]
                  = Seen(table, presence)
               /\ \A k \in 0 .. 8 : x[k] \in {0, 1}
               /\ x[8] = value
               /\ Seen(table, presence) \in 0 .. 8
<1> DEFINE x == Inputs(table, presence, value)
           y == fill_neighbor_values(table)
           live == Cardinality(Live(table))
<1>1. /\ \A k \in 0 .. 7 : y[k] \in {0, 1}
      /\ live = y[0] + y[1] + y[2] + y[3] + y[4] + y[5] + y[6] + y[7]
      /\ live \in 0 .. 8
  BY AliveInputs, OnesAreCounted
<1>2. /\ y[0] \in {0, 1} /\ y[1] \in {0, 1} /\ y[2] \in {0, 1} /\ y[3] \in {0, 1}
      /\ y[4] \in {0, 1} /\ y[5] \in {0, 1} /\ y[6] \in {0, 1} /\ y[7] \in {0, 1}
  BY <1>1
<1> HIDE DEF y, live
<1>3. /\ x[0] = (IF presence THEN 1 ELSE y[0])
      /\ x[1] = y[1] /\ x[2] = y[2] /\ x[3] = y[3] /\ x[4] = y[4] /\ x[5] = y[5]
      /\ x[6] = y[6] /\ x[7] = y[7] /\ x[8] = value
  BY DEF Inputs, KERNEL_SIZE, y
<1> HIDE DEF x
<1>4. Seen(table, presence) = IF presence THEN live + 1 - y[0] ELSE live
  BY DEF Seen, live, y
<1>5. x[0] + x[1] + x[2] + x[3] + x[4] + x[5] + x[6] + x[7] = Seen(table, presence)
  BY <1>1, <1>2, <1>3, <1>4
<1>6. Seen(table, presence) \in 0 .. 8
  BY <1>1, <1>2, <1>4
<1>7. \A k \in 0 .. 8 : x[k] \in {0, 1}
  <2>1. 0 .. 8 = {0, 1, 2, 3, 4, 5, 6, 7, 8}
    OBVIOUS
  <2> QED BY <1>2, <1>3, <2>1
<1> QED BY <1>3, <1>5, <1>6, <1>7 DEF x

LEMMA SumOf ==
    ASSUME NEW table \in Table, NEW presence \in BOOLEAN, NEW value \in {0, 1}
    PROVE  LET seen == Seen(table, presence)
               x == Inputs(table, presence, value)
           IN  /\ Sum(Kernel("conway"), x) = 2 * seen + 18 * value
               /\ Sum(Kernel("rule30"), x) = 2 * (x[0] + x[1] + x[2])
               /\ \A name \in {"majority", "and", "or"} : Sum(Kernel(name), x) = 2 * seen
<1> DEFINE seen == Seen(table, presence)
           x == Inputs(table, presence, value)
<1>1. /\ x[0] + x[1] + x[2] + x[3] + x[4] + x[5] + x[6] + x[7] = seen
      /\ \A k \in 0 .. 8 : x[k] \in {0, 1}
      /\ x[8] = value /\ seen \in 0 .. 8
  BY InputsAddUp
<1>2. /\ x[0] \in Int /\ x[1] \in Int /\ x[2] \in Int /\ x[3] \in Int /\ x[4] \in Int
      /\ x[5] \in Int /\ x[6] \in Int /\ x[7] \in Int /\ x[8] \in Int
  <2>1. \A k \in 0 .. 8 : x[k] \in Int
    BY <1>1
  <2> QED BY <2>1
<1> HIDE DEF x, seen
<1>3. Sum(Kernel("conway"), x) = 2 * seen + 18 * value
  <2>1. /\ Kernel("conway")[0] = 1 /\ Kernel("conway")[1] = 1 /\ Kernel("conway")[2] = 1
        /\ Kernel("conway")[3] = 1 /\ Kernel("conway")[4] = 1 /\ Kernel("conway")[5] = 1
        /\ Kernel("conway")[6] = 1 /\ Kernel("conway")[7] = 1 /\ Kernel("conway")[8] = 9
    BY DEF Kernel, KERNEL_SIZE
  <2>2. Sum(Kernel("conway"), x) =
            2 * (1 * x[0] + 1 * x[1] + 1 * x[2] + 1 * x[3] + 1 * x[4] + 1 * x[5] + 1 * x[6]
                 + 1 * x[7] + 9 * x[8])
    BY <2>1, Zenon DEF Sum
  <2> QED BY <1>1, <1>2, <2>2
<1>4. Sum(Kernel("rule30"), x) = 2 * (x[0] + x[1] + x[2])
  <2>1. /\ Kernel("rule30")[0] = 1 /\ Kernel("rule30")[1] = 1 /\ Kernel("rule30")[2] = 1
        /\ Kernel("rule30")[3] = 0 /\ Kernel("rule30")[4] = 0 /\ Kernel("rule30")[5] = 0
        /\ Kernel("rule30")[6] = 0 /\ Kernel("rule30")[7] = 0 /\ Kernel("rule30")[8] = 0
    BY DEF Kernel, KERNEL_SIZE
  <2> QED BY <1>2, <2>1 DEF Sum
<1>5. 2 * (1 * x[0] + 1 * x[1] + 1 * x[2] + 1 * x[3] + 1 * x[4] + 1 * x[5] + 1 * x[6]
           + 1 * x[7] + 0 * x[8]) = 2 * seen
  <2>1. 0 * x[8] = 0
    BY <1>2
  <2>2. 1 * x[0] + 1 * x[1] + 1 * x[2] + 1 * x[3] + 1 * x[4] + 1 * x[5] + 1 * x[6] + 1 * x[7]
        = seen
    BY <1>1, <1>2
  <2>3. seen \in Int /\ seen + 0 = seen
    BY <1>1
  <2> QED BY <2>1, <2>2, <2>3
<1>6. ASSUME NEW name \in {"majority", "and", "or"}
      PROVE  Sum(Kernel(name), x) = 2 * seen
  <2>1. /\ Kernel(name)[0] = 1 /\ Kernel(name)[1] = 1 /\ Kernel(name)[2] = 1
        /\ Kernel(name)[3] = 1 /\ Kernel(name)[4] = 1 /\ Kernel(name)[5] = 1
        /\ Kernel(name)[6] = 1 /\ Kernel(name)[7] = 1 /\ Kernel(name)[8] = 0
    BY <1>6 DEF Kernel, KERNEL_SIZE
  <2>2. Sum(Kernel(name), x) =
            2 * (1 * x[0] + 1 * x[1] + 1 * x[2] + 1 * x[3] + 1 * x[4] + 1 * x[5] + 1 * x[6]
                 + 1 * x[7] + 0 * x[8])
    BY <2>1, Zenon DEF Sum
  <2> QED BY <1>5, <2>2, Zenon
<1> QED BY <1>3, <1>4, <1>6 DEF x, seen

LEMMA Rule2 ==
    ASSUME NEW v \in Int, NEW sum \in Int
    PROVE  Holds(Rule(2, v), sum) <=> sum = v
BY DEF Holds, Rule

LEMMA Rule3 ==
    ASSUME NEW v \in Int, NEW sum \in Int
    PROVE  Holds(Rule(3, v), sum) <=> sum >= v
BY DEF Holds, Rule

\* The preset conway is the game of life, whichever slots the neighbors are in: a dead
\* node comes alive with three live neighbors, a live one stays with two or three
\* (state_manager.cpp: kKernelConway, kActivationsConway).
THEOREM ConwayIsLife ==
    ASSUME NEW table \in Table, NEW presence \in BOOLEAN, NEW value \in {0, 1}
    PROVE  Alive("conway", table, presence, value) <=>
               \/ Seen(table, presence) = 3
               \/ value = 1 /\ Seen(table, presence) = 2
<1> DEFINE sum == Sum(Kernel("conway"), Inputs(table, presence, value))
<1>1. sum = 2 * Seen(table, presence) + 18 * value /\ Seen(table, presence) \in 0 .. 8
  BY SumOf, InputsAddUp
<1> HIDE DEF sum
<1>2. NextValue(Rules("conway"), sum) <=> sum \in {6, 22, 24}
  <2>1. Rules("conway") = {Rule(2, 6), Rule(2, 22), Rule(2, 24)}
    BY DEF Rules
  <2>2. NextValue(Rules("conway"), sum) <=>
            \/ Holds(Rule(2, 6), sum) \/ Holds(Rule(2, 22), sum) \/ Holds(Rule(2, 24), sum)
    BY <2>1 DEF NextValue
  <2> QED BY <1>1, <2>2, Rule2
<1>3. sum \in {6, 22, 24} <=>
          \/ Seen(table, presence) = 3
          \/ value = 1 /\ Seen(table, presence) = 2
  BY <1>1
<1>4. Alive("conway", table, presence, value) <=> NextValue(Rules("conway"), sum)
  BY DEF Alive, sum
<1> QED BY <1>2, <1>3, <1>4

\* majority, and, or, by the number of live neighbors: a majority is five of eight, also
\* for a node that has fewer neighbors, and a node with a slot free is never alive by and.
THEOREM NeighborsVote ==
    ASSUME NEW table \in Table, NEW presence \in BOOLEAN, NEW value \in {0, 1}
    PROVE  /\ Alive("majority", table, presence, value) <=> Seen(table, presence) >= 5
           /\ Alive("and", table, presence, value) <=> Seen(table, presence) = 8
           /\ Alive("or", table, presence, value) <=> Seen(table, presence) >= 1
<1> DEFINE sum(name) == Sum(Kernel(name), Inputs(table, presence, value))
<1>1. /\ \A name \in {"majority", "and", "or"} : sum(name) = 2 * Seen(table, presence)
      /\ Seen(table, presence) \in 0 .. 8
  BY SumOf, InputsAddUp
<1>2. /\ Alive("majority", table, presence, value) <=> sum("majority") >= 9
      /\ Alive("and", table, presence, value) <=> sum("and") = 16
      /\ Alive("or", table, presence, value) <=> sum("or") >= 1
  <2>1. /\ Rules("majority") = {Rule(3, 9)}
        /\ Rules("and") = {Rule(2, 16)}
        /\ Rules("or") = {Rule(3, 1)}
    BY DEF Rules
  <2>2. sum("majority") \in Int /\ sum("and") \in Int /\ sum("or") \in Int
    BY <1>1
  <2>3. /\ Alive("majority", table, presence, value) <=> Holds(Rule(3, 9), sum("majority"))
        /\ Alive("and", table, presence, value) <=> Holds(Rule(2, 16), sum("and"))
        /\ Alive("or", table, presence, value) <=> Holds(Rule(3, 1), sum("or"))
    BY <2>1 DEF Alive, NextValue
  <2> HIDE DEF sum
  <2> QED BY <2>2, <2>3, Rule2, Rule3
<1> HIDE DEF sum
<1> QED BY <1>1, <1>2

\* The preset rule30 is not the elementary rule 30, which asks for the node's own value:
\* it is alive unless its first three inputs are equal, which is rule 126 of the first
\* three neighbors of the table.
THEOREM Rule30IsRule126 ==
    ASSUME NEW table \in Table, NEW presence \in BOOLEAN, NEW value \in {0, 1}
    PROVE  LET x == Inputs(table, presence, value)
           IN  Alive("rule30", table, presence, value) <=> ~(x[0] = x[1] /\ x[1] = x[2])
<1> DEFINE x == Inputs(table, presence, value)
           sum == Sum(Kernel("rule30"), x)
<1>1. sum = 2 * (x[0] + x[1] + x[2])
  BY SumOf
<1>2. x[0] \in {0, 1} /\ x[1] \in {0, 1} /\ x[2] \in {0, 1}
  BY InputsAddUp
<1>3. Alive("rule30", table, presence, value) <=> (sum = 2 \/ sum = 4)
  <2>1. Rules("rule30") = {Rule(2, 2), Rule(2, 4)}
    BY DEF Rules
  <2>2. sum \in Int
    BY <1>1, <1>2
  <2>3. Alive("rule30", table, presence, value) <=>
            \/ Holds(Rule(2, 2), sum) \/ Holds(Rule(2, 4), sum)
    BY <2>1 DEF Alive, NextValue
  <2> HIDE DEF sum
  <2> QED BY <2>2, <2>3, Rule2
<1> HIDE DEF x, sum
<1>4. (sum = 2 \/ sum = 4) <=> ~(x[0] = x[1] /\ x[1] = x[2])
  BY <1>1, <1>2
<1> QED BY <1>3, <1>4 DEF x
=============================================================================
