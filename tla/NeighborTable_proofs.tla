------------------------ MODULE NeighborTable_proofs ------------------------
(***************************************************************************)
(* Theorems about NeighborTable, for any number of slots and of boards,    *)
(* any timeouts and any width of the clock; and about the addresses under  *)
(* which beacons enter it.                                                 *)
(***************************************************************************)
EXTENDS NeighborTable, BeaconFilter, TLAPS

Table == [Slot -> Entry]

\* At most one slot is chosen for a board that enters.
LEMMA RoomIsOneSlot ==
    ASSUME NEW t \in Table, NEW r, NEW i \in Room(t, r), NEW j \in Room(t, r)
    PROVE  i = j
<1>1. Slot \subseteq Int
  BY DEF Slot
<1>2. ASSUME NEW k \in Slot PROVE t[k].rssi \in Int
  <2>1. t[k] \in Entry
    BY DEF Table
  <2>2. t[k].rssi \in Rssi \cup {NoSignal}
    BY <2>1 DEF Entry
  <2>3. NoSignal \in Int
    BY DEF NoSignal
  <2> QED BY <2>2, <2>3, RssiAssumption
<1>3. CASE FirstFree(t) # {}
  BY <1>1, <1>3 DEF Room, FirstFree
<1>4. CASE FirstFree(t) = {}
  <2>1. i \in Weakest(t) /\ j \in Weakest(t)
    BY <1>4 DEF Room
  <2>2. i \in Slot /\ j \in Slot
    BY <2>1 DEF Weakest
  <2>3. t[i].rssi \in Int /\ t[j].rssi \in Int /\ i \in Int /\ j \in Int
    BY <1>1, <1>2, <2>2
  <2>4. /\ t[i].rssi < t[j].rssi \/ (t[i].rssi = t[j].rssi /\ i <= j)
        /\ t[j].rssi < t[i].rssi \/ (t[j].rssi = t[i].rssi /\ j <= i)
    BY <2>1, <2>2 DEF Weakest
  <2> QED BY <2>3, <2>4
<1> QED BY <1>3, <1>4

\* What update_neighbor_list does to one slot: nothing, or it notes that the board
\* there was heard, or, if the board is nowhere, it makes it the board there.
LEMMA HeardEffect ==
    ASSUME NEW t \in Table, NEW m \in Mac \cup {Self}, NEW r, NEW i \in Slot
    PROVE  \/ Heard(t, m, r)[i] = t[i]
           \/ /\ i \in Lookup(t, m)
              /\ m # Self
              /\ \E s \in {r, t[i].rssi} : Heard(t, m, r)[i] = Seen(t[i], s)
           \/ /\ Lookup(t, m) = {}
              /\ m # Self
              /\ i \in Room(t, r)
              /\ Heard(t, m, r)[i] = Entered(t[i], m, r)
<1>1. CASE m = Self
  BY <1>1 DEF Heard
<1>2. CASE m # Self /\ i \in Lookup(t, m)
  BY <1>2 DEF Heard
<1>3. CASE m # Self /\ i \notin Lookup(t, m)
  BY <1>3 DEF Heard
<1> QED BY <1>1, <1>2, <1>3

\* What an entry that is heard again keeps, and what a new one is.
LEMMA EntryFields ==
    ASSUME NEW e, NEW m, NEW r
    PROVE  /\ Seen(e, r).active = e.active
           /\ Seen(e, r).mac = e.mac
           /\ Seen(e, r).has_state = e.has_state
           /\ Seen(e, r).owner = e.owner
           /\ Entered(e, m, r).mac = m
           /\ ~Entered(e, m, r).has_state
  BY SMT DEF Seen, Entered

\* The same for update_neighbor_list: the board of a slot and whose state it has
\* stay, or the board is the new one and has no state.
LEMMA HeardFields ==
    ASSUME NEW t \in Table, NEW m \in Mac \cup {Self}, NEW r, NEW i \in Slot
    PROVE  \/ /\ Heard(t, m, r)[i].active = t[i].active
              /\ Heard(t, m, r)[i].mac = t[i].mac
              /\ Heard(t, m, r)[i].has_state = t[i].has_state
              /\ Heard(t, m, r)[i].owner = t[i].owner
           \/ /\ Lookup(t, m) = {}
              /\ i \in Room(t, r)
              /\ Heard(t, m, r)[i].mac = m
              /\ ~Heard(t, m, r)[i].has_state
<1>1. CASE Heard(t, m, r)[i] = t[i]
  BY <1>1
<1>2. CASE \E s \in {r, t[i].rssi} : Heard(t, m, r)[i] = Seen(t[i], s)
  <2>1. PICK s : Heard(t, m, r)[i] = Seen(t[i], s)
    BY <1>2
  <2> QED BY <2>1, EntryFields
<1>3. CASE /\ Lookup(t, m) = {}
           /\ i \in Room(t, r)
           /\ Heard(t, m, r)[i] = Entered(t[i], m, r)
  BY <1>3, EntryFields
<1> QED BY <1>1, <1>2, <1>3, HeardEffect

\* An entry whose strength and time are replaced is an entry.
LEMMA EntryTypes ==
    ASSUME NEW e \in Entry, NEW r \in Rssi \cup {NoSignal}, NEW m \in Mac, clock \in Time
    PROVE  Seen(e, r) \in Entry /\ Entered(e, m, r) \in Entry
  BY DEF Seen, Entered, Entry

\* update_neighbor_list keeps the table a table.
LEMMA HeardType ==
    ASSUME NEW t \in Table, NEW m \in Mac \cup {Self}, NEW r \in Rssi, clock \in Time
    PROVE  Heard(t, m, r) \in Table
<1>1. ASSUME NEW i \in Slot PROVE Heard(t, m, r)[i] \in Entry
  <2>1. t[i] \in Entry /\ t[i].rssi \in Rssi \cup {NoSignal}
    BY DEF Table, Entry
  <2> QED BY <2>1, HeardEffect, EntryTypes
<1>2. DOMAIN Heard(t, m, r) = Slot /\ Heard(t, m, r) = [i \in Slot |-> Heard(t, m, r)[i]]
  BY DEF Heard, Table
<1> QED BY <1>1, <1>2 DEF Table

\* The status callback keeps the table a table, and every slot's board.
LEMMA ReportedType ==
    ASSUME NEW t \in Table, NEW m \in Mac, clock \in Time
    PROVE  /\ Reported(t, m) \in Table
           /\ \A i \in Slot : /\ Reported(t, m)[i].active = t[i].active
                              /\ Reported(t, m)[i].mac = t[i].mac
  BY DEF Reported, Table, Entry
-----------------------------------------------------------------------------
\* A step of the main loop on one slot changes no board and activates no slot.
Clears(i) ==
    /\ slots'[i].active => slots[i].active
    /\ slots'[i].has_state => slots[i].has_state
    /\ slots'[i].mac = slots[i].mac
    /\ slots'[i].owner = slots[i].owner

CleanupStep == StartCleanup \/ CheckSlot \/ DropActive \/ DropState \/ DropRssi

\* The cleanup keeps the types and only clears.
LEMMA CleanupClears ==
    ASSUME TypeOK, CleanupStep
    PROVE  slots' \in Table /\ \A i \in Slot : Clears(i)
<1> USE DEF TypeOK, Table, Clears
<1>1. CASE StartCleanup \/ CheckSlot
  BY <1>1 DEF StartCleanup, CheckSlot
<1>2. CASE DropActive
  BY <1>2 DEF DropActive, Entry
<1>3. CASE DropState
  BY <1>3 DEF DropState, Entry
<1>4. CASE DropRssi
  BY <1>4 DEF DropRssi, Entry
<1> QED BY <1>1, <1>2, <1>3, <1>4 DEF CleanupStep

\* The loop counter stays within the table.
LEMMA NextSlotType ==
    ASSUME TypeOK, NextSlot
    PROVE  index' \in Slot /\ pc' \in {"idle", "check"}
  BY SizeAssumption DEF TypeOK, NextSlot, Slot

\* The types of all variables; in particular the cleanup never leaves the table.
THEOREM TypeCorrect == Spec => []TypeOK
<1>1. Init => TypeOK
  <2>1. 0 \in Time /\ 0 \in Slot
    BY SizeAssumption, TimeAssumption DEF Time, Slot
  <2>2. EmptyEntry \in Entry
    BY <2>1 DEF EmptyEntry, Entry
  <2> QED BY <2>1, <2>2 DEF Init, TypeOK
<1>2. TypeOK /\ [Next]_vars => TypeOK'
  <2> SUFFICES ASSUME TypeOK, [Next]_vars PROVE TypeOK'
    OBVIOUS
  <2>1. ASSUME NEW m \in Mac \cup {Self}, NEW r \in Rssi, Beacon(m, r) PROVE TypeOK'
    BY <2>1, HeardType DEF Beacon, TypeOK, Table
  <2>2. ASSUME NEW m \in Mac, NEW r \in Rssi, LocalStatus(m, r) PROVE TypeOK'
    <3>1. Heard(slots, m, r) \in Table
      BY HeardType DEF TypeOK, Table
    <3> QED BY <2>2, <3>1, ReportedType DEF LocalStatus, TypeOK, Table
  <2>3. CASE CleanupStep
    <3>1. slots' \in [Slot -> Entry]
      BY <2>3, CleanupClears DEF Table
    <3>2. CASE StartCleanup
      BY <3>1, <3>2, SizeAssumption DEF StartCleanup, TypeOK, Slot
    <3>3. CASE CheckSlot
      BY <3>1, <3>3, NextSlotType DEF CheckSlot, TypeOK
    <3>4. CASE DropActive
      BY <3>1, <3>4 DEF DropActive, TypeOK
    <3>5. CASE DropState
      BY <3>1, <3>5 DEF DropState, TypeOK
    <3>6. CASE DropRssi
      BY <3>1, <3>6, NextSlotType DEF DropRssi, TypeOK
    <3> QED BY <2>3, <3>2, <3>3, <3>4, <3>5, <3>6 DEF CleanupStep
  <2>4. CASE Tick
    BY <2>4, TimeAssumption DEF Tick, TypeOK, Time
  <2>5. CASE UNCHANGED vars
    BY <2>5 DEF vars, TypeOK
  <2> QED BY <2>1, <2>2, <2>3, <2>4, <2>5 DEF Next, CleanupStep
<1> QED BY <1>1, <1>2, PTL DEF Spec
-----------------------------------------------------------------------------
\* No board twice in t.
Distinct(t) ==
    \A i, j \in Slot : t[i].active /\ t[j].active /\ t[i].mac = t[j].mac => i = j

\* A board enters only if it is nowhere, and into one slot.
LEMMA HeardDistinct ==
    ASSUME NEW t \in Table, NEW m \in Mac \cup {Self}, NEW r, Distinct(t)
    PROVE  Distinct(Heard(t, m, r))
<1> DEFINE In(k) == /\ Lookup(t, m) = {}
                    /\ k \in Room(t, r)
                    /\ Heard(t, m, r)[k].mac = m
           Same(k) == /\ Heard(t, m, r)[k].active = t[k].active
                      /\ Heard(t, m, r)[k].mac = t[k].mac
<1>1. ASSUME NEW k \in Slot PROVE In(k) \/ Same(k)
  BY HeardFields
<1>2. ASSUME NEW k \in Slot, Lookup(t, m) = {} PROVE ~Holds(t[k], m)
  <2> SUFFICES ASSUME Holds(t[k], m) PROVE k \in Lookup(t, m)
    BY <1>2
  <2>1. \A n \in Slot : Holds(t[n], m) => n = k
    BY DEF Holds, Distinct
  <2> QED BY <2>1 DEF Lookup, Slot
<1> SUFFICES ASSUME NEW i \in Slot, NEW j \in Slot,
                    Heard(t, m, r)[i].active, Heard(t, m, r)[j].active,
                    Heard(t, m, r)[i].mac = Heard(t, m, r)[j].mac
             PROVE  i = j
  BY DEF Distinct
<1>3. CASE Same(i) /\ Same(j)
  BY <1>3 DEF Distinct
<1>4. CASE In(i) /\ In(j)
  BY <1>4, RoomIsOneSlot
<1>5. CASE In(i) /\ Same(j)
  BY <1>2, <1>5 DEF Holds
<1>6. CASE Same(i) /\ In(j)
  BY <1>2, <1>6 DEF Holds
<1> QED BY <1>1, <1>3, <1>4, <1>5, <1>6

\* No board is ever in two slots.
THEOREM BoardsAreDistinct == Spec => []NoDuplicates
<1>1. Init => Distinct(slots)
  BY DEF Init, Distinct, EmptyEntry
<1>2. TypeOK /\ Distinct(slots) /\ [Next]_vars => Distinct(slots')
  <2> SUFFICES ASSUME TypeOK, Distinct(slots), [Next]_vars PROVE Distinct(slots')
    OBVIOUS
  <2> USE DEF TypeOK, Table
  <2>1. ASSUME NEW m \in Mac \cup {Self}, NEW r \in Rssi, Beacon(m, r)
        PROVE  Distinct(slots')
    BY <2>1, HeardDistinct DEF Beacon
  <2>2. ASSUME NEW m \in Mac, NEW r \in Rssi, LocalStatus(m, r) PROVE Distinct(slots')
    <3>1. Heard(slots, m, r) \in Table /\ Distinct(Heard(slots, m, r))
      BY HeardType, HeardDistinct
    <3> QED BY <2>2, <3>1, ReportedType DEF LocalStatus, Distinct
  <2>3. CASE CleanupStep
    BY <2>3, CleanupClears DEF Clears, Distinct
  <2>4. CASE UNCHANGED slots
    BY <2>4 DEF Distinct
  <2> QED BY <2>1, <2>2, <2>3, <2>4 DEF Next, CleanupStep, Tick, vars
<1>3. Distinct(slots) => NoDuplicates
  BY DEF Distinct, NoDuplicates
<1>4. Distinct(slots)' <=> Distinct(slots')
  BY DEF Distinct
<1> QED BY <1>1, <1>2, <1>3, <1>4, TypeCorrect, PTL DEF Spec
-----------------------------------------------------------------------------
\* Every valid state in t was reported by the board it is stored with.
Own(t) == \A i \in Slot : t[i].active /\ t[i].has_state => t[i].owner = t[i].mac

\* Hearing a board makes no state of another board valid.
LEMMA HeardOwn ==
    ASSUME NEW t \in Table, NEW m \in Mac \cup {Self}, NEW r, Own(t)
    PROVE  Own(Heard(t, m, r))
<1> SUFFICES ASSUME NEW i \in Slot,
                    Heard(t, m, r)[i].active, Heard(t, m, r)[i].has_state
             PROVE  Heard(t, m, r)[i].owner = Heard(t, m, r)[i].mac
  BY DEF Own
<1> QED BY HeardFields DEF Own

\* The automaton never reads a value under the wrong board.
THEOREM StatesAreOwn == Spec => []StateIsOwn
<1>1. Init => StateIsOwn
  BY DEF Init, StateIsOwn, EmptyEntry
<1>2. TypeOK /\ StateIsOwn /\ [Next]_vars => StateIsOwn'
  <2> SUFFICES ASSUME TypeOK, Own(slots), [Next]_vars PROVE Own(slots')
    BY DEF StateIsOwn, Own
  <2> USE DEF TypeOK, Table
  <2>1. ASSUME NEW m \in Mac \cup {Self}, NEW r \in Rssi, Beacon(m, r) PROVE Own(slots')
    BY <2>1, HeardOwn DEF Beacon
  <2>2. ASSUME NEW m \in Mac, NEW r \in Rssi, LocalStatus(m, r) PROVE Own(slots')
    <3>1. Heard(slots, m, r) \in Table /\ Own(Heard(slots, m, r))
      BY HeardType, HeardOwn
    <3> QED BY <2>2, <3>1 DEF LocalStatus, Own, Reported, Lookup, Holds
  <2>3. CASE CleanupStep
    BY <2>3, CleanupClears DEF Clears, Own
  <2>4. CASE UNCHANGED slots
    BY <2>4 DEF Own
  <2> QED BY <2>1, <2>2, <2>3, <2>4 DEF Next, CleanupStep, Tick, vars
<1> QED BY <1>1, <1>2, TypeCorrect, PTL DEF Spec
-----------------------------------------------------------------------------
\* The board of a slot was heard within the timeout of the cleanup's clock, or since.
HeardInTime(e, now) ==
    \/ Since(sampled, e.last_seen) <= NeighborTimeout
    \/ Since(now, e.last_seen) <= Since(now, sampled)

\* The cleanup has still to decide about a slot.
ToCheck(i) == pc # "idle" /\ (i > index \/ (i = index /\ pc \in {"check", "drop"}))

\* NoSilentNeighbor counts the slot the cleanup is at as not yet passed, although it is
\* done with it once it has found it expired; a board that enters in between has been heard.
SilentInv == \A i \in Slot : slots[i].active => HeardInTime(slots[i], clock) \/ ToCheck(i)

LEMMA SinceType ==
    ASSUME NEW a \in Time, NEW b \in Time
    PROVE  Since(a, b) \in Time
BY TimeAssumption DEF Since, Time

\* Until the clock comes round to it again, a time gets older by one on every tick.
LEMMA SinceTick ==
    ASSUME NEW now \in Time, NEW then \in Time, Since(now, then) < ClockMod - 1
    PROVE  Since((now + 1) % ClockMod, then) = Since(now, then) + 1
<1>1. now \in Int /\ then \in Int /\ ClockMod \in Int /\ 0 < ClockMod
      /\ 0 <= now /\ now < ClockMod /\ 0 <= then /\ then < ClockMod
  BY TimeAssumption DEF Time
<1>2. ASSUME NEW x \in Int, 0 <= x, x < ClockMod PROVE x % ClockMod = x
  BY <1>1, <1>2
<1>3. ASSUME NEW x \in Int, -ClockMod <= x, x < 0 PROVE x % ClockMod = x + ClockMod
  BY <1>1, <1>3
<1>4. (now + 1) % ClockMod = IF now + 1 = ClockMod THEN 0 ELSE now + 1
  BY <1>1
<1>5. Since(now, then) = IF now >= then THEN now - then ELSE now - then + ClockMod
  BY <1>1, <1>2, <1>3 DEF Since
<1>6. CASE now + 1 = ClockMod
  <2>1. Since(0, then) = IF then = 0 THEN 0 ELSE ClockMod - then
    BY <1>1, <1>2, <1>3 DEF Since
  <2> QED BY <1>1, <1>4, <1>5, <1>6, <2>1
<1>7. CASE now + 1 # ClockMod
  <2>1. Since(now + 1, then) =
            IF now + 1 >= then THEN now + 1 - then ELSE now + 1 - then + ClockMod
    BY <1>1, <1>2, <1>3, <1>7 DEF Since
  <2> QED BY <1>1, <1>4, <1>5, <1>7, <2>1
<1> QED BY <1>6, <1>7

\* What was heard just now is heard in time.
LEMMA HeardNow ==
    ASSUME clock \in Time, sampled \in Time, NEW e, e.last_seen = clock
    PROVE  HeardInTime(e, clock)
<1>1. Since(clock, clock) = 0
  BY TimeAssumption DEF Since, Time
<1>2. Since(clock, sampled) \in Time
  BY SinceType
<1> QED BY <1>1, <1>2 DEF HeardInTime, Time

\* Only what is heard becomes active, and it gets the time.
LEMMA HeardTimes ==
    ASSUME NEW t \in Table, NEW m \in Mac \cup {Self}, NEW r, NEW i \in Slot
    PROVE  Heard(t, m, r)[i] = t[i] \/ Heard(t, m, r)[i].last_seen = clock
<1>1. ASSUME NEW s PROVE Seen(t[i], s).last_seen = clock
  BY DEF Seen
<1>2. Entered(t[i], m, r).last_seen = clock
  BY DEF Entered
<1> QED BY <1>1, <1>2, HeardEffect

\* The cleanup never leaves a silent board behind.
THEOREM NoSilenceIsLeft == Spec => []NoSilentNeighbor
<1>1. Init => SilentInv
  BY DEF Init, SilentInv, EmptyEntry
<1>2. TypeOK /\ SilentInv /\ [Next]_vars => SilentInv'
  <2> SUFFICES ASSUME TypeOK, SilentInv, [Next]_vars PROVE SilentInv'
    OBVIOUS
  <2> USE DEF TypeOK, Table
  <2>1. ASSUME NEW m \in Mac \cup {Self}, NEW r \in Rssi, Beacon(m, r) PROVE SilentInv'
    <3> SUFFICES ASSUME NEW i \in Slot, slots'[i].active
                 PROVE  HeardInTime(slots'[i], clock) \/ ToCheck(i)
      BY <2>1 DEF Beacon, SilentInv, HeardInTime, ToCheck
    <3>1. slots'[i] = slots[i] \/ slots'[i].last_seen = clock
      BY <2>1, HeardTimes DEF Beacon
    <3> QED BY <3>1, HeardNow DEF SilentInv
  <2>2. ASSUME NEW m \in Mac, NEW r \in Rssi, LocalStatus(m, r) PROVE SilentInv'
    <3> SUFFICES ASSUME NEW i \in Slot, slots'[i].active
                 PROVE  HeardInTime(slots'[i], clock) \/ ToCheck(i)
      BY <2>2 DEF LocalStatus, SilentInv, HeardInTime, ToCheck
    <3> DEFINE h == Heard(slots, m, r)
    <3>1. h \in Table /\ (h[i] = slots[i] \/ h[i].last_seen = clock)
      BY HeardType, HeardTimes
    <3> HIDE DEF h
    <3>2. slots'[i] = h[i] \/ slots'[i].last_seen = clock
      BY <2>2 DEF LocalStatus, Reported, h
    <3> QED BY <3>1, <3>2, HeardNow DEF SilentInv
  <2>3. CASE StartCleanup
    BY <2>3, SizeAssumption DEF StartCleanup, SilentInv, ToCheck, Slot
  <2>4. CASE CheckSlot
    <3> SUFFICES ASSUME NEW i \in Slot, slots[i].active
                 PROVE  HeardInTime(slots[i], clock) \/ ToCheck(i)'
      BY <2>4 DEF CheckSlot, SilentInv, HeardInTime
    <3>1. CASE Expired(slots[index])
      BY <2>4, <3>1 DEF CheckSlot, SilentInv, ToCheck, HeardInTime
    <3>2. CASE ~Expired(slots[index])
      <4>1. i = index => HeardInTime(slots[i], clock)
        <5>1. slots[i].last_seen \in Time
          BY DEF Entry
        <5>2. Since(sampled, slots[i].last_seen) \in Time
          BY <5>1, SinceType
        <5> QED BY <3>2, <5>2, TimeAssumption DEF Expired, HeardInTime, Time
      <4>2. NextSlot
        BY <2>4, <3>2 DEF CheckSlot
      <4>3. i > index => ToCheck(i)'
        BY <4>2, SizeAssumption DEF NextSlot, ToCheck, Slot
      <4> QED BY <2>4, <4>1, <4>3 DEF SilentInv, ToCheck, Slot
    <3> QED BY <3>1, <3>2
  <2>5. CASE DropActive
    BY <2>5 DEF DropActive, SilentInv, ToCheck, HeardInTime, Entry, Slot
  <2>6. CASE DropState
    BY <2>6 DEF DropState, SilentInv, ToCheck, HeardInTime, Entry, Slot
  <2>7. CASE DropRssi
    <3>1. ASSUME NEW i \in Slot, slots'[i].active
          PROVE  /\ slots[i].active
                 /\ slots'[i].last_seen = slots[i].last_seen
      BY <2>7, <3>1 DEF DropRssi, Entry
    <3>2. ASSUME NEW i \in Slot, ToCheck(i) PROVE ToCheck(i)'
      BY <2>7, <3>2, SizeAssumption DEF DropRssi, NextSlot, ToCheck, Slot
    <3> QED BY <2>7, <3>1, <3>2 DEF DropRssi, SilentInv, HeardInTime
  <2>8. CASE Tick
    <3> SUFFICES ASSUME NEW i \in Slot, slots[i].active, HeardInTime(slots[i], clock)
                 PROVE  HeardInTime(slots[i], clock')
      BY <2>8 DEF Tick, SilentInv, ToCheck, HeardInTime
    <3>1. slots[i].last_seen \in Time
      BY DEF Entry
    <3>2. /\ Since(clock, slots[i].last_seen) < ClockMod - 1
          /\ Since(clock, sampled) < ClockMod - 1
          /\ clock' = (clock + 1) % ClockMod
      BY <2>8 DEF Tick
    <3>3. /\ Since(clock', slots[i].last_seen) = Since(clock, slots[i].last_seen) + 1
          /\ Since(clock', sampled) = Since(clock, sampled) + 1
      BY <3>1, <3>2, SinceTick
    <3>4. Since(clock, slots[i].last_seen) \in Int /\ Since(clock, sampled) \in Int
      <4>1. Since(clock, slots[i].last_seen) \in Time /\ Since(clock, sampled) \in Time
        BY <3>1, SinceType
      <4> QED BY <4>1, TimeAssumption DEF Time
    <3> QED BY <3>3, <3>4 DEF HeardInTime
  <2>9. CASE UNCHANGED vars
    BY <2>9 DEF vars, SilentInv, ToCheck, HeardInTime
  <2> QED BY <2>1, <2>2, <2>3, <2>4, <2>5, <2>6, <2>7, <2>8, <2>9 DEF Next
<1>3. TypeOK /\ SilentInv => NoSilentNeighbor
  BY DEF TypeOK, SilentInv, NoSilentNeighbor, HeardInTime, ToCheck, Slot
<1> QED BY <1>1, <1>2, <1>3, TypeCorrect, PTL DEF Spec
-----------------------------------------------------------------------------
(* BeaconFilter: the address a beacon is entered under. *)

LEMMA SixBytes == 0 .. 5 = {0, 1, 2, 3, 4, 5}
OBVIOUS

\* The bytes of a normalized address, borrows written out.
LEMMA Bytes ==
    ASSUME NEW m \in Address
    PROVE  LET n == normalize_mesh_ap_bssid_to_sta_mac(m)
               Less(i) == IF m[i] > 0 THEN m[i] - 1 ELSE 255
           IN  /\ n \in Address
               /\ n[5] = Less(5)
               /\ n[4] = IF m[5] = 0 THEN Less(4) ELSE m[4]
               /\ n[3] = IF m[4] = 0 /\ m[5] = 0 THEN Less(3) ELSE m[3]
               /\ n[2] = IF m[3] = 0 /\ m[4] = 0 /\ m[5] = 0 THEN Less(2) ELSE m[2]
               /\ n[1] = IF m[2] = 0 /\ m[3] = 0 /\ m[4] = 0 /\ m[5] = 0
                         THEN Less(1) ELSE m[1]
               /\ n[0] = IF m[1] = 0 /\ m[2] = 0 /\ m[3] = 0 /\ m[4] = 0 /\ m[5] = 0
                         THEN Less(0) ELSE m[0]
<1> DEFINE n == normalize_mesh_ap_bssid_to_sta_mac(m)
           Less(i) == IF m[i] > 0 THEN m[i] - 1 ELSE 255
           Borrows(i) == \A j \in i + 1 .. 5 : m[j] = 0
<1>1. \A i \in 0 .. 5 : m[i] \in Byte
  BY DEF Address
<1>2. \A i \in 0 .. 5 : n[i] = IF Borrows(i) THEN Less(i) ELSE m[i]
  BY DEF normalize_mesh_ap_bssid_to_sta_mac
<1>3. n \in Address
  <2>1. \A i \in 0 .. 5 : Less(i) \in Byte
    BY <1>1 DEF Byte
  <2>2. \A i \in 0 .. 5 : n[i] \in Byte
    BY <1>1, <1>2, <2>1
  <2> QED BY <2>2 DEF Address, normalize_mesh_ap_bssid_to_sta_mac
<1>4. /\ Borrows(5)
      /\ Borrows(4) <=> m[5] = 0
      /\ Borrows(3) <=> m[4] = 0 /\ m[5] = 0
      /\ Borrows(2) <=> m[3] = 0 /\ m[4] = 0 /\ m[5] = 0
      /\ Borrows(1) <=> m[2] = 0 /\ m[3] = 0 /\ m[4] = 0 /\ m[5] = 0
      /\ Borrows(0) <=> m[1] = 0 /\ m[2] = 0 /\ m[3] = 0 /\ m[4] = 0 /\ m[5] = 0
  <2>1. /\ 5 + 1 .. 5 = {} /\ 4 + 1 .. 5 = {5} /\ 3 + 1 .. 5 = {4, 5}
        /\ 2 + 1 .. 5 = {3, 4, 5} /\ 1 + 1 .. 5 = {2, 3, 4, 5}
        /\ 0 + 1 .. 5 = {1, 2, 3, 4, 5}
    OBVIOUS
  <2> QED BY <2>1
<1>5. /\ n[5] = (IF Borrows(5) THEN Less(5) ELSE m[5])
      /\ n[4] = (IF Borrows(4) THEN Less(4) ELSE m[4])
      /\ n[3] = (IF Borrows(3) THEN Less(3) ELSE m[3])
      /\ n[2] = (IF Borrows(2) THEN Less(2) ELSE m[2])
      /\ n[1] = (IF Borrows(1) THEN Less(1) ELSE m[1])
      /\ n[0] = (IF Borrows(0) THEN Less(0) ELSE m[0])
  BY <1>2
<1> HIDE DEF n, Less, Borrows
<1>6. /\ n \in Address
      /\ n[5] = Less(5)
      /\ n[4] = IF m[5] = 0 THEN Less(4) ELSE m[4]
      /\ n[3] = IF m[4] = 0 /\ m[5] = 0 THEN Less(3) ELSE m[3]
      /\ n[2] = IF m[3] = 0 /\ m[4] = 0 /\ m[5] = 0 THEN Less(2) ELSE m[2]
      /\ n[1] = IF m[2] = 0 /\ m[3] = 0 /\ m[4] = 0 /\ m[5] = 0 THEN Less(1) ELSE m[1]
      /\ n[0] = IF m[1] = 0 /\ m[2] = 0 /\ m[3] = 0 /\ m[4] = 0 /\ m[5] = 0
                THEN Less(0) ELSE m[0]
  BY <1>3, <1>4, <1>5
<1> QED BY <1>6 DEF n, Less

LEMMA OneLess ==
    ASSUME NEW x \in 0 .. 255, NEW y \in 0 .. 255,
           (IF x > 0 THEN x - 1 ELSE 255) = (IF y > 0 THEN y - 1 ELSE 255)
    PROVE  x = y
<1>1. x \in Int /\ y \in Int /\ 0 <= x /\ x <= 255 /\ 0 <= y /\ y <= 255
  OBVIOUS
<1>2. CASE x > 0 /\ y > 0
  BY <1>1, <1>2
<1>3. CASE x = 0 /\ y > 0
  BY <1>1, <1>3
<1>4. CASE x > 0 /\ y = 0
  BY <1>1, <1>4
<1> QED BY <1>1, <1>2, <1>3, <1>4

LEMMA SameBytes ==
    ASSUME NEW m \in Address, NEW n \in Address,
           m[0] = n[0], m[1] = n[1], m[2] = n[2], m[3] = n[3], m[4] = n[4], m[5] = n[5]
    PROVE  m = n
<1>1. \A i \in 0 .. 5 : m[i] = n[i]
  BY SixBytes
<1> QED BY <1>1 DEF Address

\* Two access points are never taken for the same board (beacon_monitor.cpp:
\* normalize_mesh_ap_bssid_to_sta_mac).
THEOREM BoardsKeptApart ==
    ASSUME NEW a \in Address, NEW b \in Address,
           normalize_mesh_ap_bssid_to_sta_mac(a) = normalize_mesh_ap_bssid_to_sta_mac(b)
    PROVE  a = b
<1> DEFINE n == normalize_mesh_ap_bssid_to_sta_mac(a)
           LessA(i) == IF a[i] > 0 THEN a[i] - 1 ELSE 255
           LessB(i) == IF b[i] > 0 THEN b[i] - 1 ELSE 255
<1>1. \A i \in 0 .. 5 : a[i] \in 0 .. 255 /\ b[i] \in 0 .. 255
  BY DEF Address, Byte
<1>2. /\ n[5] = LessA(5)
      /\ n[4] = IF a[5] = 0 THEN LessA(4) ELSE a[4]
      /\ n[3] = IF a[4] = 0 /\ a[5] = 0 THEN LessA(3) ELSE a[3]
      /\ n[2] = IF a[3] = 0 /\ a[4] = 0 /\ a[5] = 0 THEN LessA(2) ELSE a[2]
      /\ n[1] = IF a[2] = 0 /\ a[3] = 0 /\ a[4] = 0 /\ a[5] = 0 THEN LessA(1) ELSE a[1]
      /\ n[0] = IF a[1] = 0 /\ a[2] = 0 /\ a[3] = 0 /\ a[4] = 0 /\ a[5] = 0
                THEN LessA(0) ELSE a[0]
  BY Bytes
<1>3. /\ n[5] = LessB(5)
      /\ n[4] = IF b[5] = 0 THEN LessB(4) ELSE b[4]
      /\ n[3] = IF b[4] = 0 /\ b[5] = 0 THEN LessB(3) ELSE b[3]
      /\ n[2] = IF b[3] = 0 /\ b[4] = 0 /\ b[5] = 0 THEN LessB(2) ELSE b[2]
      /\ n[1] = IF b[2] = 0 /\ b[3] = 0 /\ b[4] = 0 /\ b[5] = 0 THEN LessB(1) ELSE b[1]
      /\ n[0] = IF b[1] = 0 /\ b[2] = 0 /\ b[3] = 0 /\ b[4] = 0 /\ b[5] = 0
                THEN LessB(0) ELSE b[0]
  BY Bytes
<1> HIDE DEF n
<1>4. ASSUME NEW i \in 0 .. 5, LessA(i) = LessB(i) PROVE a[i] = b[i]
  <2>1. a[i] \in 0 .. 255 /\ b[i] \in 0 .. 255
    BY <1>1
  <2>2. (IF a[i] > 0 THEN a[i] - 1 ELSE 255) = (IF b[i] > 0 THEN b[i] - 1 ELSE 255)
    BY <1>4
  <2> QED BY <2>1, <2>2, OneLess
<1> HIDE DEF LessA, LessB
<1>5. a[5] = b[5]
  BY <1>2, <1>3, <1>4
<1>6. a[4] = b[4]
  BY <1>2, <1>3, <1>4, <1>5
<1>7. a[3] = b[3]
  BY <1>2, <1>3, <1>4, <1>5, <1>6
<1>8. a[2] = b[2]
  BY <1>2, <1>3, <1>4, <1>5, <1>6, <1>7
<1>9. a[1] = b[1]
  BY <1>2, <1>3, <1>4, <1>5, <1>6, <1>7, <1>8
<1>10. a[0] = b[0]
  BY <1>2, <1>3, <1>4, <1>5, <1>6, <1>7, <1>8, <1>9
<1> QED BY <1>5, <1>6, <1>7, <1>8, <1>9, <1>10, SameBytes

\* A board is known under one address: what its beacons are normalized to is the sender
\* of its ESP-NOW frames. The driver adds without a carry, the firmware takes off with a
\* borrow: this needs a station's address that does not end in 255.
LEMMA Station ==
    ASSUME NEW sta \in Address, sta[5] < 255
    PROVE  /\ AccessPoint(sta) \in Address
           /\ normalize_mesh_ap_bssid_to_sta_mac(AccessPoint(sta)) = sta
<1> DEFINE ap == AccessPoint(sta)
<1>1. sta[5] \in 0 .. 255
  BY DEF Address, Byte
<1>2. (sta[5] + 1) % 256 = sta[5] + 1
  BY <1>1
<1>3. /\ ap \in Address
      /\ ap[5] = sta[5] + 1
      /\ ap[4] = sta[4] /\ ap[3] = sta[3] /\ ap[2] = sta[2] /\ ap[1] = sta[1]
      /\ ap[0] = sta[0]
  BY <1>1, <1>2 DEF AccessPoint, Address, Byte
<1> HIDE DEF ap
<1>4. ap[5] > 0 /\ ap[5] # 0 /\ ap[5] - 1 = sta[5]
  BY <1>1, <1>3
<1> DEFINE n == normalize_mesh_ap_bssid_to_sta_mac(ap)
<1>5. /\ n \in Address
      /\ n[5] = sta[5] /\ n[4] = ap[4] /\ n[3] = ap[3] /\ n[2] = ap[2] /\ n[1] = ap[1]
      /\ n[0] = ap[0]
  BY <1>3, <1>4, Bytes
<1> HIDE DEF n
<1>6. n = sta
  BY <1>3, <1>5, SameBytes
<1> QED BY <1>3, <1>6 DEF n, ap

\* Every beacon of a board that shows another network's name, or none, counts as the
\* board heard, under its station's address (beacon_monitor.cpp: process_beacon_frame).
THEOREM BoardIsHeard ==
    ASSUME NEW sta \in Address, sta[5] < 255, mac_has_espressif_oui(sta),
           NEW frame \in Frame, frame.mac = AccessPoint(sta),
           frame.length >= 36, frame.type = 0, frame.subtype = 8,
           \A e \in DOMAIN frame.elements :
               frame.elements[e].id = 0 => frame.elements[e].text # MESH_ROUTER_SSID
    PROVE  /\ Accepted(frame)
           /\ normalize_mesh_ap_bssid_to_sta_mac(frame.mac) = sta
<1> DEFINE ap == AccessPoint(sta)
<1>1. \A i \in 0 .. 5 : sta[i] \in 0 .. 255
  BY DEF Address, Byte
<1>2. /\ sta[0] # 0 /\ sta[0] # 255 /\ sta[0] % 2 = 0
  BY SMT DEF mac_has_espressif_oui
<1>3. ap[0] = sta[0] /\ ap[1] = sta[1] /\ ap[2] = sta[2]
  BY DEF AccessPoint, Address
<1>4. is_valid_mac(sta) /\ is_valid_mac(ap)
  BY <1>2, <1>3, SixBytes DEF is_valid_mac
<1>5. mac_has_espressif_oui(ap)
  BY <1>3 DEF mac_has_espressif_oui
<1>6. ~ssid_matches_router(frame)
  BY DEF ssid_matches_router, Ssid
<1>7. normalize_mesh_ap_bssid_to_sta_mac(frame.mac) = sta
  BY Station
<1> QED BY <1>4, <1>5, <1>6, <1>7 DEF Accepted, extract_beacon_info

\* The second check of the address refuses no frame but those of two kinds of sender:
\* the access point of address one, and those whose address ends in five zeros.
THEOREM FewAreRefused ==
    ASSUME NEW m \in Address, is_valid_mac(m)
    PROVE  is_valid_mac(normalize_mesh_ap_bssid_to_sta_mac(m)) <=>
               /\ \E i \in 1 .. 5 : m[i] # 0
               /\ \E i \in 0 .. 4 : m[i] # 0 \/ m[5] # 1
<1> DEFINE n == normalize_mesh_ap_bssid_to_sta_mac(m)
           Less(i) == IF m[i] > 0 THEN m[i] - 1 ELSE 255
<1>1. \A i \in 0 .. 5 : m[i] \in 0 .. 255
  BY DEF Address, Byte
<1>2. /\ n[5] = Less(5)
      /\ n[4] = IF m[5] = 0 THEN Less(4) ELSE m[4]
      /\ n[3] = IF m[4] = 0 /\ m[5] = 0 THEN Less(3) ELSE m[3]
      /\ n[2] = IF m[3] = 0 /\ m[4] = 0 /\ m[5] = 0 THEN Less(2) ELSE m[2]
      /\ n[1] = IF m[2] = 0 /\ m[3] = 0 /\ m[4] = 0 /\ m[5] = 0 THEN Less(1) ELSE m[1]
      /\ n[0] = IF m[1] = 0 /\ m[2] = 0 /\ m[3] = 0 /\ m[4] = 0 /\ m[5] = 0
                THEN Less(0) ELSE m[0]
  BY Bytes
<1> HIDE DEF n
<1>3. m[0] % 2 = 0
  BY DEF is_valid_mac
<1>4. CASE m[1] = 0 /\ m[2] = 0 /\ m[3] = 0 /\ m[4] = 0 /\ m[5] = 0
  <2>1. n[0] = Less(0)
    BY <1>2, <1>4
  <2>2. n[0] % 2 # 0
    BY <1>1, <1>3, <2>1
  <2>3. ~\E i \in 1 .. 5 : m[i] # 0
    <3>1. 1 .. 5 = {1, 2, 3, 4, 5}
      OBVIOUS
    <3> QED BY <1>4, <3>1
  <2> QED BY <2>2, <2>3 DEF is_valid_mac, n
<1>5. CASE ~(m[1] = 0 /\ m[2] = 0 /\ m[3] = 0 /\ m[4] = 0 /\ m[5] = 0)
  <2>1. n[0] = m[0] /\ n[0] # 255
    BY <1>1, <1>2, <1>3, <1>5
  <2>2. \E i \in 1 .. 5 : m[i] # 0
    BY <1>5
  <2>3. (\E i \in 0 .. 5 : n[i] # 0) <=> (\E i \in 0 .. 4 : m[i] # 0 \/ m[5] # 1)
    <3>1. 0 .. 4 = {0, 1, 2, 3, 4}
      OBVIOUS
    <3>2. (\E i \in 0 .. 5 : n[i] # 0) <=>
              n[0] # 0 \/ n[1] # 0 \/ n[2] # 0 \/ n[3] # 0 \/ n[4] # 0 \/ n[5] # 0
      BY SixBytes
    <3>3. (\E i \in 0 .. 4 : m[i] # 0 \/ m[5] # 1) <=>
              m[0] # 0 \/ m[1] # 0 \/ m[2] # 0 \/ m[3] # 0 \/ m[4] # 0 \/ m[5] # 1
      BY <3>1
    <3>4. n[0] # 0 \/ n[1] # 0 \/ n[2] # 0 \/ n[3] # 0 \/ n[4] # 0 \/ n[5] # 0 <=>
              m[0] # 0 \/ m[1] # 0 \/ m[2] # 0 \/ m[3] # 0 \/ m[4] # 0 \/ m[5] # 1
      BY <1>1, <1>2, <1>5
    <3> QED BY <3>2, <3>3, <3>4
  <2> QED BY <1>3, <2>1, <2>2, <2>3 DEF is_valid_mac, n
<1> QED BY <1>4, <1>5
=============================================================================
