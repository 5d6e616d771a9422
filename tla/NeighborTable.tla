--------------------------- MODULE NeighborTable ---------------------------
(***************************************************************************)
(* neighbor_list, the bounded table of boards a board hears, whose values   *)
(* feed its automaton. The Wi-Fi task fills it, from passive beacons and    *)
(* from ESP-NOW status frames; the main loop removes what has gone silent.  *)
(*                                                                          *)
(* There is no lock. The Wi-Fi task preempts the main loop and not the      *)
(* other way round, so a Wi-Fi callback is one action and the main loop's   *)
(* cleanup is one action per store. The clock is esp_timer_get_time() in    *)
(* milliseconds truncated to 32 bits: here, ticks modulo ClockMod.          *)
(***************************************************************************)
EXTENDS Integers

CONSTANTS
    Mac,             \* the boards around
    Self,            \* node_mac
    NoMac,           \* no board
    Rssi,            \* signal strengths
    RssiThreshold,   \* RSSI_THRESHOLD
    MaxNeighbors,    \* MAX_NEIGHBORS
    NeighborTimeout, \* NEIGHBOR_TIMEOUT_MS
    CleanupPeriod,   \* time between two cleanups
    MaxCleanup,      \* bound: the longest a cleanup is kept from the processor
    ClockMod         \* 2^32

VARIABLES
    slots,           \* neighbor_list
    clock,           \* esp_timer_get_time() / 1000
    pc,              \* where the main loop is in cleanup_inactive_neighbors
    index,           \* its loop counter
    sampled          \* its "now", which the main loop keeps as last_neighbor_cleanup

vars == <<slots, clock, pc, index, sampled>>

ASSUME MacAssumption == Self \notin Mac /\ NoMac \notin Mac \cup {Self}
ASSUME RssiAssumption == Rssi \subseteq Int /\ RssiThreshold \in Int
ASSUME SizeAssumption == MaxNeighbors \in Nat \ {0}
ASSUME TimeAssumption == /\ NeighborTimeout \in Nat
                         /\ CleanupPeriod \in Nat
                         /\ MaxCleanup \in Nat
                         /\ ClockMod \in Nat \ {0}

Slot == 0 .. MaxNeighbors - 1

Time == 0 .. ClockMod - 1

\* The rssi of an empty slot.
NoSignal == -127

\* owner is the board whose status is in the slot's "state" field.
Entry == [active : BOOLEAN,
          mac : Mac \cup {NoMac},
          rssi : Rssi \cup {NoSignal},
          last_seen : Time,
          has_state : BOOLEAN,
          owner : Mac \cup {NoMac}]

\* uint32_t subtraction.
Since(now, then) == (now - then) % ClockMod

Holds(e, m) == e.active /\ e.mac = m

\* get_neighbor_by_mac: the first active slot with this address, if there is one.
Lookup(t, m) == {i \in Slot : Holds(t[i], m) /\ \A j \in Slot : Holds(t[j], m) => i <= j}

FirstFree(t) == {i \in Slot : ~t[i].active /\ \A j \in Slot : ~t[j].active => i <= j}

\* The first of the slots with the lowest rssi.
Weakest(t) == {i \in Slot : \A j \in Slot : \/ t[i].rssi < t[j].rssi
                                            \/ t[i].rssi = t[j].rssi /\ i <= j}

\* Where a board that is not in the table goes.
Room(t, r) ==
    IF FirstFree(t) # {} THEN FirstFree(t)
    ELSE {i \in Weakest(t) : r > t[i].rssi}

Seen(e, r) ==
    [active |-> e.active, mac |-> e.mac, rssi |-> r, last_seen |-> clock,
     has_state |-> e.has_state, owner |-> e.owner]

\* Mutant: the new entry keeps the has_state of the one before.
EnteredAsIs(e, m, r) ==
    [active |-> TRUE, mac |-> m, rssi |-> r, last_seen |-> clock,
     has_state |-> e.has_state, owner |-> e.owner]

\* A slot taken over: its "state" stays and has_state says it is not valid.
Entered(e, m, r) ==
    [active |-> TRUE, mac |-> m, rssi |-> r, last_seen |-> clock,
     has_state |-> FALSE, owner |-> e.owner]

\* Mutant: the table is not searched for the board first.
HeardUnsearched(t, m, r) ==
    IF m = Self \/ r < RssiThreshold THEN t
    ELSE [i \in Slot |-> IF i \in Room(t, r) THEN Entered(t[i], m, r) ELSE t[i]]

\* update_neighbor_list. A board too faint to enter stays if it is there.
Heard(t, m, r) ==
    LET loud == r >= RssiThreshold
        known == Lookup(t, m)
        room == IF loud /\ known = {} THEN Room(t, r) ELSE {}
    IN  IF m = Self THEN t
        ELSE [i \in Slot |->
                IF i \in known THEN Seen(t[i], IF loud THEN r ELSE t[i].rssi)
                ELSE IF i \in room THEN Entered(t[i], m, r)
                ELSE t[i]]

\* local_status_recv_callback after update_neighbor_list: the status is stored
\* if the board is in the table.
Reported(t, m) ==
    [i \in Slot |->
        IF i \in Lookup(t, m)
        THEN [active |-> t[i].active, mac |-> t[i].mac, rssi |-> t[i].rssi,
              last_seen |-> clock, has_state |-> TRUE, owner |-> m]
        ELSE t[i]]
-----------------------------------------------------------------------------
EmptyEntry == [active |-> FALSE, mac |-> NoMac, rssi |-> NoSignal, last_seen |-> 0,
               has_state |-> FALSE, owner |-> NoMac]

Init ==
    /\ slots = [i \in Slot |-> EmptyEntry]
    /\ clock \in Time
    /\ pc = "idle"
    /\ index = 0
    /\ sampled = clock

\* process_beacon_frame: a beacon, from a board or from oneself.
Beacon(m, r) ==
    /\ slots' = Heard(slots, m, r)
    /\ UNCHANGED <<clock, pc, index, sampled>>

\* local_status_recv_callback: a status frame that passes the checks.
LocalStatus(m, r) ==
    /\ slots' = Reported(Heard(slots, m, r), m)
    /\ UNCHANGED <<clock, pc, index, sampled>>

\* The main loop enters cleanup_inactive_neighbors, which reads the clock once.
StartCleanup ==
    /\ pc = "idle"
    /\ Since(clock, sampled) >= CleanupPeriod
    /\ sampled' = clock
    /\ pc' = "check"
    /\ index' = 0
    /\ UNCHANGED <<slots, clock>>

\* Mutants: the loop runs one slot too far, or ends one slot early.
NextSlotOverrun ==
    IF index < MaxNeighbors THEN pc' = "check" /\ index' = index + 1
    ELSE pc' = "idle" /\ index' = 0

NextSlotShort ==
    IF index + 2 < MaxNeighbors THEN pc' = "check" /\ index' = index + 1
    ELSE pc' = "idle" /\ index' = 0

NextSlot ==
    IF index + 1 < MaxNeighbors THEN pc' = "check" /\ index' = index + 1
    ELSE pc' = "idle" /\ index' = 0

\* "time_since_seen > NEIGHBOR_TIMEOUT_MS", in unsigned arithmetic.
Expired(e) == e.active /\ Since(sampled, e.last_seen) > NeighborTimeout

CheckSlot ==
    /\ pc = "check"
    /\ IF Expired(slots[index]) THEN pc' = "drop" /\ index' = index ELSE NextSlot
    /\ UNCHANGED <<slots, clock, sampled>>

\* The three stores of the removal: active, has_state and rssi.
DropActive ==
    /\ pc = "drop"
    /\ slots' = [slots EXCEPT ![index] =
                    [active |-> FALSE, mac |-> @.mac, rssi |-> @.rssi,
                     last_seen |-> @.last_seen, has_state |-> @.has_state,
                     owner |-> @.owner]]
    /\ pc' = "drop_state"
    /\ UNCHANGED <<clock, index, sampled>>

DropState ==
    /\ pc = "drop_state"
    /\ slots' = [slots EXCEPT ![index] =
                    [active |-> @.active, mac |-> @.mac, rssi |-> @.rssi,
                     last_seen |-> @.last_seen, has_state |-> FALSE,
                     owner |-> @.owner]]
    /\ pc' = "drop_rssi"
    /\ UNCHANGED <<clock, index, sampled>>

DropRssi ==
    /\ pc = "drop_rssi"
    /\ slots' = [slots EXCEPT ![index] =
                    [active |-> @.active, mac |-> @.mac, rssi |-> NoSignal,
                     last_seen |-> @.last_seen, has_state |-> @.has_state,
                     owner |-> @.owner]]
    /\ NextSlot
    /\ UNCHANGED <<clock, sampled>>

\* Time passes. The main loop is never kept away for as long as the clock takes
\* to come round, nor a cleanup for more than MaxCleanup.
Tick ==
    /\ \A i \in Slot : slots[i].active => Since(clock, slots[i].last_seen) < ClockMod - 1
    /\ Since(clock, sampled) < ClockMod - 1
    /\ pc # "idle" => Since(clock, sampled) < MaxCleanup
    /\ clock' = (clock + 1) % ClockMod
    /\ UNCHANGED <<slots, pc, index, sampled>>

Next ==
    \/ \E m \in Mac \cup {Self}, r \in Rssi : Beacon(m, r)
    \/ \E m \in Mac, r \in Rssi : LocalStatus(m, r)
    \/ StartCleanup \/ CheckSlot \/ DropActive \/ DropState \/ DropRssi
    \/ Tick

Spec == Init /\ [][Next]_vars
-----------------------------------------------------------------------------
(* What must hold. *)

\* Types of the variables.
TypeOK ==
    /\ slots \in [Slot -> Entry]
    /\ clock \in Time
    /\ pc \in {"idle", "check", "drop", "drop_state", "drop_rssi"}
    /\ index \in Slot
    /\ sampled \in Time

\* A board never occupies two slots, which would count it twice in the sum of the
\* automaton, although slots are freed while boards enter (update_neighbor_list).
NoDuplicates ==
    \A i, j \in Slot :
        slots[i].active /\ slots[j].active /\ slots[i].mac = slots[j].mac => i = j

\* A value the automaton reads from a slot was reported by the board in that slot,
\* although a slot taken over keeps the state of the board before it and the
\* cleanup writes to slots that have been taken over (fill_neighbor_values).
StateIsOwn ==
    \A i \in Slot :
        slots[i].active /\ slots[i].has_state => slots[i].owner = slots[i].mac

\* The cleanup leaves no silent board behind: once it has passed a slot, the board
\* there was heard within NEIGHBOR_TIMEOUT_MS of the cleanup's clock, or since, by
\* a clock that comes round and whichever boards take and free the slots meanwhile.
NoSilentNeighbor ==
    \A i \in Slot :
        slots[i].active =>
            \/ Since(sampled, slots[i].last_seen) <= NeighborTimeout
            \/ Since(clock, slots[i].last_seen) <= Since(clock, sampled)
            \/ pc # "idle" /\ i >= index
-----------------------------------------------------------------------------
(* What a comment says and the code does not do. *)

\* mesh_node.cpp:320: the cleanup removes neighbors that have not been seen for
\* NEIGHBOR_TIMEOUT_MS. One heard after the cleanup read the clock, or after it
\* found the slot expired, is removed as well.
FreshNeighborStays ==
    [][\A i \in Slot :
          DropActive /\ slots[i].active /\ ~slots'[i].active
              => Since(clock, slots[i].last_seen) > NeighborTimeout]_vars
=============================================================================
