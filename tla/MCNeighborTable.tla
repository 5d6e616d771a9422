-------------------------- MODULE MCNeighborTable --------------------------
(***************************************************************************)
(* Small instances of NeighborTable.                                       *)
(***************************************************************************)
EXTENDS NeighborTable, TLC

\* Too faint to enter, faint, strong.
Strengths == {-90, -80, -60}

Threshold == -80

\* What tells two states apart: ages and not times, and of a slot only what is
\* ever read. An entry that is not active is read no more, an owner only under
\* has_state.
Relevant(e) ==
    <<e.has_state, IF e.has_state THEN e.owner ELSE NoMac,
      IF e.active THEN <<e.mac, e.rssi, Since(clock, e.last_seen)>> ELSE <<>> >>

View == <<[i \in Slot |-> Relevant(slots[i])], Since(clock, sampled), pc, index>>

Boards == Permutations(Mac)
=============================================================================
