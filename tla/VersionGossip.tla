--------------------------- MODULE VersionGossip ---------------------------
(***************************************************************************)
(* What spreading one part of the configuration promises: nodes hold       *)
(* numbered versions, a new version outnumbers every version still about,  *)
(* and a node only ever moves to a version with a higher number.           *)
(***************************************************************************)
EXTENDS Integers

CONSTANTS Node, Body

VARIABLES
    held,    \* the version each node holds
    pool     \* the versions that are held or on their way

vars == <<held, pool>>

Version == [seq : Nat, body : Body]

Holding(v, n) == /\ held' = [held EXCEPT ![n] = v]
                 /\ \A m \in Node : held'[m] \in pool'

Init == /\ held \in [Node -> [seq : {0}, body : Body]]
        /\ pool = {held[n] : n \in Node}

\* A command creates a version numbered above all there are.
Issue(n) ==
    /\ held'[n] \in Version
    /\ \A w \in pool : held'[n].seq > w.seq
    /\ pool' \subseteq pool \cup {held'[n]}
    /\ Holding(held'[n], n)

\* A node takes over a version it has not outgrown.
Adopt(n) ==
    \E v \in pool :
        /\ v.seq > held[n].seq
        /\ pool' \subseteq pool
        /\ Holding(v, n)

\* Copies on their way get lost or are of no use any more.
Forget ==
    /\ pool' \subseteq pool
    /\ \A n \in Node : held[n] \in pool'
    /\ UNCHANGED held

Next == (\E n \in Node : Issue(n) \/ Adopt(n)) \/ Forget

Spec == Init /\ [][Next]_vars
=============================================================================
