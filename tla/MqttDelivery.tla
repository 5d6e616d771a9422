---------------------------- MODULE MqttDelivery ----------------------------
(***************************************************************************)
(* What a publisher is promised of a message of quality of service 1 or 2:  *)
(* it is kept until the broker has passed it on, whatever happens to the    *)
(* connection, unless it is discarded for its age or with its client, or    *)
(* was at the broker, not yet passed on, when the session ended.            *)
(***************************************************************************)
CONSTANT Msg

VARIABLES
    pending,    \* kept for another transmission
    held,       \* at the broker, which has not passed it on
    delivered,  \* passed on
    lost,       \* held when the session ended
    discarded   \* given up

vars == <<pending, held, delivered, lost, discarded>>

Init == pending = {} /\ held = {} /\ delivered = {} /\ lost = {} /\ discarded = {}

Accept(m) ==
    /\ m \notin pending \cup held \cup delivered \cup lost \cup discarded
    /\ pending' = pending \cup {m}
    /\ UNCHANGED <<held, delivered, lost, discarded>>

Hold(m) ==
    /\ m \notin delivered
    /\ held' = held \cup {m}
    /\ UNCHANGED <<pending, delivered, lost, discarded>>

Deliver(m) ==
    /\ delivered' = delivered \cup {m}
    /\ held' = held \ {m}
    /\ UNCHANGED <<pending, lost, discarded>>

EndSession ==
    /\ lost' = lost \cup held
    /\ held' = {}
    /\ UNCHANGED <<pending, delivered, discarded>>

Settle(m) ==
    /\ m \in pending \cap (delivered \cup lost)
    /\ pending' = pending \ {m}
    /\ UNCHANGED <<held, delivered, lost, discarded>>

Discard(old) ==
    /\ pending' = pending \ old
    /\ discarded' = discarded \cup old
    /\ UNCHANGED <<held, delivered, lost>>

Next ==
    \/ \E m \in Msg : Accept(m) \/ Hold(m) \/ Deliver(m) \/ Settle(m)
    \/ \E old \in SUBSET pending : Discard(old)
    \/ EndSession

Spec == Init /\ [][Next]_vars
=============================================================================
