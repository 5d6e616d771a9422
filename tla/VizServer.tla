------------------------------ MODULE VizServer ------------------------------
(***************************************************************************)
(* The visualization server's map of nodes and the pages that mirror it.    *)
(*                                                                          *)
(* Nodes report over MQTT (mesh/state), the root reports topology that       *)
(* names other nodes. UDP frames change nothing (Reports). The server       *)
(* sends every node it has changed to the pages over WebSocket; a page      *)
(* merges what it gets and draws it. A JavaScript object is a function on    *)
(* the fields it has; only fields that tell the reports apart are kept.     *)
(* app and app2 have the same server; their pages differ in full_state.     *)
(***************************************************************************)
EXTENDS Integers, FiniteSets, SequencesExt

CONSTANTS
    Mac,             \* addresses of nodes
    Page,            \* open browser pages
    Neighbor,        \* entries that lists of neighbors have: who, and how strong its signal is
    Slider,          \* where the slider of a page may be moved to
    StaleTimeout,    \* STALE_NODE_TIMEOUT_MS in ticks
    MaxQueued,       \* bound: messages a page has not read when the next report comes
    MaxReloads       \* bound: times a page is closed, loses its connection, is paused
                     \* or has its slider moved

ASSUME MacAssumption == IsFiniteSet(Mac)
ASSUME NeighborAssumption == Neighbor \subseteq [mac : Mac, rssi : Int]
ASSUME SliderAssumption == Slider \subseteq -100 .. 0
ASSUME TimeoutAssumption == StaleTimeout \in Nat
ASSUME BoundAssumption == MaxQueued \in Nat /\ MaxReloads \in Nat

VARIABLES
    fresh,           \* the pages of app2, which forget on full_state; never changes
    nodes,           \* the server's map of nodes
    receivedAt,      \* the age of each node's receivedAt
    silent,          \* how long ago a report last came from a node or named it
    isConnected,     \* the page's WebSocket is open
    toPage,          \* messages the server has sent and the page has not read
    view,            \* the page's map of nodes
    isPaused,
    minRssi,         \* links that are weaker are not drawn
    drawn,           \* what is drawn is what the page holds
    unresolved,      \* nodes that links handed to d3 name and d3 has not found
    reloads

serverVars == <<nodes, receivedAt, silent>>
pageVars == <<fresh, isConnected, toPage, view, isPaused, minRssi, drawn, unresolved,
              reloads>>
vars == <<serverVars, pageVars>>

\* The fields that tell reports apart: the configuration stands for kernel, activations
\* and their sequence numbers.
Field == {"config", "neighbors", "discoveredFromTopology"}

Empty == <<>>

\* Object.assign, and an object literal that starts with ...target: source wins.
Assign(target, source) ==
    [k \in DOMAIN target \cup DOMAIN source |-> IF k \in DOMAIN source THEN source[k] ELSE target[k]]

IsNode(node) ==
    /\ DOMAIN node \subseteq Field
    /\ "neighbors" \in DOMAIN node /\ node["neighbors"] \subseteq Neighbor
    /\ \A f \in DOMAIN node \ {"neighbors"} : node[f] \in BOOLEAN

IsMap(held) == DOMAIN held \subseteq Mac /\ \A m \in DOMAIN held : IsNode(held[m])
-----------------------------------------------------------------------------
(* What the reports become. *)

\* convertMqttTopologyToNode.
TopologyRecord(ns) == [neighbors |-> ns]

\* convertMqttStateToNode.
StateRecord(ns) == [neighbors |-> ns, config |-> TRUE]

\* Mutant: without a list of neighbors.
BarePlaceholder == [discoveredFromTopology |-> TRUE]

\* createPlaceholderNode.
Placeholder == [neighbors |-> {}, discoveredFromTopology |-> TRUE]

\* Mutant: a record that was a placeholder stays one.
WithStateOnly(node, ns) ==
    Assign(node, [neighbors |-> IF ns = {} THEN node["neighbors"] ELSE ns, config |-> TRUE])

\* A state report merged into the record there is; an empty list of neighbors is ignored.
WithState(node, ns) ==
    Assign(node, [neighbors |-> IF ns = {} THEN node["neighbors"] ELSE ns,
                  config |-> TRUE, discoveredFromTopology |-> FALSE])

\* A topology report merged into the record of the root.
WithTopology(node, ns) == Assign(node, TopologyRecord(ns))

\* Mutant: a node that is known is replaced as well.
NamedAnew(known, named) == Assign(known, [n \in named |-> Placeholder])

\* ensureTopologyReferences: who is named and not known gets a placeholder.
Named(known, named) == Assign([n \in named |-> Placeholder], known)

\* The map with the record of one node set.
WithNode(known, m, node) == Assign(known, [n \in {m} |-> node])
-----------------------------------------------------------------------------
(* Pages. *)

\* Object.assign: what comes in wins, what it lacks stays.
MergeNodeData(current, incoming) ==
    [m \in DOMAIN current \cup DOMAIN incoming |->
        IF m \notin DOMAIN current THEN incoming[m]
        ELSE IF m \notin DOMAIN incoming THEN current[m]
        ELSE Assign(current[m], incoming[m])]

Message(type, data) == [type |-> type, data |-> data]

\* What a page holds once it has read a message.
Read(forgets, held, msg) ==
    MergeNodeData(IF msg.type = "full_state" /\ forgets THEN Empty ELSE held, msg.data)

\* What it holds once it has read all of them.
After(forgets, held, msgs) ==
    LET after[i \in 0 .. Len(msgs)] ==
            IF i = 0 THEN held ELSE Read(forgets, after[i - 1], msgs[i])
    IN after[Len(msgs)]

\* let minRssi, of app and of app2.
FirstMinRssi(p) == IF p \in fresh THEN -90 ELSE -80

\* The links of updateSimulation: those that are strong enough.
Links(held, least) ==
    {link \in (DOMAIN held) \X Mac :
        \E n \in held[link[1]]["neighbors"] : n.mac = link[2] /\ n.rssi >= least}

\* The nodes that they name.
Linked(held, least) == UNION {{link[1], link[2]} : link \in Links(held, least)}

\* d3 looks up the nodes of the links it has, then those of the new links; the first that
\* it does not find ends the drawing.
Draws(p, held, least) == unresolved[p] \cup Linked(held, least) \subseteq DOMAIN held

\* Links are looked up in turn: those after the first that is not found wait too, which
\* matters to pages that may forget nodes they have.
LeftOf(p, held, least) ==
    IF Draws(p, held, least) THEN {{}}
    ELSE LET names == IF unresolved[p] \subseteq DOMAIN held THEN Linked(held, least)
                                                            ELSE unresolved[p]
             missing == names \ DOMAIN held
         IN IF p \in fresh THEN {left \in SUBSET names : missing \subseteq left} ELSE {missing}

\* updateSimulation.
UpdateSimulation(p, held, least) ==
    /\ drawn' = [drawn EXCEPT ![p] = Draws(p, held, least)]
    /\ \E left \in LeftOf(p, held, least) : unresolved' = [unresolved EXCEPT ![p] = left]

\* updateVisualization, of what the page holds by now and with the slider where it is by now.
UpdateVisualization(p, held, least) ==
    IF isPaused[p]
    THEN /\ drawn' = [drawn EXCEPT ![p] = @ /\ held = view[p] /\ least = minRssi[p]]
         /\ UNCHANGED unresolved
    ELSE UpdateSimulation(p, held, least)

\* Every open page is sent each of the changed nodes in turn.
Broadcast(changed) ==
    toPage' = [p \in Page |->
                  IF isConnected[p]
                  THEN toPage[p] \o [i \in DOMAIN changed |->
                           Message("node_update", [n \in {changed[i]} |-> nodes'[n]])]
                  ELSE toPage[p]]

Room == \A p \in Page : Len(toPage[p]) <= MaxQueued
-----------------------------------------------------------------------------
Init ==
    /\ nodes = Empty /\ receivedAt = Empty
    /\ silent = [m \in Mac |-> 0]
    /\ isConnected = [p \in Page |-> FALSE]
    /\ toPage = [p \in Page |-> <<>>]
    /\ view = [p \in Page |-> Empty]
    /\ isPaused = [p \in Page |-> FALSE]
    /\ drawn = [p \in Page |-> TRUE]
    /\ unresolved = [p \in Page |-> {}]
    /\ reloads = 0
    /\ fresh \in SUBSET Page
    /\ minRssi = [p \in Page |-> FirstMinRssi(p)]

\* Mutant: a node that is named and known keeps the time of its last report.
HeardNew(heard) ==
    /\ receivedAt' = Assign([m \in heard |-> 0], receivedAt)
    /\ silent' = Assign(silent, [m \in heard |-> 0])

\* Every node in heard has been heard of just now.
Heard(heard) ==
    /\ receivedAt' = Assign(receivedAt, [m \in heard |-> 0])
    /\ silent' = Assign(silent, [m \in heard |-> 0])

\* handleMqttMessage on mesh/state.
StateMessage(m, ns) ==
    /\ Room
    /\ nodes' = WithNode(nodes, m, IF m \in DOMAIN nodes THEN WithState(nodes[m], ns)
                                                         ELSE StateRecord(ns))
    /\ Heard({m})
    /\ Broadcast(<<m>>)
    /\ UNCHANGED <<fresh, isConnected, view, isPaused, minRssi, drawn, unresolved, reloads>>

\* Mutant: only the root's own record is sent to the pages.
TopologyMessageAlone(m, ns, named) ==
    LET root == IF m \in DOMAIN nodes THEN WithTopology(nodes[m], ns) ELSE TopologyRecord(ns)
    IN /\ Room
       /\ nodes' = Named(WithNode(nodes, m, root), named)
       /\ Heard({m} \cup named)
       /\ Broadcast(<<m>>)
       /\ UNCHANGED <<fresh, isConnected, view, isPaused, minRssi, drawn, unresolved, reloads>>

\* handleMqttMessage on mesh/topology: the root, its neighbors ns, and all it names,
\* neighbors and routes.
TopologyMessage(m, ns, named) ==
    LET root == IF m \in DOMAIN nodes THEN WithTopology(nodes[m], ns) ELSE TopologyRecord(ns)
    IN /\ Room
       /\ nodes' = Named(WithNode(nodes, m, root), named)
       /\ Heard({m} \cup named)
       /\ Broadcast(<<m>> \o SetToSeq(named))
       /\ UNCHANGED <<fresh, isConnected, view, isPaused, minRssi, drawn, unresolved, reloads>>

Stale == {m \in DOMAIN nodes : receivedAt[m] > StaleTimeout}

\* Mutant: nodes go only when all of them are stale.
CleanupAll ==
    /\ Stale # {} /\ Stale = DOMAIN nodes
    /\ nodes' = Empty
    /\ receivedAt' = Empty
    /\ UNCHANGED <<silent, pageVars>>

\* The cleanup every five seconds; pages are sent statistics only.
Cleanup ==
    /\ Stale # {}
    /\ nodes' = [m \in DOMAIN nodes \ Stale |-> nodes[m]]
    /\ receivedAt' = [m \in DOMAIN nodes \ Stale |-> receivedAt[m]]
    /\ UNCHANGED <<silent, pageVars>>

\* The clock.
Tick ==
    LET Older(age) == IF age > StaleTimeout THEN age ELSE age + 1
    IN /\ receivedAt' = [m \in DOMAIN receivedAt |-> Older(receivedAt[m])]
       /\ silent' = [m \in Mac |-> Older(silent[m])]
       /\ UNCHANGED <<nodes, pageVars>>

\* A page connects and is sent the whole map.
Connect(p) ==
    /\ ~isConnected[p]
    /\ isConnected' = [isConnected EXCEPT ![p] = TRUE]
    /\ toPage' = [toPage EXCEPT ![p] = <<Message("full_state", nodes)>>]
    /\ UNCHANGED <<serverVars, fresh, view, isPaused, minRssi, drawn, unresolved, reloads>>

\* The connection breaks, with it what is under way; the page tries again later.
Disconnect(p) ==
    /\ isConnected[p]
    /\ reloads < MaxReloads /\ reloads' = reloads + 1
    /\ isConnected' = [isConnected EXCEPT ![p] = FALSE]
    /\ toPage' = [toPage EXCEPT ![p] = <<>>]
    /\ UNCHANGED <<serverVars, fresh, view, isPaused, minRssi, drawn, unresolved>>

\* The page is loaded again.
Reload(p) ==
    /\ reloads < MaxReloads /\ reloads' = reloads + 1
    /\ isConnected' = [isConnected EXCEPT ![p] = FALSE]
    /\ toPage' = [toPage EXCEPT ![p] = <<>>]
    /\ view' = [view EXCEPT ![p] = Empty]
    /\ isPaused' = [isPaused EXCEPT ![p] = FALSE]
    /\ minRssi' = [minRssi EXCEPT ![p] = FirstMinRssi(p)]
    /\ drawn' = [drawn EXCEPT ![p] = TRUE]
    /\ unresolved' = [unresolved EXCEPT ![p] = {}]
    /\ UNCHANGED <<serverVars, fresh>>

\* ws.onmessage: full_state or node_update, then updateVisualization.
Receive(p) ==
    /\ toPage[p] # <<>>
    /\ LET held == Read(p \in fresh, view[p], Head(toPage[p]))
       IN view' = [view EXCEPT ![p] = held] /\ UpdateVisualization(p, held, minRssi[p])
    /\ toPage' = [toPage EXCEPT ![p] = Tail(@)]
    /\ UNCHANGED <<serverVars, fresh, isConnected, isPaused, minRssi, reloads>>

\* Mutant: a page that is resumed waits for the next message.
ResumeOnly(p) ==
    /\ p \notin fresh
    /\ IF isPaused[p] THEN UNCHANGED reloads
       ELSE reloads < MaxReloads /\ reloads' = reloads + 1
    /\ isPaused' = [isPaused EXCEPT ![p] = ~@]
    /\ UNCHANGED <<serverVars, fresh, isConnected, toPage, view, minRssi, drawn, unresolved>>

\* togglePause, which app2 does not have: a page that is resumed draws what has come in meanwhile.
TogglePause(p) ==
    /\ p \notin fresh
    /\ IF isPaused[p] THEN UNCHANGED reloads
       ELSE reloads < MaxReloads /\ reloads' = reloads + 1
    /\ isPaused' = [isPaused EXCEPT ![p] = ~@]
    /\ IF isPaused[p] THEN UpdateSimulation(p, view[p], minRssi[p])
                      ELSE UNCHANGED <<drawn, unresolved>>
    /\ UNCHANGED <<serverVars, fresh, isConnected, toPage, view, minRssi>>

\* onMinRssiChange, which app2 does not have.
OnMinRssiChange(p, least) ==
    /\ p \notin fresh /\ least # minRssi[p]
    /\ reloads < MaxReloads /\ reloads' = reloads + 1
    /\ minRssi' = [minRssi EXCEPT ![p] = least]
    /\ UpdateVisualization(p, view[p], least)
    /\ UNCHANGED <<serverVars, fresh, isConnected, toPage, view, isPaused>>

\* onWindowResize, and whatever else has the page drawn again: a click, a label shown or hidden.
OnWindowResize(p) ==
    /\ UpdateVisualization(p, view[p], minRssi[p])
    /\ UNCHANGED <<serverVars, fresh, isConnected, toPage, view, isPaused, minRssi, reloads>>

Mentions(m) ==
    \/ \E ns \in SUBSET {n \in Neighbor : n.mac # m} : StateMessage(m, ns)
    \/ \E root \in Mac : \E named \in SUBSET (Mac \ {root}) :
           /\ m \in {root} \cup named
           /\ \E ns \in SUBSET {n \in Neighbor : n.mac \in named} : TopologyMessage(root, ns, named)

Server == Cleanup \/ \E m \in Mac : Mentions(m)

Pages ==
    \E p \in Page :
        \/ Connect(p) \/ Disconnect(p) \/ Reload(p) \/ Receive(p)
        \/ TogglePause(p) \/ (\E least \in Slider : OnMinRssiChange(p, least)) \/ OnWindowResize(p)

Next == Server \/ Pages \/ Tick

Spec == Init /\ [][Next]_vars

\* Timers run.
FairSpec == Spec /\ WF_vars(Cleanup) /\ WF_vars(Tick)
-----------------------------------------------------------------------------
(* What must hold. *)

\* Types; every record has a list of neighbors, which pages go through.
TypeOK ==
    /\ IsMap(nodes)
    /\ receivedAt \in [DOMAIN nodes -> 0 .. StaleTimeout + 1]
    /\ silent \in [Mac -> 0 .. StaleTimeout + 1]
    /\ isConnected \in [Page -> BOOLEAN] /\ fresh \subseteq Page
    /\ \A p \in Page : IsMap(view[p]) /\ \A i \in DOMAIN toPage[p] : IsMap(toPage[p][i].data)
    /\ isPaused \in [Page -> BOOLEAN] /\ minRssi \in [Page -> Int] /\ drawn \in [Page -> BOOLEAN]
    /\ unresolved \in [Page -> SUBSET Mac]

\* The server's nodes with the server's fields; what else is held is left open.
Reflects(held) ==
    \A m \in DOMAIN nodes :
        /\ m \in DOMAIN held
        /\ \A f \in DOMAIN nodes[m] : f \in DOMAIN held[m] /\ held[m][f] = nodes[m][f]

\* docs/api.md:314: pages get every change. Once it has read what is under way, an open
\* page has every node the server has, with the same fields.
Mirrors ==
    \A p \in Page : isConnected[p] => Reflects(After(p \in fresh, view[p], toPage[p]))

HasConfig(m) == m \in DOMAIN nodes /\ "config" \in DOMAIN nodes[m]

IsPlaceholder(m) ==
    /\ m \in DOMAIN nodes
    /\ "discoveredFromTopology" \in DOMAIN nodes[m] /\ nodes[m]["discoveredFromTopology"]

\* docs/api.md:215: a placeholder is a node that has not reported its state.
PlaceholderUnheard == \A m \in Mac : ~(HasConfig(m) /\ IsPlaceholder(m))

\* What a node has reported about its configuration is lost with the node only, not
\* to a topology report of it or that names it.
KeepsConfig ==
    [][\A m \in Mac : HasConfig(m) =>
           HasConfig(m)' \/ m \notin DOMAIN nodes']_vars

\* docs/architecture.md:121: a node that neither reports nor is named is removed and stays
\* away ...
StaleRemoved ==
    \A m \in Mac : []<><<Mentions(m)>>_vars \/ <>[](m \notin DOMAIN nodes)

\* ... but none that has reported or been named within the timeout, and pages have no part
\* in it.
MentionedStays ==
    [][\A m \in DOMAIN nodes : silent[m] <= StaleTimeout => m \in DOMAIN nodes']_vars

\* A page that is not paused and knows all the nodes that links it shows name, and named
\* when it failed to draw, has drawn what it holds, whatever errors, pauses and moves of the
\* slider came before.
DrawnWhenLinked ==
    \A p \in Page : ~isPaused[p] /\ Draws(p, view[p], minRssi[p]) => drawn[p]
=============================================================================
