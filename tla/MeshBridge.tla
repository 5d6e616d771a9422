----------------------------- MODULE MeshBridge -----------------------------
(***************************************************************************)
(* One node between the mesh and the broker: the main loop with its         *)
(* watchdog check_mesh_health and its reports, the handlers of mesh and IP   *)
(* events, and the life of the MQTT client that a root has.                  *)
(*                                                                          *)
(* The chip has one core. The event task has the highest priority of all    *)
(* and the main loop the lowest, so a change of the mesh and the run of its  *)
(* handler are one action, which may come between any two steps of the loop. *)
(* Time passes in ticks: last_... is the age of what that variable holds     *)
(* and lag the age of the main loop's now. The mesh stack, the router and    *)
(* the broker are external.                                                  *)
(***************************************************************************)
EXTENDS Naturals

CONSTANTS
    CheckInterval,     \* MESH_HEALTH_CHECK_INTERVAL_MS in ticks
    ReconnectAfter,    \* MESH_RECONNECT_ATTEMPT_MS
    RestartAfter,      \* MESH_RECONNECT_RESTART_MS
    PublishInterval,   \* MQTT_UPDATE_INTERVAL_MS
    Never,             \* the zero that stands for no time at all
    MaxLag,            \* bound: ticks a pass of the main loop may take
    MaxFailures,       \* bound: calls of the mesh or the MQTT library that fail
    MaxTcpClients      \* bound: TCP clients served

ASSUME IntervalAssumption ==
    /\ CheckInterval \in Nat \ {0} /\ ReconnectAfter \in Nat /\ RestartAfter \in Nat
    /\ PublishInterval \in Nat /\ ReconnectAfter <= RestartAfter
ASSUME NeverAssumption == Never \notin Nat
ASSUME BoundAssumption ==
    MaxLag \in Nat /\ MaxFailures \in Nat /\ MaxTcpClients \in Nat

VARIABLES
    stack,             \* the ESP mesh stack: not initialised, idle or running
    attached,          \* esp_mesh_get_layer() > 0
    root,              \* esp_mesh_is_root()
    ip,                \* has_ip_address()
    stopped_event,     \* MESH_EVENT_STOPPED is posted and not yet handled
    mesh_initialized,
    has_current_root_addr,
    last_mesh_attached_ms,
    last_mesh_reconnect_attempt_ms,
    last_mesh_health_check_ms,
    last_mesh_state_publish,
    publish_requested, \* mesh_status_publish_requested
    listening,         \* tcp_server_socket >= 0
    mqtt_client,       \* the handle: NULL, or of a client that runs or is freed
    mqtt_connected,
    pc,                \* where the main loop is
    lag,
    due,               \* what the loop has found due
    gone,              \* how long the node has been detached
    served,            \* a TCP client has held up the loop since the last check
    owed,              \* history: the reports requested and not made since
    unstopped,         \* history: esp_mesh_stop has failed on a running stack
    budget             \* what the bounds leave

meshVars == <<stack, attached, root, ip, stopped_event, gone>>
knownVars == <<mesh_initialized, has_current_root_addr, unstopped>>
watchVars == <<last_mesh_attached_ms, last_mesh_reconnect_attempt_ms>>
mqttVars == <<mqtt_client, mqtt_connected>>
serviceVars == <<mqttVars, listening, budget>>
reportVars == <<last_mesh_state_publish, publish_requested, owed>>
nodeVars == <<meshVars, knownVars, watchVars, serviceVars, reportVars>>
passVars == <<lag, due, last_mesh_health_check_ms, served>>
vars == <<nodeVars, pc, passVars>>

Cap(n) == n + MaxLag

Older(age, limit) == IF age = Never THEN Never ELSE IF age < Cap(limit) THEN age + 1 ELSE age

\* now - last >= limit, in unsigned arithmetic: what is younger than the loop's now
\* seems to be very old.
Due(age, limit) == age = Never \/ age < lag \/ age - lag >= limit

Spend(what) == budget[what] > 0 /\ budget' = [budget EXCEPT ![what] = @ - 1]

Request ==
    /\ publish_requested' = TRUE
    /\ owed' = {"state", "topology"}
    /\ UNCHANGED last_mesh_state_publish
-----------------------------------------------------------------------------
(* What the handlers and the loop call. *)

\* init_mesh: esp_mesh_init once, then the configuration and the start, any of
\* which may fail; on a running stack they do. Where an ESP_ERROR_CHECK fails the
\* board reboots, which is another behaviour.
MeshInit ==
    \/ /\ stack # "running"
       /\ stack' = "running"
       /\ mesh_initialized' = TRUE
       /\ UNCHANGED budget
    \/ /\ stack = "running"
       /\ UNCHANGED <<stack, mesh_initialized, budget>>
    \/ /\ stack # "running"
       /\ Spend("failure")
       /\ stack' \in {stack, "idle"}
       /\ UNCHANGED mesh_initialized

\* init_mqtt: without effect if there is a handle.
MqttInit ==
    \/ /\ mqtt_client = "NULL"
       /\ mqtt_client' = "running"
       /\ UNCHANGED <<mqtt_connected, budget>>
    \/ mqtt_client = "NULL" /\ Spend("failure") /\ UNCHANGED mqttVars
    \/ mqtt_client # "NULL" /\ UNCHANGED <<budget, mqttVars>>

TcpServerStart == listening' \in {listening, TRUE}
-----------------------------------------------------------------------------
Init ==
    /\ stack \in {"none", "idle", "running"}
    /\ mesh_initialized = (stack = "running")
    /\ attached = FALSE /\ root = FALSE /\ ip = FALSE /\ stopped_event = FALSE
    /\ gone = 0
    /\ has_current_root_addr = FALSE /\ unstopped = FALSE
    /\ last_mesh_attached_ms = Never
    /\ last_mesh_reconnect_attempt_ms = Never
    /\ last_mesh_health_check_ms = 0
    /\ last_mesh_state_publish = 0
    /\ publish_requested = FALSE /\ owed = {}
    /\ listening = FALSE
    /\ mqtt_client = "NULL" /\ mqtt_connected = FALSE
    /\ pc = "sleep" /\ lag = 0 /\ due = {} /\ served = FALSE
    /\ budget = [what \in {"failure", "tcp"} |->
                    IF what = "failure" THEN MaxFailures ELSE MaxTcpClients]
-----------------------------------------------------------------------------
(* The mesh and the router change, and the event task runs the handler. *)

\* MESH_EVENT_PARENT_CONNECTED.
ParentConnected(asRoot) ==
    /\ stack = "running"
    /\ ~attached
    /\ attached' = TRUE
    /\ root' = asRoot
    /\ gone' = 0
    /\ last_mesh_attached_ms' = 0
    /\ last_mesh_reconnect_attempt_ms' = Never
    /\ Request
    /\ IF asRoot
       THEN /\ has_current_root_addr' = TRUE
            /\ TcpServerStart
            /\ IF ip THEN MqttInit ELSE UNCHANGED <<budget, mqttVars>>
       ELSE UNCHANGED <<has_current_root_addr, serviceVars>>
    /\ UNCHANGED <<stack, ip, stopped_event, mesh_initialized, unstopped, pc, passVars>>

\* MESH_EVENT_ROOT_ADDRESS.
RootAddress ==
    /\ attached
    /\ has_current_root_addr' = TRUE
    /\ Request
    /\ UNCHANGED <<mesh_initialized, unstopped, pc, meshVars, watchVars, serviceVars,
                   passVars>>

\* Mutant: the cached address of the root is kept.
ParentForgotten ==
    /\ attached
    /\ attached' = FALSE
    /\ root' = FALSE
    /\ ip' \in {ip, FALSE}
    /\ Request
    /\ UNCHANGED <<stack, stopped_event, gone, pc, knownVars, watchVars, serviceVars,
                   passVars>>

\* MESH_EVENT_PARENT_DISCONNECTED.
ParentDisconnected ==
    /\ attached
    /\ attached' = FALSE
    /\ root' = FALSE
    /\ ip' \in {ip, FALSE}
    /\ has_current_root_addr' = FALSE
    /\ Request
    /\ UNCHANGED <<stack, stopped_event, gone, mesh_initialized, unstopped, pc, watchVars,
                   serviceVars, passVars>>

\* MESH_EVENT_LAYER_CHANGE while attached, maybe because the root changes.
LayerChange ==
    /\ attached
    /\ root' \in BOOLEAN
    /\ last_mesh_attached_ms' = 0
    /\ last_mesh_reconnect_attempt_ms' = Never
    /\ Request
    /\ UNCHANGED <<stack, attached, ip, stopped_event, gone, pc, knownVars, serviceVars,
                   passVars>>

\* The events that only ask for a report: STARTED, CHILD_..., NO_PARENT_FOUND and
\* ROUTING_TABLE_....
OtherMeshEvent ==
    /\ stack = "running"
    /\ Request
    /\ UNCHANGED <<pc, meshVars, knownVars, watchVars, serviceVars, passVars>>

\* MESH_EVENT_STOPPED.
MeshStopped ==
    /\ stopped_event
    /\ stopped_event' = FALSE
    /\ mesh_initialized' = FALSE
    /\ has_current_root_addr' = FALSE
    /\ Request
    /\ UNCHANGED <<stack, attached, root, ip, gone, unstopped, pc, watchVars, serviceVars,
                   passVars>>

\* The router gives the root an address: ip_event_handler.
GotIp ==
    /\ attached /\ root /\ ~ip
    /\ ip' = TRUE
    /\ Request
    /\ TcpServerStart
    /\ MqttInit
    /\ UNCHANGED <<stack, attached, root, stopped_event, gone, pc, knownVars, watchVars,
                   passVars>>

\* The address is lost, without an event of interest.
LostIp ==
    /\ ip
    /\ ip' = FALSE
    /\ UNCHANGED <<stack, attached, root, stopped_event, gone, pc, knownVars, watchVars,
                   serviceVars, reportVars, passVars>>

\* mqtt_event_handler: CONNECTED, after which topology and state are published, ...
MqttConnected ==
    /\ mqtt_client = "running" /\ ~mqtt_connected
    /\ mqtt_connected' = TRUE
    /\ UNCHANGED <<mqtt_client, pc, listening, budget, meshVars, knownVars, watchVars,
                   reportVars, passVars>>

\* ... and DISCONNECTED or ERROR.
MqttDisconnected ==
    /\ mqtt_client = "running" /\ mqtt_connected
    /\ mqtt_connected' = FALSE
    /\ UNCHANGED <<mqtt_client, pc, listening, budget, meshVars, knownVars, watchVars,
                   reportVars, passVars>>
-----------------------------------------------------------------------------
(* The main loop: check_mesh_health. *)

\* The 100 ms delay is over and the clock is read.
Wake ==
    /\ pc = "sleep"
    /\ lag' = 0
    /\ pc' = "health"
    /\ UNCHANGED <<due, last_mesh_health_check_ms, served, nodeVars>>

\* It is too early for a check.
NoCheck ==
    /\ pc = "health"
    /\ ~Due(last_mesh_health_check_ms, CheckInterval)
    /\ pc' = "decide"
    /\ UNCHANGED <<nodeVars, passVars>>

\* A mesh that is not initialised is, and nothing else is looked at.
RetryInit ==
    /\ pc = "health"
    /\ Due(last_mesh_health_check_ms, CheckInterval)
    /\ ~mesh_initialized
    /\ MeshInit
    /\ last_mesh_health_check_ms' = lag
    /\ served' = FALSE
    /\ pc' = "decide"
    /\ UNCHANGED <<lag, due, attached, root, ip, stopped_event, gone, unstopped,
                   has_current_root_addr, listening, watchVars, mqttVars, reportVars>>

\* The layer is read: attached, the time is noted; detached, the first time is.
ReadLayer ==
    /\ pc = "health"
    /\ Due(last_mesh_health_check_ms, CheckInterval)
    /\ mesh_initialized
    /\ last_mesh_health_check_ms' = lag
    /\ IF attached \/ last_mesh_attached_ms = Never
       THEN last_mesh_attached_ms' = lag
       ELSE UNCHANGED last_mesh_attached_ms
    /\ pc' = IF attached THEN "attached"
             ELSE IF last_mesh_attached_ms = Never THEN "decide" ELSE "detached"
    /\ served' = (served /\ ~attached)
    /\ UNCHANGED <<lag, due, last_mesh_reconnect_attempt_ms, meshVars, knownVars,
                   serviceVars, reportVars>>

\* Mutant: the client is left to the event handlers.
CheckRootOnly ==
    /\ pc = "attached"
    /\ pc' = IF root /\ ~ip /\ mqtt_client # "NULL" THEN "stopping" ELSE "decide"
    /\ UNCHANGED <<nodeVars, passVars>>

\* A root with an address has a client, one without stops the one it has; a node
\* that is no root any more keeps its own.
CheckRoot ==
    /\ pc = "attached"
    /\ IF root /\ ip THEN MqttInit ELSE UNCHANGED <<budget, mqttVars>>
    /\ pc' = IF root /\ ~ip /\ mqtt_client # "NULL" THEN "stopping" ELSE "decide"
    /\ UNCHANGED <<listening, meshVars, knownVars, watchVars, reportVars, passVars>>

\* Mutant: a client that could not be stopped stays.
KeepClient ==
    /\ pc = "stopping"
    /\ pc' = "decide"
    /\ UNCHANGED <<nodeVars, passVars>>

\* mqtt_disconnect: once its task has ended the client is destroyed, while the handle
\* still points to it ...
ClientDestroyed ==
    /\ pc = "stopping"
    /\ mqtt_client' = "freed"
    /\ pc' = "freed"
    /\ UNCHANGED <<mqtt_connected, listening, budget, meshVars, knownVars, watchVars,
                   reportVars, passVars>>

\* Mutant: only the flag is cleared.
FlagCleared ==
    /\ pc = "freed"
    /\ mqtt_connected' = FALSE
    /\ pc' = "decide"
    /\ UNCHANGED <<mqtt_client, listening, budget, meshVars, knownVars, watchVars,
                   reportVars, passVars>>

\* ... until it and the flag are cleared.
ClientCleared ==
    /\ pc = "freed"
    /\ mqtt_client' = "NULL"
    /\ mqtt_connected' = FALSE
    /\ pc' = "decide"
    /\ UNCHANGED <<listening, budget, meshVars, knownVars, watchVars, reportVars,
                   passVars>>

\* Mutant: an attempt to connect counts as being attached.
ReconnectRenewing ==
    /\ pc = "detached"
    /\ IF Due(last_mesh_attached_ms, ReconnectAfter)
       THEN /\ has_current_root_addr' = FALSE
            /\ last_mesh_reconnect_attempt_ms' = lag
            /\ last_mesh_attached_ms' = lag
       ELSE UNCHANGED <<has_current_root_addr, watchVars>>
    /\ pc' = "restart"
    /\ UNCHANGED <<mesh_initialized, unstopped, meshVars, serviceVars, reportVars, passVars>>

\* Detached for long enough: the mesh is asked to connect again.
Reconnect ==
    /\ pc = "detached"
    /\ IF /\ Due(last_mesh_attached_ms, ReconnectAfter)
          /\ Due(last_mesh_reconnect_attempt_ms, ReconnectAfter)
       THEN /\ has_current_root_addr' = FALSE
            /\ last_mesh_reconnect_attempt_ms' = lag
       ELSE UNCHANGED <<has_current_root_addr, last_mesh_reconnect_attempt_ms>>
    /\ pc' = "restart"
    /\ UNCHANGED <<mesh_initialized, unstopped, last_mesh_attached_ms, meshVars, serviceVars,
                   reportVars, passVars>>

NoRestart ==
    /\ pc = "restart"
    /\ ~Due(last_mesh_attached_ms, RestartAfter)
    /\ pc' = "decide"
    /\ UNCHANGED <<nodeVars, passVars>>

\* The mesh is marked as not initialised and esp_mesh_stop called, which posts
\* MESH_EVENT_STOPPED. That it fails is logged and no more: the stack runs on.
StopMesh ==
    /\ has_current_root_addr' = FALSE
    /\ mesh_initialized' = FALSE
    /\ \/ /\ stack' = IF stack = "running" THEN "idle" ELSE stack
          /\ stopped_event' = (stack = "running")
          /\ attached' = FALSE
          /\ root' = FALSE
          /\ UNCHANGED <<budget, unstopped>>
       \/ /\ stack = "running"
          /\ Spend("failure")
          /\ unstopped' = TRUE
          /\ UNCHANGED <<stack, stopped_event, attached, root>>
    /\ UNCHANGED <<ip, gone, listening, watchVars, mqttVars, reportVars, passVars>>

\* Mutant: the stack is restarted as soon as a reconnection is due.
RestartEarly ==
    /\ pc = "restart"
    /\ Due(last_mesh_attached_ms, ReconnectAfter)
    /\ StopMesh
    /\ pc' = "delay"

\* Detached for longer still: the stack is to be stopped and started again.
Restart ==
    /\ pc = "restart"
    /\ Due(last_mesh_attached_ms, RestartAfter)
    /\ StopMesh
    /\ pc' = "delay"

\* Mutant: the stack is started again without a delay.
RestartedAtOnce ==
    /\ pc = "delay"
    /\ MeshInit
    /\ last_mesh_attached_ms' = lag
    /\ last_mesh_reconnect_attempt_ms' = lag
    /\ Request
    /\ pc' = "decide"
    /\ UNCHANGED <<attached, root, ip, stopped_event, gone, has_current_root_addr,
                   unstopped, listening, mqttVars, passVars>>

\* The delay of 500 ms is over, in which the event has been handled.
Restarted ==
    /\ pc = "delay"
    /\ ~stopped_event
    /\ MeshInit
    /\ last_mesh_attached_ms' = lag
    /\ last_mesh_reconnect_attempt_ms' = lag
    /\ Request
    /\ pc' = "decide"
    /\ UNCHANGED <<attached, root, ip, stopped_event, gone, has_current_root_addr,
                   unstopped, listening, mqttVars, passVars>>
-----------------------------------------------------------------------------
(* The main loop: the report. *)

\* update_state may or may not change what is worth a report.
Decide ==
    /\ pc = "decide"
    /\ \E changed \in BOOLEAN :
           due' = (IF changed THEN {"changed"} ELSE {})
                  \cup (IF Due(last_mesh_state_publish, PublishInterval) THEN {"periodic"} ELSE {})
                  \cup (IF publish_requested THEN {"requested"} ELSE {})
    /\ pc' = "report"
    /\ UNCHANGED <<lag, last_mesh_health_check_ms, served, nodeVars>>

\* Mutant: the request is cleared whether or not it has been seen.
ReportForgetting ==
    /\ pc = "report"
    /\ last_mesh_state_publish' = lag
    /\ publish_requested' = FALSE
    /\ owed' = IF due = {} THEN owed
               ELSE owed \ ({"state"} \cup (IF due = {"changed"} THEN {} ELSE {"topology"}))
    /\ due' = {}
    /\ pc' = "accept"
    /\ UNCHANGED <<lag, last_mesh_health_check_ms, served, meshVars, knownVars,
                   watchVars, serviceVars>>

\* Mutant: the periodic report is one of the state only.
ReportStateOnly ==
    /\ pc = "report"
    /\ IF due = {} THEN UNCHANGED reportVars
       ELSE /\ last_mesh_state_publish' = lag
            /\ publish_requested' = FALSE
            /\ owed' = owed \ ({"state"} \cup
                               (IF "requested" \notin due THEN {} ELSE {"topology"}))
    /\ due' = {}
    /\ pc' = "accept"
    /\ UNCHANGED <<lag, last_mesh_health_check_ms, served, meshVars, knownVars,
                   watchVars, serviceVars>>

\* A report of the state, and of the topology unless only the state has changed. A
\* request that comes between the two steps is forgotten with the ones before: the
\* state it is owed is sent here, the topology may not be.
Report ==
    /\ pc = "report"
    /\ IF due = {} THEN UNCHANGED reportVars
       ELSE /\ last_mesh_state_publish' = lag
            /\ publish_requested' = FALSE
            /\ owed' = owed \ ({"state"} \cup
                               (IF due = {"changed"} THEN {} ELSE {"topology"}))
    /\ due' = {}
    /\ pc' = "accept"
    /\ UNCHANGED <<lag, last_mesh_health_check_ms, served, meshVars, knownVars,
                   watchVars, serviceVars>>

\* No client is waiting at the TCP server ...
NoTcpClient ==
    /\ pc = "accept"
    /\ pc' = "sleep"
    /\ UNCHANGED <<nodeVars, passVars>>

\* ... or one is, and the loop reads its commands ...
TcpAccept ==
    /\ pc = "accept"
    /\ listening
    /\ Spend("tcp")
    /\ served' = TRUE
    /\ pc' = "tcp"
    /\ UNCHANGED <<lag, due, last_mesh_health_check_ms, listening, meshVars, knownVars,
                   watchVars, mqttVars, reportVars>>

\* ... until it closes the connection.
TcpClose ==
    /\ pc = "tcp"
    /\ pc' = "sleep"
    /\ UNCHANGED <<nodeVars, passVars>>
-----------------------------------------------------------------------------
\* A tick of the clock. A pass takes at most MaxLag of them, but for a TCP client.
Tick ==
    /\ lag < MaxLag \/ pc = "tcp"
    /\ lag' = IF pc = "tcp" THEN lag ELSE lag + 1
    /\ gone' = IF attached THEN 0 ELSE Older(gone, RestartAfter)
    /\ last_mesh_attached_ms' = Older(last_mesh_attached_ms, RestartAfter)
    /\ last_mesh_reconnect_attempt_ms' = Older(last_mesh_reconnect_attempt_ms, ReconnectAfter)
    /\ last_mesh_health_check_ms' = Older(last_mesh_health_check_ms, CheckInterval)
    /\ last_mesh_state_publish' = Older(last_mesh_state_publish, PublishInterval)
    /\ UNCHANGED <<pc, due, served, stack, attached, root, ip, stopped_event,
                   publish_requested, owed, knownVars, serviceVars>>

MeshEvent ==
    \/ \E asRoot \in BOOLEAN : ParentConnected(asRoot)
    \/ RootAddress \/ ParentDisconnected \/ LayerChange \/ OtherMeshEvent \/ MeshStopped

OtherEvent == GotIp \/ LostIp \/ MqttConnected \/ MqttDisconnected

Health ==
    \/ Wake \/ NoCheck \/ RetryInit \/ ReadLayer \/ CheckRoot
    \/ ClientDestroyed \/ ClientCleared
    \/ Reconnect \/ NoRestart \/ Restart \/ Restarted

Reporting == Decide \/ Report \/ NoTcpClient \/ TcpAccept \/ TcpClose

MainLoop == Health \/ Reporting

Next == MeshEvent \/ OtherEvent \/ MainLoop \/ Tick

Spec == Init /\ [][Next]_vars

\* The loop and the clock go on, a posted event is handled, TCP clients close.
FairSpec == Spec /\ WF_vars(MainLoop) /\ WF_vars(Tick) /\ WF_vars(MeshStopped)
-----------------------------------------------------------------------------
(* What must hold. *)

Ages(limit) == 0 .. Cap(limit)

\* Types of the variables; the handle points to a freed client in mqtt_disconnect only.
TypeOK ==
    /\ stack \in {"none", "idle", "running"}
    /\ {attached, root, ip, stopped_event, mesh_initialized, has_current_root_addr,
        publish_requested, listening, mqtt_connected, served, unstopped} \subseteq BOOLEAN
    /\ owed \subseteq {"state", "topology"}
    /\ last_mesh_attached_ms \in Ages(RestartAfter) \cup {Never}
    /\ last_mesh_reconnect_attempt_ms \in Ages(ReconnectAfter) \cup {Never}
    /\ last_mesh_health_check_ms \in Ages(CheckInterval)
    /\ last_mesh_state_publish \in Ages(PublishInterval)
    /\ gone \in Ages(RestartAfter)
    /\ mqtt_client \in IF pc = "freed" THEN {"freed"} ELSE {"NULL", "running"}
    /\ pc \in {"sleep", "health", "attached", "stopping", "freed", "detached", "restart",
              "delay", "decide", "report", "accept", "tcp"}
    /\ lag \in 0 .. MaxLag
    /\ due \subseteq {"changed", "periodic", "requested"}
    /\ budget \in [{"failure", "tcp"} -> Nat]

\* docs/architecture.md:83: a node that has lost its parent, by whatever event or by
\* its own watchdog, has no root address cached.
ForgetsRoot == has_current_root_addr => attached

\* The stack is not restarted before the node has been detached for the grace period,
\* but for the time between two checks, which is the interval and what is left of two
\* passes, although last_mesh_attached_ms is set by two tasks. Two cases are excepted: a
\* TCP client has kept the loop from checking, and the node has been attached since the
\* loop read its clock.
RestartGrace ==
    [][Restart => \/ gone + CheckInterval + 2 * MaxLag > RestartAfter
                  \/ served
                  \/ last_mesh_attached_ms < lag]_vars

\* A mesh that runs is known to run, unless stopping it has failed: MESH_EVENT_STOPPED
\* of the stop before does not hit the new start, after which check_mesh_health would
\* never look again.
KnownToRun == stack = "running" /\ ~unstopped => mesh_initialized

\* The watchdog gives up in one case only, when the stack cannot be stopped. Otherwise
\* a node that stays detached restarts its stack again and again, whatever other calls
\* fail and however often the mesh calls itself attached for a moment less than that.
WatchdogActs == []<>attached \/ []<><<Restart>>_vars \/ <>unstopped

\* docs/architecture.md:85: a root that has its address (back) gets a client, also
\* when the address comes while the old client is being destroyed ...
ClientComesBack ==
    <>[](attached /\ root /\ ip /\ ~unstopped) => <>[](mqtt_client = "running")

\* ... and one that stays without is rid of it. Both are the watchdog's doing, so
\* both fail with it.
ClientPauses ==
    <>[](attached /\ root /\ ~ip /\ ~unstopped)
        => <>[](mqtt_client = "NULL" /\ ~mqtt_connected)

\* Every request for a report is followed by one of the state, although the flag is
\* read in one step and cleared in a later one.
RequestsServed == "state" \in owed ~> "state" \notin owed

\* The topology such a request is owed may go with a report that was due to a change
\* alone. It comes with the next periodic report then, which only changes of the
\* state without end can put off for ever.
TopologyServed ==
    []<>("changed" \in due) \/ ("topology" \in owed ~> "topology" \notin owed)
=============================================================================
