-------------------------- MODULE MeshBridge_proofs --------------------------
(* Theorems about MeshBridge, for any intervals, any number of failing calls and *)
(* of TCP clients, and any time a pass of the main loop takes.                   *)
EXTENDS MeshBridge, TLAPS

LEMMA AgesGrow ==
    ASSUME NEW limit \in Nat, NEW age \in Ages(limit) \cup {Never}
    PROVE  /\ Older(age, limit) \in Ages(limit) \cup {Never}
           /\ age # Never => Older(age, limit) \in Ages(limit)
<1>1. MaxLag \in Nat
  BY BoundAssumption
<1>2. CASE age = Never
  BY <1>2 DEF Older
<1>3. CASE age # Never
  <2>1. age \in 0 .. limit + MaxLag
    BY <1>3 DEF Ages, Cap
  <2>2. Older(age, limit) = IF age < limit + MaxLag THEN age + 1 ELSE age
    BY <1>3 DEF Older, Cap
  <2>3. (IF age < limit + MaxLag THEN age + 1 ELSE age) \in 0 .. limit + MaxLag
    BY <1>1, <2>1
  <2> QED BY <2>2, <2>3 DEF Ages, Cap
<1> QED BY <1>2, <1>3

LEMMA LagIsAnAge ==
    ASSUME NEW limit \in Nat, NEW l \in 0 .. MaxLag
    PROVE  l \in Ages(limit)
BY BoundAssumption DEF Ages, Cap

\* An age is a number, so none is below the loop's now and Never at once.
LEMMA AgesAreNumbers ==
    ASSUME NEW limit \in Nat
    PROVE  Ages(limit) \subseteq Nat /\ Never \notin Ages(limit) /\ 0 \in Ages(limit)
BY BoundAssumption, NeverAssumption DEF Ages, Cap
-----------------------------------------------------------------------------
(* The parts of TypeOK, by what changes together. *)

MeshTypes ==
    /\ stack \in {"none", "idle", "running"}
    /\ attached \in BOOLEAN /\ root \in BOOLEAN /\ ip \in BOOLEAN
    /\ stopped_event \in BOOLEAN
    /\ mesh_initialized \in BOOLEAN /\ has_current_root_addr \in BOOLEAN
    /\ unstopped \in BOOLEAN

AgeTypes ==
    /\ last_mesh_attached_ms \in Ages(RestartAfter) \cup {Never}
    /\ last_mesh_reconnect_attempt_ms \in Ages(ReconnectAfter) \cup {Never}
    /\ last_mesh_health_check_ms \in Ages(CheckInterval)
    /\ last_mesh_state_publish \in Ages(PublishInterval)
    /\ gone \in Ages(RestartAfter)
    /\ lag \in 0 .. MaxLag

ServiceTypes ==
    /\ listening \in BOOLEAN /\ mqtt_connected \in BOOLEAN
    /\ mqtt_client \in IF pc = "freed" THEN {"freed"} ELSE {"NULL", "running"}
    /\ budget \in [{"failure", "tcp"} -> Nat]

LoopTypes ==
    /\ pc \in {"sleep", "health", "attached", "stopping", "freed", "detached", "restart",
              "delay", "decide", "report", "accept", "tcp"}
    /\ publish_requested \in BOOLEAN /\ served \in BOOLEAN
    /\ owed \subseteq {"state", "topology"}
    /\ due \subseteq {"changed", "periodic", "requested"}

Types == MeshTypes /\ AgeTypes /\ ServiceTypes /\ LoopTypes

LEMMA TypesAreTypeOK == Types => TypeOK
BY DEF Types, TypeOK, MeshTypes, AgeTypes, ServiceTypes, LoopTypes

LEMMA Spent ==
    ASSUME ServiceTypes, NEW what \in {"failure", "tcp"}, Spend(what)
    PROVE  budget' \in [{"failure", "tcp"} -> Nat]
<1>1. budget \in [{"failure", "tcp"} -> Nat] /\ budget[what] > 0
  BY DEF ServiceTypes, Spend
<1>2. budget[what] - 1 \in Nat
  BY <1>1
<1> QED BY <1>1, <1>2 DEF Spend

LEMMA MeshInitTypes ==
    ASSUME MeshTypes, ServiceTypes, MeshInit
    PROVE  /\ stack' \in {"none", "idle", "running"} /\ mesh_initialized' \in BOOLEAN
           /\ budget' \in [{"failure", "tcp"} -> Nat]
<1>1. CASE UNCHANGED budget
  BY <1>1 DEF MeshInit, MeshTypes, ServiceTypes
<1>2. CASE Spend("failure")
  BY <1>2, Spent DEF MeshInit, MeshTypes
<1> QED BY <1>1, <1>2 DEF MeshInit

LEMMA MqttInitTypes ==
    ASSUME ServiceTypes, MqttInit
    PROVE  /\ mqtt_connected' \in BOOLEAN
           /\ mqtt_client' \in IF pc = "freed" THEN {"freed"} ELSE {"NULL", "running"}
           /\ budget' \in [{"failure", "tcp"} -> Nat]
<1>1. CASE mqtt_client = "NULL" /\ mqtt_client' = "running"
           /\ UNCHANGED <<mqtt_connected, budget>>
  BY <1>1 DEF ServiceTypes
<1>2. CASE mqtt_client = "NULL" /\ Spend("failure") /\ UNCHANGED mqttVars
  BY <1>2, Spent DEF ServiceTypes, mqttVars
<1>3. CASE UNCHANGED <<budget, mqttVars>>
  BY <1>3 DEF ServiceTypes, mqttVars
<1> QED BY <1>1, <1>2, <1>3 DEF MqttInit
-----------------------------------------------------------------------------
(* One lemma for each part: the steps that can disturb it. *)

LEMMA InitTypes == Init => Types
<1> SUFFICES ASSUME Init PROVE Types
  OBVIOUS
<1>1. MeshTypes /\ LoopTypes
  BY DEF Init, MeshTypes, LoopTypes
<1>2. AgeTypes
  BY IntervalAssumption, BoundAssumption, AgesAreNumbers DEF Init, AgeTypes
<1>3. ServiceTypes
  BY BoundAssumption DEF Init, ServiceTypes
<1> QED BY <1>1, <1>2, <1>3 DEF Types

LEMMA EventTypes ==
    ASSUME Types, MeshEvent \/ OtherEvent
    PROVE  Types'
<1> USE DEF meshVars, knownVars, watchVars, mqttVars, serviceVars, reportVars, passVars
<1>0. MeshTypes /\ AgeTypes /\ ServiceTypes /\ LoopTypes
  BY DEF Types
<1>1. 0 \in Ages(RestartAfter)
  BY IntervalAssumption, AgesAreNumbers
<1>2. ASSUME NEW asRoot \in BOOLEAN, ParentConnected(asRoot)
      PROVE  Types'
  <2>1. MeshTypes' /\ AgeTypes' /\ LoopTypes'
    BY <1>0, <1>1, <1>2 DEF ParentConnected, Request, MeshTypes, AgeTypes, LoopTypes
  <2>2. CASE asRoot /\ ip
    <3>1. MqttInit /\ TcpServerStart /\ pc' = pc
      BY <1>2, <2>2 DEF ParentConnected
    <3> QED BY <1>0, <2>1, <3>1, MqttInitTypes DEF Types, ServiceTypes, TcpServerStart
  <2>3. CASE asRoot /\ ~ip
    BY <1>0, <1>2, <2>1, <2>3 DEF Types, ParentConnected, TcpServerStart, ServiceTypes
  <2>4. CASE ~asRoot
    BY <1>0, <1>2, <2>1, <2>4 DEF Types, ParentConnected, ServiceTypes
  <2> QED BY <1>0, <2>2, <2>3, <2>4 DEF MeshTypes
<1>3. CASE RootAddress
  BY <1>0, <1>3 DEF Types,
         RootAddress, Request, MeshTypes, AgeTypes, ServiceTypes, LoopTypes
<1>4. CASE ParentDisconnected
  <2>1. MeshTypes'
    BY <1>0, <1>4 DEF ParentDisconnected, Request, MeshTypes
  <2>2. AgeTypes'
    BY <1>0, <1>4 DEF ParentDisconnected, Request, AgeTypes
  <2>3. ServiceTypes'
    BY <1>0, <1>4 DEF ParentDisconnected, Request, ServiceTypes
  <2>4. LoopTypes'
    BY <1>0, <1>4 DEF ParentDisconnected, Request, LoopTypes
  <2> QED BY <2>1, <2>2, <2>3, <2>4 DEF Types
<1>5. CASE LayerChange
  BY <1>0, <1>1, <1>5 DEF Types,
         LayerChange, Request, MeshTypes, AgeTypes, ServiceTypes, LoopTypes
<1>6. CASE OtherMeshEvent
  BY <1>0, <1>6 DEF Types,
         OtherMeshEvent, Request, MeshTypes, AgeTypes, ServiceTypes, LoopTypes
<1>7. CASE MeshStopped
  <2>1. MeshTypes'
    BY <1>0, <1>7 DEF MeshStopped, Request, MeshTypes
  <2>2. AgeTypes'
    BY <1>0, <1>7 DEF MeshStopped, Request, AgeTypes
  <2>3. ServiceTypes'
    BY <1>0, <1>7 DEF MeshStopped, Request, ServiceTypes
  <2>4. LoopTypes'
    BY <1>0, <1>7 DEF MeshStopped, Request, LoopTypes
  <2> QED BY <2>1, <2>2, <2>3, <2>4 DEF Types
<1>8. CASE GotIp
  <2>1. MeshTypes' /\ AgeTypes' /\ LoopTypes'
    BY <1>0, <1>8 DEF GotIp, Request, MeshTypes, AgeTypes, LoopTypes
  <2>2. MqttInit /\ TcpServerStart /\ pc' = pc
    BY <1>8 DEF GotIp
  <2> QED BY <1>0, <2>1, <2>2, MqttInitTypes DEF Types, ServiceTypes, TcpServerStart
<1>9. CASE LostIp
  <2>1. MeshTypes'
    BY <1>0, <1>9 DEF LostIp, MeshTypes
  <2>2. AgeTypes'
    BY <1>0, <1>9 DEF LostIp, AgeTypes
  <2>3. ServiceTypes'
    BY <1>0, <1>9 DEF LostIp, ServiceTypes
  <2>4. LoopTypes'
    BY <1>0, <1>9 DEF LostIp, LoopTypes
  <2> QED BY <2>1, <2>2, <2>3, <2>4 DEF Types
<1>10. CASE MqttConnected \/ MqttDisconnected
  <2>1. MeshTypes'
    BY <1>0, <1>10 DEF MqttConnected, MqttDisconnected, MeshTypes
  <2>2. AgeTypes'
    BY <1>0, <1>10 DEF MqttConnected, MqttDisconnected, AgeTypes
  <2>3. ServiceTypes'
    BY <1>0, <1>10 DEF MqttConnected, MqttDisconnected, ServiceTypes
  <2>4. LoopTypes'
    BY <1>0, <1>10 DEF MqttConnected, MqttDisconnected, LoopTypes
  <2> QED BY <2>1, <2>2, <2>3, <2>4 DEF Types
<1> QED BY <1>2, <1>3, <1>4, <1>5, <1>6, <1>7, <1>8, <1>9, <1>10 DEF MeshEvent, OtherEvent

LEMMA HealthTypes ==
    ASSUME Types, Health
    PROVE  Types'
<1> USE DEF meshVars, knownVars, watchVars, mqttVars, serviceVars, reportVars, passVars,
            nodeVars
<1>0. MeshTypes /\ AgeTypes /\ ServiceTypes /\ LoopTypes
  BY DEF Types
<1>1. /\ lag \in Ages(RestartAfter) /\ lag \in Ages(ReconnectAfter)
      /\ lag \in Ages(CheckInterval) /\ 0 \in 0 .. MaxLag
  BY <1>0, IntervalAssumption, BoundAssumption, LagIsAnAge DEF AgeTypes
<1>2. CASE Wake \/ NoCheck \/ NoRestart
  <2>1. MeshTypes'
    BY <1>0, <1>1, <1>2 DEF Wake, NoCheck, NoRestart, MeshTypes
  <2>2. AgeTypes'
    BY <1>0, <1>1, <1>2 DEF Wake, NoCheck, NoRestart, AgeTypes
  <2>3. ServiceTypes'
    BY <1>0, <1>1, <1>2 DEF Wake, NoCheck, NoRestart, ServiceTypes
  <2>4. LoopTypes'
    BY <1>0, <1>1, <1>2 DEF Wake, NoCheck, NoRestart, LoopTypes
  <2> QED BY <2>1, <2>2, <2>3, <2>4 DEF Types
<1>3. CASE RetryInit
  <2>1. AgeTypes' /\ LoopTypes'
    BY <1>0, <1>1, <1>3 DEF RetryInit, AgeTypes, LoopTypes
  <2>2. MeshInit /\ pc # "freed" /\ pc' # "freed"
    BY <1>3 DEF RetryInit
  <2>3. MeshTypes' /\ ServiceTypes'
    BY <1>0, <1>3, <2>2, MeshInitTypes DEF RetryInit, MeshTypes, ServiceTypes
  <2> QED BY <2>1, <2>3 DEF Types
<1>4. CASE ReadLayer
  <2>1. AgeTypes'
    BY <1>0, <1>1, <1>4 DEF ReadLayer, AgeTypes
  <2>2. MeshTypes' /\ LoopTypes'
    BY <1>0, <1>4 DEF ReadLayer, MeshTypes, LoopTypes
  <2>3. ServiceTypes'
    BY <1>0, <1>4 DEF ReadLayer, ServiceTypes
  <2> QED BY <2>1, <2>2, <2>3 DEF Types
<1>5. CASE CheckRoot
  <2>1. MeshTypes' /\ AgeTypes' /\ LoopTypes'
    BY <1>0, <1>5 DEF CheckRoot, MeshTypes, AgeTypes, LoopTypes
  <2>2. pc # "freed" /\ pc' # "freed" /\ UNCHANGED listening
    BY <1>5 DEF CheckRoot
  <2>3. CASE MqttInit
    BY <1>0, <2>1, <2>2, <2>3, MqttInitTypes DEF Types, ServiceTypes
  <2>4. CASE UNCHANGED <<budget, mqttVars>>
    BY <1>0, <2>1, <2>2, <2>4 DEF Types, ServiceTypes
  <2> QED BY <1>5, <2>3, <2>4 DEF CheckRoot
<1>6. CASE ClientDestroyed \/ ClientCleared
  <2>1. MeshTypes'
    BY <1>0, <1>6 DEF ClientDestroyed, ClientCleared, MeshTypes
  <2>2. AgeTypes'
    BY <1>0, <1>6 DEF ClientDestroyed, ClientCleared, AgeTypes
  <2>3. ServiceTypes'
    BY <1>0, <1>6 DEF ClientDestroyed, ClientCleared, ServiceTypes
  <2>4. LoopTypes'
    BY <1>0, <1>6 DEF ClientDestroyed, ClientCleared, LoopTypes
  <2> QED BY <2>1, <2>2, <2>3, <2>4 DEF Types
<1>7. CASE Reconnect
  <2>1. MeshTypes'
    BY <1>0, <1>1, <1>7 DEF Reconnect, MeshTypes
  <2>2. AgeTypes'
    BY <1>0, <1>1, <1>7 DEF Reconnect, AgeTypes
  <2>3. ServiceTypes'
    BY <1>0, <1>1, <1>7 DEF Reconnect, ServiceTypes
  <2>4. LoopTypes'
    BY <1>0, <1>1, <1>7 DEF Reconnect, LoopTypes
  <2> QED BY <2>1, <2>2, <2>3, <2>4 DEF Types
<1>8. CASE Restart
  <2>1. StopMesh /\ pc = "restart" /\ pc' = "delay"
    BY <1>8 DEF Restart
  <2>2. MeshTypes' /\ AgeTypes' /\ LoopTypes'
    BY <1>0, <2>1 DEF StopMesh, MeshTypes, AgeTypes, LoopTypes
  <2>3. budget' \in [{"failure", "tcp"} -> Nat]
    BY <1>0, <2>1, Spent DEF StopMesh, ServiceTypes
  <2>4. ServiceTypes'
    BY <1>0, <2>1, <2>3 DEF StopMesh, ServiceTypes
  <2> QED BY <2>2, <2>4 DEF Types
<1>9. CASE Restarted
  <2>1. AgeTypes' /\ LoopTypes'
    BY <1>0, <1>1, <1>9 DEF Restarted, Request, AgeTypes, LoopTypes
  <2>2. MeshInit /\ pc # "freed" /\ pc' # "freed"
    BY <1>9 DEF Restarted
  <2>3. MeshTypes' /\ ServiceTypes'
    BY <1>0, <1>9, <2>2, MeshInitTypes DEF Restarted, MeshTypes, ServiceTypes
  <2> QED BY <2>1, <2>3 DEF Types
<1> QED BY <1>2, <1>3, <1>4, <1>5, <1>6, <1>7, <1>8, <1>9 DEF Health

LEMMA ReportingTypes ==
    ASSUME Types, Reporting
    PROVE  Types'
<1> USE DEF meshVars, knownVars, watchVars, mqttVars, serviceVars, reportVars, passVars,
            nodeVars
<1>0. MeshTypes /\ AgeTypes /\ ServiceTypes /\ LoopTypes
  BY DEF Types
<1>1. lag \in Ages(PublishInterval)
  BY <1>0, IntervalAssumption, LagIsAnAge DEF AgeTypes
<1>2. CASE Decide
  BY <1>0, <1>2 DEF Types, Decide, MeshTypes, AgeTypes, ServiceTypes, LoopTypes
<1>3. CASE Report
  <2>1. MeshTypes'
    BY <1>0, <1>1, <1>3 DEF Report, MeshTypes
  <2>2. AgeTypes'
    BY <1>0, <1>1, <1>3 DEF Report, AgeTypes
  <2>3. ServiceTypes'
    BY <1>0, <1>1, <1>3 DEF Report, ServiceTypes
  <2>4. LoopTypes'
    BY <1>0, <1>1, <1>3 DEF Report, LoopTypes
  <2> QED BY <2>1, <2>2, <2>3, <2>4 DEF Types
<1>4. CASE NoTcpClient \/ TcpClose
  <2>1. MeshTypes'
    BY <1>0, <1>4 DEF NoTcpClient, TcpClose, MeshTypes
  <2>2. AgeTypes'
    BY <1>0, <1>4 DEF NoTcpClient, TcpClose, AgeTypes
  <2>3. ServiceTypes'
    BY <1>0, <1>4 DEF NoTcpClient, TcpClose, ServiceTypes
  <2>4. LoopTypes'
    BY <1>0, <1>4 DEF NoTcpClient, TcpClose, LoopTypes
  <2> QED BY <2>1, <2>2, <2>3, <2>4 DEF Types
<1>5. CASE TcpAccept
  <2>1. budget' \in [{"failure", "tcp"} -> Nat]
    BY <1>0, <1>5, Spent DEF TcpAccept
  <2> QED BY <1>0, <1>5, <2>1 DEF Types,
         TcpAccept, MeshTypes, AgeTypes, ServiceTypes, LoopTypes
<1> QED BY <1>2, <1>3, <1>4, <1>5 DEF Reporting

LEMMA TickTypes ==
    ASSUME Types, Tick
    PROVE  Types'
<1> USE DEF knownVars, mqttVars, serviceVars
<1>0. MeshTypes /\ AgeTypes /\ ServiceTypes /\ LoopTypes
  BY DEF Types
<1>1. /\ last_mesh_attached_ms' \in Ages(RestartAfter) \cup {Never}
      /\ last_mesh_reconnect_attempt_ms' \in Ages(ReconnectAfter) \cup {Never}
  BY <1>0, IntervalAssumption, AgesGrow DEF Tick, AgeTypes
<1>2. /\ last_mesh_health_check_ms' \in Ages(CheckInterval)
      /\ last_mesh_state_publish' \in Ages(PublishInterval)
  <2>1. last_mesh_health_check_ms # Never /\ last_mesh_state_publish # Never
    BY <1>0, IntervalAssumption, AgesAreNumbers DEF AgeTypes
  <2> QED BY <1>0, <2>1, IntervalAssumption, AgesGrow DEF Tick, AgeTypes
<1>3. gone' \in Ages(RestartAfter)
  <2>1. gone # Never /\ 0 \in Ages(RestartAfter)
    BY <1>0, IntervalAssumption, AgesAreNumbers DEF AgeTypes
  <2> QED BY <1>0, <2>1, IntervalAssumption, AgesGrow DEF Tick, AgeTypes
<1>4. lag' \in 0 .. MaxLag
  <2>1. MaxLag \in Nat /\ lag \in 0 .. MaxLag
    BY <1>0, BoundAssumption DEF AgeTypes
  <2>2. CASE pc = "tcp"
    BY <2>1, <2>2 DEF Tick
  <2>3. CASE pc # "tcp"
    BY <2>1, <2>3 DEF Tick
  <2> QED BY <2>2, <2>3
<1>5. AgeTypes'
  BY <1>1, <1>2, <1>3, <1>4 DEF AgeTypes
<1>6. MeshTypes' /\ ServiceTypes' /\ LoopTypes'
  BY <1>0 DEF Tick, MeshTypes, ServiceTypes, LoopTypes
<1> QED BY <1>5, <1>6 DEF Types

LEMMA TypesStep ==
    ASSUME Types, [Next]_vars
    PROVE  Types'
<1>1. CASE UNCHANGED vars
  BY <1>1
     DEF vars, nodeVars, meshVars, knownVars, watchVars, mqttVars, serviceVars,
         reportVars, passVars, Types, MeshTypes, AgeTypes, ServiceTypes, LoopTypes
<1>2. CASE Next
  BY <1>2, EventTypes, HealthTypes, ReportingTypes, TickTypes DEF Next, MainLoop
<1> QED BY <1>1, <1>2

\* Types, and that the handle of the MQTT client points to a freed one nowhere but
\* between its destruction and the assignment after it (mqtt_handler.cpp:
\* mqtt_disconnect), whatever fails and whenever the handlers run.
THEOREM TypeCorrect == Spec => []TypeOK
<1>1. Init => Types
  BY InitTypes
<1>2. Types /\ [Next]_vars => Types'
  BY TypesStep
<1> QED BY <1>1, <1>2, TypesAreTypeOK, PTL DEF Spec
-----------------------------------------------------------------------------
\* A node that has lost its parent has no root address cached (architecture.md:83).
THEOREM RootIsForgotten == Spec => []ForgetsRoot
<1> USE DEF meshVars, knownVars, watchVars, mqttVars, serviceVars, reportVars, passVars,
            nodeVars
<1>1. Init => ForgetsRoot
  BY DEF Init, ForgetsRoot
<1>2. ForgetsRoot /\ [Next]_vars => ForgetsRoot'
  <2> SUFFICES ASSUME ForgetsRoot, [Next]_vars PROVE ForgetsRoot'
    OBVIOUS
  <2>1. CASE MeshEvent
    BY <2>1 DEF MeshEvent, ParentConnected, RootAddress, ParentDisconnected, LayerChange,
                OtherMeshEvent, MeshStopped, ForgetsRoot
  <2>2. CASE OtherEvent
    BY <2>2 DEF OtherEvent, GotIp, LostIp, MqttConnected, MqttDisconnected, ForgetsRoot
  <2>3. CASE Health
    BY <2>3 DEF Health, Wake, NoCheck, RetryInit, ReadLayer, CheckRoot, ClientDestroyed,
                ClientCleared, Reconnect, NoRestart, Restart, StopMesh, Restarted, ForgetsRoot
  <2>4. CASE Reporting \/ Tick
    BY <2>4 DEF Reporting, Decide, Report, NoTcpClient, TcpAccept, TcpClose, Tick,
                ForgetsRoot
  <2>5. CASE UNCHANGED vars
    BY <2>5 DEF vars, ForgetsRoot
  <2> QED BY <2>1, <2>2, <2>3, <2>4, <2>5 DEF Next, MainLoop
<1> QED BY <1>1, <1>2, PTL DEF Spec

\* KnownToRun is not inductive: an event of a stop, handled late, would make a mesh
\* unknown that has been started since. It is handled before the next start.
StopIsHandled == stopped_event => pc = "delay" /\ stack # "running"

\* Once the stack could not be stopped it runs on, is taken for one that is not
\* initialised, and the loop goes past everything check_mesh_health does after that.
GivenUp ==
    unstopped =>
        /\ stack = "running" /\ ~mesh_initialized /\ ~stopped_event
        /\ pc \notin {"attached", "stopping", "freed", "detached", "restart"}

IInv == KnownToRun /\ StopIsHandled /\ GivenUp

LEMMA IInvStep ==
    ASSUME IInv, [Next]_vars
    PROVE  IInv'
<1> USE DEF meshVars, knownVars, watchVars, mqttVars, serviceVars, reportVars, passVars,
            nodeVars, IInv, KnownToRun, StopIsHandled, GivenUp
<1>1. CASE MeshEvent
  <2>1. CASE MeshStopped
    BY <2>1 DEF MeshStopped
  <2>2. ASSUME NEW asRoot \in BOOLEAN, ParentConnected(asRoot) PROVE IInv'
    BY <2>2 DEF ParentConnected
  <2>3. CASE RootAddress \/ OtherMeshEvent
    BY <2>3 DEF RootAddress, OtherMeshEvent
  <2>4. CASE ParentDisconnected
    BY <2>4 DEF ParentDisconnected
  <2>5. CASE LayerChange
    BY <2>5 DEF LayerChange
  <2> QED BY <1>1, <2>1, <2>2, <2>3, <2>4, <2>5 DEF MeshEvent
<1>2. CASE OtherEvent
  BY <1>2 DEF OtherEvent, GotIp, LostIp, MqttConnected, MqttDisconnected
<1>3. CASE RetryInit
  BY <1>3 DEF RetryInit, MeshInit
<1>4. CASE Restart
  BY <1>4 DEF Restart, StopMesh
<1>5. CASE Restarted
  BY <1>5 DEF Restarted, MeshInit
<1>6. CASE Health /\ ~RetryInit /\ ~Restart /\ ~Restarted
  BY <1>6 DEF Health, Wake, NoCheck, ReadLayer, CheckRoot, ClientDestroyed,
              ClientCleared, Reconnect, NoRestart
<1>7. CASE Reporting \/ Tick
  BY <1>7 DEF Reporting, Decide, Report, NoTcpClient, TcpAccept, TcpClose, Tick
<1>8. CASE UNCHANGED vars
  BY <1>8 DEF vars
<1> QED BY <1>1, <1>2, <1>3, <1>4, <1>5, <1>6, <1>7, <1>8 DEF Next, MainLoop

LEMMA IInvInit == Init => IInv
BY DEF Init, IInv, KnownToRun, StopIsHandled, GivenUp

\* A running mesh is known to run unless it could not be stopped (main.cpp:
\* check_mesh_health, mesh_event_handler).
THEOREM MeshKnownToRun == Spec => []KnownToRun
<1>1. IInv => KnownToRun
  BY DEF IInv
<1> QED BY <1>1, IInvInit, IInvStep, PTL DEF Spec

\* Nothing forgets that a stack could not be stopped.
LEMMA UnstoppedStays ==
    ASSUME unstopped, [Next]_vars
    PROVE  unstopped'
<1> USE DEF meshVars, knownVars, watchVars, mqttVars, serviceVars, reportVars, passVars,
            nodeVars
<1>1. CASE MeshEvent
  BY <1>1 DEF MeshEvent, ParentConnected, RootAddress, ParentDisconnected, LayerChange,
              OtherMeshEvent, MeshStopped
<1>2. CASE OtherEvent
  BY <1>2 DEF OtherEvent, GotIp, LostIp, MqttConnected, MqttDisconnected
<1>3. CASE Health
  BY <1>3 DEF Health, Wake, NoCheck, RetryInit, ReadLayer, CheckRoot, ClientDestroyed,
              ClientCleared, Reconnect, NoRestart, Restart, StopMesh, Restarted
<1>4. CASE Reporting \/ Tick
  BY <1>4 DEF Reporting, Decide, Report, NoTcpClient, TcpAccept, TcpClose, Tick
<1>5. CASE UNCHANGED vars
  BY <1>5 DEF vars
<1> QED BY <1>1, <1>2, <1>3, <1>4, <1>5 DEF Next, MainLoop

\* A watchdog that could not stop the stack never acts again: the mesh runs on and is
\* marked as not initialised for good, so every later check calls init_mesh, which
\* fails on a running stack, and looks at nothing else (main.cpp:438-442, 502-507).
THEOREM FailedStopIsForGood ==
    Spec => /\ [](unstopped => [](stack = "running" /\ ~mesh_initialized))
            /\ [][Restart => ~unstopped]_vars
<1>1. unstopped /\ [Next]_vars => unstopped'
  BY UnstoppedStays
<1>2. IInv => (unstopped => stack = "running" /\ ~mesh_initialized)
  BY DEF IInv, GivenUp
<1>3. IInv /\ [Next]_vars => [Restart => ~unstopped]_vars
  BY DEF IInv, GivenUp, Restart
<1> QED BY <1>1, <1>2, <1>3, IInvInit, IInvStep, PTL DEF Spec
-----------------------------------------------------------------------------
(* The grace period. The invariant follows the age of last_mesh_attached_ms: in an *)
(* attached node it is bounded by where the loop is between two checks, in a       *)
(* detached one by the time since then.                                            *)

AttachedRuns ==
    /\ attached => stack = "running" /\ gone = 0
    /\ pc = "delay" => stack # "running"
    /\ pc = "tcp" => served
    /\ pc \in {"detached", "restart"} => last_mesh_attached_ms # Never

\* The time noted is not older than the check before, unless that is due.
NotedSinceCheck ==
    attached =>
        /\ last_mesh_attached_ms # Never
        /\ \/ last_mesh_attached_ms <= last_mesh_health_check_ms
           \/ last_mesh_health_check_ms = Cap(CheckInterval)

NotedWhileAttached ==
    attached /\ ~served =>
        last_mesh_attached_ms <
            CheckInterval + lag + (IF pc = "health" THEN MaxLag ELSE 0)

NotedBeforeLoss ==
    /\ ~attached
    /\ last_mesh_attached_ms # Never
    /\ ~served \/ (~mesh_initialized /\ pc # "delay")
    => last_mesh_attached_ms < gone + CheckInterval + 2 * MaxLag

Noted == AttachedRuns /\ NotedSinceCheck /\ NotedWhileAttached /\ NotedBeforeLoss

GraceInv == Types /\ IInv /\ (~unstopped => Noted)

\* What the types and the assumptions say, as arithmetic.
LEMMA Numbers ==
    ASSUME Types
    PROVE  /\ CheckInterval \in Nat /\ CheckInterval > 0
           /\ RestartAfter \in Nat /\ MaxLag \in Nat
           /\ lag \in Nat /\ lag <= MaxLag
           /\ gone \in Nat /\ gone <= RestartAfter + MaxLag
           /\ last_mesh_health_check_ms \in Nat
           /\ last_mesh_health_check_ms <= Cap(CheckInterval)
           /\ Cap(CheckInterval) = CheckInterval + MaxLag
           /\ last_mesh_attached_ms # Never =>
                  /\ last_mesh_attached_ms \in Nat
                  /\ last_mesh_attached_ms <= RestartAfter + MaxLag
<1>1. /\ CheckInterval \in Nat /\ CheckInterval > 0 /\ RestartAfter \in Nat
      /\ MaxLag \in Nat
  BY IntervalAssumption, BoundAssumption
<1>2. AgeTypes
  BY DEF Types
<1>3. lag \in Nat /\ lag <= MaxLag
  BY <1>1, <1>2 DEF AgeTypes
<1>4. /\ gone \in 0 .. RestartAfter + MaxLag
      /\ last_mesh_health_check_ms \in 0 .. CheckInterval + MaxLag
      /\ last_mesh_attached_ms # Never =>
             last_mesh_attached_ms \in 0 .. RestartAfter + MaxLag
  BY <1>2 DEF AgeTypes, Ages, Cap
<1> QED BY <1>1, <1>3, <1>4 DEF Cap

LEMMA NeverIsNoAge == Never \notin Nat /\ 0 # Never
BY NeverAssumption

\* A step that changes nothing the invariant speaks of but where the loop is.
Quiet ==
    /\ UNCHANGED <<stack, attached, gone, mesh_initialized, last_mesh_attached_ms,
                   last_mesh_health_check_ms, lag, served>>
    /\ \/ pc' = pc
       \/ /\ pc \notin {"health", "delay"} /\ pc' \notin {"health", "delay", "tcp"}
          /\ pc' \in {"detached", "restart"} => pc \in {"detached", "restart"}

LEMMA QuietSteps ==
    ASSUME \/ RootAddress \/ OtherMeshEvent \/ OtherEvent \/ CheckRoot \/ ClientDestroyed
           \/ ClientCleared \/ Reconnect \/ NoRestart \/ Decide \/ Report \/ NoTcpClient
           \/ TcpClose \/ UNCHANGED vars
    PROVE  Quiet
<1> USE DEF meshVars, knownVars, watchVars, mqttVars, serviceVars, reportVars, passVars,
            nodeVars, Quiet
<1>1. CASE RootAddress \/ OtherMeshEvent
  BY <1>1 DEF RootAddress, OtherMeshEvent
<1>2. CASE OtherEvent
  BY <1>2 DEF OtherEvent, GotIp, LostIp, MqttConnected, MqttDisconnected
<1>3. CASE CheckRoot
  BY <1>3 DEF CheckRoot
<1>4. CASE ClientDestroyed \/ ClientCleared
  BY <1>4 DEF ClientDestroyed, ClientCleared
<1>5. CASE Reconnect
  BY <1>5 DEF Reconnect
<1>6. CASE NoRestart
  BY <1>6 DEF NoRestart
<1>7. CASE Decide \/ Report
  BY <1>7 DEF Decide, Report
<1>8. CASE NoTcpClient \/ TcpClose
  BY <1>8 DEF NoTcpClient, TcpClose
<1>9. CASE UNCHANGED vars
  BY <1>9 DEF vars
<1> QED BY <1>1, <1>2, <1>3, <1>4, <1>5, <1>6, <1>7, <1>8, <1>9

LEMMA QuietGrace ==
    ASSUME GraceInv, ~unstopped, Quiet
    PROVE  AttachedRuns' /\ NotedSinceCheck' /\ NotedWhileAttached' /\ NotedBeforeLoss'
<1> USE DEF GraceInv, Quiet, Noted
<1>1. AttachedRuns'
  BY DEF AttachedRuns
<1>2. NotedSinceCheck'
  BY DEF NotedSinceCheck, Cap
<1>3. NotedWhileAttached'
  BY DEF NotedWhileAttached
<1>4. NotedBeforeLoss'
  BY DEF NotedBeforeLoss
<1> QED BY <1>1, <1>2, <1>3, <1>4

LEMMA EventGrace ==
    ASSUME GraceInv, ~unstopped, MeshEvent
    PROVE  Noted'
<1> USE DEF meshVars, knownVars, watchVars, mqttVars, serviceVars, reportVars, passVars
<1>0. /\ Noted /\ KnownToRun /\ StopIsHandled
      /\ CheckInterval \in Nat /\ CheckInterval > 0 /\ MaxLag \in Nat
      /\ lag \in Nat /\ lag <= MaxLag /\ gone \in Nat
      /\ last_mesh_health_check_ms \in Nat
      /\ last_mesh_attached_ms # Never => last_mesh_attached_ms \in Nat
  BY Numbers DEF GraceInv, Noted, IInv
<1>1. ASSUME NEW asRoot \in BOOLEAN, ParentConnected(asRoot) PROVE Noted'
  <2>1. AttachedRuns'
    BY <1>0, <1>1, NeverIsNoAge DEF ParentConnected, Noted, AttachedRuns
  <2>2. NotedSinceCheck'
    BY <1>0, <1>1, NeverIsNoAge DEF ParentConnected, Noted, NotedSinceCheck
  <2>3. NotedWhileAttached'
    BY <1>0, <1>1, NeverIsNoAge DEF ParentConnected, Noted, NotedWhileAttached
  <2>4. NotedBeforeLoss'
    BY <1>0, <1>1, NeverIsNoAge DEF ParentConnected, Noted, NotedBeforeLoss
  <2> QED BY <2>1, <2>2, <2>3, <2>4 DEF Noted
<1>2. CASE ParentDisconnected
  <2>1. AttachedRuns'
    BY <1>0, <1>2 DEF ParentDisconnected, Noted, AttachedRuns
  <2>2. NotedSinceCheck'
    BY <1>0, <1>2 DEF ParentDisconnected, Noted, NotedSinceCheck, AttachedRuns
  <2>3. NotedWhileAttached'
    BY <1>0, <1>2 DEF ParentDisconnected, Noted, NotedWhileAttached, AttachedRuns
  <2>4. NotedBeforeLoss'
    <3>1. mesh_initialized /\ gone = 0 /\ last_mesh_attached_ms \in Nat
      BY <1>0, <1>2 DEF ParentDisconnected, Noted, AttachedRuns, KnownToRun, NotedSinceCheck
    <3>2. ~served => last_mesh_attached_ms < CheckInterval + 2 * MaxLag
      BY <1>0, <1>2, <3>1 DEF ParentDisconnected, Noted, NotedWhileAttached
    <3>3. UNCHANGED <<gone, mesh_initialized, served, last_mesh_attached_ms>>
      BY <1>2 DEF ParentDisconnected
    <3> QED BY <1>0, <3>1, <3>2, <3>3 DEF NotedBeforeLoss
  <2> QED BY <2>1, <2>2, <2>3, <2>4 DEF Noted
<1>3. CASE LayerChange
  <2>1. AttachedRuns'
    BY <1>0, <1>3, NeverIsNoAge DEF LayerChange, Noted, AttachedRuns
  <2>2. NotedSinceCheck'
    BY <1>0, <1>3, NeverIsNoAge DEF LayerChange, Noted, NotedSinceCheck
  <2>3. NotedWhileAttached'
    BY <1>0, <1>3, NeverIsNoAge DEF LayerChange, Noted, NotedWhileAttached
  <2>4. NotedBeforeLoss'
    BY <1>0, <1>3, NeverIsNoAge DEF LayerChange, Noted, NotedBeforeLoss
  <2> QED BY <2>1, <2>2, <2>3, <2>4 DEF Noted
<1>4. CASE MeshStopped
  <2>1. AttachedRuns'
    BY <1>0, <1>4 DEF MeshStopped, Noted, AttachedRuns, StopIsHandled
  <2>2. NotedSinceCheck'
    BY <1>0, <1>4 DEF MeshStopped, Noted, NotedSinceCheck, StopIsHandled
  <2>3. NotedWhileAttached'
    BY <1>0, <1>4 DEF MeshStopped, Noted, NotedWhileAttached, StopIsHandled
  <2>4. NotedBeforeLoss'
    BY <1>0, <1>4 DEF MeshStopped, Noted, NotedBeforeLoss, StopIsHandled
  <2> QED BY <2>1, <2>2, <2>3, <2>4 DEF Noted
<1>5. CASE RootAddress \/ OtherMeshEvent
  BY <1>5, QuietSteps, QuietGrace DEF Noted
<1> QED BY <1>1, <1>2, <1>3, <1>4, <1>5 DEF MeshEvent

LEMMA LoopGrace ==
    ASSUME GraceInv, ~unstopped, MainLoop, ~unstopped'
    PROVE  Noted'
<1> USE DEF meshVars, knownVars, watchVars, mqttVars, serviceVars, reportVars, passVars,
            nodeVars
<1>0. /\ Noted /\ KnownToRun /\ StopIsHandled
      /\ CheckInterval \in Nat /\ CheckInterval > 0 /\ MaxLag \in Nat
      /\ lag \in Nat /\ lag <= MaxLag /\ gone \in Nat
      /\ last_mesh_health_check_ms \in Nat
      /\ Cap(CheckInterval) = CheckInterval + MaxLag
      /\ last_mesh_attached_ms # Never => last_mesh_attached_ms \in Nat
  BY Numbers DEF GraceInv, Noted, IInv
<1>1. CASE Wake
  <2>1. AttachedRuns'
    BY <1>0, <1>1 DEF Wake, Noted, AttachedRuns
  <2>2. NotedSinceCheck'
    BY <1>0, <1>1 DEF Wake, Noted, NotedSinceCheck
  <2>3. NotedWhileAttached'
    <3>1. /\ pc = "sleep" /\ pc' = "health" /\ lag' = 0
          /\ UNCHANGED <<attached, served, last_mesh_attached_ms>>
      BY <1>1 DEF Wake
    <3>2. attached /\ ~served =>
            last_mesh_attached_ms \in Nat /\ last_mesh_attached_ms < CheckInterval + lag + 0
      BY <1>0, <3>1 DEF Noted, NotedWhileAttached, NotedSinceCheck
    <3>3. attached /\ ~served => last_mesh_attached_ms < CheckInterval + 0 + MaxLag
      BY <1>0, <3>2
    <3> QED BY <3>1, <3>3 DEF NotedWhileAttached
  <2>4. NotedBeforeLoss'
    BY <1>0, <1>1 DEF Wake, Noted, NotedBeforeLoss
  <2> QED BY <2>1, <2>2, <2>3, <2>4 DEF Noted
<1>2. CASE NoCheck
  <2>1. AttachedRuns'
    BY <1>0, <1>2 DEF NoCheck, Noted, AttachedRuns, Due, NotedSinceCheck
  <2>2. NotedSinceCheck'
    BY <1>0, <1>2 DEF NoCheck, Noted, NotedSinceCheck, Due
  <2>3. NotedWhileAttached'
    BY <1>0, <1>2 DEF NoCheck, Noted, NotedWhileAttached, Due, NotedSinceCheck
  <2>4. NotedBeforeLoss'
    BY <1>0, <1>2 DEF NoCheck, Noted, NotedBeforeLoss, Due, NotedSinceCheck
  <2> QED BY <2>1, <2>2, <2>3, <2>4 DEF Noted
<1>3. CASE RetryInit
  <2>1. AttachedRuns'
    BY <1>0, <1>3 DEF RetryInit, Noted, AttachedRuns, MeshInit, KnownToRun
  <2>2. NotedSinceCheck'
    BY <1>0, <1>3 DEF RetryInit, Noted, NotedSinceCheck, MeshInit, KnownToRun, AttachedRuns
  <2>3. NotedWhileAttached'
    BY <1>0, <1>3 DEF RetryInit, Noted, NotedWhileAttached, MeshInit, KnownToRun, AttachedRuns
  <2>4. NotedBeforeLoss'
    BY <1>0, <1>3 DEF RetryInit, Noted, NotedBeforeLoss, MeshInit, KnownToRun, AttachedRuns
  <2> QED BY <2>1, <2>2, <2>3, <2>4 DEF Noted
<1>4. CASE ReadLayer
  <2>1. AttachedRuns'
    BY <1>0, <1>4, NeverIsNoAge DEF ReadLayer, Noted, AttachedRuns
  <2>2. NotedSinceCheck'
    BY <1>0, <1>4, NeverIsNoAge DEF ReadLayer, Noted, NotedSinceCheck
  <2>3. NotedWhileAttached'
    BY <1>0, <1>4, NeverIsNoAge DEF ReadLayer, Noted, NotedWhileAttached
  <2>4. NotedBeforeLoss'
    <3>1. /\ UNCHANGED <<gone, mesh_initialized, attached>> /\ mesh_initialized
          /\ ~attached => served' = served
      <4>1. served \in BOOLEAN
        BY DEF GraceInv, Types, LoopTypes
      <4>2. ~attached => (served /\ ~attached) = served
        BY <4>1
      <4>3. UNCHANGED <<gone, mesh_initialized, attached>> /\ mesh_initialized
        BY <1>4 DEF ReadLayer
      <4>4. served' = (served /\ ~attached)
        BY <1>4 DEF ReadLayer
      <4> QED BY <4>2, <4>3, <4>4
    <3>2. CASE ~attached /\ last_mesh_attached_ms = Never
      <4>1. last_mesh_attached_ms' = lag
        BY <1>4, <3>2 DEF ReadLayer
      <4>2. lag < gone + CheckInterval + 2 * MaxLag
        BY <1>0
      <4> QED BY <3>1, <4>1, <4>2 DEF NotedBeforeLoss
    <3>3. CASE ~attached /\ last_mesh_attached_ms # Never
      <4>1. last_mesh_attached_ms' = last_mesh_attached_ms
        BY <1>4, <3>3 DEF ReadLayer
      <4>2. ~served => last_mesh_attached_ms < gone + CheckInterval + 2 * MaxLag
        BY <1>0, <3>3 DEF Noted, NotedBeforeLoss
      <4> QED BY <3>1, <3>3, <4>1, <4>2 DEF NotedBeforeLoss
    <3>4. CASE attached
      BY <3>1, <3>4 DEF NotedBeforeLoss
    <3> QED BY <3>2, <3>3, <3>4
  <2> QED BY <2>1, <2>2, <2>3, <2>4 DEF Noted
<1>5. CASE Restart
  <2>0. /\ pc = "restart" /\ pc' = "delay" /\ stack' # "running"
        /\ ~attached' /\ ~mesh_initialized'
        /\ UNCHANGED <<gone, served, last_mesh_attached_ms>>
    BY <1>0, <1>5 DEF Restart, StopMesh
  <2>1. AttachedRuns'
    BY <2>0 DEF AttachedRuns
  <2>2. NotedSinceCheck' /\ NotedWhileAttached'
    BY <2>0 DEF NotedSinceCheck, NotedWhileAttached
  <2>3. NotedBeforeLoss'
    <3>1. ~attached /\ last_mesh_attached_ms # Never /\ ~served =>
            last_mesh_attached_ms < gone + CheckInterval + 2 * MaxLag
      BY <1>0 DEF Noted, NotedBeforeLoss
    <3>2. attached /\ ~served =>
            /\ gone = 0 /\ last_mesh_attached_ms \in Nat
            /\ last_mesh_attached_ms < CheckInterval + lag + 0
      BY <1>0, <2>0
         DEF Noted, NotedWhileAttached, NotedSinceCheck, AttachedRuns
    <3>3. attached /\ ~served => last_mesh_attached_ms < gone + CheckInterval + 2 * MaxLag
      BY <1>0, <3>2
    <3> QED BY <2>0, <3>1, <3>3 DEF NotedBeforeLoss
  <2> QED BY <2>1, <2>2, <2>3 DEF Noted
<1>6. CASE Restarted
  <2>1. AttachedRuns'
    BY <1>0, <1>6, NeverIsNoAge DEF Restarted, Noted, AttachedRuns, MeshInit
  <2>2. NotedSinceCheck'
    BY <1>0, <1>6, NeverIsNoAge DEF Restarted, Noted, NotedSinceCheck, MeshInit, AttachedRuns
  <2>3. NotedWhileAttached'
    BY <1>0, <1>6, NeverIsNoAge DEF Restarted, Noted, NotedWhileAttached, MeshInit, AttachedRuns
  <2>4. NotedBeforeLoss'
    BY <1>0, <1>6, NeverIsNoAge DEF Restarted, Noted, NotedBeforeLoss, MeshInit, AttachedRuns
  <2> QED BY <2>1, <2>2, <2>3, <2>4 DEF Noted
<1>7. CASE TcpAccept
  <2>1. AttachedRuns'
    BY <1>0, <1>7 DEF TcpAccept, Noted, AttachedRuns
  <2>2. NotedSinceCheck'
    BY <1>0, <1>7 DEF TcpAccept, Noted, NotedSinceCheck
  <2>3. NotedWhileAttached'
    BY <1>0, <1>7 DEF TcpAccept, Noted, NotedWhileAttached
  <2>4. NotedBeforeLoss'
    BY <1>0, <1>7 DEF TcpAccept, Noted, NotedBeforeLoss
  <2> QED BY <2>1, <2>2, <2>3, <2>4 DEF Noted
<1>8. CASE \/ CheckRoot \/ ClientDestroyed \/ ClientCleared \/ Reconnect \/ NoRestart
           \/ Decide \/ Report \/ NoTcpClient \/ TcpClose
  BY <1>8, QuietSteps, QuietGrace DEF Noted
<1> QED BY <1>1, <1>2, <1>3, <1>4, <1>5, <1>6, <1>7, <1>8
        DEF MainLoop, Health, Reporting

LEMMA TickGrace ==
    ASSUME GraceInv, ~unstopped, Tick
    PROVE  Noted'
<1>0. /\ Noted
      /\ CheckInterval \in Nat /\ CheckInterval > 0 /\ MaxLag \in Nat
      /\ RestartAfter \in Nat
      /\ lag \in Nat /\ lag <= MaxLag
      /\ gone \in Nat /\ gone <= RestartAfter + MaxLag
      /\ last_mesh_health_check_ms \in Nat
      /\ last_mesh_health_check_ms <= CheckInterval + MaxLag
      /\ last_mesh_attached_ms # Never =>
             last_mesh_attached_ms \in Nat /\ last_mesh_attached_ms <= RestartAfter + MaxLag
      /\ Never \notin Nat
  BY Numbers, NeverIsNoAge DEF GraceInv, Noted
<1>1. /\ UNCHANGED <<pc, served, stack, attached, mesh_initialized>>
      /\ lag' = IF pc = "tcp" THEN lag ELSE lag + 1
      /\ lag < MaxLag \/ pc = "tcp"
  BY DEF Tick, knownVars
<1>2. gone' = IF attached THEN 0
              ELSE IF gone < RestartAfter + MaxLag THEN gone + 1 ELSE gone
  <2>1. gone # Never
    BY <1>0
  <2> QED BY <2>1 DEF Tick, Older, Cap
<1>3. last_mesh_health_check_ms' =
          IF last_mesh_health_check_ms < CheckInterval + MaxLag
          THEN last_mesh_health_check_ms + 1 ELSE last_mesh_health_check_ms
  <2>1. last_mesh_health_check_ms # Never
    BY <1>0
  <2> QED BY <2>1 DEF Tick, Older, Cap
<1>4. /\ last_mesh_attached_ms = Never => last_mesh_attached_ms' = Never
      /\ last_mesh_attached_ms # Never =>
             /\ last_mesh_attached_ms' =
                    IF last_mesh_attached_ms < RestartAfter + MaxLag
                    THEN last_mesh_attached_ms + 1 ELSE last_mesh_attached_ms
             /\ last_mesh_attached_ms' \in Nat /\ last_mesh_attached_ms' # Never
             /\ last_mesh_attached_ms' <= last_mesh_attached_ms + 1
             /\ last_mesh_attached_ms' <= RestartAfter + MaxLag
  <2>1. last_mesh_attached_ms = Never => last_mesh_attached_ms' = Never
    BY DEF Tick, Older
  <2>2. ASSUME last_mesh_attached_ms # Never
        PROVE  last_mesh_attached_ms' =
                   IF last_mesh_attached_ms < RestartAfter + MaxLag
                   THEN last_mesh_attached_ms + 1 ELSE last_mesh_attached_ms
    BY <2>2 DEF Tick, Older, Cap
  <2>3. ASSUME last_mesh_attached_ms # Never
        PROVE  /\ last_mesh_attached_ms' \in Nat
               /\ last_mesh_attached_ms' <= last_mesh_attached_ms + 1
               /\ last_mesh_attached_ms' <= RestartAfter + MaxLag
    BY <1>0, <2>2, <2>3
  <2> QED BY <1>0, <2>1, <2>2, <2>3
<1>5. AttachedRuns'
  BY <1>0, <1>1, <1>2, <1>4 DEF Noted, AttachedRuns
<1>6. NotedSinceCheck'
  BY <1>0, <1>1, <1>3, <1>4 DEF Noted, NotedSinceCheck, Cap
<1>7. NotedWhileAttached'
  BY <1>0, <1>1, <1>4 DEF Noted, NotedWhileAttached, NotedSinceCheck, AttachedRuns
<1>8. NotedBeforeLoss'
  BY <1>0, <1>1, <1>2, <1>4 DEF Noted, NotedBeforeLoss
<1> QED BY <1>5, <1>6, <1>7, <1>8 DEF Noted

LEMMA GraceInit == Init => GraceInv
<1> SUFFICES ASSUME Init PROVE GraceInv
  OBVIOUS
<1>1. Types /\ IInv
  BY InitTypes, IInvInit
<1>2. AttachedRuns /\ NotedSinceCheck /\ NotedWhileAttached /\ NotedBeforeLoss
  BY DEF Init, AttachedRuns, NotedSinceCheck, NotedWhileAttached, NotedBeforeLoss
<1> QED BY <1>1, <1>2 DEF GraceInv, Noted

LEMMA GraceStep ==
    ASSUME GraceInv, [Next]_vars
    PROVE  GraceInv'
<1>1. Types' /\ IInv'
  BY TypesStep, IInvStep DEF GraceInv
<1>2. ASSUME ~unstopped' PROVE Noted'
  <2> USE <1>2
  <2>0. ~unstopped
    BY UnstoppedStays
  <2>1. CASE MeshEvent
    BY <2>0, <2>1, EventGrace
  <2>2. CASE MainLoop
    BY <2>0, <2>2, LoopGrace
  <2>3. CASE Tick
    BY <2>0, <2>3, TickGrace
  <2>4. CASE OtherEvent \/ UNCHANGED vars
    BY <2>0, <2>4, QuietSteps, QuietGrace DEF Noted
  <2> QED BY <2>1, <2>2, <2>3, <2>4 DEF Next
<1> QED BY <1>1, <1>2 DEF GraceInv

\* A restart finds the time noted RestartAfter old, as the loop's clock sees it.
LEMMA RestartIsDue ==
    ASSUME GraceInv, Restart
    PROVE  \/ gone + CheckInterval + 2 * MaxLag > RestartAfter
           \/ served
           \/ last_mesh_attached_ms < lag
<1> SUFFICES ASSUME ~served, ~(last_mesh_attached_ms < lag)
             PROVE  gone + CheckInterval + 2 * MaxLag > RestartAfter
  OBVIOUS
<1>1. pc = "restart" /\ Due(last_mesh_attached_ms, RestartAfter)
  BY DEF Restart
<1>0. /\ Noted /\ KnownToRun
      /\ CheckInterval \in Nat /\ MaxLag \in Nat /\ RestartAfter \in Nat
      /\ lag \in Nat /\ lag <= MaxLag /\ gone \in Nat
      /\ last_mesh_attached_ms # Never => last_mesh_attached_ms \in Nat
  BY <1>1, Numbers DEF GraceInv, IInv, GivenUp
<1>2. last_mesh_attached_ms # Never /\ last_mesh_attached_ms \in Nat
  BY <1>0, <1>1 DEF Noted, AttachedRuns
<1>3. last_mesh_attached_ms - lag >= RestartAfter
  BY <1>1, <1>2 DEF Due
<1>4. CASE attached
  <2>1. last_mesh_attached_ms < CheckInterval + lag + 0
    BY <1>0, <1>1, <1>4 DEF Noted, NotedWhileAttached
  <2> QED BY <1>0, <1>2, <1>3, <2>1
<1>5. CASE ~attached
  <2>1. last_mesh_attached_ms < gone + CheckInterval + 2 * MaxLag
    BY <1>2, <1>5, <1>0 DEF Noted, NotedBeforeLoss
  <2> QED BY <1>0, <1>2, <1>3, <2>1
<1> QED BY <1>4, <1>5

\* A node is not taken off the mesh before it has been detached for the grace period,
\* but for the time between two checks, although the event task and the main loop both
\* write last_mesh_attached_ms (main.cpp: check_mesh_health, mesh_event_handler).
THEOREM GraceIsKept == Spec => RestartGrace
<1>1. GraceInv /\ [Next]_vars =>
          [Restart => \/ gone + CheckInterval + 2 * MaxLag > RestartAfter
                      \/ served
                      \/ last_mesh_attached_ms < lag]_vars
  BY RestartIsDue
<1> QED BY <1>1, GraceInit, GraceStep, PTL DEF Spec, RestartGrace
=============================================================================
