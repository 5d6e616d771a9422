----------------------------- MODULE StateSync -----------------------------
(***************************************************************************)
(* How the automaton's configuration and value travel through the mesh:    *)
(* node_state on every node (kernel, activation rules, value and their     *)
(* three sequence numbers), its copy in NVS, the commands that change it,  *)
(* the state frames that carry it and adopt_neighbor_rules that merges it. *)
(*                                                                         *)
(* One action is one run of a handler, except the main loop's pass through *)
(* update_state: it has the lowest priority, and the handlers of the other *)
(* tasks may run between its steps.                                        *)
(* A kernel, a list of rules and a preset are opaque; a sequence number is *)
(* a natural number (2^32 commands are out of reach), bounded for TLC.     *)
(***************************************************************************)
EXTENDS Integers, FiniteSets

CONSTANTS
    Node,            \* the boards of the installation
    RootCapable,     \* those the mesh may elect root
    Commanded,       \* those operators' MQTT commands reach
    TcpOpen,         \* those operators send TCP commands to
    Kernel,          \* kernel contents
    Rules,           \* activation rule lists
    NoRules,         \* the empty list a board boots with
    NoConfig,        \* NVS without a usable "cfg" blob
    Absent,          \* a field a command does not carry
    Command,         \* the configuration commands operators send
    Updating,        \* those whose automaton runs (a bound on the instance)
    FlashFaulty,     \* NVS may be erased, a load or a save may fail
    MeshFaulty,      \* sends may fail, routes be missing, roles change
    MaxKernelSeq, MaxActivationSeq, MaxValueSeq,   \* bounds on the sequences
    MaxFrames, MaxToggles                          \* bounds on the network

VARIABLES
    config,          \* kernel and activations with their sequences, in RAM
    value,           \* node_state.value
    value_sequence,  \* node_state.value_sequence
    hold,            \* now < manual_value_hold_until_ms
    nvs,             \* the blob under "state"/"cfg"
    roots,           \* nodes for which esp_mesh_is_root() answers true
    frames,          \* mesh state frames sent and not yet received
    toggles,         \* toggle commands on their way to each node
    pass,            \* what the pass of update_state a node is in does next
    late             \* history: nodes toggled since that pass began

vars == <<config, value, value_sequence, hold, nvs, roots, frames, toggles, pass, late>>

Version(Body) == [seq : Nat, body : Body]

Config == [kernel : Version(Kernel), activations : Version(Rules)]

\* A state frame: the part of mesh_message_t a receiver acts on.
Frame == [to : Node, config : Config, value_sequence : Nat]

\* The JSON object handle_mqtt_command receives.
Payload == [preset : [kernel : Kernel, activations : Rules] \cup {Absent},
            kernel : Kernel \cup {Absent},
            activations : Rules \cup {Absent},
            value : {0, 1, Absent},
            reset : BOOLEAN]

ASSUME NodesAssumption == /\ Commanded \cup TcpOpen \subseteq RootCapable
                          /\ RootCapable \subseteq Node
ASSUME ContentAssumption == /\ NoRules \in Rules
                            /\ NoConfig \notin Config
                            /\ Absent \notin Kernel \cup Rules \cup {0, 1}
                            /\ Absent \notin [kernel : Kernel, activations : Rules]
ASSUME CommandAssumption == Command \subseteq Payload
ASSUME UpdatingAssumption == Updating \subseteq Node
ASSUME FaultAssumption == FlashFaulty \in BOOLEAN /\ MeshFaulty \in BOOLEAN
ASSUME BoundAssumption == /\ MaxKernelSeq \in Nat
                          /\ MaxActivationSeq \in Nat
                          /\ MaxValueSeq \in Nat
                          /\ MaxFrames \in Nat
                          /\ MaxToggles \in Nat
-----------------------------------------------------------------------------
(* What the commands and the frames do to one node's configuration. *)

Bump(version, body) == [seq |-> version.seq + 1, body |-> body]

\* Mutant: load_preset forgets to raise the sequence of the rules.
PresetRulesUnnumbered(c, p) ==
    IF p.preset = Absent THEN c
    ELSE [kernel |-> Bump(c.kernel, p.preset.kernel),
          activations |-> [seq |-> c.activations.seq, body |-> p.preset.activations]]

\* load_preset replaces both parts and raises both sequences.
AfterPreset(c, p) ==
    IF p.preset = Absent THEN c
    ELSE [kernel |-> Bump(c.kernel, p.preset.kernel),
          activations |-> Bump(c.activations, p.preset.activations)]

\* Mutant: set_kernel_values forgets to raise the sequence.
KernelUnnumbered(c, p) ==
    IF p.kernel = Absent THEN AfterPreset(c, p)
    ELSE [AfterPreset(c, p) EXCEPT !.kernel.body = p.kernel]

AfterKernel(c, p) ==
    IF p.kernel = Absent THEN AfterPreset(c, p)
    ELSE [kernel |-> Bump(AfterPreset(c, p).kernel, p.kernel),
          activations |-> AfterPreset(c, p).activations]

\* All the configuration fields of a command, in the order of the handler.
AfterCommand(c, p) ==
    IF p.activations = Absent THEN AfterKernel(c, p)
    ELSE [kernel |-> AfterKernel(c, p).kernel,
          activations |-> Bump(AfterKernel(c, p).activations, p.activations)]

HasConfig(p) == {p.preset, p.kernel, p.activations} # {Absent}

\* Mutant: set_kernel_values does not save.
KernelUnwritten(c, p) ==
    (IF p.preset = Absent THEN {} ELSE {AfterPreset(c, p)})
        \cup (IF p.activations = Absent THEN {} ELSE {AfterCommand(c, p)})

\* The blobs the setters of a command write, one save_state_config each.
Written(c, p) ==
    (IF p.preset = Absent THEN {} ELSE {AfterPreset(c, p)})
        \cup (IF p.kernel = Absent THEN {} ELSE {AfterKernel(c, p)})
        \cup (IF p.activations = Absent THEN {} ELSE {AfterCommand(c, p)})

\* What NVS may hold after saves of the configurations in W, the last being c:
\* save_state_config's result is ignored by every caller.
Saved(n, W, c) ==
    IF W = {} THEN {nvs[n]}
    ELSE IF FlashFaulty THEN W \cup {nvs[n]} ELSE {c}

\* What parse_number_field may find under "value": the value field or nothing
\* or, since it searches the whole text, the threshold of a rule of "activations"
\* (of which the pair form [op, threshold] has no such name).
FoundValues(p) ==
    {p.value} \cup (IF p.activations \in {Absent, NoRules} THEN {} ELSE {0, 1})

\* Mutants: an equal number is adopted too, or any number.
NewerOrEqual(theirs, mine) == IF theirs.seq >= mine.seq THEN theirs ELSE mine

Theirs(theirs, mine) == theirs

Newer(theirs, mine) == IF theirs.seq > mine.seq THEN theirs ELSE mine

\* Mutant: adopting counts as a change of one's own.
AdoptedAndRaised(mine, theirs) ==
    [kernel |-> IF theirs.kernel.seq > mine.kernel.seq
                THEN Bump(theirs.kernel, theirs.kernel.body) ELSE mine.kernel,
     activations |-> Newer(theirs.activations, mine.activations)]

\* adopt_neighbor_rules: kernel and activations are adopted independently.
Adopted(mine, theirs) ==
    [kernel |-> Newer(theirs.kernel, mine.kernel),
     activations |-> Newer(theirs.activations, mine.activations)]

Within(c, s) == /\ c.kernel.seq <= MaxKernelSeq
                /\ c.activations.seq <= MaxActivationSeq
                /\ s <= MaxValueSeq
-----------------------------------------------------------------------------
(* The mesh. A frame may overtake another and may never arrive. *)

FramesTo(targets, c, s) ==
    {[to |-> t, config |-> c, value_sequence |-> s] : t \in targets}

\* On a faulty mesh any of the sends may fail, or find no route.
Send(fs) ==
    \E sent \in (IF MeshFaulty THEN SUBSET fs ELSE {fs}) :
        /\ frames' = frames \cup sent
        /\ Cardinality(frames') <= MaxFrames

\* send_state_to_neighbors: a child sends its state to the root address it has
\* cached, which may be that of a former root; a root sends nothing.
SendUp(n, c, s) ==
    IF n \in roots \/ RootCapable \subseteq {n}
    THEN frames' = frames
    ELSE \E r \in RootCapable \ {n} : Send(FramesTo({r}, c, s))

\* Mutant: the root reports its state as its children do.
BroadcastUp(n, c, s) == SendUp(n, c, s)

\* broadcast_state: the root sends to its routing table, a child sends up.
Broadcast(n, c, s) ==
    IF n \in roots THEN Send(FramesTo(Node \ {n}, c, s)) ELSE SendUp(n, c, s)
-----------------------------------------------------------------------------
\* init_state without a blob: a random kernel, no rules, every sequence 0.
BootConfig == [kernel : [seq : {0}, body : Kernel],
               activations : [seq : {0}, body : {NoRules}]]

Init ==
    /\ config \in [Node -> BootConfig]
    /\ value \in [Node -> {0, 1}]
    /\ value_sequence = [n \in Node |-> 0]
    /\ hold = [n \in Node |-> FALSE]
    /\ nvs \in [Node -> BootConfig \cup {NoConfig}]
    /\ \A n \in Node : nvs[n] = config[n] \/ (FlashFaulty /\ nvs[n] = NoConfig)
    /\ roots \in (IF MeshFaulty THEN SUBSET RootCapable ELSE {RootCapable})
    /\ frames = {}
    /\ toggles = [n \in Node |-> 0]
    /\ pass = [n \in Node |-> "none"]
    /\ late = {}

\* set_state_value: the value is held against the automaton, but for a pass of
\* update_state that has looked at the hold already.
SetValue(n, v) ==
    /\ value_sequence[n] < MaxValueSeq
    /\ value' = [value EXCEPT ![n] = v]
    /\ value_sequence' = [value_sequence EXCEPT ![n] = @ + 1]
    /\ hold' = [hold EXCEPT ![n] = TRUE]
    /\ late' = IF pass[n] = "none" THEN late ELSE late \cup {n}
    /\ pass' = pass

\* handle_mqtt_command, the configuration part: preset, kernel, activations,
\* value and reset are taken in this order, and a changed configuration (or a
\* reset, but not a value) is broadcast.
MqttConfig(n, p) ==
    \E found \in FoundValues(p) :
        LET c == AfterCommand(config[n], p)
            s == value_sequence[n] + (IF found = Absent THEN 0 ELSE 1)
                                   + (IF p.reset THEN 1 ELSE 0)
        IN  /\ n \in Commanded
            /\ Within(c, s)
            /\ config' = [config EXCEPT ![n] = c]
            /\ \E v \in (IF p.reset THEN {0, 1}
                         ELSE IF found # Absent THEN {found} ELSE {value[n]}) :
                   value' = [value EXCEPT ![n] = v]
            /\ value_sequence' = [value_sequence EXCEPT ![n] = s]
            /\ \E blob \in Saved(n, Written(config[n], p), c) :
                   nvs' = [nvs EXCEPT ![n] = blob]
            /\ IF HasConfig(p) \/ p.reset THEN Broadcast(n, c, s) ELSE frames' = frames
            /\ UNCHANGED <<hold, roots, toggles, pass, late>>

\* handle_tcp_client: UPDATE_KERNEL, UPDATE_ACTIVATION, PRESET or RESET_VALUE,
\* one setting per line, kept to this node until its next state frame.
TcpCommand(n, p) ==
    LET c == AfterCommand(config[n], p)
        s == value_sequence[n] + (IF p.reset THEN 1 ELSE 0)
    IN  /\ n \in TcpOpen
        /\ p.value = Absent
        /\ Cardinality(Written(config[n], p)) + (IF p.reset THEN 1 ELSE 0) = 1
        /\ Within(c, s)
        /\ config' = [config EXCEPT ![n] = c]
        /\ \E v \in (IF p.reset THEN {0, 1} ELSE {value[n]}) :
               value' = [value EXCEPT ![n] = v]
        /\ value_sequence' = [value_sequence EXCEPT ![n] = s]
        /\ \E blob \in Saved(n, Written(config[n], p), c) :
               nvs' = [nvs EXCEPT ![n] = blob]
        /\ UNCHANGED <<hold, roots, frames, toggles, pass, late>>

\* A toggle command for the node that receives it from MQTT.
ToggleSelf(n) ==
    /\ n \in Commanded
    /\ SetValue(n, 1 - value[n])
    /\ SendUp(n, config[n], value_sequence[n] + 1)
    /\ UNCHANGED <<config, nvs, roots, toggles>>

\* A toggle command for another node: only a root routes it.
RouteToggle(n, target) ==
    /\ n \in Commanded \cap roots
    /\ target # n
    /\ toggles[target] < MaxToggles
    /\ toggles' = [toggles EXCEPT ![target] = @ + 1]
    /\ UNCHANGED <<config, value, value_sequence, hold, nvs, roots, frames, pass, late>>

\* Mutant: a command is applied that was never sent.
ReceiveAnyToggle(n) ==
    /\ toggles' = [toggles EXCEPT ![n] = @ - 1]
    /\ SetValue(n, 1 - value[n])
    /\ SendUp(n, config[n], value_sequence[n] + 1)
    /\ UNCHANGED <<config, nvs, roots>>

\* mesh_receive_task with a mesh_command_t: apply_mesh_command.
ReceiveToggle(n) ==
    /\ toggles[n] > 0
    /\ toggles' = [toggles EXCEPT ![n] = @ - 1]
    /\ SetValue(n, 1 - value[n])
    /\ SendUp(n, config[n], value_sequence[n] + 1)
    /\ UNCHANGED <<config, nvs, roots>>

\* mesh_receive_task with a state frame: adopt_neighbor_rules. A newer value
\* sequence is a reset, to a value drawn at random.
ReceiveFrame(n, f) ==
    LET c == Adopted(config[n], f.config)
        W == IF c = config[n] THEN {} ELSE {c}
        reset == f.value_sequence > value_sequence[n]
    IN  /\ f.to = n
        /\ frames' = frames \ {f}
        /\ config' = [config EXCEPT ![n] = c]
        /\ \E blob \in Saved(n, W, c) : nvs' = [nvs EXCEPT ![n] = blob]
        /\ \E v \in (IF reset THEN {0, 1} ELSE {value[n]}) :
               value' = [value EXCEPT ![n] = v]
        /\ value_sequence' = IF reset
                             THEN [value_sequence EXCEPT ![n] = f.value_sequence]
                             ELSE value_sequence
        /\ UNCHANGED <<hold, roots, toggles, pass, late>>

\* The main loop's send_state_to_neighbors (a root's sends nothing).
PeriodicSend(n) ==
    /\ n \notin roots
    /\ SendUp(n, config[n], value_sequence[n])
    /\ UNCHANGED <<config, value, value_sequence, hold, nvs, roots, toggles, pass, late>>

\* Mutant: the hold is not looked at.
BeginAnyUpdate(n) ==
    /\ n \in Updating
    /\ pass[n] = "none"
    /\ pass' = [pass EXCEPT ![n] = "clear"]
    /\ UNCHANGED <<config, value, value_sequence, hold, nvs, roots, frames, toggles, late>>

\* update_state finds no hold that has still to elapse: the pass goes on.
BeginUpdate(n) ==
    /\ n \in Updating
    /\ pass[n] = "none"
    /\ ~hold[n]
    /\ pass' = [pass EXCEPT ![n] = "clear"]
    /\ UNCHANGED <<config, value, value_sequence, hold, nvs, roots, frames, toggles, late>>

\* It clears the hold, be it one set since.
ClearHold(n) ==
    /\ pass[n] = "clear"
    /\ pass' = [pass EXCEPT ![n] = "store"]
    /\ hold' = [hold EXCEPT ![n] = FALSE]
    /\ UNCHANGED <<config, value, value_sequence, nvs, roots, frames, toggles, late>>

\* apply_activation_function stores the automaton's next value, which may be
\* either, depending on the neighbours and the sensors.
StoreValue(n) ==
    /\ pass[n] = "store"
    /\ pass' = [pass EXCEPT ![n] = "none"]
    /\ \E v \in {0, 1} : value' = [value EXCEPT ![n] = v]
    /\ late' = late \ {n}
    /\ UNCHANGED <<config, value_sequence, hold, nvs, roots, frames, toggles>>

\* COMMAND_VALUE_HOLD_MS have passed.
HoldElapses(n) ==
    /\ hold[n]
    /\ hold' = [hold EXCEPT ![n] = FALSE]
    /\ UNCHANGED <<config, value, value_sequence, nvs, roots, frames, toggles, pass, late>>

\* A power cycle: init_nvs_storage, which may erase NVS, and init_state, which
\* loads the blob or, if there is none or reading it fails, starts from a random
\* kernel and saves that, which may fail as well.
Restart(n) ==
    /\ MeshFaulty \/ n \notin roots
    /\ \E left \in {nvs[n]} \cup (IF FlashFaulty THEN {NoConfig} ELSE {}),
          boot \in BootConfig :
          \E read \in {left} \cup (IF FlashFaulty THEN {NoConfig} ELSE {}) :
              /\ config' = [config EXCEPT ![n] = IF read = NoConfig THEN boot ELSE read]
              /\ \/ nvs' = [nvs EXCEPT ![n] = IF read = NoConfig THEN boot ELSE read]
                 \/ FlashFaulty /\ nvs' = [nvs EXCEPT ![n] = left]
    /\ \E v \in {0, 1} : value' = [value EXCEPT ![n] = v]
    /\ value_sequence' = [value_sequence EXCEPT ![n] = 0]
    /\ hold' = [hold EXCEPT ![n] = FALSE]
    /\ pass' = [pass EXCEPT ![n] = "none"]
    /\ late' = late \ {n}
    /\ roots' = roots \ {n}
    /\ UNCHANGED <<frames, toggles>>

\* The mesh elects a root or takes the role away; two may coexist for a while.
ChangeRole(n) ==
    /\ MeshFaulty /\ n \in RootCapable
    /\ roots' = IF n \in roots THEN roots \ {n} ELSE roots \cup {n}
    /\ UNCHANGED <<config, value, value_sequence, hold, nvs, frames, toggles, pass, late>>

Next ==
    \E n \in Node :
        \/ \E p \in Command : MqttConfig(n, p)
        \/ \E p \in Command : TcpCommand(n, p)
        \/ ToggleSelf(n)
        \/ \E target \in Node : RouteToggle(n, target)
        \/ ReceiveToggle(n)
        \/ \E f \in frames : ReceiveFrame(n, f)
        \/ PeriodicSend(n)
        \/ BeginUpdate(n)
        \/ ClearHold(n)
        \/ StoreValue(n)
        \/ HoldElapses(n)
        \/ Restart(n)
        \/ ChangeRole(n)

Spec == Init /\ [][Next]_vars

\* mesh_rx takes what the mesh delivers; nothing else is promised.
Receiving == \A n \in Node : WF_vars(\E f \in frames : ReceiveFrame(n, f))

FairSpec == Spec /\ Receiving
-----------------------------------------------------------------------------
(* What must hold. *)

\* Types of the variables.
TypeOK ==
    /\ config \in [Node -> Config]
    /\ value \in [Node -> {0, 1}]
    /\ value_sequence \in [Node -> Nat]
    /\ hold \in [Node -> BOOLEAN]
    /\ nvs \in [Node -> Config \cup {NoConfig}]
    /\ roots \subseteq RootCapable
    /\ frames \subseteq Frame
    /\ toggles \in [Node -> Nat]
    /\ pass \in [Node -> {"none", "clear", "store"}]
    /\ late \subseteq Node

\* w is at least as new as v, and is v if it carries the same number.
Supersedes(w, v) == w.seq > v.seq \/ w = v

SupersedesBoth(d, c) == /\ Supersedes(d.kernel, c.kernel)
                        /\ Supersedes(d.activations, c.activations)

\* A usable blob is the configuration in RAM or an older one, part by part.
BehindRam(n) == nvs[n] # NoConfig => SupersedesBoth(config[n], nvs[n])

\* Flash gets ahead of RAM, or beside it, in one way only: a boot that can neither
\* read the blob nor replace it. Whatever saves fail otherwise, a reboot can only
\* go back, never sideways, and whatever is written to a flash that is ahead puts
\* it behind again (save_state_config, load_state_config, init_state).
NvsBehindRam ==
    /\ \A n \in Node : BehindRam(n)
    /\ [][\A n \in Node :
              BehindRam(n) \/ nvs'[n] # nvs[n]
                  => BehindRam(n)' \/ (FlashFaulty /\ Restart(n) /\ nvs' = nvs)]_vars

\* With working flash, every change of the configuration by any path (MQTT, TCP,
\* a frame adopted, first boot) is in flash when its handler returns.
WriteThrough == ~FlashFaulty => nvs = config

\* Outside a reboot that lost flash, no node ever goes back to an older kernel or
\* rule list, nor swaps contents under an unchanged sequence, although frames
\* arrive late and in any order (adopt_neighbor_rules, the setters, init_state).
OnlyForward ==
    [][\A n \in Node : \/ SupersedesBoth(config'[n], config[n])
                       \/ FlashFaulty /\ Restart(n)]_vars

\* Every configuration some node runs or some frame carries.
Copies == {config[n] : n \in Node} \cup {f.config : f \in frames}

SameVersion(v, w) == v.seq = w.seq => v = w

\* One node issues the commands and flash works: the case in which sequence
\* numbers are meant to tell configurations apart.
OneCommander == ~FlashFaulty /\ \E c \in Node : Commanded \cup TcpOpen = {c}

\* Two nodes that have adopted the same sequence run the same configuration (a
\* kernel numbered 0 is each board's own random one): no order of commands,
\* frames, role changes and reboots leaves two contents under one number, which
\* the strict comparison in adopt_neighbor_rules could never repair.
Agreement ==
    OneCommander =>
        \A c, d \in Copies :
            /\ c.kernel.seq > 0 => SameVersion(c.kernel, d.kernel)
            /\ SameVersion(c.activations, d.activations)

\* No copy outnumbers the commanding node's own configuration, so that the next
\* command is newer than anything about and will be adopted wherever it arrives.
CommanderLeads ==
    OneCommander =>
        \A n \in Commanded \cup TcpOpen, c \in Copies :
            /\ c.kernel.seq <= config[n].kernel.seq
            /\ c.activations.seq <= config[n].activations.seq

\* The kernels spread as VersionGossip promises, and so do the rule lists.
KernelGossip == INSTANCE VersionGossip WITH
    Body <- Kernel,
    held <- [n \in Node |-> config[n].kernel],
    pool <- {c.kernel : c \in Copies}

ActivationGossip == INSTANCE VersionGossip WITH
    Body <- Rules,
    held <- [n \in Node |-> config[n].activations],
    pool <- {c.activations : c \in Copies}

ImplementsKernelGossip == KernelGossip!Spec

ImplementsActivationGossip == ActivationGossip!Spec

\* A toggled value is held against the automaton unless the toggle falls into a
\* pass of update_state: until the hold elapses, the value changes only with a new
\* value_sequence, and no pass clears the hold. A toggle within a pass may lose
\* its value or its hold to that pass, but to no later one.
HeldAgainstAutomaton ==
    [][\A n \in Node : hold[n] /\ n \notin late /\ ~Restart(n)
           => /\ value'[n] # value[n] => value_sequence'[n] > value_sequence[n]
              /\ ~hold'[n] => HoldElapses(n)]_vars

\* On a mesh that delivers, with its root commanded over MQTT, every configuration
\* command reaches every node: no reboot of a child and no late frame undoes it.
Propagates ==
    \A n \in Node, c \in Commanded :
        /\ \A s \in 1..MaxKernelSeq :
               config[c].kernel.seq = s ~> config[n].kernel.seq >= s
        /\ \A s \in 1..MaxActivationSeq :
               config[c].activations.seq = s ~> config[n].activations.seq >= s
-----------------------------------------------------------------------------
(* What the documents say and the code does not do. *)

\* A step in which an operator, or a power cycle, sets the value of n itself.
SetByOperator(n) ==
    \/ \E p \in Command : MqttConfig(n, p) \/ TcpCommand(n, p)
    \/ ToggleSelf(n) \/ ReceiveToggle(n)
    \/ Restart(n)

\* docs/api.md:115: the toggled value is held for COMMAND_VALUE_HOLD_MS. A frame
\* with a higher value_sequence randomises it all the same.
ToggledValueIsHeld ==
    [][\A n \in Node : hold[n] /\ hold'[n] /\ ~SetByOperator(n)
                           => value'[n] = value[n]]_vars

\* docs/architecture.md:72 lists value override and reset as fields of their own:
\* a command with neither leaves the value and its sequence alone.
ConfigLeavesValue ==
    [][\A n \in Node, p \in Command :
          MqttConfig(n, p) /\ p.value = Absent /\ ~p.reset
              => value_sequence'[n] = value_sequence[n]]_vars

\* docs/api.md:263: what the root forwards after a command is new to the child
\* nodes, which can adopt it: a reset outnumbers the value of every node.
ResetIsAdoptable ==
    [][\A n \in roots, p \in Command :
          MqttConfig(n, p) /\ p.reset
              => \A m \in Node \ {n} : value_sequence'[n] > value_sequence[m]]_vars
=============================================================================
