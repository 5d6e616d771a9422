-------------------------- MODULE StateSync_proofs --------------------------
(***************************************************************************)
(* Proofs about StateSync, for any number of nodes, any commands and any   *)
(* bounds.                                                                 *)
(***************************************************************************)
EXTENDS StateSync, TLAPS

(* What the operators on configurations return. *)

\* A setter stores the new content and raises the sequence number by one.
LEMMA BumpType ==
    ASSUME NEW Body, NEW v \in Version(Body), NEW b \in Body
    PROVE  /\ Bump(v, b) \in Version(Body)
           /\ Bump(v, b).seq = v.seq + 1
           /\ Bump(v, b).seq > v.seq
  BY DEF Bump, Version

\* Adopting one part yields one of the two sides and never an older one.
LEMMA NewerType ==
    ASSUME NEW Body, NEW v \in Version(Body), NEW w \in Version(Body)
    PROVE  /\ Newer(v, w) \in Version(Body)
           /\ Newer(v, w) \in {v, w}
           /\ Supersedes(Newer(v, w), w)
  BY DEF Newer, Version, Supersedes

\* The two parts of a configuration, each with its number (node_state_t).
LEMMA ConfigParts ==
    ASSUME NEW c \in Config
    PROVE  /\ c.kernel \in Version(Kernel)
           /\ c.activations \in Version(Rules)
           /\ c.kernel.seq \in Nat
           /\ c.activations.seq \in Nat
           /\ c = [kernel |-> c.kernel, activations |-> c.activations]
  BY DEF Config, Version

\* A kernel and a rule list make a configuration.
LEMMA ConfigOf ==
    ASSUME NEW k \in Version(Kernel), NEW a \in Version(Rules)
    PROVE  [kernel |-> k, activations |-> a] \in Config
  BY DEF Config

\* adopt_neighbor_rules takes each part from one of the two sides and never
\* goes back.
LEMMA AdoptedType ==
    ASSUME NEW mine \in Config, NEW theirs \in Config
    PROVE  /\ Adopted(mine, theirs) \in Config
           /\ Adopted(mine, theirs).kernel \in {mine.kernel, theirs.kernel}
           /\ Adopted(mine, theirs).activations \in {mine.activations, theirs.activations}
           /\ SupersedesBoth(Adopted(mine, theirs), mine)
<1>1. /\ Newer(theirs.kernel, mine.kernel) \in Version(Kernel)
      /\ Newer(theirs.kernel, mine.kernel) \in {theirs.kernel, mine.kernel}
      /\ Supersedes(Newer(theirs.kernel, mine.kernel), mine.kernel)
  BY NewerType, ConfigParts
<1>2. /\ Newer(theirs.activations, mine.activations) \in Version(Rules)
      /\ Newer(theirs.activations, mine.activations) \in {theirs.activations, mine.activations}
      /\ Supersedes(Newer(theirs.activations, mine.activations), mine.activations)
  BY NewerType, ConfigParts
<1> QED BY <1>1, <1>2, ConfigOf DEF Adopted, SupersedesBoth

\* Being at least as new is transitive for one part,
LEMMA SupersedesTransitive ==
    ASSUME NEW Body, NEW u \in Version(Body), NEW v \in Version(Body),
           NEW w \in Version(Body), Supersedes(w, v), Supersedes(v, u)
    PROVE  Supersedes(w, u)
  BY DEF Supersedes, Version

\* for both parts,
LEMMA SupersedesBothTransitive ==
    ASSUME NEW b \in Config, NEW c \in Config, NEW d \in Config,
           SupersedesBoth(d, c), SupersedesBoth(c, b)
    PROVE  SupersedesBoth(d, b)
<1>1. Supersedes(d.kernel, b.kernel)
  BY ConfigParts, SupersedesTransitive DEF SupersedesBoth
<1>2. Supersedes(d.activations, b.activations)
  BY ConfigParts, SupersedesTransitive DEF SupersedesBoth
<1> QED BY <1>1, <1>2 DEF SupersedesBoth

\* and reflexive.
LEMMA SupersedesBothReflexive ==
    ASSUME NEW c
    PROVE  SupersedesBoth(c, c)
  BY DEF SupersedesBoth, Supersedes

\* A command moves forward, each part at most by its own setters, and so do the
\* intermediate configurations its setters save.
LEMMA CommandEffect ==
    ASSUME NEW c \in Config, NEW p \in Payload
    PROVE  /\ AfterPreset(c, p) \in Config
           /\ AfterKernel(c, p) \in Config
           /\ AfterCommand(c, p) \in Config
           /\ SupersedesBoth(AfterPreset(c, p), c)
           /\ SupersedesBoth(AfterKernel(c, p), AfterPreset(c, p))
           /\ SupersedesBoth(AfterCommand(c, p), AfterKernel(c, p))
<1> DEFINE cp == AfterPreset(c, p)
           ck == AfterKernel(c, p)
           ca == AfterCommand(c, p)
<1>1. cp \in Config /\ SupersedesBoth(cp, c)
  <2>1. CASE p.preset = Absent
    BY <2>1, SupersedesBothReflexive DEF AfterPreset
  <2>2. CASE p.preset # Absent
    <3>1. p.preset.kernel \in Kernel /\ p.preset.activations \in Rules
      BY <2>2 DEF Payload
    <3>2. /\ Bump(c.kernel, p.preset.kernel) \in Version(Kernel)
          /\ Bump(c.kernel, p.preset.kernel).seq > c.kernel.seq
      BY <3>1, BumpType, ConfigParts
    <3>3. /\ Bump(c.activations, p.preset.activations) \in Version(Rules)
          /\ Bump(c.activations, p.preset.activations).seq > c.activations.seq
      BY <3>1, BumpType, ConfigParts
    <3> QED BY <2>2, <3>2, <3>3, ConfigOf DEF AfterPreset, SupersedesBoth, Supersedes
  <2> QED BY <2>1, <2>2
<1>2. ck \in Config /\ SupersedesBoth(ck, cp)
  <2>1. CASE p.kernel = Absent
    BY <1>1, <2>1, SupersedesBothReflexive DEF AfterKernel
  <2>2. CASE p.kernel # Absent
    <3>1. p.kernel \in Kernel
      BY <2>2 DEF Payload
    <3>2. /\ Bump(cp.kernel, p.kernel) \in Version(Kernel)
          /\ Bump(cp.kernel, p.kernel).seq > cp.kernel.seq
      BY <1>1, <3>1, BumpType, ConfigParts
    <3>3. ck = [kernel |-> Bump(cp.kernel, p.kernel), activations |-> cp.activations]
      BY <1>1, <2>2 DEF AfterKernel
    <3>4. cp.activations \in Version(Rules)
      BY <1>1, ConfigParts
    <3> HIDE DEF cp, ck
    <3> QED BY <3>2, <3>3, <3>4, ConfigOf DEF SupersedesBoth, Supersedes
  <2> QED BY <2>1, <2>2
<1>3. ca \in Config /\ SupersedesBoth(ca, ck)
  <2>1. CASE p.activations = Absent
    BY <1>2, <2>1, SupersedesBothReflexive DEF AfterCommand
  <2>2. CASE p.activations # Absent
    <3>1. p.activations \in Rules
      BY <2>2 DEF Payload
    <3>2. /\ Bump(ck.activations, p.activations) \in Version(Rules)
          /\ Bump(ck.activations, p.activations).seq > ck.activations.seq
      BY <1>2, <3>1, BumpType, ConfigParts
    <3>3. ca = [kernel |-> ck.kernel, activations |-> Bump(ck.activations, p.activations)]
      BY <1>2, <2>2 DEF AfterCommand
    <3>4. ck.kernel \in Version(Kernel)
      BY <1>2, ConfigParts
    <3> HIDE DEF ca, ck
    <3> QED BY <3>2, <3>3, <3>4, ConfigOf DEF SupersedesBoth, Supersedes
  <2> QED BY <2>1, <2>2
<1> QED BY <1>1, <1>2, <1>3

\* A command as a whole never moves a configuration backwards.
LEMMA CommandForward ==
    ASSUME NEW c \in Config, NEW p \in Payload
    PROVE  SupersedesBoth(AfterCommand(c, p), c)
  BY CommandEffect, SupersedesBothTransitive

\* What the setters of a command save is a configuration the command has left
\* behind or arrived at (save_state_config in each setter).
LEMMA WrittenType ==
    ASSUME NEW c \in Config, NEW p \in Payload, NEW w \in Written(c, p)
    PROVE  /\ w \in Config
           /\ SupersedesBoth(AfterCommand(c, p), w)
<1>1. /\ AfterPreset(c, p) \in Config
      /\ AfterKernel(c, p) \in Config
      /\ AfterCommand(c, p) \in Config
      /\ SupersedesBoth(AfterCommand(c, p), AfterKernel(c, p))
      /\ SupersedesBoth(AfterKernel(c, p), AfterPreset(c, p))
  BY CommandEffect
<1>2. SupersedesBoth(AfterCommand(c, p), AfterPreset(c, p))
  BY <1>1, SupersedesBothTransitive
<1>3. w \in {AfterPreset(c, p), AfterKernel(c, p), AfterCommand(c, p)}
  BY DEF Written
<1> QED BY <1>1, <1>2, <1>3, SupersedesBothReflexive
-----------------------------------------------------------------------------
(* What a send adds to the frames on their way: copies of one configuration. *)

\* The frames of a broadcast are state frames with the sender's configuration.
LEMMA FramesToType ==
    ASSUME NEW targets, targets \subseteq Node, NEW c \in Config, NEW s \in Nat
    PROVE  /\ FramesTo(targets, c, s) \subseteq Frame
           /\ \A f \in FramesTo(targets, c, s) : f.config = c
  BY DEF FramesTo, Frame

\* A send that may fail adds at most the frames it was given.
LEMMA SendAdds ==
    ASSUME NEW fs, Send(fs)
    PROVE  /\ frames \subseteq frames'
           /\ frames' \subseteq frames \cup fs
<1>1. PICK sent \in (IF MeshFaulty THEN SUBSET fs ELSE {fs}) :
          frames' = frames \cup sent
  BY DEF Send
<1>2. sent \subseteq fs
  BY FaultAssumption
<1> QED BY <1>1, <1>2

\* send_state_to_neighbors adds at most frames with the sender's configuration.
LEMMA SendUpAdds ==
    ASSUME NEW n \in Node, NEW c \in Config, NEW s \in Nat,
           frames \subseteq Frame, SendUp(n, c, s)
    PROVE  /\ frames' \subseteq Frame
           /\ \A f \in frames' : f \in frames \/ f.config = c
<1>1. CASE n \in roots \/ RootCapable \subseteq {n}
  BY <1>1 DEF SendUp
<1>2. CASE ~(n \in roots \/ RootCapable \subseteq {n})
  <2>1. PICK r \in RootCapable \ {n} : Send(FramesTo({r}, c, s))
    BY <1>2 DEF SendUp
  <2>2. {r} \subseteq Node
    BY NodesAssumption
  <2> QED BY <2>1, <2>2, FramesToType, SendAdds
<1> QED BY <1>1, <1>2

\* So does broadcast_state.
LEMMA BroadcastAdds ==
    ASSUME NEW n \in Node, NEW c \in Config, NEW s \in Nat,
           frames \subseteq Frame, Broadcast(n, c, s)
    PROVE  /\ frames' \subseteq Frame
           /\ \A f \in frames' : f \in frames \/ f.config = c
<1>1. CASE n \in roots
  <2>1. Send(FramesTo(Node \ {n}, c, s))
    BY <1>1 DEF Broadcast
  <2>2. Node \ {n} \subseteq Node
    OBVIOUS
  <2> QED BY <2>1, <2>2, FramesToType, SendAdds
<1>2. CASE n \notin roots
  BY <1>2, SendUpAdds DEF Broadcast
<1> QED BY <1>1, <1>2

\* What init_state boots without a blob: numbers 0 and no rules.
LEMMA BootConfigType ==
    /\ BootConfig \subseteq Config
    /\ \A c \in BootConfig : /\ c.kernel.seq = 0
                             /\ c.activations = [seq |-> 0, body |-> NoRules]
  BY ContentAssumption DEF BootConfig, Config, Version

\* What is found in flash after saves is a configuration or unusable.
LEMMA SavedType ==
    ASSUME NEW n \in Node, nvs[n] \in Config \cup {NoConfig},
           NEW c \in Config, NEW W \in SUBSET Config, NEW blob \in Saved(n, W, c)
    PROVE  blob \in Config \cup {NoConfig}
  BY DEF Saved

\* parse_number_field finds a value or nothing.
LEMMA FoundValuesType ==
    ASSUME NEW p \in Payload
    PROVE  FoundValues(p) \subseteq {0, 1, Absent}
  BY DEF FoundValues, Payload
-----------------------------------------------------------------------------
(* Every variable keeps its type. *)

\* A first boot has the types (init_state).
LEMMA InitType == Init => TypeOK
<1> SUFFICES ASSUME Init PROVE TypeOK
  OBVIOUS
<1>1. config \in [Node -> Config] /\ nvs \in [Node -> Config \cup {NoConfig}]
  BY BootConfigType DEF Init
<1>2. roots \subseteq RootCapable
  BY FaultAssumption DEF Init
<1> QED BY <1>1, <1>2 DEF Init, TypeOK

\* What a command leaves in RAM and flash has its type.
LEMMA CommandType ==
    ASSUME TypeOK, NEW n \in Node, NEW p \in Command
    PROVE  /\ AfterCommand(config[n], p) \in Config
           /\ SupersedesBoth(AfterCommand(config[n], p), config[n])
           /\ \A blob \in Saved(n, Written(config[n], p), AfterCommand(config[n], p)) :
                  blob \in Config \cup {NoConfig}
<1>1. config[n] \in Config /\ nvs[n] \in Config \cup {NoConfig} /\ p \in Payload
  BY CommandAssumption DEF TypeOK
<1>2. AfterCommand(config[n], p) \in Config
  BY <1>1, CommandEffect
<1>3. Written(config[n], p) \in SUBSET Config
  BY <1>1, WrittenType
<1> QED BY <1>1, <1>2, <1>3, SavedType, CommandForward

\* Every handler keeps the types.
LEMMA NextType == TypeOK /\ [Next]_vars => TypeOK'
<1> SUFFICES ASSUME TypeOK, [Next]_vars PROVE TypeOK'
  OBVIOUS
<1> USE DEF TypeOK
<1>1. CASE UNCHANGED vars
  BY <1>1 DEF vars
<1>2. ASSUME NEW n \in Node, NEW p \in Command, MqttConfig(n, p) PROVE TypeOK'
  <2> DEFINE c == AfterCommand(config[n], p)
             Count(found) == value_sequence[n] + (IF found = Absent THEN 0 ELSE 1)
                                               + (IF p.reset THEN 1 ELSE 0)
  <2>1. PICK found \in FoundValues(p) :
            /\ config' = [config EXCEPT ![n] = c]
            /\ \E v \in (IF p.reset THEN {0, 1}
                         ELSE IF found # Absent THEN {found} ELSE {value[n]}) :
                   value' = [value EXCEPT ![n] = v]
            /\ value_sequence' = [value_sequence EXCEPT ![n] = Count(found)]
            /\ \E blob \in Saved(n, Written(config[n], p), c) :
                   nvs' = [nvs EXCEPT ![n] = blob]
            /\ Broadcast(n, c, Count(found)) \/ frames' = frames
            /\ UNCHANGED <<hold, roots, toggles, pass, late>>
    BY <1>2 DEF MqttConfig
  <2>2. c \in Config /\ Count(found) \in Nat
    BY CommandType
  <2>3. config' \in [Node -> Config] /\ value_sequence' \in [Node -> Nat]
    BY <2>1, <2>2
  <2>4. value' \in [Node -> {0, 1}]
    <3>1. p \in Payload
      BY CommandAssumption
    <3>2. found \in {0, 1, Absent}
      BY <3>1, FoundValuesType
    <3> QED BY <2>1, <3>2
  <2>5. nvs' \in [Node -> Config \cup {NoConfig}]
    <3>1. PICK blob \in Saved(n, Written(config[n], p), c) :
              nvs' = [nvs EXCEPT ![n] = blob]
      BY <2>1
    <3>2. blob \in Config \cup {NoConfig}
      BY <3>1, CommandType
    <3> QED BY <3>1, <3>2
  <2>6. frames' \subseteq Frame
    <3> HIDE DEF c, Count
    <3> QED BY <2>1, <2>2, BroadcastAdds
  <2> QED BY <2>1, <2>3, <2>4, <2>5, <2>6
<1>3. ASSUME NEW n \in Node, NEW p \in Command, TcpCommand(n, p) PROVE TypeOK'
  <2> DEFINE c == AfterCommand(config[n], p)
  <2>1. config' \in [Node -> Config]
    BY <1>3, CommandType DEF TcpCommand
  <2>2. value' \in [Node -> {0, 1}]
    BY <1>3 DEF TcpCommand
  <2>3. value_sequence' \in [Node -> Nat]
    BY <1>3 DEF TcpCommand
  <2>4. PICK blob \in Saved(n, Written(config[n], p), c) :
            nvs' = [nvs EXCEPT ![n] = blob]
    BY <1>3 DEF TcpCommand
  <2>5. blob \in Config \cup {NoConfig}
    BY <2>4, CommandType
  <2> QED BY <1>3, <2>1, <2>2, <2>3, <2>4, <2>5 DEF TcpCommand
<1>4. ASSUME NEW n \in Node, ToggleSelf(n) PROVE TypeOK'
  <2>1. frames' \subseteq Frame
    BY <1>4, SendUpAdds DEF ToggleSelf
  <2> QED BY <1>4, <2>1 DEF ToggleSelf, SetValue
<1>5. ASSUME NEW n \in Node, NEW target \in Node, RouteToggle(n, target) PROVE TypeOK'
  BY <1>5 DEF RouteToggle
<1>6. ASSUME NEW n \in Node, ReceiveToggle(n) PROVE TypeOK'
  <2>1. frames' \subseteq Frame
    BY <1>6, SendUpAdds DEF ReceiveToggle
  <2>2. toggles' \in [Node -> Nat]
    BY <1>6 DEF ReceiveToggle
  <2> QED BY <1>6, <2>1, <2>2 DEF ReceiveToggle, SetValue
<1>7. ASSUME NEW n \in Node, NEW f \in frames, ReceiveFrame(n, f) PROVE TypeOK'
  <2> DEFINE c == Adopted(config[n], f.config)
             W == IF c = config[n] THEN {} ELSE {c}
  <2>1. f.config \in Config /\ f.value_sequence \in Nat
    BY DEF Frame
  <2>2. c \in Config
    BY <2>1, AdoptedType
  <2>3. config' \in [Node -> Config]
    BY <1>7, <2>2 DEF ReceiveFrame
  <2>4. PICK blob \in Saved(n, W, c) : nvs' = [nvs EXCEPT ![n] = blob]
    BY <1>7 DEF ReceiveFrame
  <2>5. blob \in Config \cup {NoConfig}
    BY <2>2, <2>4, SavedType
  <2>6. value' \in [Node -> {0, 1}]
    BY <1>7 DEF ReceiveFrame
  <2>7. value_sequence' \in [Node -> Nat]
    BY <1>7, <2>1 DEF ReceiveFrame
  <2> QED BY <1>7, <2>3, <2>4, <2>5, <2>6, <2>7 DEF ReceiveFrame
<1>8. ASSUME NEW n \in Node, PeriodicSend(n) PROVE TypeOK'
  <2>1. frames' \subseteq Frame
    BY <1>8, SendUpAdds DEF PeriodicSend
  <2> QED BY <1>8, <2>1 DEF PeriodicSend
<1>9. ASSUME NEW n \in Node, BeginUpdate(n) \/ ClearHold(n) \/ StoreValue(n)
      PROVE  TypeOK'
  BY <1>9 DEF BeginUpdate, ClearHold, StoreValue
<1>10. ASSUME NEW n \in Node, HoldElapses(n) PROVE TypeOK'
  BY <1>10 DEF HoldElapses
<1>11. ASSUME NEW n \in Node, Restart(n) PROVE TypeOK'
  <2>1. PICK left \in {nvs[n]} \cup (IF FlashFaulty THEN {NoConfig} ELSE {}),
            boot \in BootConfig :
            \E read \in {left} \cup (IF FlashFaulty THEN {NoConfig} ELSE {}) :
                /\ config' = [config EXCEPT ![n] = IF read = NoConfig THEN boot ELSE read]
                /\ \/ nvs' = [nvs EXCEPT ![n] = IF read = NoConfig THEN boot ELSE read]
                   \/ FlashFaulty /\ nvs' = [nvs EXCEPT ![n] = left]
    BY <1>11 DEF Restart
  <2>2. left \in Config \cup {NoConfig} /\ boot \in Config
    BY <2>1, BootConfigType
  <2>3. config' \in [Node -> Config] /\ nvs' \in [Node -> Config \cup {NoConfig}]
    BY <2>1, <2>2
  <2>4. /\ value' \in [Node -> {0, 1}]
        /\ value_sequence' \in [Node -> Nat]
        /\ hold' \in [Node -> BOOLEAN]
        /\ pass' \in [Node -> {"none", "clear", "store"}]
        /\ late' \subseteq Node
    BY <1>11 DEF Restart
  <2> QED BY <1>11, <2>3, <2>4 DEF Restart
<1>12. ASSUME NEW n \in Node, ChangeRole(n) PROVE TypeOK'
  BY <1>12 DEF ChangeRole
<1> QED
  BY <1>1, <1>2, <1>3, <1>4, <1>5, <1>6, <1>7, <1>8, <1>9, <1>10, <1>11, <1>12 DEF Next

\* The types of all variables, for any installation.
THEOREM TypeCorrect == Spec => []TypeOK
  BY InitType, NextType, PTL DEF Spec
-----------------------------------------------------------------------------
(* How a step moves RAM and flash of one node. *)

\* A command that saves nothing leaves the configuration as it is.
LEMMA WrittenNothing ==
    ASSUME NEW c, NEW p, Written(c, p) = {}
    PROVE  AfterCommand(c, p) = c
<1>1. p.preset = Absent /\ p.kernel = Absent /\ p.activations = Absent
  BY DEF Written
<1> QED BY <1>1 DEF AfterCommand, AfterKernel, AfterPreset

\* Flash after a command: untouched, or something the command wrote, which RAM
\* supersedes; with working flash, what RAM holds.
LEMMA CommandSaves ==
    ASSUME TypeOK, NEW n \in Node, NEW p \in Command,
           NEW blob \in Saved(n, Written(config[n], p), AfterCommand(config[n], p))
    PROVE  /\ \/ blob = nvs[n]
              \/ /\ blob \in Config
                 /\ SupersedesBoth(AfterCommand(config[n], p), blob)
           /\ ~FlashFaulty => \/ blob = AfterCommand(config[n], p)
                              \/ blob = nvs[n] /\ AfterCommand(config[n], p) = config[n]
<1> DEFINE c == AfterCommand(config[n], p)
           W == Written(config[n], p)
<1>1. config[n] \in Config /\ p \in Payload
  BY CommandAssumption DEF TypeOK
<1>2. c \in Config /\ \A w \in W : w \in Config /\ SupersedesBoth(c, w)
  BY <1>1, WrittenType, CommandEffect
<1>3. SupersedesBoth(c, c)
  BY SupersedesBothReflexive
<1>4. CASE W = {}
  BY <1>4, WrittenNothing DEF Saved
<1>5. CASE W # {}
  <2> HIDE DEF c, W
  <2> QED BY <1>2, <1>3, <1>5 DEF Saved, c, W
<1> QED BY <1>4, <1>5

\* Node m moves forward and flash follows.
MovesForward(m) ==
    /\ SupersedesBoth(config'[m], config[m])
    /\ \/ nvs'[m] = nvs[m]
       \/ nvs'[m] \in Config /\ SupersedesBoth(config'[m], nvs'[m])
    /\ ~FlashFaulty => \/ nvs'[m] = config'[m]
                       \/ nvs'[m] = nvs[m] /\ config'[m] = config[m]

\* A node whose configuration and flash do not change moves nowhere.
LEMMA StillMovesForward ==
    ASSUME NEW m \in Node, config'[m] = config[m], nvs'[m] = nvs[m]
    PROVE  MovesForward(m)
  BY SupersedesBothReflexive DEF MovesForward

\* Every step of the system moves every node forward, unless it restarts it.
LEMMA StepMovesForward ==
    ASSUME TypeOK, Next, NEW m \in Node
    PROVE  MovesForward(m) \/ Restart(m)
<1> USE DEF TypeOK
<1>1. ASSUME NEW n \in Node, NEW p \in Command, MqttConfig(n, p) \/ TcpCommand(n, p)
      PROVE  MovesForward(m)
  <2> DEFINE c == AfterCommand(config[n], p)
  <2>1. PICK blob \in Saved(n, Written(config[n], p), c) :
            nvs' = [nvs EXCEPT ![n] = blob]
    BY <1>1 DEF MqttConfig, TcpCommand
  <2>2. config' = [config EXCEPT ![n] = c]
    BY <1>1 DEF MqttConfig, TcpCommand
  <2>3. CASE m = n
    <3>1. config'[m] = c /\ nvs'[m] = blob
      BY <2>1, <2>2, <2>3
    <3> QED BY <2>1, <2>3, <3>1, CommandType, CommandSaves DEF MovesForward
  <2>4. CASE m # n
    BY <2>1, <2>2, <2>4, StillMovesForward
  <2> QED BY <2>3, <2>4
<1>2. ASSUME NEW n \in Node, NEW f \in frames, ReceiveFrame(n, f)
      PROVE  MovesForward(m)
  <2> DEFINE c == Adopted(config[n], f.config)
             W == IF c = config[n] THEN {} ELSE {c}
  <2>1. PICK blob \in Saved(n, W, c) : nvs' = [nvs EXCEPT ![n] = blob]
    BY <1>2 DEF ReceiveFrame
  <2>2. config' = [config EXCEPT ![n] = c]
    BY <1>2 DEF ReceiveFrame
  <2>3. CASE m = n
    <3>1. config'[m] = c /\ nvs'[m] = blob
      BY <2>1, <2>2, <2>3
    <3>2. f.config \in Config
      BY DEF Frame
    <3>3. c \in Config /\ SupersedesBoth(c, config[n]) /\ SupersedesBoth(c, c)
      BY <3>2, AdoptedType, SupersedesBothReflexive
    <3> HIDE DEF c
    <3> QED BY <2>1, <2>3, <3>1, <3>3 DEF MovesForward, Saved
  <2>4. CASE m # n
    BY <2>1, <2>2, <2>4, StillMovesForward
  <2> QED BY <2>3, <2>4
<1>3. ASSUME NEW n \in Node, Restart(n) PROVE MovesForward(m) \/ Restart(m)
  <2>1. CASE m = n
    BY <1>3, <2>1
  <2>2. CASE m # n
    BY <1>3, <2>2, StillMovesForward DEF Restart
  <2> QED BY <2>1, <2>2
<1>4. ASSUME UNCHANGED <<config, nvs>> PROVE MovesForward(m)
  BY <1>4, StillMovesForward
<1> QED
  BY <1>1, <1>2, <1>3, <1>4
  DEF Next, ToggleSelf, RouteToggle, ReceiveToggle, PeriodicSend, BeginUpdate,
      ClearHold, StoreValue, HoldElapses, ChangeRole

\* A restart loads flash or boots afresh and saves what it booted; only one that
\* can do neither leaves flash with something else.
LEMMA RestartLoads ==
    ASSUME TypeOK, NEW m \in Node, Restart(m)
    PROVE  /\ \/ nvs'[m] = NoConfig
              \/ nvs'[m] = config'[m]
              \/ FlashFaulty /\ nvs' = nvs
           /\ ~FlashFaulty /\ nvs = config => /\ config'[m] = config[m]
                                              /\ nvs'[m] = nvs[m]
<1>1. PICK left \in {nvs[m]} \cup (IF FlashFaulty THEN {NoConfig} ELSE {}),
          boot \in BootConfig :
          \E read \in {left} \cup (IF FlashFaulty THEN {NoConfig} ELSE {}) :
              /\ config' = [config EXCEPT ![m] = IF read = NoConfig THEN boot ELSE read]
              /\ \/ nvs' = [nvs EXCEPT ![m] = IF read = NoConfig THEN boot ELSE read]
                 \/ FlashFaulty /\ nvs' = [nvs EXCEPT ![m] = left]
  BY DEF Restart
<1>2. config[m] # NoConfig
  BY ContentAssumption DEF TypeOK
<1>3. left = nvs[m] => nvs = [nvs EXCEPT ![m] = left]
  BY DEF TypeOK
<1> QED BY <1>1, <1>2, <1>3 DEF TypeOK

\* A step that is no restart of m leaves its flash behind its RAM if it was, or if
\* it writes to it.
LEMMA ForwardKeepsBehind ==
    ASSUME TypeOK, TypeOK', NEW m \in Node, MovesForward(m),
           BehindRam(m) \/ nvs'[m] # nvs[m]
    PROVE  BehindRam(m)'
<1>1. CASE nvs'[m] = nvs[m]
  <2> SUFFICES ASSUME nvs'[m] # NoConfig PROVE SupersedesBoth(config'[m], nvs'[m])
    BY DEF BehindRam
  <2>1. SupersedesBoth(config[m], nvs[m])
    BY <1>1 DEF BehindRam
  <2>2. nvs[m] \in Config /\ config[m] \in Config /\ config'[m] \in Config
    BY <1>1 DEF TypeOK
  <2> QED BY <1>1, <2>1, <2>2, SupersedesBothTransitive DEF MovesForward
<1>2. CASE nvs'[m] # nvs[m]
  BY <1>2 DEF MovesForward, BehindRam
<1> QED BY <1>1, <1>2

\* Whatever saves and loads fail, flash gets ahead of RAM only by a boot that can
\* neither read nor replace the blob, and no save leaves it there.
THEOREM NvsIsBehindRam == Spec => NvsBehindRam
<1>1. Init => \A n \in Node : BehindRam(n)
  BY SupersedesBothReflexive DEF Init, BehindRam
<1>2. TypeOK /\ TypeOK' /\ [Next]_vars =>
          \A n \in Node :
              BehindRam(n) \/ nvs'[n] # nvs[n]
                  => BehindRam(n)' \/ (FlashFaulty /\ Restart(n) /\ nvs' = nvs)
  <2> SUFFICES ASSUME TypeOK, TypeOK', [Next]_vars, NEW m \in Node,
                      BehindRam(m) \/ nvs'[m] # nvs[m]
               PROVE  BehindRam(m)' \/ (FlashFaulty /\ Restart(m) /\ nvs' = nvs)
    OBVIOUS
  <2>1. CASE UNCHANGED vars
    BY <2>1 DEF vars, BehindRam
  <2>2. CASE Restart(m)
    BY <2>2, RestartLoads, SupersedesBothReflexive DEF BehindRam
  <2>3. CASE MovesForward(m)
    BY <2>3, ForwardKeepsBehind
  <2> QED BY <2>1, <2>2, <2>3, StepMovesForward
<1> QED BY <1>1, <1>2, TypeCorrect, PTL DEF Spec, NvsBehindRam

\* With working flash, flash is RAM whenever no handler runs.
THEOREM FlashIsWrittenThrough == Spec => []WriteThrough
<1>1. Init => WriteThrough
  BY DEF Init, WriteThrough
<1>2. TypeOK /\ TypeOK' /\ WriteThrough /\ [Next]_vars => WriteThrough'
  <2> SUFFICES ASSUME TypeOK, TypeOK', WriteThrough, [Next]_vars, ~FlashFaulty
               PROVE  nvs' = config'
    BY DEF WriteThrough
  <2>1. nvs = config
    BY DEF WriteThrough
  <2>2. ASSUME NEW m \in Node PROVE nvs'[m] = config'[m]
    <3>1. CASE UNCHANGED vars
      BY <2>1, <3>1 DEF vars
    <3>2. CASE Restart(m)
      BY <2>1, <3>2, RestartLoads
    <3>3. CASE MovesForward(m)
      BY <2>1, <3>3 DEF MovesForward
    <3> QED BY <3>1, <3>2, <3>3, StepMovesForward
  <2> QED BY <2>2 DEF TypeOK
<1> QED BY <1>1, <1>2, TypeCorrect, PTL DEF Spec

\* No node's configuration goes back or sideways but by losing its flash.
THEOREM ConfigOnlyForward == Spec => OnlyForward
<1>1. TypeOK /\ WriteThrough /\ [Next]_vars =>
          \A n \in Node : \/ SupersedesBoth(config'[n], config[n])
                          \/ FlashFaulty /\ Restart(n)
  <2> SUFFICES ASSUME TypeOK, WriteThrough, [Next]_vars, NEW n \in Node
               PROVE  \/ SupersedesBoth(config'[n], config[n])
                      \/ FlashFaulty /\ Restart(n)
    OBVIOUS
  <2>1. CASE UNCHANGED vars
    BY <2>1, SupersedesBothReflexive DEF vars
  <2>2. CASE Restart(n)
    BY <2>2, RestartLoads, SupersedesBothReflexive DEF WriteThrough
  <2>3. CASE MovesForward(n)
    BY <2>3 DEF MovesForward
  <2> QED BY <2>1, <2>2, <2>3, StepMovesForward
<1> QED BY <1>1, TypeCorrect, FlashIsWrittenThrough, PTL DEF Spec, OnlyForward
-----------------------------------------------------------------------------
(* Agreement. With one commander and working flash, every version about is   *)
(* either the commander's or numbered below it. That is inductive: a command *)
(* creates a version above all others, and nothing else creates any.         *)

\* lead outnumbers the versions in V, and from low upwards a number names one.
Led(V, lead, low) ==
    /\ \A v \in V : v.seq <= lead.seq
    /\ \A v, w \in V : v.seq >= low => SameVersion(v, w)

\* A lead that stays put or is outnumbered by its own next version goes on
\* leading, provided nothing else is new.
LEMMA LedStep ==
    ASSUME NEW Body, NEW V \in SUBSET Version(Body), NEW V2 \in SUBSET Version(Body),
           NEW lead \in V, NEW lead2 \in Version(Body), NEW low \in Nat,
           Led(V, lead, low), Supersedes(lead2, lead), V2 \subseteq V \cup {lead2}
    PROVE  Led(V2, lead2, low)
<1>1. \A v \in V : v.seq \in Nat /\ v.seq <= lead2.seq
  BY DEF Led, Supersedes, Version
<1>2. lead2 \in V \/ \A v \in V : v.seq < lead2.seq
  BY DEF Led, Supersedes, Version
<1>3. \A v \in V2 : v.seq <= lead2.seq
  BY <1>1 DEF Version
<1>4. ASSUME NEW v \in V2, NEW w \in V2, v.seq >= low PROVE SameVersion(v, w)
  <2>1. CASE v \in V /\ w \in V
    BY <1>4, <2>1 DEF Led
  <2>2. CASE lead2 \in V
    BY <1>4, <2>1, <2>2
  <2>3. CASE lead2 \notin V /\ ~(v \in V /\ w \in V)
    BY <1>1, <1>2, <2>3 DEF SameVersion, Version
  <2> QED BY <2>1, <2>2, <2>3
<1> QED BY <1>3, <1>4 DEF Led

Kernels == {d.kernel : d \in Copies}

ActivationLists == {d.activations : d \in Copies}

\* Every copy about, on a node or in a frame, is a configuration.
LEMMA CopiesType ==
    ASSUME TypeOK
    PROVE  /\ Copies \in SUBSET Config
           /\ Kernels \in SUBSET Version(Kernel)
           /\ ActivationLists \in SUBSET Version(Rules)
<1>1. Copies \in SUBSET Config
  BY DEF TypeOK, Copies, Frame
<1> QED BY <1>1, ConfigParts DEF Kernels, ActivationLists

\* A step that changes one node's configuration to C and sends only C adds no
\* copy but C.
LEMMA CopiesAfter ==
    ASSUME TypeOK, NEW n \in Node, NEW C, config' = [config EXCEPT ![n] = C],
           \A f \in frames' : f \in frames \/ f.config = C
    PROVE  Copies' \subseteq Copies \cup {C}
<1> SUFFICES ASSUME NEW d \in Copies' PROVE d \in Copies \cup {C}
  OBVIOUS
<1>1. CASE \E m \in Node : d = config'[m]
  BY <1>1 DEF TypeOK, Copies
<1>2. CASE \E f \in frames' : d = f.config
  BY <1>2 DEF Copies
<1> QED BY <1>1, <1>2 DEF Copies

\* Every version about after a step was about before it or is the commander's
\* new one.
LEMMA StepOrigin ==
    ASSUME TypeOK, WriteThrough, ~FlashFaulty, [Next]_vars,
           NEW c \in Node, Commanded \cup TcpOpen = {c}
    PROVE  /\ Kernels' \subseteq Kernels \cup {config'[c].kernel}
           /\ ActivationLists' \subseteq ActivationLists \cup {config'[c].activations}
           /\ SupersedesBoth(config'[c], config[c])
<1> DEFINE Goal == /\ Kernels' \subseteq Kernels \cup {config'[c].kernel}
                   /\ ActivationLists' \subseteq ActivationLists \cup {config'[c].activations}
<1>1. SupersedesBoth(config'[c], config[c])
  <2>1. CASE UNCHANGED vars
    BY <2>1, SupersedesBothReflexive DEF vars
  <2>2. CASE Restart(c)
    BY <2>2, RestartLoads, SupersedesBothReflexive DEF WriteThrough
  <2>3. CASE MovesForward(c)
    BY <2>3 DEF MovesForward
  <2> QED BY <2>1, <2>2, <2>3, StepMovesForward
<1>2. ASSUME Copies' \subseteq Copies \cup {config'[c]} PROVE Goal
  BY <1>2 DEF Kernels, ActivationLists
<1>3. ASSUME NEW n \in Node, NEW p \in Command, MqttConfig(n, p) \/ TcpCommand(n, p)
      PROVE  Goal
  <2> DEFINE C == AfterCommand(config[n], p)
  <2>1. n = c
    BY <1>3 DEF MqttConfig, TcpCommand
  <2>2. config' = [config EXCEPT ![n] = C] /\ config'[c] = C
    BY <1>3, <2>1 DEF MqttConfig, TcpCommand, TypeOK
  <2>3. \A f \in frames' : f \in frames \/ f.config = C
    <3>1. frames' = frames \/ \E s \in Nat : Broadcast(n, C, s)
      BY <1>3 DEF MqttConfig, TcpCommand, TypeOK
    <3>2. C \in Config /\ frames \subseteq Frame
      BY CommandType DEF TypeOK
    <3> HIDE DEF C
    <3> QED BY <3>1, <3>2, BroadcastAdds
  <2> HIDE DEF C
  <2> QED BY <1>2, <2>2, <2>3, CopiesAfter
<1>4. ASSUME NEW n \in Node, NEW f \in frames, ReceiveFrame(n, f) PROVE Goal
  <2> DEFINE C == Adopted(config[n], f.config)
  <2>1. config' = [config EXCEPT ![n] = C] /\ frames' \subseteq frames
    BY <1>4 DEF ReceiveFrame
  <2>2. f.config \in Config /\ config[n] \in Config
    BY DEF TypeOK, Frame
  <2>3. f.config \in Copies /\ config[n] \in Copies
    BY DEF Copies
  <2>4. C.kernel \in Kernels /\ C.activations \in ActivationLists
    BY <2>2, <2>3, AdoptedType DEF Kernels, ActivationLists
  <2> HIDE DEF C
  <2>5. Copies' \subseteq Copies \cup {C}
    BY <2>1, CopiesAfter
  <2> QED BY <2>4, <2>5 DEF Kernels, ActivationLists
<1>5. ASSUME NEW n \in Node,
             ToggleSelf(n) \/ ReceiveToggle(n) \/ PeriodicSend(n)
      PROVE  Goal
  <2>1. config[n] \in Config /\ value_sequence[n] \in Nat /\ frames \subseteq Frame
    BY DEF TypeOK
  <2>2. \E s \in Nat : SendUp(n, config[n], s)
    BY <1>5, <2>1 DEF ToggleSelf, ReceiveToggle, PeriodicSend
  <2>3. \A f \in frames' : f \in frames \/ f.config = config[n]
    BY <2>1, <2>2, SendUpAdds
  <2>4. config' = config
    BY <1>5 DEF ToggleSelf, ReceiveToggle, PeriodicSend
  <2>5. Copies' \subseteq Copies
    BY <2>3, <2>4 DEF Copies
  <2> QED BY <1>2, <2>5
<1>6. ASSUME config' = config, frames' \subseteq frames PROVE Goal
  <2>1. Copies' \subseteq Copies
    BY <1>6 DEF Copies
  <2> QED BY <1>2, <2>1
<1>7. ASSUME NEW n \in Node, Restart(n) PROVE Goal
  <2>1. config'[n] = config[n]
    BY <1>7, RestartLoads DEF WriteThrough
  <2>2. config' = config
    BY <1>7, <2>1 DEF Restart, TypeOK
  <2> QED BY <1>6, <1>7, <2>2 DEF Restart
<1>8. Goal
  BY <1>3, <1>4, <1>5, <1>6, <1>7
  DEF Next, vars, RouteToggle, BeginUpdate, ClearHold, StoreValue, HoldElapses, ChangeRole
<1> QED BY <1>1, <1>8

\* The inductive invariant behind Agreement and CommanderLeads.
LedByCommander ==
    ~FlashFaulty =>
        \A c \in Node : Commanded \cup TcpOpen = {c} =>
            /\ Led(Kernels, config[c].kernel, 1)
            /\ Led(ActivationLists, config[c].activations, 0)

\* Nodes boot with numbers 0, which every node leads.
LEMMA InitLed == Init => LedByCommander
<1> SUFFICES ASSUME Init, NEW c \in Node
             PROVE  /\ Led(Kernels, config[c].kernel, 1)
                    /\ Led(ActivationLists, config[c].activations, 0)
  BY DEF LedByCommander
<1>1. \A d \in Copies : d \in BootConfig
  BY DEF Init, Copies
<1>2. \A v \in Kernels : v.seq = 0
  BY <1>1, BootConfigType DEF Kernels
<1>3. \A v \in ActivationLists : v = [seq |-> 0, body |-> NoRules]
  BY <1>1, BootConfigType DEF ActivationLists
<1>4. config[c].kernel \in Kernels /\ config[c].activations \in ActivationLists
  BY DEF Kernels, ActivationLists, Copies
<1>5. Led(Kernels, config[c].kernel, 1)
  BY <1>2, <1>4 DEF Led
<1>6. Led(ActivationLists, config[c].activations, 0)
  BY <1>3, <1>4 DEF Led, SameVersion
<1> QED BY <1>5, <1>6

\* Every step of every handler keeps the commander in the lead.
LEMMA NextLed ==
    TypeOK /\ TypeOK' /\ WriteThrough /\ LedByCommander /\ [Next]_vars
        => LedByCommander'
<1> SUFFICES ASSUME TypeOK, TypeOK', WriteThrough, LedByCommander, [Next]_vars,
                    ~FlashFaulty, NEW c \in Node, Commanded \cup TcpOpen = {c}
             PROVE  /\ Led(Kernels', config'[c].kernel, 1)
                    /\ Led(ActivationLists', config'[c].activations, 0)
  BY DEF LedByCommander, Led
<1>1. /\ Led(Kernels, config[c].kernel, 1)
      /\ Led(ActivationLists, config[c].activations, 0)
  BY DEF LedByCommander
<1>2. /\ Kernels' \subseteq Kernels \cup {config'[c].kernel}
      /\ ActivationLists' \subseteq ActivationLists \cup {config'[c].activations}
      /\ Supersedes(config'[c].kernel, config[c].kernel)
      /\ Supersedes(config'[c].activations, config[c].activations)
  BY StepOrigin DEF SupersedesBoth
<1>3. /\ Kernels \in SUBSET Version(Kernel)
      /\ ActivationLists \in SUBSET Version(Rules)
  BY CopiesType
<1>4. config'[c] \in Config
  BY DEF TypeOK
<1>5. /\ config'[c].kernel \in Version(Kernel)
      /\ config'[c].activations \in Version(Rules)
  BY <1>4, ConfigParts
<1>6. config[c].kernel \in Kernels /\ config[c].activations \in ActivationLists
  BY DEF Kernels, ActivationLists, Copies
<1>7. /\ Kernels' \in SUBSET Version(Kernel)
      /\ ActivationLists' \in SUBSET Version(Rules)
  BY <1>2, <1>3, <1>5
<1>8. Led(Kernels', config'[c].kernel, 1)
  BY <1>1, <1>2, <1>3, <1>5, <1>6, <1>7, LedStep
<1>9. Led(ActivationLists', config'[c].activations, 0)
  BY <1>1, <1>2, <1>3, <1>5, <1>6, <1>7, LedStep
<1> QED BY <1>8, <1>9

\* Being led by the commander is what Agreement and CommanderLeads need.
LEMMA LedMeansAgreement ==
    TypeOK /\ LedByCommander => Agreement /\ CommanderLeads
<1> SUFFICES ASSUME TypeOK, LedByCommander, OneCommander
             PROVE  Agreement /\ CommanderLeads
  BY DEF Agreement, CommanderLeads
<1>1. PICK c \in Node : Commanded \cup TcpOpen = {c}
  BY DEF OneCommander
<1>2. /\ Led(Kernels, config[c].kernel, 1)
      /\ Led(ActivationLists, config[c].activations, 0)
  BY <1>1 DEF LedByCommander, OneCommander
<1>3. \A d \in Copies : /\ d.kernel \in Kernels
                        /\ d.activations \in ActivationLists
                        /\ d.kernel.seq \in Nat
                        /\ d.activations.seq \in Nat
  BY CopiesType, ConfigParts DEF Kernels, ActivationLists
<1>4. Agreement
  BY <1>2, <1>3 DEF Agreement, Led
<1>5. CommanderLeads
  BY <1>1, <1>2, <1>3 DEF CommanderLeads, Led
<1> QED BY <1>4, <1>5

\* One number, one configuration: on every node, in every frame.
THEOREM NodesAgree == Spec => []Agreement
<1>1. Spec => []LedByCommander
  BY InitLed, NextLed, TypeCorrect, FlashIsWrittenThrough, PTL DEF Spec
<1> QED BY <1>1, LedMeansAgreement, TypeCorrect, PTL

\* Nothing about outnumbers the commanding node.
THEOREM NobodyOvertakesCommander == Spec => []CommanderLeads
<1>1. Spec => []LedByCommander
  BY InitLed, NextLed, TypeCorrect, FlashIsWrittenThrough, PTL DEF Spec
<1> QED BY <1>1, LedMeansAgreement, TypeCorrect, PTL
-----------------------------------------------------------------------------
(* The spreading implements VersionGossip, for each part by itself. *)

\* What a step does to the configurations: nothing, one node adopts what a frame
\* carries, or the commander takes a command. Nothing else gets about.
LEMMA StepKinds ==
    ASSUME TypeOK, WriteThrough, ~FlashFaulty, [Next]_vars,
           NEW c \in Node, Commanded \cup TcpOpen = {c}
    PROVE  \/ config' = config /\ Copies' \subseteq Copies
           \/ \E n \in Node, f \in frames :
                  LET C == Adopted(config[n], f.config)
                  IN  config' = [config EXCEPT ![n] = C] /\ Copies' \subseteq Copies \cup {C}
           \/ \E C \in Config :
                  /\ config' = [config EXCEPT ![c] = C]
                  /\ Copies' \subseteq Copies \cup {C}
                  /\ SupersedesBoth(C, config[c])
<1>1. ASSUME NEW n \in Node, NEW p \in Command, MqttConfig(n, p) \/ TcpCommand(n, p)
      PROVE  \E C \in Config : /\ config' = [config EXCEPT ![c] = C]
                               /\ Copies' \subseteq Copies \cup {C}
                               /\ SupersedesBoth(C, config[c])
  <2> DEFINE C == AfterCommand(config[n], p)
  <2>1. n = c /\ config' = [config EXCEPT ![n] = C]
    BY <1>1 DEF MqttConfig, TcpCommand
  <2>2. C \in Config /\ SupersedesBoth(C, config[n]) /\ frames \subseteq Frame
    BY CommandType DEF TypeOK
  <2>3. frames' = frames \/ \E s \in Nat : Broadcast(n, C, s)
    BY <1>1 DEF MqttConfig, TcpCommand, TypeOK
  <2> HIDE DEF C
  <2>4. \A f \in frames' : f \in frames \/ f.config = C
    BY <2>2, <2>3, BroadcastAdds
  <2>5. Copies' \subseteq Copies \cup {C}
    BY <2>1, <2>4, CopiesAfter
  <2> QED BY <2>1, <2>2, <2>5
<1>2. ASSUME NEW n \in Node, NEW f \in frames, ReceiveFrame(n, f)
      PROVE  LET C == Adopted(config[n], f.config)
             IN  config' = [config EXCEPT ![n] = C] /\ Copies' \subseteq Copies \cup {C}
  <2> DEFINE C == Adopted(config[n], f.config)
  <2>1. config' = [config EXCEPT ![n] = C] /\ frames' \subseteq frames
    BY <1>2 DEF ReceiveFrame
  <2> HIDE DEF C
  <2>2. Copies' \subseteq Copies \cup {C}
    BY <2>1, CopiesAfter
  <2> QED BY <2>1, <2>2 DEF C
<1>3. ASSUME NEW n \in Node,
             ToggleSelf(n) \/ ReceiveToggle(n) \/ PeriodicSend(n)
      PROVE  config' = config /\ Copies' \subseteq Copies
  <2>1. config[n] \in Config /\ value_sequence[n] \in Nat /\ frames \subseteq Frame
    BY DEF TypeOK
  <2>2. \E s \in Nat : SendUp(n, config[n], s)
    BY <1>3, <2>1 DEF ToggleSelf, ReceiveToggle, PeriodicSend
  <2>3. \A f \in frames' : f \in frames \/ f.config = config[n]
    BY <2>1, <2>2, SendUpAdds
  <2>4. config' = config
    BY <1>3 DEF ToggleSelf, ReceiveToggle, PeriodicSend
  <2> QED BY <2>3, <2>4 DEF Copies
<1>4. ASSUME NEW n \in Node, Restart(n) PROVE config' = config /\ Copies' \subseteq Copies
  <2>1. config'[n] = config[n]
    BY <1>4, RestartLoads DEF WriteThrough
  <2>2. config' = config /\ frames' = frames
    BY <1>4, <2>1 DEF Restart, TypeOK
  <2> QED BY <2>2 DEF Copies
<1>5. ASSUME UNCHANGED <<config, frames>> PROVE config' = config /\ Copies' \subseteq Copies
  BY <1>5 DEF Copies
<1>6. CASE \E n \in Node, p \in Command : MqttConfig(n, p) \/ TcpCommand(n, p)
  BY <1>1, <1>6
<1>7. CASE \E n \in Node, f \in frames : ReceiveFrame(n, f)
  BY <1>2, <1>7
<1>8. CASE \/ \E n \in Node : ToggleSelf(n) \/ ReceiveToggle(n) \/ PeriodicSend(n) \/ Restart(n)
           \/ UNCHANGED <<config, frames>>
  BY <1>3, <1>4, <1>5, <1>8
<1> QED BY <1>6, <1>7, <1>8 DEF Next, vars, RouteToggle, BeginUpdate, ClearHold, StoreValue, HoldElapses, ChangeRole

\* A first boot issues no version of either part.
LEMMA InitGossips == Init => KernelGossip!Init /\ ActivationGossip!Init
<1> SUFFICES ASSUME Init PROVE KernelGossip!Init /\ ActivationGossip!Init
  OBVIOUS
<1>1. Copies = {config[n] : n \in Node} /\ \A n \in Node : config[n] \in BootConfig
  BY DEF Init, Copies
<1>2. \A n \in Node : /\ config[n].kernel \in [seq : {0}, body : Kernel]
                      /\ config[n].activations \in [seq : {0}, body : Rules]
  BY <1>1, ContentAssumption DEF BootConfig
<1> QED BY <1>1, <1>2 DEF KernelGossip!Init, ActivationGossip!Init

\* A command that sets the kernel issues a version, a frame that is newer has it adopted,
\* and anything else at most forgets.
LEMMA KernelStep ==
    ASSUME TypeOK, TypeOK', WriteThrough, ~FlashFaulty, LedByCommander, [Next]_vars,
           NEW c \in Node, Commanded \cup TcpOpen = {c}
    PROVE  [KernelGossip!Next]_(KernelGossip!vars)
<1> DEFINE held == [n \in Node |-> config[n].kernel]
<1>1. /\ Kernels \in SUBSET Version(Kernel)
      /\ Led(Kernels, config[c].kernel, 1)
  BY CopiesType DEF LedByCommander
<1>2. \A n \in Node : config[n].kernel \in Kernels /\ config'[n].kernel \in Kernels'
  BY DEF Kernels, Copies
<1>3. ASSUME config' = config, Kernels' \subseteq Kernels PROVE KernelGossip!Forget
  BY <1>2, <1>3 DEF KernelGossip!Forget, Kernels
<1>4. ASSUME config' = config, Copies' \subseteq Copies PROVE KernelGossip!Forget
  BY <1>3, <1>4 DEF Kernels
<1>5. ASSUME NEW n \in Node, NEW f \in frames,
             config' = [config EXCEPT ![n] = Adopted(config[n], f.config)],
             Copies' \subseteq Copies \cup {Adopted(config[n], f.config)}
      PROVE  KernelGossip!Adopt(n) \/ KernelGossip!Forget
  <2> DEFINE C == Adopted(config[n], f.config)
             v == f.config.kernel
  <2>1. v \in Kernels
    BY DEF Kernels, Copies
  <2>2. C.kernel = IF v.seq > config[n].kernel.seq THEN v ELSE config[n].kernel
    BY DEF Adopted, Newer
  <2>3. Kernels' \subseteq Kernels
    BY <1>2, <1>5, <2>1, <2>2 DEF Kernels
  <2>4. held' = [held EXCEPT ![n] = C.kernel]
    BY <1>5 DEF TypeOK
  <2>5. CASE v.seq > config[n].kernel.seq
    BY <1>2, <2>1, <2>2, <2>3, <2>4, <2>5
    DEF KernelGossip!Adopt, KernelGossip!Holding, Kernels
  <2>6. CASE ~(v.seq > config[n].kernel.seq)
    BY <1>2, <2>2, <2>3, <2>4, <2>6 DEF KernelGossip!Forget, Kernels
  <2> QED BY <2>5, <2>6
<1>6. ASSUME NEW C \in Config, config' = [config EXCEPT ![c] = C],
             Copies' \subseteq Copies \cup {C}, SupersedesBoth(C, config[c])
      PROVE  KernelGossip!Issue(c) \/ KernelGossip!Forget
  <2>1. Kernels' \subseteq Kernels \cup {C.kernel}
    BY <1>6 DEF Kernels
  <2>2. held' = [held EXCEPT ![c] = C.kernel] /\ held'[c] = C.kernel
    BY <1>6 DEF TypeOK
  <2>3. CASE C.kernel = config[c].kernel
    BY <1>2, <2>1, <2>2, <2>3 DEF KernelGossip!Forget, Kernels
  <2>4. CASE C.kernel.seq > config[c].kernel.seq
    <3>1. \A w \in Kernels : C.kernel.seq > w.seq
      BY <1>1, <1>2, <2>4, ConfigParts DEF Led, Version
    <3>2. C.kernel \in KernelGossip!Version
      BY ConfigParts DEF Version, KernelGossip!Version
    <3> QED BY <1>2, <2>1, <2>2, <3>1, <3>2
            DEF KernelGossip!Issue, KernelGossip!Holding, Kernels
  <2> QED BY <1>6, <2>3, <2>4 DEF SupersedesBoth, Supersedes
<1> QED BY <1>4, <1>5, <1>6, StepKinds DEF KernelGossip!Next

\* The same for the rules.
LEMMA ActivationStep ==
    ASSUME TypeOK, TypeOK', WriteThrough, ~FlashFaulty, LedByCommander, [Next]_vars,
           NEW c \in Node, Commanded \cup TcpOpen = {c}
    PROVE  [ActivationGossip!Next]_(ActivationGossip!vars)
<1> DEFINE held == [n \in Node |-> config[n].activations]
<1>1. /\ ActivationLists \in SUBSET Version(Rules)
      /\ Led(ActivationLists, config[c].activations, 0)
  BY CopiesType DEF LedByCommander
<1>2. \A n \in Node : config[n].activations \in ActivationLists /\ config'[n].activations \in ActivationLists'
  BY DEF ActivationLists, Copies
<1>3. ASSUME config' = config, ActivationLists' \subseteq ActivationLists PROVE ActivationGossip!Forget
  BY <1>2, <1>3 DEF ActivationGossip!Forget, ActivationLists
<1>4. ASSUME config' = config, Copies' \subseteq Copies PROVE ActivationGossip!Forget
  BY <1>3, <1>4 DEF ActivationLists
<1>5. ASSUME NEW n \in Node, NEW f \in frames,
             config' = [config EXCEPT ![n] = Adopted(config[n], f.config)],
             Copies' \subseteq Copies \cup {Adopted(config[n], f.config)}
      PROVE  ActivationGossip!Adopt(n) \/ ActivationGossip!Forget
  <2> DEFINE C == Adopted(config[n], f.config)
             v == f.config.activations
  <2>1. v \in ActivationLists
    BY DEF ActivationLists, Copies
  <2>2. C.activations = IF v.seq > config[n].activations.seq THEN v ELSE config[n].activations
    BY DEF Adopted, Newer
  <2>3. ActivationLists' \subseteq ActivationLists
    BY <1>2, <1>5, <2>1, <2>2 DEF ActivationLists
  <2>4. held' = [held EXCEPT ![n] = C.activations]
    BY <1>5 DEF TypeOK
  <2>5. CASE v.seq > config[n].activations.seq
    BY <1>2, <2>1, <2>2, <2>3, <2>4, <2>5
    DEF ActivationGossip!Adopt, ActivationGossip!Holding, ActivationLists
  <2>6. CASE ~(v.seq > config[n].activations.seq)
    BY <1>2, <2>2, <2>3, <2>4, <2>6 DEF ActivationGossip!Forget, ActivationLists
  <2> QED BY <2>5, <2>6
<1>6. ASSUME NEW C \in Config, config' = [config EXCEPT ![c] = C],
             Copies' \subseteq Copies \cup {C}, SupersedesBoth(C, config[c])
      PROVE  ActivationGossip!Issue(c) \/ ActivationGossip!Forget
  <2>1. ActivationLists' \subseteq ActivationLists \cup {C.activations}
    BY <1>6 DEF ActivationLists
  <2>2. held' = [held EXCEPT ![c] = C.activations] /\ held'[c] = C.activations
    BY <1>6 DEF TypeOK
  <2>3. CASE C.activations = config[c].activations
    BY <1>2, <2>1, <2>2, <2>3 DEF ActivationGossip!Forget, ActivationLists
  <2>4. CASE C.activations.seq > config[c].activations.seq
    <3>1. \A w \in ActivationLists : C.activations.seq > w.seq
      BY <1>1, <1>2, <2>4, ConfigParts DEF Led, Version
    <3>2. C.activations \in ActivationGossip!Version
      BY ConfigParts DEF Version, ActivationGossip!Version
    <3> QED BY <1>2, <2>1, <2>2, <3>1, <3>2
            DEF ActivationGossip!Issue, ActivationGossip!Holding, ActivationLists
  <2> QED BY <1>6, <2>3, <2>4 DEF SupersedesBoth, Supersedes
<1> QED BY <1>4, <1>5, <1>6, StepKinds DEF ActivationGossip!Next

\* With one commander and working flash, kernels spread as VersionGossip says: whatever
\* frames get lost, late or out of order, whoever is root and whichever nodes reboot, a
\* node only ever moves to a kernel with a higher number that is about, and only the
\* commander creates one.
THEOREM KernelsGossip == OneCommander => (Spec => ImplementsKernelGossip)
<1> SUFFICES ASSUME OneCommander PROVE Spec => ImplementsKernelGossip
  OBVIOUS
<1>1. Spec => []LedByCommander
  BY InitLed, NextLed, TypeCorrect, FlashIsWrittenThrough, PTL DEF Spec
<1>2. TypeOK /\ TypeOK' /\ WriteThrough /\ LedByCommander /\ [Next]_vars
          => [KernelGossip!Next]_(KernelGossip!vars)
  BY KernelStep DEF OneCommander
<1> QED BY <1>1, <1>2, InitGossips, TypeCorrect, FlashIsWrittenThrough, PTL
        DEF Spec, ImplementsKernelGossip, KernelGossip!Spec

\* So do the rule lists.
THEOREM ActivationsGossip == OneCommander => (Spec => ImplementsActivationGossip)
<1> SUFFICES ASSUME OneCommander PROVE Spec => ImplementsActivationGossip
  OBVIOUS
<1>1. Spec => []LedByCommander
  BY InitLed, NextLed, TypeCorrect, FlashIsWrittenThrough, PTL DEF Spec
<1>2. TypeOK /\ TypeOK' /\ WriteThrough /\ LedByCommander /\ [Next]_vars
          => [ActivationGossip!Next]_(ActivationGossip!vars)
  BY ActivationStep DEF OneCommander
<1> QED BY <1>1, <1>2, InitGossips, TypeCorrect, FlashIsWrittenThrough, PTL
        DEF Spec, ImplementsActivationGossip, ActivationGossip!Spec
-----------------------------------------------------------------------------
(* The hold. A pass of update_state that is under way and into which no toggle  *)
(* has fallen works on a node whose value is not held.                          *)

PassUnheld == \A n \in Node : pass[n] # "none" /\ n \notin late => ~hold[n]

\* No handler and no step of a pass puts a pass to work on a held value, but a
\* toggle that falls into it.
LEMMA NextUnheld == TypeOK /\ PassUnheld /\ [Next]_vars => PassUnheld'
<1> SUFFICES ASSUME TypeOK, PassUnheld, [Next]_vars, NEW m \in Node,
                    pass'[m] # "none", m \notin late'
             PROVE  ~hold'[m]
  BY DEF PassUnheld
<1> USE DEF TypeOK, PassUnheld
<1>1. ASSUME NEW n \in Node, ToggleSelf(n) \/ ReceiveToggle(n) PROVE ~hold'[m]
  BY <1>1 DEF ToggleSelf, ReceiveToggle, SetValue
<1>2. ASSUME NEW n \in Node, BeginUpdate(n) PROVE ~hold'[m]
  BY <1>2 DEF BeginUpdate
<1>3. ASSUME NEW n \in Node, ClearHold(n) PROVE ~hold'[m]
  BY <1>3 DEF ClearHold
<1>4. ASSUME NEW n \in Node, StoreValue(n) PROVE ~hold'[m]
  BY <1>4 DEF StoreValue
<1>5. ASSUME NEW n \in Node, HoldElapses(n) PROVE ~hold'[m]
  BY <1>5 DEF HoldElapses
<1>6. ASSUME NEW n \in Node, Restart(n) PROVE ~hold'[m]
  BY <1>6 DEF Restart
<1>7. ASSUME UNCHANGED <<hold, pass, late>> PROVE ~hold'[m]
  BY <1>7
<1> QED BY <1>1, <1>2, <1>3, <1>4, <1>5, <1>6, <1>7
        DEF Next, vars, MqttConfig, TcpCommand, RouteToggle, ReceiveFrame,
            PeriodicSend, ChangeRole

\* What may change a held value, and what may end the hold.
LEMMA HeldSteps ==
    ASSUME TypeOK, PassUnheld, [Next]_vars, NEW m \in Node,
           hold[m], m \notin late, ~Restart(m)
    PROVE  /\ value'[m] # value[m] => value_sequence'[m] > value_sequence[m]
           /\ ~hold'[m] => HoldElapses(m)
<1> DEFINE Goal == /\ value'[m] # value[m] => value_sequence'[m] > value_sequence[m]
                   /\ ~hold'[m] => HoldElapses(m)
<1> USE DEF TypeOK, PassUnheld
<1>1. ASSUME NEW n \in Node, NEW p \in Command, MqttConfig(n, p) PROVE Goal
  BY <1>1 DEF MqttConfig
<1>2. ASSUME NEW n \in Node, NEW p \in Command, TcpCommand(n, p) PROVE Goal
  BY <1>2 DEF TcpCommand
<1>3. ASSUME NEW n \in Node, ToggleSelf(n) \/ ReceiveToggle(n) PROVE Goal
  BY <1>3 DEF ToggleSelf, ReceiveToggle, SetValue
<1>4. ASSUME NEW n \in Node, NEW f \in frames, ReceiveFrame(n, f) PROVE Goal
  <2>1. f.value_sequence \in Nat
    BY DEF Frame
  <2> QED BY <1>4, <2>1 DEF ReceiveFrame
<1>5. ASSUME NEW n \in Node, ClearHold(n) PROVE Goal
  BY <1>5 DEF ClearHold
<1>6. ASSUME NEW n \in Node, StoreValue(n) PROVE Goal
  BY <1>6 DEF StoreValue
<1>7. ASSUME NEW n \in Node, HoldElapses(n) PROVE Goal
  <2>1. CASE n = m
    BY <1>7, <2>1 DEF HoldElapses
  <2>2. CASE n # m
    BY <1>7, <2>2 DEF HoldElapses
  <2> QED BY <2>1, <2>2
<1>8. ASSUME NEW n \in Node, Restart(n) PROVE Goal
  BY <1>8 DEF Restart
<1>9. ASSUME UNCHANGED <<value, hold>> PROVE Goal
  BY <1>9
<1> QED BY <1>1, <1>2, <1>3, <1>4, <1>5, <1>6, <1>7, <1>8, <1>9
        DEF Next, vars, RouteToggle, PeriodicSend, BeginUpdate, ChangeRole

\* A held value is the automaton's to change, and the hold the automaton's to clear,
\* only for a pass that was under way when the value was toggled.
THEOREM HeldValuesStay == Spec => HeldAgainstAutomaton
<1>1. Init => PassUnheld
  BY DEF Init, PassUnheld
<1>2. TypeOK /\ PassUnheld /\ [Next]_vars =>
          \A n \in Node : hold[n] /\ n \notin late /\ ~Restart(n)
              => /\ value'[n] # value[n] => value_sequence'[n] > value_sequence[n]
                 /\ ~hold'[n] => HoldElapses(n)
  BY HeldSteps
<1> QED BY <1>1, <1>2, NextUnheld, TypeCorrect, PTL DEF Spec, HeldAgainstAutomaton
=============================================================================
