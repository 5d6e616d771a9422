\* Two nodes: toggles, resets and value overrides, no configuration.
CONSTANTS
    Node = {n1, n2}
    RootCapable = {n1, n2}
    Commanded = {n1, n2}
    TcpOpen = {n1}
    Kernel = {k1}
    Rules = {r0}
    NoRules = r0
    NoConfig = NoConfig
    Absent = Absent
    Command <- ValueCommands
    Updating = {n1}
    FlashFaulty = FALSE
    MeshFaulty = TRUE
    MaxKernelSeq = 0
    MaxActivationSeq = 0
    MaxValueSeq = 3
    MaxFrames = 2
    MaxToggles = 1
    k1 = k1
    k2 = k2
    r1 = r1
SPECIFICATION Spec
INVARIANTS TypeOK
PROPERTIES HeldAgainstAutomaton
