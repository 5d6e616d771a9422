\* Three nodes, two of which may be root, one commanded; every command, every mesh fault;
\* also the refinement of VersionGossip.
CONSTANTS
    Node = {n1, n2, n3}
    RootCapable = {n1, n2}
    Commanded = {n1}
    TcpOpen = {n1}
    Kernel = {k1, k2}
    Rules = {r0, r1}
    NoRules = r0
    NoConfig = NoConfig
    Absent = Absent
    Command <- ConfigCommands
    Updating = {}
    FlashFaulty = FALSE
    MeshFaulty = TRUE
    MaxKernelSeq = 2
    MaxActivationSeq = 1
    MaxValueSeq = 0
    MaxFrames = 2
    MaxToggles = 0
    k1 = k1
    k2 = k2
    r1 = r1
SPECIFICATION Spec
VIEW BesidesValue
INVARIANTS WriteThrough Agreement CommanderLeads
PROPERTIES ImplementsKernelGossip ImplementsActivationGossip
