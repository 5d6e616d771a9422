CONSTANTS
    CheckInterval = 1
    ReconnectAfter = 1
    RestartAfter = 3
    PublishInterval = 2
    Never = Never
    MaxLag = 1
    MaxFailures = 1
    MaxTcpClients = 1
SPECIFICATION FairSpec
INVARIANTS TypeOK ForgetsRoot KnownToRun
PROPERTIES RestartGrace WatchdogActs ClientComesBack ClientPauses RequestsServed TopologyServed
