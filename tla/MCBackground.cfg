SPECIFICATION SpecBackground
CONSTANTS
    fed = fed
    app = app
    gateway = gateway
    w1 = w1
    w2 = w2
    Federation = {}
    Appservice = {app}
    Push = {gateway}
    Worker = {w1, w2}
    Key = {1}
    Flush = 0
    NoDest = NoDest
    shard_id <- TwoShards
    DEQUEUE_LIMIT = 1
    startup_netburst = TRUE
    startup_netburst_keep <- KeepAll
    ChannelBound = 1
    MaxRestarts = 1
    Queued = {"admin"}
    Timer = {"updates"}
    Reloader = {"config"}
    Once = {"emergency"}
    Client = {"c1"}
    MaxSignals = 1
    MaxFailures = 2
    Reader = {"r1", "r2", "r3"}
    Core = {0, 1}
    DbSetup <- MCDbSetup
    Task = {"t1", "t2"}
    MaxStarted = 2
    Server = {"s1", "us"}
    Ours = "us"
    trusted_servers <- MCNotaries
    KeyConfig <- MCKeyConfig
    Needs <- MCNeeds
    MaxKeyFaults = 1
    Name <- MCName
    Host <- MCHost
    Literal = {"l"}
    World <- MCWorld
    NoName <- MCNoName
    NoHost = "nohost"
    NoAddr = ""
    MaxDnsFaults = 1
    SEP = 2
    WIDTH = 2
    Word <- MCWord
    Count = {1, 2, 6}
    Layout <- MCLayout
    MaxRows = 2
INVARIANTS
    InductiveInv
    WorkersWaitedFor
    NothingQueuedOnClose
    
    DialsItsServer
    ScansExact
CHECK_DEADLOCK FALSE
