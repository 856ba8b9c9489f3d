SPECIFICATION FairSpec
CONSTANTS
    fed = fed
    app = app
    gateway = gateway
    w1 = w1
    w2 = w2
    Federation = {fed}
    Appservice = {}
    Push = {}
    Worker = {w1}
    Key = {1, 2, 3}
    Flush = 0
    NoDest = NoDest
    shard_id <- OneShard
    DEQUEUE_LIMIT = 2
    startup_netburst = TRUE
    startup_netburst_keep <- KeepAll
    ChannelBound = 1
    MaxRestarts = 1
INVARIANTS
    NoPanic
    OneTransactionPerDest
    EventsAccounted
PROPERTY
    AtLeastOnce
    
