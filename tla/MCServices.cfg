SPECIFICATION SpecServices
CONSTANTS
    Task = {t1, t2}
    MaxStarted = 2
    Locker = {l1, l2, l3}
    Key = {k1, k2}
    Mutex = {m1, m2, m3}
    NoMutex = NoMutex
    NoKey = NoKey
    NoLocker = NoLocker
    Account = {u1, u2}
    Device = {d1, d2}
    Founder = u1
    OneTimeKey = {o1, o2}
    Signer = {s1, s2}
    Message = {e1, e2}
    Session = {x1}
    FirstCount = 9
    Chat = {1, 2}
    Attempt = {q1, q2}
    MaxWindow = 1
    Subscribable = {2}
    Connecting <- MCConnecting
    Kind <- MCKind
    Moving = {2}
    TimelineLimit = 1
    MaxCount = 4
    MaxRows = 1
    LocalMxc = {l1}
    RemoteMxc = {r1}
    BlockedMxc = {}
    Dim <- MCDim
    Uploader = {u1}
    Url = {p1}
    MediaConfig <- MCMediaConfig
    MaxMediaFaults = 1
    Database <- MCDatabase
    Bot = "bot"
    ADMIN_EVENTS = 2
    MaxHalts = 2
    Chatter = {"u"}
    Afar = {"f"}
    StatusMsg = {""}
    idle_timeout = 1
    offline_timeout = 2
    REFRESH_TIMEOUT = 1
    timeout_remote_users = FALSE
    MaxClock = 3
    MaxOutages = 1
INVARIANTS
    MutualExclusion
    
    
     
    RowsHaveFiles
    MigratedWhole
    
SYMMETRY MCSymmetry
