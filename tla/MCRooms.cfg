SPECIFICATION SpecRooms
CONSTANTS
    Focus = {"membership", "state_res", "state_store", "room_directory", "spaces", "notices"}
    Local = {a, b}
    Remote = {r}
    Vouched = {b}
    Moderator = {a, r}
    Task = {t1, t2}
    MaxStarted = 3
    Free = Free
    Person = {alice, bob, carol}
    Creator = alice
    Mod = bob
    Nobody = Nobody
    Room_versions = {6, 11}
    Memberships = {"ban"}
    Join_rules = {"restricted"}
    Thresholds = {}
    Levels = {0, 100}
    MaxSent = 2
    Cell = {"a", "b"}
    Value = {1, 2}
    Given <- MCGiven
    Layers = 1
    MaxCrashed = 1
    NewRoom = {r1}
    OldRoom = r0
    Alias = {a1, aa}
    AdminAlias = aa
    Resident = {u1}
    ServerUser = su
    MaxStopped = 1
    OurSpace = {1, 2}
    TheirSpace = {3}
    Suggested = {3}
    Visitor = {"u"}
    Asker = {"v"}
    Denied = {}
    Joined <- MCJoined
    Allowed = {2}
    Join_rule <- MCJoin_rule
    Hierarchy <- MCHierarchy
    Wanted <- MCWanted
    MaxForgotten = 1
    Chatter = {"u"}
    Afar = {"f"}
    StatusMsg = {""}
    idle_timeout = 1
    offline_timeout = 2
    REFRESH_TIMEOUT = 1
    timeout_remote_users = FALSE
    MaxClock = 3
    MaxOutages = 1
    Notice = {"e0", "e1", "e2"}
    Unread = {"e0"}
    Author <- MCAuthor
    Target <- MCTarget
    Pushkey = {"k"}
    NoAppend = NoAppend
INVARIANTS
     NeverWaitsForItself
    CreatorKept
    StateAsSaved AliasesAgree 
    OwnMessageClears
SYMMETRY MCSymmetry
