\* Two writers, two requests of one device, of which one may be given up.
CONSTANTS
    Focus = {"sync", "history"}
    Task = {t1, t2}
    MaxStarted = 2
    e1 = e1  e2 = e2  e3 = e3
    Writer = {w1, w2}
    Request = {q1, q2}
    Local = {e1, e2}
    Incoming = {e3}
    StateEvent = {e1, e3}
    TypingUser = {u}
    StreamSets <- MCStreamSets
    Limit = 1
    NoEvent = NoEvent  NoState = NoState  NoRequest = NoRequest
    MaxOps <- MCMaxOps
    MaxLost <- MCMaxLost
    Post = {"e1", "e2", "e3", "n1", "n2", "o1"}
    Content <- MCContent
    NoPost = "none"
    Earlier <- MCEarlier
    Older <- MCOlder
    Ask <- MCAsk
    Half = 32
    BATCH_MAX = 20
    MaxTurns = 1
SYMMETRY MCSymmetry
SPECIFICATION SpecReads
INVARIANTS TypingCurrent PagesComplete 
PROPERTIES SentOnce UnacknowledgedKept 
