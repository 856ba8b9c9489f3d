CONSTANTS
    t1 = t1  t2 = t2  t3 = t3  root = root  l1 = l1  l2 = l2  r1 = r1  r2 = r2  r3 = r3  k = k
    Task = {t1, t2}
    Local = {l1}
    Remote = {r1, r2}
    Root = root
    Key = {k}
    NoKey = NoKey  NoEvent = NoEvent  NoTask = NoTask  NoState = NoState
    KeyOf <- MCKeyOf
    Prev <- MCPrevMerge
    Forbids <- MCForbids
    PrevLimit = 20
    Unlocked = {}
    Backfill = {r1}
    MaxCrashes = 0
SPECIFICATION FairSpec
PROPERTY EveryRequestEnds
