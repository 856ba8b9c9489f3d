\* A local state event, three remote events that fork and merge,
\* and three requests at a time; r1 may also be backfilled.
CONSTANTS
    t1 = t1  t2 = t2  t3 = t3  root = root  l1 = l1  l2 = l2  r1 = r1  r2 = r2  r3 = r3  k = k
    Task = {t1, t2, t3}
    Local = {l1, l2}
    Remote = {r1, r2, r3}
    Root = root
    Key = {k}
    NoKey = NoKey  NoEvent = NoEvent  NoTask = NoTask  NoState = NoState
    KeyOf <- MCKeyOf
    Prev <- MCPrevMerge
    Forbids <- MCForbids
    PrevLimit = 2
    Unlocked = {}
    Backfill = {r1, r2}
    MaxCrashes = 0
SYMMETRY MCSymmetry
SPECIFICATION Spec
INVARIANTS NoDuplicatePdus LeavesExist
PROPERTIES GrowsAtTheEnds  LocalReferencesLeaves
