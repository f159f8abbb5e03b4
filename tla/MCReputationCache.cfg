\* No symmetry: it is not sound for liveness.
CONSTANTS
    Callers = {c1, c2}
    Keys = {k1, k2, k3}
    Tasks = {t1, t2}
    NoTask = NoTask
    NoKey = NoKey
    MaxSize = 2
    TTL = 2
    MaxTime = 2
SPECIFICATION FairSpec
INVARIANTS LoadsShared CacheRight
PROPERTIES LeastRecentlyUsed EveryoneAnswered
