CONSTANTS
    Tabs = {d1, d2}
    Hosts = {h1, h2}
    Requests = {r1, r2}
    NoRequest = NoRequest
    NoTab = NoTab
    Closed = Closed
    Stages = 2
SPECIFICATION Spec
SYMMETRY Symmetry
INVARIANTS FlagRight EveryTestCanBeStopped
    ShownForItsHost
PROPERTY MetricsKept
