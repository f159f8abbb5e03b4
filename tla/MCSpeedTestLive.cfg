CONSTANTS
    Tabs = {d1, d2}
    Hosts = {h1}
    Requests = {r1, r2}
    NoRequest = NoRequest
    NoTab = NoTab
    Closed = Closed
    Stages = 1
SPECIFICATION FairSpec
PROPERTIES TestEnds DialogFreed
