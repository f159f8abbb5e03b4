\* Counters, file and cleanup, with a wall clock that may be set back by one unit,
\* any number of times: so bans are made and expire without end, and saves may
\* fail in every cleanup.  No symmetry: it is not sound for liveness.
CONSTANTS
    IPs = {a, b}
    LoginLimit = 2
    AuthLimit = 2
    Window = 1
    BanTTL = 1
    Torn = Torn
    MaxTime = 2
    MaxSlip = 1
SPECIFICATION FairSpec
INVARIANTS CountersRight FileRight
PROPERTY OutdatedGoes
