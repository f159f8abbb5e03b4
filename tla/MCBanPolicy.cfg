\* The policy and the counters, with a clock that only goes forward.
CONSTANTS
    IPs = {a, b}
    LoginLimit = 2
    AuthLimit = 3
    Window = 1
    BanTTL = 2
    Torn = Torn
    MaxTime = 3
    MaxSlip = 0
SPECIFICATION Spec
INVARIANTS CountersRight FileBansNoMore
PROPERTIES BanStands ImplementsPolicy
