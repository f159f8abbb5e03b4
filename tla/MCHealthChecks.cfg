CONSTANTS
    Hosts = {h1, h2}
    Configured = {h1}
    Messages = {m1, m2}
    Torn = Torn
    Unreadable = Unreadable
    Nothing = Nothing
    Names = {n1, n2}
    Checks = {c1, c2}
    HealthTTL = 1
    DnsTTL = 2
    DnsMax = 1
    CheckTime = 1
    MaxTime = 3
SPECIFICATION Spec
SYMMETRY Symmetry
INVARIANTS TypeOK AnswersRecent DnsCacheSound FilesAsAccepted
PROPERTY AddressesStay
