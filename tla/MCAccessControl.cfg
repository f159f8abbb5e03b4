CONSTANTS
    Browsers = {b1, b2}
    Users = {root, guest}
    Admin = root
    Nobody = Nobody
    Sessions = {s1, s2}
    NoSession = NoSession
    Requests = {r1, r2}
    NoRequest = NoRequest
    SessionTTL = 2
    IPs = {a}
    LoginLimit = 2
    AuthLimit = 2
    Window = 1
    BanTTL = 1
    MaxTime = 2
SPECIFICATION Spec
SYMMETRY Symmetry
PROPERTIES LetInIffLoggedIn AdminPagesToAdmin OnlyStrangersCount
