CONSTANTS
    Hosts = {h1, h2}
    Addresses = {a1, a2}
    Requests = {r1, r2}
    NoHost = NoHost
    NoAddress = NoAddress
    NoRequest = NoRequest
SPECIFICATION Spec
SYMMETRY Symmetry
INVARIANTS ResultsForNamedAddress ClassifiedUnlessRotated
