CONSTANTS
    Centres = 5
    Transports = 3
    Pieces = 2
SPECIFICATION ProbeSpec
INVARIANTS ClosedUnlessConnecting VerdictJustified
PROPERTY ProbeEnds
