CONSTANTS
    Requests = 3
    Blocks = 4
    Limit = 2
SPECIFICATION Spec
INVARIANTS TypeOK NothingLeftOpen EndNoticed AnswerChecked
PROPERTY TestEnds
