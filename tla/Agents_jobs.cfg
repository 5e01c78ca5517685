SPECIFICATION Spec
CONSTANTS
    Requests = {r1, r2}
    Documents = {d1}
    NoDocument = NoDocument
    MaxTurns = 2
    Budget = 3
    CallTime = 2
    ToolTime = 1
INVARIANTS
    TypeOK
    GreenIsGrounded
PROPERTIES
    AlwaysAnswers
