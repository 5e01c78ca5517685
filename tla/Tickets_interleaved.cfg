SPECIFICATION Spec
CONSTANTS
    Messages = {m1, m2}
    NoMessage = NoMessage
    Proposals = {p1}
    AnalysisText = x
    Absent = Absent
    Workers = {w1, w2}
    Kinds = {"decide", "status", "solve", "analyze"}
    MaxItems = 1
    MaxTickets = 2
    MaxDecisions = 1
    MaxChoices = 1
    w1 = w1
    w2 = w2
    m1 = m1
    m2 = m2
SYMMETRY MCSymmetry
CHECK_DEADLOCK FALSE
INVARIANTS
    TypeOK
    StatusWasChosen
    SolutionIsCurrent
