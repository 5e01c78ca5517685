SPECIFICATION Spec
CONSTANTS
    Messages = {m1, m2}
    NoMessage = NoMessage
    Proposals = {p1}
    AnalysisText = x
    Absent = Absent
    Workers = {w1}
    Kinds = {"decide", "send", "draft", "analyze"}
    MaxItems = 1
    MaxTickets = 3
    MaxDecisions = 3
    MaxChoices = 1
    w1 = w1
    w2 = w2
    m1 = m1
    m2 = m2
SYMMETRY MCSymmetry
CHECK_DEADLOCK FALSE
INVARIANTS
    SplitMessageMoves
