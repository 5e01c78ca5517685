SPECIFICATION Spec
CONSTANTS
    Projects = {p1}
    NoProject = NoProject
    Cards = {c1}
    NoCard = NoCard
    LegacyCards = {c1}
    Titles = {t1, t2}
    Requests = {r1}
    NoRequest = NoRequest
    RequestOf <- MCRequestOf
    Decisions <- MCDecisions
    NoDecision = NoDecision
    Replies <- MCReplies
    Absent = Absent
    Workers = {w1, w2}
    MaxHistory = 2
    Scopes = {p1}
    Bodies <- MCBodies
    Calls = {k1}
    Ids = {d1, d2}
    MaxDeploys = 0
    p1 = p1
    t1 = t1
    t2 = t2
    c1 = c1
CONSTRAINT MCOverlaps
SYMMETRY MCSymmetry
INVARIANTS
    CardsTypeOK
    HistoryExplainsStatus
    OnlyPeopleDecide
PROPERTIES
    ImplementsContractLedger
