SPECIFICATION Spec
CONSTANTS
    Projects = {p1}
    NoProject = NoProject
    Cards = {c1}
    NoCard = NoCard
    LegacyCards = {c1}
    Titles = {t1, t2}
    Requests = {r1}
    NoRequest = NoRequest
    RequestOf <- MCRequestOf
    Decisions <- MCDecisions
    NoDecision = NoDecision
    Replies <- MCReplies
    Absent = Absent
    Workers = {w1}
    MaxHistory = 2
    Scopes = {p1}
    Bodies <- MCBodies
    Calls = {}
    Ids = {d1}
    MaxDeploys = 0
    p1 = p1
    t1 = t1
    t2 = t2
    c1 = c1
SYMMETRY MCSymmetry
PROPERTIES
    StatusFollowsTheTable
