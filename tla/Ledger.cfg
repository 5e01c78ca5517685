SPECIFICATION Spec
CONSTANTS
    Projects = {p1}
    NoProject = NoProject
    Scopes = {p1, NoProject}
    Cards = {c1, c2}
    NoCard = NoCard
    Titles = {t1}
    Statuses <- MCStatuses
    Decisions <- MCDecisions
    NoDecision = NoDecision
    Bodies <- MCBodies
    Absent = Absent
    InitialCards <- MCCards
    Calls = {w1, w2}
    Ids = {d1, d2, d3}
    MaxDeploys = 1
    p1 = p1
    t1 = t1
SYMMETRY MCSymmetry
CONSTRAINT MCCardsOfProject
INVARIANTS
    TypeOK
    OneDocumentPerVersion
    EveryVersionIsAgreed
    AppliedOnce
PROPERTIES
    AppendOnly
    ImplementsAtomicLedger
