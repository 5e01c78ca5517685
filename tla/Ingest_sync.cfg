SPECIFICATION Spec
CONSTANTS
    Messages = {m1, m2, m3}
    NoMessage = NoMessage
    Links = {l1, l2}
    NoLink = NoLink
    Listed <- MCListed
    Analyzable = {m1, m2}
    Workers = {w1, w2}
    MaxFailures = 1
    m1 = m1
    m2 = m2
    m3 = m3
    l1 = l1
    l2 = l2
INVARIANTS
    TypeOK
    OneHolder
    Accounted
PROPERTIES
    AnalysedOnce
    MessageStays
    StoredIsAnalysed
