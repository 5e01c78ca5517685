SPECIFICATION Spec
CONSTANTS
    Users = {u1, u2}
    NoUser = NoUser
    Sessions = {s1, s2}
    NoSession = NoSession
    Mailboxes = {m1}
    Workspaces = {t1}
    NoAccount = NoAccount
    Flows = {f1, f2}
    NoFlow = NoFlow
    Workers = {w1, w2}
    MaxRequests = 2
    MaxExpiries = 2
SYMMETRY MCSymmetry
INVARIANTS
    TypeOK
    ConnectedByStarter
    TokensOfOneApproval
