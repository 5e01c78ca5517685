SPECIFICATION Spec
CHECK_DEADLOCK FALSE
CONSTANTS
    Files = {f1}
    MailFiles = {f1}
    OldFiles = {f1}
    NoFile = NoFile
    Projects = {p1, p2}
    NoProject = NoProject
    Tickets = {t1}
    NoTicket = NoTicket
    ProjectOf <- MCProjectOf
    Workers = {w1, w2}
    HasStore = TRUE
    MaxRequests = 2
    MaxFailures = 1
    p1 = p1
    t1 = t1
PROPERTIES
    AssignmentKept
