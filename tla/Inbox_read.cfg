SPECIFICATION Spec
CHECK_DEADLOCK FALSE
CONSTANTS
    Addresses <- MCAddresses
    MyAddresses <- MCMyAddresses
    Times = {1, 2}
    MaxMails = 3
    MaxLines = 2
    MaxLength = 3
    SpeakerLimit = 2
INVARIANTS
    MailsAreGrouped
    QuotesAreOfTheirLine
