-------------------------------- MODULE MCInbox --------------------------------
(* The user's mailbox and somebody of another company, each spelled in two    *)
(* ways, and somebody of the user's company.                                 *)
EXTENDS Inbox

At(box, domain, capital) == [box |-> box, domain |-> domain, capital |-> capital]

MCMyAddresses == {At("me", "a", TRUE)}

MCAddresses ==
    MCMyAddresses \cup {At("me", "a", FALSE), At("you", "a", FALSE),
                        At("you", "b", FALSE), At("you", "b", TRUE)}
==============================================================================
