--------------------------- MODULE MCContractLedger ---------------------------
(* Finite constants for TLC: a decision, one posted first contract, the two *)
(* statuses the approval gate tells apart.                                  *)
EXTENDS ContractLedger, TLC

CONSTANTS p1, t1

MCStatuses == {"proposed", "agreed"}

MCDecisions == {[amountDelta |-> 3, dueDate |-> "march"]}

MCBodies == {[scope |-> <<>>, dueDate |-> "january", amount |-> 10]}

\* One card of the project, another still to be made.
MCCards ==
    {[c \in Cards |-> IF c = first
                      THEN [project |-> p1, title |-> t1, status |-> "proposed",
                            decision |-> NoDecision]
                      ELSE Absent] : first \in Cards}

\* A bound: the other one is of the project too.  Both contracts may take such a
\* card, only the owner's a card of no project.
MCCardsOfProject == \A c \in Cards : cards[c] = Absent \/ cards[c].project = p1

MCSymmetry == Permutations(Cards) \cup Permutations(Calls) \cup Permutations(Ids)
==============================================================================
