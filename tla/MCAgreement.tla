----------------------------- MODULE MCAgreement -----------------------------
(* Finite constants for TLC.                                                *)
EXTENDS Agreement, TLC

CONSTANTS p1, t1, t2, c1

MCRequestOf == [r \in Requests |-> [project |-> p1, title |-> t1]]

MCDecisions == {[amountDelta |-> 3, dueDate |-> "march"]}

MCBodies == {[scope |-> <<>>, dueDate |-> "january", amount |-> 10]}

\* An item that names a card may give it another title.
MCItem(c, s) ==
    [existingId |-> c, title |-> IF c = NoCard THEN t1 ELSE t2,
     proposedStatus |-> s, proposedDecision |-> NoDecision]

\* Replies of one item, as far as the schema admits them, and of two items
\* about one card, the second of which knows it by its title only.
MCReplies ==
    {<<MCItem(c1, s)>> : s \in {"proposed", "rejected"} \cap LLM_PROPOSABLE}
    \cup {<<MCItem(NoCard, "requested")>>,
          <<MCItem(c1, "requested"), MCItem(NoCard, "proposed")>>}

\* A bound: two card handlers overlap, or one of them with the contract's.
MCOverlaps ==
    \/ contracts = {} /\ \A w \in Calls : calls[w].pc = "idle"
    \/ \E w \in Workers : \A v \in Workers \ {w} : workers[v].pc = "idle"

MCSymmetry == Permutations(Ids) \cup Permutations(Workers)
==============================================================================
