----------------------------- MODULE AtomicLedger -----------------------------
(***************************************************************************)
(* What the contract routes promise for the projects of an owner: each     *)
(* project's contract is a chain of versions that only grows, one agreed   *)
(* card at a time, as if every request read and wrote in one step.         *)
(***************************************************************************)
EXTENDS Integers, Sequences

CONSTANTS Projects, Cards, NoCard, Titles, Decisions, Bodies, Ids

VARIABLES
    agreed,     \* the [card, title, decision] a person has agreed on so far
    contracts   \* the versions: [id, project, version, scope, dueDate, amount, applied]

vars == <<agreed, contracts>>

Agreement == [card : Cards, title : Titles, decision : Decisions]

\* Cards may have been agreed before the first contract is registered.
Init == agreed \subseteq Agreement /\ contracts = {}

\* A person agrees on a card with a decision.
Agree(a) ==
    /\ agreed' = agreed \cup {a}
    /\ UNCHANGED contracts

Fresh(i) == \A k \in contracts : k.id # i

\* The first version of a project's contract.
Register(i, p, body) ==
    /\ Fresh(i)
    /\ \A k \in contracts : k.project # p
    /\ contracts' = contracts \cup
         {[id |-> i, project |-> p, version |-> 1, scope |-> body.scope,
           dueDate |-> body.dueDate, amount |-> body.amount, applied |-> NoCard]}
    /\ UNCHANGED agreed

\* The newest version, extended by an agreement not yet in the contract.
Extend(i, base, a) ==
    /\ Fresh(i)
    /\ a \in agreed
    /\ \A k \in contracts :
         k.project = base.project => k.version <= base.version /\ k.applied # a.card
    /\ contracts' = contracts \cup
         {[id      |-> i,
           project |-> base.project,
           version |-> base.version + 1,
           scope   |-> Append(base.scope, a.title),
           dueDate |-> a.decision.dueDate,
           amount  |-> base.amount + a.decision.amountDelta,
           applied |-> a.card]}
    /\ UNCHANGED agreed

Next ==
    \/ \E a \in Agreement : Agree(a)
    \/ \E i \in Ids, p \in Projects, body \in Bodies : Register(i, p, body)
    \/ \E i \in Ids, base \in contracts, a \in agreed : Extend(i, base, a)

Spec == Init /\ [][Next]_vars
==============================================================================
