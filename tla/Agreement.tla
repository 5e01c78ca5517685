------------------------------ MODULE Agreement ------------------------------
(***************************************************************************)
(* The agreement flow end to end: the card handlers of RequirementCards    *)
(* and the contract handlers of ContractLedger over one database.  The     *)
(* contract handlers read the cards' documents; nothing else is shared.    *)
(***************************************************************************)
EXTENDS Integers, RequirementCards

CONSTANTS Scopes, Bodies, Calls, Ids, MaxDeploys

VARIABLES agreed, contracts, calls, indexes, starting, deploys

ledgerVars == <<contracts, calls, indexes, starting, deploys>>
vars == <<cardVars, agreed, ledgerVars>>

\* What the contract handlers read of a card.
ReadByLedger(docs) ==
    [c \in Cards |->
        IF docs[c] = Absent THEN Absent
        ELSE [project |-> docs[c].project, title |-> docs[c].title,
              status |-> docs[c].status, decision |-> docs[c].decision]]

\* What the contract handlers may find at first: no card, or legacy ones.
FirstRead ==
    {ReadByLedger([c \in Cards |-> IF c \in old THEN LegacyCard(t) ELSE Absent]) :
        t \in Titles, old \in SUBSET LegacyCards}

Ledger == INSTANCE ContractLedger
            WITH cards <- ReadByLedger(cards), Statuses <- RequirementStatus,
                 InitialCards <- FirstRead

ASSUME AgreementAssumption ==
    /\ Scopes \subseteq Projects \cup {NoProject}
    /\ \A d \in Decisions : d.amountDelta \in Int
    /\ \A b \in Bodies : b.amount \in Int /\ b.scope \in Seq(Titles)
    /\ Absent \notin Ledger!Requirement
    /\ MaxDeploys \in Nat

Init ==
    /\ CardsInit
    /\ agreed = {}
    /\ contracts = {}
    /\ calls = [w \in Calls |-> Ledger!Idle]
    /\ indexes = Ledger!OwnerIndexes
    /\ starting = FALSE
    /\ deploys = 0

\* A card handler runs; the history variable follows the documents.
CardStep ==
    /\ CardsNext
    /\ LET stored == ReadByLedger(cards')
       IN  agreed' = agreed \cup
             UNION {Ledger!AgreedOf(c, stored[c]) : c \in {x \in Cards : stored[x] # Absent}}
    /\ UNCHANGED ledgerVars

\* A contract handler runs.
LedgerStep ==
    /\ UNCHANGED cardVars
    /\ \/ \E w \in Calls : Ledger!Handler(w)
       \/ Ledger!StartInstance
       \/ \E i \in Ledger!OwnerIndexes : Ledger!DropOwnerIndex(i)
       \/ Ledger!InitBeanie

Next == CardStep \/ LedgerStep

Spec == Init /\ [][Next]_vars

------------------------------------------------------------------------------
(* Properties *)

\* The card handlers are an environment ContractLedger allows: what holds of
\* the ledger among arbitrary cards holds among these.
ImplementsContractLedger == Ledger!Spec
==============================================================================
