--------------------------- MODULE Agreement_proof ---------------------------
(***************************************************************************)
(* Proofs about Agreement: the card handlers are an environment the        *)
(* contract handlers allow, so what ContractLedger_proof proves of the     *)
(* ledger among arbitrary cards holds among these.                         *)
(***************************************************************************)
EXTENDS Agreement, RequirementCards_proof

\* The ledger with its proofs, over the same state as Ledger.
L == INSTANCE ContractLedger_proof
            WITH cards <- ReadByLedger(cards), Statuses <- RequirementStatus,
                 InitialCards <- FirstRead

\* What the contract handlers read of a document.
View(doc) ==
    [project |-> doc.project, title |-> doc.title,
     status |-> doc.status, decision |-> doc.decision]

\* A card the contract handlers would read as agreed is in the history.
AgreedKept ==
    \A c \in Cards :
        cards[c] # Absent => Ledger!AgreedOf(c, ReadByLedger(cards)[c]) \subseteq agreed

FlowInv == IInv /\ CopiesOK /\ AgreedKept

------------------------------------------------------------------------------
(* What the contract handlers read                                         *)

LEMMA LegacyType == ASSUME NEW t \in Titles PROVE LegacyCard(t) \in Card
  BY DEF LegacyCard, Card, RequirementStatus

LEMMA ViewType ==
    ASSUME NEW doc \in Card
    PROVE  View(doc) \in Ledger!Requirement /\ View(doc) # Absent
<1>1. View(doc) \in Ledger!Requirement
  BY DEF View, Card, Ledger!Requirement
<1> QED
  BY <1>1, AgreementAssumption

LEMMA ReadType ==
    ASSUME NEW docs \in [Cards -> Card \cup {Absent}]
    PROVE  /\ ReadByLedger(docs) \in [Cards -> Ledger!Requirement \cup {Absent}]
           /\ \A c \in Cards : ReadByLedger(docs)[c] = Absent <=> docs[c] = Absent
           /\ \A c \in Cards : docs[c] # Absent => ReadByLedger(docs)[c] = View(docs[c])
<1>1. ReadByLedger(docs) =
        [c \in Cards |-> IF docs[c] = Absent THEN Absent ELSE View(docs[c])]
  BY DEF ReadByLedger, View
<1> QED
  BY <1>1, ViewType

LEMMA LedgerAssumptions ==
    L!ScopesAssumption /\ L!DataAssumption /\ L!BoundsAssumption
<1>1. L!ScopesAssumption
  BY CardsAssumption, AgreementAssumption DEF L!ScopesAssumption
<1>2. L!BoundsAssumption
  BY AgreementAssumption DEF L!BoundsAssumption
<1>3. L!Requirement = Ledger!Requirement
  BY DEF L!Requirement, Ledger!Requirement
<1>4. FirstRead \subseteq [Cards -> L!Requirement \cup {Absent}]
  <2> DEFINE docs(t, old) == [c \in Cards |-> IF c \in old THEN LegacyCard(t) ELSE Absent]
             read(t, old) == ReadByLedger(docs(t, old))
  <2>1. ASSUME NEW t \in Titles, NEW old \in SUBSET LegacyCards
        PROVE  read(t, old) \in [Cards -> L!Requirement \cup {Absent}]
    BY <1>3, LegacyType, ReadType
  <2>2. FirstRead = {read(t, old) : t \in Titles, old \in SUBSET LegacyCards}
    BY DEF FirstRead
  <2> HIDE DEF read
  <2> QED
    BY <2>1, <2>2
<1>5. L!DataAssumption
  <2>1. Absent \notin L!Requirement
    BY <1>3, AgreementAssumption
  <2>2. /\ \A d \in Decisions : d.amountDelta \in Int
        /\ \A b \in Bodies : b.amount \in Int /\ b.scope \in Seq(Titles)
    BY AgreementAssumption
  <2> QED
    BY <1>4, <2>1, <2>2, CardsAssumption
    DEF L!DataAssumption, L!RequirementStatus, RequirementStatus
<1> QED
  BY <1>1, <1>2, <1>5

------------------------------------------------------------------------------
(* The refinement                                                          *)

\* A card that is saved is one the ledger's environment edits or creates.
LEMMA CardStepMaps ==
    ASSUME FlowInv, FlowInv', CardStep
    PROVE  [Ledger!Next]_Ledger!vars
<1> DEFINE read == ReadByLedger(cards)
           stored == ReadByLedger(cards')
<1>1. /\ cards \in [Cards -> Card \cup {Absent}]
      /\ cards' \in [Cards -> Card \cup {Absent}]
  BY DEF FlowInv, IInv, CardsTypeOK
<1>2. CardWritten
  BY StepWritesCard DEF FlowInv, CardStep
<1>3. /\ agreed' = agreed \cup
             UNION {Ledger!AgreedOf(c, stored[c]) : c \in {x \in Cards : stored[x] # Absent}}
      /\ UNCHANGED ledgerVars
  BY DEF CardStep
<1>4. ASSUME NEW c \in Cards, cards[c] # Absent
      PROVE  Ledger!AgreedOf(c, read[c]) \subseteq agreed
  BY <1>4 DEF FlowInv, AgreedKept
<1>5. CASE UNCHANGED cards
  <2>1. stored = read
    BY <1>5
  <2>2. agreed' = agreed
    BY <1>1, <1>3, <1>4, <2>1, ReadType
  <2> QED
    BY <1>3, <2>1, <2>2 DEF ledgerVars, Ledger!vars
<1>6. ASSUME NEW c \in Cards, NEW doc \in Card, cards' = [cards EXCEPT ![c] = doc]
      PROVE  /\ stored = [read EXCEPT ![c] = View(doc)]
             /\ agreed' = agreed \cup Ledger!AgreedOf(c, View(doc))
  <2>1. \A x \in Cards : (x = c /\ cards'[x] = doc) \/ (x # c /\ cards'[x] = cards[x])
    BY <1>1, <1>6
  <2>2. doc # Absent
    BY CardsAssumption
  <2>3. stored[c] = View(doc) /\ stored[c] # Absent
    BY <1>1, <2>1, <2>2, ReadType, ViewType
  <2>4. \A x \in Cards : x # c => stored[x] = read[x]
    BY <2>1 DEF ReadByLedger
  <2>5. stored = [read EXCEPT ![c] = View(doc)]
    <3>1. /\ stored \in [Cards -> Ledger!Requirement \cup {Absent}]
          /\ read \in [Cards -> Ledger!Requirement \cup {Absent}]
      BY <1>1, ReadType
    <3> HIDE DEF stored, read
    <3> QED
      BY <2>3, <2>4, <3>1
  <2>6. \A x \in Cards : x # c /\ stored[x] # Absent =>
           Ledger!AgreedOf(x, stored[x]) \subseteq agreed
    BY <1>1, <1>4, <2>4, ReadType
  <2> HIDE DEF stored, read
  <2> QED
    BY <1>3, <2>3, <2>5, <2>6
<1>7. CASE CardSaved
  <2>1. PICK c \in Cards, doc \in Card :
           SameCard(c, doc) /\ cards' = [cards EXCEPT ![c] = doc]
    BY <1>7 DEF CardSaved
  <2>2. read[c] = View(cards[c]) /\ read[c] # Absent
    BY <1>1, <2>1, ReadType DEF SameCard
  <2>3. View(doc) = [read[c] EXCEPT !.status = doc.status, !.decision = doc.decision]
    <3>1. View(doc) = [View(cards[c]) EXCEPT !.status = doc.status, !.decision = doc.decision]
      <4>1. /\ View(doc).project = View(cards[c]).project
            /\ View(doc).title = View(cards[c]).title
            /\ View(doc).status = doc.status /\ View(doc).decision = doc.decision
        BY <2>1 DEF SameCard, View
      <4> QED
        BY <4>1 DEF View
    <3> QED
      BY <2>2, <3>1
  <2>4. doc.status \in RequirementStatus /\ doc.decision \in Decisions \cup {NoDecision}
    BY DEF Card
  <2>5. Ledger!Store(c, View(doc))
    BY <1>3, <1>6, <2>1 DEF Ledger!Store, Ledger!deployment, ledgerVars
  <2>6. Ledger!EditCard(c)
    BY <2>2, <2>3, <2>4, <2>5 DEF Ledger!EditCard
  <2> QED
    BY <2>6 DEF Ledger!Next
<1>8. CASE CardMade
  <2>1. PICK c \in Cards, doc \in Card :
           cards[c] = Absent /\ cards' = [cards EXCEPT ![c] = doc]
    BY <1>8 DEF CardMade
  <2>2. read[c] = Absent
    BY <1>1, <2>1, ReadType
  <2>3. Ledger!Store(c, View(doc))
    BY <1>3, <1>6, <2>1 DEF Ledger!Store, Ledger!deployment, ledgerVars
  <2>4. Ledger!CreateCard(c)
    BY <2>2, <2>3, ViewType DEF Ledger!CreateCard
  <2> QED
    BY <2>4 DEF Ledger!Next
<1> QED
  BY <1>2, <1>5, <1>7, <1>8 DEF CardWritten

\* A contract handler, or a deployment, touches nothing of the cards.
LEMMA LedgerStepMaps == LedgerStep => Ledger!Next
  BY DEF LedgerStep, Ledger!Next

LEMMA LedgerKeepsAgreed == LedgerStep => UNCHANGED agreed
  BY DEF LedgerStep, Ledger!Handler, Ledger!CreateRead, Ledger!ApplyReadRequirement,
         Ledger!OwnerReadApplied, Ledger!OwnerReadContract, Ledger!ProjectReadContract,
         Ledger!ProjectReadApplied, Ledger!Insert, Ledger!InsertFails, Ledger!OwnerReread,
         Ledger!Abandon, Ledger!StartInstance, Ledger!DropOwnerIndex, Ledger!InitBeanie,
         Ledger!environment

LEMMA FlowInit == Init => FlowInv /\ Ledger!Init
<1> SUFFICES ASSUME Init PROVE FlowInv /\ Ledger!Init
  OBVIOUS
<1>1. IInv /\ cards \in [Cards -> Card \cup {Absent}]
  BY InitOK DEF Init, IInv, CardsTypeOK
<1>2. CopiesOK
  BY IdleCopy DEF Init, CardsInit, CopiesOK
<1>3. PICK t \in Titles, old \in SUBSET LegacyCards :
         cards = [c \in Cards |-> IF c \in old THEN LegacyCard(t) ELSE Absent]
  BY DEF Init, CardsInit
<1>4. ASSUME NEW c \in Cards, cards[c] # Absent
      PROVE  Ledger!AgreedOf(c, ReadByLedger(cards)[c]) = {}
  <2>1. ReadByLedger(cards)[c] = View(cards[c])
    BY <1>1, <1>4, ReadType
  <2>2. cards[c].decision = NoDecision
    BY <1>3, <1>4 DEF LegacyCard
  <2> QED
    BY <2>1, <2>2 DEF View, Ledger!AgreedOf
<1>5. AgreedKept
  BY <1>4 DEF AgreedKept
<1>6. ReadByLedger(cards) \in FirstRead
  BY <1>3 DEF FirstRead
<1>7. agreed = UNION {Ledger!AgreedOf(c, ReadByLedger(cards)[c]) :
                        c \in {x \in Cards : ReadByLedger(cards)[x] # Absent}}
  <2>1. \A c \in {x \in Cards : ReadByLedger(cards)[x] # Absent} :
           Ledger!AgreedOf(c, ReadByLedger(cards)[c]) = {}
    BY <1>1, <1>4, ReadType
  <2> QED
    BY <2>1 DEF Init
<1> QED
  BY <1>1, <1>2, <1>5, <1>6, <1>7 DEF FlowInv, Init, Ledger!Init

LEMMA FlowNext == FlowInv /\ [Next]_vars => FlowInv'
<1> SUFFICES ASSUME FlowInv, [Next]_vars PROVE FlowInv'
  OBVIOUS
<1>1. [CardsNext]_cardVars
  BY DEF Next, CardStep, LedgerStep, vars
<1>2. IInv' /\ CopiesOK'
  BY <1>1, NextOK, StepWritesCard DEF FlowInv
<1>3. AgreedKept'
  <2>1. CASE CardStep
    <3> DEFINE stored == ReadByLedger(cards')
    <3>1. \A c \in Cards : cards'[c] # Absent => stored[c] # Absent
      BY <1>2, ReadType DEF IInv, CardsTypeOK
    <3>2. agreed' = agreed \cup
             UNION {Ledger!AgreedOf(c, stored[c]) : c \in {x \in Cards : stored[x] # Absent}}
      BY <2>1 DEF CardStep
    <3>3. \A c \in Cards : cards'[c] # Absent => Ledger!AgreedOf(c, stored[c]) \subseteq agreed'
      BY <3>1, <3>2
    <3> QED
      BY <3>3 DEF AgreedKept, Ledger!AgreedOf
  <2>2. CASE LedgerStep
    <3>1. UNCHANGED <<cards, agreed>>
      BY <2>2, LedgerKeepsAgreed DEF LedgerStep, cardVars
    <3> QED
      BY <3>1 DEF FlowInv, AgreedKept, Ledger!AgreedOf
  <2>3. CASE UNCHANGED vars
    BY <2>3 DEF vars, cardVars, FlowInv, AgreedKept, Ledger!AgreedOf
  <2> QED
    BY <2>1, <2>2, <2>3 DEF Next
<1> QED
  BY <1>2, <1>3 DEF FlowInv

\* The card handlers and the contract handlers together do what the contract
\* handlers do among cards that anybody edits: whatever overlaps, no card
\* handler changes the project or the title of a stored card, or removes one.
THEOREM LedgerRefined == Spec => ImplementsContractLedger
<1>1. FlowInv /\ FlowInv' /\ [Next]_vars => [Ledger!Next]_Ledger!vars
  <2> SUFFICES ASSUME FlowInv, FlowInv', [Next]_vars PROVE [Ledger!Next]_Ledger!vars
    OBVIOUS
  <2>1. CASE UNCHANGED vars
    BY <2>1 DEF vars, cardVars, ledgerVars, Ledger!vars
  <2> QED
    BY <2>1, CardStepMaps, LedgerStepMaps DEF Next
<1> QED
  BY <1>1, FlowInit, FlowNext, PTL DEF Spec, ImplementsContractLedger, Ledger!Spec

------------------------------------------------------------------------------
(* What is proved of the ledger holds here                                 *)

\* L and Ledger are the same module over the same state.
LEMMA SameHandler == ASSUME NEW w PROVE Ledger!Handler(w) <=> L!Handler(w)
  BY DEF Ledger!Handler, L!Handler, Ledger!CreateRead, L!CreateRead,
         Ledger!ApplyReadRequirement, L!ApplyReadRequirement,
         Ledger!OwnerReadApplied, L!OwnerReadApplied,
         Ledger!OwnerReadContract, L!OwnerReadContract,
         Ledger!ProjectReadContract, L!ProjectReadContract,
         Ledger!ProjectReadApplied, L!ProjectReadApplied, Ledger!Insert, L!Insert,
         Ledger!InsertFails, L!InsertFails, Ledger!OwnerReread, L!OwnerReread,
         Ledger!Abandon, L!Abandon, Ledger!Return, L!Return,
         Ledger!AlreadyRegistered, L!AlreadyRegistered, Ledger!InScope, L!InScope,
         Ledger!Current, L!Current, Ledger!Applied, L!Applied,
         Ledger!OwnerVersionTaken, L!OwnerVersionTaken,
         Ledger!OwnerAppliedTaken, L!OwnerAppliedTaken,
         Ledger!ProjectVersionTaken, L!ProjectVersionTaken,
         Ledger!ProjectAppliedTaken, L!ProjectAppliedTaken,
         Ledger!DuplicateKey, L!DuplicateKey, Ledger!Approved, L!Approved,
         Ledger!FirstContract, L!FirstContract,
         Ledger!ApplyToContract, L!ApplyToContract, Ledger!Prepare, L!Prepare,
         Ledger!AppliedResult, L!AppliedResult, Ledger!FreshIds, L!FreshIds,
         Ledger!environment, L!environment, Ledger!deployment, L!deployment,
         Ledger!Idle, L!Idle

LEMMA SameSpec == Ledger!Spec => L!Spec
<1>1. Ledger!Init => L!Init
  BY DEF Ledger!Init, L!Init, Ledger!AgreedOf, L!AgreedOf, Ledger!Idle, L!Idle,
         Ledger!OwnerIndexes, L!OwnerIndexes
<1>2. [Ledger!Next]_Ledger!vars => [L!Next]_L!vars
  BY SameHandler DEF Ledger!Next, L!Next, Ledger!vars, L!vars, Ledger!CreateCard, L!CreateCard,
         Ledger!EditCard, L!EditCard, Ledger!Store, L!Store,
         Ledger!AgreedOf, L!AgreedOf, Ledger!Requirement, L!Requirement,
         Ledger!StartInstance, L!StartInstance,
         Ledger!DropOwnerIndex, L!DropOwnerIndex, Ledger!InitBeanie, L!InitBeanie,
         Ledger!OwnerIndexes, L!OwnerIndexes,
         Ledger!OwnerIndexesBuildable, L!OwnerIndexesBuildable,
         Ledger!environment, L!environment, Ledger!deployment, L!deployment
<1> QED
  BY <1>1, <1>2, PTL DEF Ledger!Spec, L!Spec

LEMMA LedgerInvariant == Spec => []L!IInv
  BY LedgerRefined, SameSpec, LedgerAssumptions, L!Invariance, PTL DEF ImplementsContractLedger

\* What the unique indexes and the approval gate promise of the ledger, they
\* promise with the real card handlers around it, whichever of them overlap.
THEOREM LedgerPromises ==
    Spec => [](L!OneDocumentPerVersion /\ L!EveryVersionIsAgreed /\ L!AppliedOnce)
<1>1. L!IInv => L!OneDocumentPerVersion /\ L!EveryVersionIsAgreed /\ L!AppliedOnce
  BY DEF L!IInv, L!LedgerOK
<1> QED
  BY <1>1, LedgerInvariant, PTL

\* With the real card handlers around it the contract of each project behaves
\* as if every request read and wrote it in one step, on its newest version, and
\* no step of the whole system edits or deletes a stored version.
THEOREM FlowIsAtomic == Spec => L!ImplementsAtomicLedger /\ L!AppendOnly
  BY LedgerRefined, SameSpec, LedgerAssumptions, L!LedgerIsAtomic, L!OnlyAppends, PTL
  DEF ImplementsContractLedger

\* The composed system is one run of the card handlers among others: their
\* timelines explain their cards here too.
THEOREM CardsFollowed == Spec => CardsSpec
<1>1. Init => CardsInit
  BY DEF Init
<1>2. [Next]_vars => [CardsNext]_cardVars
  BY DEF Next, CardStep, LedgerStep, vars
<1> QED
  BY <1>1, <1>2, PTL DEF Spec, CardsSpec

\* Whatever overlaps, in the whole system the timeline of a card leads to its
\* status, and only a person has put it at a decided one: what the contract
\* handlers apply was a person's decision.
THEOREM FlowFollowed == Spec => [](HistoryExplainsStatus /\ OnlyPeopleDecide)
  BY CardsFollowed, HistoryAlwaysExplains, PeopleDecide, PTL
==============================================================================
