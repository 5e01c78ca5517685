------------------------ MODULE ContractLedger_proof ------------------------
(***************************************************************************)
(* The ledger's invariants for every number of projects, cards, decisions  *)
(* and concurrent requests, and for every deployment: what the unique      *)
(* indexes protect, they protect against all interleavings.                *)
(***************************************************************************)
EXTENDS ContractLedger, TLAPS

------------------------------------------------------------------------------
(* The inductive invariant *)

\* Each version below an existing one exists.  With unique versions this makes
\* the version after the one a handler read either free or taken: never a gap.
Gapless ==
    \A k \in contracts : k.project \in Protected =>
        \A v \in 1 .. k.version :
            \E b \in contracts : b.project = k.project /\ b.version = v

\* A card stored as agreed is in the history of agreements.
CardsAgreed ==
    \A c \in Cards : cards[c] # Absent => AgreedOf(c, cards[c]) \subseteq agreed

\* The content of a first version.
FirstBy(body, doc) ==
    /\ doc.version = 1
    /\ doc.scope = body.scope
    /\ doc.dueDate = body.dueDate
    /\ doc.amount = body.amount
    /\ doc.applied = NoCard

\* A document about to be inserted: a first version, or a successor of a stored one.
Insertable(doc) ==
    \/ \E body \in Bodies : FirstBy(body, doc)
    \/ \E base \in contracts : base.project = doc.project /\ FollowsBy(base, doc)

\* What a handler has read still tells the truth when it is used: cards it
\* read were agreed, contracts it read are still stored.
CallOK(call) ==
    /\ call.pc \in {"readApplied", "readContract"} =>
         /\ call.card \in Cards
         /\ call.req \in Requirement
         /\ AgreedOf(call.card, call.req) \subseteq agreed
    /\ call.pc = "readApplied" /\ call.scope # NoProject =>
         call.doc \in contracts /\ call.doc.project = call.scope
    /\ call.pc = "insert" =>
         call.doc \in Contract /\ call.doc.project = call.scope /\ Insertable(call.doc)

CallsOK == \A w \in Calls : CallOK(calls[w])

\* Without a deployment both owner-wide indexes are in place.
IndexesInPlace == deploys = 0 => ~starting /\ indexes = OwnerIndexes

LedgerOK ==
    /\ Gapless
    /\ OneDocumentPerVersion
    /\ EveryVersionIsAgreed
    /\ AppliedOnce

IInv ==
    /\ TypeOK
    /\ CardsAgreed
    /\ CallsOK
    /\ IndexesInPlace
    /\ LedgerOK

------------------------------------------------------------------------------
(* Lemmas about the operators *)

LEMMA ContractType ==
    ASSUME NEW doc \in Contract
    PROVE  /\ doc.id \in Ids \cup {Absent}
           /\ doc.project \in Projects \cup {NoProject}
           /\ doc.version \in Nat \ {0}
           /\ doc.scope \in Seq(Titles)
           /\ doc.dueDate \in DueDates
           /\ doc.amount \in Int
           /\ doc.applied \in Cards \cup {NoCard}
  BY DEF Contract

\* The first contract a body makes is a well-typed version 1.
LEMMA FirstContractType ==
    ASSUME NEW s \in Projects \cup {NoProject}, NEW body \in Bodies
    PROVE  /\ FirstContract(s, body) \in Contract
           /\ FirstContract(s, body).project = s
           /\ FirstBy(body, FirstContract(s, body))
  <1>1. body.amount \in Int /\ body.scope \in Seq(Titles)
    BY DataAssumption
  <1>2. body.dueDate \in DueDates
    BY DEF DueDates
  <1>3. QED
    BY <1>1, <1>2 DEF FirstContract, Contract, FirstBy

\* Applying an agreed card to a contract gives a well-typed version of the same
\* project that follows it by the agreement.
LEMMA ApplyFollows ==
    ASSUME NEW base \in Contract, NEW c \in Cards, NEW req \in Requirement,
           Approved(req), AgreedOf(c, req) \subseteq agreed
    PROVE  /\ ApplyToContract(base, req, c) \in Contract
           /\ ApplyToContract(base, req, c).project = base.project
           /\ FollowsBy(base, ApplyToContract(base, req, c))
  <1> DEFINE doc == ApplyToContract(base, req, c)
             a == [card |-> c, title |-> req.title, decision |-> req.decision]
  <1>1. req.decision \in Decisions /\ req.title \in Titles
    BY DEF Approved, Requirement
  <1>2. req.decision.amountDelta \in Int
    BY <1>1, DataAssumption
  <1>3. req.decision.dueDate \in DueDates
    BY <1>1 DEF DueDates
  <1>4. Append(base.scope, req.title) \in Seq(Titles)
    BY <1>1, ContractType
  <1>5. base.amount + req.decision.amountDelta \in Int
    BY <1>2, ContractType
  <1>6. base.version + 1 \in Nat \ {0}
    BY ContractType
  <1>7. base.project \in Projects \cup {NoProject}
    BY ContractType
  <1>8. doc \in Contract
    BY <1>3, <1>4, <1>5, <1>6, <1>7 DEF ApplyToContract, Contract
  <1>9. doc.project = base.project
    BY DEF ApplyToContract
  <1>10. a \in agreed
    BY DEF Approved, AgreedOf
  <1>11. FollowsBy(base, doc)
    <2>1. /\ doc.applied = a.card
          /\ doc.version = base.version + 1
          /\ doc.scope = Append(base.scope, a.title)
          /\ doc.dueDate = a.decision.dueDate
          /\ doc.amount = base.amount + a.decision.amountDelta
      BY DEF ApplyToContract
    <2>2. QED
      BY <1>10, <2>1 DEF FollowsBy
  <1>12. QED
    BY <1>8, <1>9, <1>11

\* The agreement of a well-typed card is well typed.
LEMMA AgreedOfType ==
    ASSUME NEW c \in Cards, NEW req \in Requirement
    PROVE  AgreedOf(c, req) \subseteq Agreement
  BY DEF AgreedOf, Agreement, Requirement

------------------------------------------------------------------------------
(* What a step that leaves the contracts alone, or adds to them, keeps *)

\* A handler's knowledge stays true while contracts and agreements only grow.
LEMMA CallOKMonotone ==
    ASSUME NEW w \in Calls, CallOK(calls[w]), calls'[w] = calls[w],
           contracts \subseteq contracts', agreed \subseteq agreed'
    PROVE  CallOK(calls[w])'
  <1>1. Insertable(calls[w].doc) => Insertable(calls[w].doc)'
    BY DEF Insertable, FollowsBy, FirstBy
  <1>2. QED
    BY <1>1 DEF CallOK

\* A returning handler holds nothing.
LEMMA ReturnOK ==
    ASSUME TypeOK, CallsOK, NEW w \in Calls, Return(w),
           contracts \subseteq contracts', agreed \subseteq agreed'
    PROVE  CallsOK'
  <1> SUFFICES ASSUME NEW x \in Calls PROVE CallOK(calls[x])'
    BY DEF CallsOK
  <1>1. CASE x = w
    <2>1. calls'[x] = Idle
      BY <1>1 DEF Return, TypeOK
    <2>2. QED
      BY <2>1 DEF CallOK, Idle
  <1>2. CASE x # w
    <2>1. calls'[x] = calls[x]
      BY <1>2 DEF Return, TypeOK
    <2>2. CallOK(calls[x])
      BY DEF CallsOK
    <2>3. QED
      BY <2>1, <2>2, CallOKMonotone
  <1>3. QED
    BY <1>1, <1>2

\* If only w's record changes and w's new record is in order, all are.
LEMMA OneCallChanges ==
    ASSUME CallsOK, NEW w \in Calls, CallOK(calls[w])',
           \A x \in Calls : x # w => calls'[x] = calls[x],
           contracts \subseteq contracts', agreed \subseteq agreed'
    PROVE  CallsOK'
  <1> SUFFICES ASSUME NEW x \in Calls, x # w PROVE CallOK(calls[x])'
    BY DEF CallsOK
  <1>1. QED
    BY CallOKMonotone DEF CallsOK

\* The ledger's invariants survive any step that adds no version.
LEMMA LedgerUntouched ==
    ASSUME LedgerOK, TypeOK, UNCHANGED contracts, agreed \subseteq agreed',
           deploys' = deploys \/ deploys' = deploys + 1
    PROVE  LedgerOK'
  <1>1. Protected' \subseteq Protected
    BY DEF Protected, TypeOK
  <1>2. \A b, k : FollowsBy(b, k) => FollowsBy(b, k)'
    BY DEF FollowsBy
  <1>3. Gapless'
    BY <1>1 DEF LedgerOK, Gapless
  <1>4. OneDocumentPerVersion'
    BY <1>1 DEF LedgerOK, OneDocumentPerVersion
  <1>5. EveryVersionIsAgreed'
    BY <1>1, <1>2 DEF LedgerOK, EveryVersionIsAgreed
  <1>6. AppliedOnce'
    BY <1>1 DEF LedgerOK, AppliedOnce
  <1>7. QED
    BY <1>3, <1>4, <1>5, <1>6 DEF LedgerOK

------------------------------------------------------------------------------
(* An insert that no unique index refuses extends the ledger correctly *)

\* Within a protected scope the indexes refuse a second document of a version
\* and a second document of a card.
LEMMA NoTwin ==
    ASSUME IInv, NEW w \in Calls, Insert(w), calls[w].doc.project \in Protected,
           NEW k \in contracts, k.project = calls[w].doc.project
    PROVE  /\ k.version # calls[w].doc.version
           /\ calls[w].doc.applied # NoCard => k.applied # calls[w].doc.applied
  <1> DEFINE doc == calls[w].doc
  <1>1. ~DuplicateKey(doc)
    BY DEF Insert
  <1>2. CASE doc.project \in Projects
    <2>1. doc.project # NoProject
      BY <1>2, ScopesAssumption
    <2>2. k \in InScope(doc.project)
      BY DEF InScope
    <2>3. QED
      BY <1>1, <2>1, <2>2 DEF DuplicateKey, ProjectVersionTaken, ProjectAppliedTaken
  <1>3. CASE deploys = 0
    <2>1. "ownerVersion" \in indexes /\ "ownerApplied" \in indexes
      BY <1>3 DEF IInv, IndexesInPlace, OwnerIndexes
    <2>2. QED
      BY <1>1, <2>1 DEF DuplicateKey, OwnerVersionTaken, OwnerAppliedTaken
  <1>4. QED
    BY <1>2, <1>3 DEF Protected

\* An insertable document that is not a first version follows a stored one.
LEMMA SuccessorHasBase ==
    ASSUME NEW doc, Insertable(doc), doc.version > 1
    PROVE  \E base \in contracts : base.project = doc.project /\ FollowsBy(base, doc)
  BY DEF Insertable, FirstBy

\* What insert() stores is the document the handler prepared, under a fresh id.
LEMMA InsertedDocument ==
    ASSUME IInv, NEW w \in Calls, Insert(w)
    PROVE  \E doc \in Contract :
             /\ doc.id \in FreshIds
             /\ Insertable(doc)
             /\ contracts' = contracts \cup {doc}
             /\ UNCHANGED <<cards, agreed, indexes, starting, deploys>>
             /\ Protected' = Protected
             /\ doc.project \in Protected =>
                  \A k \in contracts : k.project = doc.project =>
                    /\ k.version # doc.version
                    /\ doc.applied # NoCard => k.applied # doc.applied
  <1>1. PICK draft \in Contract : draft = calls[w].doc /\ Insertable(draft)
    BY DEF IInv, CallsOK, CallOK, Insert
  <1>2. PICK i \in FreshIds : contracts' = contracts \cup {[draft EXCEPT !.id = i]}
    BY <1>1 DEF Insert
  <1>3. PICK doc : doc = [draft EXCEPT !.id = i]
    OBVIOUS
  <1>4. /\ doc \in Contract /\ doc.id = i
        /\ doc.project = draft.project /\ doc.version = draft.version
        /\ doc.scope = draft.scope /\ doc.dueDate = draft.dueDate
        /\ doc.amount = draft.amount /\ doc.applied = draft.applied
    BY <1>3 DEF Contract, FreshIds
  <1>5. Insertable(doc)
    BY <1>1, <1>4 DEF Insertable, FirstBy, FollowsBy
  <1>6. UNCHANGED <<cards, agreed, indexes, starting, deploys>> /\ Protected' = Protected
    BY DEF Insert, environment, deployment, Protected
  <1>7. doc.project \in Protected =>
          \A k \in contracts : k.project = doc.project =>
            /\ k.version # doc.version
            /\ doc.applied # NoCard => k.applied # doc.applied
    BY <1>1, <1>4, NoTwin
  <1>8. QED
    BY <1>2, <1>3, <1>4, <1>5, <1>6, <1>7

LEMMA InsertKeepsLedger ==
    ASSUME IInv, NEW w \in Calls, Insert(w)
    PROVE  LedgerOK'
  <1>1. PICK doc \in Contract :
          /\ Insertable(doc)
          /\ contracts' = contracts \cup {doc}
          /\ agreed' = agreed
          /\ Protected' = Protected
          /\ doc.project \in Protected =>
               \A k \in contracts : k.project = doc.project =>
                 /\ k.version # doc.version
                 /\ doc.applied # NoCard => k.applied # doc.applied
    BY InsertedDocument
  <1>2. LedgerOK /\ contracts \subseteq Contract
    BY DEF IInv, TypeOK
  <1>3. \A b, k : FollowsBy(b, k) => FollowsBy(b, k)'
    BY <1>1 DEF FollowsBy
  <1>10. doc.version > 1 =>
          \E b \in contracts : b.project = doc.project /\ FollowsBy(b, doc)
    BY <1>1, SuccessorHasBase
  <1>4. doc.version \in Nat \ {0} /\ \A k \in contracts : k.version \in Nat \ {0}
    BY <1>1, <1>2, ContractType
  <1>5. Gapless'
    <2> SUFFICES ASSUME NEW k \in contracts', k.project \in Protected',
                        NEW v \in 1 .. k.version
                 PROVE  \E b \in contracts' : b.project = k.project /\ b.version = v
      BY DEF Gapless
    <2>1. CASE k \in contracts
      BY <2>1, <1>1, <1>2 DEF LedgerOK, Gapless
    <2>2. CASE k = doc /\ v = doc.version
      BY <2>2, <1>1
    <2>3. CASE k = doc /\ v # doc.version
      <3>1. v \in Nat /\ 1 <= v /\ v < doc.version
        BY <2>3, <1>4
      <3>2. PICK base \in contracts : base.project = doc.project /\ FollowsBy(base, doc)
        <4>1. doc.version > 1
          BY <3>1, <1>4
        <4>2. QED
          BY <4>1, <1>10
      <3>3. v \in 1 .. base.version
        BY <3>1, <3>2, <1>4 DEF FollowsBy
      <3>4. QED
        BY <2>3, <3>2, <3>3, <1>1, <1>2 DEF LedgerOK, Gapless
    <2>4. QED
      BY <2>1, <2>2, <2>3, <1>1
  <1>6. OneDocumentPerVersion'
    BY <1>1, <1>2 DEF LedgerOK, OneDocumentPerVersion
  <1>7. EveryVersionIsAgreed'
    <2> SUFFICES ASSUME NEW k \in contracts', k.project \in Protected', k.version > 1
                 PROVE  \E b \in contracts' : b.project = k.project /\ FollowsBy(b, k)'
      BY DEF EveryVersionIsAgreed
    <2>1. CASE k \in contracts
      BY <2>1, <1>1, <1>2, <1>3 DEF LedgerOK, EveryVersionIsAgreed
    <2>2. CASE k = doc
      <3>1. doc.version > 1
        BY <2>2
      <3>2. PICK b \in contracts : b.project = doc.project /\ FollowsBy(b, doc)
        BY <3>1, <1>10
      <3>3. b \in contracts' /\ FollowsBy(b, doc)'
        BY <3>2, <1>1, <1>3
      <3>4. QED
        BY <2>2, <3>2, <3>3
    <2>3. QED
      BY <2>1, <2>2, <1>1
  <1>8. AppliedOnce'
    BY <1>1, <1>2 DEF LedgerOK, AppliedOnce
  <1>9. QED
    BY <1>5, <1>6, <1>7, <1>8 DEF LedgerOK

------------------------------------------------------------------------------
(* The invariant is inductive: one lemma per shape of step *)

LEMMA IdleType == Idle \in Call
  BY DEF Idle, Call

\* A step that only gives w a well-typed record that tells the truth.
LEMMA CallStep ==
    ASSUME IInv, NEW w \in Calls, NEW r \in Call, CallOK(r),
           calls' = [calls EXCEPT ![w] = r],
           UNCHANGED <<environment, contracts, deployment>>
    PROVE  IInv'
  <1> USE DEF environment, deployment
  <1>1. TypeOK'
    BY DEF IInv, TypeOK
  <1>2. CardsAgreed'
    BY DEF IInv, CardsAgreed, AgreedOf
  <1>3. CallsOK'
    <2>1. calls'[w] = r /\ \A x \in Calls : x # w => calls'[x] = calls[x]
      BY DEF IInv, TypeOK
    <2>2. CallOK(r)'
      BY DEF CallOK, Insertable, FollowsBy, FirstBy, AgreedOf
    <2>3. CallOK(calls[w])'
      BY <2>1, <2>2 DEF CallOK, Insertable, FollowsBy
    <2>4. QED
      BY <2>1, <2>3, OneCallChanges DEF IInv
  <1>4. IndexesInPlace'
    BY DEF IInv, IndexesInPlace
  <1>5. LedgerOK'
    BY LedgerUntouched DEF IInv
  <1>6. QED
    BY <1>1, <1>2, <1>3, <1>4, <1>5 DEF IInv

\* A request that ends, with whatever answer, without having written.
LEMMA ReturnStep ==
    ASSUME IInv, NEW w \in Calls, Return(w),
           UNCHANGED <<environment, contracts, deployment>>
    PROVE  IInv'
  <1>1. CallOK(Idle)
    BY DEF CallOK, Idle
  <1>2. QED
    BY <1>1, IdleType, CallStep DEF Return

\* The gate lets only agreed cards through, and what it lets through is a
\* successor of the contract that was read.
LEMMA PrepareStep ==
    ASSUME IInv, NEW w \in Calls, NEW base \in contracts, Prepare(w, base),
           calls[w].pc \in {"readApplied", "readContract"},
           base.project = calls[w].scope,
           UNCHANGED <<environment, contracts, deployment>>
    PROVE  IInv'
  <1>1. CASE Approved(calls[w].req)
    <2>1. PICK call \in Call : call = calls[w]
      BY DEF IInv, TypeOK
    <2>2. CallOK(call)
      BY <2>1 DEF IInv, CallsOK
    <2>3. /\ call.card \in Cards
          /\ call.req \in Requirement
          /\ AgreedOf(call.card, call.req) \subseteq agreed
      BY <2>1, <2>2 DEF CallOK
    <2>4. base \in Contract
      BY DEF IInv, TypeOK
    <2>5. PICK doc : doc = ApplyToContract(base, call.req, call.card)
      OBVIOUS
    <2>6. doc \in Contract /\ doc.project = base.project /\ FollowsBy(base, doc)
      BY <1>1, <2>1, <2>3, <2>4, <2>5, ApplyFollows
    <2>7. PICK r : r = [call EXCEPT !.pc = "insert", !.req = Absent, !.doc = doc]
      OBVIOUS
    <2>8. r \in Call
      BY <2>6, <2>7 DEF Call
    <2>9. r.pc = "insert" /\ r.doc = doc /\ r.scope = base.project
      BY <2>1, <2>7 DEF Call
    <2>10. Insertable(doc)
      BY <2>6 DEF Insertable
    <2>11. CallOK(r)
      BY <2>6, <2>9, <2>10 DEF CallOK
    <2>12. calls' = [calls EXCEPT ![w] = r]
      BY <1>1, <2>1, <2>5, <2>7 DEF Prepare
    <2>13. QED
      BY <2>8, <2>11, <2>12, CallStep
  <1>2. CASE ~Approved(calls[w].req)
    BY <1>2, ReturnStep DEF Prepare, Return
  <1>3. QED
    BY <1>1, <1>2

\* Storing a card, whatever it becomes, touches no contract.
LEMMA StoreStep ==
    ASSUME IInv, NEW c \in Cards, NEW req \in Requirement, Store(c, req)
    PROVE  IInv'
  <1> USE DEF deployment
  <1>1. /\ cards' = [cards EXCEPT ![c] = req]
        /\ agreed' = agreed \cup AgreedOf(c, req)
        /\ UNCHANGED <<contracts, calls, indexes, starting, deploys>>
    BY DEF Store
  <1>2. TypeOK'
    BY <1>1, AgreedOfType DEF IInv, TypeOK
  <1>3. CardsAgreed'
    <2> SUFFICES ASSUME NEW x \in Cards, cards'[x] # Absent
                 PROVE  AgreedOf(x, cards'[x]) \subseteq agreed'
      BY DEF CardsAgreed, AgreedOf
    <2>1. CASE x = c
      BY <2>1, <1>1 DEF IInv, TypeOK
    <2>2. CASE x # c
      <3>1. cards'[x] = cards[x]
        BY <2>2, <1>1 DEF IInv, TypeOK
      <3>2. AgreedOf(x, cards[x]) \subseteq agreed
        BY <3>1 DEF IInv, CardsAgreed
      <3>3. QED
        BY <1>1, <3>1, <3>2
    <2>3. QED
      BY <2>1, <2>2
  <1>4. CallsOK'
    BY <1>1, CallOKMonotone DEF IInv, CallsOK
  <1>5. IndexesInPlace'
    BY <1>1 DEF IInv, IndexesInPlace
  <1>6. LedgerOK'
    BY <1>1, LedgerUntouched DEF IInv
  <1>7. QED
    BY <1>2, <1>3, <1>4, <1>5, <1>6 DEF IInv

\* A step of a deployment: afterwards the owner-level scope is not protected.
LEMMA DeployStep ==
    ASSUME IInv, UNCHANGED <<environment, contracts, calls>>,
           indexes' \subseteq OwnerIndexes, starting' \in BOOLEAN,
           deploys' = deploys \/ deploys' = deploys + 1, deploys' # 0
    PROVE  IInv'
  <1> USE DEF environment
  <1>1. TypeOK'
    BY DEF IInv, TypeOK
  <1>2. CardsAgreed'
    BY DEF IInv, CardsAgreed, AgreedOf
  <1>3. CallsOK'
    BY CallOKMonotone DEF IInv, CallsOK
  <1>4. IndexesInPlace'
    BY DEF IndexesInPlace
  <1>5. LedgerOK'
    BY LedgerUntouched DEF IInv
  <1>6. QED
    BY <1>1, <1>2, <1>3, <1>4, <1>5 DEF IInv

LEMMA InsertStep ==
    ASSUME IInv, NEW w \in Calls, Insert(w)
    PROVE  IInv'
  <1>1. PICK doc \in Contract :
          /\ contracts' = contracts \cup {doc}
          /\ UNCHANGED <<cards, agreed, indexes, starting, deploys>>
    BY InsertedDocument
  <1>2. Return(w)
    BY DEF Insert
  <1>3. TypeOK'
    BY <1>1, <1>2, IdleType DEF IInv, TypeOK, Return
  <1>4. CardsAgreed'
    BY <1>1 DEF IInv, CardsAgreed, AgreedOf
  <1>5. CallsOK'
    BY <1>1, <1>2, ReturnOK DEF IInv
  <1>6. IndexesInPlace'
    BY <1>1 DEF IInv, IndexesInPlace
  <1>7. LedgerOK'
    BY InsertKeepsLedger
  <1>8. QED
    BY <1>3, <1>4, <1>5, <1>6, <1>7 DEF IInv

------------------------------------------------------------------------------
(* Every action, then every behaviour *)

LEMMA HandlerStep ==
    ASSUME IInv, NEW w \in Calls, Handler(w)
    PROVE  IInv'
  <1>0. PICK call \in Call : call = calls[w]
    BY DEF IInv, TypeOK
  <1>1. CallOK(call)
    BY <1>0 DEF IInv, CallsOK
  <1>2. ASSUME NEW s \in Scopes, NEW body \in Bodies, CreateRead(w, s, body)
        PROVE  IInv'
    <2>1. s \in Projects \cup {NoProject}
      BY ScopesAssumption
    <2>2. PICK doc \in Contract :
            doc = FirstContract(s, body) /\ doc.project = s /\ FirstBy(body, doc)
      BY <2>1, FirstContractType
    <2>3. PICK r : r = [Idle EXCEPT !.pc = "insert", !.scope = s, !.doc = doc]
      OBVIOUS
    <2>4. r \in Call /\ r.pc = "insert" /\ r.scope = s /\ r.doc = doc
      BY <2>1, <2>3 DEF Call, Idle
    <2>5. Insertable(doc)
      BY <2>2 DEF Insertable
    <2>6. CallOK(r)
      BY <2>2, <2>4, <2>5 DEF CallOK
    <2>7. QED
      BY <1>2, <2>2, <2>3, <2>4, <2>6, CallStep DEF CreateRead
  <1>3. ASSUME NEW s \in Scopes, NEW c \in Cards, ApplyReadRequirement(w, s, c)
        PROVE  IInv'
    <2>1. s \in Projects \cup {NoProject}
      BY ScopesAssumption
    <2>2. cards[c] # Absent
      BY <1>3 DEF ApplyReadRequirement
    <2>3. PICK req \in Requirement : req = cards[c]
      BY <2>2 DEF IInv, TypeOK
    <2>4. AgreedOf(c, req) \subseteq agreed
      BY <2>2, <2>3 DEF IInv, CardsAgreed
    <2>5. PICK r : r = [Idle EXCEPT !.pc = IF s = NoProject THEN "readApplied"
                                                           ELSE "readContract",
                                    !.scope = s, !.card = c, !.req = req]
      OBVIOUS
    <2>6. /\ r \in Call
          /\ r.pc \in {"readApplied", "readContract"}
          /\ r.pc = "readApplied" => r.scope = NoProject
          /\ r.card = c /\ r.req = req
      BY <2>1, <2>5 DEF Call, Idle
    <2>7. CallOK(r)
      BY <2>4, <2>6 DEF CallOK
    <2>8. QED
      BY <1>3, <2>3, <2>5, <2>6, <2>7, CallStep DEF ApplyReadRequirement
  <1>4. ASSUME OwnerReadApplied(w) PROVE IInv'
    <2>1. CASE Return(w)
      BY <1>4, <2>1, ReturnStep DEF OwnerReadApplied
    <2>2. CASE calls' = [calls EXCEPT ![w].pc = "readContract"]
      <3>1. PICK r : r = [call EXCEPT !.pc = "readContract"]
        OBVIOUS
      <3>2. /\ r \in Call /\ r.pc = "readContract"
            /\ r.card = call.card /\ r.req = call.req
        BY <3>1 DEF Call
      <3>3. CallOK(r)
        BY <1>0, <1>1, <1>4, <3>2 DEF CallOK, OwnerReadApplied
      <3>4. calls' = [calls EXCEPT ![w] = r]
        BY <1>0, <2>2, <3>1 DEF IInv, TypeOK
      <3>5. QED
        BY <1>4, <3>2, <3>3, <3>4, CallStep DEF OwnerReadApplied
    <2>3. QED
      BY <1>4, <2>1, <2>2 DEF OwnerReadApplied
  <1>5. ASSUME OwnerReadContract(w) PROVE IInv'
    <2>1. CASE Return(w)
      BY <1>5, <2>1, ReturnStep DEF OwnerReadContract
    <2>2. ASSUME NEW base \in Current(NoProject), Prepare(w, base)
          PROVE  IInv'
      <3>1. base \in contracts /\ base.project = calls[w].scope
        BY <1>5 DEF Current, InScope, OwnerReadContract
      <3>2. QED
        BY <1>5, <2>2, <3>1, PrepareStep DEF OwnerReadContract
    <2>3. QED
      BY <1>5, <2>1, <2>2 DEF OwnerReadContract
  <1>6. ASSUME ProjectReadContract(w) PROVE IInv'
    <2>1. CASE Return(w)
      BY <1>6, <2>1, ReturnStep DEF ProjectReadContract
    <2>2. ASSUME NEW base \in Current(call.scope),
                 calls' = [calls EXCEPT ![w].pc = "readApplied", ![w].doc = base]
          PROVE  IInv'
      <3>1. base \in contracts /\ base.project = call.scope /\ base \in Contract
        BY DEF Current, InScope, IInv, TypeOK
      <3>2. PICK r : r = [call EXCEPT !.pc = "readApplied", !.doc = base]
        OBVIOUS
      <3>3. /\ r \in Call /\ r.pc = "readApplied" /\ r.scope = call.scope
            /\ r.card = call.card /\ r.req = call.req /\ r.doc = base
        BY <3>1, <3>2 DEF Call
      <3>4. CallOK(r)
        BY <1>0, <1>1, <1>6, <3>1, <3>3 DEF CallOK, ProjectReadContract
      <3>5. calls' = [calls EXCEPT ![w] = r]
        BY <1>0, <2>2, <3>2 DEF IInv, TypeOK
      <3>6. QED
        BY <1>6, <3>3, <3>4, <3>5, CallStep DEF ProjectReadContract
    <2>3. QED
      BY <1>0, <1>6, <2>1, <2>2 DEF ProjectReadContract
  <1>7. ASSUME ProjectReadApplied(w) PROVE IInv'
    <2>1. CASE Return(w)
      BY <1>7, <2>1, ReturnStep DEF ProjectReadApplied
    <2>2. CASE Prepare(w, call.doc)
      <3>1. call.doc \in contracts /\ call.doc.project = call.scope
        BY <1>0, <1>1, <1>7 DEF CallOK, ProjectReadApplied
      <3>2. QED
        BY <1>0, <1>7, <2>2, <3>1, PrepareStep DEF ProjectReadApplied
    <2>3. QED
      BY <1>0, <1>7, <2>1, <2>2 DEF ProjectReadApplied
  <1>8. ASSUME InsertFails(w) PROVE IInv'
    <2>1. CASE Return(w)
      BY <1>8, <2>1, ReturnStep DEF InsertFails
    <2>2. CASE calls' = [calls EXCEPT ![w].pc = "reread", ![w].doc = Absent]
      <3>1. PICK r : r = [call EXCEPT !.pc = "reread", !.doc = Absent]
        OBVIOUS
      <3>2. r \in Call /\ r.pc = "reread"
        BY <3>1 DEF Call
      <3>3. CallOK(r)
        BY <3>2 DEF CallOK
      <3>4. calls' = [calls EXCEPT ![w] = r]
        BY <1>0, <2>2, <3>1 DEF IInv, TypeOK
      <3>5. QED
        BY <1>8, <3>2, <3>3, <3>4, CallStep DEF InsertFails
    <2>3. QED
      BY <1>8, <2>1, <2>2 DEF InsertFails
  <1>9. CASE OwnerReread(w)
    BY <1>9, ReturnStep DEF OwnerReread
  <1>10. CASE Abandon(w)
    BY <1>10, ReturnStep DEF Abandon
  <1>11. QED
    BY <1>2, <1>3, <1>4, <1>5, <1>6, <1>7, <1>8, <1>9, <1>10, InsertStep DEF Handler

LEMMA InitOK == Init => IInv
  <1> SUFFICES ASSUME Init PROVE IInv
    OBVIOUS
  <1>1. cards \in [Cards -> Requirement \cup {Absent}]
    BY DataAssumption DEF Init
  <1>2. agreed \subseteq Agreement
    <2> SUFFICES ASSUME NEW c \in Cards, cards[c] # Absent
                 PROVE  AgreedOf(c, cards[c]) \subseteq Agreement
      BY DEF Init
    <2>1. QED
      BY <1>1, AgreedOfType
  <1>3. TypeOK
    BY <1>1, <1>2, IdleType DEF Init, TypeOK
  <1>4. CardsAgreed
    BY DEF Init, CardsAgreed
  <1>5. CallsOK
    BY DEF Init, CallsOK, CallOK, Idle
  <1>6. IndexesInPlace
    BY DEF Init, IndexesInPlace
  <1>7. LedgerOK
    BY DEF Init, LedgerOK, Gapless, OneDocumentPerVersion, EveryVersionIsAgreed, AppliedOnce
  <1>8. QED
    BY <1>3, <1>4, <1>5, <1>6, <1>7 DEF IInv

LEMMA NextOK == IInv /\ [Next]_vars => IInv'
  <1> SUFFICES ASSUME IInv, [Next]_vars PROVE IInv'
    OBVIOUS
  <1>1. ASSUME NEW c \in Cards, CreateCard(c) PROVE IInv'
    BY <1>1, StoreStep DEF CreateCard
  <1>2. ASSUME NEW c \in Cards, EditCard(c) PROVE IInv'
    <2>1. PICK s \in Statuses, d \in Decisions \cup {NoDecision} :
            Store(c, [cards[c] EXCEPT !.status = s, !.decision = d])
      BY <1>2 DEF EditCard
    <2>2. cards[c] \in Requirement
      BY <1>2 DEF EditCard, IInv, TypeOK
    <2>3. [cards[c] EXCEPT !.status = s, !.decision = d] \in Requirement
      BY <2>2 DEF Requirement
    <2>4. QED
      BY <2>1, <2>3, StoreStep
  <1>3. CASE StartInstance
    <2>1. /\ UNCHANGED <<environment, contracts, calls>>
          /\ indexes' \subseteq OwnerIndexes /\ starting' \in BOOLEAN
          /\ deploys' = deploys + 1 /\ deploys' # 0
      BY <1>3 DEF StartInstance, IInv, TypeOK
    <2>2. QED
      BY <2>1, DeployStep
  <1>4. ASSUME NEW i \in OwnerIndexes, DropOwnerIndex(i) PROVE IInv'
    <2>1. /\ UNCHANGED <<environment, contracts, calls>>
          /\ indexes' \subseteq OwnerIndexes /\ starting' \in BOOLEAN
          /\ deploys' = deploys /\ deploys' # 0
      BY <1>4 DEF DropOwnerIndex, IInv, TypeOK, IndexesInPlace
    <2>2. QED
      BY <2>1, DeployStep
  <1>5. CASE InitBeanie
    <2>1. /\ UNCHANGED <<environment, contracts, calls>>
          /\ indexes' \subseteq OwnerIndexes /\ starting' \in BOOLEAN
          /\ deploys' = deploys /\ deploys' # 0
      BY <1>5 DEF InitBeanie, IInv, TypeOK, IndexesInPlace
    <2>2. QED
      BY <2>1, DeployStep
  <1>6. CASE UNCHANGED vars
    <2>1. UNCHANGED <<cards, agreed, contracts, calls, indexes, starting, deploys>>
      BY <1>6 DEF vars
    <2>2. TypeOK' /\ CardsAgreed' /\ IndexesInPlace'
      BY <2>1 DEF IInv, TypeOK, CardsAgreed, AgreedOf, IndexesInPlace
    <2>3. CallsOK'
      BY <2>1, CallOKMonotone DEF IInv, CallsOK
    <2>4. LedgerOK'
      BY <2>1, LedgerUntouched DEF IInv
    <2>5. QED
      BY <2>2, <2>3, <2>4 DEF IInv
  <1>7. QED
    BY <1>1, <1>2, <1>3, <1>4, <1>5, <1>6, HandlerStep DEF Next

\* Every reachable state satisfies the inductive invariant.
THEOREM Invariance == Spec => []IInv
  BY InitOK, NextOK, PTL DEF Spec

\* Whatever the requests interleave to, every variable keeps its shape: no
\* handler uses a card or a contract that it did not find.
THEOREM TypeCorrect == Spec => []TypeOK
  BY Invariance, PTL DEF IInv

\* Requests that race to write version n of a contract produce one document.
THEOREM VersionsAreUnique == Spec => []OneDocumentPerVersion
  BY Invariance, PTL DEF IInv, LedgerOK

\* Every version after the first follows from the version before it by an
\* agreement a person stored.
THEOREM VersionsAreAgreed == Spec => []EveryVersionIsAgreed
  BY Invariance, PTL DEF IInv, LedgerOK

\* An agreed card makes at most one version of its project's contract.
THEOREM CardsApplyOnce == Spec => []AppliedOnce
  BY Invariance, PTL DEF IInv, LedgerOK

\* No handler edits or deletes a stored version.
THEOREM OnlyAppends == Spec => AppendOnly
  <1>1. [Next]_vars => [contracts \subseteq contracts']_contracts
    BY DEF Next, Handler, vars, environment, deployment, CreateRead,
       ApplyReadRequirement, OwnerReadApplied, OwnerReadContract,
       ProjectReadContract, ProjectReadApplied, Insert, InsertFails, OwnerReread,
       Abandon, CreateCard, EditCard, Store, StartInstance, DropOwnerIndex, InitBeanie
  <1>2. QED
    BY <1>1, PTL DEF Spec, AppendOnly

------------------------------------------------------------------------------
(* The projects' collection implements the atomic ledger *)

stored == {k \in contracts : k.project \in Projects}

LEMMA AtomicInit == Init => Atomic!Init
  <1> SUFFICES ASSUME Init PROVE Atomic!Init
    OBVIOUS
  <1>1. agreed \subseteq Agreement
    BY InitOK DEF IInv, TypeOK
  <1>2. QED
    BY <1>1 DEF Init, Atomic!Init, Atomic!Agreement, Agreement

\* A card stored as agreed is an agreement; any other card is a stutter.
LEMMA AtomicStore ==
    ASSUME NEW c \in Cards, NEW req \in Requirement, Store(c, req)
    PROVE  [Atomic!Next]_(Atomic!vars)
  <1>1. UNCHANGED contracts /\ agreed' = agreed \cup AgreedOf(c, req)
    BY DEF Store
  <1>2. UNCHANGED stored
    BY <1>1 DEF stored
  <1>3. CASE AgreedOf(c, req) = {}
    BY <1>1, <1>2, <1>3 DEF Atomic!vars, stored
  <1>4. CASE AgreedOf(c, req) # {}
    <2>1. PICK a \in Agreement : AgreedOf(c, req) = {a}
      BY <1>4, AgreedOfType DEF AgreedOf
    <2>2. Atomic!Agree(a)
      BY <1>1, <1>2, <2>1 DEF Atomic!Agree, stored
    <2>3. QED
      BY <2>2 DEF Atomic!Next, Atomic!Agreement, Agreement
  <1>5. QED
    BY <1>3, <1>4

\* A refused duplicate cannot be the newest version: what an insert adds is
\* version 1 of an empty ledger or the successor of its newest version.
LEMMA AtomicInsert ==
    ASSUME IInv, NEW w \in Calls, Insert(w)
    PROVE  [Atomic!Next]_(Atomic!vars)
  <1>1. PICK doc \in Contract :
          /\ doc.id \in FreshIds
          /\ Insertable(doc)
          /\ contracts' = contracts \cup {doc}
          /\ agreed' = agreed
          /\ doc.project \in Protected =>
               \A k \in contracts : k.project = doc.project =>
                 /\ k.version # doc.version
                 /\ doc.applied # NoCard => k.applied # doc.applied
    BY InsertedDocument
  <1>2. doc.id \in Ids /\ \A k \in stored : k.id # doc.id
    BY <1>1 DEF FreshIds, stored
  <1>3. CASE doc.project \notin Projects
    <2>1. UNCHANGED stored
      BY <1>1, <1>3 DEF stored
    <2>2. QED
      BY <1>1, <2>1 DEF Atomic!vars, stored
  <1>4. CASE doc.project \in Projects
    <2>1. stored' = stored \cup {doc}
      BY <1>1, <1>4 DEF stored
    <2>2. doc.project \in Protected
      BY <1>4 DEF Protected
    <2>3. \A k \in contracts : k.project = doc.project =>
            /\ k.version # doc.version
            /\ doc.applied # NoCard => k.applied # doc.applied
      BY <1>1, <2>2
    <2>4. \A k \in contracts : k.project = doc.project =>
            /\ k.version \in Nat \ {0}
            /\ k.version < doc.version
      <3> SUFFICES ASSUME NEW k \in contracts, k.project = doc.project
                   PROVE  k.version \in Nat \ {0} /\ k.version < doc.version
        OBVIOUS
      <3>1. k.version \in Nat \ {0} /\ doc.version \in Nat \ {0}
        BY ContractType DEF IInv, TypeOK
      <3>2. ASSUME doc.version < k.version PROVE FALSE
        <4>1. doc.version \in 1 .. k.version
          BY <3>1, <3>2
        <4>2. \E b \in contracts : b.project = doc.project /\ b.version = doc.version
          BY <2>2, <4>1 DEF IInv, LedgerOK, Gapless
        <4>3. QED
          BY <2>3, <4>2
      <3>3. QED
        BY <2>3, <3>1, <3>2
    <2>5. ASSUME NEW body \in Bodies, FirstBy(body, doc)
          PROVE  Atomic!Register(doc.id, doc.project, body)
      <3>1. doc = [id |-> doc.id, project |-> doc.project, version |-> 1,
                   scope |-> body.scope, dueDate |-> body.dueDate,
                   amount |-> body.amount, applied |-> NoCard]
        BY <2>5 DEF FirstBy, Contract
      <3>2. \A k \in stored : k.project # doc.project
        BY <2>4, <2>5 DEF stored, FirstBy
      <3>3. QED
        BY <1>1, <1>2, <2>1, <3>1, <3>2 DEF Atomic!Register, Atomic!Fresh, stored
    <2>6. ASSUME NEW base \in contracts, base.project = doc.project, FollowsBy(base, doc)
          PROVE  \E b \in stored, a \in agreed : Atomic!Extend(doc.id, b, a)
      <3>1. PICK a \in agreed :
              /\ doc.applied = a.card
              /\ doc.version = base.version + 1
              /\ doc.scope = Append(base.scope, a.title)
              /\ doc.dueDate = a.decision.dueDate
              /\ doc.amount = base.amount + a.decision.amountDelta
        BY <2>6 DEF FollowsBy
      <3>2. base \in stored
        BY <1>4, <2>6 DEF stored
      <3>3. doc.applied # NoCard
        BY <3>1, DataAssumption DEF IInv, TypeOK, Agreement
      <3>4. base.version \in Nat
        BY ContractType DEF IInv, TypeOK
      <3>5. \A k \in stored : k.project = base.project =>
              k.version <= base.version /\ k.applied # a.card
        BY <2>3, <2>4, <2>6, <3>1, <3>3, <3>4 DEF stored
      <3>6. doc = [id      |-> doc.id,
                   project |-> base.project,
                   version |-> base.version + 1,
                   scope   |-> Append(base.scope, a.title),
                   dueDate |-> a.decision.dueDate,
                   amount  |-> base.amount + a.decision.amountDelta,
                   applied |-> a.card]
        BY <2>6, <3>1 DEF Contract
      <3>7. Atomic!Extend(doc.id, base, a)
        BY <1>1, <1>2, <2>1, <3>5, <3>6 DEF Atomic!Extend, Atomic!Fresh, stored
      <3>8. QED
        BY <3>2, <3>7
    <2>7. QED
      BY <1>1, <1>2, <1>4, <2>5, <2>6 DEF Insertable, Atomic!Next, stored
  <1>5. QED
    BY <1>3, <1>4

\* A step that stores neither a card nor a version is a stutter.
LEMMA AtomicStutter ==
    ASSUME UNCHANGED <<agreed, contracts>>
    PROVE  [Atomic!Next]_(Atomic!vars)
  BY DEF Atomic!vars

\* Each project's contract behaves as if every request read and wrote it in one
\* step, on its newest version.
THEOREM LedgerIsAtomic == Spec => ImplementsAtomicLedger
  <1>1. IInv /\ [Next]_vars => [Atomic!Next]_(Atomic!vars)
    <2> SUFFICES ASSUME IInv, [Next]_vars PROVE [Atomic!Next]_(Atomic!vars)
      OBVIOUS
    <2>1. ASSUME NEW w \in Calls, Handler(w) PROVE [Atomic!Next]_(Atomic!vars)
      <3>1. CASE Insert(w)
        BY <3>1, AtomicInsert
      <3>2. CASE ~Insert(w)
        <4>1. UNCHANGED <<agreed, contracts>>
          BY <2>1, <3>2 DEF Handler, environment, CreateRead, ApplyReadRequirement,
             OwnerReadApplied, OwnerReadContract, ProjectReadContract,
             ProjectReadApplied, InsertFails, OwnerReread, Abandon
        <4>2. QED
          BY <4>1, AtomicStutter
      <3>3. QED
        BY <3>1, <3>2
    <2>2. ASSUME NEW c \in Cards, CreateCard(c) PROVE [Atomic!Next]_(Atomic!vars)
      BY <2>2, AtomicStore DEF CreateCard
    <2>3. ASSUME NEW c \in Cards, EditCard(c) PROVE [Atomic!Next]_(Atomic!vars)
      <3>1. PICK s \in Statuses, d \in Decisions \cup {NoDecision} :
              Store(c, [cards[c] EXCEPT !.status = s, !.decision = d])
        BY <2>3 DEF EditCard
      <3>2. cards[c] \in Requirement
        BY <2>3 DEF EditCard, IInv, TypeOK
      <3>3. [cards[c] EXCEPT !.status = s, !.decision = d] \in Requirement
        BY <3>2 DEF Requirement
      <3>4. QED
        BY <3>1, <3>3, AtomicStore
    <2>4. CASE StartInstance \/ InitBeanie \/ \E i \in OwnerIndexes : DropOwnerIndex(i)
      <3>1. UNCHANGED <<agreed, contracts>>
        BY <2>4 DEF environment, StartInstance, InitBeanie, DropOwnerIndex
      <3>2. QED
        BY <3>1, AtomicStutter
    <2>5. CASE UNCHANGED vars
      BY <2>5, AtomicStutter DEF vars
    <2>6. QED
      BY <2>1, <2>2, <2>3, <2>4, <2>5 DEF Next
  <1>2. QED
    BY <1>1, AtomicInit, Invariance, PTL DEF Spec, ImplementsAtomicLedger, Atomic!Spec
==============================================================================
