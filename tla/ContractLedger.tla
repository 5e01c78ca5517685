---------------------------- MODULE ContractLedger ----------------------------
(***************************************************************************)
(* The contract collection of one owner and the four handlers that write   *)
(* it: POST /contract, POST /contract/apply and their per-project twins.   *)
(* A handler is a coroutine; every awaited database call is a point where  *)
(* the others run, so each call is one action and what it read travels in  *)
(* the handler's record.  A contract is a new document per version; the    *)
(* only arbiter between handlers is the unique indexes of the collection.  *)
(*                                                                         *)
(* The cards are the environment here: whatever RequirementCards does to a *)
(* card is an EditCard or a CreateCard (module Agreement checks that).     *)
(* So is a deployment: a starting instance drops the owner-wide indexes    *)
(* and has them built again while the old instance serves.                 *)
(***************************************************************************)
EXTENDS Integers, Sequences, FiniteSets, RequirementStates

CONSTANTS
    Projects,     \* project ids of the owner
    NoProject,    \* projectId = None: the owner-level contract and cards
    Scopes,       \* whose contract routes are called: projects, NoProject
    Cards,        \* requirement ids
    NoCard,       \* appliedRequirementId = None
    Titles,       \* titles of cards
    Statuses,     \* the statuses a card takes here
    Decisions,    \* [amountDelta, dueDate] a person may confirm
    NoDecision,   \* decision = None
    Bodies,       \* [scope, dueDate, amount] a first contract is posted with
    Absent,       \* no document
    InitialCards, \* what the cards may be when the contract routes are first used
    Calls,        \* concurrent requests on the contract routes
    Ids,          \* ids of contract documents: bounds how many there are
    MaxDeploys    \* bound: deployments started

Requirement ==
    [project  : Projects \cup {NoProject},
     title    : Titles,
     status   : Statuses,
     decision : Decisions \cup {NoDecision}]

ASSUME ScopesAssumption ==
    /\ NoProject \notin Projects
    /\ Scopes \subseteq Projects \cup {NoProject}

ASSUME DataAssumption ==
    /\ Statuses \subseteq RequirementStatus
    /\ NoCard \notin Cards
    /\ \A d \in Decisions : d.amountDelta \in Int
    /\ NoDecision \notin Decisions
    /\ \A b \in Bodies : b.amount \in Int /\ b.scope \in Seq(Titles)
    /\ Absent \notin Requirement
    /\ InitialCards \subseteq [Cards -> Requirement \cup {Absent}]

ASSUME BoundsAssumption == MaxDeploys \in Nat

DueDates == {d.dueDate : d \in Decisions} \cup {b.dueDate : b \in Bodies}

Contract ==
    [id      : Ids \cup {Absent},   \* Absent until insert()
     project : Projects \cup {NoProject},
     version : Nat \ {0},
     scope   : Seq(Titles),
     dueDate : DueDates,
     amount  : Int,
     applied : Cards \cup {NoCard}]

\* The indexes that app.main drops at startup and init_beanie builds again.
OwnerIndexes == {"ownerVersion", "ownerApplied"}

VARIABLES
    cards,      \* Cards -> Requirement, or Absent
    agreed,     \* every [card, title, decision] ever stored as agreed (history)
    contracts,  \* the documents of the collection
    calls,      \* Calls -> what an in-flight request has read
    indexes,    \* the owner-wide indexes that exist now
    starting,   \* an instance is inside lifespan
    deploys     \* deployments started

vars == <<cards, agreed, contracts, calls, indexes, starting, deploys>>
environment == <<cards, agreed>>
deployment == <<indexes, starting, deploys>>

Idle ==
    [pc |-> "idle", scope |-> NoProject, card |-> NoCard,
     req |-> Absent, doc |-> Absent]

------------------------------------------------------------------------------
(* The collection *)

InScope(s) == {k \in contracts : k.project = s}

\* find(...).sort(-version).first_or_none(): the documents with the top version.
Current(s) ==
    {k \in InScope(s) : \A other \in InScope(s) : other.version <= k.version}

Applied(s, c) == {k \in InScope(s) : k.applied = c}

\* A mutant: an index that is not unique.
NeverTaken(doc) == FALSE

OwnerVersionTaken(doc) ==
    "ownerVersion" \in indexes /\ \E k \in contracts : k.version = doc.version

OwnerAppliedTaken(doc) ==
    /\ "ownerApplied" \in indexes
    /\ doc.applied # NoCard
    /\ \E k \in contracts : k.applied = doc.applied

ProjectVersionTaken(doc) ==
    /\ doc.project # NoProject
    /\ \E k \in InScope(doc.project) : k.version = doc.version

ProjectAppliedTaken(doc) ==
    /\ doc.project # NoProject
    /\ doc.applied # NoCard
    /\ \E k \in InScope(doc.project) : k.applied = doc.applied

\* insert() raises DuplicateKeyError.
DuplicateKey(doc) ==
    \/ OwnerVersionTaken(doc)
    \/ OwnerAppliedTaken(doc)
    \/ ProjectVersionTaken(doc)
    \/ ProjectAppliedTaken(doc)

------------------------------------------------------------------------------
(* The approval gate and the next version: core/contract_ops.py *)

\* A mutant: the gate looks at the decision only.
DecidedIsEnough(req) == req.decision # NoDecision

Approved(req) == req.status = "agreed" /\ req.decision # NoDecision

FirstContract(s, body) ==
    [id |-> Absent, project |-> s, version |-> 1, scope |-> body.scope,
     dueDate |-> body.dueDate, amount |-> body.amount, applied |-> NoCard]

\* Mutants: the amount is replaced, not adjusted; the card is stored, not its id.
ApplyReplacesAmount(base, req, c) ==
    [id      |-> Absent,
     project |-> base.project,
     version |-> base.version + 1,
     scope   |-> Append(base.scope, req.title),
     dueDate |-> req.decision.dueDate,
     amount  |-> req.decision.amountDelta,
     applied |-> c]

ApplyStoresCard(base, req, c) ==
    [id      |-> Absent,
     project |-> base.project,
     version |-> base.version + 1,
     scope   |-> Append(base.scope, req.title),
     dueDate |-> req.decision.dueDate,
     amount  |-> base.amount + req.decision.amountDelta,
     applied |-> req]

ApplyToContract(base, req, c) ==
    [id      |-> Absent,
     project |-> base.project,
     version |-> base.version + 1,
     scope   |-> Append(base.scope, req.title),
     dueDate |-> req.decision.dueDate,
     amount  |-> base.amount + req.decision.amountDelta,
     applied |-> c]

------------------------------------------------------------------------------
(* Registering the first contract *)

Return(w) == calls' = [calls EXCEPT ![w] = Idle]

\* The owner route looks for any version, the project route for version 1.
AlreadyRegistered(s) ==
    IF s = NoProject THEN InScope(s) # {}
                     ELSE \E k \in InScope(s) : k.version = 1

CreateRead(w, s, body) ==
    /\ calls[w].pc = "idle"
    /\ ~AlreadyRegistered(s)
    /\ calls' = [calls EXCEPT ![w] =
                    [Idle EXCEPT !.pc = "insert", !.scope = s,
                                 !.doc = FirstContract(s, body)]]
    /\ UNCHANGED <<environment, contracts, deployment>>

------------------------------------------------------------------------------
(* Applying an agreed card *)

\* The project route filters on projectId; the owner route does not.
ApplyReadRequirement(w, s, c) ==
    /\ calls[w].pc = "idle"
    /\ cards[c] # Absent
    /\ s # NoProject => cards[c].project = s
    /\ calls' = [calls EXCEPT ![w] =
                    [Idle EXCEPT !.pc = IF s = NoProject THEN "readApplied"
                                                         ELSE "readContract",
                                 !.scope = s, !.card = c, !.req = cards[c]]]
    /\ UNCHANGED <<environment, contracts, deployment>>

\* What follows the last read, with no await in between: the gate, and the
\* document to insert.
Prepare(w, base) ==
    LET call == calls[w]
    IN  calls' = [calls EXCEPT ![w] =
                    IF Approved(call.req)
                    THEN [call EXCEPT !.pc = "insert", !.req = Absent,
                            !.doc = ApplyToContract(base, call.req, call.card)]
                    ELSE Idle]

OwnerReadApplied(w) ==
    LET call == calls[w]
    IN  /\ call.pc = "readApplied"
        /\ call.scope = NoProject
        /\ IF Applied(NoProject, call.card) # {}
           THEN Return(w)
           ELSE calls' = [calls EXCEPT ![w].pc = "readContract"]
        /\ UNCHANGED <<environment, contracts, deployment>>

OwnerReadContract(w) ==
    /\ calls[w].pc = "readContract"
    /\ calls[w].scope = NoProject
    /\ \/ Current(NoProject) = {} /\ Return(w)
       \/ \E base \in Current(NoProject) : Prepare(w, base)
    /\ UNCHANGED <<environment, contracts, deployment>>

ProjectReadContract(w) ==
    LET call == calls[w]
    IN  /\ call.pc = "readContract"
        /\ call.scope # NoProject
        /\ \/ Current(call.scope) = {} /\ Return(w)
           \/ \E base \in Current(call.scope) :
                calls' = [calls EXCEPT ![w].pc = "readApplied", ![w].doc = base]
        /\ UNCHANGED <<environment, contracts, deployment>>

\* An applied version is returned only if its predecessor is found too.
AppliedResult(s, c) ==
    {k \in Applied(s, c) : \E p \in InScope(s) : p.version = k.version - 1}

ProjectReadApplied(w) ==
    LET call == calls[w]
    IN  /\ call.pc = "readApplied"
        /\ call.scope # NoProject
        /\ IF AppliedResult(call.scope, call.card) # {}
           THEN Return(w)
           ELSE Prepare(w, call.doc)
        /\ UNCHANGED <<environment, contracts, deployment>>

------------------------------------------------------------------------------
(* insert(), shared by the four handlers *)

FreshIds == Ids \ {k.id : k \in contracts}

\* A mutant: the version read earlier is replaced in place.
InsertInPlace(w) ==
    LET doc == calls[w].doc
    IN  /\ calls[w].pc = "insert"
        /\ ~DuplicateKey(doc)
        /\ \E i \in FreshIds :
             contracts' = {k \in contracts : k.project # doc.project}
                            \cup {[doc EXCEPT !.id = i]}
        /\ Return(w)
        /\ UNCHANGED <<environment, deployment>>

Insert(w) ==
    LET doc == calls[w].doc
    IN  /\ calls[w].pc = "insert"
        /\ ~DuplicateKey(doc)
        /\ \E i \in FreshIds : contracts' = contracts \cup {[doc EXCEPT !.id = i]}
        /\ Return(w)
        /\ UNCHANGED <<environment, deployment>>

\* A project's first contract: uncaught, a 500.  An apply in a project: 409.
\* An owner-level apply reads the collection once more and answers from it.
InsertFails(w) ==
    /\ calls[w].pc = "insert"
    /\ DuplicateKey(calls[w].doc)
    /\ IF calls[w].scope = NoProject /\ calls[w].card # NoCard
       THEN calls' = [calls EXCEPT ![w].pc = "reread", ![w].doc = Absent]
       ELSE Return(w)
    /\ UNCHANGED <<environment, contracts, deployment>>

OwnerReread(w) ==
    /\ calls[w].pc = "reread"
    /\ Return(w)
    /\ UNCHANGED <<environment, contracts, deployment>>

\* A lost connection or a killed process ends a request anywhere.
Abandon(w) ==
    /\ calls[w].pc # "idle"
    /\ Return(w)
    /\ UNCHANGED <<environment, contracts, deployment>>

------------------------------------------------------------------------------
(* The environment: cards, and deployments *)

AgreedOf(c, req) ==
    IF req.status = "agreed" /\ req.decision # NoDecision
    THEN {[card |-> c, title |-> req.title, decision |-> req.decision]}
    ELSE {}

Store(c, req) ==
    /\ cards' = [cards EXCEPT ![c] = req]
    /\ agreed' = agreed \cup AgreedOf(c, req)
    /\ UNCHANGED <<contracts, calls, deployment>>

CreateCard(c) ==
    /\ cards[c] = Absent
    /\ \E req \in Requirement : Store(c, req)

\* Title and project of a card never change; status and decision do.
EditCard(c) ==
    /\ cards[c] # Absent
    /\ \E s \in Statuses, d \in Decisions \cup {NoDecision} :
         Store(c, [cards[c] EXCEPT !.status = s, !.decision = d])

StartInstance ==
    /\ ~starting
    /\ deploys < MaxDeploys
    /\ starting' = TRUE
    /\ deploys' = deploys + 1
    /\ UNCHANGED <<environment, contracts, calls, indexes>>

DropOwnerIndex(i) ==
    /\ starting
    /\ indexes' = indexes \ {i}
    /\ UNCHANGED <<environment, contracts, calls, starting, deploys>>

OwnerIndexesBuildable ==
    \A k1, k2 \in contracts :
        /\ k1.version = k2.version => k1 = k2
        /\ k1.applied = k2.applied /\ k1.applied # NoCard => k1 = k2

\* One createIndexes command: all of the declared indexes or an error, on
\* which the instance does not come up and the old one keeps serving.
InitBeanie ==
    /\ starting
    /\ indexes = {}
    /\ indexes' = IF OwnerIndexesBuildable THEN OwnerIndexes ELSE {}
    /\ starting' = FALSE
    /\ UNCHANGED <<environment, contracts, calls, deploys>>

------------------------------------------------------------------------------
Init ==
    /\ cards \in InitialCards
    /\ agreed = UNION {AgreedOf(c, cards[c]) : c \in {x \in Cards : cards[x] # Absent}}
    /\ contracts = {}
    /\ calls = [w \in Calls |-> Idle]
    /\ indexes = OwnerIndexes
    /\ starting = FALSE
    /\ deploys = 0

Handler(w) ==
    \/ \E s \in Scopes, body \in Bodies : CreateRead(w, s, body)
    \/ \E s \in Scopes, c \in Cards : ApplyReadRequirement(w, s, c)
    \/ OwnerReadApplied(w)
    \/ OwnerReadContract(w)
    \/ ProjectReadContract(w)
    \/ ProjectReadApplied(w)
    \/ Insert(w)
    \/ InsertFails(w)
    \/ OwnerReread(w)
    \/ Abandon(w)

Next ==
    \/ \E w \in Calls : Handler(w)
    \/ \E c \in Cards : CreateCard(c) \/ EditCard(c)
    \/ StartInstance
    \/ \E i \in OwnerIndexes : DropOwnerIndex(i)
    \/ InitBeanie

Spec == Init /\ [][Next]_vars

------------------------------------------------------------------------------
(* Properties *)

Call ==
    [pc    : {"idle", "readApplied", "readContract", "insert", "reread"},
     scope : Projects \cup {NoProject},
     card  : Cards \cup {NoCard},
     req   : Requirement \cup {Absent},
     doc   : Contract \cup {Absent}]

Agreement == [card : Cards, title : Titles, decision : Decisions]

TypeOK ==
    /\ cards \in [Cards -> Requirement \cup {Absent}]
    /\ agreed \subseteq Agreement
    /\ contracts \subseteq Contract
    /\ calls \in [Calls -> Call]
    /\ indexes \subseteq OwnerIndexes
    /\ starting \in BOOLEAN
    /\ deploys \in Nat

\* The scopes whose unique keys no deployment can take away: every project,
\* and the owner-level contract as long as no instance has started.
Protected == Projects \cup (IF deploys = 0 THEN {NoProject} ELSE {})

\* Version n of a contract is one document, however many requests raced to
\* write it (the 409 of the apply handlers).
OneDocumentPerVersion ==
    \A k1, k2 \in contracts :
        k1.project = k2.project /\ k1.project \in Protected
            /\ k1.version = k2.version => k1 = k2

\* next follows base because a person agreed on a card: the card's title is
\* the added scope, its decision the new date and the change of the amount.
FollowsBy(base, next) ==
    \E a \in agreed :
        /\ next.applied = a.card
        /\ next.version = base.version + 1
        /\ next.scope = Append(base.scope, a.title)
        /\ next.dueDate = a.decision.dueDate
        /\ next.amount = base.amount + a.decision.amountDelta

\* Every version after the first follows, by an agreement a person stored,
\* from the version before it in the same project: no gap, no version built
\* on a stale base, no amount that the agreed deltas do not explain.
EveryVersionIsAgreed ==
    \A k \in contracts :
        k.project \in Protected /\ k.version > 1 =>
            \E base \in contracts : base.project = k.project /\ FollowsBy(base, k)

\* However often an agreed card is applied, by whichever interleaving of
\* retries, its project has at most one version made from it.
AppliedOnce ==
    \A k1, k2 \in contracts :
        k1.project = k2.project /\ k1.project \in Protected
            /\ k1.applied = k2.applied /\ k1.applied # NoCard => k1 = k2

\* A stored version is never edited or deleted: contracts are evidence.
AppendOnly == [][contracts \subseteq contracts']_contracts

\* The contract collection of the projects behaves as if each request read
\* and wrote it atomically, on the newest version.
Atomic == INSTANCE AtomicLedger
            WITH contracts <- {k \in contracts : k.project \in Projects}

ImplementsAtomicLedger == Atomic!Spec
==============================================================================
