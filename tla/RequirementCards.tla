--------------------------- MODULE RequirementCards ---------------------------
(***************************************************************************)
(* The requirement cards of one owner and every handler that writes them:  *)
(*   - a person moves a card along the transition table                    *)
(*     (transition_project_requirement; change_status for cards that have  *)
(*     no project),                                                        *)
(*   - POST /analyze reads the cards, waits for the language model and     *)
(*     merges its reply card by card,                                      *)
(*   - sync_requirements_from_requests makes a card for every request      *)
(*     judged EXTRA_REQUEST.                                               *)
(* Documents are saved whole (Beanie's save() sets every field), so a      *)
(* handler that saves a document it read before an await writes back every *)
(* field as it was then.                                                   *)
(***************************************************************************)
EXTENDS Naturals, Sequences, RequirementStates

CONSTANTS
    Projects,    \* project ids
    NoProject,   \* projectId = None
    Cards,       \* document ids, also those not used yet
    NoCard,      \* existingId = None, or an id that names no card
    LegacyCards, \* may be from before cards had a project and a history
    Titles,
    Requests,    \* ClientRequest ids
    NoRequest,   \* sourceRequestId = None
    RequestOf,   \* Requests -> [project, title]
    Decisions,   \* amount and due date, proposed by the model or confirmed
    NoDecision,
    Replies,     \* what the model may answer: sequences of ReplyItem
    Absent,      \* no document
    Workers,     \* requests handled concurrently
    MaxHistory   \* bound: status changes of a card

NoStatus == "none"   \* fromStatus of the entry written at creation

StatusChange ==
    [from : RequirementStatus \cup {NoStatus}, to : RequirementStatus,
     byHuman : BOOLEAN]

Card ==
    [project  : Projects \cup {NoProject},
     title    : Titles,
     status   : RequirementStatus,
     ai       : Decisions \cup {NoDecision},
     decision : Decisions \cup {NoDecision},
     history  : Seq(StatusChange),
     source   : Requests \cup {NoRequest}]

\* One item of the model's answer, after the schema (L1) and the grounding of
\* its quotes (L2).
ReplyItem ==
    [existingId : Cards \cup {NoCard}, title : Titles,
     proposedStatus : LLM_PROPOSABLE, proposedDecision : Decisions \cup {NoDecision}]

ASSUME CardsAssumption ==
    /\ NoProject \notin Projects
    /\ LegacyCards \subseteq Cards
    /\ NoCard \notin Cards
    /\ NoRequest \notin Requests
    /\ NoDecision \notin Decisions
    /\ Absent \notin Card
    /\ MaxHistory \in Nat

ASSUME InputsAssumption ==
    /\ RequestOf \in [Requests -> [project : Projects, title : Titles]]
    /\ Replies \subseteq Seq(ReplyItem)

VARIABLES
    cards,     \* Cards -> Card, or Absent
    flagged,   \* the requests stored with aiDecisionStatus EXTRA_REQUEST
    workers    \* Workers -> what an in-flight handler holds

cardVars == <<cards, flagged, workers>>

IdleWorker ==
    [pc |-> "idle", project |-> NoProject, card |-> NoCard, doc |-> Absent,
     seen |-> [c \in Cards |-> Absent], items |-> <<>>, todo |-> {}]

Finish(w) == workers' = [workers EXCEPT ![w] = IdleWorker]

CardsOf(p) ==
    [c \in Cards |-> IF cards[c] # Absent /\ cards[c].project = p
                     THEN cards[c] ELSE Absent]

------------------------------------------------------------------------------
(* A person moves a card *)

\* A decision left out of the request keeps the confirmed one.
Decide(doc, to, d) ==
    [doc EXCEPT !.status = to,
                !.decision = IF d = NoDecision THEN doc.decision ELSE d]

\* A mutant: the status changes without its history entry.
MovedSilently(doc, to, d) == Decide(doc, to, d)

\* The history entry records the status the handler read.
Moved(doc, to, d) ==
    [Decide(doc, to, d) EXCEPT
        !.history = Append(@, [from |-> doc.status, to |-> to, byHuman |-> TRUE])]

\* Read the card, check the table, prepare the whole document.
ReadForTransition(w, c, to, d) ==
    /\ workers[w].pc = "idle"
    /\ cards[c] # Absent
    /\ cards[c].project # NoProject
    /\ CanTransition(cards[c].status, to)
    /\ Len(cards[c].history) < MaxHistory
    /\ workers' = [workers EXCEPT ![w] =
                    [IdleWorker EXCEPT !.pc = "save", !.card = c,
                                       !.doc = Moved(cards[c], to, d)]]
    /\ UNCHANGED <<cards, flagged>>

\* change_status: only cards without a project, and no history entry.
ReadForChangeStatus(w, c, to, d) ==
    /\ workers[w].pc = "idle"
    /\ cards[c] # Absent
    /\ cards[c].project = NoProject
    /\ CanTransition(cards[c].status, to)
    /\ workers' = [workers EXCEPT ![w] =
                    [IdleWorker EXCEPT !.pc = "save", !.card = c,
                                       !.doc = Decide(cards[c], to, d)]]
    /\ UNCHANGED <<cards, flagged>>

SaveCard(w) ==
    /\ workers[w].pc = "save"
    /\ cards' = [cards EXCEPT ![workers[w].card] = workers[w].doc]
    /\ Finish(w)
    /\ UNCHANGED flagged

------------------------------------------------------------------------------
(* Analysis of a pasted conversation *)

\* The read before the model is called: all cards of the project.
AnalyzeRead(w, p) ==
    /\ workers[w].pc = "idle"
    /\ workers' = [workers EXCEPT ![w] =
                    [IdleWorker EXCEPT !.pc = "model", !.project = p,
                                       !.seen = CardsOf(p)]]
    /\ UNCHANGED <<cards, flagged>>

\* L3, for the whole reply, against the statuses read before the call.  An
\* item that names no card of the project is judged as new: "unconfirmed".
Judge(item, seen) ==
    LET known   == item.existingId \in Cards /\ seen[item.existingId] # Absent
        current == IF known THEN seen[item.existingId].status ELSE "unconfirmed"
    IN  [item EXCEPT !.existingId = IF known THEN @ ELSE NoCard,
                     !.proposedStatus = Demote(current, @)]

ModelReplies(w, reply) ==
    LET worker == workers[w]
    IN  /\ worker.pc = "model"
        /\ workers' = [workers EXCEPT ![w] =
                IF reply = <<>> THEN IdleWorker
                ELSE [worker EXCEPT !.pc = "merge",
                        !.items = [i \in DOMAIN reply |-> Judge(reply[i], worker.seen)]]]
        /\ UNCHANGED <<cards, flagged>>

\* The cards an item updates: the one it names, or else one of its title.
Matches(item, seen) ==
    IF item.existingId # NoCard
    THEN {item.existingId}
    ELSE {c \in Cards : seen[c] # Absent /\ seen[c].title = item.title}

\* Mutants: two assignments are swapped; the item's title replaces the card's.
Merged_swapped(doc, item) ==
    [doc EXCEPT !.status = item.proposedDecision, !.ai = item.proposedStatus]

Merged_retitling(doc, item) ==
    [doc EXCEPT
        !.history = IF doc.status = item.proposedStatus THEN @
                    ELSE Append(@, [from |-> doc.status, to |-> item.proposedStatus,
                                    byHuman |-> FALSE]),
        !.title = item.title,
        !.status = item.proposedStatus,
        !.ai = item.proposedDecision]

Merged(doc, item) ==
    [doc EXCEPT
        !.history = IF doc.status = item.proposedStatus THEN @
                    ELSE Append(@, [from |-> doc.status, to |-> item.proposedStatus,
                                    byHuman |-> FALSE]),
        !.status = item.proposedStatus,
        !.ai = item.proposedDecision]

NextItem(w, seen) ==
    LET left == Tail(workers[w].items)
    IN  workers' = [workers EXCEPT ![w] =
                      IF left = <<>> THEN IdleWorker
                      ELSE [workers[w] EXCEPT !.items = left, !.seen = seen]]

\* One item of the reply saved over a card, from the copy read before the
\* model was called (and changed by earlier items).
MergeIntoCard(w, c) ==
    LET worker == workers[w]
        doc    == Merged(worker.seen[c], Head(worker.items))
    IN  /\ worker.pc = "merge"
        /\ c \in Matches(Head(worker.items), worker.seen)
        /\ Len(doc.history) <= MaxHistory
        /\ cards' = [cards EXCEPT ![c] = doc]
        /\ NextItem(w, [worker.seen EXCEPT ![c] = doc])
        /\ UNCHANGED flagged

\* One item of the reply that matches no card becomes a card.
MergeAsNew(w, c) ==
    LET worker == workers[w]
        item   == Head(worker.items)
    IN  /\ worker.pc = "merge"
        /\ Matches(item, worker.seen) = {}
        /\ cards[c] = Absent
        /\ cards' = [cards EXCEPT ![c] =
                [project |-> worker.project, title |-> item.title,
                 status |-> item.proposedStatus,
                 ai |-> item.proposedDecision, decision |-> NoDecision,
                 history |-> <<[from |-> NoStatus, to |-> item.proposedStatus,
                                byHuman |-> FALSE]>>,
                 source |-> NoRequest]]
        /\ NextItem(w, worker.seen)
        /\ UNCHANGED flagged

------------------------------------------------------------------------------
(* Cards for the requests outside the contract *)

\* Analysis of a message stores a request judged EXTRA_REQUEST.
FlagRequest(r) ==
    /\ flagged' = flagged \cup {r}
    /\ UNCHANGED <<cards, workers>>

SyncReadRequests(w, p) ==
    LET promoted == {r \in flagged : RequestOf[r].project = p}
    IN  /\ workers[w].pc = "idle"
        /\ promoted # {}
        /\ workers' = [workers EXCEPT ![w] =
                        [IdleWorker EXCEPT !.pc = "known", !.project = p,
                                           !.todo = promoted]]
        /\ UNCHANGED <<cards, flagged>>

Known(p) ==
    {cards[c].source : c \in {x \in Cards : CardsOf(p)[x] # Absent}}

SyncReadCards(w) ==
    LET worker == workers[w]
        todo   == worker.todo \ Known(worker.project)
    IN  /\ worker.pc = "known"
        /\ IF todo = {}
           THEN Finish(w)
           ELSE workers' = [workers EXCEPT ![w].pc = "create", ![w].todo = todo]
        /\ UNCHANGED <<cards, flagged>>

SyncCreate(w, r, c) ==
    LET worker == workers[w]
    IN  /\ worker.pc = "create"
        /\ r \in worker.todo
        /\ cards[c] = Absent
        /\ cards' = [cards EXCEPT ![c] =
                [project |-> worker.project, title |-> RequestOf[r].title,
                 status |-> "requested", ai |-> NoDecision,
                 decision |-> NoDecision, history |-> <<>>, source |-> r]]
        /\ IF worker.todo = {r}
           THEN Finish(w)
           ELSE workers' = [workers EXCEPT ![w].todo = @ \ {r}]
        /\ UNCHANGED flagged

\* An exception, a lost connection or a killed process ends a handler: the
\* items and requests not yet saved are lost.
Abandon(w) ==
    /\ workers[w].pc # "idle"
    /\ Finish(w)
    /\ UNCHANGED <<cards, flagged>>

------------------------------------------------------------------------------
\* A legacy card: made by an analysis without project or history.
LegacyCard(t) ==
    [project |-> NoProject, title |-> t, status |-> "unconfirmed",
     ai |-> NoDecision, decision |-> NoDecision, history |-> <<>>,
     source |-> NoRequest]

CardsInit ==
    /\ \E t \in Titles, old \in SUBSET LegacyCards :
         cards = [c \in Cards |-> IF c \in old THEN LegacyCard(t) ELSE Absent]
    /\ flagged = {}
    /\ workers = [w \in Workers |-> IdleWorker]

CardHandler(w) ==
    \/ \E c \in Cards, to \in RequirementStatus, d \in Decisions \cup {NoDecision} :
         \/ ReadForTransition(w, c, to, d)
         \/ ReadForChangeStatus(w, c, to, d)
    \/ SaveCard(w)
    \/ \E p \in Projects : AnalyzeRead(w, p) \/ SyncReadRequests(w, p)
    \/ \E reply \in Replies : ModelReplies(w, reply)
    \/ \E c \in Cards : MergeIntoCard(w, c) \/ MergeAsNew(w, c)
    \/ SyncReadCards(w)
    \/ \E r \in Requests, c \in Cards : SyncCreate(w, r, c)
    \/ Abandon(w)

CardsNext ==
    \/ \E w \in Workers : CardHandler(w)
    \/ \E r \in Requests : FlagRequest(r)

CardsSpec == CardsInit /\ [][CardsNext]_cardVars

------------------------------------------------------------------------------
(* Properties *)

Worker ==
    [pc      : {"idle", "save", "model", "merge", "known", "create"},
     project : Projects \cup {NoProject},
     card    : Cards \cup {NoCard},
     doc     : Card \cup {Absent},
     seen    : [Cards -> Card \cup {Absent}],
     items   : Seq([existingId : Cards \cup {NoCard}, title : Titles,
                    proposedStatus : RequirementStatus,
                    proposedDecision : Decisions \cup {NoDecision}]),
     todo    : SUBSET Requests]

CardsTypeOK ==
    /\ cards \in [Cards -> Card \cup {Absent}]
    /\ flagged \subseteq Requests
    /\ workers \in [Workers -> Worker]

\* The timeline of a project's card explains its status, whichever handlers
\* overwrote each other: each entry starts where the one before it ended and
\* the last one leads to the stored status.  (A card made from a request
\* starts, without an entry, at "requested".)
Explained(card) ==
    LET h     == card.history
        start == IF card.source = NoRequest THEN NoStatus ELSE "requested"
    IN  /\ \A i \in DOMAIN h :
             h[i].from = IF i = 1 THEN start ELSE h[i - 1].to
        /\ card.status = IF h = <<>> THEN start ELSE h[Len(h)].to

HistoryExplainsStatus ==
    \A c \in Cards :
        cards[c] # Absent /\ cards[c].project # NoProject => Explained(cards[c])

\* A card says agreed, rejected or done only if its timeline shows that a
\* person put it there: no reply of the model, however it is merged, decides.
OnlyPeopleDecide ==
    \A c \in Cards :
        LET h == cards[c].history
        IN  cards[c] # Absent /\ cards[c].project # NoProject
                /\ cards[c].status \in HumanOnly =>
              h # <<>> /\ h[Len(h)].byHuman

\* A card goes only where the table lets it go from where it is, or is demoted
\* to "unconfirmed" ("an unreachable status is demoted"): a decided card is not
\* reopened.
StatusFollowsTheTable ==
    [][\A c \in Cards : cards[c] # Absent =>
         LET now == cards[c].status next == cards'[c].status
         IN  next \in {now, "unconfirmed"} \/ CanTransition(now, next)]_cards
==============================================================================
