-------------------------------- MODULE Tickets --------------------------------
(***************************************************************************)
(* The tickets of one project (ClientRequest documents), the decisions a   *)
(* person takes on their messages (TicketDecision documents), and every    *)
(* handler that writes them: the decision, mark-sent, reply-draft, status  *)
(* and solution routes, and the background analysis that stores what the   *)
(* model found in a message.                                               *)
(*                                                                         *)
(* save() writes the whole document as the handler read it, over whatever  *)
(* is stored now, and stores it again if it was deleted (an upsert); only  *)
(* a unique index refuses it.  Reads of fields that never change are       *)
(* merged with the read before them.                                       *)
(***************************************************************************)
EXTENDS Naturals, Sequences, FiniteSets, FiniteSetsExt

CONSTANTS
    Messages,      \* the received messages of the project
    NoMessage,
    Proposals,     \* the texts a person gives a ticket split off
    AnalysisText,  \* the text the analysis gives a ticket
    Absent,        \* no document, no solution
    Workers,       \* requests and background tasks in flight
    Kinds,         \* the handlers that run
    MaxItems,      \* bound: requests the model finds in a message
    MaxTickets,    \* bound: tickets ever stored
    MaxDecisions,  \* bound: decisions ever stored
    MaxChoices     \* bound: <<ticket, status>> pairs a person ever asks for

AllKinds == {"decide", "send", "draft", "status", "solve", "analyze"}

ASSUME TicketsAssumption ==
    /\ NoMessage \notin Messages
    /\ AnalysisText \notin Proposals
    /\ Kinds \subseteq AllKinds
    /\ {MaxItems, MaxTickets, MaxDecisions, MaxChoices} \subseteq Nat

TicketIds == 1 .. MaxTickets     \* in the order of insertion
DecisionIds == 1 .. MaxDecisions
NoTicket == 0
NoDecision == 0
NoCode == 0                      \* ticketCode = None: stored by the analysis

TicketStatus == {"active", "done", "rejected"}
TicketHandling == {"link", "create", "ignore"}
Texts == Proposals \cup {AnalysisText}

Solution == [text : Texts, messages : SUBSET Messages]

Ticket ==
    [message  : Messages,         \* sourceMessageId
     ordinal  : Nat,
     code     : Nat,
     attached : SUBSET Messages,  \* sourceMessageIds
     text     : Texts,            \* title and requirement
     status   : TicketStatus,
     solution : Solution \cup {Absent}]

Decision ==
    [request  : TicketIds,
     message  : Messages,
     handling : TicketHandling,
     target   : TicketIds \cup {NoTicket},
     sent     : BOOLEAN]

ASSUME AbsentAssumption == Absent \notin Ticket \cup Decision \cup Solution

VARIABLES
    tickets,    \* TicketIds -> Ticket, or Absent
    decisions,  \* DecisionIds -> Decision, or Absent
    pending,    \* messages whose analysis has not started
    workers,    \* what each request or task in flight holds
    made,       \* how many tickets and decisions were ever stored
    chosen      \* every <<ticket, status>> a person has asked for (history)

vars == <<tickets, decisions, pending, workers, made, chosen>>

Idle ==
    [pc |-> "idle", by |-> "none", ticket |-> NoTicket, message |-> NoMessage,
     handling |-> "none", text |-> AnalysisText, id |-> NoDecision,
     decision |-> Absent, target |-> NoTicket, doc |-> Absent,
     items |-> <<>>, ordinal |-> 0, todo |-> {}]

Stored(docs) == {i \in DOMAIN docs : docs[i] # Absent}

Become(w, record) == workers' = [workers EXCEPT ![w] = record]

Finish(w) == Become(w, Idle)

------------------------------------------------------------------------------
(* Writing documents *)

TicketClash(id, doc) ==
    \E t \in Stored(tickets) \ {id} :
        \/ tickets[t].message = doc.message /\ tickets[t].ordinal = doc.ordinal
        \/ tickets[t].code = doc.code /\ doc.code # NoCode

DecisionClash(id, doc) ==
    \E d \in Stored(decisions) \ {id} :
        decisions[d].request = doc.request /\ decisions[d].message = doc.message

\* insert() under a new id, or save() under its own; then the worker goes on
\* with next.  A clash raises, and the handler ends.
WriteTicket(w, id, doc, next) ==
    /\ UNCHANGED <<decisions, pending, chosen>>
    /\ IF TicketClash(id, doc)
       THEN Finish(w) /\ UNCHANGED <<tickets, made>>
       ELSE /\ id \in TicketIds
            /\ tickets' = [tickets EXCEPT ![id] = doc]
            /\ made' = [made EXCEPT !.tickets = IF id > @ THEN id ELSE @]
            /\ Become(w, next)

NewTicket == made.tickets + 1

------------------------------------------------------------------------------
(* A person decides on a message of a ticket *)

\* The decisions that move message m to ticket t or away from it.
Moving(t, m) ==
    {d \in Stored(decisions) :
        /\ decisions[d].message = m
        /\ \/ decisions[d].target = t
           \/ decisions[d].request = t /\ decisions[d].handling = "create"}

\* A mutant: a message split off stays with its ticket.
Routed_keeping(t) ==
    {m \in Messages :
        \/ m \in {tickets[t].message} \cup tickets[t].attached
        \/ \E d \in Moving(t, m) : decisions[d].target = t}

\* _routed_messages: the messages shown with a ticket.  The last decision
\* that moves a message says where it is.
Routed(t) ==
    {m \in Messages :
        IF Moving(t, m) = {}
        THEN m \in {tickets[t].message} \cup tickets[t].attached
        ELSE decisions[Max(Moving(t, m))].target = t}

DecisionOf(t, m) ==
    {d \in Stored(decisions) : decisions[d].request = t /\ decisions[d].message = m}

\* The ticket a decision has split off, which a changed decision removes.
SplitOff(decision, t) ==
    decision # Absent /\ decision.handling = "create"
        /\ decision.target \notin {NoTicket, t}

\* The decision document to store once the target is known.
Decided(worker, target) ==
    IF worker.decision = Absent
    THEN [request |-> worker.ticket, message |-> worker.message,
          handling |-> worker.handling, target |-> target, sent |-> FALSE]
    ELSE [worker.decision EXCEPT !.handling = worker.handling, !.target = target]

\* The worker when it goes on to store the decision.
Storing(worker, target) ==
    [worker EXCEPT !.pc = "storeDecision", !.decision = Decided(worker, target),
                   !.doc = Absent, !.target = NoTicket]

LinkOrIgnore(worker) ==
    Storing(worker, IF worker.handling = "link" THEN worker.ticket ELSE NoTicket)

MayChange(found) == \A d \in found : ~decisions[d].sent

\* The ticket, the message and the existing decision are read; "clear" is
\* handling = None.
DecideRead(w, t, m, handling, text) ==
    LET found  == DecisionOf(t, m)
        worker == [Idle EXCEPT !.by = "decide", !.ticket = t, !.message = m,
                     !.handling = handling, !.text = text,
                     !.id = IF found = {} THEN NoDecision ELSE Min(found),
                     !.decision = IF found = {} THEN Absent ELSE decisions[Min(found)]]
        split  == SplitOff(worker.decision, t)
    IN  /\ workers[w].pc = "idle"
        /\ tickets[t] # Absent
        /\ MayChange(found)
        /\ Become(w,
             CASE handling = "clear" /\ found = {} -> Idle
               [] handling = "create" ->
                    [worker EXCEPT !.pc = IF split THEN "readTarget" ELSE "numbers"]
               [] handling # "create" /\ split -> [worker EXCEPT !.pc = "remove"]
               [] handling = "clear" /\ found # {} /\ ~split ->
                    [worker EXCEPT !.pc = "deleteDecision"]
               [] handling \in {"link", "ignore"} /\ ~split -> LinkOrIgnore(worker))
        /\ UNCHANGED <<tickets, decisions, pending, made, chosen>>

\* A mutant: a cleared decision is stored.
RemovedThenStored(worker) == LinkOrIgnore(worker)

\* _remove_created_target: found by id and message, and deleted.
WithoutTarget(worker) ==
    LET created == worker.decision.target
    IN  IF tickets[created] # Absent /\ tickets[created].message = worker.message
        THEN [tickets EXCEPT ![created] = Absent]
        ELSE tickets

AfterRemoval(worker) ==
    IF worker.handling = "clear" THEN [worker EXCEPT !.pc = "deleteDecision"]
                                 ELSE LinkOrIgnore(worker)

RemoveTarget(w) ==
    /\ workers[w].pc = "remove"
    /\ tickets' = WithoutTarget(workers[w])
    /\ Become(w, AfterRemoval(workers[w]))
    /\ UNCHANGED <<decisions, pending, made, chosen>>

\* The ticket split off before is given the new text, or made anew.
ReadTarget(w) ==
    LET worker == workers[w]
        target == worker.decision.target
    IN  /\ worker.pc = "readTarget"
        /\ Become(w, IF tickets[target] = Absent
                     THEN [worker EXCEPT !.pc = "numbers"]
                     ELSE [worker EXCEPT !.pc = "writeTarget", !.target = target,
                             !.doc = [tickets[target] EXCEPT !.text = worker.text]])
        /\ UNCHANGED <<tickets, decisions, pending, made, chosen>>

\* _next_request_ordinal and _next_ticket_code: one more than the highest.
NextOrdinal(m) ==
    LET taken == {tickets[t].ordinal : t \in {x \in Stored(tickets) : tickets[x].message = m}}
    IN  IF taken = {} THEN 0 ELSE Max(taken) + 1

NextCode == Max({tickets[t].code : t \in Stored(tickets)} \cup {NoCode}) + 1

ReadNumbers(w) ==
    LET worker == workers[w]
    IN  /\ worker.pc = "numbers"
        /\ Become(w, [worker EXCEPT !.pc = "writeTarget", !.target = NoTicket,
             !.doc = [message |-> worker.message,
                      ordinal |-> NextOrdinal(worker.message),
                      code |-> NextCode, attached |-> {worker.message},
                      text |-> worker.text, status |-> "active",
                      solution |-> Absent]])
        /\ UNCHANGED <<tickets, decisions, pending, made, chosen>>

WriteTarget(w) ==
    LET worker == workers[w]
        id     == IF worker.target = NoTicket THEN NewTicket ELSE worker.target
    IN  /\ worker.pc = "writeTarget"
        /\ WriteTicket(w, id, worker.doc, Storing(worker, id))

\* insert() if there was no decision, or save() over the one that was read.
StoreDecision(w) ==
    LET worker == workers[w]
        id     == IF worker.id = NoDecision THEN made.decisions + 1 ELSE worker.id
    IN  /\ worker.pc = "storeDecision"
        /\ IF DecisionClash(id, worker.decision)
           THEN UNCHANGED <<decisions, made>>
           ELSE /\ id \in DecisionIds
                /\ decisions' = [decisions EXCEPT ![id] = worker.decision]
                /\ made' = [made EXCEPT !.decisions = IF id > @ THEN id ELSE @]
        /\ Finish(w)
        /\ UNCHANGED <<tickets, pending, chosen>>

DeleteDecision(w) ==
    /\ workers[w].pc = "deleteDecision"
    /\ decisions' = [decisions EXCEPT ![workers[w].id] = Absent]
    /\ Finish(w)
    /\ UNCHANGED <<tickets, pending, made, chosen>>

------------------------------------------------------------------------------
(* Mark-sent and reply-draft: a decision is read and saved *)

MarkSentRead(w, t, m) ==
    /\ workers[w].pc = "idle"
    /\ tickets[t] # Absent
    /\ \E d \in DecisionOf(t, m) :
         Become(w, [Idle EXCEPT !.pc = "storeDecision", !.by = "send", !.id = d,
                                !.decision = [decisions[d] EXCEPT !.sent = TRUE]])
    /\ UNCHANGED <<tickets, decisions, pending, made, chosen>>

\* The model writes a draft between the read and the save.
DraftRead(w, t) ==
    /\ workers[w].pc = "idle"
    /\ tickets[t] # Absent
    /\ \E m \in Messages : \E d \in DecisionOf(t, m) :
         Become(w, [Idle EXCEPT !.pc = "storeDecision", !.by = "draft", !.id = d,
                                !.decision = decisions[d]])
    /\ UNCHANGED <<tickets, decisions, pending, made, chosen>>

------------------------------------------------------------------------------
(* Status and solution: a ticket is read and saved *)

StatusRead(w, t, s) ==
    /\ workers[w].pc = "idle"
    /\ tickets[t] # Absent
    /\ Become(w, [Idle EXCEPT !.pc = "saveTicket", !.by = "status", !.target = t,
                              !.doc = [tickets[t] EXCEPT !.status = s]])
    /\ chosen' = chosen \cup {<<t, s>>}
    /\ Cardinality(chosen') <= MaxChoices
    /\ UNCHANGED <<tickets, decisions, pending, made>>

\* A mutant: a ticket with a solution is closed.
Solved_closing(doc) ==
    [doc EXCEPT !.status = "done",
                !.solution = [text |-> doc.text,
                              messages |-> {doc.message} \cup doc.attached]]

\* The solution is made from the text and the messages as they were read.
Solved(doc) ==
    [doc EXCEPT !.solution = [text |-> doc.text,
                              messages |-> {doc.message} \cup doc.attached]]

\* Asked for with refresh; without it a stored solution is only returned.
SolveRead(w, t) ==
    /\ workers[w].pc = "idle"
    /\ tickets[t] # Absent
    /\ Become(w, [Idle EXCEPT !.pc = "saveTicket", !.by = "solve", !.target = t,
                              !.doc = Solved(tickets[t])])
    /\ UNCHANGED <<tickets, decisions, pending, made, chosen>>

SaveTicket(w) ==
    /\ workers[w].pc = "saveTicket"
    /\ WriteTicket(w, workers[w].target, workers[w].doc, Idle)

------------------------------------------------------------------------------
(* The analysis of a message *)

\* What the model may answer: requests, each matched to a ticket that was
\* active when the tickets were read, or to none.
Findings ==
    LET open == {t \in Stored(tickets) : tickets[t].status = "active"}
    IN  UNION {[1 .. n -> open \cup {NoTicket}] : n \in 0 .. MaxItems}

\* Its background task runs once per message.
AnalyzeStart(w, m) ==
    /\ workers[w].pc = "idle"
    /\ m \in pending
    /\ pending' = pending \ {m}
    /\ \E items \in Findings :
         Become(w, [Idle EXCEPT !.pc = "item", !.by = "analyze", !.message = m,
                                !.items = items])
    /\ UNCHANGED <<tickets, decisions, made, chosen>>

\* A mutant: the old solution stays.
Attached_keepingSolution(doc, m) == [doc EXCEPT !.attached = @ \cup {m}]

Attached(doc, m) == [doc EXCEPT !.attached = @ \cup {m}, !.solution = Absent]

\* What a new or a repeated analysis writes over a ticket of its message.
Reanalyzed(doc) == [doc EXCEPT !.text = AnalysisText]

\* A request matched to a ticket that still exists is attached to it; any
\* other is stored as ticket number ordinal of the message.
ReadForItem(w) ==
    LET worker == workers[w]
        match  == Head(worker.items)
        same   == {t \in Stored(tickets) : tickets[t].message = worker.message
                                           /\ tickets[t].ordinal = worker.ordinal}
    IN  /\ worker.pc = "item"
        /\ worker.items # <<>>
        /\ Become(w,
             IF match # NoTicket /\ tickets[match] # Absent
             THEN [worker EXCEPT !.pc = "attach", !.target = match,
                     !.doc = Attached(tickets[match], worker.message)]
             ELSE [worker EXCEPT !.pc = "writeItem",
                     !.target = IF same = {} THEN NoTicket ELSE Min(same),
                     !.doc = IF same = {}
                             THEN [message |-> worker.message,
                                   ordinal |-> worker.ordinal, code |-> NoCode,
                                   attached |-> {worker.message},
                                   text |-> AnalysisText, status |-> "active",
                                   solution |-> Absent]
                             ELSE Reanalyzed(tickets[Min(same)])])
        /\ UNCHANGED <<tickets, decisions, pending, made, chosen>>

NextItem(worker, ordinal) ==
    [worker EXCEPT !.pc = "item", !.items = Tail(@), !.ordinal = ordinal,
                   !.target = NoTicket, !.doc = Absent]

Attach(w) ==
    LET worker == workers[w]
    IN  /\ worker.pc = "attach"
        /\ WriteTicket(w, worker.target, worker.doc, NextItem(worker, worker.ordinal))

WriteItem(w) ==
    LET worker == workers[w]
    IN  /\ worker.pc = "writeItem"
        /\ WriteTicket(w, IF worker.target = NoTicket THEN NewTicket ELSE worker.target,
                       worker.doc, NextItem(worker, worker.ordinal + 1))

\* The tickets of the message that this analysis did not number: those an
\* earlier one left over, and those a person split the message off to.
Stale(m, ordinal) ==
    {t \in Stored(tickets) : tickets[t].message = m /\ tickets[t].ordinal >= ordinal}

ReadStale(w) ==
    LET worker == workers[w]
        stale  == Stale(worker.message, worker.ordinal)
    IN  /\ worker.pc = "item"
        /\ worker.items = <<>>
        /\ Become(w, IF stale = {} THEN Idle
                     ELSE [worker EXCEPT !.pc = "stale", !.todo = stale])
        /\ UNCHANGED <<tickets, decisions, pending, made, chosen>>

DeleteStale(w, t) ==
    LET worker == workers[w]
    IN  /\ worker.pc = "stale"
        /\ t \in worker.todo
        /\ tickets' = [tickets EXCEPT ![t] = Absent]
        /\ Become(w, IF worker.todo = {t} THEN Idle
                     ELSE [worker EXCEPT !.todo = @ \ {t}])
        /\ UNCHANGED <<decisions, pending, made, chosen>>

------------------------------------------------------------------------------
Init ==
    /\ tickets = [t \in TicketIds |-> Absent]
    /\ decisions = [d \in DecisionIds |-> Absent]
    /\ pending = Messages
    /\ workers = [w \in Workers |-> Idle]
    /\ made = [tickets |-> 0, decisions |-> 0]
    /\ chosen = {}

\* A request or a task begins.  The decision route takes any message of the
\* project, shown with the ticket or not, analysed or not.
Begin(w) ==
    \/ /\ "decide" \in Kinds
       /\ \E t \in Stored(tickets), m \in Messages :
            \/ \E handling \in {"link", "ignore", "clear"} :
                 DecideRead(w, t, m, handling, AnalysisText)
            \/ \E text \in Proposals : DecideRead(w, t, m, "create", text)
    \/ "send" \in Kinds /\ \E t \in TicketIds, m \in Messages : MarkSentRead(w, t, m)
    \/ "draft" \in Kinds /\ \E t \in TicketIds : DraftRead(w, t)
    \/ "status" \in Kinds /\ \E t \in TicketIds, s \in TicketStatus : StatusRead(w, t, s)
    \/ "solve" \in Kinds /\ \E t \in TicketIds : SolveRead(w, t)
    \/ "analyze" \in Kinds /\ \E m \in Messages : AnalyzeStart(w, m)

\* It goes on after an await.
Continue(w) ==
    \/ RemoveTarget(w)
    \/ ReadTarget(w)
    \/ ReadNumbers(w)
    \/ WriteTarget(w)
    \/ StoreDecision(w)
    \/ DeleteDecision(w)
    \/ SaveTicket(w)
    \/ ReadForItem(w)
    \/ Attach(w)
    \/ WriteItem(w)
    \/ ReadStale(w)
    \/ \E t \in TicketIds : DeleteStale(w, t)

\* A request may stop after any step and never go on: nothing is undone then.
Next == \E w \in Workers : Begin(w) \/ Continue(w)

Spec == Init /\ [][Next]_vars

------------------------------------------------------------------------------
(* Properties *)

\* The state's types.
TypeOK ==
    /\ tickets \in [TicketIds -> Ticket \cup {Absent}]
    /\ decisions \in [DecisionIds -> Decision \cup {Absent}]
    /\ pending \subseteq Messages
    /\ made.tickets \in 0 .. MaxTickets /\ made.decisions \in 0 .. MaxDecisions
    /\ \A w \in Workers :
         /\ workers[w].by \in AllKinds \cup {"none"}
         /\ workers[w].decision \in Decision \cup {Absent}
         /\ workers[w].doc \in Ticket \cup {Absent}
         /\ workers[w].todo \subseteq TicketIds
    /\ chosen \subseteq TicketIds \X TicketStatus

\* A ticket is closed only if a person has closed it at some time: the saves of
\* the solution, of an attachment and of a repeated analysis may bring back an
\* older status, never one nobody asked for (ticketStatus has one writer).
StatusWasChosen ==
    \A t \in Stored(tickets) :
        tickets[t].status # "active" => <<t, tickets[t].status>> \in chosen

\* A stored solution was made from all the messages attached to the ticket:
\* an attachment drops the solution, and a solution saved over a newer
\* attachment takes the attachment away with it.
SolutionIsCurrent ==
    \A t \in Stored(tickets) :
        tickets[t].solution # Absent =>
            tickets[t].solution.messages = {tickets[t].message} \cup tickets[t].attached

\* A message that was split off has left the ticket it was shown with, and is
\* shown with the new one until it is split off from there too.
SplitMessageMoves ==
    \A d \in Stored(decisions) :
        LET m == decisions[d].message
            from == decisions[d].request
            to == decisions[d].target
        IN  decisions[d].handling = "create" =>
              /\ from \in Stored(tickets) => m \notin Routed(from)
              /\ to \in Stored(tickets) =>
                   \/ m \in Routed(to)
                   \/ \E e \in DecisionOf(to, m) : decisions[e].handling = "create"

\* An analysis deletes none of the tickets a person has split off ("it deletes
\* the cards an earlier analysis left"): those go only with their decision.
AnalysisDeletesOnlyItsOwn ==
    [][\A t \in Stored(tickets) :
          tickets'[t] = Absent /\ tickets[t].code # NoCode =>
            \E w \in Workers : workers[w].pc = "remove" /\ workers'[w] # workers[w]]_vars
==============================================================================
