----------------------------- MODULE Tickets_proof -----------------------------
(***************************************************************************)
(* Proofs about Tickets, for any messages and any overlapping requests and *)
(* tasks: IInv is inductive.  A copy a handler holds will be stored whole, *)
(* so the invariant says of every copy what the properties say of the      *)
(* stored tickets.                                                         *)
(***************************************************************************)
EXTENDS Tickets, FiniteSetTheorems, WellFoundedInduction, TLAPS

Places ==
    {"idle", "remove", "readTarget", "numbers", "writeTarget", "storeDecision",
     "deleteDecision", "saveTicket", "item", "attach", "writeItem", "stale"}

\* What a request or a task in flight holds.
Holder ==
    [pc : Places, by : AllKinds \cup {"none"},
     ticket : TicketIds \cup {NoTicket}, message : Messages \cup {NoMessage},
     handling : TicketHandling \cup {"clear", "none"}, text : Texts,
     id : DecisionIds \cup {NoDecision}, decision : Decision \cup {Absent},
     target : TicketIds \cup {NoTicket}, doc : Ticket \cup {Absent},
     items : Seq(TicketIds \cup {NoTicket}), ordinal : Nat, todo : SUBSET TicketIds]

\* What the two properties say of the document of a ticket.
DocOK(t, doc, asked) ==
    /\ doc.solution # Absent => doc.solution.messages = {doc.message} \cup doc.attached
    /\ doc.status # "active" => <<t, doc.status>> \in asked

Splitting == {"readTarget", "numbers", "writeTarget"}
Deciding == {"remove"} \cup Splitting
Analyzing == {"item", "attach", "writeItem", "stale"}
Writing == {"writeTarget", "saveTicket", "attach", "writeItem"}

\* What it holds at each place, when people have asked for these statuses.
HolderOK(worker, asked) ==
    /\ worker.pc \in Writing => worker.doc # Absent /\ DocOK(worker.target, worker.doc, asked)
    /\ worker.pc \in {"saveTicket", "attach"} => worker.target # NoTicket
    /\ worker.pc \in Deciding => worker.ticket # NoTicket /\ worker.message # NoMessage
    /\ worker.pc \in Splitting => worker.handling = "create"
    /\ worker.pc = "remove" => worker.handling \in {"link", "ignore", "clear"}
    /\ worker.pc \in {"remove", "readTarget"} =>
         worker.decision # Absent /\ worker.decision.target # NoTicket
    /\ worker.pc = "storeDecision" => worker.decision # Absent
    /\ worker.pc \in Analyzing => worker.message # NoMessage
    /\ worker.pc \in {"attach", "writeItem"} => worker.items # <<>>

\* Some number bounds the ordinals and the codes, so there is a highest one.
Bounded(docs) ==
    \E n \in Nat :
        \A t \in TicketIds : docs[t] # Absent => docs[t].ordinal <= n /\ docs[t].code <= n

Types ==
    /\ tickets \in [TicketIds -> Ticket \cup {Absent}]
    /\ decisions \in [DecisionIds -> Decision \cup {Absent}]
    /\ pending \subseteq Messages
    /\ workers \in [Workers -> Holder]
    /\ made \in [tickets : 0 .. MaxTickets, decisions : 0 .. MaxDecisions]
    /\ chosen \subseteq TicketIds \X TicketStatus

IInv ==
    /\ Types
    /\ \A t \in TicketIds : tickets[t] # Absent => DocOK(t, tickets[t], chosen)
    /\ \A w \in Workers : HolderOK(workers[w], chosen)
    /\ Bounded(tickets)

------------------------------------------------------------------------------
(* Highest and lowest numbers                                              *)

LEMMA NatMinimum ==
    ASSUME NEW S \in SUBSET Nat, S # {}
    PROVE  \E x \in S : \A y \in S : x <= y
<1> DEFINE R == OpToRel(<, Nat)
<1>1. \A x, y \in Nat : y < x => <<y, x>> \in R
  BY DEF OpToRel
<1>2. IsWellFoundedOn(R, Nat)
  BY NatLessThanWellFounded
<1> HIDE DEF R
<1>3. \E x \in S : \A y \in S : ~ (<<y, x>> \in R)
  BY <1>2, WFMin
<1>4. \A x, y \in S : x \in Nat /\ y \in Nat /\ (~(y < x) => x <= y)
  OBVIOUS
<1> QED
  BY <1>1, <1>3, <1>4

LEMMA MinIn ==
    ASSUME NEW S \in SUBSET Nat, S # {}
    PROVE  Min(S) \in S /\ \A y \in S : Min(S) <= y
  BY NatMinimum DEF Min

LEMMA MaxIn ==
    ASSUME NEW S \in SUBSET Nat, S # {}, NEW n \in Nat, \A x \in S : x <= n
    PROVE  Max(S) \in S /\ \A y \in S : y <= Max(S)
<1> DEFINE U == {k \in Nat : \A x \in S : x <= k}
<1>1. PICK m \in U : \A k \in U : m <= k
  <2>1. U \in SUBSET Nat /\ U # {}
    OBVIOUS
  <2> HIDE DEF U
  <2> QED
    BY <2>1, NatMinimum
<1>2. m \in Nat /\ \A x \in S : x <= m
  OBVIOUS
<1>3. m \in S
  <2> SUFFICES ASSUME m \notin S PROVE FALSE
    OBVIOUS
  <2>1. \A x \in S : x \in Nat /\ x < m
    BY <1>2
  <2>2. PICK x \in S : TRUE
    OBVIOUS
  <2>3. m - 1 \in Nat /\ \A y \in S : y <= m - 1
    BY <1>2, <2>1, <2>2
  <2> QED
    BY <1>1, <1>2, <2>3
<1> QED
  BY <1>2, <1>3 DEF Max

\* _next_request_ordinal and _next_ticket_code return numbers not yet taken.
LEMMA NumbersFree ==
    ASSUME IInv, NEW m \in Messages
    PROVE  /\ NextOrdinal(m) \in Nat /\ NextCode \in Nat /\ NextCode # NoCode
           /\ \A t \in Stored(tickets) :
                 /\ tickets[t].message = m => tickets[t].ordinal < NextOrdinal(m)
                 /\ tickets[t].code < NextCode
<1> DEFINE here == {x \in Stored(tickets) : tickets[x].message = m}
           taken == {tickets[t].ordinal : t \in here}
           codes == {tickets[t].code : t \in Stored(tickets)} \cup {NoCode}
<1>1. PICK n \in Nat :
         \A t \in TicketIds : tickets[t] # Absent => tickets[t].ordinal <= n /\ tickets[t].code <= n
  BY DEF IInv, Bounded
<1>2. \A t \in Stored(tickets) : t \in TicketIds /\ tickets[t] # Absent /\ tickets[t] \in Ticket
  BY DEF IInv, Types, Stored
<1>3. taken \in SUBSET Nat /\ (\A x \in taken : x <= n)
  BY <1>1, <1>2 DEF Ticket
<1>4. codes \in SUBSET Nat /\ codes # {} /\ (\A x \in codes : x <= n)
  BY <1>1, <1>2 DEF Ticket, NoCode
<1>5. /\ NextOrdinal(m) \in Nat
      /\ \A t \in Stored(tickets) : tickets[t].message = m => tickets[t].ordinal < NextOrdinal(m)
  <2>1. NextOrdinal(m) = IF taken = {} THEN 0 ELSE Max(taken) + 1
    BY DEF NextOrdinal
  <2>2. \A t \in Stored(tickets) : tickets[t].message = m => tickets[t].ordinal \in taken
    OBVIOUS
  <2> HIDE DEF taken
  <2>3. taken # {} => Max(taken) \in Nat /\ \A y \in taken : y <= Max(taken)
    BY <1>3, MaxIn
  <2>4. CASE taken = {}
    BY <2>1, <2>2, <2>4
  <2>5. CASE taken # {}
    <3>1. NextOrdinal(m) = Max(taken) + 1 /\ Max(taken) \in Nat
      BY <2>1, <2>3, <2>5
    <3>2. \A x \in taken : x \in Nat /\ x < Max(taken) + 1
      BY <1>3, <2>3, <2>5
    <3> QED
      BY <2>2, <3>1, <3>2
  <2> QED
    BY <2>4, <2>5
<1>6. /\ NextCode \in Nat /\ NextCode # NoCode
      /\ \A t \in Stored(tickets) : tickets[t].code < NextCode
  <2>1. NextCode = Max(codes) + 1
    BY DEF NextCode
  <2>2. \A t \in Stored(tickets) : tickets[t].code \in codes
    OBVIOUS
  <2> HIDE DEF codes
  <2>3. Max(codes) \in Nat /\ \A y \in codes : y <= Max(codes)
    BY <1>4, MaxIn
  <2>4. \A t \in Stored(tickets) : tickets[t].code \in Nat
    BY <1>2 DEF Ticket
  <2> QED
    BY <2>1, <2>2, <2>3, <2>4 DEF NoCode
<1> QED
  BY <1>5, <1>6

------------------------------------------------------------------------------
(* Steps                                                                   *)

LEMMA Asked ==
    ASSUME NEW asked, NEW more, asked \subseteq more
    PROVE  /\ \A t, doc : DocOK(t, doc, asked) => DocOK(t, doc, more)
           /\ \A worker : HolderOK(worker, asked) => HolderOK(worker, more)
  BY DEF DocOK, HolderOK

\* It is enough to look at the documents and the worker that change.
LEMMA StepOK ==
    ASSUME IInv, NEW w \in Workers, NEW worker \in Holder, Become(w, worker),
           HolderOK(worker, chosen'),
           chosen \subseteq chosen', chosen' \subseteq TicketIds \X TicketStatus,
           tickets' \in [TicketIds -> Ticket \cup {Absent}],
           \A t \in TicketIds : tickets'[t] # Absent => DocOK(t, tickets'[t], chosen'),
           Bounded(tickets'),
           decisions' \in [DecisionIds -> Decision \cup {Absent}],
           pending' \subseteq Messages,
           made' \in [tickets : 0 .. MaxTickets, decisions : 0 .. MaxDecisions]
    PROVE  IInv'
<1>1. workers' = [workers EXCEPT ![w] = worker]
  BY DEF Become
<1>2. workers' \in [Workers -> Holder]
  BY <1>1 DEF IInv, Types
<1>3. \A v \in Workers : HolderOK(workers'[v], chosen')
  BY <1>1, Asked DEF IInv, Types
<1> QED
  BY <1>2, <1>3 DEF IInv, Types

\* Steps of one worker that store nothing.
LEMMA WorkerStep ==
    ASSUME IInv, NEW w \in Workers, NEW worker \in Holder, Become(w, worker),
           HolderOK(worker, chosen), UNCHANGED <<tickets, made, chosen>>,
           decisions' \in [DecisionIds -> Decision \cup {Absent}],
           pending' \subseteq Messages
    PROVE  IInv'
  BY StepOK DEF IInv, Types

LEMMA IdleOK ==
    /\ Idle \in Holder /\ HolderOK(Idle, chosen)
    /\ Idle.pc = "idle" /\ Idle.doc = Absent /\ Idle.decision = Absent
<1>1. Idle \in Holder
  BY DEF Idle, Holder, Places, Texts
<1>2. Idle.pc = "idle" /\ Idle.doc = Absent /\ Idle.decision = Absent
  BY DEF Idle
<1> QED
  BY <1>1, <1>2 DEF HolderOK, Deciding, Splitting, Analyzing, Writing

LEMMA FinishStep ==
    ASSUME IInv, NEW w \in Workers, Finish(w), UNCHANGED <<tickets, pending, made, chosen>>,
           decisions' \in [DecisionIds -> Decision \cup {Absent}]
    PROVE  IInv'
  BY IdleOK, WorkerStep DEF Finish, IInv, Types

\* Storing a consistent document, new or over the one that is stored.
LEMMA WriteStep ==
    ASSUME IInv, NEW w \in Workers, NEW id \in Nat, NEW doc \in Ticket, NEW next,
           WriteTicket(w, id, doc, next), DocOK(id, doc, chosen),
           id \in TicketIds => next \in Holder /\ HolderOK(next, chosen)
    PROVE  IInv'
<1>1. UNCHANGED <<decisions, pending, chosen>>
  BY DEF WriteTicket
<1>2. CASE TicketClash(id, doc)
  BY <1>1, <1>2, FinishStep DEF WriteTicket, IInv, Types
<1>3. CASE ~TicketClash(id, doc)
  <2>1. /\ id \in TicketIds /\ tickets' = [tickets EXCEPT ![id] = doc] /\ Become(w, next)
        /\ made' = [made EXCEPT !.tickets = IF id > made.tickets THEN id ELSE made.tickets]
    BY <1>3 DEF WriteTicket
  <2>2. /\ tickets' \in [TicketIds -> Ticket \cup {Absent}]
        /\ \A t \in TicketIds : tickets'[t] # Absent => DocOK(t, tickets'[t], chosen)
    BY <2>1 DEF IInv, Types
  <2>3. made' \in [tickets : 0 .. MaxTickets, decisions : 0 .. MaxDecisions]
    BY <2>1 DEF IInv, Types, TicketIds
  <2>4. Bounded(tickets')
    <3>1. PICK n \in Nat :
             \A t \in TicketIds :
                tickets[t] # Absent => tickets[t].ordinal <= n /\ tickets[t].code <= n
      BY DEF IInv, Bounded
    <3>2. doc.ordinal \in Nat /\ doc.code \in Nat
      BY DEF Ticket
    <3>3. \A t \in TicketIds : t # id => tickets'[t] = tickets[t]
      BY <2>1
    <3>4. tickets'[id] = doc
      BY <2>1 DEF IInv, Types
    <3>5. \A t \in TicketIds : tickets[t] # Absent =>
             tickets[t].ordinal \in Nat /\ tickets[t].code \in Nat
      BY DEF IInv, Types, Ticket
    <3> DEFINE top == n + doc.ordinal + doc.code
    <3>6. top \in Nat
      BY <3>2
    <3>7. ASSUME NEW t \in TicketIds, tickets'[t] # Absent
          PROVE  tickets'[t].ordinal <= top /\ tickets'[t].code <= top
      BY <3>1, <3>2, <3>3, <3>4, <3>5, <3>7
    <3> QED
      BY <3>6, <3>7 DEF Bounded
  <2> QED
    BY <1>1, <2>1, <2>2, <2>3, <2>4, StepOK DEF IInv, Types
<1> QED
  BY <1>2, <1>3

------------------------------------------------------------------------------
(* Decisions                                                               *)

\* What a worker stores when it has decided.
LEMMA StoringOK ==
    ASSUME NEW worker \in Holder, NEW target \in TicketIds \cup {NoTicket}, NEW asked,
           worker.ticket # NoTicket, worker.message # NoMessage,
           worker.handling \in TicketHandling
    PROVE  Storing(worker, target) \in Holder /\ HolderOK(Storing(worker, target), asked)
<1> DEFINE decision == Decided(worker, target)
           next == [worker EXCEPT !.pc = "storeDecision", !.decision = decision,
                                  !.doc = Absent, !.target = NoTicket]
<1>1. worker.ticket \in TicketIds /\ worker.message \in Messages
  BY DEF Holder
<1>2. decision \in Decision
  <2>1. worker.decision # Absent => worker.decision \in Decision
    BY DEF Holder
  <2>2. worker.decision # Absent =>
           [worker.decision EXCEPT !.handling = worker.handling, !.target = target] \in Decision
    BY <2>1 DEF Decision
  <2>3. [request |-> worker.ticket, message |-> worker.message, handling |-> worker.handling,
         target |-> target, sent |-> FALSE] \in Decision
    BY <1>1 DEF Decision
  <2> QED
    BY <2>2, <2>3 DEF Decided
<1> HIDE DEF decision
<1>3. next \in Holder
  BY <1>2 DEF Holder, Places
<1>4. next.pc = "storeDecision" /\ next.decision = decision
  BY DEF Holder
<1>5. decision # Absent
  BY <1>2, AbsentAssumption
<1>6. Storing(worker, target) = next
  BY DEF Storing, decision
<1> HIDE DEF next
<1> QED
  BY <1>3, <1>4, <1>5, <1>6 DEF HolderOK, Deciding, Splitting, Analyzing, Writing

LEMMA LinkOrIgnoreOK ==
    ASSUME NEW worker \in Holder, NEW asked,
           worker.ticket # NoTicket, worker.message # NoMessage,
           worker.handling \in TicketHandling
    PROVE  LinkOrIgnore(worker) \in Holder /\ HolderOK(LinkOrIgnore(worker), asked)
<1>1. worker.ticket \in TicketIds
  BY DEF Holder
<1>2. worker.handling = "link" \/ worker.handling # "link"
  OBVIOUS
<1> QED
  BY <1>1, <1>2, StoringOK DEF LinkOrIgnore

\* What decide holds when it has read the ticket, the message and the decision.
DecideHolder(t, m, handling, text) ==
    LET found == DecisionOf(t, m)
    IN  [Idle EXCEPT !.by = "decide", !.ticket = t, !.message = m,
           !.handling = handling, !.text = text,
           !.id = IF found = {} THEN NoDecision ELSE Min(found),
           !.decision = IF found = {} THEN Absent ELSE decisions[Min(found)]]

LEMMA FoundDecision ==
    ASSUME IInv, NEW t \in TicketIds, NEW m \in Messages, DecisionOf(t, m) # {}
    PROVE  /\ Min(DecisionOf(t, m)) \in DecisionIds
           /\ Min(DecisionOf(t, m)) \in DecisionOf(t, m)
           /\ decisions[Min(DecisionOf(t, m))] \in Decision
<1>1. DecisionOf(t, m) \subseteq DecisionIds
  BY DEF DecisionOf, Stored, IInv, Types
<1>2. DecisionOf(t, m) \in SUBSET Nat
  BY <1>1 DEF DecisionIds
<1>3. Min(DecisionOf(t, m)) \in DecisionOf(t, m)
  BY <1>2, MinIn
<1> QED
  BY <1>1, <1>3 DEF DecisionOf, Stored, IInv, Types

LEMMA DecideHolderOK ==
    ASSUME IInv, NEW t \in TicketIds, NEW m \in Messages,
           NEW handling \in TicketHandling \cup {"clear"}, NEW text \in Texts
    PROVE  LET worker == DecideHolder(t, m, handling, text)
           IN  /\ worker \in Holder
               /\ worker.by = "decide" /\ worker.ticket = t /\ worker.message = m
               /\ worker.handling = handling /\ worker.text = text
               /\ worker.doc = Absent /\ worker.target = NoTicket
               /\ DecisionOf(t, m) = {} => worker.id = NoDecision /\ worker.decision = Absent
               /\ DecisionOf(t, m) # {} =>
                    /\ worker.id \in DecisionOf(t, m)
                    /\ worker.decision = decisions[worker.id]
<1> DEFINE found == DecisionOf(t, m)
           id == IF found = {} THEN NoDecision ELSE Min(found)
           decision == IF found = {} THEN Absent ELSE decisions[Min(found)]
           worker == [Idle EXCEPT !.by = "decide", !.ticket = t, !.message = m,
                        !.handling = handling, !.text = text, !.id = id, !.decision = decision]
<1>1. /\ id \in DecisionIds \cup {NoDecision} /\ decision \in Decision \cup {Absent}
      /\ found = {} => id = NoDecision /\ decision = Absent
      /\ found # {} => id \in found /\ decision = decisions[id]
  BY FoundDecision
<1>2. DecideHolder(t, m, handling, text) = worker
  BY DEF DecideHolder
<1> HIDE DEF id, decision
<1>3. worker \in Holder
  BY <1>1, IdleOK DEF Holder, AllKinds
<1>4. /\ worker.by = "decide" /\ worker.ticket = t /\ worker.message = m
      /\ worker.handling = handling /\ worker.text = text /\ worker.id = id
      /\ worker.decision = decision /\ worker.doc = Absent /\ worker.target = NoTicket
  BY DEF Idle
<1> HIDE DEF worker
<1> QED
  BY <1>1, <1>2, <1>3, <1>4

\* Where a worker goes next, without anything stored.
LEMMA GoesTo ==
    ASSUME NEW worker \in Holder, NEW pc \in Places
    PROVE  LET next == [worker EXCEPT !.pc = pc]
           IN  /\ next \in Holder /\ next.pc = pc
               /\ next.by = worker.by /\ next.ticket = worker.ticket
               /\ next.message = worker.message /\ next.handling = worker.handling
               /\ next.text = worker.text /\ next.id = worker.id
               /\ next.decision = worker.decision /\ next.target = worker.target
               /\ next.doc = worker.doc /\ next.items = worker.items
               /\ next.ordinal = worker.ordinal /\ next.todo = worker.todo
  BY DEF Holder

\* The ways a decision goes on once everything is read.
DecidesOn(w, worker, found, t) ==
    \/ worker.handling = "clear" /\ found = {} /\ Become(w, Idle)
    \/ /\ worker.handling = "create"
       /\ Become(w, [worker EXCEPT !.pc = IF SplitOff(worker.decision, t) THEN "readTarget"
                                          ELSE "numbers"])
    \/ /\ worker.handling # "create" /\ SplitOff(worker.decision, t)
       /\ Become(w, [worker EXCEPT !.pc = "remove"])
    \/ /\ worker.handling = "clear" /\ found # {} /\ ~SplitOff(worker.decision, t)
       /\ Become(w, [worker EXCEPT !.pc = "deleteDecision"])
    \/ /\ worker.handling \in {"link", "ignore"} /\ ~SplitOff(worker.decision, t)
       /\ Become(w, LinkOrIgnore(worker))

LEMMA DecideWays ==
    ASSUME IInv, NEW w \in Workers, NEW t \in TicketIds, NEW m \in Messages,
           NEW handling \in TicketHandling \cup {"clear"}, NEW text \in Texts,
           DecideRead(w, t, m, handling, text)
    PROVE  /\ workers[w].pc = "idle" /\ tickets[t] # Absent /\ MayChange(DecisionOf(t, m))
           /\ DecidesOn(w, DecideHolder(t, m, handling, text), DecisionOf(t, m), t)
           /\ UNCHANGED <<tickets, decisions, pending, made, chosen>>
<1> DEFINE found == DecisionOf(t, m)
           worker == DecideHolder(t, m, handling, text)
           split == SplitOff(worker.decision, t)
<1>1. /\ workers[w].pc = "idle" /\ tickets[t] # Absent /\ MayChange(found)
      /\ UNCHANGED <<tickets, decisions, pending, made, chosen>>
  BY DEF DecideRead
<1>2. Become(w,
         CASE handling = "clear" /\ found = {} -> Idle
           [] handling = "create" -> [worker EXCEPT !.pc = IF split THEN "readTarget" ELSE "numbers"]
           [] handling # "create" /\ split -> [worker EXCEPT !.pc = "remove"]
           [] handling = "clear" /\ found # {} /\ ~split -> [worker EXCEPT !.pc = "deleteDecision"]
           [] handling \in {"link", "ignore"} /\ ~split -> LinkOrIgnore(worker))
  BY DEF DecideRead, DecideHolder
<1>3. worker.handling = handling
  BY DecideHolderOK
<1>4. split \in BOOLEAN
  BY DEF SplitOff
<1> HIDE DEF worker, found, split
<1>5. \/ handling = "clear" /\ found = {} /\ Become(w, Idle)
      \/ /\ handling = "create"
         /\ Become(w, [worker EXCEPT !.pc = IF split THEN "readTarget" ELSE "numbers"])
      \/ handling # "create" /\ split /\ Become(w, [worker EXCEPT !.pc = "remove"])
      \/ /\ handling = "clear" /\ found # {} /\ ~split
         /\ Become(w, [worker EXCEPT !.pc = "deleteDecision"])
      \/ handling \in {"link", "ignore"} /\ ~split /\ Become(w, LinkOrIgnore(worker))
  BY <1>2, <1>4 DEF TicketHandling
<1> QED
  BY <1>1, <1>3, <1>5 DEF DecidesOn, worker, found, split

LEMMA DecideStep ==
    ASSUME IInv, NEW w \in Workers, NEW t \in TicketIds, NEW m \in Messages,
           NEW handling \in TicketHandling \cup {"clear"}, NEW text \in Texts,
           DecideRead(w, t, m, handling, text)
    PROVE  IInv'
<1> DEFINE worker == DecideHolder(t, m, handling, text)
<1>1. /\ worker \in Holder /\ worker.ticket = t /\ worker.message = m
      /\ worker.handling = handling /\ worker.doc = Absent
      /\ worker.decision # Absent => worker.decision \in Decision
  BY DecideHolderOK DEF Holder
<1>2. /\ DecidesOn(w, worker, DecisionOf(t, m), t)
      /\ UNCHANGED <<tickets, decisions, pending, made, chosen>>
  BY DecideWays
<1>3. worker.ticket # NoTicket /\ worker.message # NoMessage
  BY <1>1, TicketsAssumption DEF TicketIds, NoTicket
<1>4. SplitOff(worker.decision, t) => worker.decision # Absent /\ worker.decision.target # NoTicket
  BY DEF SplitOff
<1> HIDE DEF worker
<1>5. ASSUME NEW next \in Holder, HolderOK(next, chosen), Become(w, next)
      PROVE  IInv'
  BY <1>2, <1>5, WorkerStep DEF IInv, Types
<1>6. ASSUME NEW pc \in {"readTarget", "numbers", "remove", "deleteDecision"},
             pc \in {"readTarget", "numbers"} => worker.handling = "create",
             pc = "remove" => worker.handling # "create",
             pc \in {"readTarget", "remove"} => SplitOff(worker.decision, t),
             Become(w, [worker EXCEPT !.pc = pc])
      PROVE  IInv'
  <2> DEFINE next == [worker EXCEPT !.pc = pc]
  <2>1. /\ next \in Holder /\ next.pc = pc /\ next.ticket = worker.ticket
        /\ next.message = worker.message /\ next.handling = worker.handling
        /\ next.decision = worker.decision
    <3>1. pc \in Places
      BY DEF Places
    <3> QED
      BY <1>1, <3>1, GoesTo
  <2> HIDE DEF next
  <2>2. handling \in {"create", "link", "ignore", "clear"}
    BY DEF TicketHandling
  <2>3. HolderOK(next, chosen)
    BY <1>1, <1>3, <1>4, <1>6, <2>1, <2>2
       DEF HolderOK, Deciding, Splitting, Analyzing, Writing
  <2> QED
    BY <1>5, <1>6, <2>1, <2>3 DEF next
<1>7. worker.handling \in TicketHandling => LinkOrIgnore(worker) \in Holder /\ HolderOK(LinkOrIgnore(worker), chosen)
  BY <1>1, <1>3, LinkOrIgnoreOK
<1>8. CASE worker.handling = "create" /\
             Become(w, [worker EXCEPT !.pc = IF SplitOff(worker.decision, t) THEN "readTarget"
                                             ELSE "numbers"])
  BY <1>6, <1>8
<1> QED
  BY <1>2, <1>5, <1>6, <1>7, <1>8, IdleOK DEF DecidesOn, TicketHandling

LEMMA RemoveStep ==
    ASSUME IInv, NEW w \in Workers, RemoveTarget(w)
    PROVE  IInv'
<1> DEFINE worker == workers[w]
           next == AfterRemoval(worker)
<1>1. worker \in Holder /\ HolderOK(worker, chosen) /\ worker.pc = "remove"
  BY DEF RemoveTarget, IInv, Types
<1>2. /\ worker.ticket # NoTicket /\ worker.message # NoMessage
      /\ worker.handling \in {"link", "ignore", "clear"}
  BY <1>1 DEF HolderOK, Deciding
<1>3. next \in Holder /\ HolderOK(next, chosen)
  <2>1. CASE worker.handling = "clear"
    <3> DEFINE gone == [worker EXCEPT !.pc = "deleteDecision"]
    <3>1. gone \in Holder /\ gone.pc = "deleteDecision"
      BY <1>1, GoesTo DEF Places
    <3> HIDE DEF gone
    <3>2. HolderOK(gone, chosen)
      BY <3>1 DEF HolderOK, Deciding, Splitting, Analyzing, Writing
    <3> QED
      BY <2>1, <3>1, <3>2 DEF AfterRemoval, gone
  <2>2. CASE worker.handling # "clear"
    BY <1>1, <1>2, <2>2, LinkOrIgnoreOK DEF AfterRemoval, TicketHandling
  <2> QED
    BY <2>1, <2>2
<1>4. /\ tickets' = tickets \/ \E t : tickets' = [tickets EXCEPT ![t] = Absent]
      /\ Become(w, next) /\ UNCHANGED <<decisions, pending, made, chosen>>
  BY DEF RemoveTarget, WithoutTarget
<1> HIDE DEF next
<1>5. /\ tickets' \in [TicketIds -> Ticket \cup {Absent}]
      /\ \A t \in TicketIds : tickets'[t] # Absent => tickets'[t] = tickets[t]
  BY <1>4 DEF IInv, Types
<1>6. Bounded(tickets')
  BY <1>5 DEF IInv, Bounded
<1> QED
  BY <1>3, <1>4, <1>5, <1>6, StepOK DEF IInv, Types

LEMMA ReadTargetStep ==
    ASSUME IInv, NEW w \in Workers, ReadTarget(w)
    PROVE  IInv'
<1> DEFINE worker == workers[w]
           target == worker.decision.target
           doc == [tickets[target] EXCEPT !.text = worker.text]
           again == [worker EXCEPT !.pc = "numbers"]
           next == [worker EXCEPT !.pc = "writeTarget", !.target = target, !.doc = doc]
<1>1. worker \in Holder /\ HolderOK(worker, chosen) /\ worker.pc = "readTarget"
  BY DEF ReadTarget, IInv, Types
<1>2. /\ worker.ticket # NoTicket /\ worker.message # NoMessage /\ worker.handling = "create"
      /\ worker.decision \in Decision /\ target \in TicketIds /\ worker.text \in Texts
  BY <1>1 DEF HolderOK, Deciding, Splitting, Holder, Decision
<1>3. /\ Become(w, IF tickets[target] = Absent THEN again ELSE next)
      /\ UNCHANGED <<tickets, decisions, pending, made, chosen>>
  BY DEF ReadTarget
<1>4. CASE tickets[target] = Absent
  <2>1. /\ again \in Holder /\ again.pc = "numbers" /\ again.ticket = worker.ticket
        /\ again.message = worker.message /\ again.handling = worker.handling
    BY <1>1, GoesTo DEF Places
  <2>2. Become(w, again)
    BY <1>3, <1>4
  <2> HIDE DEF again
  <2>3. HolderOK(again, chosen)
    BY <1>2, <2>1 DEF HolderOK, Deciding, Splitting, Analyzing, Writing
  <2> QED
    BY <1>3, <2>1, <2>2, <2>3, WorkerStep DEF IInv, Types
<1>5. CASE tickets[target] # Absent
  <2>1. tickets[target] \in Ticket /\ DocOK(target, tickets[target], chosen)
    BY <1>2, <1>5 DEF IInv, Types
  <2>2. Become(w, next)
    BY <1>3, <1>5
  <2> HIDE DEF target
  <2>3. doc \in Ticket
    BY <1>2, <2>1 DEF Ticket
  <2>4. /\ doc.solution = tickets[target].solution /\ doc.message = tickets[target].message
        /\ doc.attached = tickets[target].attached /\ doc.status = tickets[target].status
    BY <2>1 DEF Ticket
  <2> HIDE DEF doc
  <2>5. DocOK(target, doc, chosen)
    BY <2>1, <2>4 DEF DocOK
  <2>6. next \in Holder
    BY <1>1, <1>2, <2>3 DEF Holder, Places
  <2>7. /\ next.pc = "writeTarget" /\ next.ticket = worker.ticket /\ next.target = target
        /\ next.message = worker.message /\ next.handling = worker.handling /\ next.doc = doc
    BY <1>1 DEF Holder
  <2>8. doc # Absent
    BY <2>3, AbsentAssumption
  <2> HIDE DEF next
  <2>9. HolderOK(next, chosen)
    BY <1>2, <2>5, <2>7, <2>8 DEF HolderOK, Deciding, Splitting, Analyzing, Writing
  <2> QED
    BY <1>3, <2>2, <2>6, <2>9, WorkerStep DEF IInv, Types
<1> QED
  BY <1>4, <1>5

\* The document of a ticket a person splits off.
LEMMA ReadNumbersStep ==
    ASSUME IInv, NEW w \in Workers, ReadNumbers(w)
    PROVE  IInv'
<1> DEFINE worker == workers[w]
           m == worker.message
           doc == [message |-> m, ordinal |-> NextOrdinal(m), code |-> NextCode,
                   attached |-> {m}, text |-> worker.text, status |-> "active",
                   solution |-> Absent]
           next == [worker EXCEPT !.pc = "writeTarget", !.target = NoTicket, !.doc = doc]
<1>1. worker \in Holder /\ HolderOK(worker, chosen) /\ worker.pc = "numbers"
  BY DEF ReadNumbers, IInv, Types
<1>2. /\ worker.ticket # NoTicket /\ m # NoMessage /\ worker.handling = "create"
      /\ m \in Messages /\ worker.text \in Texts
  BY <1>1 DEF HolderOK, Deciding, Splitting, Holder
<1>3. Become(w, next) /\ UNCHANGED <<tickets, decisions, pending, made, chosen>>
  BY DEF ReadNumbers
<1>4. doc \in Ticket
  BY <1>2, NumbersFree DEF Ticket, TicketStatus
<1>5. doc # Absent /\ doc.solution = Absent /\ doc.status = "active"
  BY <1>4, AbsentAssumption
<1> HIDE DEF doc
<1>6. DocOK(NoTicket, doc, chosen)
  BY <1>5 DEF DocOK
<1>7. next \in Holder
  BY <1>1, <1>4 DEF Holder, Places
<1>8. /\ next.pc = "writeTarget" /\ next.ticket = worker.ticket /\ next.target = NoTicket
      /\ next.message = m /\ next.handling = worker.handling /\ next.doc = doc
  BY <1>1 DEF Holder
<1> HIDE DEF next
<1>9. HolderOK(next, chosen)
  BY <1>2, <1>5, <1>6, <1>8 DEF HolderOK, Deciding, Splitting, Analyzing, Writing
<1> QED
  BY <1>3, <1>7, <1>9, WorkerStep DEF IInv, Types

\* A document that was read to be changed, or is new, may be stored.
LEMMA Storable ==
    ASSUME IInv, NEW w \in Workers, workers[w].pc \in Writing
    PROVE  LET worker == workers[w]
               id == IF worker.target = NoTicket THEN NewTicket ELSE worker.target
           IN  /\ worker.doc \in Ticket
               /\ id \in Nat
               /\ DocOK(id, worker.doc, chosen)
<1> DEFINE worker == workers[w]
           id == IF worker.target = NoTicket THEN NewTicket ELSE worker.target
<1>1. worker \in Holder /\ HolderOK(worker, chosen)
  BY DEF IInv, Types
<1>2. worker.doc \in Ticket /\ DocOK(worker.target, worker.doc, chosen)
  BY <1>1 DEF HolderOK, Holder
<1>3. worker.target \in TicketIds \/ worker.target = NoTicket
  BY <1>1 DEF Holder
<1>4. id \in Nat
  BY <1>3 DEF NewTicket, IInv, Types, TicketIds
<1>5. <<NoTicket, worker.doc.status>> \notin chosen
  BY DEF IInv, Types, TicketIds, NoTicket
<1>6. DocOK(id, worker.doc, chosen)
  BY <1>2, <1>5 DEF DocOK
<1> QED
  BY <1>2, <1>4, <1>6

LEMMA WriteTargetStep ==
    ASSUME IInv, NEW w \in Workers, WriteTarget(w)
    PROVE  IInv'
<1> DEFINE worker == workers[w]
           id == IF worker.target = NoTicket THEN NewTicket ELSE worker.target
<1>1. worker \in Holder /\ HolderOK(worker, chosen) /\ worker.pc = "writeTarget"
  BY DEF WriteTarget, IInv, Types
<1>2. /\ worker.ticket # NoTicket /\ worker.message # NoMessage
      /\ worker.handling \in TicketHandling
  BY <1>1 DEF HolderOK, Deciding, Splitting, TicketHandling
<1>3. WriteTicket(w, id, worker.doc, Storing(worker, id))
  BY DEF WriteTarget
<1>4. worker.doc \in Ticket /\ id \in Nat /\ DocOK(id, worker.doc, chosen)
  BY <1>1, Storable DEF Writing
<1> HIDE DEF id
<1>5. id \in TicketIds => Storing(worker, id) \in Holder /\ HolderOK(Storing(worker, id), chosen)
  BY <1>1, <1>2, StoringOK
<1> QED
  BY <1>3, <1>4, <1>5, WriteStep

LEMMA StoreDecisionStep ==
    ASSUME IInv, NEW w \in Workers, StoreDecision(w)
    PROVE  IInv'
<1> DEFINE worker == workers[w]
           id == IF worker.id = NoDecision THEN made.decisions + 1 ELSE worker.id
<1>1. worker \in Holder /\ HolderOK(worker, chosen) /\ worker.pc = "storeDecision"
  BY DEF StoreDecision, IInv, Types
<1>2. worker.decision \in Decision
  BY <1>1 DEF HolderOK, Holder
<1>3. Finish(w) /\ UNCHANGED <<tickets, pending, chosen>>
  BY DEF StoreDecision
<1>4. CASE DecisionClash(id, worker.decision)
  BY <1>3, <1>4, FinishStep DEF StoreDecision, IInv, Types
<1>5. CASE ~DecisionClash(id, worker.decision)
  <2>1. /\ id \in DecisionIds /\ decisions' = [decisions EXCEPT ![id] = worker.decision]
        /\ made' = [made EXCEPT !.decisions = IF id > made.decisions THEN id
                                              ELSE made.decisions]
    BY <1>5 DEF StoreDecision
  <2> HIDE DEF id
  <2>2. decisions' \in [DecisionIds -> Decision \cup {Absent}]
    BY <1>2, <2>1 DEF IInv, Types
  <2>3. made' \in [tickets : 0 .. MaxTickets, decisions : 0 .. MaxDecisions]
    BY <2>1 DEF IInv, Types, DecisionIds
  <2> QED
    BY <1>3, <2>2, <2>3, IdleOK, StepOK DEF Finish, IInv, Types
<1> QED
  BY <1>4, <1>5

LEMMA DeleteDecisionStep ==
    ASSUME IInv, NEW w \in Workers, DeleteDecision(w)
    PROVE  IInv'
<1>1. decisions' \in [DecisionIds -> Decision \cup {Absent}]
  BY DEF DeleteDecision, IInv, Types
<1> QED
  BY <1>1, FinishStep DEF DeleteDecision

------------------------------------------------------------------------------
(* Mark-sent, reply-draft, status and solution                             *)

LEMMA DecisionReadStep ==
    ASSUME IInv, NEW w \in Workers, NEW t \in TicketIds,
           (\E m \in Messages : MarkSentRead(w, t, m)) \/ DraftRead(w, t)
    PROVE  IInv'
<1>1. UNCHANGED <<tickets, decisions, pending, made, chosen>>
  BY DEF MarkSentRead, DraftRead
<1>2. ASSUME NEW d \in DecisionIds, NEW decision \in Decision, NEW by \in {"send", "draft"},
             Become(w, [Idle EXCEPT !.pc = "storeDecision", !.by = by, !.id = d,
                                    !.decision = decision])
      PROVE  IInv'
  <2> DEFINE next == [Idle EXCEPT !.pc = "storeDecision", !.by = by, !.id = d,
                                  !.decision = decision]
  <2>1. next \in Holder
    BY IdleOK DEF Holder, Places, AllKinds
  <2>2. next.pc = "storeDecision" /\ next.decision = decision
    BY DEF Idle
  <2> HIDE DEF next
  <2>3. HolderOK(next, chosen)
    BY <2>2, AbsentAssumption DEF HolderOK, Deciding, Splitting, Analyzing, Writing
  <2> QED
    BY <1>1, <1>2, <2>1, <2>3, WorkerStep DEF IInv, Types, next
<1>3. \A m \in Messages : \A d \in DecisionOf(t, m) :
         d \in DecisionIds /\ decisions[d] \in Decision
  BY DEF DecisionOf, Stored, IInv, Types
<1>4. \A d \in DecisionIds :
         decisions[d] \in Decision => [decisions[d] EXCEPT !.sent = TRUE] \in Decision
  BY DEF Decision
<1> QED
  BY <1>2, <1>3, <1>4 DEF MarkSentRead, DraftRead

LEMMA SolvedOK ==
    ASSUME NEW t, NEW doc \in Ticket, DocOK(t, doc, chosen)
    PROVE  Solved(doc) \in Ticket /\ DocOK(t, Solved(doc), chosen)
<1> DEFINE solution == [text |-> doc.text, messages |-> {doc.message} \cup doc.attached]
           solved == [doc EXCEPT !.solution = solution]
<1>1. solution \in Solution
  BY DEF Ticket, Solution
<1>2. solution.messages = {doc.message} \cup doc.attached
  OBVIOUS
<1> HIDE DEF solution
<1>3. solved \in Ticket
  BY <1>1 DEF Ticket
<1>4. /\ solved.solution = solution /\ solved.message = doc.message
      /\ solved.attached = doc.attached /\ solved.status = doc.status
  BY DEF Ticket
<1>5. Solved(doc) = solved
  BY DEF Solved, solution
<1> HIDE DEF solved
<1> QED
  BY <1>2, <1>3, <1>4, <1>5 DEF DocOK

LEMMA TicketReadStep ==
    ASSUME IInv, NEW w \in Workers, NEW t \in TicketIds,
           (\E s \in TicketStatus : StatusRead(w, t, s)) \/ SolveRead(w, t)
    PROVE  IInv'
<1>1. UNCHANGED <<tickets, decisions, pending, made>> /\ tickets[t] # Absent
  BY DEF StatusRead, SolveRead
<1>2. tickets[t] \in Ticket /\ DocOK(t, tickets[t], chosen)
  BY <1>1 DEF IInv, Types
<1>3. ASSUME NEW doc \in Ticket, DocOK(t, doc, chosen'), NEW by \in {"status", "solve"},
             chosen \subseteq chosen', chosen' \subseteq TicketIds \X TicketStatus,
             Become(w, [Idle EXCEPT !.pc = "saveTicket", !.by = by, !.target = t, !.doc = doc])
      PROVE  IInv'
  <2> DEFINE next == [Idle EXCEPT !.pc = "saveTicket", !.by = by, !.target = t, !.doc = doc]
  <2>1. next \in Holder
    BY IdleOK DEF Holder, Places, AllKinds
  <2>2. next.pc = "saveTicket" /\ next.target = t /\ next.doc = doc
    BY DEF Idle
  <2> HIDE DEF next
  <2>3. t # NoTicket /\ doc # Absent
    BY AbsentAssumption DEF TicketIds, NoTicket
  <2>4. HolderOK(next, chosen')
    BY <1>3, <2>2, <2>3 DEF HolderOK, Deciding, Splitting, Analyzing, Writing
  <2>5. \A x \in TicketIds : tickets'[x] # Absent => DocOK(x, tickets'[x], chosen')
    BY <1>1, <1>3, Asked DEF IInv
  <2> QED
    BY <1>1, <1>3, <2>1, <2>4, <2>5, StepOK DEF IInv, Types, next
<1>4. ASSUME NEW s \in TicketStatus, StatusRead(w, t, s)
      PROVE  IInv'
  <2> DEFINE doc == [tickets[t] EXCEPT !.status = s]
  <2>1. /\ chosen' = chosen \cup {<<t, s>>}
        /\ Become(w, [Idle EXCEPT !.pc = "saveTicket", !.by = "status", !.target = t, !.doc = doc])
    BY <1>4 DEF StatusRead
  <2>2. doc \in Ticket
    BY <1>2 DEF Ticket
  <2>3. /\ doc.solution = tickets[t].solution /\ doc.message = tickets[t].message
        /\ doc.attached = tickets[t].attached /\ doc.status = s
    BY <1>2 DEF Ticket
  <2> HIDE DEF doc
  <2>4. DocOK(t, doc, chosen')
    BY <1>2, <2>1, <2>3 DEF DocOK
  <2>5. chosen \subseteq chosen' /\ chosen' \subseteq TicketIds \X TicketStatus
    BY <2>1 DEF IInv, Types
  <2> QED
    BY <1>3, <2>1, <2>2, <2>4, <2>5
<1>5. ASSUME SolveRead(w, t)
      PROVE  IInv'
  <2>1. UNCHANGED chosen /\ Become(w, [Idle EXCEPT !.pc = "saveTicket", !.by = "solve",
                                         !.target = t, !.doc = Solved(tickets[t])])
    BY <1>5 DEF SolveRead
  <2>2. chosen' \subseteq TicketIds \X TicketStatus
    BY <2>1 DEF IInv, Types
  <2> QED
    BY <1>2, <1>3, <2>1, <2>2, SolvedOK
<1> QED
  BY <1>4, <1>5

LEMMA SaveTicketStep ==
    ASSUME IInv, NEW w \in Workers, SaveTicket(w)
    PROVE  IInv'
<1>1. workers[w] \in Holder /\ HolderOK(workers[w], chosen) /\ workers[w].pc = "saveTicket"
  BY DEF SaveTicket, IInv, Types
<1>2. workers[w].target # NoTicket
  BY <1>1 DEF HolderOK
<1> QED
  BY <1>1, <1>2, Storable, IdleOK, WriteStep DEF SaveTicket, Writing

------------------------------------------------------------------------------
(* The analysis                                                            *)

LEMMA AnalyzeStep ==
    ASSUME IInv, NEW w \in Workers, NEW m \in Messages, AnalyzeStart(w, m)
    PROVE  IInv'
<1>1. /\ pending' \subseteq Messages /\ UNCHANGED <<tickets, decisions, made, chosen>>
  BY DEF AnalyzeStart, IInv, Types
<1>2. PICK items \in Findings :
         Become(w, [Idle EXCEPT !.pc = "item", !.by = "analyze", !.message = m, !.items = items])
  BY DEF AnalyzeStart
<1> DEFINE next == [Idle EXCEPT !.pc = "item", !.by = "analyze", !.message = m, !.items = items]
<1>3. items \in Seq(TicketIds \cup {NoTicket})
  <2> DEFINE open == {t \in Stored(tickets) : tickets[t].status = "active"}
  <2>1. PICK n \in 0 .. MaxItems : items \in [1 .. n -> open \cup {NoTicket}]
    BY DEF Findings
  <2>2. open \subseteq TicketIds
    BY DEF Stored, IInv, Types
  <2> HIDE DEF open
  <2>3. n \in Nat
    BY TicketsAssumption
  <2>4. items \in [1 .. n -> TicketIds \cup {NoTicket}]
    BY <2>1, <2>2
  <2> QED
    BY <2>3, <2>4
<1>4. next \in Holder
  BY <1>3, IdleOK DEF Holder, Places, AllKinds
<1>5. next.pc = "item" /\ next.message = m
  BY DEF Idle
<1> HIDE DEF next
<1>6. HolderOK(next, chosen)
  BY <1>5, TicketsAssumption DEF HolderOK, Deciding, Splitting, Analyzing, Writing
<1> QED
  BY <1>1, <1>2, <1>4, <1>6, WorkerStep DEF IInv, Types, next

\* Attaching a message drops the solution; a repeated analysis replaces the text.
LEMMA ItemDocs ==
    ASSUME NEW t, NEW doc \in Ticket, DocOK(t, doc, chosen), NEW m \in Messages
    PROVE  /\ Attached(doc, m) \in Ticket /\ DocOK(t, Attached(doc, m), chosen)
           /\ Reanalyzed(doc) \in Ticket /\ DocOK(t, Reanalyzed(doc), chosen)
<1> DEFINE attached == [doc EXCEPT !.attached = doc.attached \cup {m}, !.solution = Absent]
           reanalyzed == [doc EXCEPT !.text = AnalysisText]
<1>1. Attached(doc, m) = attached /\ Reanalyzed(doc) = reanalyzed
  BY DEF Attached, Reanalyzed
<1>2. attached \in Ticket /\ reanalyzed \in Ticket
  BY DEF Ticket, Texts
<1>3. /\ attached.solution = Absent /\ attached.status = doc.status
      /\ reanalyzed.solution = doc.solution /\ reanalyzed.status = doc.status
      /\ reanalyzed.message = doc.message /\ reanalyzed.attached = doc.attached
  BY DEF Ticket
<1> HIDE DEF attached, reanalyzed
<1> QED
  BY <1>1, <1>2, <1>3 DEF DocOK

\* A ticket stored by the analysis.
Found(m, ordinal) ==
    [message |-> m, ordinal |-> ordinal, code |-> NoCode, attached |-> {m},
     text |-> AnalysisText, status |-> "active", solution |-> Absent]

LEMMA FoundOK ==
    ASSUME NEW m \in Messages, NEW ordinal \in Nat
    PROVE  Found(m, ordinal) \in Ticket /\ DocOK(NoTicket, Found(m, ordinal), chosen)
<1>1. Found(m, ordinal) \in Ticket
  BY DEF Found, Ticket, Texts, TicketStatus, NoCode
<1>2. Found(m, ordinal).solution = Absent /\ Found(m, ordinal).status = "active"
  BY DEF Found
<1> QED
  BY <1>1, <1>2 DEF DocOK

\* The tickets an analysis of the message stored under the same number.
Same(m, ordinal) ==
    {t \in Stored(tickets) : tickets[t].message = m /\ tickets[t].ordinal = ordinal}

LEMMA SameIn ==
    ASSUME IInv, NEW m, NEW ordinal, Same(m, ordinal) # {}
    PROVE  Min(Same(m, ordinal)) \in Same(m, ordinal)
<1>1. Same(m, ordinal) \in SUBSET Nat
  BY DEF Same, Stored, IInv, Types, TicketIds
<1> QED
  BY <1>1, MinIn

\* What the analysis reads for a request: a ticket to attach the message to,
\* or one to store anew, or again.
Reads(w, pc, target, doc) ==
    Become(w, [workers[w] EXCEPT !.pc = pc, !.target = target, !.doc = doc])

LEMMA ItemWays ==
    ASSUME IInv, NEW w \in Workers, ReadForItem(w)
    PROVE  LET m == workers[w].message
               ordinal == workers[w].ordinal
           IN  /\ workers[w].pc = "item" /\ workers[w].items # <<>>
               /\ UNCHANGED <<tickets, decisions, pending, made, chosen>>
               /\ \/ \E t \in Stored(tickets) : Reads(w, "attach", t, Attached(tickets[t], m))
                  \/ /\ Same(m, ordinal) = {}
                     /\ Reads(w, "writeItem", NoTicket, Found(m, ordinal))
                  \/ \E t \in Same(m, ordinal) :
                        Reads(w, "writeItem", t, Reanalyzed(tickets[t]))
<1> DEFINE worker == workers[w]
           m == worker.message
           ordinal == worker.ordinal
           match == Head(worker.items)
           same == Same(m, ordinal)
           doc == IF same = {} THEN Found(m, ordinal) ELSE Reanalyzed(tickets[Min(same)])
           target == IF same = {} THEN NoTicket ELSE Min(same)
           matched == match # NoTicket /\ tickets[match] # Absent
<1>1. /\ worker.pc = "item" /\ worker.items # <<>>
      /\ UNCHANGED <<tickets, decisions, pending, made, chosen>>
      /\ worker \in Holder
  BY DEF ReadForItem, IInv, Types
<1>2. match \in TicketIds \cup {NoTicket}
  <2>1. worker.items \in Seq(TicketIds \cup {NoTicket})
    BY <1>1 DEF Holder
  <2> QED
    BY <1>1, <2>1
<1>3. /\ matched => Reads(w, "attach", match, Attached(tickets[match], m))
      /\ ~matched => Reads(w, "writeItem", target, doc)
  BY DEF ReadForItem, Reads, Same, Found
<1>4. matched => match \in Stored(tickets)
  BY <1>2 DEF Stored, IInv, Types
<1>5. same # {} => Min(same) \in same
  BY SameIn
<1> HIDE DEF same, matched
<1> QED
  BY <1>1, <1>3, <1>4, <1>5 DEF same

LEMMA ReadForItemStep ==
    ASSUME IInv, NEW w \in Workers, ReadForItem(w)
    PROVE  IInv'
<1> DEFINE worker == workers[w]
<1>1. /\ worker \in Holder /\ HolderOK(worker, chosen) /\ worker.pc = "item"
      /\ worker.items # <<>>
  BY ItemWays DEF IInv, Types
<1>2. worker.message # NoMessage /\ worker.message \in Messages /\ worker.ordinal \in Nat
  BY <1>1 DEF HolderOK, Analyzing, Holder
<1>3. ASSUME NEW pc \in {"attach", "writeItem"}, NEW target \in TicketIds \cup {NoTicket},
             NEW doc \in Ticket, DocOK(target, doc, chosen),
             pc = "attach" => target # NoTicket,
             Reads(w, pc, target, doc)
      PROVE  IInv'
  <2> DEFINE next == [worker EXCEPT !.pc = pc, !.target = target, !.doc = doc]
  <2>1. next \in Holder
    BY <1>1 DEF Holder, Places
  <2>2. /\ next.pc = pc /\ next.target = target /\ next.doc = doc
        /\ next.message = worker.message /\ next.items = worker.items
    BY <1>1 DEF Holder
  <2>3. Become(w, next) /\ UNCHANGED <<tickets, decisions, pending, made, chosen>>
    BY <1>3, ItemWays DEF Reads
  <2> HIDE DEF next
  <2>4. HolderOK(next, chosen)
    BY <1>1, <1>2, <1>3, <2>2, AbsentAssumption
       DEF HolderOK, Deciding, Splitting, Analyzing, Writing
  <2> QED
    BY <2>1, <2>3, <2>4, WorkerStep DEF IInv, Types
<1>4. ASSUME NEW t \in Stored(tickets)
      PROVE  /\ t \in TicketIds /\ t # NoTicket
             /\ tickets[t] \in Ticket /\ DocOK(t, tickets[t], chosen)
  BY DEF Stored, IInv, Types, TicketIds, NoTicket
<1>5. \A t \in Same(worker.message, worker.ordinal) : t \in Stored(tickets)
  BY DEF Same
<1> QED
  BY <1>2, <1>3, <1>4, <1>5, ItemWays, ItemDocs, FoundOK

\* The worker when the document of a request is stored.
LEMMA NextItemOK ==
    ASSUME NEW worker \in Holder, NEW ordinal \in Nat, NEW asked,
           worker.items # <<>>, worker.message # NoMessage
    PROVE  NextItem(worker, ordinal) \in Holder /\ HolderOK(NextItem(worker, ordinal), asked)
<1> DEFINE left == Tail(worker.items)
           next == [worker EXCEPT !.pc = "item", !.items = left, !.ordinal = ordinal,
                                  !.target = NoTicket, !.doc = Absent]
<1>1. left \in Seq(TicketIds \cup {NoTicket})
  <2>1. worker.items \in Seq(TicketIds \cup {NoTicket})
    BY DEF Holder
  <2> QED
    BY <2>1
<1>2. NextItem(worker, ordinal) = next
  BY DEF NextItem
<1> HIDE DEF left
<1>3. next \in Holder
  BY <1>1 DEF Holder, Places
<1>4. next.pc = "item" /\ next.message = worker.message
  BY DEF Holder
<1> HIDE DEF next
<1> QED
  BY <1>2, <1>3, <1>4 DEF HolderOK, Deciding, Splitting, Analyzing, Writing

LEMMA StoreItemStep ==
    ASSUME IInv, NEW w \in Workers, Attach(w) \/ WriteItem(w)
    PROVE  IInv'
<1> DEFINE worker == workers[w]
           id == IF worker.target = NoTicket THEN NewTicket ELSE worker.target
<1>1. worker \in Holder /\ HolderOK(worker, chosen) /\ worker.pc \in {"attach", "writeItem"}
  BY DEF Attach, WriteItem, IInv, Types
<1>2. worker.message # NoMessage /\ worker.ordinal \in Nat /\ worker.items # <<>>
  BY <1>1 DEF HolderOK, Analyzing, Holder
<1>3. worker.pc = "attach" => worker.target # NoTicket
  BY <1>1 DEF HolderOK
<1>4. PICK ordinal \in Nat : WriteTicket(w, id, worker.doc, NextItem(worker, ordinal))
  BY <1>1, <1>2, <1>3 DEF Attach, WriteItem
<1>5. worker.doc \in Ticket /\ id \in Nat /\ DocOK(id, worker.doc, chosen)
  BY <1>1, Storable DEF Writing
<1>6. NextItem(worker, ordinal) \in Holder /\ HolderOK(NextItem(worker, ordinal), chosen)
  BY <1>1, <1>2, NextItemOK
<1> HIDE DEF id
<1> QED
  BY <1>4, <1>5, <1>6, WriteStep

LEMMA StaleSteps ==
    ASSUME IInv, NEW w \in Workers, ReadStale(w) \/ \E t \in TicketIds : DeleteStale(w, t)
    PROVE  IInv'
<1> DEFINE worker == workers[w]
<1>1. /\ worker \in Holder /\ HolderOK(worker, chosen) /\ worker.pc \in {"item", "stale"}
      /\ worker.message # NoMessage
  BY DEF ReadStale, DeleteStale, IInv, Types, HolderOK, Analyzing
<1>2. ASSUME NEW todo \in SUBSET TicketIds
      PROVE  LET next == [worker EXCEPT !.pc = "stale", !.todo = todo]
             IN  next \in Holder /\ HolderOK(next, chosen)
  <2> DEFINE next == [worker EXCEPT !.pc = "stale", !.todo = todo]
  <2>1. next \in Holder
    BY <1>1 DEF Holder, Places
  <2>2. next.pc = "stale" /\ next.message = worker.message
    BY <1>1 DEF Holder
  <2> HIDE DEF next
  <2>3. HolderOK(next, chosen)
    BY <1>1, <2>2 DEF HolderOK, Deciding, Splitting, Analyzing, Writing
  <2> QED
    BY <2>1, <2>3 DEF next
<1>3. CASE ReadStale(w)
  <2>1. Stale(worker.message, worker.ordinal) \in SUBSET TicketIds
    BY DEF Stale, Stored, IInv, Types
  <2> QED
    BY <1>2, <1>3, <2>1, IdleOK, WorkerStep DEF ReadStale, IInv, Types
<1>4. ASSUME NEW t \in TicketIds, DeleteStale(w, t)
      PROVE  IInv'
  <2>1. /\ worker.pc = "stale" /\ tickets' = [tickets EXCEPT ![t] = Absent]
        /\ UNCHANGED <<decisions, pending, made, chosen>>
        /\ Become(w, IF worker.todo = {t} THEN Idle
                     ELSE [worker EXCEPT !.todo = worker.todo \ {t}])
    BY <1>4 DEF DeleteStale
  <2>2. /\ tickets' \in [TicketIds -> Ticket \cup {Absent}]
        /\ \A x \in TicketIds : tickets'[x] # Absent => tickets'[x] = tickets[x]
    BY <2>1 DEF IInv, Types
  <2>3. Bounded(tickets')
    BY <2>2 DEF IInv, Bounded
  <2> DEFINE left == worker.todo \ {t}
             next == [worker EXCEPT !.todo = left]
  <2>4. left \in SUBSET TicketIds
    BY <1>1 DEF Holder
  <2> HIDE DEF left
  <2>5. next \in Holder /\ next.pc = "stale" /\ next.message = worker.message
    BY <1>1, <2>1, <2>4 DEF Holder
  <2>6. Become(w, Idle) \/ Become(w, next)
    BY <2>1 DEF left
  <2> HIDE DEF next
  <2>7. HolderOK(next, chosen)
    BY <1>1, <2>5 DEF HolderOK, Deciding, Splitting, Analyzing, Writing
  <2>8. ASSUME NEW x \in Holder, HolderOK(x, chosen), Become(w, x)
        PROVE  IInv'
    BY <2>1, <2>2, <2>3, <2>8, StepOK DEF IInv, Types
  <2> QED
    BY <2>5, <2>6, <2>7, <2>8, IdleOK
<1> QED
  BY <1>3, <1>4

------------------------------------------------------------------------------
LEMMA InitOK == Init => IInv
<1> SUFFICES ASSUME Init PROVE IInv
  OBVIOUS
<1>1. Types
  <2>1. /\ tickets \in [TicketIds -> Ticket \cup {Absent}]
        /\ decisions \in [DecisionIds -> Decision \cup {Absent}]
        /\ pending \subseteq Messages /\ chosen \subseteq TicketIds \X TicketStatus
    BY DEF Init
  <2>2. made \in [tickets : 0 .. MaxTickets, decisions : 0 .. MaxDecisions]
    BY TicketsAssumption DEF Init
  <2>3. workers \in [Workers -> Holder]
    BY IdleOK DEF Init
  <2> QED
    BY <2>1, <2>2, <2>3 DEF Types
<1>2. (\A t \in TicketIds : tickets[t] = Absent) /\ (\A w \in Workers : workers[w] = Idle)
  BY DEF Init
<1> QED
  BY <1>1, <1>2, IdleOK DEF IInv, Bounded

LEMMA BeginStep ==
    ASSUME IInv, NEW w \in Workers, Begin(w)
    PROVE  IInv'
<1>1. Stored(tickets) \subseteq TicketIds /\ AnalysisText \in Texts /\ Proposals \subseteq Texts
  BY DEF Stored, IInv, Types, Texts
<1>2. {"link", "ignore", "clear", "create"} \subseteq TicketHandling \cup {"clear"}
  BY DEF TicketHandling
<1> QED
  BY <1>1, <1>2, DecideStep, DecisionReadStep, TicketReadStep, AnalyzeStep DEF Begin

LEMMA NextOK == IInv /\ [Next]_vars => IInv'
<1> SUFFICES ASSUME IInv, [Next]_vars PROVE IInv'
  OBVIOUS
<1>1. CASE UNCHANGED vars
  BY <1>1 DEF vars, IInv, Types, Bounded
<1>2. ASSUME NEW w \in Workers, Continue(w)
      PROVE  IInv'
  BY <1>2, RemoveStep, ReadTargetStep, ReadNumbersStep, WriteTargetStep, StoreDecisionStep,
     DeleteDecisionStep, SaveTicketStep, ReadForItemStep, StoreItemStep, StaleSteps
     DEF Continue
<1> QED
  BY <1>1, <1>2, BeginStep DEF Next

\* IInv holds in every state of the tickets.
THEOREM Invariance == Spec => []IInv
<1> QED
  BY InitOK, NextOK, PTL DEF Spec

\* Tickets, decisions and what every request and task holds have their types,
\* however they overlap.
THEOREM TicketsTypes == Spec => []TypeOK
<1>1. IInv => TypeOK
  <2> SUFFICES ASSUME IInv PROVE TypeOK
    OBVIOUS
  <2>1. \A w \in Workers : workers[w] \in Holder
    BY DEF IInv, Types
  <2> QED
    BY <2>1 DEF IInv, Types, Holder, TypeOK
<1> QED
  BY <1>1, Invariance, PTL

\* save_solution, attach and the repeated analysis store a status they read,
\* however long ago: it was active, or a person had asked for it.
THEOREM StatusIsChosen == Spec => []StatusWasChosen
<1>1. IInv => StatusWasChosen
  BY DEF IInv, Types, DocOK, StatusWasChosen, Stored
<1> QED
  BY <1>1, Invariance, PTL

\* A stored solution covers the messages of its ticket, whichever of the
\* attachment and the solution is saved last.
THEOREM SolutionsAreCurrent == Spec => []SolutionIsCurrent
<1>1. IInv => SolutionIsCurrent
  BY DEF IInv, Types, DocOK, SolutionIsCurrent, Stored
<1> QED
  BY <1>1, Invariance, PTL

=============================================================================
