------------------------ MODULE RequirementCards_proof ------------------------
(***************************************************************************)
(* Proofs about RequirementCards, for any cards, replies of the model and  *)
(* overlapping handlers: IInv is inductive.  Handlers overwrite each       *)
(* other's documents, so it is not enough that the stored cards are in     *)
(* order: every document a handler holds must be as well.                  *)
(***************************************************************************)
EXTENDS RequirementCards, TLAPS

\* A decision stands in the document's timeline as a person's.
Decided(doc) ==
    doc.status \in HumanOnly =>
        doc.history # <<>> /\ doc.history[Len(doc.history)].byHuman

InOrder(doc) == doc.project # NoProject => Explained(doc) /\ Decided(doc)

CardsInOrder == \A c \in Cards : cards[c] # Absent => InOrder(cards[c])

\* A judged item no longer proposes what only people decide, and the card it
\* names was read.
ItemOK(item, seen) ==
    /\ item.proposedStatus \in LLM_PROPOSABLE
    /\ item.existingId \in Cards => seen[item.existingId] # Absent

WorkerOK(worker) ==
    /\ worker.pc = "save" => /\ worker.card \in Cards
                             /\ worker.doc \in Card
                             /\ InOrder(worker.doc)
    /\ worker.pc \in {"model", "merge", "known", "create"} => worker.project \in Projects
    /\ worker.pc \in {"model", "merge"} =>
         \A c \in Cards : worker.seen[c] # Absent => InOrder(worker.seen[c])
    /\ worker.pc = "merge" =>
         /\ worker.items # <<>>
         /\ \A i \in DOMAIN worker.items : ItemOK(worker.items[i], worker.seen)

IInv ==
    /\ CardsTypeOK
    /\ CardsInOrder
    /\ \A w \in Workers : WorkerOK(workers[w])

------------------------------------------------------------------------------
(* The rules for statuses                                                  *)

\* The demotion of what the model may propose is something it may propose.
LEMMA DemoteIsProposable ==
    ASSUME NEW current, NEW proposed \in LLM_PROPOSABLE
    PROVE  Demote(current, proposed) \in LLM_PROPOSABLE
  BY DEF Demote, LLM_PROPOSABLE

LEMMA ProposableIsNotHuman ==
    /\ LLM_PROPOSABLE \subseteq RequirementStatus
    /\ LLM_PROPOSABLE \cap HumanOnly = {}
  BY DEF LLM_PROPOSABLE, RequirementStatus, HumanOnly

------------------------------------------------------------------------------
(* Documents                                                               *)

LEMMA AppendEntry ==
    ASSUME NEW h \in Seq(StatusChange), NEW e \in StatusChange
    PROVE  /\ Append(h, e) \in Seq(StatusChange)
           /\ Append(h, e) # <<>>
           /\ Len(Append(h, e)) = Len(h) + 1
           /\ DOMAIN Append(h, e) = 1 .. Len(h) + 1
           /\ \A i \in 1 .. Len(h) : Append(h, e)[i] = h[i]
           /\ Append(h, e)[Len(h) + 1] = e
  OBVIOUS

\* A document stays in order when an entry from its status to the new one is
\* appended, by a person or for a status anybody may set.
LEMMA ExtendedInOrder ==
    ASSUME NEW doc \in Card, NEW next \in Card, NEW to \in RequirementStatus,
           NEW human \in BOOLEAN,
           InOrder(doc), human \/ to \notin HumanOnly,
           next.project = doc.project, next.source = doc.source, next.status = to,
           next.history = Append(doc.history,
                                 [from |-> doc.status, to |-> to, byHuman |-> human])
    PROVE  InOrder(next)
<1> DEFINE h == doc.history
           e == [from |-> doc.status, to |-> to, byHuman |-> human]
           start == IF doc.source = NoRequest THEN NoStatus ELSE "requested"
<1>1. h \in Seq(StatusChange) /\ doc.status \in RequirementStatus
  BY DEF Card
<1>2. e \in StatusChange
  BY <1>1 DEF StatusChange
<1>3. /\ next.history # <<>>
      /\ Len(next.history) = Len(h) + 1
      /\ DOMAIN next.history = 1 .. Len(h) + 1
      /\ \A i \in 1 .. Len(h) : next.history[i] = h[i]
      /\ next.history[Len(h) + 1] = e
  BY <1>1, <1>2, AppendEntry
<1>4. e.from = doc.status /\ e.to = to /\ e.byHuman = human
  OBVIOUS
<1> HIDE DEF e
<1>5. ASSUME doc.project # NoProject
      PROVE  Explained(next)
  <2>1. /\ \A i \in DOMAIN h : h[i].from = IF i = 1 THEN start ELSE h[i - 1].to
        /\ doc.status = IF h = <<>> THEN start ELSE h[Len(h)].to
    BY <1>5 DEF InOrder, Explained
  <2>2. DOMAIN h = 1 .. Len(h) /\ Len(h) \in Nat /\ (h = <<>> <=> Len(h) = 0)
    BY <1>1
  <2>3. ASSUME NEW i \in 1 .. Len(h) + 1
        PROVE  next.history[i].from = IF i = 1 THEN start ELSE next.history[i - 1].to
    <3>1. CASE i \in 1 .. Len(h)
      <4>1. next.history[i] = h[i] /\ i \in DOMAIN h
        BY <3>1, <2>2, <1>3
      <4>2. i # 1 => i - 1 \in 1 .. Len(h)
        BY <3>1, <2>2
      <4>3. i # 1 => next.history[i - 1] = h[i - 1]
        BY <4>2, <1>3
      <4> QED
        BY <4>1, <4>3, <2>1
    <3>2. CASE i = Len(h) + 1
      BY <3>2, <2>1, <2>2, <1>3, <1>4
    <3> QED
      BY <3>1, <3>2, <2>2
  <2> QED
    BY <2>3, <1>3, <1>4 DEF Explained
<1>6. Decided(next)
  BY <1>3, <1>4 DEF Decided
<1> QED
  BY <1>5, <1>6 DEF InOrder

\* What a person's transition writes.
LEMMA MovedInOrder ==
    ASSUME NEW doc \in Card, NEW to \in RequirementStatus,
           NEW d \in Decisions \cup {NoDecision}, InOrder(doc)
    PROVE  Moved(doc, to, d) \in Card /\ InOrder(Moved(doc, to, d))
<1> DEFINE e == [from |-> doc.status, to |-> to, byHuman |-> TRUE]
           next == Moved(doc, to, d)
<1>1. /\ next.project = doc.project
      /\ next.source = doc.source
      /\ next.status = to
      /\ next.history = Append(doc.history, e)
  BY DEF Moved, Decide, Card
<1>2. e \in StatusChange
  BY DEF StatusChange, Card
<1>3. Append(doc.history, e) \in Seq(StatusChange)
  BY <1>2, AppendEntry DEF Card
<1>4. next \in Card
  BY <1>3 DEF Moved, Decide, Card
<1> QED
  BY <1>1, <1>4, ExtendedInOrder

\* What one item of the model's reply makes of a card.
LEMMA MergedInOrder ==
    ASSUME NEW doc \in Card, NEW item,
           item.proposedStatus \in LLM_PROPOSABLE,
           item.proposedDecision \in Decisions \cup {NoDecision}, InOrder(doc)
    PROVE  Merged(doc, item) \in Card /\ InOrder(Merged(doc, item))
<1> DEFINE to == item.proposedStatus
           e == [from |-> doc.status, to |-> to, byHuman |-> FALSE]
           next == Merged(doc, item)
<1>1. to \in RequirementStatus /\ to \notin HumanOnly
  BY ProposableIsNotHuman
<1>2. /\ next.project = doc.project
      /\ next.source = doc.source
      /\ next.status = to
      /\ next.history = IF doc.status = to THEN doc.history ELSE Append(doc.history, e)
  BY DEF Merged, Card
<1>3. e \in StatusChange
  BY <1>1 DEF StatusChange, Card
<1>4. Append(doc.history, e) \in Seq(StatusChange)
  BY <1>3, AppendEntry DEF Card
<1>5. next \in Card
  BY <1>1, <1>4 DEF Merged, Card
<1>6. ASSUME doc.status = to PROVE InOrder(next)
  <2>1. /\ next.history = doc.history /\ next.status = doc.status
        /\ next.source = doc.source /\ next.project = doc.project
    BY <1>2, <1>6
  <2>2. next.status \notin HumanOnly
    BY <1>1, <1>2
  <2> HIDE DEF next
  <2>3. Explained(doc) => Explained(next)
    BY <2>1 DEF Explained
  <2>4. Decided(next)
    BY <2>2 DEF Decided
  <2> QED
    BY <2>1, <2>3, <2>4 DEF InOrder
<1>7. ASSUME doc.status # to PROVE InOrder(next)
  BY <1>1, <1>2, <1>5, <1>7, ExtendedInOrder
<1> QED
  BY <1>5, <1>6, <1>7

------------------------------------------------------------------------------
(* Steps                                                                   *)

\* It is enough to look at the card and the handler a step changes.
LEMMA HandlerStep ==
    ASSUME IInv, NEW w \in Workers, NEW worker \in Worker, WorkerOK(worker),
           workers' = [workers EXCEPT ![w] = worker],
           UNCHANGED flagged,
           \/ UNCHANGED cards
           \/ \E c \in Cards, doc \in Card :
                InOrder(doc) /\ cards' = [cards EXCEPT ![c] = doc]
    PROVE  IInv'
<1> USE DEF IInv
<1>1. \A v \in Workers : WorkerOK(workers'[v])
  BY DEF CardsTypeOK
<1>2. cards' \in [Cards -> Card \cup {Absent}] /\ CardsInOrder'
  BY DEF CardsTypeOK, CardsInOrder
<1>3. CardsTypeOK'
  BY <1>2 DEF CardsTypeOK
<1> QED
  BY <1>1, <1>2, <1>3

LEMMA IdleOK == IdleWorker \in Worker /\ IdleWorker.pc = "idle" /\ WorkerOK(IdleWorker)
  BY DEF IdleWorker, Worker, WorkerOK

\* A handler that ends after its last write, or without one.
LEMMA FinishStep ==
    ASSUME IInv, NEW w \in Workers, Finish(w), UNCHANGED flagged,
           \/ UNCHANGED cards
           \/ \E c \in Cards, doc \in Card :
                InOrder(doc) /\ cards' = [cards EXCEPT ![c] = doc]
    PROVE  IInv'
  BY IdleOK, HandlerStep DEF Finish

LEMMA TransitionRead ==
    ASSUME IInv, NEW w \in Workers, NEW c \in Cards, NEW to \in RequirementStatus,
           NEW d \in Decisions \cup {NoDecision},
           ReadForTransition(w, c, to, d) \/ ReadForChangeStatus(w, c, to, d)
    PROVE  IInv'
<1>1. cards[c] \in Card /\ InOrder(cards[c])
  BY DEF ReadForTransition, ReadForChangeStatus, IInv, CardsTypeOK, CardsInOrder
<1> DEFINE Holding(doc) == [IdleWorker EXCEPT !.pc = "save", !.card = c, !.doc = doc]
<1>2. ASSUME NEW doc \in Card, InOrder(doc)
      PROVE  Holding(doc) \in Worker /\ WorkerOK(Holding(doc))
  <2>1. Holding(doc) \in Worker
    BY IdleOK DEF Worker
  <2>2. Holding(doc).pc = "save" /\ Holding(doc).card = c /\ Holding(doc).doc = doc
    BY DEF IdleWorker
  <2> QED
    BY <1>2, <2>1, <2>2 DEF WorkerOK
<1>3. CASE ReadForTransition(w, c, to, d)
  <2> DEFINE doc == Moved(cards[c], to, d)
  <2>1. doc \in Card /\ InOrder(doc)
    BY <1>1, MovedInOrder
  <2>2. workers' = [workers EXCEPT ![w] = Holding(doc)] /\ UNCHANGED <<cards, flagged>>
    BY <1>3 DEF ReadForTransition
  <2> HIDE DEF doc, Holding
  <2> QED
    BY <1>2, <2>1, <2>2, HandlerStep
<1>4. CASE ReadForChangeStatus(w, c, to, d)
  <2> DEFINE doc == Decide(cards[c], to, d)
  <2>1. doc \in Card /\ doc.project = NoProject
    BY <1>1, <1>4 DEF ReadForChangeStatus, Decide, Card
  <2>2. workers' = [workers EXCEPT ![w] = Holding(doc)] /\ UNCHANGED <<cards, flagged>>
    BY <1>4 DEF ReadForChangeStatus
  <2>3. InOrder(doc)
    BY <2>1 DEF InOrder
  <2> HIDE DEF doc, Holding
  <2> QED
    BY <1>2, <2>1, <2>2, <2>3, HandlerStep
<1> QED
  BY <1>3, <1>4

LEMMA Saved ==
    ASSUME IInv, NEW w \in Workers, SaveCard(w)
    PROVE  IInv'
<1>1. WorkerOK(workers[w]) /\ workers[w].pc = "save"
  BY DEF IInv, SaveCard
<1> QED
  BY <1>1, FinishStep DEF SaveCard, WorkerOK

LEMMA AnalysisRead ==
    ASSUME IInv, NEW w \in Workers, NEW p \in Projects, AnalyzeRead(w, p)
    PROVE  IInv'
<1> DEFINE worker == [IdleWorker EXCEPT !.pc = "model", !.project = p, !.seen = CardsOf(p)]
<1>1. /\ CardsOf(p) \in [Cards -> Card \cup {Absent}]
      /\ \A c \in Cards : CardsOf(p)[c] # Absent => InOrder(CardsOf(p)[c])
  BY DEF CardsOf, IInv, CardsTypeOK, CardsInOrder
<1>2. worker \in Worker
  BY <1>1, IdleOK DEF Worker
<1>3. worker.pc = "model" /\ worker.project = p /\ worker.seen = CardsOf(p)
  BY DEF IdleWorker
<1>4. UNCHANGED <<cards, flagged>> /\ workers' = [workers EXCEPT ![w] = worker]
  BY DEF AnalyzeRead
<1> HIDE DEF worker
<1>5. WorkerOK(worker)
  BY <1>1, <1>3 DEF WorkerOK
<1> QED
  BY <1>2, <1>4, <1>5, HandlerStep

LEMMA Answered ==
    ASSUME IInv, NEW w \in Workers, NEW reply \in Replies, ModelReplies(w, reply)
    PROVE  IInv'
<1>1. CASE reply = <<>>
  BY <1>1, IdleOK, HandlerStep DEF ModelReplies
<1>2. CASE reply # <<>>
  <2> DEFINE old == workers[w]
             items == [i \in DOMAIN reply |-> Judge(reply[i], old.seen)]
             worker == [old EXCEPT !.pc = "merge", !.items = items]
             Item == [existingId : Cards \cup {NoCard}, title : Titles,
                      proposedStatus : RequirementStatus,
                      proposedDecision : Decisions \cup {NoDecision}]
  <2>1. reply \in Seq(ReplyItem) /\ DOMAIN reply = 1 .. Len(reply) /\ Len(reply) \in Nat
    BY InputsAssumption
  <2>2. old \in Worker /\ WorkerOK(old) /\ old.pc = "model"
    BY DEF IInv, CardsTypeOK, ModelReplies
  <2>3. ASSUME NEW item \in ReplyItem
        PROVE  Judge(item, old.seen) \in Item /\ ItemOK(Judge(item, old.seen), old.seen)
    <3> DEFINE known == item.existingId \in Cards /\ old.seen[item.existingId] # Absent
               current == IF known THEN old.seen[item.existingId].status ELSE "unconfirmed"
               judged == Judge(item, old.seen)
    <3>1. Demote(current, item.proposedStatus) \in LLM_PROPOSABLE
      BY DemoteIsProposable DEF ReplyItem
    <3>2. /\ judged.existingId = IF known THEN item.existingId ELSE NoCard
          /\ judged.proposedStatus = Demote(current, item.proposedStatus)
      BY DEF Judge, ReplyItem
    <3>3. judged \in Item
      BY <3>1, ProposableIsNotHuman DEF Judge, ReplyItem
    <3>4. ItemOK(judged, old.seen)
      BY <3>1, <3>2, CardsAssumption DEF ItemOK
    <3> QED
      BY <3>3, <3>4
  <2>4. /\ items \in Seq(Item) /\ items # <<>>
        /\ \A i \in DOMAIN items : ItemOK(items[i], old.seen)
    <3>1. \A i \in 1 .. Len(reply) : reply[i] \in ReplyItem
      BY <2>1
    <3> HIDE DEF Item
    <3> QED
      BY <1>2, <2>1, <2>3, <3>1
  <2>5. worker \in Worker
    BY <2>2, <2>4 DEF Worker
  <2>6. /\ worker.pc = "merge" /\ worker.items = items
        /\ worker.seen = old.seen /\ worker.project = old.project
    BY <2>2 DEF Worker
  <2>7. UNCHANGED <<cards, flagged>> /\ workers' = [workers EXCEPT ![w] = worker]
    BY <1>2 DEF ModelReplies
  <2> HIDE DEF worker, items, old
  <2>8. WorkerOK(worker)
    BY <2>2, <2>4, <2>6 DEF WorkerOK
  <2> QED
    BY <2>5, <2>7, <2>8, HandlerStep
<1> QED
  BY <1>1, <1>2

LEMMA RestOfItems ==
    ASSUME NEW S, NEW q \in Seq(S), q # <<>>
    PROVE  /\ Tail(q) \in Seq(S)
           /\ \A i \in DOMAIN Tail(q) : i + 1 \in DOMAIN q /\ Tail(q)[i] = q[i + 1]
<1>1. Tail(q) \in Seq(S) /\ DOMAIN Tail(q) = 1 .. Len(q) - 1
  OBVIOUS
<1>2. \A i \in 1 .. Len(q) - 1 : i + 1 \in DOMAIN q /\ Tail(q)[i] = q[i + 1]
  OBVIOUS
<1> QED
  BY <1>1, <1>2

\* An item is done: the handler goes on with copies that are in order.
LEMMA NextItemStep ==
    ASSUME IInv, NEW w \in Workers, workers[w].pc = "merge",
           NEW seen \in [Cards -> Card \cup {Absent}],
           \A c \in Cards : workers[w].seen[c] # Absent => seen[c] # Absent,
           \A c \in Cards : seen[c] # Absent => InOrder(seen[c]),
           NextItem(w, seen), UNCHANGED flagged,
           \E c \in Cards, doc \in Card :
              InOrder(doc) /\ cards' = [cards EXCEPT ![c] = doc]
    PROVE  IInv'
<1> DEFINE old == workers[w]
           left == Tail(old.items)
           next == [old EXCEPT !.items = left, !.seen = seen]
           worker == IF left = <<>> THEN IdleWorker ELSE next
<1>1. old \in Worker /\ WorkerOK(old) /\ old.pc = "merge"
  BY DEF IInv, CardsTypeOK
<1>2. workers' = [workers EXCEPT ![w] = worker]
  BY DEF NextItem
<1>3. ASSUME left # <<>>
      PROVE  next \in Worker /\ WorkerOK(next)
  <2> DEFINE Item == [existingId : Cards \cup {NoCard}, title : Titles,
                      proposedStatus : RequirementStatus,
                      proposedDecision : Decisions \cup {NoDecision}]
  <2>1. /\ old.items \in Seq(Item) /\ old.items # <<>>
        /\ \A i \in DOMAIN old.items : ItemOK(old.items[i], old.seen)
    BY <1>1 DEF Worker, WorkerOK
  <2>2. /\ left \in Seq(Item)
        /\ \A i \in DOMAIN left : i + 1 \in DOMAIN old.items /\ left[i] = old.items[i + 1]
    <3> HIDE DEF Item
    <3> QED
      BY <2>1, RestOfItems
  <2>3. next \in Worker
    BY <1>1, <2>2 DEF Worker
  <2>4. /\ next.pc = "merge" /\ next.project = old.project
        /\ next.seen = seen /\ next.items = left
    BY <1>1 DEF Worker
  <2>5. \A i \in DOMAIN left : ItemOK(left[i], seen)
    BY <2>1, <2>2 DEF ItemOK
  <2>6. old.project \in Projects
    BY <1>1 DEF WorkerOK
  <2> HIDE DEF next, left
  <2> QED
    BY <1>3, <2>3, <2>4, <2>5, <2>6 DEF WorkerOK
<1>4. worker \in Worker /\ WorkerOK(worker)
  BY <1>3, IdleOK
<1> HIDE DEF worker
<1> QED
  BY <1>2, <1>4, HandlerStep

\* The item a merging handler is at.
LEMMA HeadItem ==
    ASSUME IInv, NEW w \in Workers, workers[w].pc = "merge"
    PROVE  LET item == Head(workers[w].items)
           IN  /\ item \in [existingId : Cards \cup {NoCard}, title : Titles,
                            proposedStatus : RequirementStatus,
                            proposedDecision : Decisions \cup {NoDecision}]
               /\ ItemOK(item, workers[w].seen)
<1> DEFINE old == workers[w]
           Item == [existingId : Cards \cup {NoCard}, title : Titles,
                    proposedStatus : RequirementStatus,
                    proposedDecision : Decisions \cup {NoDecision}]
<1>1. /\ old.items \in Seq(Item) /\ old.items # <<>>
      /\ \A i \in DOMAIN old.items : ItemOK(old.items[i], old.seen)
  BY DEF IInv, CardsTypeOK, Worker, WorkerOK
<1> HIDE DEF Item
<1>2. Head(old.items) = old.items[1] /\ 1 \in DOMAIN old.items /\ old.items[1] \in Item
  BY <1>1
<1> QED
  BY <1>1, <1>2 DEF Item

LEMMA MergedIntoCard ==
    ASSUME IInv, NEW w \in Workers, NEW c \in Cards, MergeIntoCard(w, c)
    PROVE  IInv'
<1> DEFINE old == workers[w]
           item == Head(old.items)
           doc == Merged(old.seen[c], item)
           seen == [old.seen EXCEPT ![c] = doc]
<1>1. old.pc = "merge" /\ c \in Matches(item, old.seen)
  BY DEF MergeIntoCard
<1>2. old \in Worker /\ WorkerOK(old)
  BY DEF IInv, CardsTypeOK
<1>3. /\ item.proposedDecision \in Decisions \cup {NoDecision}
      /\ item.existingId \in Cards \cup {NoCard}
      /\ ItemOK(item, old.seen)
  BY <1>1, HeadItem
<1>4. old.seen[c] # Absent
  BY <1>1, <1>3, CardsAssumption DEF Matches, ItemOK
<1>5. old.seen \in [Cards -> Card \cup {Absent}] /\ InOrder(old.seen[c])
  BY <1>1, <1>2, <1>4 DEF Worker, WorkerOK
<1>6. old.seen[c] \in Card
  BY <1>4, <1>5
<1>7. doc \in Card /\ InOrder(doc)
  BY <1>3, <1>5, <1>6, MergedInOrder DEF ItemOK
<1>8. UNCHANGED flagged /\ NextItem(w, seen) /\ cards' = [cards EXCEPT ![c] = doc]
  BY DEF MergeIntoCard
<1>9. doc # Absent
  BY <1>7, CardsAssumption
<1>10. \A x \in Cards : old.seen[x] # Absent => InOrder(old.seen[x])
  BY <1>1, <1>2 DEF WorkerOK
<1> HIDE DEF doc
<1>11. /\ seen \in [Cards -> Card \cup {Absent}]
       /\ \A x \in Cards : old.seen[x] # Absent => seen[x] # Absent
       /\ \A x \in Cards : seen[x] # Absent => InOrder(seen[x])
  BY <1>5, <1>7, <1>9, <1>10
<1> HIDE DEF seen
<1> QED
  BY <1>1, <1>7, <1>8, <1>11, NextItemStep

LEMMA MergedAsNew ==
    ASSUME IInv, NEW w \in Workers, NEW c \in Cards, MergeAsNew(w, c)
    PROVE  IInv'
<1> DEFINE old == workers[w]
           item == Head(old.items)
           entry == [from |-> NoStatus, to |-> item.proposedStatus, byHuman |-> FALSE]
           doc == [project |-> old.project, title |-> item.title,
                   status |-> item.proposedStatus,
                   ai |-> item.proposedDecision, decision |-> NoDecision,
                   history |-> <<entry>>, source |-> NoRequest]
<1>1. old.pc = "merge"
  BY DEF MergeAsNew
<1>2. old \in Worker /\ WorkerOK(old)
  BY DEF IInv, CardsTypeOK
<1>3. /\ item.title \in Titles
      /\ item.proposedDecision \in Decisions \cup {NoDecision}
      /\ item.proposedStatus \in RequirementStatus
      /\ item.proposedStatus \notin HumanOnly
  BY <1>1, HeadItem, ProposableIsNotHuman DEF ItemOK
<1>4. entry \in StatusChange
  BY <1>3 DEF StatusChange
<1>5. <<entry>> \in Seq(StatusChange)
  BY <1>4
<1>6. doc \in Card
  BY <1>1, <1>2, <1>3, <1>5 DEF Card, WorkerOK
<1>7. InOrder(doc)
  BY <1>3 DEF InOrder, Explained, Decided
<1>8. UNCHANGED flagged /\ NextItem(w, old.seen) /\ cards' = [cards EXCEPT ![c] = doc]
  BY DEF MergeAsNew
<1>9. /\ old.seen \in [Cards -> Card \cup {Absent}]
      /\ \A x \in Cards : old.seen[x] # Absent => InOrder(old.seen[x])
  BY <1>1, <1>2 DEF Worker, WorkerOK
<1> HIDE DEF doc
<1> QED
  BY <1>1, <1>6, <1>7, <1>8, <1>9, NextItemStep

LEMMA SyncSteps ==
    ASSUME IInv, NEW w \in Workers,
           \/ \E p \in Projects : SyncReadRequests(w, p)
           \/ SyncReadCards(w)
    PROVE  IInv'
<1>1. ASSUME NEW p \in Projects, SyncReadRequests(w, p)
      PROVE  IInv'
  <2> DEFINE promoted == {r \in flagged : RequestOf[r].project = p}
             worker == [IdleWorker EXCEPT !.pc = "known", !.project = p, !.todo = promoted]
  <2>1. worker \in Worker
    BY IdleOK DEF Worker, IInv, CardsTypeOK
  <2>2. worker.pc = "known" /\ worker.project = p
    BY DEF IdleWorker
  <2>3. UNCHANGED <<cards, flagged>> /\ workers' = [workers EXCEPT ![w] = worker]
    BY <1>1 DEF SyncReadRequests
  <2> HIDE DEF worker
  <2>4. WorkerOK(worker)
    BY <2>2 DEF WorkerOK
  <2> QED
    BY <2>1, <2>3, <2>4, HandlerStep
<1>2. CASE SyncReadCards(w)
  <2> DEFINE old == workers[w]
             todo == old.todo \ Known(old.project)
             worker == [old EXCEPT !.pc = "create", !.todo = todo]
  <2>1. UNCHANGED <<cards, flagged>>
    BY <1>2 DEF SyncReadCards
  <2>2. CASE todo = {}
    BY <1>2, <2>1, <2>2, FinishStep DEF SyncReadCards
  <2>3. CASE todo # {}
    <3>1. old \in Worker /\ WorkerOK(old) /\ old.pc = "known"
      BY <1>2 DEF SyncReadCards, IInv, CardsTypeOK
    <3>2. worker \in Worker
      BY <3>1 DEF Worker
    <3>3. worker.pc = "create" /\ worker.project = old.project
      BY <3>1 DEF Worker
    <3>4. workers' = [workers EXCEPT ![w] = worker]
      BY <1>2, <2>3, <3>1 DEF SyncReadCards, IInv, CardsTypeOK
    <3> HIDE DEF worker
    <3>5. WorkerOK(worker)
      BY <3>1, <3>3 DEF WorkerOK
    <3> QED
      BY <2>1, <3>2, <3>4, <3>5, HandlerStep
  <2> QED
    BY <2>2, <2>3
<1> QED
  BY <1>1, <1>2

LEMMA SyncCreates ==
    ASSUME IInv, NEW w \in Workers, NEW r \in Requests, NEW c \in Cards, SyncCreate(w, r, c)
    PROVE  IInv'
<1> DEFINE old == workers[w]
           doc == [project |-> old.project, title |-> RequestOf[r].title,
                   status |-> "requested", ai |-> NoDecision,
                   decision |-> NoDecision, history |-> <<>>, source |-> r]
           worker == [old EXCEPT !.todo = old.todo \ {r}]
<1>1. old \in Worker /\ WorkerOK(old) /\ old.pc = "create"
  BY DEF SyncCreate, IInv, CardsTypeOK
<1>2. UNCHANGED flagged /\ cards' = [cards EXCEPT ![c] = doc]
  BY DEF SyncCreate
<1>3. doc \in Card
  BY <1>1, InputsAssumption DEF Card, WorkerOK, RequirementStatus
<1>4. r # NoRequest /\ doc.source = r /\ doc.status = "requested" /\ doc.history = <<>>
  BY CardsAssumption
<1> HIDE DEF doc
<1>5. Explained(doc)
  BY <1>4 DEF Explained
<1>6. Decided(doc)
  BY <1>4 DEF Decided, HumanOnly
<1>7. InOrder(doc)
  BY <1>5, <1>6 DEF InOrder
<1>8. CASE old.todo = {r}
  BY <1>2, <1>3, <1>7, <1>8, FinishStep DEF SyncCreate
<1>9. CASE old.todo # {r}
  <2>1. worker \in Worker
    BY <1>1 DEF Worker
  <2>2. worker.pc = "create" /\ worker.project = old.project
    BY <1>1 DEF Worker
  <2>3. workers' = [workers EXCEPT ![w] = worker]
    BY <1>1, <1>9 DEF SyncCreate, IInv, CardsTypeOK
  <2> HIDE DEF worker
  <2>4. WorkerOK(worker)
    BY <1>1, <2>2 DEF WorkerOK
  <2> QED
    BY <1>2, <1>3, <1>7, <2>1, <2>3, <2>4, HandlerStep
<1> QED
  BY <1>8, <1>9

LEMMA InitOK == CardsInit => IInv
<1> SUFFICES ASSUME NEW t \in Titles, NEW old \in SUBSET LegacyCards,
                    cards = [c \in Cards |-> IF c \in old THEN LegacyCard(t) ELSE Absent],
                    flagged = {}, workers = [w \in Workers |-> IdleWorker]
             PROVE  IInv
  BY DEF CardsInit
<1>1. LegacyCard(t) \in Card /\ LegacyCard(t).project = NoProject
  BY DEF LegacyCard, Card, RequirementStatus
<1> QED
  BY <1>1, IdleOK DEF IInv, CardsTypeOK, CardsInOrder, InOrder

LEMMA NextOK == IInv /\ [CardsNext]_cardVars => IInv'
<1> SUFFICES ASSUME IInv, [CardsNext]_cardVars PROVE IInv'
  OBVIOUS
<1>1. ASSUME NEW w \in Workers, CardHandler(w) PROVE IInv'
  <2>1. CASE Abandon(w)
    BY <2>1, FinishStep DEF Abandon
  <2> QED
    BY <1>1, <2>1, TransitionRead, Saved, AnalysisRead, Answered, MergedIntoCard,
       MergedAsNew, SyncSteps, SyncCreates DEF CardHandler
<1>2. ASSUME NEW r \in Requests, FlagRequest(r) PROVE IInv'
  BY <1>2 DEF FlagRequest, IInv, CardsTypeOK, CardsInOrder
<1>3. CASE UNCHANGED cardVars
  BY <1>3 DEF cardVars, IInv, CardsTypeOK, CardsInOrder
<1> QED
  BY <1>1, <1>2, <1>3 DEF CardsNext

\* Every document, stored or held by a handler, has a timeline that explains
\* it, whichever handlers overlap.
THEOREM Invariance == CardsSpec => []IInv
  BY InitOK, NextOK, PTL DEF CardsSpec

------------------------------------------------------------------------------
(* The properties                                                          *)

\* The handlers keep the fields of Requirement and of what they hold between
\* their reads and their saves.
THEOREM CardsTypes == CardsSpec => []CardsTypeOK
<1>1. IInv => CardsTypeOK
  BY DEF IInv
<1> QED
  BY <1>1, Invariance, PTL

\* However transitions, analyses and the cards for extra requests overwrite
\* each other's documents (api/projects.py, api/analyze.py), the timeline of
\* a project's card leads to its status.
THEOREM HistoryAlwaysExplains == CardsSpec => []HistoryExplainsStatus
<1>1. IInv => HistoryExplainsStatus
  BY DEF IInv, CardsInOrder, InOrder, HistoryExplainsStatus
<1> QED
  BY <1>1, Invariance, PTL

\* No reply of the model, whatever it proposes and however late it is merged,
\* makes a card agreed, rejected or done: a person's entry ends its timeline.
THEOREM PeopleDecide == CardsSpec => []OnlyPeopleDecide
<1>1. IInv => OnlyPeopleDecide
  BY DEF IInv, CardsInOrder, InOrder, Decided, OnlyPeopleDecide
<1> QED
  BY <1>1, Invariance, PTL

\* A handler that makes a card writes where there was none, and then goes on
\* with what it held or ends.
LEMMA MakesCard ==
    ASSUME IInv, NEW w \in Workers, NEW c \in Cards,
           MergeAsNew(w, c) \/ \E r \in Requests : SyncCreate(w, r, c)
    PROVE  LET old == workers[w]
           IN  /\ old \in Worker /\ old.pc \in {"merge", "create"}
               /\ cards[c] = Absent
               /\ \E doc : cards' = [cards EXCEPT ![c] = doc]
               /\ \E worker : /\ workers' = [workers EXCEPT ![w] = worker]
                              /\ \/ worker = IdleWorker
                                 \/ worker.pc = old.pc /\ worker.seen = old.seen
<1> DEFINE old == workers[w]
<1>1. cards[c] = Absent /\ \E doc : cards' = [cards EXCEPT ![c] = doc]
  BY Zenon DEF MergeAsNew, SyncCreate
<1>2. old \in Worker /\ old.pc \in {"merge", "create"}
  BY DEF IInv, CardsTypeOK, MergeAsNew, SyncCreate
<1>3. \E worker : /\ workers' = [workers EXCEPT ![w] = worker]
                    /\ \/ worker = IdleWorker
                       \/ worker.pc = old.pc /\ worker.seen = old.seen
  <2>1. CASE MergeAsNew(w, c)
    <3> DEFINE next == [old EXCEPT !.items = Tail(old.items), !.seen = old.seen]
    <3>1. next.pc = old.pc /\ next.seen = old.seen
      BY <1>2 DEF Worker
    <3>2. \/ workers' = [workers EXCEPT ![w] = IdleWorker]
          \/ workers' = [workers EXCEPT ![w] = next]
      BY <2>1 DEF MergeAsNew, NextItem
    <3> QED
      BY <3>1, <3>2
  <2>2. ASSUME NEW r \in Requests, SyncCreate(w, r, c)
        PROVE  \E worker : /\ workers' = [workers EXCEPT ![w] = worker]
                           /\ \/ worker = IdleWorker
                              \/ worker.pc = old.pc /\ worker.seen = old.seen
    <3> DEFINE next == [old EXCEPT !.todo = old.todo \ {r}]
    <3>1. next.pc = old.pc /\ next.seen = old.seen
      BY <1>2 DEF Worker
    <3>2. \/ workers' = [workers EXCEPT ![w] = IdleWorker]
          \/ workers' = [workers EXCEPT ![w] = next]
      BY <2>2 DEF SyncCreate, Finish, IInv, CardsTypeOK
    <3> QED
      BY <3>1, <3>2
  <2> QED
    BY <2>1, <2>2
<1> QED
  BY <1>1, <1>2, <1>3

------------------------------------------------------------------------------
(* What a save keeps                                                       *)

\* The same card, whatever became of its status and its figures.
SameCard(c, doc) ==
    /\ cards[c] # Absent
    /\ doc.project = cards[c].project
    /\ doc.title = cards[c].title
    /\ doc.source = cards[c].source

\* A handler's copies are copies of the cards they will be saved over.
CopyOK(worker) ==
    /\ worker.pc = "save" => worker.card \in Cards /\ SameCard(worker.card, worker.doc)
    /\ worker.pc \in {"model", "merge"} =>
         \A c \in Cards : worker.seen[c] # Absent => SameCard(c, worker.seen[c])

CopiesOK == \A w \in Workers : CopyOK(workers[w])

\* A step writes no card, one over itself, or a new one.
CardSaved ==
    \E c \in Cards, doc \in Card : SameCard(c, doc) /\ cards' = [cards EXCEPT ![c] = doc]

CardMade ==
    \E c \in Cards, doc \in Card : cards[c] = Absent /\ cards' = [cards EXCEPT ![c] = doc]

CardWritten == UNCHANGED cards \/ CardSaved \/ CardMade

LEMMA CopyStep ==
    ASSUME IInv, CopiesOK, CardWritten, NEW w \in Workers, NEW worker,
           workers' = [workers EXCEPT ![w] = worker], CopyOK(worker)
    PROVE  CopiesOK'
<1>1. ASSUME NEW c \in Cards, cards[c] # Absent
      PROVE  /\ cards'[c] # Absent
             /\ cards'[c].project = cards[c].project
             /\ cards'[c].title = cards[c].title
             /\ cards'[c].source = cards[c].source
  BY <1>1, CardsAssumption DEF CardWritten, CardSaved, CardMade, SameCard, IInv, CardsTypeOK
<1>2. ASSUME NEW v \in Workers PROVE CopyOK(workers[v])'
  <2>1. CopyOK(workers[v])
    BY DEF CopiesOK
  <2>2. CASE v # w
    <3>1. workers'[v] = workers[v]
      BY <2>2 DEF IInv, CardsTypeOK
    <3> QED
      BY <1>1, <2>1, <3>1 DEF CopyOK, SameCard
  <2>3. CASE v = w
    <3>1. workers'[v] = worker
      BY <2>3 DEF IInv, CardsTypeOK
    <3> QED
      BY <1>1, <3>1 DEF CopyOK, SameCard
  <2> QED
    BY <2>2, <2>3
<1> QED
  BY <1>2 DEF CopiesOK

LEMMA IdleCopy == CopyOK(IdleWorker)
  BY DEF IdleWorker, CopyOK

LEMMA TransitionCopy ==
    ASSUME IInv, CopiesOK, NEW w \in Workers, NEW c \in Cards,
           NEW to \in RequirementStatus, NEW d \in Decisions \cup {NoDecision},
           ReadForTransition(w, c, to, d) \/ ReadForChangeStatus(w, c, to, d)
    PROVE  CopiesOK' /\ UNCHANGED cards
<1> DEFINE Holding(doc) == [IdleWorker EXCEPT !.pc = "save", !.card = c, !.doc = doc]
<1>1. cards[c] \in Card /\ cards[c] # Absent
  BY DEF ReadForTransition, ReadForChangeStatus, IInv, CardsTypeOK
<1>2. PICK doc \in {Moved(cards[c], to, d), Decide(cards[c], to, d)} :
         workers' = [workers EXCEPT ![w] = Holding(doc)] /\ UNCHANGED cards
  BY DEF ReadForTransition, ReadForChangeStatus
<1>3. SameCard(c, doc)
  BY <1>1 DEF Moved, Decide, Card, SameCard
<1>4. Holding(doc).pc = "save" /\ Holding(doc).card = c /\ Holding(doc).doc = doc
  BY DEF IdleWorker
<1> DEFINE holding == Holding(doc)
<1> HIDE DEF Holding
<1>5. CopyOK(holding) /\ workers' = [workers EXCEPT ![w] = holding]
  BY <1>2, <1>3, <1>4 DEF CopyOK
<1>6. CardWritten
  BY <1>2 DEF CardWritten
<1> HIDE DEF holding
<1> QED
  BY <1>2, <1>5, <1>6, CopyStep

LEMMA SaveCopy ==
    ASSUME IInv, CopiesOK, NEW w \in Workers, SaveCard(w)
    PROVE  CopiesOK' /\ CardSaved
<1>1. /\ workers[w].pc = "save"
      /\ cards' = [cards EXCEPT ![workers[w].card] = workers[w].doc]
      /\ workers' = [workers EXCEPT ![w] = IdleWorker]
  BY DEF SaveCard, Finish
<1>2. CopyOK(workers[w]) /\ WorkerOK(workers[w])
  BY DEF CopiesOK, IInv
<1>3. CardSaved
  BY <1>1, <1>2 DEF CopyOK, WorkerOK, CardSaved
<1> QED
  BY <1>1, <1>3, IdleCopy, CopyStep DEF CardWritten

LEMMA AnswerCopy ==
    ASSUME IInv, CopiesOK, NEW w \in Workers, NEW reply \in Replies, ModelReplies(w, reply)
    PROVE  CopiesOK' /\ UNCHANGED cards
<1> DEFINE old == workers[w]
           worker == IF reply = <<>> THEN IdleWorker
                     ELSE [old EXCEPT !.pc = "merge",
                             !.items = [i \in DOMAIN reply |-> Judge(reply[i], old.seen)]]
<1>1. workers' = [workers EXCEPT ![w] = worker] /\ UNCHANGED cards
  BY DEF ModelReplies
<1>2. old.pc = "model" /\ old \in Worker /\ CopyOK(old)
  BY DEF ModelReplies, IInv, CardsTypeOK, CopiesOK
<1>3. worker = IdleWorker \/ (worker.pc = "merge" /\ worker.seen = old.seen)
  BY <1>2 DEF Worker
<1> HIDE DEF worker
<1>4. CopyOK(worker)
  BY <1>2, <1>3, IdleCopy DEF CopyOK
<1> QED
  BY <1>1, <1>4, CopyStep DEF CardWritten

LEMMA MergeCopy ==
    ASSUME IInv, CopiesOK, NEW w \in Workers, NEW c \in Cards, MergeIntoCard(w, c)
    PROVE  CopiesOK' /\ CardSaved
<1> DEFINE old == workers[w]
           item == Head(old.items)
           doc == Merged(old.seen[c], item)
           seen == [old.seen EXCEPT ![c] = doc]
           left == Tail(old.items)
           worker == IF left = <<>> THEN IdleWorker
                     ELSE [old EXCEPT !.items = left, !.seen = seen]
<1>1. /\ old.pc = "merge" /\ c \in Matches(item, old.seen)
      /\ cards' = [cards EXCEPT ![c] = doc]
      /\ workers' = [workers EXCEPT ![w] = worker]
  BY DEF MergeIntoCard, NextItem
<1>2. old \in Worker /\ CopyOK(old) /\ WorkerOK(old)
  BY DEF IInv, CardsTypeOK, CopiesOK
<1>3. /\ item.existingId \in Cards \cup {NoCard} /\ ItemOK(item, old.seen)
      /\ item.proposedDecision \in Decisions \cup {NoDecision}
  BY <1>1, HeadItem
<1>4. old.seen[c] # Absent
  BY <1>1, <1>3, CardsAssumption DEF Matches, ItemOK
<1>5. old.seen[c] \in Card /\ old.seen \in [Cards -> Card \cup {Absent}]
  BY <1>2, <1>4 DEF Worker
<1>6. InOrder(old.seen[c]) /\ SameCard(c, old.seen[c])
  BY <1>1, <1>2, <1>4 DEF WorkerOK, CopyOK
<1>7. doc \in Card /\ SameCard(c, doc)
  <2>1. doc \in Card
    BY <1>3, <1>5, <1>6, MergedInOrder DEF ItemOK
  <2>2. /\ doc.project = old.seen[c].project
        /\ doc.title = old.seen[c].title
        /\ doc.source = old.seen[c].source
    BY <1>5 DEF Merged, Card
  <2> QED
    BY <1>6, <2>1, <2>2 DEF SameCard
<1> HIDE DEF doc
<1>8. CardSaved
  BY <1>1, <1>7 DEF CardSaved
<1>9. \A x \in Cards : seen[x] # Absent => SameCard(x, seen[x])
  BY <1>1, <1>2, <1>5, <1>7 DEF CopyOK
<1>10. worker = IdleWorker \/ (worker.pc = "merge" /\ worker.seen = seen)
  BY <1>1, <1>2 DEF Worker
<1> HIDE DEF worker, seen
<1>11. CopyOK(worker)
  BY <1>9, <1>10, IdleCopy DEF CopyOK
<1> QED
  BY <1>1, <1>8, <1>11, CopyStep DEF CardWritten

LEMMA NewCopy ==
    ASSUME IInv, IInv', CopiesOK, NEW w \in Workers, NEW c \in Cards,
           MergeAsNew(w, c) \/ \E r \in Requests : SyncCreate(w, r, c)
    PROVE  CopiesOK' /\ CardWritten
<1> DEFINE old == workers[w]
<1>1. PICK doc : cards[c] = Absent /\ cards' = [cards EXCEPT ![c] = doc]
  BY MakesCard
<1>2. doc \in Card \cup {Absent}
  BY <1>1 DEF IInv, CardsTypeOK
<1>3. CardWritten
  <2>1. CASE doc = Absent
    BY <1>1, <2>1 DEF CardWritten, IInv, CardsTypeOK
  <2>2. CASE doc \in Card
    BY <1>1, <2>2 DEF CardWritten, CardMade
  <2> QED
    BY <1>2, <2>1, <2>2
<1>4. PICK worker : /\ workers' = [workers EXCEPT ![w] = worker]
                    /\ \/ worker = IdleWorker
                       \/ worker.pc = old.pc /\ worker.seen = old.seen
  BY MakesCard
<1>5. CopyOK(old) /\ old.pc \in {"merge", "create"}
  BY MakesCard DEF CopiesOK
<1>6. CopyOK(worker)
  BY <1>4, <1>5, IdleCopy DEF CopyOK
<1> QED
  BY <1>3, <1>4, <1>6, CopyStep

LEMMA OthersCopy ==
    ASSUME IInv, CopiesOK, NEW w \in Workers,
           \/ \E p \in Projects : AnalyzeRead(w, p) \/ SyncReadRequests(w, p)
           \/ SyncReadCards(w) \/ Abandon(w)
    PROVE  CopiesOK' /\ UNCHANGED cards
<1>1. UNCHANGED cards /\ CardWritten
  BY DEF AnalyzeRead, SyncReadRequests, SyncReadCards, Abandon, CardWritten
<1>2. ASSUME NEW p \in Projects, AnalyzeRead(w, p)
      PROVE  CopiesOK'
  <2> DEFINE worker == [IdleWorker EXCEPT !.pc = "model", !.project = p, !.seen = CardsOf(p)]
  <2>1. worker.pc = "model" /\ worker.seen = CardsOf(p)
    BY DEF IdleWorker
  <2>2. workers' = [workers EXCEPT ![w] = worker]
    BY <1>2 DEF AnalyzeRead
  <2> HIDE DEF worker
  <2>3. CopyOK(worker)
    BY <2>1 DEF CopyOK, SameCard, CardsOf
  <2> QED
    BY <1>1, <2>2, <2>3, CopyStep
<1>3. ASSUME NEW p \in Projects, SyncReadRequests(w, p)
      PROVE  CopiesOK'
  <2> DEFINE worker == [IdleWorker EXCEPT !.pc = "known", !.project = p,
                            !.todo = {r \in flagged : RequestOf[r].project = p}]
  <2>1. worker.pc = "known" /\ workers' = [workers EXCEPT ![w] = worker]
    BY <1>3 DEF IdleWorker, SyncReadRequests
  <2> HIDE DEF worker
  <2>2. CopyOK(worker)
    BY <2>1 DEF CopyOK
  <2> QED
    BY <1>1, <2>1, <2>2, CopyStep
<1>4. CASE SyncReadCards(w)
  <2> DEFINE old == workers[w]
             todo == old.todo \ Known(old.project)
             worker == [old EXCEPT !.pc = "create", !.todo = todo]
  <2>1. \/ workers' = [workers EXCEPT ![w] = IdleWorker]
        \/ workers' = [workers EXCEPT ![w] = worker]
    BY <1>4 DEF SyncReadCards, Finish, IInv, CardsTypeOK
  <2>2. worker.pc = "create"
    BY DEF IInv, CardsTypeOK, Worker
  <2> HIDE DEF worker
  <2>3. CopyOK(worker)
    BY <2>2 DEF CopyOK
  <2> QED
    BY <1>1, <2>1, <2>3, IdleCopy, CopyStep
<1>5. CASE Abandon(w)
  BY <1>1, <1>5, IdleCopy, CopyStep DEF Abandon, Finish
<1> QED
  BY <1>1, <1>2, <1>3, <1>4, <1>5

\* Whichever handlers overlap, no step changes which project, title and
\* request a card is of, and none takes a card away.
LEMMA StepWritesCard ==
    ASSUME IInv, CopiesOK, [CardsNext]_cardVars
    PROVE  CopiesOK' /\ CardWritten
<1>1. ASSUME NEW w \in Workers, CardHandler(w) PROVE CopiesOK' /\ CardWritten
  <2>1. CASE \E c \in Cards, to \in RequirementStatus, d \in Decisions \cup {NoDecision} :
               ReadForTransition(w, c, to, d) \/ ReadForChangeStatus(w, c, to, d)
    BY <2>1, TransitionCopy DEF CardWritten
  <2>2. CASE \E reply \in Replies : ModelReplies(w, reply)
    BY <2>2, AnswerCopy DEF CardWritten
  <2>3. CASE \E c \in Cards : MergeIntoCard(w, c)
    BY <2>3, MergeCopy DEF CardWritten
  <2>4. CASE \E c \in Cards : MergeAsNew(w, c) \/ \E r \in Requests : SyncCreate(w, r, c)
    BY <2>4, NextOK, NewCopy
  <2> QED
    BY <1>1, <2>1, <2>2, <2>3, <2>4, SaveCopy, OthersCopy DEF CardHandler, CardWritten
<1>2. CASE UNCHANGED <<cards, workers>>
  BY <1>2 DEF CopiesOK, CopyOK, SameCard, CardWritten
<1> QED
  BY <1>1, <1>2 DEF CardsNext, FlagRequest, cardVars

==============================================================================
