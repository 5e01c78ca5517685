----------------------------- MODULE Ingest_proof -----------------------------
(***************************************************************************)
(* Proofs about Ingest: every reachable state, for any messages, links,    *)
(* workers and failures, satisfies the inductive invariant IInv.           *)
(***************************************************************************)
EXTENDS Ingest, TLAPS

\* What a worker holds is stored and to be analysed; the runs of its tasks wait,
\* but for the one that is being analysed; no task is there twice.
PhaseOK(worker) ==
    /\ Held(worker) \subseteq Analyzable
    /\ \A m \in Held(worker) : stored[m] # NoLink
    /\ worker.pc = "idle" => worker.tasks = <<>>
    /\ worker.pc = "run" =>
         runs[worker.message] = "none" /\ worker.message \notin Range(worker.tasks)
    /\ \A i \in 1 .. Len(worker.tasks) :
         runs[worker.tasks[i]] =
            IF i = 1 /\ worker.pc = "analyze" THEN "PROCESSING" ELSE "PENDING"
    /\ \A i, j \in 1 .. Len(worker.tasks) :
         worker.tasks[i] = worker.tasks[j] => i = j

PhasesOK == \A w \in Workers : PhaseOK(workers[w])

\* A message that is not stored has no run.
RunsAreStored == \A m \in Messages : stored[m] = NoLink => runs[m] = "none"

IInv == TypeOK /\ OneHolder /\ Accounted /\ PhasesOK /\ RunsAreStored

------------------------------------------------------------------------------
(* Sequences of tasks *)

\* What a task added to the end does to the tasks.
LEMMA AppendRange ==
    ASSUME NEW s \in Seq(Messages), NEW m \in Messages
    PROVE  /\ Append(s, m) \in Seq(Messages)
           /\ Range(Append(s, m)) = Range(s) \cup {m}
<1>1. /\ Append(s, m) \in Seq(Messages)
      /\ DOMAIN Append(s, m) = 1 .. Len(s) + 1
      /\ Append(s, m)[Len(s) + 1] = m
      /\ \A i \in 1 .. Len(s) : Append(s, m)[i] = s[i]
  OBVIOUS
<1>2. Len(s) \in Nat /\ DOMAIN s = 1 .. Len(s)
  OBVIOUS
<1>3. 1 .. Len(s) + 1 = (1 .. Len(s)) \cup {Len(s) + 1}
  BY <1>2
<1> QED
  BY <1>1, <1>2, <1>3 DEF Range

\* What the first task taken away does to the tasks.
LEMMA TailRange ==
    ASSUME NEW s \in Seq(Messages), s # <<>>
    PROVE  /\ Head(s) \in Messages
           /\ Tail(s) \in Seq(Messages)
           /\ Range(s) = {Head(s)} \cup Range(Tail(s))
<1>1. /\ Head(s) = s[1] /\ Head(s) \in Messages
      /\ Tail(s) \in Seq(Messages)
      /\ Len(s) \in Nat \ {0} /\ DOMAIN s = 1 .. Len(s)
      /\ DOMAIN Tail(s) = 1 .. Len(s) - 1
      /\ \A i \in 1 .. Len(s) - 1 : Tail(s)[i] = s[i + 1]
  OBVIOUS
<1>2. ASSUME NEW i \in 1 .. Len(s)
      PROVE  s[i] \in {Head(s)} \cup Range(Tail(s))
  <2>1. CASE i = 1
    BY <1>1, <2>1
  <2>2. CASE i # 1
    <3>1. i - 1 \in 1 .. Len(s) - 1 /\ (i - 1) + 1 = i
      BY <1>1, <2>2
    <3> QED
      BY <1>1, <3>1 DEF Range
  <2> QED
    BY <2>1, <2>2
<1>3. ASSUME NEW i \in 1 .. Len(s) - 1
      PROVE  Tail(s)[i] \in Range(s)
  <2>1. i + 1 \in 1 .. Len(s)
    BY <1>1
  <2> QED
    BY <1>1, <2>1 DEF Range
<1>4. 1 \in 1 .. Len(s)
  BY <1>1
<1> QED
  BY <1>1, <1>2, <1>3, <1>4 DEF Range

\* A worker that goes on to its tasks holds what they are for.
LEMMA RunningHolds ==
    ASSUME NEW worker, NEW s \in Seq(Messages)
    PROVE  LET next == Running(worker, s)
           IN  /\ next \in Worker
               /\ next.tasks = s
               /\ next.pc = IF s = <<>> THEN "idle" ELSE "start"
               /\ Held(next) = Range(s)
<1>1. <<>> \in Seq(Messages) /\ Range(<<>>) = {}
  BY DEF Range
<1> QED
  BY <1>1 DEF Running, Idle, Worker, Held

LEMMA IdleHolds == Idle \in Worker /\ Held(Idle) = {} /\ PhaseOK(Idle)
<1>1. <<>> \in Seq(Messages) /\ Range(<<>>) = {} /\ Len(<<>>) = 0
  BY DEF Range
<1> QED
  BY <1>1 DEF Idle, Worker, Held, PhaseOK

------------------------------------------------------------------------------
(* One worker takes a step *)

LEMMA OneMoves ==
    ASSUME TypeOK, NEW w \in Workers, NEW x, x \in Worker, Become(w, x)
    PROVE  /\ workers' \in [Workers -> Worker]
           /\ workers'[w] = x
           /\ \A v \in Workers : v # w => workers'[v] = workers[v]
  BY DEF TypeOK, Become

LEMMA HeldAreMessages ==
    ASSUME TypeOK, NEW w \in Workers
    PROVE  /\ workers[w] \in Worker
           /\ workers[w].tasks \in Seq(Messages)
           /\ DOMAIN workers[w].tasks = 1 .. Len(workers[w].tasks)
           /\ Len(workers[w].tasks) \in Nat
           /\ Range(workers[w].tasks) \subseteq Messages
           /\ Range(workers[w].tasks) \subseteq Held(workers[w])
           /\ \A i \in 1 .. Len(workers[w].tasks) :
                workers[w].tasks[i] \in Range(workers[w].tasks)
           /\ Held(workers[w]) \subseteq Messages
<1>1. workers[w] \in Worker /\ workers[w].tasks \in Seq(Messages)
  BY DEF TypeOK, Worker
<1>2. /\ DOMAIN workers[w].tasks = 1 .. Len(workers[w].tasks)
      /\ Len(workers[w].tasks) \in Nat
      /\ \A i \in 1 .. Len(workers[w].tasks) : workers[w].tasks[i] \in Messages
  BY <1>1
<1>3. Range(workers[w].tasks) \subseteq Messages
  BY <1>2 DEF Range
<1>4. workers[w].pc = "run" => workers[w].message \in Messages
  BY DEF TypeOK
<1> QED
  BY <1>1, <1>2, <1>3, <1>4 DEF Held, Range

\* The phase of a worker is left alone by steps that change neither what it
\* holds nor the runs of that.
LEMMA PhaseKept ==
    ASSUME TypeOK, NEW v \in Workers, PhaseOK(workers[v]),
           workers'[v] = workers[v],
           \A m \in Held(workers[v]) : runs'[m] = runs[m] /\ stored'[m] # NoLink
    PROVE  PhaseOK(workers[v])'
<1>1. workers[v].pc = "run" => workers[v].message \in Held(workers[v])
  BY DEF Held
<1> QED
  BY <1>1, HeldAreMessages DEF PhaseOK, Held

LEMMA NoNewHolder ==
    ASSUME TypeOK, OneHolder, NEW w \in Workers, NEW x, x \in Worker, Become(w, x),
           Held(x) \subseteq Held(workers[w])
    PROVE  OneHolder'
<1>1. \A v \in Workers : Held(workers'[v]) \subseteq Held(workers[v])
  BY OneMoves
<1> QED
  BY <1>1 DEF OneHolder

\* A message somebody holds still has somebody, if the worker that moves keeps
\* what it held.
LEMMA HoldersStay ==
    ASSUME TypeOK, NEW w \in Workers, NEW x, x \in Worker, Become(w, x),
           Held(workers[w]) \subseteq Held(x), NEW m,
           \E v \in Workers : m \in Held(workers[v])
    PROVE  \E v \in Workers : m \in Held(workers'[v])
  BY OneMoves

\* The other workers hold nothing whose run is changed: what is changed is held
\* by the worker that moves, or by nobody.
LEMMA OthersKept ==
    ASSUME IInv, NEW w \in Workers, NEW x, x \in Worker, Become(w, x), NEW m,
           m \in Held(workers[w]) \/ (m \in Messages /\ stored[m] = NoLink),
           \A n \in Messages \ {m} : runs'[n] = runs[n],
           \A n \in Messages : stored[n] # NoLink => stored'[n] # NoLink,
           PhaseOK(workers[w])'
    PROVE  PhasesOK'
<1> USE DEF IInv
<1> SUFFICES ASSUME NEW v \in Workers, v # w
             PROVE  PhaseOK(workers[v])'
  BY DEF PhasesOK
<1>1. workers'[v] = workers[v]
  BY OneMoves
<1>2. PhaseOK(workers[v])
  BY DEF PhasesOK
<1>3. m \notin Held(workers[v])
  BY <1>2 DEF OneHolder, PhaseOK
<1>4. \A n \in Held(workers[v]) : runs'[n] = runs[n] /\ stored'[n] # NoLink
  BY <1>2, <1>3, HeldAreMessages DEF PhaseOK
<1> QED
  BY <1>1, <1>2, <1>4, PhaseKept

\* A step that changes neither a message nor a run, of a worker that keeps what
\* it holds.
LEMMA QuietStep ==
    ASSUME IInv, NEW w \in Workers, NEW x, x \in Worker, Become(w, x),
           UNCHANGED <<stored, runs, failures, lost>>,
           Held(x) = Held(workers[w]),
           x.tasks = workers[w].tasks,
           x.pc \notin {"run", "analyze"}, workers[w].pc # "analyze",
           x.pc = "idle" => x.tasks = <<>>,
           x.pc = "start" => x.tasks # <<>>,
           x.pc \in {"next", "insert"} => x.link # NoLink,
           x.pc = "insert" => x.message \in Messages
    PROVE  IInv'
<1> USE DEF IInv
<1>1. /\ workers' \in [Workers -> Worker]
      /\ workers'[w] = x
      /\ \A v \in Workers : v # w => workers'[v] = workers[v]
  BY OneMoves
<1>2. TypeOK'
  BY <1>1 DEF TypeOK
<1>3. OneHolder'
  BY NoNewHolder
<1>4. Accounted'
  BY HoldersStay DEF Accounted
<1>5. PhasesOK'
  <2> SUFFICES ASSUME NEW v \in Workers
               PROVE  PhaseOK(workers[v])'
    BY DEF PhasesOK
  <2>1. CASE v = w
    BY <1>1, <2>1 DEF PhasesOK, PhaseOK
  <2>2. CASE v # w
    BY <1>1, <2>2, PhaseKept DEF PhasesOK, PhaseOK
  <2> QED
    BY <2>1, <2>2
<1>6. RunsAreStored'
  BY DEF RunsAreStored
<1> QED
  BY <1>2, <1>3, <1>4, <1>5, <1>6

------------------------------------------------------------------------------
(* The invariant: one lemma per action *)

LEMMA InitInv ==
    ASSUME IngestAssumption, Init
    PROVE  IInv
<1>1. TypeOK
  <2>1. Idle.pc = "idle"
    BY DEF Idle
  <2> QED
    BY <2>1, IdleHolds DEF Init, TypeOK, RunStatus
<1>2. OneHolder
  BY IdleHolds DEF Init, OneHolder
<1>3. Accounted
  BY DEF Init, Accounted, IngestAssumption
<1>4. PhasesOK
  BY IdleHolds DEF Init, PhasesOK
<1>5. RunsAreStored
  BY DEF Init, RunsAreStored
<1> QED
  BY <1>1, <1>2, <1>3, <1>4, <1>5 DEF IInv

LEMMA FetchInv ==
    ASSUME IngestAssumption, IInv, NEW w \in Workers, NEW link \in Links,
           NEW listed \in SUBSET Listed[link], Fetch(w, link, listed)
    PROVE  IInv'
<1> DEFINE x == [Idle EXCEPT !.pc = "next", !.link = link, !.todo = listed]
<1>1. listed \subseteq Messages /\ link # NoLink
  BY DEF IngestAssumption
<1>2. x \in Worker /\ x.tasks = <<>> /\ x.pc = "next" /\ x.link = link
  <2>1. <<>> \in Seq(Messages)
    OBVIOUS
  <2> QED
    BY <1>1, <2>1 DEF Idle, Worker
<1>3. workers[w].pc = "idle" /\ workers[w].tasks = <<>>
  BY DEF Fetch, IInv, PhasesOK, PhaseOK
<1>4. Held(x) = Held(workers[w])
  BY <1>2, <1>3 DEF Held
<1>5. Become(w, x) /\ UNCHANGED <<stored, runs, failures, lost>>
  BY DEF Fetch
<1> HIDE DEF x
<1> QED
  BY <1>1, <1>2, <1>3, <1>4, <1>5, QuietStep

LEMMA FindMessageInv ==
    ASSUME IngestAssumption, IInv, NEW w \in Workers, NEW m \in Messages,
           FindMessage(w, m)
    PROVE  IInv'
<1> DEFINE worker == workers[w]
           x == IF stored[m] # NoLink THEN Skipped(worker, m)
                ELSE [worker EXCEPT !.pc = "insert", !.message = m]
<1>1. worker \in Worker /\ worker.pc = "next" /\ worker.link # NoLink
  BY DEF FindMessage, IInv, TypeOK
<1>2. /\ x \in Worker /\ x.tasks = worker.tasks /\ x.link = worker.link
      /\ x.pc \in {"next", "insert"}
      /\ x.pc = "insert" => x.message \in Messages
  BY <1>1 DEF Skipped, Worker
<1>3. Held(x) = Held(worker)
  BY <1>1, <1>2 DEF Held
<1>4. Become(w, x) /\ UNCHANGED <<stored, runs, failures, lost>>
  BY DEF FindMessage
<1> HIDE DEF x
<1> QED
  BY <1>1, <1>2, <1>3, <1>4, QuietStep

LEMMA RespondInv ==
    ASSUME IInv, NEW w \in Workers, Respond(w) \/ Refuse(w)
    PROVE  IInv'
<1> DEFINE x == Running(workers[w], workers[w].tasks)
<1>1. workers[w].pc = "next" /\ workers[w].tasks \in Seq(Messages)
  BY HeldAreMessages DEF Respond, Refuse, IInv
<1>2. /\ x \in Worker /\ x.tasks = workers[w].tasks
      /\ x.pc = IF x.tasks = <<>> THEN "idle" ELSE "start"
      /\ Held(x) = Range(workers[w].tasks)
  BY <1>1, RunningHolds
<1>3. Held(x) = Held(workers[w])
  BY <1>1, <1>2 DEF Held
<1>4. Become(w, x) /\ UNCHANGED <<stored, runs, failures, lost>>
  BY DEF Respond, Refuse
<1> HIDE DEF x
<1> QED
  BY <1>1, <1>2, <1>3, <1>4, QuietStep

LEMMA InsertMessageInv ==
    ASSUME IngestAssumption, IInv, NEW w \in Workers, InsertMessage(w)
    PROVE  IInv'
<1> DEFINE worker == workers[w]
           m == worker.message
           x == IF IsNew(m) /\ m \in Analyzable THEN [worker EXCEPT !.pc = "run"]
                ELSE Skipped(worker, m)
<1>1. /\ worker \in Worker /\ worker.pc = "insert" /\ worker.link # NoLink
      /\ worker.link \in Links /\ m \in Messages
  BY DEF InsertMessage, IInv, TypeOK, Worker
<1>2. /\ x \in Worker /\ x.tasks = worker.tasks /\ x.link = worker.link
      /\ x.pc = IF IsNew(m) /\ m \in Analyzable THEN "run" ELSE "next"
      /\ x.pc = "run" => x.message = m
  BY <1>1 DEF Skipped, Worker, IngestAssumption
<1>3. Become(w, x) /\ UNCHANGED <<runs, failures, lost>> /\ stored' = StoredFor(m, worker.link)
  BY DEF InsertMessage
<1>4. Held(worker) = Range(worker.tasks)
  BY <1>1 DEF Held
<1> HIDE DEF x
<1>5. CASE ~IsNew(m)
  <2>1. Held(x) = Held(worker) /\ x.pc = "next" /\ stored' = stored
    BY <1>2, <1>3, <1>4, <1>5 DEF Held, StoredFor
  <2> QED
    BY <1>1, <1>2, <1>3, <2>1, QuietStep
<1>6. CASE IsNew(m)
  <2>1. /\ workers' \in [Workers -> Worker]
        /\ workers'[w] = x
        /\ \A v \in Workers : v # w => workers'[v] = workers[v]
    BY <1>2, <1>3, OneMoves DEF IInv
  <2>2. stored' = [stored EXCEPT ![m] = worker.link] /\ stored \in [Messages -> Links \cup {NoLink}]
    BY <1>3, <1>6 DEF StoredFor, IInv, TypeOK
  <2>3. Held(x) = Held(worker) \cup (IF m \in Analyzable THEN {m} ELSE {})
    BY <1>2, <1>4, <1>6 DEF Held
  <2>4. \A v \in Workers : m \notin Held(workers[v])
    BY <1>6 DEF IsNew, IInv, PhasesOK, PhaseOK
  <2>5. \A v \in Workers : v # w => Held(workers'[v]) = Held(workers[v])
    BY <2>1
  <2>6. TypeOK'
    BY <1>1, <1>2, <1>3, <2>1, <2>2 DEF IInv, TypeOK
  <2>7. OneHolder'
    <3> SUFFICES ASSUME NEW v \in Workers, NEW u \in Workers, v # u
                 PROVE  Held(workers'[v]) \cap Held(workers'[u]) = {}
      BY DEF OneHolder
    <3>1. Held(workers[v]) \cap Held(workers[u]) = {}
      BY DEF IInv, OneHolder
    <3>2. CASE v = w
      BY <2>1, <2>3, <2>4, <2>5, <3>1, <3>2
    <3>3. CASE u = w
      BY <2>1, <2>3, <2>4, <2>5, <3>1, <3>3
    <3>4. CASE v # w /\ u # w
      BY <2>5, <3>1, <3>4
    <3> QED
      BY <3>2, <3>3, <3>4
  <2>8. Accounted'
    <3> SUFFICES ASSUME NEW n \in Analyzable, stored'[n] # NoLink,
                        runs'[n] \notin Done, n \notin lost'
                 PROVE  \E v \in Workers : n \in Held(workers'[v])
      BY DEF Accounted
    <3>1. CASE n = m
      BY <2>1, <2>3, <3>1
    <3>2. CASE n # m
      <4>1. stored[n] # NoLink /\ n \in Messages
        BY <2>2, <3>2 DEF IngestAssumption
      <4>2. \E v \in Workers : n \in Held(workers[v])
        BY <1>3, <4>1 DEF IInv, Accounted
      <4> QED
        BY <2>1, <2>3, <2>5, <4>2
    <3> QED
      BY <3>1, <3>2
  <2>9. PhaseOK(workers[w])'
    <3>1. PhaseOK(worker) /\ runs[m] = "none"
      BY <1>1, <1>6 DEF IInv, PhasesOK, RunsAreStored, IsNew
    <3>2. \A n \in Held(x) : n \in Messages
      BY <1>1, <2>3, HeldAreMessages DEF IInv
    <3>3. /\ Held(x) \subseteq Analyzable
          /\ \A n \in Held(x) : stored'[n] # NoLink
      BY <1>1, <2>2, <2>3, <3>1, <3>2, IngestAssumption DEF PhaseOK, IngestAssumption
    <3>4. m \notin Range(worker.tasks)
      BY <1>4, <2>4
    <3> QED
      BY <1>1, <1>2, <1>3, <2>1, <3>1, <3>3, <3>4 DEF PhaseOK
  <2>10. PhasesOK'
    <3>1. \A n \in Messages : stored[n] # NoLink => stored'[n] # NoLink
      BY <1>1, <2>2 DEF IngestAssumption
    <3> QED
      BY <1>1, <1>2, <1>3, <1>6, <2>9, <3>1, OthersKept DEF IsNew
  <2>11. RunsAreStored'
    BY <1>1, <1>3, <2>2 DEF IInv, RunsAreStored
  <2> QED
    BY <2>6, <2>7, <2>8, <2>10, <2>11 DEF IInv
<1> QED
  BY <1>5, <1>6

LEMMA EnsureRunInv ==
    ASSUME IngestAssumption, IInv, NEW w \in Workers, EnsureRun(w)
    PROVE  IInv'
<1> DEFINE worker == workers[w]
           m == worker.message
           x == [Skipped(worker, m) EXCEPT !.tasks = Append(@, m)]
<1>1. /\ worker \in Worker /\ worker.pc = "run" /\ worker.link # NoLink
      /\ m \in Messages /\ worker.tasks \in Seq(Messages) /\ PhaseOK(worker)
  BY HeldAreMessages DEF EnsureRun, IInv, TypeOK, PhasesOK
<1>2. /\ Append(worker.tasks, m) \in Seq(Messages)
      /\ Range(Append(worker.tasks, m)) = Range(worker.tasks) \cup {m}
  BY <1>1, AppendRange
<1>3. /\ x \in Worker /\ x.tasks = Append(worker.tasks, m)
      /\ x.pc = "next" /\ x.link = worker.link
  BY <1>1, <1>2 DEF Skipped, Worker
<1>4. /\ Become(w, x) /\ UNCHANGED <<stored, failures, lost>>
      /\ runs' = [runs EXCEPT ![m] = "PENDING"]
      /\ runs \in [Messages -> RunStatus]
  BY <1>1 DEF EnsureRun, PhaseOK, IInv, TypeOK
<1>5. Held(x) = Held(worker) /\ m \in Held(worker)
  BY <1>1, <1>2, <1>3 DEF Held
<1> HIDE DEF x
<1>6. /\ workers' \in [Workers -> Worker]
      /\ workers'[w] = x
      /\ \A v \in Workers : v # w => workers'[v] = workers[v]
  BY <1>3, <1>4, OneMoves DEF IInv
<1>7. TypeOK'
  BY <1>1, <1>3, <1>4, <1>6 DEF IInv, TypeOK, RunStatus
<1>8. OneHolder'
  BY <1>3, <1>4, <1>5, NoNewHolder DEF IInv
<1>9. Accounted'
  <2> SUFFICES ASSUME NEW n \in Analyzable, stored'[n] # NoLink,
                      runs'[n] \notin Done, n \notin lost'
               PROVE  \E v \in Workers : n \in Held(workers'[v])
    BY DEF Accounted
  <2>1. CASE n = m
    BY <1>5, <1>6, <2>1
  <2>2. CASE n # m
    <3>1. \E v \in Workers : n \in Held(workers[v])
      BY <1>4, <2>2 DEF IInv, Accounted, IngestAssumption
    <3> QED
      BY <1>3, <1>4, <1>5, <3>1, HoldersStay DEF IInv
  <2> QED
    BY <2>1, <2>2
<1>10. PhaseOK(workers[w])'
  <2>1. /\ Len(x.tasks) = Len(worker.tasks) + 1
        /\ x.tasks[Len(worker.tasks) + 1] = m
        /\ \A i \in 1 .. Len(worker.tasks) :
             x.tasks[i] = worker.tasks[i] /\ x.tasks[i] \in Messages /\ x.tasks[i] # m
    <3>1. \A i \in 1 .. Len(worker.tasks) : worker.tasks[i] \in Range(worker.tasks)
      BY HeldAreMessages DEF IInv
    <3>2. m \notin Range(worker.tasks)
      BY <1>1 DEF PhaseOK
    <3> QED
      BY <1>1, <1>3, <3>1, <3>2
  <2>2. Len(worker.tasks) \in Nat
    BY <1>1
  <2>3. 1 .. Len(x.tasks) = (1 .. Len(worker.tasks)) \cup {Len(worker.tasks) + 1}
    BY <2>1, <2>2
  <2>4. ASSUME NEW i \in 1 .. Len(x.tasks)
        PROVE  runs'[x.tasks[i]] = "PENDING"
    <3>1. CASE i \in 1 .. Len(worker.tasks)
      <4>1. runs[worker.tasks[i]] = "PENDING"
        BY <1>1, <3>1 DEF PhaseOK
      <4> QED
        BY <1>4, <2>1, <3>1, <4>1
    <3>2. CASE i = Len(worker.tasks) + 1
      BY <1>1, <1>4, <2>1, <3>2 DEF RunStatus
    <3> QED
      BY <2>3, <3>1, <3>2
  <2>5. \A i, j \in 1 .. Len(x.tasks) : x.tasks[i] = x.tasks[j] => i = j
    <3>1. \A i, j \in 1 .. Len(worker.tasks) :
             worker.tasks[i] = worker.tasks[j] => i = j
      BY <1>1 DEF PhaseOK
    <3> SUFFICES ASSUME NEW i \in 1 .. Len(x.tasks), NEW j \in 1 .. Len(x.tasks),
                        x.tasks[i] = x.tasks[j]
                 PROVE  i = j
      OBVIOUS
    <3>2. CASE i \in 1 .. Len(worker.tasks) /\ j \in 1 .. Len(worker.tasks)
      BY <2>1, <3>1, <3>2
    <3>3. CASE i = Len(worker.tasks) + 1 \/ j = Len(worker.tasks) + 1
      BY <2>1, <2>3, <3>3
    <3> QED
      BY <2>3, <3>2, <3>3
  <2> QED
    BY <1>1, <1>3, <1>4, <1>5, <1>6, <2>4, <2>5 DEF PhaseOK
<1>11. PhasesOK'
  BY <1>3, <1>4, <1>5, <1>10, OthersKept
<1>12. RunsAreStored'
  BY <1>1, <1>4, <1>5 DEF IInv, RunsAreStored, PhaseOK
<1> QED
  BY <1>7, <1>8, <1>9, <1>11, <1>12 DEF IInv

LEMMA StartRunInv ==
    ASSUME IngestAssumption, IInv, NEW w \in Workers, StartRun(w)
    PROVE  IInv'
<1> DEFINE worker == workers[w]
           m == Head(worker.tasks)
           x == [worker EXCEPT !.pc = "analyze"]
<1>1. /\ worker \in Worker /\ worker.pc = "start" /\ worker.tasks # <<>>
      /\ worker.tasks \in Seq(Messages) /\ PhaseOK(worker)
  BY HeldAreMessages DEF StartRun, IInv, TypeOK, PhasesOK
<1>2. m \in Messages /\ m = worker.tasks[1] /\ 1 \in 1 .. Len(worker.tasks)
  BY <1>1
<1>3. x \in Worker /\ x.tasks = worker.tasks /\ x.pc = "analyze"
  BY <1>1 DEF Worker
<1>4. /\ Become(w, x) /\ UNCHANGED <<stored, failures, lost>>
      /\ runs' = [runs EXCEPT ![m] = "PROCESSING"]
      /\ runs \in [Messages -> RunStatus]
  BY DEF StartRun, IInv, TypeOK
<1>5. Held(x) = Held(worker) /\ m \in Held(worker)
  BY <1>1, <1>2, <1>3, HeldAreMessages DEF Held, IInv
<1> HIDE DEF x
<1>6. /\ workers' \in [Workers -> Worker]
      /\ workers'[w] = x
      /\ \A v \in Workers : v # w => workers'[v] = workers[v]
  BY <1>3, <1>4, OneMoves DEF IInv
<1>7. TypeOK'
  BY <1>1, <1>3, <1>4, <1>6 DEF IInv, TypeOK, RunStatus
<1>8. OneHolder'
  BY <1>3, <1>4, <1>5, NoNewHolder DEF IInv
<1>9. Accounted'
  <2> SUFFICES ASSUME NEW n \in Analyzable, stored'[n] # NoLink,
                      runs'[n] \notin Done, n \notin lost'
               PROVE  \E v \in Workers : n \in Held(workers'[v])
    BY DEF Accounted
  <2>1. CASE n = m
    BY <1>5, <1>6, <2>1
  <2>2. CASE n # m
    <3>1. \E v \in Workers : n \in Held(workers[v])
      BY <1>4, <2>2 DEF IInv, Accounted, IngestAssumption
    <3> QED
      BY <1>3, <1>4, <1>5, <3>1, HoldersStay DEF IInv
  <2> QED
    BY <2>1, <2>2
<1>10. PhaseOK(workers[w])'
  <2>1. \A i \in 1 .. Len(worker.tasks) :
           runs'[worker.tasks[i]] = IF i = 1 THEN "PROCESSING" ELSE "PENDING"
    <3> SUFFICES ASSUME NEW i \in 1 .. Len(worker.tasks)
                 PROVE  runs'[worker.tasks[i]] = IF i = 1 THEN "PROCESSING" ELSE "PENDING"
      OBVIOUS
    <3>1. runs[worker.tasks[i]] = "PENDING" /\ worker.tasks[i] \in Messages
      BY <1>1 DEF PhaseOK
    <3>2. worker.tasks[i] = m => i = 1
      BY <1>1, <1>2 DEF PhaseOK
    <3> QED
      BY <1>2, <1>4, <3>1, <3>2
  <2> QED
    BY <1>1, <1>3, <1>4, <1>5, <1>6, <2>1 DEF PhaseOK
<1>11. PhasesOK'
  BY <1>3, <1>4, <1>5, <1>10, OthersKept
<1>12. RunsAreStored'
  BY <1>1, <1>2, <1>4, <1>5 DEF IInv, RunsAreStored, PhaseOK
<1> QED
  BY <1>7, <1>8, <1>9, <1>11, <1>12 DEF IInv

LEMMA FinishRunInv ==
    ASSUME IngestAssumption, IInv, NEW w \in Workers, NEW status \in Done,
           FinishRun(w, status)
    PROVE  IInv'
<1> DEFINE worker == workers[w]
           m == Head(worker.tasks)
           x == Running(worker, Tail(worker.tasks))
<1>1. /\ worker \in Worker /\ worker.pc = "analyze" /\ worker.tasks # <<>>
      /\ worker.tasks \in Seq(Messages) /\ PhaseOK(worker)
      /\ Held(worker) = Range(worker.tasks)
  BY HeldAreMessages DEF FinishRun, IInv, TypeOK, PhasesOK, Held
<1>2. /\ m \in Messages /\ m = worker.tasks[1] /\ 1 \in 1 .. Len(worker.tasks)
      /\ Tail(worker.tasks) \in Seq(Messages)
      /\ Range(worker.tasks) = {m} \cup Range(Tail(worker.tasks))
      /\ Len(worker.tasks) \in Nat \ {0}
      /\ Len(Tail(worker.tasks)) = Len(worker.tasks) - 1
      /\ \A i \in 1 .. Len(worker.tasks) - 1 :
           /\ i + 1 \in 1 .. Len(worker.tasks)
           /\ Tail(worker.tasks)[i] = worker.tasks[i + 1]
  BY <1>1, TailRange
<1>3. /\ x \in Worker /\ x.tasks = Tail(worker.tasks)
      /\ x.pc = IF Tail(worker.tasks) = <<>> THEN "idle" ELSE "start"
      /\ Held(x) = Range(Tail(worker.tasks))
  BY <1>2, RunningHolds
<1>4. /\ Become(w, x) /\ UNCHANGED <<stored, failures, lost>>
      /\ runs' = [runs EXCEPT ![m] = status]
      /\ runs \in [Messages -> RunStatus]
  BY DEF FinishRun, IInv, TypeOK
<1>5. Held(x) \subseteq Held(worker) /\ m \in Held(worker) /\ Held(worker) = {m} \cup Held(x)
  BY <1>1, <1>2, <1>3
<1> HIDE DEF x
<1>6. /\ workers' \in [Workers -> Worker]
      /\ workers'[w] = x
      /\ \A v \in Workers : v # w => workers'[v] = workers[v]
  BY <1>3, <1>4, OneMoves DEF IInv
<1>7. TypeOK'
  BY <1>1, <1>3, <1>4, <1>6 DEF IInv, TypeOK, RunStatus
<1>8. OneHolder'
  BY <1>3, <1>4, <1>5, NoNewHolder DEF IInv
<1>9. Accounted'
  <2> SUFFICES ASSUME NEW n \in Analyzable, stored'[n] # NoLink,
                      runs'[n] \notin Done, n \notin lost'
               PROVE  \E v \in Workers : n \in Held(workers'[v])
    BY DEF Accounted
  <2>1. n # m
    BY <1>2, <1>4
  <2>2. PICK v \in Workers : n \in Held(workers[v])
    BY <1>4, <2>1 DEF IInv, Accounted, IngestAssumption
  <2>3. CASE v = w
    BY <1>5, <1>6, <2>1, <2>2, <2>3
  <2>4. CASE v # w
    BY <1>6, <2>2, <2>4
  <2> QED
    BY <2>3, <2>4
<1>10. PhaseOK(workers[w])'
  <2>1. \A i \in 1 .. Len(x.tasks) : runs'[x.tasks[i]] = "PENDING"
    <3> SUFFICES ASSUME NEW i \in 1 .. Len(worker.tasks) - 1
                 PROVE  runs'[worker.tasks[i + 1]] = "PENDING"
      BY <1>2, <1>3
    <3>1. i + 1 \in 1 .. Len(worker.tasks) /\ i + 1 # 1
      BY <1>2
    <3>2. runs[worker.tasks[i + 1]] = "PENDING" /\ worker.tasks[i + 1] \in Messages
      BY <1>1, <3>1 DEF PhaseOK
    <3>3. worker.tasks[i + 1] # m
      BY <1>1, <1>2, <3>1 DEF PhaseOK
    <3> QED
      BY <1>4, <3>2, <3>3
  <2>2. \A i, j \in 1 .. Len(x.tasks) : x.tasks[i] = x.tasks[j] => i = j
    <3> SUFFICES ASSUME NEW i \in 1 .. Len(worker.tasks) - 1,
                        NEW j \in 1 .. Len(worker.tasks) - 1,
                        worker.tasks[i + 1] = worker.tasks[j + 1]
                 PROVE  i = j
      BY <1>2, <1>3
    <3>1. i + 1 = j + 1
      BY <1>1, <1>2 DEF PhaseOK
    <3> QED
      BY <1>2, <3>1
  <2>3. /\ Held(x) \subseteq Analyzable
        /\ \A n \in Held(x) : stored'[n] # NoLink
    BY <1>1, <1>4, <1>5 DEF PhaseOK
  <2> QED
    BY <1>3, <1>6, <2>1, <2>2, <2>3 DEF PhaseOK
<1>11. PhasesOK'
  BY <1>3, <1>4, <1>5, <1>10, OthersKept
<1>12. RunsAreStored'
  BY <1>1, <1>2, <1>4, <1>5 DEF IInv, RunsAreStored, PhaseOK
<1> QED
  BY <1>7, <1>8, <1>9, <1>11, <1>12 DEF IInv

LEMMA FailInv ==
    ASSUME IngestAssumption, IInv, NEW w \in Workers, Fail(w)
    PROVE  IInv'
<1>1. /\ Become(w, Idle) /\ UNCHANGED <<stored, runs>>
      /\ failures \in Nat /\ failures' = failures + 1
      /\ lost' = lost \cup Held(workers[w])
  BY DEF Fail, MayFail, IInv, TypeOK
<1>2. Idle \in Worker /\ Held(Idle) = {} /\ Idle.pc = "idle"
  BY IdleHolds DEF Idle
<1>3. /\ workers' \in [Workers -> Worker]
      /\ workers'[w] = Idle
      /\ \A v \in Workers : v # w => workers'[v] = workers[v]
  BY <1>1, <1>2, OneMoves DEF IInv
<1>4. TypeOK'
  BY <1>1, <1>2, <1>3, HeldAreMessages DEF IInv, TypeOK
<1>5. OneHolder'
  BY <1>1, <1>2, NoNewHolder DEF IInv
<1>6. Accounted'
  BY <1>1, <1>3 DEF IInv, Accounted
<1>7. PhasesOK'
  <2> SUFFICES ASSUME NEW v \in Workers
               PROVE  PhaseOK(workers[v])'
    BY DEF PhasesOK
  <2>1. CASE v = w
    <3>1. Idle.tasks = <<>> /\ Len(<<>>) = 0 /\ 1 .. 0 = {}
      BY DEF Idle
    <3> QED
      BY <1>2, <1>3, <2>1, <3>1 DEF PhaseOK
  <2>2. CASE v # w
    BY <1>1, <1>3, <2>2, PhaseKept DEF IInv, PhasesOK, PhaseOK
  <2> QED
    BY <2>1, <2>2
<1>8. RunsAreStored'
  BY <1>1 DEF IInv, RunsAreStored
<1> QED
  BY <1>4, <1>5, <1>6, <1>7, <1>8 DEF IInv

LEMMA RestartInv ==
    ASSUME IngestAssumption, IInv, Restart
    PROVE  IInv'
<1>1. /\ UNCHANGED <<stored, runs>>
      /\ workers' = [w \in Workers |-> Idle]
      /\ failures \in Nat /\ failures' = failures + 1
      /\ lost' = lost \cup UNION {Held(workers[w]) : w \in Workers}
  BY DEF Restart, MayFail, IInv, TypeOK
<1>2. Idle \in Worker /\ Held(Idle) = {} /\ Idle.pc = "idle"
  BY IdleHolds DEF Idle
<1>3. lost' \subseteq Messages
  BY <1>1, HeldAreMessages DEF IInv, TypeOK
<1>4. TypeOK'
  BY <1>1, <1>2, <1>3 DEF IInv, TypeOK
<1>5. OneHolder'
  BY <1>1, <1>2 DEF OneHolder
<1>6. Accounted'
  BY <1>1 DEF IInv, Accounted
<1>7. PhasesOK'
  BY <1>1, IdleHolds DEF PhasesOK, PhaseOK, Idle
<1>8. RunsAreStored'
  BY <1>1 DEF IInv, RunsAreStored
<1> QED
  BY <1>4, <1>5, <1>6, <1>7, <1>8 DEF IInv

------------------------------------------------------------------------------
(* Theorems *)

THEOREM InitialInvariant == Init => IInv
  BY InitInv, IngestAssumption

THEOREM StepInvariant == IInv /\ [Next]_vars => IInv'
<1> SUFFICES ASSUME IInv, [Next]_vars
             PROVE  IInv'
  OBVIOUS
<1> USE IngestAssumption
<1>1. ASSUME NEW w \in Workers, NEW link \in Links, NEW listed \in SUBSET Listed[link],
             Fetch(w, link, listed)
      PROVE  IInv'
  BY <1>1, FetchInv
<1>2. ASSUME NEW w \in Workers, Continue(w)
      PROVE  IInv'
  BY <1>2, FindMessageInv, InsertMessageInv, EnsureRunInv, RespondInv, StartRunInv,
     FinishRunInv DEF Continue
<1>3. ASSUME NEW w \in Workers, Refuse(w)
      PROVE  IInv'
  BY <1>3, RespondInv
<1>4. ASSUME NEW w \in Workers, Fail(w)
      PROVE  IInv'
  BY <1>4, FailInv
<1>5. CASE Restart
  BY <1>5, RestartInv
<1>6. CASE UNCHANGED vars
  <2> USE <1>6 DEF vars
  <2>1. TypeOK'
    BY DEF IInv, TypeOK
  <2>2. OneHolder'
    BY DEF IInv, OneHolder
  <2>3. Accounted'
    BY DEF IInv, Accounted
  <2>4. PhasesOK'
    BY DEF IInv, PhasesOK, PhaseOK
  <2>5. RunsAreStored'
    BY DEF IInv, RunsAreStored
  <2> QED
    BY <2>1, <2>2, <2>3, <2>4, <2>5 DEF IInv
<1> QED
  BY <1>1, <1>2, <1>3, <1>4, <1>5, <1>6 DEF Next

\* Every reachable state satisfies the inductive invariant, whatever requests,
\* background tasks, failures and restarts overlap.
THEOREM Invariance == Spec => []IInv
  BY InitialInvariant, StepInvariant, PTL DEF Spec

\* The types of the state, and what a worker holds at each place of a request.
THEOREM TypeCorrect == Spec => []TypeOK
  BY Invariance, PTL DEF IInv

\* However many requests store a message at once, one alone has it analysed.
THEOREM HeldByOne == Spec => []OneHolder
  BY Invariance, PTL DEF IInv

\* No stored message is forgotten but by a failure.
THEOREM NothingForgotten == Spec => []Accounted
  BY Invariance, PTL DEF IInv

\* The analysis run of a message only moves forward.
THEOREM RunsMoveForward == Spec => AnalysedOnce
<1> DEFINE Forward ==
      \A m \in Messages :
          runs'[m] # runs[m] =>
            <<runs[m], runs'[m]>> \in
                {<<"none", "PENDING">>, <<"PENDING", "PROCESSING">>}
                    \cup {<<"PROCESSING", status>> : status \in Done}
<1>1. IInv /\ [Next]_vars => [Forward]_vars
  <2> SUFFICES ASSUME IInv, Next
               PROVE  Forward
    OBVIOUS
  <2>1. runs \in [Messages -> RunStatus]
    BY DEF IInv, TypeOK
  <2>2. ASSUME NEW w \in Workers
        PROVE  /\ PhaseOK(workers[w])
               /\ workers[w].tasks # <<>> =>
                    /\ Head(workers[w].tasks) = workers[w].tasks[1]
                    /\ 1 \in 1 .. Len(workers[w].tasks)
               /\ workers[w].pc \in {"start", "analyze"} => workers[w].tasks # <<>>
    BY HeldAreMessages DEF IInv, PhasesOK, TypeOK
  <2>3. ASSUME NEW w \in Workers, EnsureRun(w)
        PROVE  Forward
    BY <2>1, <2>3 DEF EnsureRun
  <2>4. ASSUME NEW w \in Workers, StartRun(w)
        PROVE  Forward
    <3>1. runs[Head(workers[w].tasks)] = "PENDING"
      BY <2>2, <2>4 DEF StartRun, PhaseOK
    <3> QED
      BY <2>1, <2>4, <3>1 DEF StartRun
  <2>5. ASSUME NEW w \in Workers, NEW status \in Done, FinishRun(w, status)
        PROVE  Forward
    <3>1. runs[Head(workers[w].tasks)] = "PROCESSING"
      BY <2>2, <2>5 DEF FinishRun, PhaseOK
    <3> QED
      BY <2>1, <2>5, <3>1 DEF FinishRun
  <2>6. CASE UNCHANGED runs
    BY <2>6
  <2> QED
    BY <2>3, <2>4, <2>5, <2>6 DEF Next, Continue, Fetch, FindMessage, InsertMessage,
       Respond, Refuse, Fail, Restart
<1> QED
  BY <1>1, Invariance, PTL DEF Spec, AnalysedOnce

\* A message stays with the link, and so the project, it was first stored for.
THEOREM MessagesStay == Spec => MessageStays
<1> DEFINE Stays == \A m \in Messages : stored[m] # NoLink => stored'[m] = stored[m]
<1>1. IInv /\ [Next]_vars => [Stays]_vars
  <2> SUFFICES ASSUME IInv, Next
               PROVE  Stays
    OBVIOUS
  <2>1. ASSUME NEW w \in Workers, InsertMessage(w)
        PROVE  Stays
    BY <2>1 DEF InsertMessage, StoredFor, IsNew, IInv, TypeOK
  <2>2. CASE UNCHANGED stored
    BY <2>2
  <2> QED
    BY <2>1, <2>2 DEF Next, Continue, Fetch, FindMessage, EnsureRun, Respond, Refuse,
       StartRun, FinishRun, Fail, Restart
<1> QED
  BY <1>1, Invariance, PTL DEF Spec, MessageStays
==============================================================================
