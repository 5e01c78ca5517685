-------------------------------- MODULE Ingest --------------------------------
(***************************************************************************)
(* How received messages are stored and analysed: the synchronisation of a *)
(* source link, and the background tasks its response starts.  A task ends *)
(* with the process: nothing looks for runs that were left behind.         *)
(*                                                                         *)
(* A message stands for its key (owner, channel, connection, sourceKey),   *)
(* which two links may share.  The attachments of a message and their      *)
(* classification are left to a module of their own, the tickets an        *)
(* analysis stores are in Tickets.                                         *)
(***************************************************************************)
EXTENDS Naturals, Sequences, Functions

CONSTANTS
    Messages,     \* what the providers hold
    NoMessage,
    Links,        \* the source links (Gmail counterparty, Slack channel)
    NoLink,
    Listed,       \* Links -> the messages the link's channel may list
    Analyzable,   \* the messages whose analysis is asked for
    Workers,      \* synchronisation requests and their background tasks
    MaxFailures   \* bound: failed requests and restarts

ASSUME IngestAssumption ==
    /\ NoMessage \notin Messages
    /\ NoLink \notin Links
    /\ Listed \in [Links -> SUBSET Messages]
    /\ Analyzable \subseteq Messages
    /\ MaxFailures \in Nat

VARIABLES
    stored,    \* message -> the link it was stored for, or NoLink
    runs,      \* message -> the status of its analysis run, or "none"
    workers,
    failures,
    lost       \* messages whose analysis was dropped by a failure (history)

vars == <<stored, runs, workers, failures, lost>>

Done == {"COMPLETED", "FAILED"}
RunStatus == {"none", "PENDING", "PROCESSING"} \cup Done

Idle == [pc |-> "idle", link |-> NoLink, todo |-> {}, message |-> NoMessage,
         tasks |-> <<>>]

Become(w, worker) == workers' = [workers EXCEPT ![w] = worker]

\* The messages a worker has stored and will have analysed.
Held(worker) ==
    Range(worker.tasks) \cup (IF worker.pc = "run" THEN {worker.message} ELSE {})

------------------------------------------------------------------------------
(* A synchronisation request *)

\* The provider lists its most recent messages, those without text and
\* attachments are skipped.
Fetch(w, link, listed) ==
    /\ workers[w].pc = "idle"
    /\ listed \subseteq Listed[link]
    /\ Become(w, [Idle EXCEPT !.pc = "next", !.link = link, !.todo = listed])
    /\ UNCHANGED <<stored, runs, failures, lost>>

\* The worker when it is done with a message of the list.
Skipped(worker, m) ==
    [worker EXCEPT !.pc = "next", !.todo = @ \ {m}, !.message = NoMessage]

\* _upsert_source_message: a message that is stored is not new.
FindMessage(w, m) ==
    LET worker == workers[w]
    IN  /\ worker.pc = "next"
        /\ m \in worker.todo
        /\ Become(w, IF stored[m] # NoLink THEN Skipped(worker, m)
                     ELSE [worker EXCEPT !.pc = "insert", !.message = m])
        /\ UNCHANGED <<stored, runs, failures, lost>>

\* Mutants: what another request has just inserted counts as new; it is
\* stored for this link, too.
CountedAsNew(m) == TRUE

StoredAgain(m, link) == [stored EXCEPT ![m] = link]

\* insert() succeeds, and the message is new.
IsNew(m) == stored[m] = NoLink

StoredFor(m, link) == IF IsNew(m) THEN [stored EXCEPT ![m] = link] ELSE stored

InsertMessage(w) ==
    LET worker == workers[w]
        m      == worker.message
    IN  /\ worker.pc = "insert"
        /\ stored' = StoredFor(m, worker.link)
        /\ Become(w, IF IsNew(m) /\ m \in Analyzable THEN [worker EXCEPT !.pc = "run"]
                     ELSE Skipped(worker, m))
        /\ UNCHANGED <<runs, failures, lost>>

\* _ensure_run and add_task.  Its read and its insert are one step: only the
\* request that stored a message gets here.
EnsureRun(w) ==
    LET worker == workers[w]
        m      == worker.message
    IN  /\ worker.pc = "run"
        /\ runs' = [runs EXCEPT ![m] = IF @ = "none" THEN "PENDING" ELSE @]
        /\ Become(w, [Skipped(worker, m) EXCEPT !.tasks = Append(@, m)])
        /\ UNCHANGED <<stored, failures, lost>>

------------------------------------------------------------------------------
(* Its background tasks, one after the other *)

\* A mutant: it goes on for tasks when none are left.
Running_always(worker, tasks) == [Idle EXCEPT !.pc = "start", !.tasks = tasks]

\* The worker when tasks are left to run.
Running(worker, tasks) ==
    IF tasks = <<>> THEN Idle ELSE [Idle EXCEPT !.pc = "start", !.tasks = tasks]

\* A mutant: the response is sent without the tasks.
Respond_bare(w) ==
    /\ workers[w].pc = "next"
    /\ workers[w].todo = {}
    /\ Become(w, Idle)
    /\ UNCHANGED <<stored, runs, failures, lost>>

Respond(w) ==
    /\ workers[w].pc = "next"
    /\ workers[w].todo = {}
    /\ Become(w, Running(workers[w], workers[w].tasks))
    /\ UNCHANGED <<stored, runs, failures, lost>>

\* An error of the channel or of a value is caught: the answer says so, the
\* messages that are left wait for another synchronisation, and the tasks of
\* those stored so far are run as well.
Refuse(w) ==
    /\ workers[w].pc = "next"
    /\ Become(w, Running(workers[w], workers[w].tasks))
    /\ UNCHANGED <<stored, runs, failures, lost>>

StartRun(w) ==
    LET worker == workers[w]
    IN  /\ worker.pc = "start"
        /\ runs' = [runs EXCEPT ![Head(worker.tasks)] = "PROCESSING"]
        /\ Become(w, [worker EXCEPT !.pc = "analyze"])
        /\ UNCHANGED <<stored, failures, lost>>

\* A mutant: a failed analysis ends the tasks.
FinishRun_ending(w, status) ==
    LET worker == workers[w]
    IN  /\ worker.pc = "analyze"
        /\ runs' = [runs EXCEPT ![Head(worker.tasks)] = status]
        /\ Become(w, IF status = "FAILED" THEN Idle ELSE Running(worker, Tail(worker.tasks)))
        /\ UNCHANGED <<stored, failures, lost>>

\* An exception of the analysis is caught: its run has failed, the next task
\* goes on.
FinishRun(w, status) ==
    LET worker == workers[w]
    IN  /\ worker.pc = "analyze"
        /\ runs' = [runs EXCEPT ![Head(worker.tasks)] = status]
        /\ Become(w, Running(worker, Tail(worker.tasks)))
        /\ UNCHANGED <<stored, failures, lost>>

------------------------------------------------------------------------------
(* Failures *)

MayFail == failures < MaxFailures /\ failures' = failures + 1

\* A database error leaves the handler, or a task: the tasks that are left
\* are dropped with it.
Fail(w) ==
    /\ workers[w].pc # "idle"
    /\ MayFail
    /\ lost' = lost \cup Held(workers[w])
    /\ Become(w, Idle)
    /\ UNCHANGED <<stored, runs>>

\* The process is restarted.
Restart ==
    /\ MayFail
    /\ lost' = lost \cup UNION {Held(workers[w]) : w \in Workers}
    /\ workers' = [w \in Workers |-> Idle]
    /\ UNCHANGED <<stored, runs>>

------------------------------------------------------------------------------
Init ==
    /\ stored = [m \in Messages |-> NoLink]
    /\ runs = [m \in Messages |-> "none"]
    /\ workers = [w \in Workers |-> Idle]
    /\ failures = 0
    /\ lost = {}

Continue(w) ==
    \/ \E m \in Messages : FindMessage(w, m)
    \/ InsertMessage(w)
    \/ EnsureRun(w)
    \/ Respond(w)
    \/ StartRun(w)
    \/ \E status \in Done : FinishRun(w, status)

Next ==
    \/ \E w \in Workers :
         \/ \E link \in Links : \E listed \in SUBSET Listed[link] : Fetch(w, link, listed)
         \/ Continue(w)
         \/ Refuse(w)
         \/ Fail(w)
    \/ Restart

\* A request or task that runs goes on: its awaits are database calls and model
\* calls, which all have time limits.  Nobody has to ask for a synchronisation.
Fairness == \A w \in Workers : WF_vars(Continue(w))

Spec == Init /\ [][Next]_vars /\ Fairness

------------------------------------------------------------------------------
(* Properties *)

Worker ==
    [pc : {"idle", "next", "insert", "run", "start", "analyze"},
     link : Links \cup {NoLink}, todo : SUBSET Messages,
     message : Messages \cup {NoMessage}, tasks : Seq(Messages)]

\* The state's types, and what a worker holds at each place.
TypeOK ==
    /\ stored \in [Messages -> Links \cup {NoLink}]
    /\ runs \in [Messages -> RunStatus]
    /\ workers \in [Workers -> Worker]
    /\ failures \in Nat
    /\ lost \subseteq Messages
    /\ \A w \in Workers :
         /\ workers[w].pc \in {"next", "insert", "run"} => workers[w].link # NoLink
         /\ workers[w].pc \in {"insert", "run"} => workers[w].message \in Messages
         /\ workers[w].pc \in {"start", "analyze"} => workers[w].tasks # <<>>

\* However many requests list a message at once, one of them has it analysed.
OneHolder ==
    \A v, w \in Workers : v # w => Held(workers[v]) \cap Held(workers[w]) = {}

\* No stored message is forgotten while the process runs: its analysis is done,
\* or some worker has still to do it, or a failure has dropped it.
Accounted ==
    \A m \in Analyzable :
        stored[m] # NoLink =>
            runs[m] \in Done \/ m \in lost \/ \E w \in Workers : m \in Held(workers[w])

\* A message is analysed at most once, however often it is delivered: its run
\* only moves forward ("the analysis is created once, by an idempotency key").
AnalysedOnce ==
    [][\A m \in Messages :
          runs'[m] # runs[m] =>
            <<runs[m], runs'[m]>> \in
                {<<"none", "PENDING">>, <<"PENDING", "PROCESSING">>}
                    \cup {<<"PROCESSING", status>> : status \in Done}]_vars

\* A stored message stays with the project whose link it was stored for.
MessageStays ==
    [][\A m \in Messages : stored[m] # NoLink => stored'[m] = stored[m]]_vars

\* A stored message is analysed in the end, unless a failure drops its task.
StoredIsAnalysed ==
    \A m \in Analyzable : stored[m] # NoLink ~> (runs[m] \in Done \/ m \in lost)
==============================================================================
