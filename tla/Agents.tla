-------------------------------- MODULE Agents --------------------------------
(***************************************************************************)
(* The work of the language model behind an analysis: jobs made of stages, *)
(* stages of tasks that run side by side, tasks of calls that may fail,    *)
(* take up to their time limit, or ask for tools.  What a failed task would *)
(* have said is replaced by a fallback; the others keep their results.     *)
(*                                                                         *)
(* Prompts and texts are left out: a document is known by its name, and a  *)
(* quotation is found in it or not.  Time counts in units of which a call  *)
(* may take CallTime and an agent has Budget.                              *)
(***************************************************************************)
EXTENDS Naturals, Sequences

CONSTANTS
    Requests,      \* those a message can hold
    Documents,     \* the contract and the materials of the project
    NoDocument,
    MaxTurns,      \* MAX_AGENT_TURNS
    Budget,        \* AGENT_BUDGET_SECONDS
    CallTime,      \* REQUEST_TIMEOUT_SECONDS
    ToolTime       \* bound: the tools of one turn (the code sets them none)

ASSUME AgentsAssumption ==
    /\ Requests # {}
    /\ NoDocument \notin Documents
    /\ MaxTurns \in Nat \ {0}
    /\ Budget \in Nat \ {0}
    /\ CallTime \in Nat
    /\ ToolTime \in Nat

VARIABLES
    hasKey,      \* is DEEPSEEK_API_KEY set?
    job,         \* the kind of job under way, or "none"
    stage,       \* its stage, counted from 1; 0: answered, or failed
    requests,    \* the requests of the message, once they are known
    tasks,       \* task -> how far it is
    workspace,   \* the clone: "none", "there", or "left" by a killed git
    failed       \* did the job end with an error instead of an answer?

vars == <<hasKey, job, stage, requests, tasks, workspace, failed>>

\* AiDecisionStatus: in scope, to be clarified, an extra request.
Decisions == {"green", "orange", "red"}

\* FALLBACK_DECISION, and no basis.
Fallback == [decision |-> "orange", document |-> NoDocument]

GitTasks == {"status", "question"}
JsonTasks == {"extract", "tickets", "impact", "feasibility", "synthesis", "reply"}
Tasks == Requests \cup GitTasks \cup JsonTasks

ASSUME TasksAssumption ==
    Requests \cap (GitTasks \cup JsonTasks) = {} /\ GitTasks \cap JsonTasks = {}

Off == [pc |-> "off", turns |-> 0, calls |-> 0, time |-> 0, shown |-> {},
        outcome |-> "none", judged |-> Fallback]

\* The stages of a job: what is gathered together, in what order.
Stages(kind, found) ==
    CASE kind = "message"  -> <<{"extract"}, {"tickets"} \cup found>>
      [] kind = "solution" -> <<{"status"} \cup found, {"impact", "feasibility"}, {"synthesis"}>>
      [] kind = "ask"      -> <<{"question"}>>
      [] kind = "reply"    -> <<{"reply"}>>

Current == Stages(job, requests)[stage]

------------------------------------------------------------------------------
(* Starting jobs and tasks.                                                *)

\* Without a key no model is called, and most tasks end at once with nothing; a
\* question has its repository cloned, and the open tickets are read, even so.
Started(t) ==
    [Off EXCEPT !.pc = CASE t = "question" \/ (hasKey /\ t = "status") -> "clone"
                         [] t = "tickets" \/ (hasKey /\ t \in JsonTasks) -> "json"
                         [] hasKey /\ t \in Requests -> "turn"
                         [] OTHER -> "done"]

\* analyze_request_message, build_solution, ask_repository, and the tasks of a
\* single call (reply_draft, checklist, sample replies, materials).  A message
\* has its requests yet to be found; a solution is made for one.
Begin(kind, found) ==
    /\ job = "none" \/ stage = 0
    /\ job' = kind
    /\ stage' = 1
    /\ requests' = found
    /\ found = {} <=> kind # "solution"
    /\ tasks' = [t \in Tasks |-> IF t \in Stages(kind, found)[1] THEN Started(t) ELSE Off]
    /\ workspace' = "none"
    /\ failed' = FALSE
    /\ UNCHANGED hasKey

Step(t, task) ==
    /\ tasks' = [tasks EXCEPT ![t] = task]
    /\ UNCHANGED <<hasKey, job, stage, requests, failed>>

\* The workspace is removed however the block is left.
Leave(t) == workspace' = IF t \in GitTasks /\ workspace = "there" THEN "none" ELSE workspace

End(t, outcome, judged) ==
    /\ Step(t, [Off EXCEPT !.pc = "done", !.outcome = outcome, !.judged = judged,
                           !.shown = tasks[t].shown])
    /\ Leave(t)

\* Whatever was found out is lost.
Give(t, outcome) == End(t, outcome, Fallback)

------------------------------------------------------------------------------
(* One task.                                                               *)

\* run_json: a call that fails or does not fit the schema is made once more,
\* and then given up.  Tickets are read from the database first, which may
\* raise, or have none open.
Json(t) ==
    /\ tasks[t].pc = "json"
    /\ \/ hasKey /\ Give(t, "some")
       \/ /\ hasKey /\ tasks[t].calls = 0
          /\ Step(t, [tasks[t] EXCEPT !.calls = 1])
          /\ UNCHANGED workspace
       \/ tasks[t].calls = 1 /\ Give(t, "none")
       \/ t = "tickets" /\ tasks[t].calls = 0 /\ Give(t, "raised")
       \/ t = "tickets" /\ tasks[t].calls = 0 /\ Give(t, "none")

\* cloned_repo: git ends in time, well or badly, or is killed, and may still
\* write into what is being removed.  Before, the project may turn out to have
\* no repository; reading that, making the directory or starting git may raise.
Clone(t) ==
    /\ tasks[t].pc = "clone"
    /\ \/ /\ Step(t, [tasks[t] EXCEPT !.pc = IF hasKey THEN "turn" ELSE "done"])
          /\ workspace' = IF hasKey THEN "there" ELSE "none"
       \/ Give(t, "none")
       \/ Give(t, "raised")
       \/ /\ Step(t, [Off EXCEPT !.pc = "done"])
          /\ workspace' = "left"

\* A mutant: only the time is looked at.
Exhausted_time(task) == task.time >= Budget

\* The loop's two limits, looked at before each call.
Exhausted(task) == task.turns = MaxTurns \/ task.time >= Budget

\* One call with tools.  No answer ends the agent without a result; an answer
\* without a choice raises, which only ask_repository lets through.
Turn(t) ==
    LET called(d) == [tasks[t] EXCEPT !.turns = @ + 1, !.time = @ + d] IN
    /\ tasks[t].pc = "turn"
    /\ ~Exhausted(tasks[t])
    /\ \/ Give(t, "none")
       \/ t = "question" /\ Give(t, "raised")
       \/ \E d \in {0, CallTime}, pc \in {"tools", "conclude"} :
             /\ Step(t, [called(d) EXCEPT !.pc = pc])
             /\ UNCHANGED workspace

\* read_contract and search_materials show documents, the tools for a
\* repository show none.
Shown(t) == IF t \in Requests THEN Documents ELSE {}

\* The tools of one turn, together; a failing tool is told to the model.
Tools(t) ==
    /\ tasks[t].pc = "tools"
    /\ \E d \in {0, ToolTime}, shown \in SUBSET Shown(t) :
          Step(t, [tasks[t] EXCEPT !.pc = "turn", !.time = @ + d, !.shown = @ \cup shown])
    /\ UNCHANGED workspace

StopAsking(t) ==
    /\ tasks[t].pc = "turn"
    /\ Exhausted(tasks[t])
    /\ Step(t, [tasks[t] EXCEPT !.pc = "conclude"])
    /\ UNCHANGED workspace

\* A mutant: any document of the project will do.
Verify_any(judged, quoted, shown) ==
    IF judged.document \in Documents /\ quoted THEN judged
    ELSE [decision |-> IF judged.decision = "green" THEN "orange" ELSE judged.decision,
          document |-> NoDocument]

\* _verify: a basis counts if a tool showed the document and the quotation is
\* in it; without one, green becomes orange and red stays.
Verify(judged, quoted, shown) ==
    IF judged.document \in shown /\ quoted THEN judged
    ELSE [decision |-> IF judged.decision = "green" THEN "orange" ELSE judged.decision,
          document |-> NoDocument]

\* _conclude: two calls without tools, whose time nothing looks at any more; the
\* model may name any document.
Conclude(t) ==
    /\ tasks[t].pc = "conclude"
    /\ \/ /\ tasks[t].calls = 0
          /\ Step(t, [tasks[t] EXCEPT !.calls = 1])
          /\ UNCHANGED workspace
       \/ tasks[t].calls = 1 /\ Give(t, "none")
       \/ t \notin Requests /\ Give(t, "some")
       \/ /\ t \in Requests
          /\ \E decision \in Decisions, document \in Documents \cup {NoDocument},
               quoted \in BOOLEAN :
                End(t, "some", Verify([decision |-> decision, document |-> document],
                                      quoted, tasks[t].shown))

------------------------------------------------------------------------------
(* The job.                                                                *)

Gathered == \A t \in Current : tasks[t].pc = "done"

\* A mutant: the first exception ends the whole gather.
Continues_strict == \A t \in Current : tasks[t].outcome # "raised"

\* gather(..., return_exceptions=True): only the question about a repository
\* has no gather to hold its exceptions.
Continues == job = "ask" => \A t \in Current : tasks[t].outcome # "raised"

\* The requests found, or one made of the first line.
Found == IF tasks["extract"].outcome = "some" THEN SUBSET Requests \ {{}}
         ELSE {{r} : r \in Requests}

Advance ==
    /\ job # "none"
    /\ stage # 0
    /\ Gathered
    /\ failed' = ~Continues
    /\ \E found \in IF job = "message" /\ stage = 1 THEN Found ELSE {requests} :
          LET next == IF ~Continues \/ stage = Len(Stages(job, found)) THEN 0 ELSE stage + 1 IN
          /\ requests' = found
          /\ stage' = next
          /\ tasks' = [t \in Tasks |->
                IF next # 0 /\ t \in Stages(job, found)[next] THEN Started(t) ELSE tasks[t]]
    /\ UNCHANGED <<hasKey, job, workspace>>

------------------------------------------------------------------------------
Init ==
    /\ hasKey \in BOOLEAN
    /\ job = "none"
    /\ stage = 0
    /\ requests = {}
    /\ tasks = [t \in Tasks |-> Off]
    /\ workspace = "none"
    /\ failed = FALSE

Kinds == {"message", "solution", "ask", "reply"}

Ask == \E kind \in Kinds, found \in {{}} \cup {{r} : r \in Requests} : Begin(kind, found)

Work(t) == Json(t) \/ Clone(t) \/ Turn(t) \/ Tools(t) \/ StopAsking(t) \/ Conclude(t)

Next == Ask \/ Advance \/ \E t \in Tasks : Work(t)

\* Calls and clones have a time limit and tools end; the event loop then goes
\* on with the task.
Fairness == WF_vars(Advance) /\ \A t \in Tasks : WF_vars(Work(t))

Spec == Init /\ [][Next]_vars /\ Fairness

------------------------------------------------------------------------------
(* Properties.                                                             *)

\* What a task holds: at most MaxTurns calls with tools and two without, though
\* a turn may ask for tools again and again (run_agent, _conclude), and at most
\* one repetition of a single call (run_json).
Judgement == [decision : Decisions, document : Documents \cup {NoDocument}]

Task ==
    [pc : {"off", "clone", "json", "turn", "tools", "conclude", "done"},
     turns : 0 .. MaxTurns, calls : 0 .. 1, time : Nat, shown : SUBSET Documents,
     outcome : {"none", "some", "raised"}, judged : Judgement]

TypeOK ==
    /\ hasKey \in BOOLEAN
    /\ job \in {"none"} \cup Kinds
    /\ stage \in 0 .. 3
    /\ requests \in SUBSET Requests
    /\ tasks \in [Tasks -> Task]
    /\ workspace \in {"none", "there", "left"}
    /\ failed \in BOOLEAN

\* A request judged in scope has a basis that a tool of its own agent showed,
\* in whatever turn, and no request is judged in scope without a model
\* (match_against_contract, _verify).
GreenIsGrounded ==
    \A r \in Requests :
        tasks[r].judged.decision = "green" =>
            hasKey /\ tasks[r].judged.document \in tasks[r].shown

\* Every analysis and every solution comes to an answer that judges each of its
\* requests, whichever tasks fail on the way, every question about a
\* repository ends, and no clone stays but one whose git was killed
\* (analyze_request_message, build_solution, ask_repository, cloned_repo).
Answered ==
    /\ stage = 0
    /\ failed => job = "ask"
    /\ workspace # "there"
    /\ \A r \in requests : tasks[r].pc = "done"
    /\ job = "message" => requests # {}

AlwaysAnswers == \A kind \in Kinds : job = kind /\ stage # 0 ~> job = kind /\ Answered
==============================================================================
