------------------------------ MODULE Agents_proof ------------------------------
(***************************************************************************)
(* Proofs about Agents, for any requests, documents and limits: IInv is    *)
(* inductive.  It adds to TypeOK where tasks stand without a key, that what *)
(* is judged in scope was shown, and how far a job goes.                   *)
(***************************************************************************)
EXTENDS Agents, TLAPS

\* Without a key only the tickets are read and only a question is cloned for.
TaskOK(task, key) ==
    /\ task.pc \in {"turn", "tools", "conclude"} => key
    /\ task.judged.decision = "green" => key /\ task.judged.document \in task.shown

\* How many stages a job has, whatever requests are found.
Last(kind) ==
    CASE kind = "none" -> 0
      [] kind = "message" -> 2
      [] kind = "solution" -> 3
      [] OTHER -> 1

JobOK ==
    /\ job \in {"none"} \cup Kinds
    /\ stage \in 0 .. Last(job)
    /\ requests \in SUBSET Requests
    /\ workspace \in {"none", "there", "left"}
    /\ failed \in BOOLEAN

TasksOK ==
    /\ tasks \in [Tasks -> Task]
    /\ hasKey \in BOOLEAN
    /\ \A t \in Tasks : TaskOK(tasks[t], hasKey)

IInv == JobOK /\ TasksOK

------------------------------------------------------------------------------
LEMMA OffOK ==
    /\ Off \in Task /\ TaskOK(Off, hasKey) /\ Fallback \in Judgement
    /\ Off.pc = "off" /\ Off.judged = Fallback /\ Fallback.decision = "orange"
<1>1. Fallback \in Judgement /\ Fallback.decision = "orange"
  BY DEF Fallback, Judgement, Decisions
<1>2. Off \in Task
  BY <1>1, AgentsAssumption DEF Off, Task
<1>3. Off.pc = "off" /\ Off.judged = Fallback
  BY DEF Off
<1> QED
  BY <1>1, <1>2, <1>3 DEF TaskOK

\* A task that starts has judged nothing, and calls no model without a key.
LEMMA StartedOK ==
    ASSUME NEW t \in Tasks
    PROVE  Started(t) \in Task /\ TaskOK(Started(t), hasKey)
<1> DEFINE pc == CASE t = "question" \/ (hasKey /\ t = "status") -> "clone"
                   [] t = "tickets" \/ (hasKey /\ t \in JsonTasks) -> "json"
                   [] hasKey /\ t \in Requests -> "turn"
                   [] OTHER -> "done"
           task == [Off EXCEPT !.pc = pc]
<1>1. pc \in {"clone", "json", "turn", "done"} /\ (pc = "turn" => hasKey)
  BY TasksAssumption DEF GitTasks, JsonTasks
<1> HIDE DEF pc
<1>2. task \in Task
  BY <1>1, OffOK DEF Task
<1>3. task.pc = pc /\ task.judged.decision = "orange"
  BY OffOK DEF Task
<1>4. Started(t) = task
  BY DEF Started, pc
<1> HIDE DEF task
<1> QED
  BY <1>1, <1>2, <1>3, <1>4 DEF TaskOK

\* The key stays, and nothing of the job changes but the clone.
JobStep ==
    /\ UNCHANGED <<hasKey, job, stage, requests, failed>>
    /\ workspace' \in {"none", "there", "left"}

LEMMA JobStepOK == IInv /\ JobStep => JobOK'
  BY DEF IInv, JobOK, JobStep

\* It is enough to look at the task that goes on.
LEMMA StepOK ==
    ASSUME IInv, NEW t \in Tasks, NEW task \in Task, Step(t, task), TaskOK(task, hasKey),
           workspace' \in {"none", "there", "left"}
    PROVE  IInv'
<1>1. tasks' = [tasks EXCEPT ![t] = task] /\ JobStep
  BY DEF Step, JobStep
<1>2. tasks' \in [Tasks -> Task] /\ hasKey' = hasKey
  BY <1>1 DEF IInv, TasksOK, JobStep
<1>3. \A u \in Tasks : TaskOK(tasks'[u], hasKey)
  BY <1>1 DEF IInv, TasksOK
<1>4. TasksOK'
  BY <1>2, <1>3 DEF IInv, TasksOK
<1> QED
  BY <1>1, <1>4, JobStepOK DEF IInv

LEMMA EndOK ==
    ASSUME IInv, NEW t \in Tasks, NEW outcome \in {"none", "some", "raised"},
           NEW judged \in Judgement, End(t, outcome, judged),
           judged.decision = "green" => hasKey /\ judged.document \in tasks[t].shown
    PROVE  IInv'
<1> DEFINE shown == tasks[t].shown
           task == [Off EXCEPT !.pc = "done", !.outcome = outcome, !.judged = judged,
                               !.shown = shown]
<1>1. shown \in SUBSET Documents
  BY DEF IInv, TasksOK, Task
<1>2. task \in Task
  BY <1>1, OffOK DEF Task
<1>3. task.pc = "done" /\ task.judged = judged /\ task.shown = shown
  BY OffOK DEF Task
<1>4. Step(t, task) /\ workspace' \in {"none", "there", "left"}
  BY DEF End, Leave, IInv, JobOK
<1> HIDE DEF task
<1>5. TaskOK(task, hasKey)
  BY <1>3 DEF TaskOK
<1> QED
  BY <1>2, <1>4, <1>5, StepOK

LEMMA GiveOK ==
    ASSUME IInv, NEW t \in Tasks, NEW outcome \in {"none", "some", "raised"},
           Give(t, outcome)
    PROVE  IInv'
  BY OffOK, EndOK DEF Give

------------------------------------------------------------------------------
LEMMA JsonStep ==
    ASSUME IInv, NEW t \in Tasks, Json(t)
    PROVE  IInv'
<1> DEFINE old == tasks[t]
           task == [old EXCEPT !.calls = 1]
<1>1. old \in Task /\ TaskOK(old, hasKey) /\ old.pc = "json"
  BY DEF Json, IInv, TasksOK
<1>2. ASSUME Step(t, task), UNCHANGED workspace
      PROVE  IInv'
  <2>1. task \in Task
    BY <1>1 DEF Task
  <2>2. task.pc = "json" /\ task.judged = old.judged /\ task.shown = old.shown
    BY <1>1 DEF Task
  <2> HIDE DEF task
  <2>3. TaskOK(task, hasKey) /\ workspace' \in {"none", "there", "left"}
    BY <1>1, <1>2, <2>2 DEF TaskOK, IInv, JobOK
  <2> QED
    BY <1>2, <2>1, <2>3, StepOK
<1> QED
  BY <1>2, GiveOK DEF Json

LEMMA CloneStep ==
    ASSUME IInv, NEW t \in Tasks, Clone(t)
    PROVE  IInv'
<1> DEFINE old == tasks[t]
           task == [old EXCEPT !.pc = IF hasKey THEN "turn" ELSE "done"]
           killed == [Off EXCEPT !.pc = "done"]
<1>1. old \in Task /\ TaskOK(old, hasKey)
  BY DEF IInv, TasksOK
<1>2. ASSUME Step(t, killed), workspace' = "left"
      PROVE  IInv'
  <2>1. killed \in Task /\ killed.pc = "done" /\ killed.judged.decision = "orange"
    BY OffOK DEF Task
  <2> HIDE DEF killed
  <2> QED
    BY <1>2, <2>1, StepOK DEF TaskOK
<1>3. ASSUME Step(t, task), workspace' = IF hasKey THEN "there" ELSE "none"
      PROVE  IInv'
  <2>1. task \in Task
    BY <1>1 DEF Task
  <2>2. /\ task.pc = (IF hasKey THEN "turn" ELSE "done")
        /\ task.judged = old.judged /\ task.shown = old.shown
    BY <1>1 DEF Task
  <2> HIDE DEF task
  <2>3. TaskOK(task, hasKey)
    BY <1>1, <2>2 DEF TaskOK
  <2> QED
    BY <1>3, <2>1, <2>3, StepOK
<1> QED
  BY <1>2, <1>3, GiveOK DEF Clone

\* A call is only made while turns are left.
LEMMA TurnStep ==
    ASSUME IInv, NEW t \in Tasks, Turn(t)
    PROVE  IInv'
<1> DEFINE old == tasks[t]
<1>1. old \in Task /\ TaskOK(old, hasKey) /\ old.pc = "turn" /\ ~Exhausted(old)
  BY DEF Turn, IInv, TasksOK
<1>2. ASSUME NEW d \in {0, CallTime}, NEW pc \in {"tools", "conclude"}, UNCHANGED workspace,
             Step(t, [old EXCEPT !.turns = old.turns + 1, !.time = old.time + d, !.pc = pc])
      PROVE  IInv'
  <2> DEFINE turns == old.turns + 1
             time == old.time + d
             task == [old EXCEPT !.turns = turns, !.time = time, !.pc = pc]
  <2>1. turns \in 0 .. MaxTurns /\ time \in Nat
    BY <1>1, AgentsAssumption DEF Task, Exhausted
  <2>2. Step(t, task) /\ workspace' \in {"none", "there", "left"}
    BY <1>2 DEF IInv, JobOK
  <2> HIDE DEF turns, time
  <2>3. task \in Task
    BY <1>1, <2>1 DEF Task
  <2>4. task.pc = pc /\ task.judged = old.judged /\ task.shown = old.shown
    BY <1>1 DEF Task
  <2> HIDE DEF task
  <2>5. TaskOK(task, hasKey)
    BY <1>1, <2>4 DEF TaskOK
  <2> QED
    BY <2>2, <2>3, <2>5, StepOK
<1> QED
  BY <1>2, GiveOK DEF Turn

\* What tools show adds to what was shown before.
LEMMA ToolsStep ==
    ASSUME IInv, NEW t \in Tasks, Tools(t)
    PROVE  IInv'
<1> DEFINE old == tasks[t]
<1>1. old \in Task /\ TaskOK(old, hasKey) /\ old.pc = "tools"
  BY DEF Tools, IInv, TasksOK
<1>2. PICK d \in {0, ToolTime}, shown \in SUBSET Shown(t) :
         Step(t, [old EXCEPT !.pc = "turn", !.time = old.time + d,
                             !.shown = old.shown \cup shown])
  BY DEF Tools
<1> DEFINE seen == old.shown \cup shown
           time == old.time + d
           task == [old EXCEPT !.pc = "turn", !.time = time, !.shown = seen]
<1>3. time \in Nat /\ seen \in SUBSET Documents /\ old.shown \subseteq seen
  BY <1>1, AgentsAssumption DEF Shown, Task
<1>4. Step(t, task) /\ workspace' \in {"none", "there", "left"}
  BY <1>2 DEF Tools, IInv, JobOK
<1> HIDE DEF seen, time
<1>5. task \in Task
  BY <1>1, <1>3 DEF Task
<1>6. task.pc = "turn" /\ task.judged = old.judged /\ task.shown = seen
  BY <1>1 DEF Task
<1> HIDE DEF task
<1>7. TaskOK(task, hasKey)
  BY <1>1, <1>3, <1>6 DEF TaskOK
<1> QED
  BY <1>4, <1>5, <1>7, StepOK

LEMMA StopAskingStep ==
    ASSUME IInv, NEW t \in Tasks, StopAsking(t)
    PROVE  IInv'
<1> DEFINE old == tasks[t]
           task == [old EXCEPT !.pc = "conclude"]
<1>1. /\ old \in Task /\ TaskOK(old, hasKey) /\ old.pc = "turn" /\ Step(t, task)
      /\ workspace' \in {"none", "there", "left"}
  BY DEF StopAsking, IInv, TasksOK, JobOK
<1>2. task \in Task
  BY <1>1 DEF Task
<1>3. task.pc = "conclude" /\ task.judged = old.judged /\ task.shown = old.shown
  BY <1>1 DEF Task
<1> HIDE DEF task
<1>4. TaskOK(task, hasKey)
  BY <1>1, <1>3 DEF TaskOK
<1> QED
  BY <1>1, <1>2, <1>4, StepOK

\* What is judged in scope after the check has been shown.
LEMMA VerifyOK ==
    ASSUME NEW decision \in Decisions, NEW document \in Documents \cup {NoDocument},
           NEW quoted \in BOOLEAN, NEW shown \in SUBSET Documents
    PROVE  LET judged == Verify([decision |-> decision, document |-> document], quoted, shown)
           IN  judged \in Judgement /\ (judged.decision = "green" => judged.document \in shown)
  BY DEF Verify, Judgement, Decisions

LEMMA ConcludeStep ==
    ASSUME IInv, NEW t \in Tasks, Conclude(t)
    PROVE  IInv'
<1> DEFINE old == tasks[t]
           task == [old EXCEPT !.calls = 1]
<1>1. old \in Task /\ TaskOK(old, hasKey) /\ old.pc = "conclude" /\ hasKey
  BY DEF Conclude, IInv, TasksOK, TaskOK
<1>2. ASSUME Step(t, task), UNCHANGED workspace
      PROVE  IInv'
  <2>1. task \in Task
    BY <1>1 DEF Task
  <2>2. task.pc = "conclude" /\ task.judged = old.judged /\ task.shown = old.shown
    BY <1>1 DEF Task
  <2> HIDE DEF task
  <2>3. TaskOK(task, hasKey) /\ workspace' \in {"none", "there", "left"}
    BY <1>1, <1>2, <2>2 DEF TaskOK, IInv, JobOK
  <2> QED
    BY <1>2, <2>1, <2>3, StepOK
<1>3. ASSUME NEW decision \in Decisions, NEW document \in Documents \cup {NoDocument},
             NEW quoted \in BOOLEAN,
             End(t, "some", Verify([decision |-> decision, document |-> document],
                                   quoted, old.shown))
      PROVE  IInv'
  <2>1. old.shown \in SUBSET Documents
    BY <1>1 DEF Task
  <2> QED
    BY <1>1, <1>3, <2>1, VerifyOK, EndOK
<1> QED
  BY <1>2, <1>3, GiveOK DEF Conclude

------------------------------------------------------------------------------
\* Where every task is as it was, or starts, or is off.
LEMMA RestartedOK ==
    ASSUME IInv, UNCHANGED hasKey, NEW next \in [Tasks -> Task], tasks' = next,
           \A t \in Tasks : next[t] = Started(t) \/ next[t] = Off \/ next[t] = tasks[t]
    PROVE  TasksOK'
  BY StartedOK, OffOK DEF IInv, TasksOK

LEMMA LastOK ==
    /\ Last("none") = 0
    /\ \A kind \in Kinds : Last(kind) \in 1 .. 3
  BY DEF Last, Kinds

LEMMA BeginStep ==
    ASSUME IInv, NEW kind \in Kinds, NEW found \in SUBSET Requests, Begin(kind, found)
    PROVE  IInv'
<1> DEFINE first == Stages(kind, found)[1]
           next == [t \in Tasks |-> IF t \in first THEN Started(t) ELSE Off]
<1>1. tasks' = next /\ UNCHANGED hasKey
  BY DEF Begin
<1> HIDE DEF first
<1>2. next \in [Tasks -> Task]
  BY StartedOK, OffOK
<1>3. \A t \in Tasks : next[t] = Started(t) \/ next[t] = Off
  OBVIOUS
<1>4. TasksOK'
  BY <1>1, <1>2, <1>3, RestartedOK
<1>5. JobOK'
  <2>1. job' = kind /\ stage' = 1 /\ requests' = found /\ workspace' = "none" /\ failed' = FALSE
    BY DEF Begin
  <2>2. 1 \in 0 .. Last(kind)
    BY LastOK
  <2> QED
    BY <2>1, <2>2 DEF JobOK
<1> QED
  BY <1>4, <1>5 DEF IInv

LEMMA StagesLength ==
    ASSUME NEW kind \in Kinds, NEW found
    PROVE  Len(Stages(kind, found)) = Last(kind)
  BY DEF Stages, Kinds, Last

LEMMA AdvanceStep ==
    ASSUME IInv, Advance
    PROVE  IInv'
<1>1. PICK found \in IF job = "message" /\ stage = 1 THEN Found ELSE {requests} :
         LET next == IF ~Continues \/ stage = Len(Stages(job, found)) THEN 0 ELSE stage + 1 IN
         /\ requests' = found
         /\ stage' = next
         /\ tasks' = [t \in Tasks |->
                         IF next # 0 /\ t \in Stages(job, found)[next] THEN Started(t)
                         ELSE tasks[t]]
  BY DEF Advance
<1> DEFINE starting == {t \in Tasks : stage' # 0 /\ t \in Stages(job, found)[stage']}
           next == [t \in Tasks |-> IF t \in starting THEN Started(t) ELSE tasks[t]]
<1>2. tasks' = next /\ UNCHANGED <<hasKey, job, workspace>>
  BY <1>1 DEF Advance
<1> HIDE DEF starting
<1>3. next \in [Tasks -> Task]
  BY StartedOK DEF IInv, TasksOK
<1>4. \A t \in Tasks : next[t] = Started(t) \/ next[t] = tasks[t]
  OBVIOUS
<1>5. TasksOK'
  BY <1>2, <1>3, <1>4, RestartedOK
<1>6. found \in SUBSET Requests
  BY <1>1 DEF Found, IInv, JobOK
<1>7. job \in Kinds /\ failed' \in BOOLEAN
  BY DEF Advance, IInv, JobOK
<1>8. stage' = 0 \/ (stage # Len(Stages(job, found)) /\ stage' = stage + 1)
  BY <1>1
<1>9. stage' \in 0 .. Last(job)
  BY <1>7, <1>8, LastOK, StagesLength DEF IInv, JobOK
<1>10. JobOK'
  BY <1>1, <1>2, <1>6, <1>7, <1>9 DEF IInv, JobOK
<1> QED
  BY <1>5, <1>10 DEF IInv

LEMMA InitOK == Init => IInv
<1> SUFFICES ASSUME Init PROVE IInv
  OBVIOUS
<1>1. JobOK
  <2>1. 0 \in 0 .. Last("none")
    BY LastOK
  <2>2. job = "none" /\ stage = 0 /\ requests = {} /\ workspace = "none" /\ failed = FALSE
    BY DEF Init
  <2> QED
    BY <2>1, <2>2 DEF JobOK
<1>2. TasksOK
  BY OffOK DEF Init, TasksOK
<1> QED
  BY <1>1, <1>2 DEF IInv

LEMMA NextOK == IInv /\ [Next]_vars => IInv'
<1> SUFFICES ASSUME IInv, [Next]_vars PROVE IInv'
  OBVIOUS
<1>1. CASE UNCHANGED vars
  BY <1>1 DEF vars, IInv, JobOK, TasksOK
<1>2. ASSUME NEW t \in Tasks, Work(t)
      PROVE  IInv'
  BY <1>2, JsonStep, CloneStep, TurnStep, ToolsStep, StopAskingStep, ConcludeStep DEF Work
<1>3. ASSUME Ask
      PROVE  IInv'
  BY <1>3, BeginStep DEF Ask
<1> QED
  BY <1>1, <1>2, <1>3, AdvanceStep DEF Next

\* IInv holds in every state of the jobs.
THEOREM Invariance == Spec => []IInv
<1> QED
  BY InitOK, NextOK, PTL DEF Spec

\* run_agent, run_json, build_solution: whatever the limits are, no agent makes
\* more calls than its turns and the two last, and no job goes beyond its
\* stages.
THEOREM AgentsTypes == Spec => []TypeOK
<1>1. IInv => TypeOK
  BY LastOK DEF IInv, JobOK, TasksOK, TypeOK
<1> QED
  BY <1>1, Invariance, PTL

\* match_against_contract and _verify: with any documents and requests, nothing
\* is judged in scope on a document that its own agent was not shown.
THEOREM GreenHasGround == Spec => []GreenIsGrounded
<1>1. IInv => GreenIsGrounded
  BY DEF IInv, TasksOK, TaskOK, GreenIsGrounded, Tasks
<1> QED
  BY <1>1, Invariance, PTL
==============================================================================
