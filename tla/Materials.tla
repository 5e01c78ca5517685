------------------------------- MODULE Materials -------------------------------
(***************************************************************************)
(* The materials of a project: files found in mails and channels, their    *)
(* originals and texts, their classification by background tasks, and the  *)
(* tickets people assign them to.  Every handler saves the whole document  *)
(* it read, however long ago that was.                                     *)
(*                                                                         *)
(* A file stands for its unique key (owner, connection, providerFileId),   *)
(* which mails shown in two projects share.  What a text says, sizes and   *)
(* types of files are left out.                                            *)
(***************************************************************************)
EXTENDS Naturals, Sequences, Functions

CONSTANTS
    Files,
    MailFiles,     \* the files that came with a mail, the others are Slack's
    OldFiles,      \* those that may be registered without a title of old
    NoFile,
    Projects,
    NoProject,
    Tickets,
    NoTicket,      \* a material without a ticket is the whole project's
    ProjectOf,     \* Tickets -> Projects
    Workers,       \* requests and their background tasks
    HasStore,      \* is an object storage configured?
    MaxRequests,   \* bound: requests that register or assign files
    MaxFailures    \* bound: failed requests and restarts

ASSUME MaterialsAssumption ==
    /\ MailFiles \subseteq Files
    /\ OldFiles \subseteq MailFiles
    /\ NoFile \notin Files
    /\ NoProject \notin Projects
    /\ NoTicket \notin Tickets
    /\ ProjectOf \in [Tickets -> Projects]
    /\ HasStore \in BOOLEAN
    /\ MaxRequests \in Nat
    /\ MaxFailures \in Nat

VARIABLES
    materials,   \* file -> its document
    runs,        \* file -> the status of its classification run, or "none"
    synced,      \* the files whose message a synchronisation has stored
    workers,
    requests,
    failures,
    lost         \* files whose classification a failure dropped (history)

stored == <<materials, runs, synced>>
bounds == <<requests, failures, lost>>
vars == <<stored, workers, bounds>>

Ended == {"COMPLETED", "FAILED"}
Status == {"PENDING", "PROCESSING"} \cup Ended

\* What decides the type and the summary of a classified material: nothing
\* yet, its name, or its text.
Basis == {"none", "name", "text"}

Material ==
    [project : Projects \cup {NoProject}, ticket : Tickets \cup {NoTicket},
     status : Status, basis : Basis,
     titled : BOOLEAN,     \* conversationTitle
     text : BOOLEAN,       \* extractedText
     kept : BOOLEAN]       \* storageKey

Absent ==
    [project |-> NoProject, ticket |-> NoTicket, status |-> "PENDING",
     basis |-> "none", titled |-> FALSE, text |-> FALSE, kept |-> FALSE]

Registered(f) == materials[f].project # NoProject

Idle == [pc |-> "idle", via |-> "", project |-> NoProject, todo |-> {},
         file |-> NoFile, copy |-> Absent, tasks |-> <<>>]

Become(w, worker) == workers' = [workers EXCEPT ![w] = worker]

\* The files whose classification is left to a worker.
Held(worker) ==
    Range(worker.tasks) \cup (IF worker.pc = "run" THEN {worker.file} ELSE {})

\* save(): the whole copy, whatever is stored by now.
Save(w) ==
    materials' = [materials EXCEPT ![workers[w].file] = workers[w].copy]

MayAsk == requests < MaxRequests /\ requests' = requests + 1

MayFail == failures < MaxFailures /\ failures' = failures + 1

------------------------------------------------------------------------------
(* Registering files: discover_materials for the attachments of the mails  *)
(* on display, sync_source_link for the attachments of new messages.       *)

Discover(w, p, files) ==
    /\ workers[w].pc = "idle"
    /\ files \subseteq MailFiles
    /\ MayAsk
    /\ Become(w, [Idle EXCEPT !.pc = "next", !.via = "discover", !.project = p,
                              !.todo = files])
    /\ UNCHANGED <<stored, failures, lost>>

\* A message is new only once, whatever project it is delivered to.
Synchronize(w, p, files) ==
    /\ workers[w].pc = "idle"
    /\ files \cap synced = {}
    /\ MayAsk
    /\ synced' = synced \cup files
    /\ Become(w, [Idle EXCEPT !.pc = "next", !.via = "sync", !.project = p,
                              !.todo = files])
    /\ UNCHANGED <<materials, runs, failures, lost>>

\* insert(): the unique key keeps one document per file.  A Slack file has no
\* title of a conversation.
Registers(f, p) ==
    IF Registered(f) THEN materials
    ELSE [materials EXCEPT ![f] =
            [Absent EXCEPT !.project = p, !.titled = (f \in MailFiles)]]

RegisterFile(w, f) ==
    LET worker == workers[w]
    IN  /\ worker.pc = "next"
        /\ f \in worker.todo
        /\ materials' = Registers(f, worker.project)
        /\ Become(w, [worker EXCEPT !.todo = @ \ {f}, !.file = f,
                        !.copy = IF Registered(f) THEN Absent ELSE materials'[f],
                        !.pc = IF Registered(f) THEN "reread" ELSE "fetch"])
        /\ UNCHANGED <<runs, synced, bounds>>

\* The copy when a file was registered before; discover fills in a title.
Reread(w) ==
    LET worker == workers[w]
        doc    == materials[worker.file]
        title  == worker.via = "discover" /\ ~doc.titled
    IN  /\ worker.pc = "reread"
        /\ Become(w, [worker EXCEPT
                        !.copy = [doc EXCEPT !.titled = @ \/ title],
                        !.pc = IF title THEN "title" ELSE "fetch"])
        /\ UNCHANGED <<stored, bounds>>

SaveTitle(w) ==
    /\ workers[w].pc = "title"
    /\ Save(w)
    /\ Become(w, [workers[w] EXCEPT !.pc = "fetch"])
    /\ UNCHANGED <<runs, synced, bounds>>

\* _store_gmail_attachment_original, _store_material_original and
\* _fetch_material_live: the copies worth saving after an original was fetched.
\* The text may not be found, which is worth a save too, and the storage may
\* refuse the object, which is not.
WithOriginal(copy) ==
    {[copy EXCEPT !.text = @ \/ new.text, !.kept = @ \/ new.kept] :
        new \in {x \in [text : BOOLEAN, kept : {FALSE, HasStore}] : copy.text => x.kept}}

\* Where a worker goes on when it has an original, or none.
Fetched(worker) ==
    IF worker.via = "download" THEN Idle
    ELSE [worker EXCEPT !.pc = "run", !.copy = Absent]

\* The original is fetched unless the material has a text; any error is
\* swallowed, and so is a file that is too large.
FetchOriginal(w) ==
    LET worker == workers[w]
    IN  /\ worker.pc = "fetch"
        /\ \/ Become(w, Fetched(worker))
           \/ /\ worker.via = "download" \/ ~worker.copy.text
              /\ \E copy \in WithOriginal(worker.copy) :
                    Become(w, [worker EXCEPT !.copy = copy, !.pc = "store"])
        /\ UNCHANGED <<stored, bounds>>

StoreOriginal(w) ==
    /\ workers[w].pc = "store"
    /\ Save(w)
    /\ Become(w, Fetched(workers[w]))
    /\ UNCHANGED <<runs, synced, bounds>>

\* The task of a run is added whenever its file is met, classified or not.
Scheduled(worker) ==
    [worker EXCEPT !.pc = "next", !.file = NoFile, !.tasks = Append(@, worker.file)]

\* _ensure_material_run: a unique key keeps one run per material.
EnsureMaterialRun(w) ==
    LET f == workers[w].file
    IN  /\ workers[w].pc = "run"
        /\ runs' = [runs EXCEPT ![f] = IF @ = "none" THEN "PENDING" ELSE @]
        /\ Become(w, Scheduled(workers[w]))
        /\ UNCHANGED <<materials, synced, bounds>>

\* A mutant: it goes on for tasks when none are left.
Running_always(tasks) == [Idle EXCEPT !.pc = "start", !.tasks = tasks]

\* The response, with its background tasks.
Running(tasks) ==
    IF tasks = <<>> THEN Idle ELSE [Idle EXCEPT !.pc = "start", !.tasks = tasks]

Respond(w) ==
    /\ workers[w].pc = "next"
    /\ workers[w].todo = {}
    /\ Become(w, Running(workers[w].tasks))
    /\ UNCHANGED <<stored, bounds>>

------------------------------------------------------------------------------
(* Classification: classify_material_run *)

ReadRun(w) ==
    LET f == Head(workers[w].tasks)
    IN  /\ workers[w].pc = "start"
        /\ Become(w, [workers[w] EXCEPT !.pc = "mark", !.file = f,
                        !.copy = [materials[f] EXCEPT !.status = "PROCESSING"]])
        /\ UNCHANGED <<stored, bounds>>

MarkMaterial(w) ==
    /\ workers[w].pc = "mark"
    /\ Save(w)
    /\ Become(w, [workers[w] EXCEPT !.pc = "markRun"])
    /\ UNCHANGED <<runs, synced, bounds>>

MarkRun(w) ==
    /\ workers[w].pc = "markRun"
    /\ runs' = [runs EXCEPT ![workers[w].file] = "PROCESSING"]
    /\ Become(w, [workers[w] EXCEPT !.pc = "classify"])
    /\ UNCHANGED <<materials, synced, bounds>>

\* A mutant: without a text there is nothing to classify by.
ByName_none(copy) == "none"

\* Without a text, or an answer of the model, the name decides.
ByName(copy) == "name"

\* What type and summary may come from: the text, if there is one, or the name.
Bases(copy) ==
    {ByName(copy)} \cup (IF copy.text \/ copy.kept THEN {"text"} ELSE {})

\* Its text may be found in the stored original first.  The model answers or
\* does not; an exception makes the classification FAILED and leaves what the
\* copy was given before it.
Classified(copy) ==
    {[copy EXCEPT !.status = new.status, !.text = new.text, !.basis = new.basis] :
        new \in {x \in [status : Ended, text : {copy.text, copy.text \/ copy.kept},
                        basis : {copy.basis} \cup Bases(copy)] :
                    x.status = "COMPLETED" => x.basis \in Bases(copy)}}

Classify(w) ==
    LET worker == workers[w]
    IN  /\ worker.pc = "classify"
        /\ \E copy \in Classified(worker.copy) :
              /\ copy.basis = "text" => copy.text
              /\ Become(w, [worker EXCEPT !.copy = copy, !.pc = "finish"])
        /\ UNCHANGED <<stored, bounds>>

FinishMaterial(w) ==
    /\ workers[w].pc = "finish"
    /\ Save(w)
    /\ Become(w, [workers[w] EXCEPT !.pc = "finishRun"])
    /\ UNCHANGED <<runs, synced, bounds>>

\* A mutant: the run of a failed classification is left as it is.
Outcome_completed(w) ==
    IF workers[w].copy.status = "COMPLETED" THEN "COMPLETED" ELSE runs[workers[w].file]

Outcome(w) == workers[w].copy.status

FinishRun(w) ==
    /\ workers[w].pc = "finishRun"
    /\ runs' = [runs EXCEPT ![workers[w].file] = Outcome(w)]
    /\ Become(w, Running(Tail(workers[w].tasks)))
    /\ UNCHANGED <<materials, synced, bounds>>

\* An exception of the run's own save() makes what was COMPLETED FAILED.
RunNotSaved(w) ==
    /\ workers[w].pc = "finishRun"
    /\ workers[w].copy.status = "COMPLETED"
    /\ MayFail
    /\ Become(w, [workers[w] EXCEPT !.pc = "finish", !.copy.status = "FAILED"])
    /\ UNCHANGED <<stored, requests, lost>>

------------------------------------------------------------------------------
(* People: assign_material_ticket, download_material_file *)

\* A mutant: any ticket of the owner will do.
MayAssign_any(f, t) == Registered(f)

\* The material and the ticket are looked up in the same project.
MayAssign(f, t) ==
    /\ Registered(f)
    /\ t # NoTicket => ProjectOf[t] = materials[f].project

AssignRead(w, f, t) ==
    /\ workers[w].pc = "idle"
    /\ MayAssign(f, t)
    /\ MayAsk
    /\ Become(w, [Idle EXCEPT !.pc = "assign", !.file = f,
                              !.copy = [materials[f] EXCEPT !.ticket = t]])
    /\ UNCHANGED <<stored, failures, lost>>

AssignSave(w) ==
    /\ workers[w].pc = "assign"
    /\ Save(w)
    /\ Become(w, Idle)
    /\ UNCHANGED <<runs, synced, bounds>>

\* A stored original is sent as it is; without one, or when the storage does
\* not answer, it is fetched again.
Download(w, f) ==
    /\ workers[w].pc = "idle"
    /\ Registered(f)
    /\ MayAsk
    /\ Become(w, [Idle EXCEPT !.pc = "fetch", !.via = "download", !.file = f,
                              !.copy = materials[f]])
    /\ UNCHANGED <<stored, failures, lost>>

------------------------------------------------------------------------------
(* Failures *)

\* An error of the database leaves the handler, or the task: the tasks that
\* are left are dropped with it.
Fail(w) ==
    /\ workers[w].pc # "idle"
    /\ MayFail
    /\ lost' = lost \cup Held(workers[w])
    /\ Become(w, Idle)
    /\ UNCHANGED <<stored, requests>>

\* The process is restarted.
Restart ==
    /\ MayFail
    /\ lost' = lost \cup UNION {Held(workers[w]) : w \in Workers}
    /\ workers' = [w \in Workers |-> Idle]
    /\ UNCHANGED <<stored, requests>>

------------------------------------------------------------------------------
Init ==
    /\ \E p \in Projects, old \in SUBSET OldFiles :
         materials = [f \in Files |->
                        IF f \in old THEN [Absent EXCEPT !.project = p] ELSE Absent]
    /\ runs = [f \in Files |-> "none"]
    /\ synced = {}
    /\ workers = [w \in Workers |-> Idle]
    /\ requests = 0
    /\ failures = 0
    /\ lost = {}

Continue(w) ==
    \/ \E f \in Files : RegisterFile(w, f)
    \/ Reread(w)
    \/ SaveTitle(w)
    \/ FetchOriginal(w)
    \/ StoreOriginal(w)
    \/ EnsureMaterialRun(w)
    \/ Respond(w)
    \/ ReadRun(w)
    \/ MarkMaterial(w)
    \/ MarkRun(w)
    \/ Classify(w)
    \/ FinishMaterial(w)
    \/ FinishRun(w)
    \/ AssignSave(w)

Next ==
    \/ \E w \in Workers :
         \/ \E p \in Projects, files \in (SUBSET Files) \ {{}} :
              Discover(w, p, files) \/ Synchronize(w, p, files)
         \/ \E f \in Files, t \in Tickets \cup {NoTicket} : AssignRead(w, f, t)
         \/ \E f \in Files : Download(w, f)
         \/ Continue(w)
         \/ Fail(w)
         \/ RunNotSaved(w)
    \/ Restart

\* As in Ingest: what runs goes on, nobody has to ask.
Fairness == \A w \in Workers : WF_vars(Continue(w))

Spec == Init /\ [][Next]_vars /\ Fairness

------------------------------------------------------------------------------
(* Properties *)

Worker ==
    [pc : {"idle", "next", "reread", "title", "fetch", "store", "run", "start",
           "mark", "markRun", "classify", "finish", "finishRun", "assign"},
     via : {"", "discover", "sync", "download"},
     project : Projects \cup {NoProject}, todo : SUBSET Files,
     file : Files \cup {NoFile}, copy : Material, tasks : Seq(Files)]

\* The state's types, and what a worker holds at each place.
TypeOK ==
    /\ materials \in [Files -> Material]
    /\ runs \in [Files -> {"none"} \cup Status]
    /\ synced \subseteq Files
    /\ workers \in [Workers -> Worker]
    /\ requests \in Nat
    /\ failures \in Nat
    /\ lost \subseteq Files
    /\ \A w \in Workers :
         /\ workers[w].pc \notin {"idle", "next", "start"} =>
                /\ workers[w].file \in Files
                /\ Registered(workers[w].file)
                /\ workers[w].pc \notin {"reread", "run"} =>
                       workers[w].copy.project # NoProject
         /\ workers[w].pc \in {"start", "mark", "markRun", "classify", "finish", "finishRun"} =>
                workers[w].tasks # <<>>

\* Documents are saved whole, often long after they were read, and two
\* projects may show the same file: still the ticket of a material is one of
\* the project the material belongs to.
TicketOfItsProject ==
    \A f \in Files :
        materials[f].ticket # NoTicket =>
            ProjectOf[materials[f].ticket] = materials[f].project

\* A classified material has a type and a summary even when no text was found
\* and the model did not answer ("the materials' tab would look empty"), and
\* if the text decided, it is there: no stale save tears the two apart.
ClassifiedHasBasis ==
    \A f \in Files :
        /\ materials[f].status = "COMPLETED" => materials[f].basis # "none"
        /\ materials[f].basis = "text" => materials[f].text

\* Every run that was created ends, unless a failure drops its task.
RunEnds ==
    \A f \in Files : runs[f] # "none" ~> (runs[f] \in Ended \/ f \in lost)

\* Only a person takes a material away from its ticket ("ticketId=null makes
\* it the project's again").
AssignmentKept ==
    [][\A f \in Files :
          materials'[f].ticket # materials[f].ticket =>
              \E w \in Workers :
                 workers[w].pc = "assign" /\ workers[w].file = f /\ workers'[w] = Idle]_materials
==============================================================================
