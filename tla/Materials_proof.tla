---------------------------- MODULE Materials_proof ----------------------------
(***************************************************************************)
(* Proofs about Materials, for any files, projects, tickets and overlapping *)
(* requests and background tasks: IInv is inductive.  Documents are saved  *)
(* whole from copies read long before, so the invariant speaks of the      *)
(* copies: each is consistent in itself and of a project its file cannot   *)
(* leave.                                                                  *)
(***************************************************************************)
EXTENDS Materials, TLAPS

\* What the two properties say of one document.
DocOK(doc) ==
    /\ doc.ticket # NoTicket => ProjectOf[doc.ticket] = doc.project
    /\ doc.status = "COMPLETED" => doc.basis # "none"
    /\ doc.basis = "text" => doc.text

HasFile == {"reread", "title", "fetch", "store", "run", "mark", "markRun", "classify",
            "finish", "finishRun", "assign"}
HasCopy == HasFile \ {"reread", "run"}
HasTasks == {"start", "mark", "markRun", "classify", "finish", "finishRun"}

\* What a worker holds, at each place, when the stored documents are docs.
HolderOK(worker, docs) ==
    /\ worker.pc \in HasFile =>
         worker.file \in Files /\ docs[worker.file].project # NoProject
    /\ worker.pc \in HasCopy => worker.copy.project = docs[worker.file].project
    /\ DocOK(worker.copy)
    /\ worker.pc \in HasTasks => worker.tasks # <<>>
    /\ \A i \in DOMAIN worker.tasks : docs[worker.tasks[i]].project # NoProject
    /\ worker.pc \in {"next", "reread", "title", "run"} => worker.project \in Projects
    /\ worker.pc \in {"fetch", "store"} /\ worker.via # "download"
         => worker.project \in Projects

IInv ==
    /\ TypeOK
    /\ \A f \in Files : DocOK(materials[f])
    /\ \A w \in Workers : HolderOK(workers[w], materials)

------------------------------------------------------------------------------
(* What a step leaves alone                                                *)

\* A file never leaves its project.
ProjectsKept ==
    \A f \in Files :
        materials[f].project # NoProject => materials'[f].project = materials[f].project

LEMMA HolderKept ==
    ASSUME ProjectsKept, NEW worker \in Worker, HolderOK(worker, materials)
    PROVE  HolderOK(worker, materials')
<1>1. \A i \in DOMAIN worker.tasks : worker.tasks[i] \in Files
  <2>1. worker.tasks \in Seq(Files)
    BY DEF Worker
  <2> QED
    BY <2>1
<1> QED
  BY <1>1 DEF HolderOK, ProjectsKept, HasCopy, HasFile

\* It is enough to look at the documents and the worker that change.
LEMMA StepOK ==
    ASSUME IInv, ProjectsKept, NEW w \in Workers, NEW worker \in Worker,
           Become(w, worker),
           HolderOK(worker, materials) \/ HolderOK(worker, materials'),
           materials' \in [Files -> Material],
           \A f \in Files : DocOK(materials'[f]),
           runs' \in [Files -> {"none"} \cup Status], synced' \subseteq Files,
           requests' \in Nat, failures' \in Nat, lost' \subseteq Files
    PROVE  IInv'
<1>1. ASSUME NEW v \in Workers PROVE workers'[v] \in Worker /\ HolderOK(workers'[v], materials')
  <2>1. workers[v] \in Worker /\ HolderOK(workers[v], materials)
    BY DEF IInv, TypeOK
  <2>2. workers'[v] = workers[v] \/ workers'[v] = worker
    BY DEF IInv, TypeOK, Become
  <2> QED
    BY <2>1, <2>2, HolderKept
<1>2. workers' \in [Workers -> Worker]
  BY DEF IInv, TypeOK, Become
<1>3. ASSUME NEW v \in Workers
      PROVE  /\ workers'[v].pc \notin {"idle", "next", "start"} =>
                    /\ workers'[v].file \in Files
                    /\ Registered(workers[v].file)'
                    /\ workers'[v].pc \notin {"reread", "run"} =>
                           workers'[v].copy.project # NoProject
             /\ workers'[v].pc \in HasTasks => workers'[v].tasks # <<>>
  <2>1. workers'[v].pc \notin {"idle", "next", "start"} => workers'[v].pc \in HasFile
    BY <1>1 DEF Worker, HasFile
  <2> QED
    BY <1>1, <2>1 DEF HolderOK, HasCopy, Registered
<1>4. TypeOK'
  BY <1>2, <1>3 DEF TypeOK, HasTasks
<1> QED
  BY <1>1, <1>4 DEF IInv

\* Steps of one worker that save nothing.
LEMMA WorkerStep ==
    ASSUME IInv, NEW w \in Workers, NEW worker \in Worker, Become(w, worker),
           HolderOK(worker, materials), UNCHANGED <<materials, lost>>,
           runs' \in [Files -> {"none"} \cup Status], synced' \subseteq Files,
           requests' \in Nat, failures' \in Nat
    PROVE  IInv'
<1>1. ProjectsKept
  BY DEF ProjectsKept
<1>2. /\ materials' \in [Files -> Material] /\ lost' \subseteq Files
      /\ \A f \in Files : DocOK(materials'[f])
  BY DEF IInv, TypeOK
<1> QED
  BY <1>1, <1>2, StepOK

LEMMA AbsentOK == Absent \in Material /\ DocOK(Absent)
<1>1. Absent \in Material
  BY DEF Absent, Material, Status, Basis
<1>2. DocOK(Absent)
  BY DEF Absent, DocOK
<1> QED
  BY <1>1, <1>2

LEMMA IdleOK ==
    /\ Idle \in Worker /\ Idle.pc = "idle" /\ Idle.tasks = <<>> /\ Idle.copy = Absent
    /\ HolderOK(Idle, materials) /\ HolderOK(Idle, materials')
<1>1. Idle \in Worker
  BY AbsentOK DEF Idle, Worker
<1>2. Idle.pc = "idle" /\ Idle.tasks = <<>> /\ Idle.copy = Absent
  BY DEF Idle
<1> QED
  BY <1>1, <1>2, AbsentOK DEF HolderOK, HasFile, HasCopy, HasTasks

\* Saving a copy keeps the file in its project.
LEMMA SaveOK ==
    ASSUME IInv, NEW w \in Workers, Save(w), workers[w].pc \in HasCopy
    PROVE  /\ ProjectsKept
           /\ materials' \in [Files -> Material]
           /\ \A f \in Files : DocOK(materials'[f])
<1> DEFINE worker == workers[w]
<1>1. worker \in Worker /\ HolderOK(worker, materials)
  BY DEF IInv, TypeOK
<1>2. /\ worker.copy \in Material /\ worker.file \in Files /\ DocOK(worker.copy)
      /\ worker.copy.project = materials[worker.file].project
  BY <1>1 DEF Worker, HolderOK, HasCopy, HasFile
<1>3. materials' = [materials EXCEPT ![worker.file] = worker.copy]
  BY DEF Save
<1> HIDE DEF worker
<1> QED
  BY <1>2, <1>3 DEF IInv, TypeOK, ProjectsKept

\* Steps of a worker that saves its copy.
LEMMA SaveStep ==
    ASSUME IInv, NEW w \in Workers, NEW worker \in Worker, Become(w, worker),
           HolderOK(worker, materials), Save(w), workers[w].pc \in HasCopy,
           UNCHANGED <<runs, synced, bounds>>
    PROVE  IInv'
<1>1. /\ runs' \in [Files -> {"none"} \cup Status] /\ synced' \subseteq Files
      /\ requests' \in Nat /\ failures' \in Nat /\ lost' \subseteq Files
  BY DEF IInv, TypeOK, bounds
<1> QED
  BY <1>1, SaveOK, StepOK

------------------------------------------------------------------------------
(* Registering files                                                       *)

LEMMA AskSteps ==
    ASSUME IInv, NEW w \in Workers,
           \/ \E p \in Projects, files \in (SUBSET Files) \ {{}} :
                Discover(w, p, files) \/ Synchronize(w, p, files)
           \/ \E f \in Files, t \in Tickets \cup {NoTicket} : AssignRead(w, f, t)
           \/ \E f \in Files : Download(w, f)
    PROVE  IInv'
<1>1. /\ UNCHANGED <<materials, runs, failures, lost>> /\ requests' \in Nat
      /\ synced' \subseteq Files
  <2>1. UNCHANGED <<materials, runs, failures, lost>> /\ requests' = requests + 1
    BY DEF Discover, Synchronize, AssignRead, Download, MayAsk, stored
  <2>2. synced' = synced \/ \E files \in SUBSET Files : synced' = synced \cup files
    BY DEF Discover, Synchronize, AssignRead, Download, stored
  <2> QED
    BY <2>1, <2>2 DEF IInv, TypeOK
<1>2. runs' \in [Files -> {"none"} \cup Status] /\ failures' \in Nat
  BY <1>1 DEF IInv, TypeOK
<1>3. ASSUME NEW p \in Projects, NEW files \in SUBSET Files, NEW via \in {"discover", "sync"},
             Become(w, [Idle EXCEPT !.pc = "next", !.via = via, !.project = p, !.todo = files])
      PROVE  IInv'
  <2> DEFINE worker == [Idle EXCEPT !.pc = "next", !.via = via, !.project = p, !.todo = files]
  <2>1. worker \in Worker
    BY IdleOK DEF Worker
  <2>2. /\ worker.pc = "next" /\ worker.project = p /\ worker.copy = Absent
        /\ worker.tasks = <<>>
    BY DEF Idle
  <2> HIDE DEF worker
  <2>3. HolderOK(worker, materials)
    BY <2>2, AbsentOK DEF HolderOK, HasFile, HasCopy, HasTasks
  <2> QED
    BY <1>1, <1>2, <1>3, <2>1, <2>3, WorkerStep DEF worker
<1>4. ASSUME NEW f \in Files, NEW t \in Tickets \cup {NoTicket}, AssignRead(w, f, t)
      PROVE  IInv'
  <2> DEFINE copy == [materials[f] EXCEPT !.ticket = t]
             worker == [Idle EXCEPT !.pc = "assign", !.file = f, !.copy = copy]
  <2>1. /\ materials[f] \in Material /\ DocOK(materials[f]) /\ materials[f].project # NoProject
        /\ t # NoTicket => ProjectOf[t] = materials[f].project
    BY <1>4 DEF AssignRead, MayAssign, Registered, IInv, TypeOK
  <2>2. copy \in Material
    BY <2>1 DEF Material
  <2>3. /\ copy.ticket = t /\ copy.project = materials[f].project
        /\ copy.status = materials[f].status /\ copy.basis = materials[f].basis
        /\ copy.text = materials[f].text
    BY <2>1 DEF Material
  <2> HIDE DEF copy
  <2>4. DocOK(copy)
    BY <2>1, <2>3 DEF DocOK
  <2>5. worker \in Worker
    BY <2>2, IdleOK DEF Worker
  <2>6. /\ worker.pc = "assign" /\ worker.file = f /\ worker.copy = copy
        /\ worker.tasks = <<>>
    BY DEF Idle
  <2>7. Become(w, worker)
    BY <1>4 DEF AssignRead, copy
  <2> HIDE DEF worker
  <2>8. HolderOK(worker, materials)
    BY <2>1, <2>3, <2>4, <2>6 DEF HolderOK, HasFile, HasCopy, HasTasks
  <2> QED
    BY <1>1, <1>2, <2>5, <2>7, <2>8, WorkerStep
<1>5. ASSUME NEW f \in Files, Download(w, f)
      PROVE  IInv'
  <2> DEFINE worker == [Idle EXCEPT !.pc = "fetch", !.via = "download", !.file = f,
                                    !.copy = materials[f]]
  <2>1. materials[f] \in Material /\ DocOK(materials[f]) /\ materials[f].project # NoProject
    BY <1>5 DEF Download, Registered, IInv, TypeOK
  <2>2. worker \in Worker
    BY <2>1, IdleOK DEF Worker
  <2>3. /\ worker.pc = "fetch" /\ worker.via = "download" /\ worker.file = f
        /\ worker.copy = materials[f] /\ worker.tasks = <<>>
    BY DEF Idle
  <2>4. Become(w, worker)
    BY <1>5 DEF Download
  <2> HIDE DEF worker
  <2>5. HolderOK(worker, materials)
    BY <2>1, <2>3 DEF HolderOK, HasFile, HasCopy, HasTasks
  <2> QED
    BY <1>1, <1>2, <2>2, <2>4, <2>5, WorkerStep
<1> QED
  BY <1>3, <1>4, <1>5 DEF Discover, Synchronize

LEMMA RegisterStep ==
    ASSUME IInv, NEW w \in Workers, NEW f \in Files, RegisterFile(w, f)
    PROVE  IInv'
<1> DEFINE old == workers[w]
           new == [Absent EXCEPT !.project = old.project, !.titled = (f \in MailFiles)]
           copy == IF Registered(f) THEN Absent ELSE new
           worker == [old EXCEPT !.todo = old.todo \ {f}, !.file = f, !.copy = copy,
                                 !.pc = IF Registered(f) THEN "reread" ELSE "fetch"]
<1>1. old \in Worker /\ HolderOK(old, materials) /\ old.pc = "next"
  BY DEF RegisterFile, IInv, TypeOK
<1>2. old.project \in Projects /\ old.project # NoProject
  BY <1>1, MaterialsAssumption DEF HolderOK
<1>3. new \in Material /\ DocOK(new) /\ new.project = old.project
  <2>1. new \in Material
    <3>1. \A b \in BOOLEAN :
            [Absent EXCEPT !.project = old.project, !.titled = b] \in Material
      BY <1>2, AbsentOK DEF Material
    <3>2. (f \in MailFiles) \in BOOLEAN
      OBVIOUS
    <3> QED
      BY <3>1, <3>2, Zenon
  <2>2. /\ new.ticket = NoTicket /\ new.status = "PENDING" /\ new.basis = "none"
        /\ new.project = old.project
    BY DEF Absent
  <2> HIDE DEF new
  <2> QED
    BY <2>1, <2>2 DEF DocOK
<1> HIDE DEF new
<1>4. /\ materials' = IF Registered(f) THEN materials ELSE [materials EXCEPT ![f] = new]
      /\ UNCHANGED <<runs, synced, bounds>>
  BY DEF RegisterFile, Registers, new
<1>5. Become(w, worker)
  <2>1. ~Registered(f) => materials'[f] = new
    BY <1>4 DEF IInv, TypeOK
  <2>2. Become(w, [old EXCEPT !.todo = old.todo \ {f}, !.file = f,
                     !.copy = IF Registered(f) THEN Absent ELSE materials'[f],
                     !.pc = IF Registered(f) THEN "reread" ELSE "fetch"])
    BY DEF RegisterFile
  <2> QED
    BY <2>1, <2>2
<1>6. /\ materials' \in [Files -> Material]
      /\ ProjectsKept
      /\ \A x \in Files : DocOK(materials'[x])
      /\ materials'[f].project # NoProject
      /\ ~Registered(f) => materials'[f] = new
  BY <1>2, <1>3, <1>4 DEF IInv, TypeOK, ProjectsKept, Registered
<1>7. worker \in Worker
  BY <1>1, <1>3, AbsentOK DEF Worker
<1>8. /\ worker.pc = (IF Registered(f) THEN "reread" ELSE "fetch") /\ worker.file = f
      /\ worker.copy = copy /\ worker.project = old.project /\ worker.tasks = old.tasks
  BY <1>1 DEF Worker
<1> HIDE DEF worker
<1>9. HolderOK(old, materials')
  BY <1>1, <1>6, HolderKept
<1>10. HolderOK(worker, materials')
  BY <1>2, <1>3, <1>6, <1>8, <1>9, AbsentOK DEF HolderOK, HasFile, HasCopy, HasTasks
<1>11. /\ runs' \in [Files -> {"none"} \cup Status] /\ synced' \subseteq Files
       /\ requests' \in Nat /\ failures' \in Nat /\ lost' \subseteq Files
  BY <1>4 DEF IInv, TypeOK, bounds
<1> QED
  BY <1>5, <1>6, <1>7, <1>10, <1>11, StepOK

\* The same bounds of what steps that write nothing else leave alone.
LEMMA Unwritten ==
    ASSUME IInv, UNCHANGED <<runs, synced, bounds>>
    PROVE  /\ runs' \in [Files -> {"none"} \cup Status] /\ synced' \subseteq Files
           /\ requests' \in Nat /\ failures' \in Nat /\ UNCHANGED lost
  BY DEF IInv, TypeOK, bounds

\* Discovery fills in the title of a copy of an older document.
LEMMA RereadStep ==
    ASSUME IInv, NEW w \in Workers, Reread(w)
    PROVE  IInv'
<1> DEFINE old == workers[w]
           doc == materials[old.file]
           title == old.via = "discover" /\ ~doc.titled
           copy == [doc EXCEPT !.titled = doc.titled \/ title]
           worker == [old EXCEPT !.copy = copy, !.pc = IF title THEN "title" ELSE "fetch"]
<1>1. old \in Worker /\ HolderOK(old, materials) /\ old.pc = "reread"
  BY DEF Reread, IInv, TypeOK
<1>2. /\ old.file \in Files /\ doc \in Material /\ DocOK(doc) /\ doc.project # NoProject
      /\ old.project \in Projects
  BY <1>1 DEF HolderOK, HasFile, IInv, TypeOK
<1>3. copy \in Material
  <2>1. \A b \in BOOLEAN : [doc EXCEPT !.titled = b] \in Material
    BY <1>2 DEF Material
  <2>2. (doc.titled \/ title) \in BOOLEAN
    OBVIOUS
  <2> QED
    BY <2>1, <2>2, Zenon
<1>4. /\ copy.ticket = doc.ticket /\ copy.project = doc.project /\ copy.status = doc.status
      /\ copy.basis = doc.basis /\ copy.text = doc.text
  BY <1>2 DEF Material
<1>5. Become(w, worker) /\ UNCHANGED <<stored, bounds>>
  BY DEF Reread
<1> HIDE DEF copy, title
<1>6. DocOK(copy)
  BY <1>2, <1>4 DEF DocOK
<1>7. worker \in Worker
  BY <1>1, <1>3 DEF Worker
<1>8. /\ worker.pc \in {"title", "fetch"} /\ worker.file = old.file /\ worker.copy = copy
      /\ worker.project = old.project /\ worker.tasks = old.tasks
  BY <1>1 DEF Worker
<1> HIDE DEF worker
<1>9. HolderOK(worker, materials)
  BY <1>1, <1>2, <1>4, <1>6, <1>8 DEF HolderOK, HasFile, HasCopy, HasTasks
<1> QED
  BY <1>5, <1>7, <1>9, Unwritten, WorkerStep DEF stored

\* Steps of a worker with a copy that only go on to another place.
LEMMA GoesOn ==
    ASSUME IInv, NEW w \in Workers, workers[w].pc \in HasCopy \ {"assign"},
           NEW pc \in {"fetch", "markRun", "classify", "finishRun"},
           pc = "fetch" => workers[w].pc = "title",
           pc # "fetch" => workers[w].pc \in HasTasks
    PROVE  LET worker == [workers[w] EXCEPT !.pc = pc]
           IN  worker \in Worker /\ HolderOK(worker, materials)
<1> DEFINE old == workers[w]
           worker == [old EXCEPT !.pc = pc]
<1>1. old \in Worker /\ HolderOK(old, materials)
  BY DEF IInv, TypeOK
<1>2. worker \in Worker
  BY <1>1 DEF Worker
<1>3. /\ worker.pc = pc /\ worker.file = old.file /\ worker.copy = old.copy
      /\ worker.project = old.project /\ worker.tasks = old.tasks /\ worker.via = old.via
  BY <1>1 DEF Worker
<1> HIDE DEF worker
<1>4. HolderOK(worker, materials)
  BY <1>1, <1>3 DEF HolderOK, HasFile, HasCopy, HasTasks
<1> QED
  BY <1>2, <1>4 DEF worker

LEMMA SaveTitleStep ==
    ASSUME IInv, NEW w \in Workers, SaveTitle(w)
    PROVE  IInv'
<1>1. workers[w].pc = "title" /\ "title" \in HasCopy
  BY DEF SaveTitle, HasCopy, HasFile
<1> QED
  BY <1>1, GoesOn, SaveStep DEF SaveTitle

\* Where a fetching worker goes on: to the run of its file, or home.
LEMMA FetchedOK ==
    ASSUME IInv, NEW w \in Workers, workers[w].pc \in {"fetch", "store"}
    PROVE  Fetched(workers[w]) \in Worker /\ HolderOK(Fetched(workers[w]), materials)
<1> DEFINE old == workers[w]
           next == [old EXCEPT !.pc = "run", !.copy = Absent]
<1>1. old \in Worker /\ HolderOK(old, materials)
  BY DEF IInv, TypeOK
<1>2. next \in Worker
  BY <1>1, AbsentOK DEF Worker
<1>3. /\ next.pc = "run" /\ next.file = old.file /\ next.copy = Absent
      /\ next.project = old.project /\ next.tasks = old.tasks
  BY <1>1 DEF Worker
<1> HIDE DEF next
<1>4. old.via # "download" => HolderOK(next, materials)
  BY <1>1, <1>3, AbsentOK DEF HolderOK, HasFile, HasCopy, HasTasks
<1>5. Fetched(old) = IF old.via = "download" THEN Idle ELSE next
  BY DEF Fetched, next
<1> QED
  BY <1>2, <1>4, <1>5, IdleOK

LEMMA FetchStep ==
    ASSUME IInv, NEW w \in Workers, FetchOriginal(w)
    PROVE  IInv'
<1> DEFINE old == workers[w]
<1>1. old \in Worker /\ HolderOK(old, materials) /\ old.pc = "fetch"
  BY DEF FetchOriginal, IInv, TypeOK
<1>2. UNCHANGED <<stored, bounds>>
  BY DEF FetchOriginal
<1>3. CASE Become(w, Fetched(old))
  BY <1>1, <1>2, <1>3, FetchedOK, Unwritten, WorkerStep DEF stored
<1>4. ASSUME NEW copy \in WithOriginal(old.copy),
             Become(w, [old EXCEPT !.copy = copy, !.pc = "store"])
      PROVE  IInv'
  <2> DEFINE worker == [old EXCEPT !.copy = copy, !.pc = "store"]
  <2>1. old.copy \in Material /\ DocOK(old.copy) /\ old.copy.project = materials[old.file].project
    BY <1>1 DEF Worker, HolderOK, HasCopy, HasFile
  <2>2. PICK text \in BOOLEAN, kept \in BOOLEAN :
           /\ copy = [old.copy EXCEPT !.text = old.copy.text \/ text,
                                      !.kept = old.copy.kept \/ kept]
    BY MaterialsAssumption DEF WithOriginal
  <2>3. copy \in Material
    <3>1. \A b, d \in BOOLEAN : [old.copy EXCEPT !.text = b, !.kept = d] \in Material
      BY <2>1 DEF Material
    <3>2. (old.copy.text \/ text) \in BOOLEAN /\ (old.copy.kept \/ kept) \in BOOLEAN
      OBVIOUS
    <3> QED
      BY <2>2, <3>1, <3>2, Zenon
  <2>4. /\ copy.ticket = old.copy.ticket /\ copy.project = old.copy.project
        /\ copy.status = old.copy.status /\ copy.basis = old.copy.basis
        /\ old.copy.text => copy.text
    BY <2>1, <2>2 DEF Material
  <2>5. DocOK(copy)
    BY <2>1, <2>4 DEF DocOK
  <2>6. worker \in Worker
    BY <1>1, <2>3 DEF Worker
  <2>7. /\ worker.pc = "store" /\ worker.file = old.file /\ worker.copy = copy
        /\ worker.project = old.project /\ worker.tasks = old.tasks /\ worker.via = old.via
    BY <1>1 DEF Worker
  <2> HIDE DEF worker
  <2>8. HolderOK(worker, materials)
    BY <1>1, <2>1, <2>4, <2>5, <2>7 DEF HolderOK, HasFile, HasCopy, HasTasks
  <2> QED
    BY <1>2, <1>4, <2>6, <2>8, Unwritten, WorkerStep DEF stored, worker
<1> QED
  BY <1>3, <1>4 DEF FetchOriginal

LEMMA StoreStep ==
    ASSUME IInv, NEW w \in Workers, StoreOriginal(w)
    PROVE  IInv'
<1>1. workers[w].pc = "store" /\ "store" \in HasCopy
  BY DEF StoreOriginal, HasCopy, HasFile
<1> QED
  BY <1>1, FetchedOK, SaveStep DEF StoreOriginal

LEMMA EnsureRunStep ==
    ASSUME IInv, NEW w \in Workers, EnsureMaterialRun(w)
    PROVE  IInv'
<1> DEFINE old == workers[w]
           tasks == Append(old.tasks, old.file)
           worker == [old EXCEPT !.pc = "next", !.file = NoFile, !.tasks = tasks]
<1>1. old \in Worker /\ HolderOK(old, materials) /\ old.pc = "run"
  BY DEF EnsureMaterialRun, IInv, TypeOK
<1>2. /\ old.file \in Files /\ materials[old.file].project # NoProject
      /\ old.tasks \in Seq(Files) /\ old.project \in Projects /\ DocOK(old.copy)
      /\ \A i \in DOMAIN old.tasks : materials[old.tasks[i]].project # NoProject
  BY <1>1 DEF Worker, HolderOK, HasFile
<1>3. /\ tasks \in Seq(Files)
      /\ \A i \in DOMAIN tasks : materials[tasks[i]].project # NoProject
  <2> DEFINE q == old.tasks
  <2>1. \A i \in DOMAIN tasks : tasks[i] = old.file \/ (i \in DOMAIN q /\ tasks[i] = q[i])
    BY <1>2
  <2> QED
    BY <1>2, <2>1
<1>4. /\ Become(w, worker) /\ UNCHANGED <<materials, synced, bounds>>
      /\ runs' \in [Files -> {"none"} \cup Status]
  BY <1>2 DEF EnsureMaterialRun, Scheduled, IInv, TypeOK, Status
<1> HIDE DEF tasks
<1>5. worker \in Worker
  BY <1>1, <1>3 DEF Worker
<1>6. /\ worker.pc = "next" /\ worker.copy = old.copy /\ worker.tasks = tasks
      /\ worker.project = old.project
  BY <1>1 DEF Worker
<1> HIDE DEF worker
<1>7. HolderOK(worker, materials)
  BY <1>2, <1>3, <1>6 DEF HolderOK, HasFile, HasCopy, HasTasks
<1>8. synced' \subseteq Files /\ requests' \in Nat /\ failures' \in Nat /\ UNCHANGED lost
  BY <1>4 DEF IInv, TypeOK, bounds
<1> QED
  BY <1>4, <1>5, <1>7, <1>8, WorkerStep

LEMMA RunningOK ==
    ASSUME NEW tasks \in Seq(Files),
           \A i \in DOMAIN tasks : materials[tasks[i]].project # NoProject
    PROVE  Running(tasks) \in Worker /\ HolderOK(Running(tasks), materials)
<1> DEFINE next == [Idle EXCEPT !.pc = "start", !.tasks = tasks]
<1>1. next \in Worker
  BY IdleOK DEF Worker
<1>2. next.pc = "start" /\ next.tasks = tasks /\ next.copy = Absent
  BY DEF Idle
<1> HIDE DEF next
<1>3. tasks # <<>> => HolderOK(next, materials)
  BY <1>2, AbsentOK DEF HolderOK, HasFile, HasCopy, HasTasks
<1>4. Running(tasks) = IF tasks = <<>> THEN Idle ELSE next
  BY DEF Running, next
<1> QED
  BY <1>1, <1>3, <1>4, IdleOK

LEMMA RespondStep ==
    ASSUME IInv, NEW w \in Workers, Respond(w)
    PROVE  IInv'
<1>1. workers[w] \in Worker /\ HolderOK(workers[w], materials)
  BY DEF IInv, TypeOK
<1>2. Running(workers[w].tasks) \in Worker /\ HolderOK(Running(workers[w].tasks), materials)
  BY <1>1, RunningOK DEF Worker, HolderOK
<1> QED
  BY <1>2, Unwritten, WorkerStep DEF Respond, stored

------------------------------------------------------------------------------
(* Classification                                                          *)

\* A task starts from what is stored of its file.
LEMMA ReadRunStep ==
    ASSUME IInv, NEW w \in Workers, ReadRun(w)
    PROVE  IInv'
<1> DEFINE old == workers[w]
           f == Head(old.tasks)
           copy == [materials[f] EXCEPT !.status = "PROCESSING"]
           worker == [old EXCEPT !.pc = "mark", !.file = f, !.copy = copy]
<1>1. old \in Worker /\ HolderOK(old, materials) /\ old.pc = "start"
  BY DEF ReadRun, IInv, TypeOK
<1>2. /\ old.tasks \in Seq(Files) /\ old.tasks # <<>>
      /\ \A i \in DOMAIN old.tasks : materials[old.tasks[i]].project # NoProject
  BY <1>1 DEF Worker, HolderOK, HasTasks
<1>3. f \in Files /\ materials[f].project # NoProject
  BY <1>2
<1>4. materials[f] \in Material /\ DocOK(materials[f])
  BY <1>3 DEF IInv, TypeOK
<1>5. Become(w, worker) /\ UNCHANGED <<stored, bounds>>
  BY DEF ReadRun
<1> HIDE DEF f
<1>6. copy \in Material
  BY <1>4 DEF Material, Status
<1>7. /\ copy.ticket = materials[f].ticket /\ copy.project = materials[f].project
      /\ copy.status = "PROCESSING" /\ copy.basis = materials[f].basis
      /\ copy.text = materials[f].text
  BY <1>4 DEF Material
<1> HIDE DEF copy
<1>8. DocOK(copy)
  BY <1>4, <1>7 DEF DocOK
<1>9. worker \in Worker
  BY <1>1, <1>3, <1>6 DEF Worker
<1>10. /\ worker.pc = "mark" /\ worker.file = f /\ worker.copy = copy
       /\ worker.tasks = old.tasks
  BY <1>1 DEF Worker
<1> HIDE DEF worker
<1>11. HolderOK(worker, materials)
  BY <1>2, <1>3, <1>7, <1>8, <1>10 DEF HolderOK, HasFile, HasCopy, HasTasks
<1> QED
  BY <1>5, <1>9, <1>11, Unwritten, WorkerStep DEF stored

LEMMA MarkSteps ==
    ASSUME IInv, NEW w \in Workers, MarkMaterial(w) \/ MarkRun(w)
    PROVE  IInv'
<1>1. {"mark", "markRun"} \subseteq HasCopy \cap HasTasks /\ "assign" \notin HasTasks
  BY DEF HasCopy, HasFile, HasTasks
<1>2. CASE MarkMaterial(w)
  <2>1. workers[w].pc = "mark"
    BY <1>2 DEF MarkMaterial
  <2>2. LET worker == [workers[w] EXCEPT !.pc = "markRun"]
        IN  worker \in Worker /\ HolderOK(worker, materials)
    BY <1>1, <2>1, GoesOn
  <2> QED
    BY <1>1, <1>2, <2>1, <2>2, SaveStep DEF MarkMaterial
<1>3. CASE MarkRun(w)
  <2>1. workers[w].pc = "markRun"
    BY <1>3 DEF MarkRun
  <2>2. LET worker == [workers[w] EXCEPT !.pc = "classify"]
        IN  worker \in Worker /\ HolderOK(worker, materials)
    BY <1>1, <2>1, GoesOn
  <2>3. /\ runs' \in [Files -> {"none"} \cup Status] /\ synced' \subseteq Files
        /\ requests' \in Nat /\ failures' \in Nat /\ UNCHANGED <<materials, lost>>
    BY <1>3 DEF MarkRun, IInv, TypeOK, Status, bounds
  <2> QED
    BY <1>3, <2>2, <2>3, WorkerStep DEF MarkRun
<1> QED
  BY <1>2, <1>3

\* What a classification may leave in its copy.
LEMMA ClassifiedOK ==
    ASSUME NEW old \in Material, DocOK(old), NEW copy \in Classified(old),
           copy.basis = "text" => copy.text
    PROVE  copy \in Material /\ DocOK(copy) /\ copy.project = old.project
<1>1. PICK new \in [status : Ended, text : {old.text, old.text \/ old.kept},
                    basis : {old.basis} \cup Bases(old)] :
         /\ new.status = "COMPLETED" => new.basis \in Bases(old)
         /\ copy = [old EXCEPT !.status = new.status, !.text = new.text, !.basis = new.basis]
  BY DEF Classified
<1>2. Bases(old) \subseteq {"name", "text"}
  BY DEF Bases, ByName
<1>3. new.status \in Status /\ new.basis \in Basis
  BY <1>2 DEF Material, Status, Basis
<1>4. new.text \in BOOLEAN
  <2>1. old.text \in BOOLEAN /\ (old.text \/ old.kept) \in BOOLEAN
    BY DEF Material
  <2>2. new.text \in {old.text, old.text \/ old.kept}
    OBVIOUS
  <2> QED
    BY <2>1, <2>2, Zenon
<1>5. copy \in Material
  BY <1>1, <1>3, <1>4 DEF Material
<1>6. /\ copy.ticket = old.ticket /\ copy.project = old.project
      /\ copy.status = new.status /\ copy.basis = new.basis
  BY <1>1 DEF Material
<1> QED
  BY <1>1, <1>2, <1>5, <1>6 DEF DocOK

LEMMA ClassifyStep ==
    ASSUME IInv, NEW w \in Workers, Classify(w)
    PROVE  IInv'
<1> DEFINE old == workers[w]
<1>1. old \in Worker /\ HolderOK(old, materials) /\ old.pc = "classify"
  BY DEF Classify, IInv, TypeOK
<1>2. PICK copy \in Classified(old.copy) :
         /\ copy.basis = "text" => copy.text
         /\ Become(w, [old EXCEPT !.copy = copy, !.pc = "finish"])
  BY DEF Classify
<1> DEFINE worker == [old EXCEPT !.copy = copy, !.pc = "finish"]
<1>3. old.copy \in Material /\ DocOK(old.copy) /\ old.copy.project = materials[old.file].project
  BY <1>1 DEF Worker, HolderOK, HasCopy, HasFile
<1>4. copy \in Material /\ DocOK(copy) /\ copy.project = old.copy.project
  BY <1>2, <1>3, ClassifiedOK
<1>5. worker \in Worker
  BY <1>1, <1>4 DEF Worker
<1>6. /\ worker.pc = "finish" /\ worker.file = old.file /\ worker.copy = copy
      /\ worker.tasks = old.tasks
  BY <1>1 DEF Worker
<1>7. Become(w, worker) /\ UNCHANGED <<stored, bounds>>
  BY <1>2 DEF Classify
<1> HIDE DEF worker
<1>8. HolderOK(worker, materials)
  BY <1>1, <1>3, <1>4, <1>6 DEF HolderOK, HasFile, HasCopy, HasTasks
<1> QED
  BY <1>5, <1>7, <1>8, Unwritten, WorkerStep DEF stored

LEMMA FinishMaterialStep ==
    ASSUME IInv, NEW w \in Workers, FinishMaterial(w)
    PROVE  IInv'
<1>1. workers[w].pc = "finish" /\ "finish" \in HasCopy \cap HasTasks
  BY DEF FinishMaterial, HasCopy, HasFile, HasTasks
<1> QED
  BY <1>1, GoesOn, SaveStep DEF FinishMaterial

\* A failed save of the run only changes the status of the copy.
LEMMA RunNotSavedStep ==
    ASSUME IInv, NEW w \in Workers, RunNotSaved(w)
    PROVE  IInv'
<1> DEFINE old == workers[w]
           copy == [old.copy EXCEPT !.status = "FAILED"]
           worker == [old EXCEPT !.pc = "finish", !.copy = copy]
<1>1. old \in Worker /\ HolderOK(old, materials) /\ old.pc = "finishRun"
  BY DEF RunNotSaved, IInv, TypeOK
<1>2. /\ old.copy \in Material /\ DocOK(old.copy)
      /\ old.copy.project = materials[old.file].project
  BY <1>1 DEF Worker, HolderOK, HasCopy, HasFile
<1>3. copy \in Material
  BY <1>2 DEF Material, Status, Ended
<1>4. /\ copy.ticket = old.copy.ticket /\ copy.project = old.copy.project
      /\ copy.status = "FAILED" /\ copy.basis = old.copy.basis /\ copy.text = old.copy.text
  BY <1>2 DEF Material
<1>5. Become(w, worker)
  <2>1. Become(w, [old EXCEPT !.pc = "finish", !.copy.status = "FAILED"])
    BY DEF RunNotSaved
  <2> QED
    BY <2>1, <1>1 DEF Worker
<1> HIDE DEF copy
<1>6. DocOK(copy)
  BY <1>2, <1>4 DEF DocOK
<1>7. worker \in Worker
  BY <1>1, <1>3 DEF Worker
<1>8. /\ worker.pc = "finish" /\ worker.file = old.file /\ worker.copy = copy
      /\ worker.tasks = old.tasks
  BY <1>1 DEF Worker
<1> HIDE DEF worker
<1>9. HolderOK(worker, materials)
  BY <1>1, <1>2, <1>4, <1>6, <1>8 DEF HolderOK, HasFile, HasCopy, HasTasks
<1>10. /\ runs' \in [Files -> {"none"} \cup Status] /\ synced' \subseteq Files
       /\ requests' \in Nat /\ failures' \in Nat /\ UNCHANGED <<materials, lost>>
  BY DEF RunNotSaved, MayFail, stored, IInv, TypeOK
<1> QED
  BY <1>5, <1>7, <1>9, <1>10, WorkerStep

LEMMA FinishRunStep ==
    ASSUME IInv, NEW w \in Workers, FinishRun(w)
    PROVE  IInv'
<1> DEFINE old == workers[w]
           left == Tail(old.tasks)
<1>1. old \in Worker /\ HolderOK(old, materials) /\ old.pc = "finishRun"
  BY DEF FinishRun, IInv, TypeOK
<1>2. /\ old.tasks \in Seq(Files) /\ old.tasks # <<>> /\ old.copy.status \in Status
      /\ \A i \in DOMAIN old.tasks : materials[old.tasks[i]].project # NoProject
  BY <1>1 DEF Worker, Material, HolderOK, HasTasks
<1>3. left \in Seq(Files) /\ \A i \in DOMAIN left : materials[left[i]].project # NoProject
  <2> DEFINE q == old.tasks
  <2>1. q \in Seq(Files) /\ q # <<>> /\ \A i \in DOMAIN q : materials[q[i]].project # NoProject
    BY <1>2
  <2> HIDE DEF q
  <2>2. Tail(q) \in Seq(Files) /\ \A i \in DOMAIN Tail(q) : i + 1 \in DOMAIN q /\ Tail(q)[i] = q[i + 1]
    BY <2>1
  <2>3. \A i \in DOMAIN Tail(q) : materials[Tail(q)[i]].project # NoProject
    BY <2>1, <2>2
  <2> QED
    BY <2>2, <2>3 DEF q
<1>4. /\ runs' \in [Files -> {"none"} \cup Status] /\ synced' \subseteq Files
      /\ requests' \in Nat /\ failures' \in Nat /\ UNCHANGED <<materials, lost>>
  BY <1>2 DEF FinishRun, Outcome, IInv, TypeOK, bounds
<1>5. Become(w, Running(left))
  BY DEF FinishRun
<1> HIDE DEF left
<1>6. Running(left) \in Worker /\ HolderOK(Running(left), materials)
  BY <1>3, RunningOK
<1> QED
  BY <1>4, <1>5, <1>6, WorkerStep

------------------------------------------------------------------------------
(* People and failures                                                     *)

LEMMA AssignSaveStep ==
    ASSUME IInv, NEW w \in Workers, AssignSave(w)
    PROVE  IInv'
<1>1. workers[w].pc = "assign" /\ "assign" \in HasCopy
  BY DEF AssignSave, HasCopy, HasFile
<1> QED
  BY <1>1, IdleOK, SaveStep DEF AssignSave

LEMMA HeldFiles ==
    ASSUME IInv, NEW w \in Workers
    PROVE  Held(workers[w]) \subseteq Files
<1>1. workers[w] \in Worker /\ HolderOK(workers[w], materials)
  BY DEF IInv, TypeOK
<1>2. workers[w].tasks \in Seq(Files) /\ (workers[w].pc = "run" => workers[w].file \in Files)
  BY <1>1 DEF Worker, HolderOK, HasFile
<1> QED
  BY <1>2 DEF Held, Range

LEMMA FailStep ==
    ASSUME IInv, NEW w \in Workers, Fail(w)
    PROVE  IInv'
<1>1. /\ UNCHANGED <<materials, runs, synced, requests>> /\ failures' \in Nat
      /\ lost' \subseteq Files
  BY HeldFiles DEF Fail, MayFail, stored, IInv, TypeOK
<1>2. /\ ProjectsKept /\ materials' \in [Files -> Material]
      /\ \A f \in Files : DocOK(materials'[f])
  BY <1>1 DEF ProjectsKept, IInv, TypeOK
<1>3. /\ runs' \in [Files -> {"none"} \cup Status] /\ synced' \subseteq Files
      /\ requests' \in Nat
  BY <1>1 DEF IInv, TypeOK
<1> QED
  BY <1>1, <1>2, <1>3, IdleOK, StepOK DEF Fail

LEMMA RestartStep ==
    ASSUME IInv, Restart
    PROVE  IInv'
<1>1. /\ UNCHANGED <<materials, runs, synced, requests>> /\ failures' \in Nat
      /\ lost' \subseteq Files
  BY HeldFiles DEF Restart, MayFail, stored, IInv, TypeOK
<1>2. \A w \in Workers : workers'[w] = Idle
  BY DEF Restart
<1>3. workers' \in [Workers -> Worker]
  BY IdleOK DEF Restart
<1>4. /\ "idle" \notin HasTasks
      /\ \A w \in Workers : workers'[w].pc = "idle" /\ HolderOK(workers'[w], materials')
  BY <1>2, IdleOK DEF HasTasks
<1>5. TypeOK'
  BY <1>1, <1>3, <1>4 DEF IInv, TypeOK
<1> QED
  BY <1>1, <1>4, <1>5 DEF IInv

------------------------------------------------------------------------------
LEMMA InitOK == Init => IInv
<1> SUFFICES ASSUME Init PROVE IInv
  OBVIOUS
<1>1. PICK p \in Projects, old \in SUBSET OldFiles :
         materials = [f \in Files |->
                        IF f \in old THEN [Absent EXCEPT !.project = p] ELSE Absent]
  BY DEF Init
<1> DEFINE new == [Absent EXCEPT !.project = p]
<1>2. new \in Material
  BY AbsentOK DEF Material
<1>3. new.ticket = NoTicket /\ new.status = "PENDING" /\ new.basis = "none"
  BY DEF Absent
<1>4. \A f \in Files : materials[f] = new \/ materials[f] = Absent
  BY <1>1
<1>5. materials \in [Files -> Material]
  BY <1>1, <1>2, AbsentOK
<1> HIDE DEF new
<1>6. \A f \in Files : DocOK(materials[f])
  BY <1>3, <1>4, AbsentOK DEF DocOK
<1>7. \A w \in Workers : workers[w] = Idle
  BY DEF Init
<1>8. workers \in [Workers -> Worker]
  BY IdleOK DEF Init
<1>9. TypeOK
  BY <1>5, <1>7, <1>8, IdleOK DEF Init, TypeOK
<1> QED
  BY <1>6, <1>7, <1>9, IdleOK DEF IInv

LEMMA NextOK == IInv /\ [Next]_vars => IInv'
<1> SUFFICES ASSUME IInv, [Next]_vars PROVE IInv'
  OBVIOUS
<1>1. CASE UNCHANGED vars
  BY <1>1 DEF vars, stored, bounds, IInv, TypeOK, Registered
<1>2. ASSUME NEW w \in Workers, Continue(w)
      PROVE  IInv'
  BY <1>2, RegisterStep, RereadStep, SaveTitleStep, FetchStep, StoreStep, EnsureRunStep,
     RespondStep, ReadRunStep, MarkSteps, ClassifyStep, FinishMaterialStep, FinishRunStep,
     AssignSaveStep DEF Continue
<1> QED
  BY <1>1, <1>2, AskSteps, FailStep, RunNotSavedStep, RestartStep DEF Next

\* IInv holds in every state of the materials.
THEOREM Invariance == Spec => []IInv
<1> QED
  BY InitOK, NextOK, PTL DEF Spec

\* The materials, their runs and what every request and task holds have their
\* types, wherever the requests and tasks overlap, fail or restart.
THEOREM MaterialsTypes == Spec => []TypeOK
<1>1. IInv => TypeOK
  BY DEF IInv
<1> QED
  BY <1>1, Invariance, PTL

\* assign_material_ticket looks the ticket up in the material's project, and
\* no copy saved later takes the material to another one.
THEOREM TicketsStayInProject == Spec => []TicketOfItsProject
<1>1. IInv => TicketOfItsProject
  BY DEF IInv, DocOK, TicketOfItsProject
<1> QED
  BY <1>1, Invariance, PTL

\* Whatever is saved over a classified material, by people or other tasks, it
\* keeps what its type and its summary were made from.
THEOREM ClassifiedHaveBasis == Spec => []ClassifiedHasBasis
<1>1. IInv => ClassifiedHasBasis
  BY DEF IInv, DocOK, ClassifiedHasBasis
<1> QED
  BY <1>1, Invariance, PTL

=============================================================================
