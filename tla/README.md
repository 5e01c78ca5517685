# A verification of agreed_be

agreed_be is the back end (FastAPI, MongoDB through Beanie) of a service in which
a freelancer and a client agree on work: messages and pasted conversations are
read by a language model, become tickets and requirement cards, a person decides,
and agreed cards are applied to a living contract, version by version. This
directory holds TLA+ models of that program, the TLC runs that check them and the
TLAPS proofs about them.

## 1. The system

Every handler is a coroutine on one event loop; **each awaited call (database,
language model, provider) is a point where other handlers run**. There are no
transactions. `save()` writes every field of the document; `insert()` is refused
with `DuplicateKeyError` by a unique index, the only arbiter between handlers.
The service runs as one instance (`deploy/terraform/main.tf`, `max_size = 1`),
except during a deployment, when the old and the new one overlap.

| Component | State | Operations | Talks to | What makes it correct |
| --- | --- | --- | --- | --- |
| State machine (`core/state_machine.py`) | none | transition table, `LLM_PROPOSABLE`, `demote` | called by every card handler | decisions are people's: the model never proposes one, demotion never invents one |
| Contract ledger (`app/api/contract.py`, the contract routes of `app/api/projects.py`, `core/contract_ops.py`, `models/contract.py`, index migration in `app/main.py`) | contract versions, indexes | register, apply, read | reads cards | a chain of versions without gap, fork or edit, each explained by an agreement; an apply takes effect once |
| Requirement cards (`app/api/analyze.py`, `requirements.py`, `requirement_analysis.py`, `app/requirement_sync.py`) | cards with status, decision, timeline | human transition, analysis of a pasted conversation, card per extra request | language model; client requests; read by the ledger | the timeline explains the status; only people decide; a confirmed decision survives; one card per request |
| Tickets and decisions (`app/api/tickets.py`, solution, reply draft and status routes of `projects.py`) | client requests, ticket decisions | save decision, mark sent, solution, status | messages, cards, model | one decision per message and request; sent is final; a closed ticket stays closed |
| Synchronisation and analysis runs (`projects.py`) | source messages, analysis runs, client requests | sync, background analysis, crash | providers, model | a message is stored and analysed once; what is stored is eventually analysed |
| Materials (`projects.py`) | project materials, their runs | discover, download, classify, assign | providers, object storage, model | an assignment is not undone |
| Sessions, OAuth, connections (`app/auth.py`, `app/oauth.py`, `app/integration_store.py`, `app/api/auth.py`, `email.py`, `slack.py`, `github.py`) | users, sessions, OAuth states, integrations | sign up, log in, log out, connect, refresh | providers | a state is consumed once by its user; a token is bound to one account |
| Agent harness (`infra/llm/harness.py`, `orchestrator.py`, `subagents/`) | call counters, deadline | agent loop, sub-agents, fallbacks | model | bounded calls and time; always an answer |
| Pure algorithms (`core/grounding.py`, `core/channel_data.py`, `infra/ingest/paste.py`) | none | quote check, grouping, parsing | | agree with their reference definitions |

Left aside: prompts, response envelopes, OpenAPI texts, cryptography (library
calls), text extraction and object storage (pure I/O), scripts.

The hard behaviours: whole-document saves of copies read before a long wait
(the language model takes up to tens of seconds); check-then-insert without an
index; background tasks that die with the process; a deployment that changes
indexes under a serving instance; retries by clients. `PROJECT.json` lists each
under "hazards", at its line.

## 2. Modules

| Module | Models | Kind |
| --- | --- | --- |
| `RequirementStates` | statuses, `TRANSITIONS`, `LLM_PROPOSABLE`, `demote` | constant level |
| `ContractLedger` | the contract collection, its four writing handlers, deployments | state machine |
| `AtomicLedger` | what the contract routes promise: register and extend in one step | abstract specification |
| `ContractLedger_proof` | theorems about `ContractLedger` | proofs |
| `RequirementCards` | cards and the handlers that write them | state machine |
| `RequirementCards_proof` | theorems about `RequirementCards` | proofs |
| `Agreement` | both over one database | composition |
| `Agreement_proof` | theorems about `Agreement`, from those about the cards and the ledger | proofs |
| `Tickets` | tickets, decisions and every handler that writes them | state machine |
| `Tickets_proof` | theorems about `Tickets` | proofs |
| `Ingest` | synchronisation of links, messages, analysis runs, background tasks, restarts | state machine |
| `Ingest_proof` | theorems about `Ingest` | proofs |
| `Materials` | files of a project, fetching, classification runs, assignment | state machine |
| `Materials_proof` | theorems about `Materials` | proofs |
| `Connections` | sessions, approvals, callbacks, renewal of tokens | state machine |
| `Connections_proof` | theorems about `Connections` | proofs |
| `Agents` | jobs of the language model: stages, tasks, agent loop, fallbacks | state machine |
| `Agents_proof` | theorems about `Agents` | proofs |
| `Inbox` | grouping of mails, splitting of pasted texts, checking of quotations | pure functions |
| `MC...` | constants for TLC | model checking |

Definitions named like `Merged_swapped`, `NeverTaken` or `ApplyReplacesAmount`
and marked "a mutant" are deliberate bugs: substituted for the definition that
follows them they make a property fail, which shows that the property can.

### ContractLedger

`contracts` is the set of documents (a fresh `id` keeps two documents of equal
content apart); `calls[w]` is what an in-flight request has
read. One action per awaited call: `CreateRead` is the existence check of
`create_contract` / `create_project_contract`; `ApplyReadRequirement`,
`OwnerReadApplied` / `OwnerReadContract` and, in the opposite order,
`ProjectReadContract` / `ProjectReadApplied` are the reads of the two apply
handlers; the approval gate and `apply_to_contract` run inside the last read
(`Prepare`), because no await separates them; `Insert` / `InsertFails` is
`insert()` against the four unique indexes (`DuplicateKey`); `OwnerReread` is the
owner route's answer after a conflict; `Abandon` ends a request anywhere.
`_applied_result`'s second read is merged with the first one: versions are never
changed, so nothing can happen between them that changes the answer. `cards` is
an environment here (`CreateCard`, `EditCard`). A deployment is `StartInstance`,
`DropOwnerIndex` for each owner-wide index, then `InitBeanie`, which builds them
again or fails; handlers of the old instance run in between. `agreed` is a
history variable: every card content ever stored as agreed.

The owner of all documents is fixed, as every query filters on `ownerId`.

### RequirementCards

`cards` maps ids to documents, `workers` holds what a handler has read.
`ReadForTransition` + `SaveCard` is `transition_project_requirement`,
`ReadForChangeStatus` + `SaveCard` is `change_status` (legacy cards without a
project, no timeline). `AnalyzeRead`, `ModelReplies`, and one `MergeIntoCard` or
`MergeAsNew` per item of the reply are `POST /analyze`; the copies read at the
start (`seen`) are what is saved. The reply is any member of `Replies`, within
the L1 schema; L2 (quotes) is abstracted into which items reach the reply, L3 is
`Judge`. `FlagRequest`, `SyncReadRequests`, `SyncReadCards` and one `SyncCreate`
per request are `sync_requirements_from_requests`. Evidence, category and texts
of a card are left out: no handler branches on them.

### Agreement

`Agreement` EXTENDS `RequirementCards` and INSTANCEs `ContractLedger` with
`cards` replaced by what the ledger reads of a card. `LedgerStep` is a step of the
ledger's own handlers or of a deployment, and leaves all of `RequirementCards` alone;
`CardStep` is a step of a card handler, and leaves the contracts alone. So what a run
can find out about the composition is whether card steps are `CreateCard` and `EditCard`
of the ledger.

### Tickets

`tickets` and `decisions` map ids, in the order of insertion, to documents;
`workers[w]` holds what a request or a background task has read and where it goes
on (`pc`). `save_decision` is `DecideRead` (up to the first write), then
`RemoveTarget`, or `ReadTarget` / `ReadNumbers` and `WriteTarget`, then
`StoreDecision` or `DeleteDecision`. `MarkSentRead` and `DraftRead` read a decision
and go on to `StoreDecision`; `StatusRead` and `SolveRead` read a ticket and go on
to `SaveTicket`. The analysis of a message is `AnalyzeStart` (the model's requests,
each matched to a ticket that was active then), a `ReadForItem` with `Attach` or
`WriteItem` per request, then `ReadStale` and `DeleteStale`. Numbering reads
(`NextOrdinal`, `NextCode`) are one step: between them nothing else of the handler
happens, and a clash is refused by the index either way. `save()` is an upsert, so
a stale save may bring back a deleted document; a unique index that refuses a write
ends the handler (a 500, or the run FAILED). No step need ever be followed by
another, so a process that dies between two steps is covered.
Which background tasks are lost then belongs to `Ingest`. `Routed` is the
read of `_routed_messages`. A person may decide
on any message of the project, as the handler takes them all: shown with the ticket or
not, analysed or not. `Kinds` names the handlers of an instance. A request that is matched to no ticket, texts, categories, drafts and
evidence carry no more than the properties tell apart. `chosen` is a history
variable: the statuses people asked for. Cards made from tickets are in
`RequirementCards`.

### Ingest

`stored` tells for which link a message was stored, `runs` the status of its
analysis run; a message stands for its unique key, so a link that lists it again,
or another link of the same owner, meets the same message. `workers[w]` is a
synchronisation and, after its response, its background tasks. `Fetch` is the
provider's list, of which any part may be left to read; per message of the list
come `FindMessage` and `InsertMessage` (`_upsert_source_message`) and `EnsureRun`
(`_ensure_run` and `add_task`). `Respond` is the response, `Refuse` the 502 for an
error that is caught (the framework runs the tasks after either); then `StartRun` and
`FinishRun` for one task after the other (`analyze_source_run`). `Fail` is an error
nobody catches, which drops the tasks that are left, `Restart` a restart of the
process. `_ensure_run` is one step, because only the request that stored the
message calls it. `lost` is a history variable: messages whose task was dropped.
The list is processed in any order. The attachments of a message are in
`Materials`, the content of the analysis is in `Tickets`. Links are given: no route
changes or deletes one.

### Materials

`materials` maps a file, which stands for its unique key, to its document, `runs` to
the status of its classification run. `workers[w]` is a request and, after its
response, its background tasks; `copy` is the document it read and will save as a
whole. `Discover` is `discover_materials` for the attachments of the mails shown,
`Synchronize` the part of `sync_source_link` for the attachments of new messages; both
go through `RegisterFile` and `Reread` (`insert()`, and the document read again when
the unique key refuses it), `SaveTitle`, `FetchOriginal` and `StoreOriginal`
(`_store_gmail_attachment_original`, `_store_material_original`), and
`EnsureMaterialRun` (`_ensure_material_run` and `add_task`) for each file.
`ReadRun`, `MarkMaterial`, `MarkRun`, `Classify`, `FinishMaterial` and `FinishRun`
are `classify_material_run`, one action per awaited write, its `except` branch
included (`Classified`: what the material was given before the exception is saved with
FAILED; `RunNotSaved`: the last save of the run raises, and the material becomes FAILED
after all). `AssignRead` and `AssignSave` are `assign_material_ticket`, `Download` is
`download_material_file`. `basis` tells by what a material was classified, its name
or its text. `Fail`, `Restart` and `lost` are as in `Ingest`. Sizes, media types and
what a text says are left out.

### Connections

A flow is one approval: the state sent along, the code that comes back and the
tokens given for it carry its name, so that every stored token tells where it comes
from. `sessions` and `browser` (session cookie, one state cookie per provider) are
written by `SignIn`, `SignOut` and `Refused` (`app/api/auth.py`,
`get_current_user`). `Connect` asks for an approval, `Consent` is the person at the
provider, `Callback` is `consume_oauth_state` with the deletion of the cookie,
`Exchange` is `exchange_code`, then `Find` and `Insert` or `SaveConnection` are
`save_gmail_connection` and `save_slack_connection`. `ReadMail` (`_fresh_token`, the
mailbox saved last, with a minute to spare) and `ReadLink`
(`_gmail_connection_token`, to the last second) begin a renewal, `Refresh` is
`refresh_access_token`, which goes on to the same `Find`. `Age`, `SessionExpires`
and `FlowExpires` are time. There is one browser: two people who do not share one
have nothing in common but the database, where every key begins with the user.

### Agents

`job` and `stage` are one of the four kinds of work and where it is
(`analyze_request_message`, `build_solution`, `ask_repository`, single calls such as
`reply_draft`); `tasks` is what each task of it has done. `Json` is `run_json`, `Turn`,
`Tools` and `StopAsking` are the loop of `run_agent`, `Conclude` is `_conclude` with
`_verify` for the comparison with the contract, `Clone` is `cloned_repo`. `Advance` is
`gather(..., return_exceptions=True)`, the fallbacks, and the next stage. Time counts
per agent, as far as the loop looks at it: a call may take nothing or `CallTime`, the
tools of a turn nothing or `ToolTime`. Jobs share nothing, so they are run one after the other.

### Inbox

The state is the input: a list of mails or a pasted conversation, grown by one entry
at a time. `GroupByCompany` is `group_gmail_by_company`, `Utterances` is
`to_utterances`, `GroundEvidence` and `IsQuoteIn` are the two checks of
`core/grounding.py`. The properties restate what they should answer in another way:
by places in the result instead of by grouping, by pieces of the pasted line instead of
by containment in a normalised text.

## 3. Runs

| Run | Module, cfg | Expect | Properties | Shows |
| --- | --- | --- | --- | --- |
| `ledger` | `MCContractLedger`, `Ledger.cfg` | pass | `TypeOK`, `OneDocumentPerVersion`, `EveryVersionIsAgreed`, `AppliedOnce`, `AppendOnly`, `ImplementsAtomicLedger` | Two concurrent requests on one project's contract and on the owner-level contract, two cards edited at will, and a deployment that drops and rebuilds the owner-wide indexes: every interleaving of reads, gates, inserts and abandoned requests keeps both contracts a chain of agreed versions, and the project's behaves as if each request read and wrote it in one step, though only the project-scoped indexes are always there. |
| `agreement_cards` | `MCAgreement`, `Agreement_cards.cfg` | pass | `CardsTypeOK`, `HistoryExplainsStatus`, `OnlyPeopleDecide`, `ImplementsContractLedger` | Two handlers interleave over one card (person, analysis, synchronisation), or one of them with a contract request that reads it, overwriting each other's whole documents: the timeline still explains the status, no overwrite lets the model decide, and whatever is written is a CreateCard or an EditCard of ContractLedger, so the ledger's theorems apply to the composed system. |
| `agreement_table` | `MCAgreement`, `Agreement_table.cfg` | violation | `StatusFollowsTheTable` | One handler at a time: an item of a reply that names no card is judged as a new requirement and then saved over the card of the same title, which so goes where the transition table does not let it go. |
| `tickets_serial` | `MCTickets`, `Tickets_serial.cfg` | pass | `SplitMessageMoves` | One request at a time: however a person decides, changes, sends and clears decisions, also on tickets that were split off themselves, while messages are analysed, a message split off is shown with its new ticket and no longer with the old one. |
| `tickets_interleaved` | `MCTickets`, `Tickets_interleaved.cfg` | pass | `TypeOK`, `StatusWasChosen`, `SolutionIsCurrent` | Two handlers overwrite each other's whole tickets and split tickets off, and either may stop between any two steps: still no ticket is closed that nobody closed, and no solution speaks of other messages than the ticket has. |
| `tickets_analysis` | `MCTickets`, `Tickets_analysis.cfg` | violation | `AnalysisDeletesOnlyItsOwn` | One handler at a time: a person splits a ticket off from a message that is still to be analysed; the analysis finds fewer requests and deletes the ticket. |
| `ingest_sync` | `MCIngest`, `Ingest_sync.cfg` | pass | `TypeOK`, `OneHolder`, `Accounted`, `AnalysedOnce`, `MessageStays`, `StoredIsAnalysed` | Two synchronisations of two links that share a message, with their background tasks, errors and a restart: each message is stored once and analysed at most once, and what is stored is analysed in the end unless a failure drops its task. |
| `materials_shared` | `MCMaterials`, `Materials_shared.cfg` | pass | `TypeOK`, `TicketOfItsProject`, `ClassifiedHasBasis`, `RunEnds` | One file found in two projects at once, registered, fetched, classified, assigned and downloaded by two overlapping handlers with an error or a restart: its ticket is one of its own project, what is classified can say by what, and every classification run ends unless a failure drops its task. |
| `materials_assignment` | `MCMaterials`, `Materials_assignment.cfg` | violation | `AssignmentKept` | A handler that read a material before a person assigned it to a ticket saves its whole copy afterwards, and the material is the project's again. |
| `connections_shared` | `MCConnections`, `Connections_shared.cfg` | pass | `TypeOK`, `ConnectedByStarter`, `TokensOfOneApproval` | Two people who share a browser sign in and out while approvals are under way, callbacks are loaded twice, come late or overlap with renewals, which overlap each other: every connection belongs to the one who asked for it, and a mailbox's two tokens come from one approval. |
| `agents_jobs` | `MCAgents`, `Agents_jobs.cfg` | pass | `TypeOK`, `GreenIsGrounded`, `AlwaysAnswers` | Analyses, solutions, questions about a repository and single calls, with and without a key, every call failing, slow or malformed at will: agents stay within their turns, a request is in scope only with a document its own tools showed, and every job ends with an answer. |
| `inbox_read` | `MCInbox`, `Inbox_read.cfg` | pass | `MailsAreGrouped`, `QuotesAreOfTheirLine` | The pure functions on every list of three mails and every conversation of two lines within the bounds, against what they should answer: no mail is lost, shown twice or shown under the user, and a quotation that says something counts exactly if it is a piece of the line it names. |

`CHECK_DEADLOCK FALSE` is set where the system may stop: with a bounded number of
documents and messages all work may be done.

## 4. Bounds

Every bound is a constant named in the module: `Ids` (how many
contract documents) and `MaxDeploys` (`ContractLedger`), `MaxHistory` (`RequirementCards`),
`MaxItems`, `MaxTickets`, `MaxDecisions` and `MaxChoices` (`Tickets`). Two concurrent requests are
enough for every conflict of the ledger: a handler only ever conflicts with what
is stored, and one other request stores it. Two cards with one decision give the double apply, the second version and the stale
base; the third document is the first whose
base can be an applied version itself; one deployment drops the indexes once. One card is
there from the start, and a state constraint (`MCCardsOfProject`) keeps the second one in the
same project: cards of no project go to the owner's contract alone, by the same handlers.
Two status
changes per card suffice for an overwrite; two workers for one card, since a save
overwrites one other save. `agreement_cards` has one card, which may be a
legacy one, two workers and one contract request; a state constraint (`MCOverlaps`) lets
the request run, and contracts be there, only while at most one card handler is under way: a
contract step is the ledger's own and changes no card (section 2). `agreement_table`
has one worker, and shows that no overlap is needed. For tickets: two messages, since an
attachment needs a second one; in `tickets_serial` three tickets and three decisions allow a
ticket split off from a split-off ticket and a change of mind; in `tickets_interleaved` two
workers, since a stale save needs one other save, two tickets and one decision, which
are an analysis and a split at once. An instance has the handlers its properties depend on
(`Kinds`); sending and drafts only write decisions, so they are left to `tickets_serial`.
For synchronisation: two links that
share one message and two workers, the least that race for a message; two messages
to be analysed and one that is only stored, so that a worker has a task that runs and one that
waits; `MaxFailures` is one failure. For materials: one file found in two projects, one
ticket of the first, two workers and two requests (`MaxRequests`), the least that make
a stale save, with one failure. For connections: two users, two sessions and two
approvals (`Flows`), one mailbox and one workspace, two workers, so that a person
changes under an approval and a renewal overlaps a callback; two renewals
(`MaxRequests`) and two expiries of anything (`MaxExpiries`), so that two renewals of one
mailbox overlap and another token may run out meanwhile. For agents: two requests side by side and one
document; `MaxTurns`, `Budget`, `CallTime` and `ToolTime` are small numbers in which
either limit, turns or time, may be met first. For the pure functions: three mails with
two times (the least with a tie and an order), five spelled addresses of three
companies' kinds, my own spelled in two ways; two lines of up to three characters of four kinds, a limit of two
for a speaker's name, quotations of up to two characters. Request, worker and document
ids are symmetric, but in the runs that check liveness (`ingest_sync`,
`materials_shared`, `agents_jobs`) no symmetry is used. The proofs have no bounds.

## 5. Fairness

Three specifications state fairness, and only they have liveness properties. In
`Ingest` and `Materials`, `Fairness` is weak fairness of `Continue(w)`,
the next step of a request or background task that runs. The code justifies it: a
coroutine that waits for nothing is scheduled by the event loop, and what it waits
for are database calls and calls with a time limit (`HTTP_TIMEOUT_SECONDS`,
`REQUEST_TIMEOUT_SECONDS`, eight seconds each) that answer or raise; what is raised is
`Refuse`, `Fail` or a run that FAILED. Nothing is assumed of `Fetch`, `Discover`,
`Synchronize`, `AssignRead` and `Download` (nobody has to ask), of `Refuse`, `Fail` or
`Restart`. In `Agents` it is weak fairness of `Advance` and of each `Work(t)`, for
the same reason: a call has its eight seconds, git its 25 (`git_workspace.py`); the
tools of a turn, which read the database or the clone, are assumed to end. The other
specifications state no fairness: their handlers promise progress only while the
process lives.

## 6. Proofs

`ContractLedger_proof` proves, for every value of the constants under the three
assumptions of `ContractLedger` (`ScopesAssumption`, `DataAssumption`,
`BoundsAssumption`: distinct "none" values, integer amounts, sequences of titles),
the ledger's type invariant, its three state invariants, `AppendOnly`, and the
refinement `Spec => ImplementsAtomicLedger`.

The stated invariants are not inductive. `IInv` adds
- `CallsOK`: what a handler holds still tells the truth when it is used. A
  document about to be inserted is a first version, or follows (`FollowsBy`) a
  version that is *still stored*; a card it holds was agreed if it says so
  (`AgreedOf ... \subseteq agreed`). This survives other handlers because versions
  and agreements only grow (`CallOKMonotone`).
- `CardsAgreed`: the history variable covers the cards.
- `Gapless`: below an existing version every version exists. Without it an insert
  that no index refuses might skip a version or extend an old one. With it, a
  successor of a stored version that is not refused is the successor of the
  newest (`AtomicInsert`), which is what the refinement needs.
- `IndexesInPlace`: until an instance starts, both owner-wide indexes exist.

`NoTwin` is the place where the indexes enter: within a protected scope no
stored document shares the inserted one's version or card. `Protected` names the
scopes: every project always, the owner-level contract until a deployment.

There is one lemma per shape of step (`CallStep`, `ReturnStep`, `PrepareStep`,
`StoreStep`, `DeployStep`, `InsertStep`); `HandlerStep` and `NextOK` put them
together, `Invariance` is the theorem `Spec => []IInv`.

`Ingest_proof` proves the five safety properties of `Ingest` under
`IngestAssumption`. `Accounted` and `OneHolder` are not inductive alone: `IInv` adds
`PhasesOK` (what a worker holds is stored and to be analysed, its tasks are distinct
and PENDING but for the one that is PROCESSING, a message about to get its run has
none) and `RunsAreStored` (a message that is not stored has no run). With them a step
of one worker cannot touch a run another one holds (`OthersKept`); there is one
lemma per action, and `QuietStep` for those that change neither message nor run.

`Connections_proof` proves the type invariant, `ConnectedByStarter` and
`TokensOfOneApproval` under `ConnectionsAssumption`, for any users, accounts, approvals
and overlapping requests. The two properties speak of stored tokens; what keeps them
true is what requests hold before they write. `IInv` adds `WorkersOK` (a request that
exchanges a code is the user's who asked for it; one that will write holds an approval
of its user for its account, whose code is spent, and so does the refresh token it
read), `ConnectionsOK` (the same of what is stored) and `FlowsOK` (an approval that came
back has a user, one that was given an account). Approvals only move forward
(`FlowsKept`), so `StepOK` leaves to each action what it changes.

`RequirementCards_proof`, `Materials_proof`, `Agents_proof` and `Tickets_proof` prove their
properties for any number of overlapping handlers. One thought
carries them: a handler stores a whole document it read long before, so an invariant of
the stored documents is inductive only if it is also said of every copy in flight.
- Cards: `IInv` says of each card, of each document about to be saved and of each card an
  analysis has read that its timeline leads to its status and that a person's entry ends it
  if it is decided. `OnlyPeopleDecide` and `HistoryExplainsStatus` follow.
- Materials: `IInv` says of each copy that its ticket is of its project and its
  classification has its basis (`DocOK`), and that it is of the project its file is of
  now (`HolderOK`): a file never leaves its project (`ProjectsKept`).
- Agents: `IInv` adds to the types that without a key no agent is under way, that what is
  judged in scope was shown to the task that judges, and how many stages a job has
  (`JobOK`). `TasksAssumption` says that the names of the tasks are distinct.
- Tickets: `IInv` says of each ticket and of each copy that its solution covers its messages
  and that somebody asked for its status. That `Max` and `Min` exist in
  `_next_ticket_code` and `_routed_messages` needs a bound (`Bounded`) and the least-number
  principle (`NatMinimum`, from the library's well-foundedness of the naturals); with
  them `NumbersFree` shows that the next number is not taken.

No theorem has a hypothesis about which handlers overlap: what holds only if some do not is
not a property of this code, and is in section 7.

`Agreement_proof` proves the refinement step by step. A step of a card handler writes at most
one card, never removes one and never changes what project, title and request it is of
(`CopiesOK`, `StepWritesCard`), which is what the ledger asks of its environment
(`CardStepMaps`); a step of a contract handler is one of the ledger's. The ledger's own
theorems are then taken over by instantiating `ContractLedger_proof` with the refinement
mapping (`LedgerPromises`, and `FlowIsAtomic` for the refinement of the ledger in turn), under `AgreementAssumption`: integer figures, scopes that are
projects or the owner's, and "absent" distinct from any card as the ledger reads it.
The composed system is also one behaviour of the card handlers (`CardsFollowed`), so their
theorems hold in it (`FlowFollowed`).

Model-checked only: `Inbox`, `SplitMessageMoves` (for one request at a time), the liveness
properties (`StoredIsAnalysed`, `RunEnds`, `AlwaysAnswers`), and that the properties of the
violation runs fail. Liveness and ENABLED are out of the
prover's reach, and so is what the folds and `SelectSeq` in `Inbox` compute for lists of
any length: it takes an induction over the list.

## 7. Disagreements found

1. `agreement_table` violates `StatusFollowsTheTable` (src/app/api/analyze.py:88). A reply item without existingId is demoted against '미확정' (infra/llm/extract.py:74-75), then app/api/analyze.py:85-99 looks a card of the same title up and saves the item's status over it, without asking the table again: a card at '제안', moved there by a person, goes back to '요청'. core/state_machine.py:8-12 lists where each status may go ('정상 전이표. 각 상태에서 갈 수 있는 다음 상태를 나열한다', nothing leads out of '거절' and '완료'), and ARCHITECTURE.md:135 says that what the model proposes is checked against the earlier status of the card and demoted to '미확정' if it cannot be reached ('도달 불가능한 경우 요청을 거부하는 대신 '미확정' 상태로 강등한다').
2. `tickets_analysis` violates `AnalysisDeletesOnlyItsOwn` (src/app/api/projects.py:1085). save_decision takes any message of the project and gives the ticket it splits off the message's next request ordinal (app/api/tickets.py:436-442, 469-480). The analysis of that message then deletes every ticket of the message from its own count of requests on, whoever made it (app/api/projects.py:1079-1085). The comment at app/api/projects.py:1077-1078 says that it deletes the cards an earlier analysis left ('재분석에서 새 티켓 수가 줄면 앞선 분석이 남긴 카드를 지운다'); the ticket deleted was made by a person's decision, which keeps pointing at it.
3. `materials_assignment` violates `AssignmentKept` (src/app/api/projects.py:1191). classify_material_run saves the material it read before text extraction and the model's call (so do the fetching of an original and discover_materials), and with it the ticketId of that time: an assignment made meanwhile is undone although nobody asked for it. models/project_material.py:19 says that a material with a ticketId belongs to that ticket alone ('값이 있으면 해당 티켓 전용 자료다') and app/api/projects.py:676 that it returns to the project when a request says ticketId=null ('ticketId=null이면 프로젝트 공용으로 되돌린다').

Further disagreements that the models show, and that no run is kept for. All but the last two
need two handlers that overlap; each is a few awaits away from a state the code reaches:
- An analysis saves a card it read before a person confirmed a decision, and the decision is
  gone (`app/api/analyze.py:99`); `infra/llm/extract.py:51` says that a re-analysis keeps it.
- Two synchronisations both miss the card of a request and create it twice
  (`app/requirement_sync.py:52`), and both cards can be applied;
  `app/requirement_sync.py:41` calls `sourceRequestId` the idempotency key, and no unique
  index enforces it.
- Two people move one card from "proposed", one to "agreed" and one to "rejected"
  (`app/api/requirement_analysis.py:154-178`): the second save goes over the first, and a
  decided card goes to another decision, which the table excludes.
- `save_decision` saves a decision it read before `mark_sent`, and the mark is gone
  (`app/api/tickets.py:508`); `app/api/tickets.py:453` says that a sent judgement cannot be
  changed.
- A solution computed from a ticket read before a person closed it opens it again
  (`app/api/projects.py:547`), against `DOMAIN_SPEC.md:51` and `app/api/projects.py:1017-1018`;
  the same save detaches a message attached meanwhile, against `models/client_request.py:22`.
- The second of two overlapping decisions on one message is refused by the index after it
  stored its ticket (`app/api/tickets.py:501`), which no decision points at then.
- Without any overlap: what `tickets_analysis` deletes leaves a decision whose target is gone
  (`app/api/projects.py:1085`).
- Without any overlap: an agent's worst case is its budget, one more call begun before its end
  and two concluding calls, besides its tools, about 30 + 8 + 2 * 8 = 54 seconds
  (`infra/llm/harness.py:151-171`, `201-206`); `DATA_AI_PIPELINE.md:168-171` says that with
  the budget the whole does not grow to 48 (so does `infra/llm/harness.py:36-37`).

In `ledger` an instance may fail to start: a contract written by the old
instance while the new one has dropped the owner-wide indexes makes them unbuildable.
A ticket rewritten by a changed decision keeps the solution of its former text
(`app/api/tickets.py:483`).

A stored message whose background task is dropped by a failure is never analysed: a
new synchronisation finds the message stored and schedules nothing
(`app/api/projects.py:893`), and its run stays PENDING or PROCESSING. No doc rules
this out; in `Ingest` it is `lost`. A channel linked to two projects delivers each
message to the project that synchronises first (`MessageStays`).

Read in the code while modelling, and not checked by a run:
- The owner-wide unique indexes (`models/contract.py:21`) refuse the version 1 of a
  second project with 409, where `ARCHITECTURE.md:64` asks for one unique index per
  project; `app/main.py:55` drops the owner-wide ones and `init_beanie` rebuilds them.
- An apply judges a requirement it read three awaits before its insert
  (`app/api/projects.py:1593`); `ARCHITECTURE.md:137` says only agreed cards are applied.
  `EveryVersionIsAgreed` asks that the content was agreed once.
- For a ticket that was split off, the unsent decision of the ticket it came from is
  found first (`app/api/tickets.py:300`), against `USER_FLOW.md:41` and `270-271`.
- A provider that does not answer a renewal for a moment is shown as "disconnected"
  (`app/api/email.py:99-101`), which line 131 keeps for a mailbox that must be
  connected again. A renewal that began before a new approval saves the older tokens
  over the newer ones; a renewal for a synchronisation makes its mailbox the one saved
  last, which the badge then shows (`app/integration_store.py:60`); a second approval
  asked in another tab takes the first one's cookie (`app/oauth.py:87`); two callbacks
  that insert one connection at once end in an uncaught `DuplicateKeyError`.
- A stale save may leave a material PROCESSING whose run has COMPLETED, and
  `discover_materials` classifies every file again each time.
- A quotation of blanks or quotation marks counts as grounded in any utterance that
  exists (`core/grounding.py:25`), and one of quotation marks in any document, though
  `is_quote_in` says that an empty quotation is none and that the rule is the same for both
  (`core/grounding.py:43-45`). `QuotesAreOfTheirLine` is about quotations that say
  something, and asserts nothing of these.
- `project_context` saves the project it read before the repository was explored
  (`app/api/projects.py:409`) and undoes an edit made meanwhile.

## 8. Not modelled

- A project's own fields (create, edit, status, home card, development context):
  single writes that no other handler decides on.
- Pasting a GitHub token: stored like a Slack connection, without an approval; with
  it the instance of `Connections` grows past what TLC checks in minutes.
- Creating a source link: one insert.
- Provider clients, text extraction, object storage: calls of external services;
  what comes back is a choice of the environment in the modules that use it.
- Prompts, sample extraction, reply texts, response envelopes, public views, OpenAPI
  texts, password hashing and token encryption: formatting and library calls without
  state. `subagents/ticket_advice.py` is called by no route.
- Deployment files and scripts, but for what a deployment does to the contract
  indexes.

## 9. Plan

1. (done) `RequirementStates`, `ContractLedger` with `AtomicLedger` and its proofs,
   `RequirementCards`, `Agreement`.
2. (done) `Tickets`.
3. (done, with its proofs) `Ingest`: synchronisation, runs, background tasks, crash and restart, message
   keys; liveness of the analysis under weak fairness of the process.
4. (done) `Materials`; `Connections`, with sessions and approvals, and its proofs.
5. (done) `Agents`; the pure functions against what they should answer (`Inbox`).
6. Projects' own fields, with the stale save of `project_context`; pasted GitHub tokens.
7. (done) Proofs about `RequirementCards`, `Agreement`, `Materials`, `Agents`, `Tickets`.
8. Not proved here: liveness, and what the folds of `Inbox` compute for lists of any length.
