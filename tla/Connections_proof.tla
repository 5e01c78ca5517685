--------------------------- MODULE Connections_proof ---------------------------
(***************************************************************************)
(* Proofs about Connections: every reachable state, for any users,         *)
(* accounts, approvals and overlapping requests, satisfies the inductive   *)
(* invariant IInv.                                                         *)
(***************************************************************************)
EXTENDS Connections, TLAPS

\* An approval that came back was asked by a user, and, if it was given, for
\* an account.
FlowsOK ==
    \A f \in Flows :
        /\ flows[f].code # "none" => flows[f].owner \in Users
        /\ flows[f].code \in {"given", "spent"} => flows[f].account \in Accounts

\* The tokens of an approval belong to who asked for it and to the account
\* approved; they were given once its code was spent.
Gave(f, u, a) ==
    f \in Flows /\ flows[f].owner = u /\ flows[f].account = a /\ flows[f].code = "spent"

GaveIfAny(f, u, a) == f # NoFlow => Gave(f, u, a)

ConnectionOK(c, u, a) ==
    /\ GaveIfAny(c.access, u, a)
    /\ GaveIfAny(c.refresh, u, a)
    /\ c.stored /\ a \in Mailboxes => c.refresh # NoFlow /\ c.refresh = c.access

ConnectionsOK ==
    \A u \in Users, a \in Accounts : ConnectionOK(connections[<<u, a>>], u, a)

\* What a request holds, at each place, still holds when it is used.
Worker ==
    [pc : {"idle", "exchange", "refresh", "find", "save", "insert"},
     via : {"", "callback", "renewal"}, user : Users \cup {NoUser},
     account : Accounts \cup {NoAccount}, flow : Flows \cup {NoFlow},
     kept : Flows \cup {NoFlow}]

WorkerOK(worker) ==
    /\ worker.pc = "exchange" =>
         /\ worker.flow \in Flows
         /\ worker.user \in Users
         /\ flows[worker.flow].owner = worker.user
         /\ flows[worker.flow].code # "none"
         /\ worker.kept = NoFlow
    /\ worker.pc \in {"refresh", "find", "save", "insert"} =>
         /\ worker.user \in Users
         /\ worker.account \in Accounts
         /\ Gave(worker.flow, worker.user, worker.account)
         /\ GaveIfAny(worker.kept, worker.user, worker.account)

WorkersOK ==
    /\ workers \in [Workers -> Worker]
    /\ \A w \in Workers : WorkerOK(workers[w])

IInv == TypeOK /\ FlowsOK /\ ConnectionsOK /\ WorkersOK

------------------------------------------------------------------------------
(* What a step leaves alone                                                *)

\* What is known of an approval that came back stays so, and a spent code
\* stays spent.
FlowsKept ==
    \A f \in Flows :
        flows[f].code # "none" =>
            /\ flows'[f].owner = flows[f].owner
            /\ flows'[f].account = flows[f].account
            /\ flows'[f].code # "none"
            /\ flows[f].code = "spent" => flows'[f].code = "spent"

\* It is enough to look at the connections and requests that change.
LEMMA StepOK ==
    ASSUME IInv, TypeOK', FlowsOK', FlowsKept, workers' \in [Workers -> Worker],
           \A u \in Users, a \in Accounts :
              connections'[<<u, a>>] = connections[<<u, a>>]
                \/ ConnectionOK(connections[<<u, a>>], u, a)',
           \A w \in Workers : workers'[w] = workers[w] \/ WorkerOK(workers[w])'
    PROVE  IInv'
<1>1. ASSUME NEW u \in Users, NEW a \in Accounts
      PROVE  ConnectionOK(connections[<<u, a>>], u, a)'
  <2>1. ConnectionOK(connections[<<u, a>>], u, a)
    BY DEF IInv, ConnectionsOK
  <2>2. CASE connections'[<<u, a>>] = connections[<<u, a>>]
    BY <2>1, <2>2 DEF ConnectionOK, GaveIfAny, Gave, FlowsKept
  <2> QED
    BY <2>2
<1>2. ASSUME NEW w \in Workers
      PROVE  WorkerOK(workers[w])'
  <2>1. WorkerOK(workers[w])
    BY DEF IInv, WorkersOK
  <2>2. CASE workers'[w] = workers[w]
    BY <2>1, <2>2 DEF WorkerOK, GaveIfAny, Gave, FlowsKept
  <2> QED
    BY <2>2
<1> QED
  BY <1>1, <1>2 DEF IInv, ConnectionsOK, WorkersOK

\* Steps that touch neither approvals nor connections nor requests.
LEMMA QuietStep ==
    ASSUME IInv, TypeOK', UNCHANGED <<flows, connections, workers>>
    PROVE  IInv'
<1>1. FlowsKept /\ FlowsOK' /\ workers' \in [Workers -> Worker]
  BY DEF IInv, FlowsKept, FlowsOK, WorkersOK
<1> QED
  BY <1>1, StepOK

\* Steps of one request that leave the approvals and the connections alone.
LEMMA RequestStep ==
    ASSUME IInv, TypeOK', UNCHANGED <<flows, connections>>,
           NEW w \in Workers, NEW worker \in Worker, Become(w, worker),
           WorkerOK(worker)
    PROVE  IInv'
<1>1. FlowsKept /\ FlowsOK'
  BY DEF IInv, FlowsKept, FlowsOK
<1>2. /\ workers' \in [Workers -> Worker]
      /\ workers'[w] = worker
      /\ \A v \in Workers : v # w => workers'[v] = workers[v]
  BY DEF IInv, WorkersOK, Become
<1>3. WorkerOK(workers[w])'
  BY <1>2 DEF WorkerOK, Gave, GaveIfAny
<1> QED
  BY <1>1, <1>2, <1>3, StepOK

LEMMA IdleOK == Idle \in Worker /\ Idle.pc = "idle" /\ WorkerOK(Idle)
  BY DEF Idle, Worker, WorkerOK

\* Who is signed in is a user.
LEMMA SignedInIsUser ==
    ASSUME TypeOK, SignedIn
    PROVE  CurrentUser \in Users /\ browser.session \in Sessions
<1>1. browser.session \in Sessions /\ sessions[browser.session].live
  BY DEF SignedIn, CurrentUser, TypeOK
<1>2. sessions[browser.session] \in Session
  BY <1>1 DEF TypeOK
<1>3. sessions[browser.session] # NoDocument
  BY <1>1 DEF NoDocument
<1>4. sessions[browser.session].user \in Users
  BY <1>2, <1>3 DEF Session
<1>5. CurrentUser = sessions[browser.session].user
  BY DEF SignedIn, CurrentUser
<1> QED
  BY <1>1, <1>4, <1>5

------------------------------------------------------------------------------
(* Accounts and sessions                                                   *)

LEMMA SessionSteps ==
    ASSUME IInv,
           \/ \E u \in Users, s \in Sessions : SignIn(u, s)
           \/ SignOut \/ Refused \/ SessionExpires
    PROVE  IInv'
<1> USE DEF IInv
<1>1. UNCHANGED <<flows, connections, latest, workers>>
  BY DEF SignIn, SignOut, Refused, SessionExpires, store
<1>2. sessions' \in [Sessions -> Session]
  <2>1. ASSUME NEW u \in Users, NEW s \in Sessions, SignIn(u, s)
        PROVE  sessions' \in [Sessions -> Session]
    BY <2>1 DEF SignIn, TypeOK, Session
  <2>2. CASE SignOut \/ Refused
    BY <2>2 DEF SignOut, Refused, TypeOK, Session
  <2>3. CASE SessionExpires
    <3>1. browser.session \in Sessions /\ sessions[browser.session].live
      BY <2>3 DEF SessionExpires, SignedIn, CurrentUser, TypeOK
    <3>2. sessions[browser.session] # NoDocument /\ sessions[browser.session] \in Session
      BY <3>1 DEF NoDocument, TypeOK
    <3>3. sessions[browser.session] \in [user : Users, live : BOOLEAN]
      BY <3>2 DEF Session
    <3> QED
      BY <2>3, <3>1, <3>3 DEF SessionExpires, TypeOK, Session
  <2> QED
    BY <2>1, <2>2, <2>3
<1>3. browser' \in [session : Sessions \cup {NoSession},
                    state : [Providers -> Flows \cup {NoFlow}]]
  BY DEF SignIn, SignOut, Refused, SessionExpires, TypeOK
<1>4. requests' \in 0 .. MaxRequests /\ expiries' \in 0 .. MaxExpiries
  BY ConnectionsAssumption DEF SignIn, SignOut, Refused, SessionExpires, RunsOut, bounds, TypeOK
<1>5. TypeOK'
  BY <1>1, <1>2, <1>3, <1>4 DEF TypeOK
<1> QED
  BY <1>1, <1>5, QuietStep

------------------------------------------------------------------------------
(* The approval                                                            *)

\* Asking, approving and letting an approval expire change one approval that
\* no token comes from yet, or only its age.
LEMMA FlowSteps ==
    ASSUME IInv,
           \/ \E f \in Flows, p \in Providers : Connect(f, p)
           \/ \E f \in Flows, a \in Accounts \cup {NoAccount} : Consent(f, a)
           \/ \E f \in Flows : FlowExpires(f)
    PROVE  IInv'
<1> USE DEF IInv
<1>1. UNCHANGED <<sessions, connections, latest, workers>>
  BY DEF Connect, Consent, FlowExpires, store
<1>2. ASSUME NEW f \in Flows, NEW p \in Providers, Connect(f, p)
      PROVE  TypeOK' /\ FlowsOK' /\ FlowsKept
  <2> DEFINE flow == [flows[f] EXCEPT !.owner = CurrentUser, !.session = browser.session,
                                      !.provider = p, !.young = TRUE]
  <2>1. flows[f] = NewFlow /\ flows' = [flows EXCEPT ![f] = flow]
    BY <1>2 DEF Connect
  <2>2. flows[f].code = "none" /\ flow.code = "none"
    BY <2>1 DEF NewFlow, TypeOK, Flow
  <2>3. flow \in Flow
    <3>1. CurrentUser \in Users /\ browser.session \in Sessions
      BY <1>2, SignedInIsUser DEF Connect
    <3>2. p \in {"gmail", "slack"}
      BY DEF Providers, ProviderOf
    <3>3. flows[f] \in Flow
      BY DEF TypeOK
    <3> QED
      BY <3>1, <3>2, <3>3 DEF Flow
  <2> HIDE DEF flow
  <2>4. flows' \in [Flows -> Flow]
    BY <2>1, <2>3 DEF TypeOK
  <2>5. FlowsOK' /\ FlowsKept
    BY <2>1, <2>2 DEF FlowsOK, FlowsKept, TypeOK
  <2>6. browser' \in [session : Sessions \cup {NoSession},
                      state : [Providers -> Flows \cup {NoFlow}]]
    BY <1>2 DEF Connect, TypeOK
  <2>7. UNCHANGED <<requests, expiries>>
    BY <1>2 DEF Connect, bounds
  <2> QED
    BY <1>1, <2>4, <2>5, <2>6, <2>7 DEF TypeOK
<1>3. ASSUME NEW f \in Flows, NEW a \in Accounts \cup {NoAccount}, Consent(f, a)
      PROVE  TypeOK' /\ FlowsOK' /\ FlowsKept
  <2>1. flows[f].owner \in Users
    BY <1>3 DEF Consent, TypeOK, Flow
  <2>2. flows' \in [Flows -> Flow]
    BY <1>3 DEF Consent, TypeOK, Flow
  <2>3. FlowsOK' /\ FlowsKept
    BY <1>3, <2>1 DEF Consent, FlowsOK, FlowsKept, TypeOK, Flow
  <2>4. UNCHANGED <<browser, requests, expiries>>
    BY <1>3 DEF Consent, bounds
  <2> QED
    BY <1>1, <2>2, <2>3, <2>4 DEF TypeOK
<1>4. ASSUME NEW f \in Flows, FlowExpires(f)
      PROVE  TypeOK' /\ FlowsOK' /\ FlowsKept
  <2>1. flows' \in [Flows -> Flow]
    <3>1. flows[f] \in Flow
      BY DEF TypeOK
    <3>2. [flows[f] EXCEPT !.young = FALSE] \in Flow
      BY <3>1 DEF Flow
    <3> QED
      BY <1>4, <3>2 DEF FlowExpires, TypeOK
  <2>2. FlowsOK' /\ FlowsKept
    BY <1>4 DEF FlowExpires, FlowsOK, FlowsKept, TypeOK, Flow
  <2>3. UNCHANGED <<browser, requests>> /\ RunsOut
    BY <1>4 DEF FlowExpires
  <2>4. expiries' \in 0 .. MaxExpiries
    BY <2>3, ConnectionsAssumption DEF RunsOut, TypeOK
  <2> QED
    BY <1>1, <2>1, <2>2, <2>3, <2>4 DEF TypeOK
<1>5. workers' \in [Workers -> Worker]
  BY <1>1 DEF WorkersOK
<1> QED
  BY <1>1, <1>2, <1>3, <1>4, <1>5, StepOK

LEMMA CookieDeleted ==
    ASSUME TypeOK, NEW p, StateCookieDeleted(p)
    PROVE  browser' \in [session : Sessions \cup {NoSession},
                         state : [Providers -> Flows \cup {NoFlow}]]
  BY DEF TypeOK, StateCookieDeleted

\* The state names who is signed in: that is the request's user.
LEMMA CallbackStep ==
    ASSUME IInv, NEW w \in Workers, NEW f \in Flows, Callback(w, f)
    PROVE  IInv'
<1> USE DEF IInv
<1>1. UNCHANGED <<flows, connections, latest, requests, expiries>>
  BY DEF Callback, store, bounds
<1>2. CASE StateIsValid(f, CurrentUser) /\ flows[f].code # "refused"
  <2> DEFINE worker == [Idle EXCEPT !.pc = "exchange", !.via = "callback",
                                    !.user = CurrentUser, !.flow = f]
  <2>1. UNCHANGED <<sessions, browser>> /\ Become(w, worker)
    BY <1>2 DEF Callback
  <2>2. CurrentUser \in Users
    BY <1>2, SignedInIsUser DEF StateIsValid, SignedIn
  <2>3. worker \in Worker
    BY <2>2 DEF Worker, Idle
  <2>4. WorkerOK(worker)
    BY <1>2, <2>2 DEF WorkerOK, Callback, StateIsValid, Idle
  <2>5. TypeOK'
    BY <1>1, <2>1 DEF TypeOK
  <2> HIDE DEF worker
  <2> QED
    BY <1>1, <2>1, <2>3, <2>4, <2>5, RequestStep
<1>3. CASE ~(StateIsValid(f, CurrentUser) /\ flows[f].code # "refused")
  <2>1. StateCookieDeleted(flows[f].provider) /\ UNCHANGED workers
    BY <1>3 DEF Callback
  <2>2. sessions' \in [Sessions -> Session]
    BY <1>3 DEF Callback, TypeOK, Session
  <2>3. TypeOK'
    BY <1>1, <2>1, <2>2, CookieDeleted DEF TypeOK
  <2> QED
    BY <1>1, <2>1, <2>3, QuietStep
<1> QED
  BY <1>2, <1>3

\* A code is spent by the request that goes on with the account approved.
LEMMA ExchangeStep ==
    ASSUME IInv, NEW w \in Workers, Exchange(w)
    PROVE  IInv'
<1> USE DEF IInv
<1> DEFINE f == workers[w].flow
<1>1. /\ workers[w] \in Worker /\ WorkerOK(workers[w]) /\ workers[w].pc = "exchange"
      /\ f \in Flows
      /\ UNCHANGED <<sessions, connections, latest, requests, expiries>>
  BY DEF Exchange, WorkersOK, WorkerOK, store, bounds
<1>2. Spend(f) \/ UNCHANGED flows
  BY DEF Exchange
<1>3. flows' \in [Flows -> Flow]
  <2>1. flows[f] \in Flow
    BY <1>1 DEF TypeOK
  <2>2. [flows[f] EXCEPT !.code = "spent"] \in Flow
    BY <2>1 DEF Flow
  <2> QED
    BY <1>2, <2>2 DEF Spend, TypeOK
<1>4. FlowsKept /\ FlowsOK'
  <2>1. CASE Spend(f)
    BY <1>1, <2>1 DEF Spend, FlowsKept, FlowsOK, TypeOK, Flow
  <2>2. CASE UNCHANGED flows
    BY <2>2 DEF FlowsKept, FlowsOK
  <2> QED
    BY <1>2, <2>1, <2>2
<1>5. browser' \in [session : Sessions \cup {NoSession},
                    state : [Providers -> Flows \cup {NoFlow}]]
  BY CookieDeleted DEF Exchange, Failed, TypeOK
<1>6. TypeOK'
  BY <1>1, <1>3, <1>5 DEF TypeOK
<1>7. CASE Spend(f) /\ Become(w, [workers[w] EXCEPT !.account = flows[f].account, !.pc = "find"])
  <2> DEFINE worker == [workers[w] EXCEPT !.account = flows[f].account, !.pc = "find"]
  <2>1. worker \in Worker
    <3>1. flows[f].account \in Accounts \cup {NoAccount}
      BY <1>1 DEF TypeOK, Flow
    <3> QED
      BY <1>1, <3>1 DEF Worker
  <2>2. /\ workers' \in [Workers -> Worker]
        /\ workers'[w] = worker
        /\ \A v \in Workers : v # w => workers'[v] = workers[v]
    BY <1>7, <2>1 DEF WorkersOK, Become
  <2>3. flows[f].account \in Accounts
    BY <1>1, <1>7 DEF Spend, FlowsOK
  <2>4. flows'[f].code = "spent" /\ flows'[f].owner = flows[f].owner
          /\ flows'[f].account = flows[f].account
    BY <1>1, <1>7 DEF Spend, TypeOK, Flow
  <2>5. /\ worker.pc = "find" /\ worker.flow = f /\ worker.user = workers[w].user
        /\ worker.account = flows[f].account /\ worker.kept = NoFlow
        /\ workers[w].user \in Users /\ flows[f].owner = workers[w].user
    BY <1>1 DEF Worker, WorkerOK
  <2> HIDE DEF worker, f
  <2>6. WorkerOK(workers[w])'
    BY <1>1, <2>2, <2>3, <2>4, <2>5 DEF WorkerOK, Gave, GaveIfAny
  <2> QED
    BY <1>1, <1>6, <1>4, <2>2, <2>6, StepOK
<1>8. CASE Become(w, Idle)
  <2>1. /\ workers' \in [Workers -> Worker]
        /\ workers'[w] = Idle
        /\ \A v \in Workers : v # w => workers'[v] = workers[v]
    BY <1>8, IdleOK DEF WorkersOK, Become
  <2>2. workers'[w].pc = "idle"
    BY <2>1, IdleOK
  <2>3. WorkerOK(workers[w])'
    BY <2>2 DEF WorkerOK
  <2> QED
    BY <1>1, <1>6, <1>4, <2>1, <2>3, StepOK
<1> QED
  BY <1>7, <1>8 DEF Exchange, Failed

------------------------------------------------------------------------------
(* Storing and renewing a connection                                       *)

LEMMA FindStep ==
    ASSUME IInv, NEW w \in Workers, Find(w)
    PROVE  IInv'
<1> USE DEF IInv
<1> DEFINE found == connections[Key(w)]
           pc == IF found.stored THEN "save" ELSE "insert"
           worker == [workers[w] EXCEPT !.kept = found.refresh, !.pc = pc]
<1>1. /\ workers[w] \in Worker /\ WorkerOK(workers[w]) /\ workers[w].pc = "find"
      /\ UNCHANGED <<sessions, browser, flows, connections, latest, requests, expiries>>
      /\ Become(w, worker)
  BY DEF Find, WorkersOK, store, bounds
<1>2. /\ workers[w].user \in Users /\ workers[w].account \in Accounts
      /\ Gave(workers[w].flow, workers[w].user, workers[w].account)
  BY <1>1 DEF WorkerOK
<1>3. ConnectionOK(found, workers[w].user, workers[w].account) /\ found \in Connection
  BY <1>2 DEF Key, ConnectionsOK, TypeOK
<1>4. found.refresh \in Flows \cup {NoFlow}
  BY <1>3 DEF Connection
<1>5. worker \in Worker
  BY <1>1, <1>4 DEF Worker
<1>6. /\ worker.pc = pc /\ worker.kept = found.refresh
      /\ worker.user = workers[w].user /\ worker.account = workers[w].account
      /\ worker.flow = workers[w].flow
  BY <1>1 DEF Worker
<1>7. WorkerOK(worker)
  <2> HIDE DEF worker, found
  <2> QED
    BY <1>2, <1>3, <1>6 DEF WorkerOK, ConnectionOK
<1>8. TypeOK'
  BY <1>1 DEF TypeOK
<1> HIDE DEF worker
<1> QED
  BY <1>1, <1>5, <1>7, <1>8, RequestStep

\* What a request writes comes from its one approval; of a workspace, a refresh
\* token it found is kept.
LEMMA WrittenOK ==
    ASSUME IInv, NEW w \in Workers, workers[w].pc \in {"save", "insert"}
    PROVE  /\ Written(workers[w]) \in Connection
           /\ Written(workers[w]).stored
           /\ ConnectionOK(Written(workers[w]), workers[w].user, workers[w].account)
<1> DEFINE worker == workers[w]
<1>1. worker \in Worker /\ WorkerOK(worker)
  BY DEF IInv, WorkersOK
<1>2. /\ Gave(worker.flow, worker.user, worker.account)
      /\ GaveIfAny(worker.kept, worker.user, worker.account)
  BY <1>1 DEF WorkerOK
<1>3. worker.flow \in Flows /\ worker.flow # NoFlow /\ worker.kept \in Flows \cup {NoFlow}
  BY <1>1, <1>2, ConnectionsAssumption DEF Gave, Worker
<1>4. /\ Written(worker).stored
      /\ Written(worker).access = worker.flow
      /\ Written(worker).refresh = IF worker.account \in Mailboxes THEN worker.flow ELSE worker.kept
  BY <1>3 DEF Written, Given
<1>5. Written(worker) \in Connection
  BY <1>3 DEF Written, Given, Connection, Life
<1> HIDE DEF worker
<1>6. ConnectionOK(Written(worker), worker.user, worker.account)
  BY <1>2, <1>3, <1>4 DEF ConnectionOK, GaveIfAny
<1> QED
  BY <1>4, <1>5, <1>6 DEF worker

LEMMA StoreStep ==
    ASSUME IInv, NEW w \in Workers, workers[w].pc \in {"save", "insert"}, Stored(w),
           UNCHANGED <<sessions, flows, bounds>>
    PROVE  IInv'
<1> USE DEF IInv
<1>1. workers[w].user \in Users /\ workers[w].account \in Accounts
  BY DEF WorkersOK, WorkerOK
<1>2. /\ connections' = [connections EXCEPT ![Key(w)] = Written(workers[w])]
      /\ Key(w) = <<workers[w].user, workers[w].account>>
      /\ Key(w) \in Users \X Accounts
  BY <1>1 DEF Stored, Key
<1>3. connections' \in [Users \X Accounts -> Connection]
  BY <1>2, WrittenOK DEF TypeOK
<1>4. FlowsKept /\ FlowsOK'
  BY DEF FlowsKept, FlowsOK
<1>5. ASSUME NEW u \in Users, NEW a \in Accounts
      PROVE  \/ connections'[<<u, a>>] = connections[<<u, a>>]
             \/ ConnectionOK(connections[<<u, a>>], u, a)'
  <2>1. CASE u = workers[w].user /\ a = workers[w].account
    <3>1. connections'[<<u, a>>] = Written(workers[w])
      BY <1>2, <2>1 DEF TypeOK
    <3>2. ConnectionOK(Written(workers[w]), u, a)
      BY <2>1, WrittenOK
    <3> QED
      BY <3>1, <3>2 DEF ConnectionOK, GaveIfAny, Gave
  <2>2. CASE ~(u = workers[w].user /\ a = workers[w].account)
    BY <1>2, <2>2 DEF TypeOK
  <2> QED
    BY <2>1, <2>2
<1>6. latest' \in [Users -> Mailboxes \cup {NoAccount}]
  BY <1>1 DEF Stored, Latest, TypeOK
<1>7. ASSUME NEW u \in Users, latest'[u] # NoAccount
      PROVE  connections'[<<u, latest'[u]>>].stored
  <2>1. latest'[u] \in Accounts
    BY <1>6, <1>7 DEF Accounts
  <2>2. CASE u = workers[w].user /\ latest'[u] = workers[w].account
    <3>1. connections'[<<u, latest'[u]>>] = Written(workers[w])
      BY <1>2, <2>2 DEF TypeOK
    <3> QED
      BY <3>1, WrittenOK
  <2>3. CASE ~(u = workers[w].user /\ latest'[u] = workers[w].account)
    <3>1. latest'[u] = latest[u]
      BY <2>3 DEF Stored, Latest, TypeOK
    <3>2. connections'[<<u, latest'[u]>>] = connections[<<u, latest'[u]>>]
      BY <1>2, <2>1, <2>3 DEF TypeOK
    <3> QED
      BY <1>7, <3>1, <3>2 DEF TypeOK
  <2> QED
    BY <2>2, <2>3
<1>8. browser' \in [session : Sessions \cup {NoSession},
                    state : [Providers -> Flows \cup {NoFlow}]]
  BY CookieDeleted DEF Stored, TypeOK
<1>9. TypeOK'
  BY <1>3, <1>6, <1>7, <1>8 DEF TypeOK, bounds
<1>10. /\ workers' \in [Workers -> Worker]
       /\ workers'[w].pc = "idle"
       /\ \A v \in Workers : v # w => workers'[v] = workers[v]
  BY IdleOK DEF Stored, Become, WorkersOK
<1>11. WorkerOK(workers[w])'
  BY <1>10 DEF WorkerOK
<1> QED
  BY <1>4, <1>5, <1>9, <1>10, <1>11, StepOK

\* A request that ends.
LEMMA EndStep ==
    ASSUME IInv, NEW w \in Workers, Become(w, Idle),
           UNCHANGED <<sessions, browser, flows, connections, latest, requests, expiries>>
    PROVE  IInv'
<1>1. TypeOK'
  BY DEF IInv, TypeOK
<1> QED
  BY <1>1, IdleOK, RequestStep

LEMMA WriteSteps ==
    ASSUME IInv, NEW w \in Workers, Insert(w) \/ SaveConnection(w)
    PROVE  IInv'
<1>1. CASE Stored(w)
  BY <1>1, StoreStep DEF Insert, SaveConnection
<1>2. CASE ~Stored(w)
  <2>1. Become(w, Idle)
          /\ UNCHANGED <<sessions, browser, flows, connections, latest, requests, expiries>>
    BY <1>2 DEF Insert, SaveConnection, store, bounds
  <2> QED
    BY <2>1, EndStep
<1> QED
  BY <1>1, <1>2

\* A renewal starts from the tokens of one approval of its user's mailbox.
LEMMA RenewStep ==
    ASSUME IInv, NEW w \in Workers, NEW a \in Mailboxes, Renew(w, a)
    PROVE  IInv'
<1> USE DEF IInv
<1> DEFINE found == connections[<<CurrentUser, a>>]
           worker == [Idle EXCEPT !.pc = "refresh", !.via = "renewal", !.user = CurrentUser,
                                  !.account = a, !.flow = found.refresh]
<1>1. /\ UNCHANGED <<sessions, browser, flows, connections, latest, expiries>>
      /\ found.refresh # NoFlow /\ MayAsk /\ Become(w, worker)
  BY DEF Renew, store
<1>2. CurrentUser \in Users /\ a \in Accounts
  BY SignedInIsUser DEF Renew, Accounts
<1>3. Gave(found.refresh, CurrentUser, a)
  BY <1>1, <1>2 DEF ConnectionsOK, ConnectionOK, GaveIfAny
<1>4. /\ worker.pc = "refresh" /\ worker.user = CurrentUser /\ worker.account = a
      /\ worker.flow = found.refresh /\ worker.kept = NoFlow
  BY DEF Idle
<1>5. worker \in Worker
  BY <1>2, <1>3 DEF Worker, Idle, Gave
<1>6. requests' \in 0 .. MaxRequests
  BY <1>1, ConnectionsAssumption DEF MayAsk, TypeOK
<1>7. TypeOK'
  BY <1>1, <1>6 DEF TypeOK
<1> HIDE DEF worker, found
<1>8. WorkerOK(worker)
  BY <1>2, <1>3, <1>4 DEF WorkerOK, GaveIfAny
<1> QED
  BY <1>1, <1>5, <1>7, <1>8, RequestStep

LEMMA RefreshStep ==
    ASSUME IInv, NEW w \in Workers, Refresh(w)
    PROVE  IInv'
<1> USE DEF IInv
<1>1. /\ workers[w] \in Worker /\ WorkerOK(workers[w]) /\ workers[w].pc = "refresh"
      /\ UNCHANGED <<sessions, browser, flows, connections, latest, requests, expiries>>
  BY DEF Refresh, WorkersOK, store, bounds
<1>2. CASE Go(w, "find")
  <2> DEFINE worker == [workers[w] EXCEPT !.pc = "find"]
  <2>1. Become(w, worker)
    BY <1>2 DEF Go
  <2>2. worker \in Worker
    BY <1>1 DEF Worker
  <2>3. /\ worker.pc = "find" /\ worker.user = workers[w].user
        /\ worker.account = workers[w].account /\ worker.flow = workers[w].flow
        /\ worker.kept = workers[w].kept
    BY <1>1 DEF Worker
  <2> HIDE DEF worker
  <2>4. WorkerOK(worker)
    BY <1>1, <2>3 DEF WorkerOK
  <2>5. TypeOK'
    BY <1>1 DEF TypeOK
  <2> QED
    BY <1>1, <2>1, <2>2, <2>4, <2>5, RequestStep
<1>3. CASE Become(w, Idle)
  BY <1>1, <1>3, EndStep
<1> QED
  BY <1>2, <1>3 DEF Refresh

------------------------------------------------------------------------------
(* Time and restarts                                                       *)

LEMMA AgeStep ==
    ASSUME IInv, NEW k \in Users \X Accounts, Age(k)
    PROVE  IInv'
<1> USE DEF IInv
<1>1. UNCHANGED <<sessions, browser, flows, latest, workers, requests>> /\ RunsOut
  BY DEF Age
<1>2. PICK life \in {"near", "over"} : connections' = [connections EXCEPT ![k].life = life]
  BY DEF Age
<1>3. connections[k] \in Connection
  BY DEF TypeOK
<1>4. [connections[k] EXCEPT !.life = life] \in Connection
  BY <1>3 DEF Connection, Life
<1>5. connections' \in [Users \X Accounts -> Connection]
  BY <1>2, <1>4 DEF TypeOK
<1>6. ASSUME NEW j \in Users \X Accounts
      PROVE  /\ connections'[j].stored = connections[j].stored
             /\ connections'[j].access = connections[j].access
             /\ connections'[j].refresh = connections[j].refresh
  <2>1. CASE j = k
    BY <1>2, <1>3, <2>1 DEF TypeOK, Connection
  <2>2. CASE j # k
    BY <1>2, <2>2 DEF TypeOK
  <2> QED
    BY <2>1, <2>2
<1>7. expiries' \in 0 .. MaxExpiries
  BY <1>1, ConnectionsAssumption DEF RunsOut, TypeOK
<1>8. ASSUME NEW u \in Users, latest[u] # NoAccount
      PROVE  connections'[<<u, latest[u]>>].stored
  <2>1. <<u, latest[u]>> \in Users \X Accounts /\ connections[<<u, latest[u]>>].stored
    BY <1>8 DEF TypeOK, Accounts
  <2> QED
    BY <1>6, <2>1
<1>9. TypeOK'
  BY <1>1, <1>5, <1>7, <1>8 DEF TypeOK
<1>10. FlowsKept /\ FlowsOK' /\ workers' \in [Workers -> Worker]
  BY <1>1 DEF FlowsKept, FlowsOK, WorkersOK
<1>11. ASSUME NEW u \in Users, NEW a \in Accounts
       PROVE  ConnectionOK(connections[<<u, a>>], u, a)'
  <2>1. ConnectionOK(connections[<<u, a>>], u, a) /\ <<u, a>> \in Users \X Accounts
    BY DEF ConnectionsOK
  <2> QED
    BY <1>1, <1>6, <2>1 DEF ConnectionOK, GaveIfAny, Gave
<1> QED
  BY <1>1, <1>9, <1>10, <1>11, StepOK

LEMMA RestartStep ==
    ASSUME IInv, Restart
    PROVE  IInv'
<1>1. /\ workers' = [w \in Workers |-> Idle]
      /\ UNCHANGED <<sessions, browser, flows, connections, latest, requests, expiries>>
  BY DEF Restart, store, bounds
<1>2. TypeOK' /\ FlowsKept /\ FlowsOK'
  BY <1>1 DEF IInv, TypeOK, FlowsKept, FlowsOK
<1>3. workers' \in [Workers -> Worker]
  BY <1>1, IdleOK
<1>4. ASSUME NEW w \in Workers
      PROVE  WorkerOK(workers[w])'
  <2>1. workers'[w].pc = "idle"
    BY <1>1, IdleOK
  <2> QED
    BY <2>1 DEF WorkerOK
<1> QED
  BY <1>1, <1>2, <1>3, <1>4, StepOK

------------------------------------------------------------------------------
(* The theorems                                                            *)

LEMMA InitOK == Init => IInv
<1> SUFFICES ASSUME Init
             PROVE  IInv
  OBVIOUS
<1>1. NewFlow \in Flow /\ NewFlow.code = "none"
  BY DEF NewFlow, Flow
<1>2. Absent \in Connection /\ ~Absent.stored
        /\ Absent.access = NoFlow /\ Absent.refresh = NoFlow
  BY DEF Absent, Connection, Life
<1>3. NoDocument \in Session
  BY DEF Session
<1>4. TypeOK
  BY <1>1, <1>2, <1>3, ConnectionsAssumption DEF Init, TypeOK
<1>5. FlowsOK
  BY <1>1 DEF Init, FlowsOK
<1>6. ConnectionsOK
  BY <1>2 DEF Init, ConnectionsOK, ConnectionOK, GaveIfAny
<1>7. WorkersOK
  BY IdleOK DEF Init, WorkersOK
<1> QED
  BY <1>4, <1>5, <1>6, <1>7 DEF IInv

LEMMA NextOK == IInv /\ [Next]_vars => IInv'
<1> SUFFICES ASSUME IInv, [Next]_vars
             PROVE  IInv'
  OBVIOUS
<1>1. CASE Browsing
  BY <1>1, SessionSteps, FlowSteps DEF Browsing
<1>2. CASE Providing
  BY <1>2, SessionSteps, FlowSteps, AgeStep DEF Providing
<1>3. CASE Restart
  BY <1>3, RestartStep
<1>4. ASSUME NEW w \in Workers, Asked(w)
      PROVE  IInv'
  <2>1. ASSUME ReadMail(w)
        PROVE  IInv'
    <3>1. latest[CurrentUser] \in Mailboxes
      BY <2>1, SignedInIsUser DEF ReadMail, IInv, TypeOK
    <3> QED
      BY <2>1, <3>1, RenewStep DEF ReadMail
  <2> QED
    BY <1>4, <2>1, CallbackStep, RenewStep DEF Asked, ReadLink
<1>5. ASSUME NEW w \in Workers, Continue(w)
      PROVE  IInv'
  BY <1>5, ExchangeStep, FindStep, WriteSteps, RefreshStep DEF Continue
<1>6. CASE UNCHANGED vars
  <2>1. UNCHANGED <<sessions, browser, flows, connections, latest, workers, requests, expiries>>
    BY <1>6 DEF vars, store, bounds
  <2>2. TypeOK'
    BY <2>1 DEF IInv, TypeOK
  <2> QED
    BY <2>1, <2>2, QuietStep
<1> QED
  BY <1>1, <1>2, <1>3, <1>4, <1>5, <1>6 DEF Next

\* Every reachable state satisfies the inductive invariant: what approvals,
\* connections and requests under way say of each other stays true whoever
\* signs in and whatever overlaps.
THEOREM Invariance == Spec => []IInv
  BY InitOK, NextOK, PTL DEF Spec

\* The state is well formed, and the mailbox shown to a user is connected.
THEOREM TypeCorrect == Spec => []TypeOK
<1>1. IInv => TypeOK
  BY DEF IInv
<1> QED
  BY <1>1, Invariance, PTL

\* A connection belongs to the user who asked for the approval, and is the
\* account approved.
THEOREM StarterIsConnected == Spec => []ConnectedByStarter
<1>1. IInv => ConnectedByStarter
  BY DEF IInv, ConnectionsOK, ConnectionOK, GaveIfAny, Gave, ConnectedByStarter
<1> QED
  BY <1>1, Invariance, PTL

\* The tokens of a stored mailbox come from one approval.
THEOREM TokensBelongTogether == Spec => []TokensOfOneApproval
<1>1. IInv => TokensOfOneApproval
  BY DEF IInv, ConnectionsOK, ConnectionOK, Accounts, TokensOfOneApproval
<1> QED
  BY <1>1, Invariance, PTL
==============================================================================
