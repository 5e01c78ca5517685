------------------------------ MODULE Connections ------------------------------
(***************************************************************************)
(* Signing in, connecting mailboxes and workspaces, and renewing the access*)
(* of a mailbox that has run out.  A connection is approved at the         *)
(* provider in a browser where the person may sign out and another sign in *)
(* before the approval comes back; two requests may renew, connect again or*)
(* store the same connection at once.                                      *)
(*                                                                         *)
(* A flow is one approval asked of a provider: it stands for the state sent*)
(* along, for the code that comes back and for the tokens given for it.    *)
(* Passwords, encryption and what is read with the tokens are left out.    *)
(***************************************************************************)
EXTENDS Naturals

CONSTANTS
    Users,
    NoUser,
    Sessions,        \* bound: the sessions issued
    NoSession,
    Mailboxes,       \* Gmail accounts, that need renewal
    Workspaces,      \* of Slack, whose bot tokens do not run out
    NoAccount,
    Flows,           \* bound: the approvals asked
    NoFlow,
    Workers,
    MaxRequests,     \* bound: requests that renew a mailbox's tokens
    MaxExpiries      \* bound: sessions, approvals and access tokens that run out

Accounts == Mailboxes \cup Workspaces
ProviderOf(a) == IF a \in Mailboxes THEN "gmail" ELSE "slack"
Providers == {ProviderOf(a) : a \in Accounts}

ASSUME ConnectionsAssumption ==
    /\ NoUser \notin Users
    /\ NoSession \notin Sessions
    /\ NoAccount \notin Accounts
    /\ NoFlow \notin Flows
    /\ Mailboxes \cap Workspaces = {}
    /\ MaxRequests \in Nat
    /\ MaxExpiries \in Nat

VARIABLES
    sessions,      \* session -> its document
    browser,       \* the cookies of the one browser
    flows,         \* flow -> what its state says, and how far it has come
    connections,   \* <<user, account>> -> its document
    latest,        \* user -> the mailbox connection saved last
    workers,
    requests,
    expiries

store == <<connections, latest>>
bounds == <<requests, expiries>>
vars == <<sessions, browser, flows, store, workers, bounds>>

NoDocument == [user |-> NoUser, live |-> FALSE]

\* live: expiresAt lies ahead.
Session == [user : Users, live : BOOLEAN] \cup {NoDocument}

\* How much of its hour an access token has left: more than a minute, less
\* than a minute, nothing; a bot token has no expiry.
Life == {"fresh", "near", "over", "endless"}

\* Tokens are named by the flow that gave them.
Connection ==
    [stored : BOOLEAN, access : Flows \cup {NoFlow},
     refresh : Flows \cup {NoFlow}, life : Life]

Absent ==
    [stored |-> FALSE, access |-> NoFlow, refresh |-> NoFlow, life |-> "endless"]

Flow ==
    [owner : Users \cup {NoUser}, session : Sessions \cup {NoSession},
     provider : {"gmail", "slack"}, young : BOOLEAN,
     account : Accounts \cup {NoAccount},
     code : {"none", "given", "refused", "spent"}]

NewFlow ==
    [owner |-> NoUser, session |-> NoSession, provider |-> "gmail",
     young |-> FALSE, account |-> NoAccount, code |-> "none"]

Idle == [pc |-> "idle", via |-> "", user |-> NoUser, account |-> NoAccount,
         flow |-> NoFlow, kept |-> NoFlow]

MayAsk == requests < MaxRequests /\ requests' = requests + 1
RunsOut == expiries < MaxExpiries /\ expiries' = expiries + 1

Become(w, worker) == workers' = [workers EXCEPT ![w] = worker]
Go(w, pc) == Become(w, [workers[w] EXCEPT !.pc = pc])

------------------------------------------------------------------------------
(* Accounts and sessions.                                                  *)

\* get_current_user: a session that has expired is deleted on the way.
CurrentUser ==
    IF browser.session # NoSession /\ sessions[browser.session].live
    THEN sessions[browser.session].user ELSE NoUser

SignedIn == CurrentUser # NoUser

\* signup inserts the account or answers 409, login finds it, demo_session
\* does either (the unique index on the email settles two at once, accounts
\* are never deleted): one of them serves, and _issue_session follows.  The
\* session the browser had before stays in the database.
SignIn(u, s) ==
    /\ sessions[s] = NoDocument
    /\ browser.session # s
    /\ sessions' = [sessions EXCEPT ![s] = [user |-> u, live |-> TRUE]]
    /\ browser' = [browser EXCEPT !.session = s]
    /\ UNCHANGED <<flows, store, workers, bounds>>

SignOut ==
    /\ browser.session # NoSession
    /\ sessions' = [sessions EXCEPT ![browser.session] = NoDocument]
    /\ browser' = [browser EXCEPT !.session = NoSession]
    /\ UNCHANGED <<flows, store, workers, bounds>>

\* Any route but the callbacks, without a user: 401.
Refused ==
    /\ browser.session # NoSession
    /\ ~SignedIn
    /\ sessions' = [sessions EXCEPT ![browser.session] = NoDocument]
    /\ UNCHANGED <<browser, flows, store, workers, bounds>>

\* expiresAt passes (of a session no browser holds, it matters to nobody).
SessionExpires ==
    /\ SignedIn
    /\ RunsOut
    /\ sessions' = [sessions EXCEPT ![browser.session].live = FALSE]
    /\ UNCHANGED <<browser, flows, store, workers, requests>>

------------------------------------------------------------------------------
(* The approval.                                                           *)

\* new_oauth_state and its cookie, one per provider: a second tab overwrites
\* the first one's.
Connect(f, p) ==
    /\ SignedIn
    /\ flows[f] = NewFlow
    /\ flows' = [flows EXCEPT ![f] =
            [@ EXCEPT !.owner = CurrentUser, !.session = browser.session,
                      !.provider = p, !.young = TRUE]]
    /\ browser' = [browser EXCEPT !.state[p] = f]
    /\ UNCHANGED <<sessions, store, workers, bounds>>

\* At the provider: the person picks an account and approves, or refuses.
Consent(f, a) ==
    /\ flows[f].owner # NoUser
    /\ flows[f].code = "none"
    /\ a = NoAccount \/ ProviderOf(a) = flows[f].provider
    /\ flows' = [flows EXCEPT ![f].account = a,
                              ![f].code = IF a = NoAccount THEN "refused" ELSE "given"]
    /\ UNCHANGED <<sessions, browser, store, workers, bounds>>

FlowExpires(f) ==
    /\ flows[f].young
    /\ flows[f].code # "spent"
    /\ RunsOut
    /\ flows' = [flows EXCEPT ![f].young = FALSE]
    /\ UNCHANGED <<sessions, browser, store, workers, requests>>

\* A mutant: whoever is signed in when the approval comes back gets it.
StateIsValid_any(f, user) ==
    /\ user # NoUser
    /\ browser.state[flows[f].provider] = f
    /\ flows[f].young

\* consume_oauth_state: the state that came back is the cookie's, not older
\* than its time, and names this user and this session.
StateIsValid(f, user) ==
    /\ user # NoUser
    /\ browser.state[flows[f].provider] = f
    /\ flows[f].young
    /\ flows[f].owner = user
    /\ flows[f].session = browser.session

\* The response deletes the provider's state cookie, whichever it is by now.
StateCookieDeleted(p) == browser' = [browser EXCEPT !.state[p] = NoFlow]

\* The provider sends the browser back, again if the page is loaded again.
Callback(w, f) ==
    /\ workers[w].pc = "idle"
    /\ flows[f].code # "none"
    /\ IF StateIsValid(f, CurrentUser) /\ flows[f].code # "refused"
       THEN /\ Become(w, [Idle EXCEPT !.pc = "exchange", !.via = "callback",
                                      !.user = CurrentUser, !.flow = f])
            /\ UNCHANGED <<sessions, browser>>
       ELSE /\ StateCookieDeleted(flows[f].provider)
            /\ sessions' = IF SignedIn \/ browser.session = NoSession THEN sessions
                           ELSE [sessions EXCEPT ![browser.session] = NoDocument]
            /\ UNCHANGED workers
    /\ UNCHANGED <<flows, store, bounds>>

\* The exchange fails: the browser is sent on with its cookie deleted.
Failed(w) ==
    /\ StateCookieDeleted(flows[workers[w].flow].provider)
    /\ Become(w, Idle)

\* exchange_code: the provider takes a code once.
Spend(f) ==
    /\ flows[f].code = "given"
    /\ flows' = [flows EXCEPT ![f].code = "spent"]

\* Slack tells the workspace along with the token; a mailbox is asked for its
\* address, which may not come although the code is spent.
Exchange(w) ==
    /\ workers[w].pc = "exchange"
    /\ \/ /\ Spend(workers[w].flow)
          /\ Become(w, [workers[w] EXCEPT !.account = flows[workers[w].flow].account,
                                          !.pc = "find"])
          /\ UNCHANGED browser
       \/ (Spend(workers[w].flow) \/ UNCHANGED flows) /\ Failed(w)
    /\ UNCHANGED <<sessions, store, bounds>>

------------------------------------------------------------------------------
(* Storing a connection: save_gmail_connection, save_slack_connection.     *)

Key(w) == <<workers[w].user, workers[w].account>>

\* kept: what the document read has for a refresh token.
Find(w) ==
    LET found == connections[Key(w)] IN
    /\ workers[w].pc = "find"
    /\ Become(w, [workers[w] EXCEPT !.kept = found.refresh,
                      !.pc = IF found.stored THEN "save" ELSE "insert"])
    /\ UNCHANGED <<sessions, browser, flows, store, bounds>>

\* A mutant: a renewal's answer has no refresh token of its own.
Given_bare(worker) ==
    IF worker.account \in Mailboxes /\ worker.via = "callback" THEN worker.flow ELSE NoFlow

\* The refresh token to store: _parse_tokens carries on the one a renewal was
\* asked with.
Given(worker) == IF worker.account \in Mailboxes THEN worker.flow ELSE NoFlow

Written(worker) ==
    [stored |-> TRUE, access |-> worker.flow,
     refresh |-> IF Given(worker) = NoFlow THEN worker.kept ELSE Given(worker),
     life |-> IF worker.account \in Mailboxes THEN "fresh" ELSE "endless"]

\* A mutant: the provider is not asked for.
Latest_any(worker) == [latest EXCEPT ![worker.user] = worker.account]

\* latest_gmail_connection sorts the user's mailboxes by updatedAt, which every
\* write sets.
Latest(worker) ==
    IF worker.account \in Mailboxes THEN [latest EXCEPT ![worker.user] = worker.account]
    ELSE latest

\* After the write a callback sends the browser on; what a renewal goes on to
\* read with its token changes nothing here.
Stored(w) ==
    /\ connections' = [connections EXCEPT ![Key(w)] = Written(workers[w])]
    /\ latest' = Latest(workers[w])
    /\ IF workers[w].via = "callback"
       THEN StateCookieDeleted(flows[workers[w].flow].provider)
       ELSE UNCHANGED browser
    /\ Become(w, Idle)

\* The unique index refuses a second document; no caller catches that, and
\* the answer is a 500 that deletes no cookie.
Insert(w) ==
    /\ workers[w].pc = "insert"
    /\ IF connections[Key(w)].stored
       THEN Become(w, Idle) /\ UNCHANGED <<browser, store>>
       ELSE Stored(w)
    /\ UNCHANGED <<sessions, flows, bounds>>

SaveConnection(w) ==
    /\ workers[w].pc = "save"
    /\ Stored(w)
    /\ UNCHANGED <<sessions, flows, bounds>>

------------------------------------------------------------------------------
(* Renewing a mailbox before it is read.                                   *)

\* A renewal begins with the refresh token of the document read.
Renew(w, a) ==
    LET found == connections[<<CurrentUser, a>>] IN
    /\ workers[w].pc = "idle"
    /\ SignedIn
    /\ found.stored
    /\ found.refresh # NoFlow
    /\ MayAsk
    /\ Become(w, [Idle EXCEPT !.pc = "refresh", !.via = "renewal", !.user = CurrentUser,
                              !.account = a, !.flow = found.refresh])
    /\ UNCHANGED <<sessions, browser, flows, store, expiries>>

\* The badge, the mails and an attachment take the mailbox saved last, with a
\* minute to spare (_fresh_token).
ReadMail(w) ==
    /\ SignedIn
    /\ latest[CurrentUser] # NoAccount
    /\ connections[<<CurrentUser, latest[CurrentUser]>>].life # "fresh"
    /\ Renew(w, latest[CurrentUser])

\* A synchronisation takes its link's mailbox, to the last second
\* (_gmail_connection_token).
ReadLink(w, a) ==
    /\ SignedIn
    /\ connections[<<CurrentUser, a>>].life = "over"
    /\ Renew(w, a)

\* refresh_access_token: a withdrawn token and a provider that does not
\* answer look the same to _fresh_token, and the request ends with "connect
\* again".
Refresh(w) ==
    /\ workers[w].pc = "refresh"
    /\ Go(w, "find") \/ Become(w, Idle)
    /\ UNCHANGED <<sessions, browser, flows, store, bounds>>

------------------------------------------------------------------------------
(* The providers, and time.                                                *)

Age(k) ==
    /\ connections[k].life \in {"fresh", "near"}
    /\ RunsOut
    /\ \E life \in {"near", "over"} : connections' = [connections EXCEPT ![k].life = life]
    /\ UNCHANGED <<sessions, browser, flows, latest, workers, requests>>

\* A restart ends the requests under way.
Restart ==
    /\ workers' = [w \in Workers |-> Idle]
    /\ UNCHANGED <<sessions, browser, flows, store, bounds>>

------------------------------------------------------------------------------
Init ==
    /\ sessions = [s \in Sessions |-> NoDocument]
    /\ browser = [session |-> NoSession, state |-> [p \in Providers |-> NoFlow]]
    /\ flows = [f \in Flows |-> NewFlow]
    /\ connections = [k \in Users \X Accounts |-> Absent]
    /\ latest = [u \in Users |-> NoAccount]
    /\ workers = [w \in Workers |-> Idle]
    /\ requests = 0
    /\ expiries = 0

Asked(w) ==
    \/ \E f \in Flows : Callback(w, f)
    \/ ReadMail(w)
    \/ \E a \in Mailboxes : ReadLink(w, a)

Continue(w) ==
    \/ Exchange(w) \/ Find(w) \/ Insert(w) \/ SaveConnection(w)
    \/ Refresh(w)

Browsing ==
    \/ \E u \in Users, s \in Sessions : SignIn(u, s)
    \/ SignOut \/ Refused
    \/ \E f \in Flows, p \in Providers : Connect(f, p)

Providing ==
    \/ \E f \in Flows, a \in Accounts \cup {NoAccount} : Consent(f, a)
    \/ \E f \in Flows : FlowExpires(f)
    \/ SessionExpires
    \/ \E k \in Users \X Accounts : Age(k)

Next == Browsing \/ Providing \/ Restart \/ \E w \in Workers : Asked(w) \/ Continue(w)

Spec == Init /\ [][Next]_vars

------------------------------------------------------------------------------
(* Properties.                                                             *)

\* Every variable has its type, and the mailbox shown to a user is one the
\* user connected.
TypeOK ==
    /\ sessions \in [Sessions -> Session]
    /\ browser \in [session : Sessions \cup {NoSession},
                    state : [Providers -> Flows \cup {NoFlow}]]
    /\ flows \in [Flows -> Flow]
    /\ connections \in [Users \X Accounts -> Connection]
    /\ latest \in [Users -> Mailboxes \cup {NoAccount}]
    /\ \A u \in Users : latest[u] # NoAccount => connections[<<u, latest[u]>>].stored
    /\ requests \in 0 .. MaxRequests
    /\ expiries \in 0 .. MaxExpiries

\* A mailbox or workspace is connected for the user who asked for the
\* approval, and it is the account approved: whoever signs in while the
\* approval is under way, in the same browser, gets nothing of it
\* (consume_oauth_state and the callbacks).
ConnectedByStarter ==
    \A u \in Users, a \in Accounts :
        LET f == connections[<<u, a>>].access IN
        f # NoFlow => flows[f].owner = u /\ flows[f].account = a

\* A stored mailbox always has a refresh token, and both its tokens come from
\* one approval, whatever renewals and new approvals overlap
\* (save_gmail_connection reads the document again and saves all of it).
TokensOfOneApproval ==
    \A u \in Users, a \in Mailboxes :
        LET c == connections[<<u, a>>] IN
        c.stored => c.refresh # NoFlow /\ c.refresh = c.access
==============================================================================
