----------------------------- MODULE AuthSession -----------------------------
(***************************************************************************)
(* The tabs of a browser that share the cookies of one login, the refresh  *)
(* tokens of the server, and logout.  An access token that has expired     *)
(* makes a request fail with 401; its tab then trades the refresh token    *)
(* for a new pair of tokens, once for all its callers and one tab at a     *)
(* time, and the callers try again.                                        *)
(*                                                                         *)
(* An access token and a refresh token are always issued together, so a    *)
(* number stands for the pair: an index of tokens.  RotateRefreshToken is  *)
(* serializable and locks the token's row: one step.  Every other database *)
(* access of a handler is a step of its own.                               *)
(***************************************************************************)
EXTENDS Integers, Sequences, FiniteSets, SequencesExt

CONSTANTS
    Tab,
    Caller,     \* what runs api.req or api.fetchWithRefresh, one at a time
    TabOf,      \* the tab a caller runs in
    Ops,        \* Ops[c]: what a caller is seen to call
    WebLocks,   \* whether the browser has navigator.locks
    MaxCalls,   \* bound: calls started and pages loaded
    MaxLogins,  \* bound: sessions, the first one included
    MaxLost,    \* bound: requests that fail, or whose answers are lost
    MaxAged     \* bound: tokens that expire or lapse

ASSUME AuthSessionAssumption ==
    /\ TabOf \in [Caller -> Tab] /\ WebLocks \in BOOLEAN
    /\ Ops \in [Caller -> SUBSET {"call", "html", "switch", "logout"}]
    /\ MaxCalls \in Nat /\ MaxLogins \in Nat \ {0} /\ MaxLost \in Nat /\ MaxAged \in Nat

VARIABLES
    tokens,     \* AuthRefreshTokens, in the order of their issue
    closed,     \* the sessions with a LOGOUT row in AuthSessionAudit
    jar,        \* the pair of tokens the cookies hold, 0 for none
    page,       \* page[t]: "app" or "login"
    call,       \* call[c]: the request a caller waits for
    refresh,    \* refresh[t]: api.refreshing of the tab
    locks,      \* the tabs that hold or wait for the Web Lock
    spent,      \* calls and pages, failed requests, tokens aged: for the bounds
    upset,      \* history: something happened that may end the login
    out         \* history: "in", "out" after a logout, "slipped"

vars == <<tokens, closed, jar, page, call, refresh, locks, spent, upset, out>>

Pair == 1 .. Len(tokens)
Session == 1 .. MaxLogins
Token == [session : Session, chain : Nat \ {0},
          age : {"fresh", "stale", "lapsed"}, revoked : BOOLEAN]

\* A token of a login or of a change of environment starts a chain, which
\* rotation continues.
NewToken(session, chain) ==
    [session |-> session, chain |-> chain, age |-> "fresh", revoked |-> FALSE]

NoCall == [op |-> "none", st |-> "idle", token |-> 0, new |-> 0,
           retried |-> FALSE, after |-> FALSE]
NoRefresh == [st |-> "none", token |-> 0, new |-> 0]

Init ==
    /\ tokens = <<NewToken(1, 1)>>
    /\ closed = {}
    /\ jar = 1
    /\ page = [t \in Tab |-> "app"]
    /\ call = [c \in Caller |-> NoCall]
    /\ refresh = [t \in Tab |-> NoRefresh]
    /\ locks = <<>>
    /\ spent = [calls |-> 0, lost |-> 0, aged |-> 0]
    /\ upset = FALSE
    /\ out = "in"

Callers(t) == {c \in Caller : TabOf[c] = t}
Awaiting(t) == {c \in Callers(t) : call[c].st = "refreshing"}
-----------------------------------------------------------------------------
(* The browser: api.js. *)

Sent(op, retried) ==
    [NoCall EXCEPT !.op = op, !.st = "sent", !.token = jar, !.retried = retried,
                   !.after = out = "out"]

\* A call of the page, a report or picture, a change of environment, a logout.
Start(c, op) ==
    /\ page[TabOf[c]] = "app" /\ call[c].st = "idle" /\ spent.calls < MaxCalls
    /\ call' = [call EXCEPT ![c] = Sent(op, FALSE)]
    /\ spent' = [spent EXCEPT !.calls = @ + 1]
    /\ upset' = (upset \/ op = "logout")
    /\ UNCHANGED <<tokens, closed, jar, page, refresh, locks, out>>

\* mutant: every caller refreshes for itself.
JoinAlways(t) ==
    /\ refresh' = [refresh EXCEPT ![t] = [NoRefresh EXCEPT !.st = "queued"]]
    /\ locks' = Append(locks, t)

\* The callers of a tab share one refresh.
Join(t) ==
    IF refresh[t].st = "none"
    THEN /\ refresh' = [refresh EXCEPT ![t] = [NoRefresh EXCEPT !.st = "queued"]]
         /\ locks' = Append(locks, t)
    ELSE UNCHANGED <<refresh, locks>>

\* mutant: the tabs do not wait for each other.
MayPerformAtOnce(t) == TRUE
MayPerform(t) == WebLocks => Head(locks) = t

\* A change of environment that has revoked its token, and whose answer is
\* still to come.
Switching(c) == call[c].op = "switch" /\ call[c].st \in {"creating", "ok"}

SendRefresh(t) ==
    /\ refresh[t].st = "queued" /\ MayPerform(t)
    /\ refresh' = [refresh EXCEPT ![t].st = "sent", ![t].token = jar]
    /\ upset' = (upset \/ \E c \in Caller : Switching(c))
    /\ UNCHANGED <<tokens, closed, jar, page, call, locks, spent, out>>

\* mutant: the lock is kept by a tab that could not refresh.
ReleaseRenewed(t, renewed) == IF renewed THEN RemoveFirst(locks, t) ELSE locks
Release(t, renewed) == RemoveFirst(locks, t)

\* The page goes away: its callers and its place in the queue are gone, what
\* the server works on is not.
Unload(t) ==
    /\ locks' = Release(t, TRUE)
    /\ refresh' = [refresh EXCEPT ![t] = IF @.st = "queued" THEN NoRefresh ELSE @]
Left(p, t) == [p EXCEPT ![t] = "login"]
Leave(t) == page' = Left(page, t) /\ Unload(t)
CallsLeft(t, k) == [c \in Caller |-> IF TabOf[c] = t /\ k[c].st = "refreshing"
                                     THEN NoCall ELSE k[c]]

\* The refresh is over.  With new tokens the callers try again; without, one
\* that waits in req takes the page to the login, one in fetchWithRefresh
\* gives its 401 to the caller.  A page that was left only has its cookies set.
Resume(t, renewed, cookies) ==
    /\ jar' = cookies
    /\ refresh' = [refresh EXCEPT ![t] = NoRefresh]
    /\ locks' = Release(t, renewed)
    /\ call' = [c \in Caller |->
                  IF c \notin Awaiting(t) THEN call[c]
                  ELSE IF renewed
                  THEN [Sent(call[c].op, TRUE) EXCEPT !.token = cookies]
                  ELSE NoCall]
    /\ page' = IF ~renewed /\ \E c \in Awaiting(t) : call[c].op # "html"
               THEN Left(page, t) ELSE page

RefreshAnswered(t) ==
    /\ \/ refresh[t].st = "granted" /\ Resume(t, TRUE, refresh[t].new)
       \/ refresh[t].st = "denied" /\ Resume(t, FALSE, 0)
    /\ UNCHANGED <<tokens, closed, spent, upset, out>>

\* fetch throws, or the answer is an error other than 401: from the rate
\* limiter, which all clients of one address share, from the CSRF check, or
\* from a server that failed on the way.  The cookies stay.
RefreshFailed(t) ==
    /\ refresh[t].st \notin {"none", "queued"} /\ spent.lost < MaxLost
    /\ Resume(t, FALSE, jar)
    /\ spent' = [spent EXCEPT !.lost = @ + 1]
    /\ upset' = TRUE
    /\ UNCHANGED <<tokens, closed, out>>

\* Some other request may still put tokens of an open session in the cookies.
Open(k) == k # 0 /\ tokens[k].session \notin closed
MayBringTokens ==
    \/ \E t \in Tab : refresh[t].st \in {"sent", "rotated", "granted"}
                      /\ Open(refresh[t].token)
    \/ \E c \in Caller : call[c].op = "switch" /\ call[c].st \notin {"idle", "refreshing"}
                         /\ Open(call[c].token)

\* The answer of a call.  Logout goes to the login page whatever happened.
Answered(c) ==
    /\ \/ /\ call[c].st = "401" /\ page[TabOf[c]] = "app" /\ ~call[c].retried
          /\ Join(TabOf[c])
          /\ call' = [call EXCEPT ![c].st = "refreshing"]
          /\ UNCHANGED <<jar, page, out>>
       \/ /\ \/ call[c].st = "401" /\ (page[TabOf[c]] = "login" \/ call[c].retried)
             \/ call[c].st = "ok" /\ call[c].op \in {"call", "html"}
          /\ call' = [call EXCEPT ![c] = NoCall]
          /\ UNCHANGED <<jar, page, refresh, locks, out>>
       \/ /\ call[c].st = "ok" /\ call[c].op = "switch"
          /\ jar' = call[c].new
          /\ call' = [call EXCEPT ![c] = NoCall]
          /\ UNCHANGED <<page, refresh, locks, out>>
       \/ /\ call[c].st = "ok" /\ call[c].op = "logout"
          /\ jar' = 0
          /\ Leave(TabOf[c])
          /\ call' = CallsLeft(TabOf[c], [call EXCEPT ![c] = NoCall])
          /\ out' = IF MayBringTokens THEN "slipped" ELSE "out"
    /\ UNCHANGED <<tokens, closed, spent, upset>>

\* fetch throws, or the answer is an error other than 401: the caller gets an
\* error; logout swallows it and leaves.
CallFailed(c) ==
    /\ call[c].st \notin {"idle", "refreshing"} /\ spent.lost < MaxLost
    /\ IF call[c].op = "logout"
       THEN /\ Leave(TabOf[c])
            /\ call' = CallsLeft(TabOf[c], [call EXCEPT ![c] = NoCall])
       ELSE /\ call' = [call EXCEPT ![c] = NoCall]
            /\ UNCHANGED <<page, locks, refresh>>
    /\ spent' = [spent EXCEPT !.lost = @ + 1]
    /\ upset' = TRUE
    /\ UNCHANGED <<tokens, closed, jar, out>>

\* The user signs in again, long after the requests of the page that was
\* left have ended.
Login(t) ==
    /\ page[t] = "login" /\ tokens[Len(tokens)].session < MaxLogins
    /\ refresh[t].st = "none" /\ \A c \in Callers(t) : call[c].st = "idle"
    /\ \E s \in Session :
          /\ \A k \in Pair : tokens[k].session < s
          /\ \A r \in Session : r < s => \E k \in Pair : tokens[k].session = r
          /\ tokens' = Append(tokens, NewToken(s, Len(tokens) + 1))
    /\ jar' = Len(tokens) + 1
    /\ page' = [page EXCEPT ![t] = "app"]
    /\ out' = "in"
    /\ UNCHANGED <<closed, call, refresh, locks, spent, upset>>
-----------------------------------------------------------------------------
(* The server. *)

\* ApiAuth.RequireUser: the access token is there and has not expired.
Valid(k) == k # 0 /\ tokens[k].age = "fresh"

\* mutant: the middleware checks the token and not its session.
AdmittedUnchecked(k) == Valid(k)
Admitted(k) == Valid(k) /\ tokens[k].session \notin closed

\* A page of the application is loaded in a tab.  The server admits it by its
\* access token or sends it to the login page: it tries no refresh.  (Where it
\* is admitted, the requests of the page it replaces have ended.)
LoadPage(t) ==
    /\ page[t] = "app" /\ spent.calls < MaxCalls
    /\ \/ ~Admitted(jar) /\ Leave(t)
       \/ /\ Admitted(jar)
          /\ refresh[t].st \in {"none", "queued"}
          /\ \A c \in Callers(t) : call[c].st \in {"idle", "refreshing"}
          /\ Unload(t) /\ UNCHANGED page
    /\ call' = CallsLeft(t, call)
    /\ spent' = [spent EXCEPT !.calls = @ + 1]
    /\ upset' = (upset \/ (jar # 0 /\ tokens[jar].age # "fresh"))
    /\ UNCHANGED <<tokens, closed, jar, out>>

Revoke(k) == [j \in Pair |-> IF j = k THEN [tokens[j] EXCEPT !.revoked = TRUE]
                                      ELSE tokens[j]]
RevokeFamily(session) ==
    [j \in Pair |-> IF tokens[j].session = session
                    THEN [tokens[j] EXCEPT !.revoked = TRUE] ELSE tokens[j]]

\* Requests under /api/auth pass the middleware and check less.
Serve(c) ==
    /\ call[c].st = "sent"
    /\ \/ /\ call[c].op \in {"call", "html"}
          /\ call' = [call EXCEPT ![c].st = IF Admitted(call[c].token) THEN "ok" ELSE "401"]
          /\ UNCHANGED closed
       \/ /\ call[c].op = "switch"
          /\ call' = [call EXCEPT ![c].st = IF Valid(call[c].token) THEN "revoking" ELSE "401"]
          /\ UNCHANGED closed
       \/ /\ call[c].op = "logout"
          /\ call' = [call EXCEPT ![c].st = "revoking"]
          /\ closed' = IF Valid(call[c].token)
                       THEN closed \cup {tokens[call[c].token].session} ELSE closed
    /\ UNCHANGED <<tokens, jar, page, refresh, locks, spent, upset, out>>

\* RevokeRefreshToken, for a logout and for a change of environment.
RevokeOld(c) ==
    /\ call[c].st = "revoking"
    /\ tokens' = Revoke(call[c].token)
    /\ call' = [call EXCEPT ![c].st = IF call[c].op = "switch" THEN "creating" ELSE "ok"]
    /\ upset' = (upset \/ \E t \in Tab : refresh[t].st = "sent"
                                         /\ refresh[t].token = call[c].token)
    /\ UNCHANGED <<closed, jar, page, refresh, locks, spent, out>>

CreateNew(c) ==
    /\ call[c].st = "creating"
    /\ tokens' = Append(tokens, NewToken(tokens[call[c].token].session, Len(tokens) + 1))
    /\ call' = [call EXCEPT ![c].st = "ok", ![c].new = Len(tokens) + 1]
    /\ UNCHANGED <<closed, jar, page, refresh, locks, spent, upset, out>>

\* mutant: a token that was rotated before is rotated again.
RotatedAgain(k) ==
    IF k = 0 THEN tokens
    ELSE IF tokens[k].age = "lapsed" THEN Revoke(k)
    ELSE Append(Revoke(k), NewToken(tokens[k].session, tokens[k].chain))

\* RotateRefreshToken: the tokens it leaves.  Without a token nothing
\* happens, a revoked one takes its whole session with it, one that lapsed
\* is revoked, and any other is replaced.
Rotated(k) ==
    IF k = 0 THEN tokens
    ELSE IF tokens[k].revoked THEN RevokeFamily(tokens[k].session)
    ELSE IF tokens[k].age = "lapsed" THEN Revoke(k)
    ELSE Append(Revoke(k), NewToken(tokens[k].session, tokens[k].chain))

Rotate(t) ==
    /\ refresh[t].st = "sent"
    /\ tokens' = Rotated(refresh[t].token)
    /\ refresh' = IF Len(tokens') > Len(tokens)
                  THEN [refresh EXCEPT ![t].st = "rotated", ![t].new = Len(tokens')]
                  ELSE [refresh EXCEPT ![t].st = "denied"]
    /\ UNCHANGED <<closed, jar, page, call, locks, spent, upset, out>>

\* The session is looked up after the rotation has been committed.
CheckSession(t) ==
    /\ refresh[t].st = "rotated"
    /\ refresh' = [refresh EXCEPT ![t].st =
                     IF tokens[refresh[t].new].session \in closed THEN "surplus" ELSE "granted"]
    /\ UNCHANGED <<tokens, closed, jar, page, call, locks, spent, upset, out>>

RevokeNew(t) ==
    /\ refresh[t].st = "surplus"
    /\ tokens' = Revoke(refresh[t].new)
    /\ refresh' = [refresh EXCEPT ![t].st = "denied"]
    /\ UNCHANGED <<closed, jar, page, call, locks, spent, upset, out>>

\* Time passes: the access token expires, then the refresh token.
Age(k) ==
    /\ spent.aged < MaxAged /\ spent' = [spent EXCEPT !.aged = @ + 1]
    /\ \/ tokens[k].age = "fresh" /\ tokens' = [tokens EXCEPT ![k].age = "stale"]
          /\ UNCHANGED upset
       \/ tokens[k].age = "stale" /\ tokens' = [tokens EXCEPT ![k].age = "lapsed"]
          /\ upset' = TRUE
    /\ UNCHANGED <<closed, jar, page, call, refresh, locks, out>>

ServeCall(c) == Serve(c) \/ RevokeOld(c) \/ CreateNew(c)
ServeRefresh(t) == Rotate(t) \/ CheckSession(t) \/ RevokeNew(t)

Next ==
    \/ \E c \in Caller :
          \/ \E op \in Ops[c] : Start(c, op)
          \/ ServeCall(c) \/ Answered(c) \/ CallFailed(c)
    \/ \E t \in Tab :
          \/ SendRefresh(t) \/ ServeRefresh(t)
          \/ RefreshAnswered(t) \/ RefreshFailed(t)
          \/ LoadPage(t) \/ Login(t)
    \/ \E k \in Pair : Age(k)

Spec == Init /\ [][Next]_vars

\* The server serves what it got, answers arrive or are lost, and the browser
\* grants its lock to the tab that waits longest.  Nobody has to start
\* anything, load a page, sign in, or let a token expire.
FairSpec ==
    /\ Spec
    /\ \A c \in Caller : WF_vars(ServeCall(c)) /\ WF_vars(Answered(c))
    /\ \A t \in Tab : WF_vars(SendRefresh(t)) /\ WF_vars(ServeRefresh(t))
                      /\ WF_vars(RefreshAnswered(t))
-----------------------------------------------------------------------------
Waiting == {"queued", "sent", "rotated", "surplus", "granted", "denied"}

\* The variables have their types; a tab is in the queue of the lock once,
\* and is in it whenever a refresh of its page is under way.
TypeOK ==
    /\ tokens \in Seq(Token)
    /\ closed \subseteq Session
    /\ jar \in 0 .. Len(tokens)
    /\ page \in [Tab -> {"app", "login"}]
    /\ call \in [Caller -> [op : {"none", "call", "html", "switch", "logout"},
                            st : {"idle", "sent", "revoking", "creating", "ok", "401",
                                  "refreshing"},
                            token : 0 .. Len(tokens), new : 0 .. Len(tokens),
                            retried : BOOLEAN, after : BOOLEAN]]
    /\ refresh \in [Tab -> [st : {"none"} \cup Waiting,
                            token : 0 .. Len(tokens), new : 0 .. Len(tokens)]]
    /\ locks \in Seq(Tab) /\ IsInjective(locks)
    /\ \A t \in Tab : page[t] = "app" =>
          (refresh[t].st \in Waiting <=> \E i \in DOMAIN locks : locks[i] = t)
    /\ spent \in [calls : 0 .. MaxCalls, lost : 0 .. MaxLost,
                 aged : 0 .. MaxAged]
    /\ upset \in BOOLEAN
    /\ out \in {"in", "out", "slipped"}

\* However many tabs present a refresh token, and in whatever order with
\* logouts, it has one successor: of a chain of rotated tokens at most one
\* is not revoked.
OneLivePerChain ==
    \A j, k \in Pair :
        tokens[j].chain = tokens[k].chain /\ ~tokens[j].revoked /\ ~tokens[k].revoked => j = k

\* Neither api.js nor the server's page route sends a tab to the login page
\* unless somebody logged out, a request failed or its answer was lost (a
\* refresh turned away by the rate limiter is one), a refresh token lapsed, a
\* page was loaded after the access token had expired, or a change of
\* environment revoked the token of a refresh under way: tabs that refresh at
\* the same time do not end each other's login.  Pages that go there by
\* themselves when their own start-up fails are not modelled.
NoSpuriousLogout == (\E t \in Tab : page[t] = "login") => upset

\* After a logout was answered, no request that is sent before the next login
\* is admitted to the company's data (a change of environment does not look at
\* the session, but its tokens open nothing), unless a request that could still
\* bring tokens of an open session was under way when the answer came: logout
\* closes no session when the access token has expired.
LogoutSticks ==
    \A c \in Caller :
        call[c].after /\ call[c].st = "ok" => call[c].op \in {"switch", "logout"}

\* Every call ends: no tab waits for a lock or a refresh for ever.
CallsEnd == \A c \in Caller : call[c].st # "idle" ~> call[c].st = "idle"
=============================================================================
