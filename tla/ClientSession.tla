---- MODULE ClientSession ----
(***************************************************************************)
(* The session of one browser tab: the axios instance of services/api.ts   *)
(* (generations, the queue of requests that write cookies, the shared      *)
(* refresh, the retry after a 401), the zustand store of authStore.ts, the *)
(* browser's cookies and the part of the auth controller that writes them. *)
(*                                                                         *)
(* A request is created (its generation is captured synchronously), then   *)
(* executed by its adapter, served, and its answer handled: in between     *)
(* anything may happen, and login, logout and the loading of the profile   *)
(* are called whenever the store lets them be.                             *)
(*                                                                         *)
(* Abstracted: a generation is compared only with the present one, so a    *)
(* request keeps whether it is `fresh`; authRevision moves exactly when    *)
(* the generation does, and a profile request keeps whether it is the      *)
(* `latest`.  A refresh token is the request that obtained it and its      *)
(* user, an access token its user.  sessionExpirationHandled is not kept:  *)
(* the event it guards makes the store invalidate the session at once,     *)
(* which clears it again.                                                  *)
(***************************************************************************)
EXTENDS Integers, Sequences, FiniteSets

CONSTANTS Accounts,    \* users that sign in from this browser
          Earlier,     \* those of them with a session from before; they are all alike
          MaxRequests, \* bound on the requests made, refreshes not counted
          OneFault,    \* bound: at most one fault in a behaviour
          None

ASSUME AccountsAssumption == Earlier \subseteq Accounts /\ None \notin Accounts \cup Int
ASSUME RequestsAssumption == MaxRequests \in Nat /\ OneFault \in BOOLEAN

VARIABLES tab,       \* the store and the module state of api.ts
          req,       \* the requests
          queue,     \* cookieMutationQueue, the one being executed first
          jar,       \* the cookies
          live,      \* the refresh tokens the server accepts
          disturbed, \* history: something the client cannot repair has happened
          kicked     \* history: the tab gave up, unasked, a session the server accepts

vars == <<tab, req, queue, jar, live, disturbed, kicked>>

Made == 1 .. MaxRequests
RefreshOf(r) == MaxRequests + r
All == 1 .. 2 * MaxRequests

CookieWriters == {"login", "logout", "refresh"}
Profiles == {"bootstrap", "profile"}
Protected == Profiles \cup {"get"}

NoCookies == [access |-> None, refresh |-> None]
CookiesOf(t) == [access |-> t.user, refresh |-> t]

NoRequest == [kind |-> "none", user |-> None, fresh |-> FALSE, latest |-> FALSE,
              retried |-> FALSE, phase |-> "none", cookies |-> NoCookies, answer |-> None, on |-> None]

Done == [NoRequest EXCEPT !.phase = "done"]

\* A cookie writer waits for its turn; any other request is sent in the task that made it.
NewWriter(kind, user) ==
  [NoRequest EXCEPT !.kind = kind, !.user = user, !.fresh = TRUE, !.phase = "queued"]
NewProtected(kind) ==
  [NoRequest EXCEPT !.kind = kind, !.fresh = TRUE, !.latest = kind \in Profiles,
                    !.phase = "sent", !.cookies = jar]

NewTab(page) == [user |-> None, loading |-> FALSE, checked |-> FALSE, refresh |-> None,
                 page |-> page, cache |-> {}]

Open(x) == x.phase \in {"sent", "served"}
WriterOpen == \E r \in All : Open(req[r]) /\ req[r].kind \in CookieWriters

Disturb(fault) == ~ (OneFault /\ fault /\ disturbed) /\ disturbed' = (disturbed \/ fault)

----
(* The session of the tab. *)

\* endSession and acceptProfile; the router moves to the login page or away from it.
EndSession(t, loading) == [t EXCEPT !.user = None, !.checked = TRUE, !.loading = loading,
                                    !.refresh = None, !.page = "public", !.cache = {}]
AcceptProfile(t, u) == [EndSession(t, FALSE) EXCEPT !.user = u, !.page = "inside"]

\* Mutant: the requests under way are not aborted, and their answers are not refused.
InvalidateNoAbort(q) == [r \in All |-> [q[r] EXCEPT !.fresh = FALSE, !.latest = FALSE]]

\* invalidateApiSession: protected requests are aborted, all others belong to the past.
Invalidate(q) ==
  [r \in All |-> IF q[r].kind \in Protected /\ Open(q[r]) THEN Done
                 ELSE [q[r] EXCEPT !.fresh = FALSE, !.latest = FALSE]]

\* The page is left: no answer is handled any more, but the server may be at work on one.
Abandon(q) ==
  [r \in All |-> IF q[r].phase = "sent" /\ q[r].kind \in CookieWriters
                 THEN [Done EXCEPT !.phase = "orphan", !.kind = q[r].kind, !.user = q[r].user,
                                   !.cookies = q[r].cookies]
                 ELSE IF q[r].phase \in {"none", "orphan"} THEN q[r] ELSE Done]

\* expireSession: the store ends the session; a page that is not public is replaced by /login.
Expire(t, q, rest) ==
  IF t.page = "public"
  THEN tab' = EndSession(t, FALSE) /\ req' = Invalidate(q) /\ queue' = rest
  ELSE tab' = NewTab("public") /\ req' = Abandon(q) /\ queue' = <<>>

\* Mutant: the queue is not released.
WithoutNone(r) == queue

\* serializeCookieMutation: when the request whose turn it is has ended, the next one is released.
Without(r) == IF queue # <<>> /\ Head(queue) = r THEN Tail(queue) ELSE queue

----
(* What the user and the pages do. *)

Unused(r) == req[r].phase = "none" /\ \A s \in Made : s < r => req[s].phase # "none"

Login(r, u) ==
  /\ Unused(r)
  /\ tab' = EndSession(tab, TRUE)
  /\ req' = [Invalidate(req) EXCEPT ![r] = NewWriter("login", u)]
  /\ queue' = Append(queue, r)
  /\ UNCHANGED <<jar, live, disturbed, kicked>>

Logout(r) ==
  /\ Unused(r)
  /\ tab' = EndSession(tab, TRUE)
  /\ req' = [Invalidate(req) EXCEPT ![r] = NewWriter("logout", None)]
  /\ queue' = Append(queue, r)
  /\ UNCHANGED <<jar, live, disturbed, kicked>>

\* ++profileRevision: an earlier request for the profile is no longer the latest.
Supersede(q) == [r \in All |-> [q[r] EXCEPT !.latest = FALSE]]

\* initializeAuth; the CSRF cookie, which hints at a session, lives as long as the refresh token.
InitializeAuth(r) ==
  /\ ~ tab.checked /\ ~ tab.loading
  /\ IF tab.page = "public" /\ jar.refresh = None
     THEN tab' = EndSession(tab, FALSE) /\ req' = Invalidate(req)
     ELSE /\ Unused(r)
          /\ tab' = [tab EXCEPT !.loading = TRUE]
          /\ req' = [Supersede(req) EXCEPT ![r] = NewProtected("bootstrap")]
  /\ UNCHANGED <<queue, jar, live, disturbed, kicked>>

LoadProfile(r) ==
  /\ Unused(r)
  /\ tab.user # None /\ ~ tab.loading
  /\ req' = [Supersede(req) EXCEPT ![r] = NewProtected("profile")]
  /\ UNCHANGED <<tab, queue, jar, live, disturbed, kicked>>

\* A query of a page behind ProtectedRoute.
Get(r) ==
  /\ Unused(r)
  /\ tab.user # None
  /\ req' = [req EXCEPT ![r] = NewProtected("get")]
  /\ UNCHANGED <<tab, queue, jar, live, disturbed, kicked>>

\* The page is loaded again by the user; losing the answer of a cookie writer is a fault.
Reload ==
  /\ \E r \in Made : req[r].phase = "none"
  /\ tab.checked
  /\ tab' = NewTab(tab.page)
  /\ req' = Abandon(req)
  /\ queue' = <<>>
  /\ Disturb(WriterOpen)
  /\ UNCHANGED <<jar, live, kicked>>

----
(* Requests: the adapter, the server, the answer.  *)

\* Mutant: cookie writers do not wait for each other.
ExecuteAtOnce(r) ==
  /\ req[r].phase = "queued"
  /\ req' = [req EXCEPT ![r].phase = "sent", ![r].cookies = jar]
  /\ UNCHANGED <<tab, queue, jar, live, disturbed, kicked>>

\* The turn of a cookie writer: a refresh of the past is refused, a login or a logout never; else
\* it is sent with the cookies of this moment.
Execute(r) ==
  /\ req[r].phase = "queued" /\ Head(queue) = r
  /\ IF req[r].kind = "refresh" /\ ~ req[r].fresh
     THEN req' = [req EXCEPT ![r] = Done] /\ queue' = Without(r)
     ELSE /\ req' = [req EXCEPT ![r].phase = "sent", ![r].cookies = jar]
          /\ UNCHANGED queue
  /\ UNCHANGED <<tab, jar, live, disturbed, kicked>>

Token(r, u) == [id |-> r, user |-> u]

\* What the server makes of cookie writer r: the tokens it accepts afterwards, and its answer with the
\* cookies it sets (None: it sets none).
Answer(status, user, cookies) == [status |-> status, user |-> user, cookies |-> cookies]

\* A refresh for an account that has been blocked is answered 403, which api.ts leaves to the request
\* that waits for it.
Blocked(token) == IF token = None THEN {} ELSE {"403"}

Served(r) ==
  LET c == req[r].cookies
      kind == req[r].kind
  IN  IF kind = "login"
      THEN LET t == Token(r, req[r].user) IN
           {<<live \cup {t}, Answer("ok", t.user, CookiesOf(t))>>,
            <<live, Answer("401", None, None)>>}
      ELSE IF kind = "logout"
      THEN {<<live \ {c.refresh}, Answer("ok", None, NoCookies)>>}
      ELSE IF c.refresh \notin live
      THEN {<<live, Answer(code, None, NoCookies)>> : code \in {"401"} \cup Blocked(c.refresh)}
      ELSE LET t == Token(r, c.refresh.user) IN
           {<<(live \ {c.refresh}) \cup {t}, Answer("ok", t.user, CookiesOf(t))>>}

Serve(r) ==
  /\ req[r].phase = "sent" /\ req[r].kind \in CookieWriters
  /\ \E s \in Served(r) :
       /\ live' = s[1]
       /\ req' = [req EXCEPT ![r].phase = "served", ![r].answer = s[2]]
  /\ UNCHANGED <<tab, queue, jar, disturbed, kicked>>

\* The handler has set the cookies, and then the transaction does not commit.
ServeRolledBack(r) ==
  /\ req[r].phase = "sent" /\ req[r].kind \in CookieWriters
  /\ \E s \in Served(r) :
       req' = [req EXCEPT ![r].phase = "served", ![r].answer = [s[2] EXCEPT !.status = "500"]]
  /\ Disturb(TRUE)
  /\ UNCHANGED <<tab, queue, jar, live, kicked>>

ServeOrphan(r) ==
  /\ req[r].phase = "orphan"
  /\ \E s \in Served(r) : live' = s[1]
  /\ req' = [req EXCEPT ![r].phase = "done"]
  /\ UNCHANGED <<tab, queue, jar, disturbed, kicked>>

\* The session is given up: a pity if the refresh token of the browser still opens one.
GiveUp == kicked' = (kicked \/ jar.refresh \in live)

\* Mutant: any failure to load the profile ends the session.
ProfileFailedAny(r, status, q) ==
  IF req[r].latest THEN tab' = EndSession(tab, FALSE) /\ req' = Invalidate(q) /\ GiveUp
  ELSE tab' = tab /\ req' = q /\ UNCHANGED kicked

\* The profile could not be loaded: initializeAuth gives up the session, loadProfile after a 401.
ProfileFailed(r, status, q) ==
  IF req[r].latest /\ (req[r].kind = "bootstrap" \/ status = "401")
  THEN tab' = EndSession(tab, FALSE) /\ req' = Invalidate(q) /\ GiveUp
  ELSE tab' = tab /\ req' = q /\ UNCHANGED kicked

\* A 401 on a protected request, once: refreshSession shares the refresh that is under way.
NeedsRefresh(r, q) ==
  /\ queue' = IF tab.refresh = None THEN Append(queue, RefreshOf(r)) ELSE queue
  /\ tab' = IF tab.refresh = None THEN [tab EXCEPT !.refresh = RefreshOf(r)] ELSE tab
  /\ req' = LET w == [q EXCEPT ![r] = [req[r] EXCEPT !.phase = "waiting", !.retried = TRUE,
                                                     !.answer = None, !.cookies = NoCookies,
                                                     !.on = tab'.refresh]]
            IN  IF tab.refresh = None THEN [w EXCEPT ![RefreshOf(r)] = NewWriter("refresh", None)]
                ELSE w

\* The answer to a protected request of the present generation.
ProtectedAnswer(r, status, user) ==
  LET q == [req EXCEPT ![r] = Done] IN
  IF status = "401" /\ ~ req[r].retried THEN NeedsRefresh(r, q) /\ UNCHANGED kicked
  ELSE IF req[r].kind = "get"
  THEN /\ tab' = IF status = "ok" THEN [tab EXCEPT !.cache = @ \cup {user}] ELSE tab
       /\ req' = q /\ UNCHANGED <<queue, kicked>>
  ELSE IF status = "ok" /\ req[r].latest
  THEN tab' = AcceptProfile(tab, user) /\ req' = Invalidate(q) /\ UNCHANGED <<queue, kicked>>
  ELSE IF status = "ok" THEN req' = q /\ UNCHANGED <<tab, queue, kicked>>
  ELSE ProfileFailed(r, status, q) /\ UNCHANGED queue

\* The answer to a cookie writer of the present generation.  A refresh keeps how it ended for
\* those who wait for it.
WriterAnswer(r, status, user) ==
  LET q == [req EXCEPT ![r] = Done]
      settled == [tab EXCEPT !.refresh = IF @ = r THEN None ELSE @]
  IN  IF req[r].kind # "refresh"
      THEN IF req[r].kind = "login" /\ status = "ok"
           THEN tab' = AcceptProfile(tab, user) /\ req' = Invalidate(q) /\ queue' = Without(r)
           ELSE tab' = [tab EXCEPT !.loading = FALSE] /\ req' = q /\ queue' = Without(r)
      ELSE IF status = "401" THEN Expire(settled, q, Without(r))
      ELSE /\ tab' = settled
           /\ req' = [q EXCEPT ![r].answer = Answer(status, None, None)]
           /\ queue' = Without(r)

\* The server answers for the user of the access token; an aborted request is not `sent` any more.
ArriveProtected(r) ==
  /\ req[r].phase = "sent" /\ req[r].kind \in Protected
  /\ IF req[r].cookies.access = None THEN ProtectedAnswer(r, "401", None)
     ELSE ProtectedAnswer(r, "ok", req[r].cookies.access)
  /\ UNCHANGED <<jar, live, disturbed>>

\* The answer of a cookie writer arrives: the browser stores its cookies before any script runs.
Arrive(r) ==
  /\ req[r].phase = "served"
  /\ LET a == req[r].answer IN
     /\ IF req[r].fresh THEN WriterAnswer(r, a.status, a.user)
        ELSE req' = [req EXCEPT ![r] = Done] /\ queue' = Without(r) /\ UNCHANGED tab
     /\ jar' = IF a.cookies = None THEN jar ELSE a.cookies
     /\ kicked' = (kicked \/ (req[r].fresh /\ req[r].kind = "refresh"
                              /\ a.status \in {"401", "403"} /\ jar.refresh \in live))
  /\ UNCHANGED <<live, disturbed>>

\* The connection fails, twenty seconds pass, or the server answers with an error of its own.  Of a
\* cookie writer it may have seen nothing, or may still see it.  A fault is what the client does not
\* make up for: an answer with cookies, or that to the profile request with which a page begins.
Fail(r) ==
  /\ Open(req[r])
  /\ LET lost == [q \in All |-> IF q = r THEN Abandon(req)[r] ELSE req[q]]
     IN  IF ~ req[r].fresh
         THEN req' = lost /\ queue' = Without(r) /\ UNCHANGED <<tab, kicked>>
         ELSE IF req[r].kind = "refresh"
         THEN /\ tab' = [tab EXCEPT !.refresh = IF @ = r THEN None ELSE @]
              /\ req' = [lost EXCEPT ![r].answer = Answer("failed", None, None)]
              /\ queue' = Without(r) /\ UNCHANGED kicked
         ELSE IF req[r].kind \in CookieWriters
         THEN /\ tab' = [tab EXCEPT !.loading = FALSE] /\ req' = lost /\ queue' = Without(r)
              /\ UNCHANGED kicked
         ELSE ProtectedAnswer(r, "failed", None)
  /\ Disturb(req[r].kind \in CookieWriters \cup {"bootstrap"})
  /\ UNCHANGED <<jar, live>>

Refreshed(r) == req[r].phase = "waiting" /\ req[req[r].on].phase \in {"done", "orphan"}

\* The refresh a request waits for has ended: it is made again, or the session is given up.
Resume(r) ==
  /\ Refreshed(r)
  /\ IF ~ req[r].fresh
     THEN req' = [req EXCEPT ![r] = Done] /\ UNCHANGED <<tab, queue, kicked>>
     ELSE IF req[req[r].on].answer.status = "ok"
     THEN /\ req' = [req EXCEPT ![r].phase = "sent", ![r].cookies = jar, ![r].on = None]
          /\ UNCHANGED <<tab, queue, kicked>>
     ELSE Expire(tab, [req EXCEPT ![r] = Done], queue) /\ GiveUp
  /\ UNCHANGED <<jar, live, disturbed>>

----
(* What happens elsewhere. *)

\* The access token and its cookie have the same lifetime.  It is a fault only when a request is
\* about to be made again with it: a request is not refreshed twice.
AccessExpires ==
  /\ jar.access # None
  /\ jar' = [jar EXCEPT !.access = None]
  /\ Disturb(\E r \in All : req[r].fresh /\ Refreshed(r))
  /\ UNCHANGED <<tab, req, queue, live, kicked>>

\* A block, a new password or a new role revokes the sessions of the user.
Revoke(u) ==
  /\ \E t \in live : t.user = u
  /\ live' = {t \in live : t.user # u}
  /\ Disturb(TRUE)
  /\ UNCHANGED <<tab, req, queue, jar, kicked>>

\* Another tab refreshes.  It is a fault only when this one's refresh is under way: nothing
\* serializes the tabs of a browser, and the loser's answer clears the cookies.  Bound: with the
\* first token.
OtherTabRefreshes ==
  LET t == Token(0, jar.refresh.user) IN
  /\ jar.refresh \in live /\ jar.refresh.id = -1
  /\ live' = (live \ {jar.refresh}) \cup {t}
  /\ jar' = CookiesOf(t)
  /\ Disturb(WriterOpen)
  /\ UNCHANGED <<tab, req, queue, kicked>>

----

\* A tab is opened, with the cookies of an earlier session or without; or it has already loaded
\* the profile, which saves a request of the bound.
Init ==
  /\ jar \in {NoCookies} \cup {CookiesOf(Token(-1, u)) : u \in Earlier}
  /\ tab \in {NewTab("public"), NewTab("inside")}
            \cup (IF jar = NoCookies THEN {} ELSE {AcceptProfile(NewTab("inside"), jar.access)})
  /\ req = [r \in All |-> NoRequest]
  /\ queue = <<>>
  /\ live = {jar.refresh} \ {None}
  /\ disturbed = FALSE
  /\ kicked = FALSE

Answered(r) == Serve(r) \/ Arrive(r) \/ ArriveProtected(r) \/ Fail(r)

Next ==
  \/ \E r \in Made :
       \/ \E u \in Accounts : Login(r, u)
       \/ Logout(r) \/ InitializeAuth(r) \/ LoadProfile(r) \/ Get(r)
  \/ \E r \in All : Execute(r) \/ Resume(r) \/ Answered(r) \/ ServeRolledBack(r) \/ ServeOrphan(r)
  \/ \E u \in Accounts : Revoke(u)
  \/ Reload \/ AccessExpires \/ OtherTabRefreshes

Spec == Init /\ [][Next]_vars

\* A promise that is settled runs its continuations, and a request is answered or fails.
Fairness == \A r \in All : WF_vars(Execute(r) \/ Resume(r)) /\ WF_vars(Answered(r))

----
(* Properties. *)

TokenType == [id : All \cup {-1, 0}, user : Accounts]
CookiesType == [access : Accounts \cup {None}, refresh : TokenType \cup {None}]
AnswerType == [status : {"ok", "401", "403", "500", "failed"}, user : Accounts \cup {None},
               cookies : CookiesType \cup {None}]

ASSUME NoneAssumption == None \notin TokenType /\ None \notin CookiesType /\ None \notin AnswerType

\* The shape of the tab, the requests, the cookies and the server's tokens; the queue holds the
\* cookie writers that have not ended, once each, and only its head has been sent.
TypeOK ==
  /\ tab \in [user : Accounts \cup {None}, loading : BOOLEAN, checked : BOOLEAN,
              refresh : All \cup {None}, page : {"public", "inside"}, cache : SUBSET Accounts]
  /\ req \in [All -> [kind : CookieWriters \cup Protected \cup {"none"},
                      user : Accounts \cup {None}, fresh : BOOLEAN, latest : BOOLEAN,
                      retried : BOOLEAN, on : All \cup {None}, cookies : CookiesType,
                      phase : {"none", "queued", "sent", "served", "waiting", "orphan", "done"},
                      answer : AnswerType \cup {None}]]
  /\ queue \in Seq(All)
  /\ jar \in CookiesType
  /\ live \subseteq TokenType
  /\ disturbed \in BOOLEAN /\ kicked \in BOOLEAN
  /\ \A r \in All : Open(req[r]) /\ req[r].kind \in CookieWriters => queue # <<>> /\ Head(queue) = r

\* The store never shows one user while the browser holds the cookies of another, whatever
\* logins, logouts, refreshes and reloads overlap, and whichever of them fail: a late login, or
\* a refresh that was under way when the user changed, must not bring the old session back.
TabMatchesJar ==
  tab.user # None /\ jar.refresh # None => jar.refresh.user = tab.user

\* The query client holds only data the server answered for the user the store shows, so an
\* answer from before a change of user never reaches the pages of the next one.
CacheIsOfUser == tab.cache \subseteq {tab.user}

\* Pages, store and cookies are of one user at any moment, through every overlap of logins,
\* logouts, refreshes, profile loads and reloads.
OneIdentity == TabMatchesJar /\ CacheIsOfUser

\* The tab never gives up, unasked, a session the server would accept, be it at the end of a
\* refresh or because the profile could not be loaded (authStore.ts:186, 235); and between two
\* cookie writers the browser's refresh token is one the server accepts: parallel 401s share one
\* refresh, and refreshes, logins and logouts never overtake each other.  Except after a fault: the
\* answer to a cookie writer, or to the first load of the profile, was lost or came of a transaction
\* rolled back; an access token expired between the refresh that brought it and the retry; the
\* session was revoked; the page was left or another tab refreshed while a cookie writer was under
\* way.
SessionSurvives ==
  ~ disturbed =>
    /\ ~ kicked
    /\ jar.refresh # None /\ ~ WriterOpen
         => jar.refresh \in live

\* isLoading, which disables the login button, does not stay set: no request waits for ever in
\* the queue of cookie writers or for a refresh, whatever is superseded or fails meanwhile.
LoadingEnds == tab.loading ~> ~ tab.loading
====
