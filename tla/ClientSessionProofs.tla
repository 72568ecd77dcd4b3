---- MODULE ClientSessionProofs ----
(***************************************************************************)
(* However the requests of a tab overlap, fail or are superseded, its      *)
(* pages, its store and its cookies are of one user, and it never gives up *)
(* a session that the server would accept unless something outside its     *)
(* reach has happened.                                                     *)
(*                                                                         *)
(* The inductive invariant says what a request must be at each phase       *)
(* (Shape), that exactly the writers of cookies that have not ended are    *)
(* queued, a login or a logout that still counts being the last of them    *)
(* (Ordered), that while one is under way the tab shows nobody (Nobody),   *)
(* that what a request carries is of the user of the tab and of the        *)
(* cookies (Fits), that whoever waits for a refresh will learn how it      *)
(* ended (Awaits), and, of an undisturbed session, that the writer whose   *)
(* turn it is carries, or brings, a token the server accepts (Accepted).   *)
(* That the session is not given up needs one thing more (Renewed): what   *)
(* was refused has, or its refresh brings, an access token for its retry.  *)
(*                                                                         *)
(* The notifications, which share no state with the session, keep what     *)
(* their rollbacks and answers need (NotificationsIInv, at the end).       *)
(***************************************************************************)
EXTENDS MCBrowser, FiniteSetTheorems, TLAPS

RequestType == [kind : CookieWriters \cup Protected \cup {"none"},
                user : Accounts \cup {None}, fresh : BOOLEAN, latest : BOOLEAN,
                retried : BOOLEAN, on : All \cup {None}, cookies : CookiesType,
                phase : {"none", "queued", "sent", "served", "waiting", "orphan", "done"},
                answer : AnswerType \cup {None}]
TabType == [user : Accounts \cup {None}, loading : BOOLEAN, checked : BOOLEAN,
            refresh : All \cup {None}, page : {"public", "inside"}, cache : SUBSET Accounts]

Writing(x) == x.kind \in CookieWriters /\ x.phase \in {"queued", "sent", "served"}
Signing(x) == x.kind \in {"login", "logout"} /\ x.phase \in {"queued", "sent", "served"}
OpenProtected(x) == x.kind \in Protected /\ x.phase = "sent"
OpenWriter(x) == x.kind \in CookieWriters /\ Open(x)

\* What a request is, by its kind and phase.
Shape(r, x) ==
  /\ x.phase = "none" => x.kind = "none" /\ ~ x.retried
  /\ x.kind = "none" => x.phase \in {"none", "done"}
  /\ x.kind \in Protected => x.phase \in {"sent", "waiting"} /\ r \in Made
  /\ x.phase = "waiting" => x.kind \in Protected /\ x.on \in All
  /\ OpenProtected(x) => x.fresh
  /\ x.fresh => x.phase \notin {"none", "done", "orphan"}
  /\ x.kind = "login" => x.user \in Accounts
  /\ x.retried => x.kind \notin CookieWriters
  /\ x.phase = "served" => x.answer \in AnswerType

Shapes(q) == \A r \in All : Shape(r, q[r])

\* A request is refreshed once.
OneRefresh(q) ==
  \A r \in Made : q[RefreshOf(r)].phase # "none" => q[r].retried \/ q[r].phase = "done"

Ordered(u, q) ==
  /\ \A i \in 1 .. Len(u) : Writing(q[u[i]])
  /\ \A r \in All : Writing(q[r]) => \E i \in 1 .. Len(u) : u[i] = r
  /\ \A i, j \in 1 .. Len(u) : u[i] = u[j] => i = j
  /\ \A r \in All : Signing(q[r]) /\ q[r].fresh => u[Len(u)] = r
  /\ \A r \in All : OpenWriter(q[r]) => u # <<>> /\ Head(u) = r

Nobody(t, q) ==
  (\E r \in All : Signing(q[r])) =>
     /\ t.user = None /\ t.checked
     /\ \A r \in All : q[r].fresh => q[r].kind \in {"login", "logout"}

\* The refresh that requests are to share is one that still counts.
Refreshing(t, q) ==
  t.refresh # None => q[t.refresh].fresh /\ q[t.refresh].kind = "refresh"

SoundCookies(c) == c.access # None => c.refresh # None /\ c.access = c.refresh.user
OfUser(c, j) == c.refresh # None => j.refresh # None /\ c.refresh.user = j.refresh.user

\* What request x carries agrees with tab t and cookies j.
Fits(x, t, j) ==
  /\ x.kind \in Protected /\ x.fresh =>
       /\ x.kind = "get" => t.user # None
       /\ x.phase = "sent" /\ x.cookies.access # None =>
            /\ j.refresh # None => x.cookies.access = j.refresh.user
            /\ t.user # None => x.cookies.access = t.user
  /\ x.kind = "refresh" /\ x.phase = "sent" => OfUser(x.cookies, j)
  /\ x.phase = "served" /\ x.answer.cookies # None =>
       /\ SoundCookies(x.answer.cookies)
       /\ x.kind = "refresh" => OfUser(x.answer.cookies, j)
       /\ x.kind = "logout" => x.answer.cookies = NoCookies
  /\ x.phase = "served" /\ x.kind = "login" /\ x.answer.status = "ok" =>
       /\ x.answer.cookies # None /\ x.answer.cookies.refresh # None
       /\ x.answer.cookies.refresh.user = x.answer.user

RequestsFit(q, t, j) == SoundCookies(j) /\ \A r \in All : Fits(q[r], t, j)

\* The refresh that x waits for is under way, or has ended well unless the session is disturbed.
Awaits(x, q, d) ==
  x.phase = "waiting" /\ x.fresh =>
    \/ q[x.on].fresh /\ q[x.on].kind = "refresh"
    \/ /\ q[x.on].phase \in {"done", "orphan"}
       /\ ~ d => q[x.on].answer # None /\ q[x.on].answer.status = "ok"

AllAwait(q, d) == \A r \in All : Awaits(q[r], q, d)

\* With cookies j and accepted tokens l, nothing is lost by what x carries or brings.
Accepted(x, j, l) ==
  /\ x.phase # "orphan"
  /\ OpenWriter(x) /\ x.phase = "sent" => x.cookies.refresh = j.refresh /\ j.refresh \in l \cup {None}
  /\ OpenWriter(x) /\ x.phase = "served" =>
       /\ IF x.answer.cookies = None THEN j.refresh \in l \cup {None}
          ELSE x.answer.cookies.refresh \in l \cup {None}
       /\ x.kind = "refresh" => \/ x.answer.status = "ok"
                                \/ x.answer.status = "401" /\ j.refresh = None

Carried(q, j, l) == \A r \in All : Accepted(q[r], j, l)

Kept == ~ disturbed =>
  (WriterOpen \/ jar.refresh \in live \cup {None}) /\ Carried(req, jar, live)

Structure == /\ TypeOK /\ Shapes(req) /\ OneRefresh(req) /\ Ordered(queue, req)
             /\ Nobody(tab, req) /\ Refreshing(tab, req)

IInv == Structure /\ RequestsFit(req, tab, jar) /\ OneIdentity /\ AllAwait(req, disturbed) /\ Kept

\* What a step does to the history.
Noted == disturbed' \in BOOLEAN /\ (disturbed => disturbed') /\ kicked' \in BOOLEAN
----
(* Identifiers, types and what becomes of a request that is not the one that moves. *)

LEMMA Numbers ==
  /\ Made \subseteq All
  /\ \A r \in Made : RefreshOf(r) \in All /\ RefreshOf(r) \notin Made
  /\ \A r, s \in Made : RefreshOf(r) = RefreshOf(s) => r = s
BY RequestsAssumption DEF Made, All, RefreshOf

LEMMA Nulls ==
  /\ None \notin All /\ None \notin Accounts
  /\ NoCookies \in CookiesType /\ NoCookies # None
  /\ \A r \in All, u \in Accounts : /\ Token(r, u) \in TokenType /\ Token(r, u).user = u
                                    /\ CookiesOf(Token(r, u)) \in CookiesType
                                    /\ CookiesOf(Token(r, u)).refresh = Token(r, u)
<1>1. None \notin All /\ None \notin Accounts
  BY AccountsAssumption, RequestsAssumption DEF All
<1> QED
  BY <1>1, NoneAssumption DEF NoCookies, CookiesType, Token, TokenType, CookiesOf

LEMMA Types == TypeOK <=> /\ tab \in TabType /\ req \in [All -> RequestType] /\ queue \in Seq(All)
                          /\ jar \in CookiesType /\ live \subseteq TokenType
                          /\ disturbed \in BOOLEAN /\ kicked \in BOOLEAN
                          /\ \A r \in All : OpenWriter(req[r]) => queue # <<>> /\ Head(queue) = r
BY DEF TypeOK, TabType, RequestType, OpenWriter

\* x went on with nothing but whether it is the latest changed.
Same(x, y) == /\ y \in RequestType
              /\ y.kind = x.kind /\ y.user = x.user /\ y.fresh = x.fresh /\ y.retried = x.retried
              /\ y.on = x.on /\ y.cookies = x.cookies /\ y.phase = x.phase /\ y.answer = x.answer

\* x belongs to the past.
Aged(x, y) == /\ y \in RequestType /\ ~ y.fresh
              /\ \/ /\ OpenProtected(x) /\ y.kind = "none" /\ y.phase = "done" /\ y.answer = None
                 \/ /\ ~ OpenProtected(x)
                    /\ y.kind = x.kind /\ y.user = x.user /\ y.retried = x.retried
                    /\ y.on = x.on /\ y.cookies = x.cookies /\ y.phase = x.phase /\ y.answer = x.answer

\* The page of x was left.
Left(x, y) == /\ y \in RequestType /\ ~ y.fresh /\ y.phase \in {"none", "done", "orphan"}
              /\ (y.phase = "none" <=> x.phase = "none") /\ (y.phase = "none" => y = x)
              /\ y.phase # "orphan" => y.kind = "none"
              /\ y.phase = "orphan" =>
                   y = x \/ ( /\ y.kind = x.kind /\ y.user = x.user /\ ~ y.retried
                              /\ x.phase = "sent" /\ x.kind \in CookieWriters)

Near(x, y) == Same(x, y) \/ Aged(x, y)

LEMMA DoneIs == Done \in RequestType /\ Done.kind = "none" /\ Done.phase = "done" /\ ~Done.fresh /\ Done.answer = None
                /\ Done.cookies = NoCookies /\ ~Done.retried
BY Nulls DEF Done, NoRequest, RequestType

LEMMA NoRequestIs == /\ NoRequest \in RequestType /\ NoRequest.kind = "none" /\ NoRequest.phase = "none"
                     /\ ~NoRequest.fresh /\ NoRequest.answer = None
BY Nulls DEF NoRequest, RequestType

LEMMA SameIs == \A x \in RequestType : Same(x, x) /\ Near(x, x)
BY DEF Same, Near

LEMMA LeftBehind ==
  ASSUME NEW q \in [All -> RequestType], \A r \in All : Open(q[r]) /\ q[r].kind \in Protected => q[r].phase = "sent"
  PROVE  Invalidate(q) \in [All -> RequestType] /\ \A r \in All : Aged(q[r], Invalidate(q)[r])
<1>1. ASSUME NEW r \in All
      PROVE  Aged(q[r], Invalidate(q)[r])
  <2>1. q[r] \in RequestType
    OBVIOUS
  <2>2. CASE q[r].kind \in Protected /\ Open(q[r])
    BY <2>2, DoneIs DEF Invalidate, Aged, OpenProtected
  <2>3. CASE ~(q[r].kind \in Protected /\ Open(q[r]))
    <3>1. Invalidate(q)[r] = [q[r] EXCEPT !.fresh = FALSE, !.latest = FALSE]
      BY <2>3 DEF Invalidate
    <3>2. ~OpenProtected(q[r])
      BY <2>3 DEF OpenProtected, Open
    <3> QED
      BY <2>1, <3>1, <3>2 DEF Aged, RequestType
  <2> QED
    BY <2>2, <2>3
<1> QED
  BY <1>1 DEF Aged, Invalidate

LEMMA Abandoned ==
  ASSUME NEW q \in [All -> RequestType], Shapes(q)
  PROVE  Abandon(q) \in [All -> RequestType] /\ \A r \in All : Left(q[r], Abandon(q)[r])
<1>1. ASSUME NEW r \in All
      PROVE  Left(q[r], Abandon(q)[r])
  <2>1. q[r] \in RequestType /\ Shape(r, q[r])
    BY DEF Shapes
  <2>2. CASE q[r].phase = "sent" /\ q[r].kind \in CookieWriters
    <3>1. Abandon(q)[r] = [Done EXCEPT !.phase = "orphan", !.kind = q[r].kind, !.user = q[r].user,
                                       !.cookies = q[r].cookies]
      BY <2>2 DEF Abandon
    <3>2. /\ Abandon(q)[r] \in RequestType
          /\ Abandon(q)[r].phase = "orphan" /\ Abandon(q)[r].kind = q[r].kind
          /\ Abandon(q)[r].user = q[r].user /\ ~Abandon(q)[r].fresh /\ ~Abandon(q)[r].retried
      BY <2>1, <3>1, DoneIs DEF RequestType
    <3> QED
      BY <2>2, <3>2 DEF Left
  <2>3. CASE ~(q[r].phase = "sent" /\ q[r].kind \in CookieWriters) /\ q[r].phase \in {"none", "orphan"}
    <3>1. Abandon(q)[r] = q[r]
      BY <2>3 DEF Abandon
    <3>2. q[r].fresh = FALSE
      BY <2>1, <2>3 DEF Shape, RequestType
    <3>3. q[r].phase = "none" => q[r].kind = "none"
      BY <2>1 DEF Shape
    <3> QED
      BY <2>1, <2>3, <3>1, <3>2, <3>3 DEF Left
  <2>4. CASE ~(q[r].phase = "sent" /\ q[r].kind \in CookieWriters) /\ q[r].phase \notin {"none", "orphan"}
    <3>1. Abandon(q)[r] = Done
      BY <2>4 DEF Abandon
    <3> QED
      BY <2>4, <3>1, DoneIs DEF Left
  <2> QED
    BY <2>2, <2>3, <2>4
<1> QED
  BY <1>1 DEF Left, Abandon

LEMMA Superseded ==
  ASSUME NEW q \in [All -> RequestType]
  PROVE  Supersede(q) \in [All -> RequestType] /\ \A r \in All : Same(q[r], Supersede(q)[r])
<1>1. ASSUME NEW r \in All
      PROVE  Same(q[r], Supersede(q)[r])
  <2>1. q[r] \in RequestType /\ Supersede(q)[r] = [q[r] EXCEPT !.latest = FALSE]
    BY DEF Supersede
  <2> QED
    BY <2>1 DEF Same, RequestType
<1> QED
  BY <1>1 DEF Same, Supersede
----
(* How each part of the invariant is kept.  S holds the requests that move.  *)

Rest(S, q, p) == \A s \in All \ S : Near(q[s], p[s])

LEMMA NearKeeps ==
  ASSUME NEW x \in RequestType, NEW y \in RequestType, Near(x, y)
  PROVE  /\ Writing(y) <=> Writing(x)
         /\ Signing(y) <=> Signing(x)
         /\ OpenWriter(y) <=> OpenWriter(x)
         /\ OpenProtected(y) => OpenProtected(x)
         /\ y.fresh => Same(x, y)
         /\ y.phase = "none" <=> x.phase = "none"
         /\ x.phase = "done" => y.phase = "done"
         /\ x.retried => y.retried \/ y.phase = "done"
         /\ Writing(x) => y.cookies = x.cookies /\ y.answer = x.answer /\ y.phase = x.phase
                          /\ y.kind = x.kind /\ y.user = x.user
         /\ y.phase = "orphan" => x.phase = "orphan"
         /\ \A r : Shape(r, x) => Shape(r, y)
<1>1. CASE Same(x, y)
  BY <1>1 DEF Same, Writing, Signing, OpenWriter, Open, OpenProtected, Shape
<1>2. CASE Aged(x, y) /\ OpenProtected(x)
  BY <1>2 DEF Aged, Writing, Signing, OpenWriter, Open, OpenProtected, Shape, CookieWriters, Protected, Profiles
<1>3. CASE Aged(x, y) /\ ~OpenProtected(x)
  BY <1>3 DEF Aged, Writing, Signing, OpenWriter, Open, OpenProtected, Shape
<1> QED
  BY <1>1, <1>2, <1>3 DEF Near

LEMMA ShapesKept ==
  ASSUME NEW q \in [All -> RequestType], NEW p \in [All -> RequestType], NEW S \in SUBSET All,
         Shapes(q), Rest(S, q, p), \A s \in S : Shape(s, p[s])
  PROVE  Shapes(p)
BY NearKeeps DEF Shapes, Rest

LEMMA OneRefreshKept ==
  ASSUME NEW q \in [All -> RequestType], NEW p \in [All -> RequestType], NEW S \in SUBSET All,
         OneRefresh(q), Rest(S, q, p),
         \A s \in S : /\ q[s].phase = "done" => p[s].phase = "done"
                      /\ q[s].retried => p[s].retried \/ p[s].phase = "done"
                      /\ q[s].phase = "none" /\ p[s].phase # "none" =>
                           s \in Made \/ \E r \in Made : s = RefreshOf(r) /\ p[r].retried
  PROVE  OneRefresh(p)
<1> SUFFICES ASSUME NEW r \in Made, p[RefreshOf(r)].phase # "none"
             PROVE  p[r].retried \/ p[r].phase = "done"
  BY DEF OneRefresh
<1>1. r \in All /\ RefreshOf(r) \in All /\ RefreshOf(r) \notin Made
  BY Numbers
<1>2. CASE q[RefreshOf(r)].phase # "none"
  <2>1. q[r].retried \/ q[r].phase = "done"
    BY <1>2 DEF OneRefresh
  <2> QED
    BY <1>1, <2>1, NearKeeps DEF Rest
<1>3. CASE q[RefreshOf(r)].phase = "none"
  <2>1. RefreshOf(r) \in S
    BY <1>1, <1>3, NearKeeps DEF Rest
  <2> QED
    BY <1>1, <1>3, <2>1, Numbers
<1> QED
  BY <1>2, <1>3

LEMMA OrderedKept ==
  ASSUME NEW q \in [All -> RequestType], NEW p \in [All -> RequestType], NEW S \in SUBSET All,
         NEW u \in Seq(All),
         Ordered(u, q), Rest(S, q, p),
         \A s \in S : /\ Writing(p[s]) <=> Writing(q[s])
                      /\ Signing(p[s]) /\ p[s].fresh => Signing(q[s]) /\ q[s].fresh
                      /\ OpenWriter(p[s]) => u # <<>> /\ Head(u) = s
  PROVE  Ordered(u, p)
<1>1. \A s \in All : /\ Writing(p[s]) <=> Writing(q[s])
                     /\ Signing(p[s]) /\ p[s].fresh => Signing(q[s]) /\ q[s].fresh
                     /\ OpenWriter(p[s]) => u # <<>> /\ Head(u) = s
  BY NearKeeps DEF Rest, Ordered, Same
<1>2. \A i \in 1 .. Len(u) : u[i] \in All
  OBVIOUS
<1> QED
  BY <1>1, <1>2 DEF Ordered

LEMMA OrderedAppend ==
  ASSUME NEW q \in [All -> RequestType], NEW p \in [All -> RequestType], NEW S \in SUBSET All,
         NEW u \in Seq(All), NEW r \in All,
         Ordered(u, q), Rest(S, q, p), r \in S, ~Writing(q[r]), Writing(p[r]), ~OpenWriter(p[r]),
         \A s \in S \ {r} : ~Writing(p[s]) /\ ~Writing(q[s]),
         \A s \in All : Signing(p[s]) /\ p[s].fresh => s = r
  PROVE  Ordered(Append(u, r), p)
<1> DEFINE v == Append(u, r)
<1>1. /\ v \in Seq(All) /\ Len(v) = Len(u) + 1 /\ v[Len(v)] = r /\ Len(u) \in Nat
      /\ \A i \in 1 .. Len(u) : v[i] = u[i] /\ u[i] \in All
      /\ v # <<>> /\ (u # <<>> => Head(v) = Head(u))
  OBVIOUS
<1>2. \A s \in All \ {r} : /\ Writing(p[s]) <=> Writing(q[s])
                           /\ OpenWriter(p[s]) => OpenWriter(q[s])
  BY NearKeeps DEF Rest, OpenWriter, Open, Writing
<1>3. \A i \in 1 .. Len(u) : Writing(q[u[i]]) /\ u[i] # r
  BY DEF Ordered
<1>4. \A i \in 1 .. Len(v) : Writing(p[v[i]])
  BY <1>1, <1>2, <1>3
<1>5. ASSUME NEW s \in All, Writing(p[s]) PROVE \E i \in 1 .. Len(v) : v[i] = s
  <2>1. CASE s = r
    BY <1>1, <2>1
  <2>2. CASE s # r
    <3>1. PICK i \in 1 .. Len(u) : u[i] = s
      BY <1>2, <1>5, <2>2 DEF Ordered
    <3> QED
      BY <1>1, <3>1
  <2> QED
    BY <2>1, <2>2
<1>6. ASSUME NEW i \in 1 .. Len(v), NEW j \in 1 .. Len(v), v[i] = v[j] PROVE i = j
  <2>1. \A k, l \in 1 .. Len(u) : u[k] = u[l] => k = l
    BY DEF Ordered
  <2> QED
    BY <1>1, <1>3, <1>6, <2>1
<1>7. \A s \in All : OpenWriter(p[s]) => v # <<>> /\ Head(v) = s
  BY <1>1, <1>2 DEF Ordered
<1> QED
  BY <1>1, <1>4, <1>5, <1>6, <1>7 DEF Ordered

LEMMA OrderedTail ==
  ASSUME NEW q \in [All -> RequestType], NEW p \in [All -> RequestType], NEW S \in SUBSET All,
         NEW u \in Seq(All), NEW r \in All,
         Ordered(u, q), Rest(S, q, p), S \subseteq {r}, u # <<>>, Head(u) = r, ~Writing(p[r])
  PROVE  Ordered(Tail(u), p)
<1> DEFINE v == Tail(u)
<1>1. /\ v \in Seq(All) /\ Len(v) = Len(u) - 1 /\ Len(u) \in Nat \ {0} /\ u[1] = r
      /\ \A i \in 1 .. Len(v) : v[i] = u[i + 1] /\ i + 1 \in 1 .. Len(u)
      /\ \A i \in 1 .. Len(u) : u[i] \in All /\ (i # 1 => i - 1 \in 1 .. Len(v) /\ v[i - 1] = u[i])
  OBVIOUS
<1>2. \A s \in All \ {r} : /\ Writing(p[s]) <=> Writing(q[s])
                           /\ Signing(p[s]) /\ p[s].fresh => Signing(q[s]) /\ q[s].fresh
                           /\ OpenWriter(p[s]) => OpenWriter(q[s])
  BY NearKeeps DEF Rest, Same
<1>3. \A i, j \in 1 .. Len(u) : u[i] = u[j] => i = j
  BY DEF Ordered
<1>4. \A i \in 1 .. Len(v) : v[i] \in All \ {r} /\ Writing(p[v[i]])
  BY <1>1, <1>2, <1>3 DEF Ordered
<1>5. ASSUME NEW s \in All, Writing(p[s]) PROVE \E i \in 1 .. Len(v) : v[i] = s
  <2>1. PICK i \in 1 .. Len(u) : u[i] = s
    BY <1>2, <1>5 DEF Ordered
  <2> QED
    BY <1>1, <1>5, <2>1
<1>6. ASSUME NEW i \in 1 .. Len(v), NEW j \in 1 .. Len(v), v[i] = v[j] PROVE i = j
  BY <1>1, <1>3, <1>6
<1>7. ASSUME NEW s \in All, Signing(p[s]) /\ p[s].fresh PROVE v[Len(v)] = s
  <2>1. s # r
    BY <1>7 DEF Signing, Writing, CookieWriters
  <2>2. u[Len(u)] = s
    BY <1>2, <1>7, <2>1 DEF Ordered
  <2>3. Len(u) # 1
    BY <1>1, <2>1, <2>2
  <2> QED
    BY <1>1, <2>2, <2>3
<1>8. \A s \in All : ~OpenWriter(p[s])
  <2>1. ~OpenWriter(p[r])
    BY DEF OpenWriter, Writing, Open
  <2> QED
    BY <1>2, <2>1 DEF Ordered
<1> QED
  BY <1>4, <1>5, <1>6, <1>7, <1>8 DEF Ordered

LEMMA OrderedEmpty ==
  ASSUME NEW p \in [All -> RequestType], \A s \in All : ~Writing(p[s])
  PROVE  Ordered(<<>>, p)
<1>1. \A s \in All : ~Signing(p[s]) /\ ~OpenWriter(p[s])
  BY DEF Signing, Writing, OpenWriter, Open, CookieWriters
<1> QED
  BY <1>1 DEF Ordered

LEMMA NobodyKept ==
  ASSUME NEW q \in [All -> RequestType], NEW p \in [All -> RequestType], NEW S \in SUBSET All,
         NEW t \in TabType, NEW n \in TabType,
         Nobody(t, q), Rest(S, q, p),
         t.user = None /\ t.checked => n.user = None /\ n.checked,
         \A s \in S : /\ Signing(p[s]) => Signing(q[s])
                      /\ p[s].fresh => q[s].fresh /\ p[s].kind = q[s].kind
  PROVE  Nobody(n, p)
<1>1. \A s \in All : /\ Signing(p[s]) => Signing(q[s])
                     /\ p[s].fresh => q[s].fresh /\ p[s].kind = q[s].kind
  BY NearKeeps DEF Rest, Same
<1> QED
  BY <1>1 DEF Nobody

LEMMA RefreshingKept ==
  ASSUME NEW q \in [All -> RequestType], NEW p \in [All -> RequestType], NEW S \in SUBSET All,
         NEW t \in TabType, NEW n \in TabType,
         Refreshing(t, q), \A s \in All \ S : Same(q[s], p[s]),
         n.refresh # None => n.refresh = t.refresh,
         \A s \in S : n.refresh = s => p[s].fresh /\ p[s].kind = "refresh"
  PROVE  Refreshing(n, p)
BY DEF Refreshing, Same, TabType

LEMMA FitsKept ==
  ASSUME NEW q \in [All -> RequestType], NEW p \in [All -> RequestType], NEW S \in SUBSET All,
         NEW t \in TabType, NEW n \in TabType, NEW j \in CookiesType, NEW k \in CookiesType,
         RequestsFit(q, t, j), Rest(S, q, p), SoundCookies(k),
         n.user = t.user \/ \A s \in All \ S : ~ p[s].fresh,
         OfUser(k, j) \/ \A s \in All \ S : ~ OpenProtected(p[s]) \/ ~ p[s].fresh,
         OfUser(j, k) \/ \A s \in All \ S : ~ OpenWriter(p[s]),
         \A s \in S : Fits(p[s], n, k)
  PROVE  RequestsFit(p, n, k)
<1> SUFFICES ASSUME NEW s \in All \ S PROVE Fits(p[s], n, k)
  BY DEF RequestsFit
<1> DEFINE x == q[s]
           y == p[s]
<1>1. x \in RequestType /\ y \in RequestType /\ Near(x, y) /\ Fits(x, t, j)
  BY DEF Rest, RequestsFit
<1>2. ASSUME y.kind \in Protected, y.fresh
      PROVE  /\ y.kind = "get" => n.user # None
             /\ y.phase = "sent" /\ y.cookies.access # None =>
                  /\ k.refresh # None => y.cookies.access = k.refresh.user
                  /\ n.user # None => y.cookies.access = n.user
  <2>1. Same(x, y) /\ n.user = t.user
    BY <1>1, <1>2, NearKeeps
  <2>2. y.phase = "sent" => OfUser(k, j)
    BY <1>2 DEF OpenProtected
  <2>3. /\ x.kind = "get" => t.user # None
        /\ x.phase = "sent" /\ x.cookies.access # None =>
             /\ j.refresh # None => x.cookies.access = j.refresh.user
             /\ t.user # None => x.cookies.access = t.user
        /\ y.kind = x.kind /\ y.phase = x.phase /\ y.cookies = x.cookies
    BY <1>1, <1>2, <2>1 DEF Fits, Same
  <2> QED
    BY <2>1, <2>2, <2>3 DEF OfUser
<1>3. ASSUME Writing(y) PROVE Writing(x) /\ y.kind = x.kind /\ y.phase = x.phase /\ y.cookies = x.cookies
                              /\ y.answer = x.answer
  BY <1>1, <1>3, NearKeeps
<1>4. ASSUME y.phase = "served", ~Writing(y) PROVE y.answer = x.answer /\ x.phase = "served" /\ y.kind = x.kind
  BY <1>1, <1>4 DEF Near, Same, Aged
<1>5. OpenWriter(y) => OfUser(j, k)
  OBVIOUS
<1>6. y.kind = "refresh" /\ y.phase = "sent" => OfUser(y.cookies, k)
  BY <1>1, <1>3, <1>5 DEF Fits, Writing, OpenWriter, Open, CookieWriters, OfUser
<1>7. ASSUME y.phase = "served"
      PROVE  /\ y.answer.cookies # None =>
                  /\ SoundCookies(y.answer.cookies)
                  /\ y.kind = "refresh" => OfUser(y.answer.cookies, k)
                  /\ y.kind = "logout" => y.answer.cookies = NoCookies
             /\ y.kind = "login" /\ y.answer.status = "ok" =>
                  /\ y.answer.cookies # None /\ y.answer.cookies.refresh # None
                  /\ y.answer.cookies.refresh.user = y.answer.user
  <2>1. y.answer = x.answer /\ x.phase = "served" /\ y.kind = x.kind
    BY <1>3, <1>4, <1>7
  <2>2. y.kind = "refresh" => OfUser(j, k)
    BY <1>5, <1>7 DEF OpenWriter, Open, CookieWriters
  <2> QED
    BY <1>1, <2>1, <2>2 DEF Fits, OfUser
<1> QED
  BY <1>2, <1>6, <1>7 DEF Fits

\* Whoever waits for a refresh still learns how it ended.
Settles(x, y, d) ==
  /\ x.fresh /\ x.kind = "refresh" =>
       \/ y.fresh /\ y.kind = "refresh"
       \/ y.phase \in {"done", "orphan"} /\ (~ d => y.answer # None /\ y.answer.status = "ok")
  /\ x.phase \in {"done", "orphan"} => y.phase \in {"done", "orphan"} /\ y.answer = x.answer

LEMMA AwaitsKept ==
  ASSUME NEW q \in [All -> RequestType], NEW p \in [All -> RequestType], NEW S \in SUBSET All,
         NEW d \in BOOLEAN, NEW e \in BOOLEAN,
         AllAwait(q, d), Shapes(q), Rest(S, q, p), d => e,
         \/ /\ \A s \in All \ S : Same(q[s], p[s])
            /\ \A o \in S : Settles(q[o], p[o], e)
         \/ \A s \in All : ~ p[s].fresh \/ p[s].phase # "waiting",
         \A s \in S : Awaits(p[s], p, e)
  PROVE  AllAwait(p, e)
<1> SUFFICES ASSUME NEW s \in All \ S, p[s].phase = "waiting", p[s].fresh
             PROVE  Awaits(p[s], p, e)
  BY DEF AllAwait, Awaits
<1>0. ~ \A r \in All : ~ p[r].fresh \/ p[r].phase # "waiting"
  OBVIOUS
<1>1. (\A r \in All \ S : Same(q[r], p[r])) /\ \A o \in S : Settles(q[o], p[o], e)
  BY <1>0
<1>2. q[s].phase = "waiting" /\ q[s].fresh /\ q[s].on = p[s].on
  BY <1>1 DEF Same
<1>3. p[s].on \in All
  BY <1>2 DEF Shapes, Shape
<1>4. Awaits(q[s], q, d)
  BY DEF AllAwait
<1>5. CASE p[s].on \in S
  BY <1>1, <1>2, <1>4, <1>5 DEF Awaits, Settles
<1>6. CASE p[s].on \notin S
  <2>1. Same(q[p[s].on], p[p[s].on])
    BY <1>1, <1>3, <1>6
  <2> QED
    BY <1>2, <1>4, <2>1 DEF Awaits, Same
<1> QED
  BY <1>5, <1>6

LEMMA AcceptedKept ==
  ASSUME NEW x \in RequestType, NEW y \in RequestType, Near(x, y), NEW j \in CookiesType,
         NEW k \in CookiesType, NEW l \in SUBSET TokenType, NEW m \in SUBSET TokenType,
         Accepted(x, j, l), OpenWriter(y) => k.refresh = j.refresh /\ l \subseteq m
  PROVE  Accepted(y, k, m)
<1>1. OpenWriter(y) => OpenWriter(x) /\ Writing(x)
  BY NearKeeps DEF OpenWriter, Open, Writing
<1> QED
  BY <1>1, NearKeeps DEF Accepted

LEMMA CarriedKept ==
  ASSUME NEW q \in [All -> RequestType], NEW p \in [All -> RequestType], NEW S \in SUBSET All,
         NEW j \in CookiesType, NEW k \in CookiesType, NEW l \in SUBSET TokenType,
         NEW m \in SUBSET TokenType,
         Rest(S, q, p), Carried(q, j, l),
         (k.refresh = j.refresh /\ l \subseteq m) \/ \A s \in All \ S : ~ OpenWriter(p[s]),
         \A s \in S : Accepted(p[s], k, m)
  PROVE  Carried(p, k, m)
BY AcceptedKept DEF Rest, Carried

LEMMA StructureKept ==
  ASSUME Structure, NEW S \in SUBSET All,
         tab' \in TabType, req' \in [All -> RequestType], queue' \in Seq(All),
         jar' \in CookiesType, live' \subseteq TokenType, disturbed' \in BOOLEAN, kicked' \in BOOLEAN,
         Rest(S, req, req'),
         \A s \in S : /\ Shape(s, req'[s])
                      /\ req[s].phase = "done" => req'[s].phase = "done"
                      /\ req[s].retried => req'[s].retried \/ req'[s].phase = "done"
                      /\ req[s].phase = "none" /\ req'[s].phase # "none" =>
                           s \in Made \/ \E r \in Made : s = RefreshOf(r) /\ req'[r].retried,
         Ordered(queue', req'), Nobody(tab', req'), Refreshing(tab', req')
  PROVE  Structure'
<1>1. req \in [All -> RequestType] /\ Shapes(req) /\ OneRefresh(req)
  BY Types DEF Structure
<1>2. Shapes(req')
  BY <1>1, ShapesKept
<1>3. OneRefresh(req')
  BY <1>1, OneRefreshKept
<1>4. \A r \in All : OpenWriter(req'[r]) => queue' # <<>> /\ Head(queue') = r
  BY DEF Ordered
<1>5. TypeOK'
  BY <1>4 DEF TypeOK, TabType, RequestType, OpenWriter
<1> QED
  BY <1>2, <1>3, <1>5 DEF Structure

LEMMA Known ==
  ASSUME IInv
  PROVE  /\ tab \in TabType /\ req \in [All -> RequestType] /\ queue \in Seq(All)
         /\ jar \in CookiesType /\ live \in SUBSET TokenType
         /\ disturbed \in BOOLEAN /\ kicked \in BOOLEAN
         /\ Structure /\ Shapes(req) /\ OneRefresh(req) /\ Ordered(queue, req) /\ Nobody(tab, req)
         /\ Refreshing(tab, req) /\ RequestsFit(req, tab, jar) /\ AllAwait(req, disturbed)
         /\ TabMatchesJar /\ CacheIsOfUser /\ Kept
BY Types DEF IInv, Structure, OneIdentity

LEMMA IInvKept ==
  ASSUME IInv, Structure', NEW S \in SUBSET All, Rest(S, req, req'), OneIdentity',
         SoundCookies(jar'),
         tab'.user = tab.user \/ \A s \in All \ S : ~ req'[s].fresh,
         OfUser(jar', jar) \/ \A s \in All \ S : ~ OpenProtected(req'[s]) \/ ~ req'[s].fresh,
         OfUser(jar, jar') \/ \A s \in All \ S : ~ OpenWriter(req'[s]),
         \A s \in S : Fits(req'[s], tab', jar'),
         disturbed => disturbed',
         \/ /\ \A s \in All \ S : Same(req[s], req'[s])
            /\ \A o \in S : Settles(req[o], req'[o], disturbed')
         \/ \A s \in All : ~ req'[s].fresh \/ req'[s].phase # "waiting",
         \A s \in S : Awaits(req'[s], req', disturbed'),
         ~ disturbed' =>
           /\ (WriterOpen' \/ jar'.refresh \in live' \cup {None})
           /\ (jar'.refresh = jar.refresh /\ live \subseteq live') \/ \A s \in All \ S : ~ OpenWriter(req'[s])
           /\ \A s \in S : Accepted(req'[s], jar', live')
  PROVE  IInv'
<1>1. /\ tab' \in TabType /\ req' \in [All -> RequestType] /\ jar' \in CookiesType
      /\ live' \in SUBSET TokenType /\ disturbed' \in BOOLEAN
  BY DEF Structure, TypeOK, TabType, RequestType
<1>2. RequestsFit(req', tab', jar')
  BY <1>1, Known, FitsKept
<1>3. AllAwait(req', disturbed')
  BY <1>1, Known, AwaitsKept
<1>4. ASSUME ~ disturbed' PROVE Carried(req', jar', live')
  <2>1. Carried(req, jar, live)
    BY <1>4, Known DEF Kept
  <2> QED
    BY <1>1, <1>4, <2>1, Known, CarriedKept
<1> QED
  BY <1>2, <1>3, <1>4 DEF IInv, Kept

\* The session of the tab ends, or another begins: every request under way belongs to the past.
LEMMA SessionEnds ==
  ASSUME IInv, NEW S \in SUBSET All,
         tab' \in TabType, tab'.refresh = None, tab'.cache = {}, TabMatchesJar',
         req' \in [All -> RequestType], \A s \in All \ S : Aged(req[s], req'[s]),
         \A s \in S : req[s].phase # "none" /\ req'[s] = Done,
         queue' \in Seq(All), Ordered(queue', req'), Nobody(tab', req'),
         jar' \in CookiesType, SoundCookies(jar'), OfUser(jar, jar') \/ \A s \in All \ S : ~ OpenWriter(req'[s]),
         live' = live, disturbed' \in BOOLEAN, disturbed => disturbed', kicked' \in BOOLEAN,
         ~ disturbed' =>
           /\ (WriterOpen' \/ jar'.refresh \in live' \cup {None})
           /\ jar'.refresh = jar.refresh \/ \A s \in All \ S : ~ OpenWriter(req'[s])
  PROVE  IInv'
<1> USE DoneIs
<1>1. Rest(S, req, req')
  BY DEF Rest, Near
<1>2. \A s \in All : ~ req'[s].fresh
  BY DEF Aged
<1>3. Structure'
  <2>1. \A s \in S : Shape(s, req'[s])
    BY DEF Shape, CookieWriters, Protected, Profiles, OpenProtected
  <2>2. Refreshing(tab', req')
    BY DEF Refreshing
  <2>3. live' \subseteq TokenType /\ disturbed' \in BOOLEAN
    BY Known
  <2> QED
    BY <1>1, <2>1, <2>2, <2>3, Known, StructureKept
<1>4. OneIdentity'
  BY DEF OneIdentity, CacheIsOfUser
<1>5. \A s \in S : /\ Fits(req'[s], tab', jar') /\ Awaits(req'[s], req', disturbed')
                   /\ Accepted(req'[s], jar', live')
  BY DEF Fits, Awaits, Accepted, OpenWriter, Open
<1> QED
  BY <1>1, <1>2, <1>3, <1>4, <1>5, IInvKept

\* The page is left: what the server is still at work on has lost its client.
LEMMA PageLeft ==
  ASSUME IInv, tab' \in TabType, tab'.user = None, tab'.refresh = None, tab'.cache = {},
         req' \in [All -> RequestType], \A s \in All : Left(req[s], req'[s]), queue' = <<>>,
         jar' \in CookiesType, SoundCookies(jar'), live' = live, disturbed' \in BOOLEAN, kicked' \in BOOLEAN,
         ~ disturbed' => /\ ~ disturbed /\ jar'.refresh \in live' \cup {None}
                         /\ \A s \in All : req'[s].phase # "orphan"
  PROVE  IInv'
<1>1. \A s \in All : ~ req'[s].fresh /\ ~ Writing(req'[s]) /\ ~ Signing(req'[s])
                     /\ req'[s].phase \in {"none", "done", "orphan"}
  BY DEF Left, Writing, Signing
<1>2. \A s \in All : Shape(s, req'[s])
  <2> SUFFICES ASSUME NEW s \in All PROVE Shape(s, req'[s])
    OBVIOUS
  <2>1. Shape(s, req[s]) /\ Left(req[s], req'[s])
    BY Known DEF Shapes
  <2> QED
    BY <2>1 DEF Shape, Left, OpenProtected, CookieWriters, Protected, Profiles
<1>3. Structure'
  <2>1. Ordered(queue', req') /\ queue' \in Seq(All)
    BY <1>1, OrderedEmpty
  <2>2. Nobody(tab', req') /\ Refreshing(tab', req')
    BY <1>1 DEF Nobody, Refreshing
  <2>3. live' \subseteq TokenType /\ All \in SUBSET All /\ Rest(All, req, req')
    BY Known DEF Rest
  <2>4. \A s \in All : /\ req[s].phase = "done" => req'[s].phase = "done"
                       /\ req[s].retried => req'[s].retried \/ req'[s].phase = "done"
                       /\ req[s].phase = "none" <=> req'[s].phase = "none"
    <3> SUFFICES ASSUME NEW s \in All
                 PROVE  /\ req[s].phase = "done" => req'[s].phase = "done"
                        /\ req[s].retried => req'[s].retried \/ req'[s].phase = "done"
                        /\ req[s].phase = "none" <=> req'[s].phase = "none"
      OBVIOUS
    <3>1. Shape(s, req[s]) /\ Left(req[s], req'[s])
      BY Known DEF Shapes
    <3> QED
      BY <3>1 DEF Shape, Left, CookieWriters, Protected, Profiles
  <2> QED
    BY <1>2, <2>1, <2>2, <2>3, <2>4, Known, StructureKept
<1>4. OneIdentity'
  BY DEF OneIdentity, CacheIsOfUser, TabMatchesJar
<1>5. RequestsFit(req', tab', jar') /\ AllAwait(req', disturbed')
  BY <1>1, <1>2 DEF RequestsFit, Fits, AllAwait, Awaits, CookieWriters
<1>6. \A s \in All : req'[s].phase # "orphan" => Accepted(req'[s], jar', live')
  BY <1>1 DEF Accepted, OpenWriter, Open
<1> QED
  BY <1>3, <1>4, <1>5, <1>6 DEF IInv, Kept, Carried
----
(* Requests are made.  *)

LEMMA Makes ==
  /\ \A u \in Accounts \cup {None} :
       LET x == NewWriter("login", u) IN
       x \in RequestType /\ x.kind = "login" /\ x.user = u /\ x.fresh /\ x.phase = "queued" /\ ~ x.retried
  /\ LET x == NewWriter("logout", None) IN
       x \in RequestType /\ x.kind = "logout" /\ x.fresh /\ x.phase = "queued" /\ ~ x.retried
  /\ LET x == NewWriter("refresh", None) IN
       x \in RequestType /\ x.kind = "refresh" /\ x.fresh /\ x.phase = "queued" /\ ~ x.retried
  /\ jar \in CookiesType => \A k \in Protected :
       LET x == NewProtected(k) IN
       x \in RequestType /\ x.kind = k /\ x.fresh /\ x.phase = "sent" /\ x.cookies = jar /\ ~ x.retried
<1>1. NoRequest \in RequestType /\ NoRequest.retried = FALSE
  BY NoRequestIs DEF NoRequest
<1>2. ASSUME NEW k \in CookieWriters, NEW u \in Accounts \cup {None}
      PROVE  LET x == NewWriter(k, u) IN
             x \in RequestType /\ x.kind = k /\ x.user = u /\ x.fresh /\ x.phase = "queued" /\ ~ x.retried
  BY <1>1 DEF NewWriter, RequestType
<1>3. ASSUME jar \in CookiesType, NEW k \in Protected
      PROVE  LET x == NewProtected(k) IN
             x \in RequestType /\ x.kind = k /\ x.fresh /\ x.phase = "sent" /\ x.cookies = jar /\ ~ x.retried
  <2> DEFINE made(b) == [NoRequest EXCEPT !.kind = k, !.fresh = TRUE, !.latest = b,
                                          !.phase = "sent", !.cookies = jar]
  <2>1. \A b \in BOOLEAN : /\ made(b) \in RequestType /\ made(b).kind = k /\ made(b).fresh
                           /\ made(b).phase = "sent" /\ made(b).cookies = jar /\ ~ made(b).retried
    BY <1>1, <1>3 DEF RequestType
  <2>2. NewProtected(k) = made(k \in Profiles)
    BY DEF NewProtected
  <2>3. (k \in Profiles) \in BOOLEAN
    OBVIOUS
  <2> HIDE DEF made
  <2> QED
    BY <2>1, <2>2, <2>3
<1> QED
  BY <1>2, <1>3 DEF CookieWriters

LEMMA EndIs ==
  ASSUME NEW t \in TabType, NEW b \in BOOLEAN
  PROVE  /\ EndSession(t, b) \in TabType /\ EndSession(t, b).user = None /\ EndSession(t, b).checked
         /\ EndSession(t, b).refresh = None /\ EndSession(t, b).cache = {}
BY Nulls DEF EndSession, TabType

LEMMA AcceptIs ==
  ASSUME NEW t \in TabType, NEW u \in Accounts
  PROVE  /\ AcceptProfile(t, u) \in TabType /\ AcceptProfile(t, u).user = u
         /\ AcceptProfile(t, u).refresh = None /\ AcceptProfile(t, u).cache = {}
BY Nulls DEF EndSession, AcceptProfile, TabType

LEMMA NewTabIs ==
  \A page \in {"public", "inside"} :
    /\ NewTab(page) \in TabType /\ NewTab(page).user = None /\ NewTab(page).cache = {}
    /\ NewTab(page).refresh = None
BY DEF NewTab, TabType

\* A protected request is open only when it has been sent.
LEMMA OpenIsSent ==
  ASSUME NEW q, Shapes(q)
  PROVE  \A r \in All : Open(q[r]) /\ q[r].kind \in Protected => q[r].phase = "sent"
BY DEF Shapes, Shape, Open

\* What a session's end and a change of generation come to.
LEMMA AgeAll ==
  ASSUME NEW q \in [All -> RequestType], Shapes(q)
  PROVE  /\ Invalidate(q) \in [All -> RequestType]
         /\ \A r \in All : Aged(q[r], Invalidate(q)[r]) /\ Near(q[r], Invalidate(q)[r])
BY LeftBehind, OpenIsSent DEF Near

SignsIn(r, x) ==
  /\ tab' = EndSession(tab, TRUE)
  /\ req' = [Invalidate(req) EXCEPT ![r] = x]
  /\ queue' = Append(queue, r)
  /\ UNCHANGED <<jar, live, disturbed, kicked>>

LEMMA SignIn ==
  ASSUME IInv, NEW r \in Made, NEW x \in RequestType, Unused(r), SignsIn(r, x),
         x.kind \in {"login", "logout"}, x.phase = "queued", x.kind = "login" => x.user \in Accounts,
         ~ x.retried
  PROVE  IInv'
<1> USE Known
<1>0. r \in All /\ req[r].phase = "none" /\ req[r].kind = "none" /\ ~req[r].fresh /\ ~req[r].retried
  BY Numbers DEF Unused, Shapes, Shape
<1>1. /\ req' \in [All -> RequestType] /\ req'[r] = x
      /\ \A s \in All \ {r} : Aged(req[s], req'[s])
  BY <1>0, AgeAll DEF SignsIn
<1>2. Rest({r}, req, req')
  BY <1>1 DEF Rest, Near
<1>3. /\ tab' \in TabType /\ tab'.user = None /\ tab'.checked /\ tab'.refresh = None /\ tab'.cache = {}
  BY EndIs DEF SignsIn
<1>4. Shape(r, x) /\ Signing(x) /\ Writing(x) /\ ~OpenWriter(x) /\ ~Writing(req[r])
  BY <1>0 DEF Shape, Signing, Writing, OpenWriter, Open, OpenProtected, CookieWriters, Protected, Profiles
<1>5. \A s \in All : req'[s].fresh => s = r
  BY <1>1 DEF Aged
<1>6. Ordered(queue', req')
  <2>1. queue' = Append(queue, r)
    BY DEF SignsIn
  <2>2. Ordered(Append(queue, r), req')
    BY <1>0, <1>1, <1>2, <1>4, <1>5, OrderedAppend
  <2> QED
    BY <2>1, <2>2
<1>7. Nobody(tab', req') /\ Refreshing(tab', req')
  BY <1>1, <1>3, <1>5 DEF Nobody, Refreshing
<1>8. Structure'
  <2>1. queue' \in Seq(All)
    BY <1>0 DEF SignsIn
  <2>2. \A s \in {r} : s \in Made /\ Shape(s, req'[s]) /\ req[s].phase # "done" /\ ~ req[s].retried
    BY <1>0, <1>1, <1>4
  <2>3. {r} \in SUBSET All /\ jar' = jar /\ live' = live /\ disturbed' = disturbed /\ kicked' = kicked
    BY <1>0 DEF SignsIn
  <2> QED
    BY <1>1, <1>2, <1>3, <1>6, <1>7, <2>1, <2>2, <2>3, StructureKept
<1>9. OneIdentity'
  BY <1>3 DEF OneIdentity, TabMatchesJar, CacheIsOfUser
<1>10. /\ SoundCookies(jar') /\ OfUser(jar', jar) /\ OfUser(jar, jar')
       /\ disturbed' = disturbed /\ jar' = jar /\ live' = live /\ kicked' = kicked
  BY DEF OfUser, RequestsFit, SignsIn
<1>11. /\ Fits(req'[r], tab', jar') /\ Awaits(req'[r], req', disturbed') /\ req[r].phase \notin {"done", "orphan"}
       /\ Accepted(req'[r], jar', live')
  BY <1>0, <1>1, <1>4 DEF Fits, Protected, Profiles, Awaits, Accepted
<1>12. \A s \in All : ~ req'[s].fresh \/ req'[s].phase # "waiting"
  BY <1>1, <1>5
<1>13. WriterOpen' <=> WriterOpen
  BY <1>0, <1>1, <1>2, <1>4, NearKeeps DEF WriterOpen, OpenWriter, Rest, Open
<1> QED
  <2>1. /\ {r} \in SUBSET All /\ (\A s \in All \ {r} : ~ req'[s].fresh) /\ ~ req[r].fresh
        /\ Kept
    BY <1>0, <1>5
  <2>2. ~ disturbed' => /\ (WriterOpen' \/ jar'.refresh \in live' \cup {None})
                        /\ jar'.refresh = jar.refresh /\ live \subseteq live'
    BY <1>10, <1>13 DEF Kept
  <2> QED
    BY <1>2, <1>8, <1>9, <1>10, <1>11, <1>12, <2>1, <2>2, IInvKept

LEMMA LoginKeeps ==
  ASSUME IInv, NEW r \in Made, NEW u \in Accounts, Login(r, u)
  PROVE  IInv'
<1>1. Unused(r) /\ SignsIn(r, NewWriter("login", u))
  BY DEF Login, SignsIn
<1> QED
  BY <1>1, Makes, SignIn

LEMMA LogoutKeeps ==
  ASSUME IInv, NEW r \in Made, Logout(r)
  PROVE  IInv'
<1>1. Unused(r) /\ SignsIn(r, NewWriter("logout", None))
  BY DEF Logout, SignsIn
<1> QED
  BY <1>1, Makes, SignIn

\* A protected request is sent, for the first time or again, while nobody signs in or out.
LEMMA SentKeeps ==
  ASSUME IInv, NEW r \in Made, req[r].phase \in {"none", "waiting"}, req[r].retried => req'[r].retried,
         tab' \in TabType, tab'.user = tab.user, tab'.checked = tab.checked,
         tab'.refresh = tab.refresh, tab'.cache = tab.cache,
         req' \in [All -> RequestType], \A s \in All \ {r} : Same(req[s], req'[s]),
         req'[r].kind \in Protected, req'[r].fresh, req'[r].phase = "sent", req'[r].cookies = jar,
         req'[r].kind = "get" => tab.user # None,
         UNCHANGED <<queue, jar, live>>, Noted, ~ \E s \in All : Signing(req[s])
  PROVE  IInv'
<1> USE Known DEF Noted
<1> DEFINE x == req'[r]
<1>0. /\ r \in All /\ {r} \in SUBSET All /\ ~ Writing(req[r]) /\ ~ OpenWriter(req[r])
      /\ ~ (req[r].fresh /\ req[r].kind = "refresh") /\ req[r].phase \notin {"done", "orphan"}
  BY Numbers DEF Shapes, Shape, Writing, OpenWriter, Open, CookieWriters, Protected, Profiles
<1>1. x.kind \in Protected /\ x.fresh /\ x.phase = "sent" /\ x.cookies = jar
      /\ (x.kind = "get" => tab.user # None) /\ x \in RequestType
  BY <1>0
<1> HIDE DEF x
<1>2. Rest({r}, req, req')
  BY DEF Rest, Near
<1>3. Shape(r, x) /\ ~ Signing(x) /\ ~ Writing(x) /\ ~ OpenWriter(x)
  BY <1>0, <1>1 DEF Shape, Signing, Writing, OpenWriter, OpenProtected, CookieWriters, Protected, Profiles
<1>4. \A s \in {r} : /\ ~ Writing(req'[s]) /\ ~ Writing(req[s])
                     /\ ~ Signing(req'[s]) /\ ~ OpenWriter(req'[s])
  BY <1>0, <1>3 DEF x
<1>5. Ordered(queue', req')
  <2>1. Ordered(queue, req')
    BY <1>0, <1>2, <1>4, OrderedKept
  <2> QED
    BY <2>1
<1>6. Nobody(tab', req')
  <2>1. ~ \E s \in All : Signing(req'[s])
    BY <1>3, <1>2, NearKeeps DEF x, Rest
  <2> QED
    BY <2>1 DEF Nobody
<1>7. Refreshing(tab', req')
  BY <1>0 DEF Refreshing, Same, TabType
<1>8. Structure'
  <2>1. \A s \in {r} : /\ s \in Made /\ Shape(s, req'[s]) /\ req[s].phase # "done"
                       /\ (req[s].retried => req'[s].retried)
    BY <1>0, <1>3 DEF x
  <2>2. queue' \in Seq(All) /\ jar' = jar /\ live' = live /\ disturbed' \in BOOLEAN /\ kicked' \in BOOLEAN
    OBVIOUS
  <2> QED
    BY <1>0, <1>2, <1>5, <1>6, <1>7, <2>1, <2>2, StructureKept
<1>9. OneIdentity'
  BY DEF OneIdentity, TabMatchesJar, CacheIsOfUser
<1>10. SoundCookies(jar') /\ OfUser(jar', jar) /\ OfUser(jar, jar')
  BY DEF OfUser, RequestsFit
<1>11. \A s \in {r} : /\ Fits(req'[s], tab', jar') /\ Awaits(req'[s], req', disturbed')
                      /\ Accepted(req'[s], jar', live') /\ Settles(req[s], req'[s], disturbed')
  <2>1. Fits(x, tab', jar')
    BY <1>1, <1>10 DEF Fits, SoundCookies, TabMatchesJar, Protected, Profiles
  <2>2. Awaits(x, req', disturbed') /\ Accepted(x, jar', live') /\ Settles(req[r], x, disturbed')
    BY <1>0, <1>1, <1>3 DEF Awaits, Accepted, Settles
  <2> QED
    BY <2>1, <2>2 DEF x
<1>12. WriterOpen' <=> WriterOpen
  BY <1>0, <1>2, <1>3, NearKeeps DEF WriterOpen, OpenWriter, Rest, x
<1>13. ~ disturbed' => /\ (WriterOpen' \/ jar'.refresh \in live' \cup {None})
                       /\ jar'.refresh = jar.refresh /\ live \subseteq live'
  BY <1>12 DEF Kept
<1>14. (disturbed => disturbed') /\ tab'.user = tab.user
  OBVIOUS
<1> QED
  BY <1>0, <1>2, <1>8, <1>9, <1>10, <1>11, <1>13, <1>14, IInvKept

\* A request is made by a page that shows somebody, or by a tab that has not checked yet.
LEMMA ReadKeeps ==
  ASSUME IInv, NEW r \in Made, NEW k \in Protected, Unused(r),
         tab' \in TabType, tab'.user = tab.user, tab'.checked = tab.checked,
         tab'.refresh = tab.refresh, tab'.cache = tab.cache,
         req' \in [All -> RequestType], req'[r] = NewProtected(k),
         \A s \in All \ {r} : Same(req[s], req'[s]),
         UNCHANGED <<queue, jar, live>>, Noted,
         tab.user # None \/ (~ tab.checked /\ k # "get")
  PROVE  IInv'
<1>1. req[r].phase = "none" /\ ~ req[r].retried
  BY Known, Numbers DEF Unused, Shapes, Shape
<1>2. req'[r].kind = k /\ req'[r].fresh /\ req'[r].phase = "sent" /\ req'[r].cookies = jar
  BY Known, Makes
<1>3. ~ \E s \in All : Signing(req[s])
  BY Known DEF Nobody
<1> QED
  BY <1>1, <1>2, <1>3, SentKeeps

LEMMA LoadProfileKeeps ==
  ASSUME IInv, NEW r \in Made, LoadProfile(r)
  PROVE  IInv'
<1>1. Unused(r) /\ tab.user # None /\ r \in All /\ jar \in CookiesType /\ req \in [All -> RequestType]
  BY Known, Numbers DEF LoadProfile
<1>2. /\ req' \in [All -> RequestType] /\ req'[r] = NewProtected("profile")
      /\ \A s \in All \ {r} : Same(req[s], req'[s])
  BY <1>1, Superseded, Makes DEF LoadProfile, Protected, Profiles
<1>3. tab' = tab /\ tab \in TabType /\ UNCHANGED <<queue, jar, live>> /\ Noted
  BY Known DEF LoadProfile, Noted
<1> QED
  BY <1>1, <1>2, <1>3, ReadKeeps DEF Protected, Profiles

LEMMA GetKeeps ==
  ASSUME IInv, NEW r \in Made, Get(r)
  PROVE  IInv'
<1>1. Unused(r) /\ tab.user # None /\ r \in All /\ jar \in CookiesType /\ req \in [All -> RequestType]
  BY Known, Numbers DEF Get
<1>2. /\ req' \in [All -> RequestType] /\ req'[r] = NewProtected("get")
      /\ \A s \in All \ {r} : Same(req[s], req'[s])
  BY <1>1, SameIs, Makes DEF Get, Protected
<1>3. tab' = tab /\ tab \in TabType /\ UNCHANGED <<queue, jar, live>> /\ Noted
  BY Known DEF Get, Noted
<1> QED
  BY <1>1, <1>2, <1>3, ReadKeeps DEF Protected

\* A session that ends while no writer of cookies moves.
LEMMA QuietEnd ==
  ASSUME IInv, NEW S \in SUBSET All,
         \A s \in S : ~ Writing(req[s]) /\ req[s].phase # "none" /\ req'[s] = Done,
         req' \in [All -> RequestType], \A s \in All \ S : Aged(req[s], req'[s]),
         tab' \in TabType, tab'.refresh = None, tab'.cache = {}, TabMatchesJar',
         (tab'.user = None /\ tab'.checked) \/ ~ \E s \in All : Signing(req[s]),
         UNCHANGED <<queue, jar, live>>, Noted
  PROVE  IInv'
<1> USE Known DEF Noted
<1>1. Rest(S, req, req')
  BY DEF Rest, Near
<1>2. \A s \in S : ~ Writing(req'[s]) /\ ~ Signing(req'[s]) /\ ~ OpenWriter(req'[s]) /\ ~ OpenWriter(req[s])
  BY DoneIs DEF Writing, Signing, OpenWriter, Open, CookieWriters
<1>3. Ordered(queue', req')
  <2>1. Ordered(queue, req')
    BY <1>1, <1>2, OrderedKept
  <2> QED
    BY <2>1
<1>4. Nobody(tab', req')
  <2>1. \A s \in All : ~ req'[s].fresh
    BY DoneIs DEF Aged
  <2>2. \A s \in All : Signing(req'[s]) => Signing(req[s])
    BY <1>1, <1>2, NearKeeps DEF Rest
  <2> QED
    BY <2>1, <2>2 DEF Nobody
<1>5. WriterOpen' <=> WriterOpen
  BY <1>1, <1>2, NearKeeps DEF WriterOpen, OpenWriter, Rest
<1>6. ~ disturbed' => /\ (WriterOpen' \/ jar'.refresh \in live' \cup {None})
                      /\ jar'.refresh = jar.refresh
  BY <1>5 DEF Kept
<1>7. SoundCookies(jar') /\ OfUser(jar, jar') /\ queue' \in Seq(All) /\ jar' \in CookiesType /\ kicked' \in BOOLEAN
  BY DEF OfUser, RequestsFit
<1> QED
  BY <1>3, <1>4, <1>6, <1>7, SessionEnds

\* What the requests are when the session ends with the answer to r.
LEMMA DoneThenAged ==
  ASSUME IInv, NEW r \in All
  PROVE  LET q == [req EXCEPT ![r] = Done] IN
         /\ q \in [All -> RequestType] /\ Shapes(q) /\ Invalidate(q) \in [All -> RequestType]
         /\ Invalidate(q)[r] = Done
         /\ \A s \in All \ {r} : Aged(req[s], Invalidate(q)[s])
<1> DEFINE q == [req EXCEPT ![r] = Done]
<1>1. req \in [All -> RequestType] /\ Shapes(req)
  BY Known
<1>2. q \in [All -> RequestType] /\ q[r] = Done /\ \A s \in All \ {r} : q[s] = req[s]
  BY <1>1, DoneIs
<1> HIDE DEF q
<1>3. Shapes(q)
  <2>1. Shape(r, Done)
    BY DoneIs DEF Shape, CookieWriters, Protected, Profiles, OpenProtected
  <2> QED
    BY <1>1, <1>2, <2>1 DEF Shapes
<1>4. Invalidate(q) \in [All -> RequestType] /\ \A s \in All : Aged(q[s], Invalidate(q)[s])
  BY <1>2, <1>3, AgeAll
<1>5. Invalidate(q)[r] = Done
  <2>1. Invalidate(q)[r] = [Done EXCEPT !.fresh = FALSE, !.latest = FALSE]
    BY <1>2, DoneIs DEF Invalidate, Protected, Profiles
  <2>2. Done.fresh = FALSE /\ Done.latest = FALSE /\ Done \in RequestType
    BY DoneIs DEF Done, NoRequest
  <2>3. \A x \in RequestType : x.fresh = FALSE /\ x.latest = FALSE =>
                               [x EXCEPT !.fresh = FALSE, !.latest = FALSE] = x
    BY DEF RequestType
  <2> QED
    BY <2>1, <2>2, <2>3
<1> QED
  BY <1>2, <1>3, <1>4, <1>5 DEF q

LEMMA InitializeAuthKeeps ==
  ASSUME IInv, NEW r \in Made, InitializeAuth(r)
  PROVE  IInv'
<1>0. /\ ~ tab.checked /\ tab \in TabType /\ req \in [All -> RequestType] /\ Shapes(req) /\ r \in All
      /\ jar \in CookiesType /\ UNCHANGED <<queue, jar, live>> /\ Noted
  BY Known, Numbers DEF InitializeAuth, Noted
<1>1. CASE tab.page = "public" /\ jar.refresh = None
  <2>1. tab' = EndSession(tab, FALSE) /\ req' = Invalidate(req)
    BY <1>1 DEF InitializeAuth
  <2>2. /\ tab' \in TabType /\ tab'.user = None /\ tab'.checked /\ tab'.refresh = None /\ tab'.cache = {}
        /\ req' \in [All -> RequestType] /\ \A s \in All : Aged(req[s], req'[s])
    BY <1>0, <2>1, EndIs, AgeAll
  <2>3. TabMatchesJar'
    BY <2>2 DEF TabMatchesJar
  <2> QED
    BY <1>0, <2>2, <2>3, QuietEnd
<1>2. CASE ~ (tab.page = "public" /\ jar.refresh = None)
  <2>1. /\ Unused(r) /\ tab' = [tab EXCEPT !.loading = TRUE]
        /\ req' = [Supersede(req) EXCEPT ![r] = NewProtected("bootstrap")]
    BY <1>2 DEF InitializeAuth
  <2>2. /\ req' \in [All -> RequestType] /\ req'[r] = NewProtected("bootstrap")
        /\ \A s \in All \ {r} : Same(req[s], req'[s])
    BY <1>0, <2>1, Superseded, Makes DEF Protected, Profiles
  <2>3. /\ tab' \in TabType /\ tab'.user = tab.user /\ tab'.checked = tab.checked
        /\ tab'.refresh = tab.refresh /\ tab'.cache = tab.cache
    BY <1>0, <2>1 DEF TabType
  <2> QED
    BY <1>0, <2>1, <2>2, <2>3, ReadKeeps DEF Protected, Profiles
<1> QED
  BY <1>1, <1>2

LEMMA DisturbIs ==
  ASSUME disturbed \in BOOLEAN, NEW fault \in BOOLEAN, Disturb(fault)
  PROVE  disturbed' \in BOOLEAN /\ (disturbed => disturbed') /\ (fault => disturbed')
         /\ (~ fault => disturbed' = disturbed)
BY DEF Disturb

LEMMA ReloadKeeps ==
  ASSUME IInv, Reload
  PROVE  IInv'
<1> USE Known
<1>1. /\ req' = Abandon(req) /\ queue' = <<>> /\ tab' = NewTab(tab.page)
      /\ jar' = jar /\ live' = live /\ kicked' = kicked /\ Disturb(WriterOpen)
  BY DEF Reload
<1>2. /\ tab' \in TabType /\ tab'.user = None /\ tab'.refresh = None /\ tab'.cache = {}
  BY <1>1, NewTabIs DEF TabType
<1>3. req' \in [All -> RequestType] /\ \A s \in All : Left(req[s], req'[s])
  BY <1>1, Abandoned
<1>4. disturbed' \in BOOLEAN /\ (disturbed => disturbed') /\ (WriterOpen => disturbed')
  BY <1>1, DisturbIs DEF WriterOpen
<1>5. ASSUME ~ disturbed'
      PROVE  /\ ~ disturbed /\ jar'.refresh \in live' \cup {None}
             /\ \A s \in All : req'[s].phase # "orphan"
  <2>1. ~ disturbed /\ ~ WriterOpen /\ Carried(req, jar, live)
    BY <1>4, <1>5 DEF Kept
  <2>2. \A s \in All : req[s].phase # "orphan" /\ ~ OpenWriter(req[s])
    BY <2>1 DEF Carried, Accepted, WriterOpen, OpenWriter
  <2> QED
    BY <1>1, <1>3, <2>1, <2>2 DEF Left, Kept, OpenWriter, Open
<1>6. jar' \in CookiesType /\ SoundCookies(jar') /\ kicked' \in BOOLEAN
  BY <1>1 DEF RequestsFit
<1> QED
  BY <1>1, <1>2, <1>3, <1>4, <1>5, <1>6, PageLeft
----
(* The turn of a cookie writer, and what the server makes of it.  *)

LEMMA QueuedIs ==
  ASSUME IInv, NEW r \in All, req[r].phase = "queued"
  PROVE  /\ Writing(req[r]) /\ req[r].kind \in CookieWriters /\ ~ req[r].retried
         /\ queue # <<>> /\ ~ OpenWriter(req[r])
<1>1. Shape(r, req[r]) /\ req[r] \in RequestType /\ Ordered(queue, req)
  BY Known DEF Shapes
<1>2. req[r].kind \in CookieWriters
  BY <1>1 DEF Shape, RequestType
<1>3. Writing(req[r]) /\ ~ OpenWriter(req[r]) /\ ~ req[r].retried
  BY <1>1, <1>2 DEF Shape, Writing, OpenWriter, Open
<1>4. queue # <<>>
  <2>1. \E i \in 1 .. Len(queue) : queue[i] = r
    BY <1>1, <1>3 DEF Ordered
  <2> QED
    BY <2>1
<1> QED
  BY <1>2, <1>3, <1>4

\* Only the first of the queue has been sent.
LEMMA OneAtATime ==
  ASSUME IInv, NEW r \in All, queue # <<>>, Head(queue) = r
  PROVE  \A s \in All \ {r} : ~ OpenWriter(req[s])
BY Known DEF Ordered

\* A cookie writer goes on and has not ended.
LEMMA WriterMoves ==
  ASSUME IInv, NEW r \in All, Writing(req[r]), Writing(req'[r]),
         req' \in [All -> RequestType], \A s \in All \ {r} : req'[s] = req[s],
         queue # <<>>, Head(queue) = r,
         req'[r].kind = req[r].kind, req'[r].user = req[r].user, req'[r].fresh = req[r].fresh,
         req'[r].retried = req[r].retried, Shape(r, req'[r]), Fits(req'[r], tab, jar),
         tab' = tab, queue' = queue, jar' = jar, live' \subseteq TokenType, kicked' = kicked,
         disturbed' \in BOOLEAN, disturbed => disturbed',
         ~ disturbed' => /\ WriterOpen' \/ jar.refresh \in live' \cup {None}
                         /\ Accepted(req'[r], jar, live')
  PROVE  IInv'
<1> USE Known
<1> DEFINE x == req[r]
           y == req'[r]
<1>1. {r} \in SUBSET All /\ (\A s \in All \ {r} : Same(req[s], req'[s])) /\ Rest({r}, req, req')
  BY SameIs DEF Rest, Near
<1>2. Signing(y) <=> Signing(x)
  BY DEF Signing, Writing
<1>3. /\ x.kind \in CookieWriters /\ x.phase \notin {"none", "done", "orphan", "waiting"}
      /\ y.phase \notin {"none", "done", "orphan", "waiting"}
  BY DEF Writing
<1>4. Ordered(queue', req')
  <2>1. Ordered(queue, req')
    BY <1>1, <1>2, OrderedKept
  <2> QED
    BY <2>1
<1>5. Nobody(tab', req') /\ Refreshing(tab', req')
  <2>1. Nobody(tab, req')
    BY <1>1, <1>2, NobodyKept
  <2>2. Refreshing(tab, req')
    BY <1>1 DEF Refreshing, TabType, Same
  <2> QED
    BY <2>1, <2>2
<1>6. Structure'
  <2>1. \A s \in {r} : Shape(s, req'[s]) /\ req[s].phase # "done" /\ req[s].phase # "none"
                       /\ (req[s].retried => req'[s].retried)
    BY <1>3
  <2> QED
    BY <1>1, <1>4, <1>5, <2>1, StructureKept
<1>7. OneIdentity'
  BY DEF OneIdentity, TabMatchesJar, CacheIsOfUser
<1>8. SoundCookies(jar') /\ OfUser(jar', jar) /\ OfUser(jar, jar')
  BY DEF OfUser, RequestsFit
<1>9. \A s \in {r} : /\ Fits(req'[s], tab', jar') /\ Awaits(req'[s], req', disturbed')
                     /\ Settles(req[s], req'[s], disturbed')
  BY <1>3 DEF Awaits, Settles
<1>10. \A s \in All \ {r} : ~ OpenWriter(req'[s])
  BY OneAtATime
<1>11. ~ disturbed' => /\ (WriterOpen' \/ jar'.refresh \in live' \cup {None})
                       /\ \A s \in {r} : Accepted(req'[s], jar', live')
  BY DEF Kept
<1>12. tab'.user = tab.user
  OBVIOUS
<1> QED
  BY <1>1, <1>6, <1>7, <1>8, <1>9, <1>10, <1>11, <1>12, IInvKept

\* A cookie writer ends, and with it only what the tab knows of it: the next one has its turn.
LEMMA WriterEnds ==
  ASSUME IInv, NEW r \in All, Writing(req[r]), queue # <<>>, Head(queue) = r,
         req' \in [All -> RequestType], \A s \in All \ {r} : req'[s] = req[s],
         ~ req'[r].fresh, req'[r].phase \in {"done", "orphan"}, Shape(r, req'[r]),
         Settles(req[r], req'[r], disturbed'),
         tab' \in TabType, tab'.user = tab.user, tab'.checked = tab.checked,
         tab'.refresh \in {None, tab.refresh}, tab'.refresh # r,
         queue' = Tail(queue), jar' \in CookiesType, SoundCookies(jar'), live' = live,
         OneIdentity',
         OfUser(jar', jar) \/ \A s \in All \ {r} : ~ OpenProtected(req[s]),
         kicked' \in BOOLEAN, disturbed' \in BOOLEAN, disturbed => disturbed',
         ~ disturbed' => jar'.refresh \in live \cup {None} /\ req'[r].phase = "done"
  PROVE  IInv'
<1> USE Known
<1> DEFINE x == req[r]
           y == req'[r]
<1>1. {r} \in SUBSET All /\ (\A s \in All \ {r} : Same(req[s], req'[s])) /\ Rest({r}, req, req')
  BY SameIs DEF Rest, Near
<1>2. ~ Writing(y) /\ ~ Signing(y)
  BY DEF Signing, Writing
<1>3. /\ x.kind \in CookieWriters /\ x.phase \notin {"none", "done", "orphan", "waiting"}
      /\ ~ x.retried
  BY DEF Writing, Shapes, Shape
<1>4. Ordered(queue', req') /\ queue' \in Seq(All)
  <2>1. Ordered(Tail(queue), req') /\ Tail(queue) \in Seq(All)
    BY <1>1, <1>2, OrderedTail
  <2> QED
    BY <2>1
<1>5. Nobody(tab', req') /\ Refreshing(tab', req')
  <2>1. Nobody(tab', req')
    BY <1>1, <1>2, NobodyKept
  <2>2. Refreshing(tab', req')
    BY <1>1 DEF Refreshing, TabType, Same
  <2> QED
    BY <2>1, <2>2
<1>6. Structure'
  <2>1. \A s \in {r} : Shape(s, req'[s]) /\ req[s].phase # "done" /\ req[s].phase # "none"
                       /\ ~ req[s].retried
    BY <1>3
  <2>2. live' \subseteq TokenType
    OBVIOUS
  <2> QED
    BY <1>1, <1>4, <1>5, <2>1, <2>2, StructureKept
<1>7. \A s \in All \ {r} : ~ OpenWriter(req'[s])
  BY OneAtATime
<1>8. \A s \in {r} : /\ Fits(req'[s], tab', jar') /\ Awaits(req'[s], req', disturbed')
                     /\ Settles(req[s], req'[s], disturbed')
                     /\ (~ disturbed' => Accepted(req'[s], jar', live'))
  BY <1>3 DEF Awaits, Fits, Accepted, OpenWriter, Open
<1>9. OfUser(jar', jar) \/ \A s \in All \ {r} : ~ OpenProtected(req'[s]) \/ ~ req'[s].fresh
  OBVIOUS
<1>10. ~ disturbed' => (WriterOpen' \/ jar'.refresh \in live' \cup {None})
  OBVIOUS
<1> QED
  BY <1>1, <1>6, <1>7, <1>8, <1>9, <1>10, IInvKept

LEMMA ExecuteKeeps ==
  ASSUME IInv, NEW r \in All, Execute(r)
  PROVE  IInv'
<1> USE Known
<1>0. /\ req[r].phase = "queued" /\ Head(queue) = r
      /\ tab' = tab /\ jar' = jar /\ live' = live /\ disturbed' = disturbed /\ kicked' = kicked
  BY DEF Execute
<1>1. /\ Writing(req[r]) /\ req[r].kind \in CookieWriters /\ queue # <<>> /\ ~ OpenWriter(req[r])
      /\ ~ req[r].retried /\ Shape(r, req[r]) /\ req[r] \in RequestType
  BY <1>0, QueuedIs DEF Shapes
<1>2. ~ disturbed => jar.refresh \in live \cup {None}
  BY <1>0, <1>1, OneAtATime DEF Kept, WriterOpen, OpenWriter
<1>3. OneIdentity' /\ SoundCookies(jar) /\ OfUser(jar, jar)
  BY <1>0 DEF OneIdentity, TabMatchesJar, CacheIsOfUser, OfUser, RequestsFit
<1>4. CASE req[r].kind = "refresh" /\ ~ req[r].fresh
  <2>1. req' = [req EXCEPT ![r] = Done] /\ queue' = Tail(queue)
    BY <1>0, <1>1, <1>4 DEF Execute, Without
  <2>2. /\ req' \in [All -> RequestType] /\ req'[r] = Done
        /\ \A s \in All \ {r} : req'[s] = req[s]
    BY <2>1, DoneIs
  <2>3. Shape(r, Done)
    BY DoneIs DEF Shape, CookieWriters, Protected, Profiles, OpenProtected
  <2>4. ~ req'[r].fresh /\ req'[r].phase = "done" /\ Settles(req[r], req'[r], disturbed')
    BY <1>0, <1>4, <2>2, DoneIs DEF Settles
  <2>5. jar' \in CookiesType /\ SoundCookies(jar') /\ OfUser(jar', jar) /\ queue' = Tail(queue)
    BY <1>0, <1>3, <2>1
  <2>6. tab.refresh # r
    BY <1>4, Nulls DEF Refreshing
  <2>7. ~ disturbed' => jar'.refresh \in live \cup {None}
    BY <1>0, <1>2 DEF Kept
  <2> QED
    BY <1>0, <1>1, <1>3, <2>2, <2>3, <2>4, <2>5, <2>6, <2>7, WriterEnds
<1>5. CASE ~ (req[r].kind = "refresh" /\ ~ req[r].fresh)
  <2>1. req' = [req EXCEPT ![r].phase = "sent", ![r].cookies = jar] /\ queue' = queue
    BY <1>5 DEF Execute
  <2>2. /\ req' \in [All -> RequestType]
        /\ req'[r] = [req[r] EXCEPT !.phase = "sent", !.cookies = jar]
        /\ \A s \in All \ {r} : req'[s] = req[s]
    BY <1>1, <2>1 DEF RequestType
  <2>3. /\ req'[r].kind = req[r].kind /\ req'[r].user = req[r].user /\ req'[r].fresh = req[r].fresh
        /\ req'[r].retried = req[r].retried /\ req'[r].phase = "sent" /\ req'[r].cookies = jar
    BY <1>1, <2>2 DEF RequestType
  <2>4. Writing(req'[r]) /\ OpenWriter(req'[r]) /\ Fits(req'[r], tab, jar) /\ Shape(r, req'[r])
    BY <1>1, <1>3, <2>3
       DEF Writing, OpenWriter, Open, Fits, Shape, CookieWriters, Protected, Profiles, OpenProtected
  <2>5. ~ disturbed' => /\ WriterOpen' \/ jar.refresh \in live' \cup {None}
                        /\ Accepted(req'[r], jar, live')
    BY <1>0, <1>2, <2>3 DEF Accepted
  <2>6. disturbed' \in BOOLEAN /\ (disturbed => disturbed') /\ live' \subseteq TokenType /\ queue' = queue
    BY <1>0, <2>1
  <2> QED
    BY <1>0, <1>1, <2>2, <2>3, <2>4, <2>5, <2>6, WriterMoves
<1> QED
  BY <1>4, <1>5

\* What the server answers to a cookie writer x, and the tokens l it accepts then, with n the
\* accepted ones before.
SoundAnswer(x, n, l, a) ==
  /\ l \subseteq TokenType /\ a \in AnswerType
  /\ a.cookies # None => SoundCookies(a.cookies) /\ a.cookies.refresh \in l \cup {None}
  /\ a.cookies = None => l = n
  /\ x.kind = "logout" => a.cookies = NoCookies
  /\ x.kind = "refresh" =>
       /\ a.cookies # None
       /\ a.cookies.refresh # None => /\ x.cookies.refresh # None
                                      /\ a.cookies.refresh.user = x.cookies.refresh.user
       /\ \/ a.status = "ok"
          \/ x.cookies.refresh \notin n /\ (a.status = "401" \/ x.cookies.refresh # None)
  /\ x.kind = "login" /\ a.status = "ok" =>
       /\ a.cookies # None /\ a.cookies.refresh # None
       /\ a.cookies.refresh.user = a.user

LEMMA Brings ==
  ASSUME NEW r \in All, NEW u \in Accounts
  PROVE  LET t == Token(r, u)
             a == Answer("ok", u, CookiesOf(t))
         IN  /\ t \in TokenType /\ t # None /\ t.user = u
             /\ a \in AnswerType /\ a.status = "ok" /\ a.user = u
             /\ a.cookies # None /\ a.cookies.refresh = t /\ a.cookies.access = u
<1>1. /\ Token(r, u) \in TokenType /\ Token(r, u) # None /\ Token(r, u).user = u
      /\ CookiesOf(Token(r, u)) \in CookiesType /\ CookiesOf(Token(r, u)) # None
  BY Nulls, NoneAssumption
<1> QED
  BY <1>1 DEF Answer, AnswerType, CookiesOf

LEMMA Clears ==
  \A s \in {"ok", "401", "403"} :
    LET a == Answer(s, None, NoCookies) IN
    /\ a \in AnswerType /\ a.status = s /\ a.cookies = NoCookies /\ a.cookies # None
    /\ a.cookies.refresh = None /\ SoundCookies(a.cookies)
BY Nulls DEF Answer, AnswerType, NoCookies, SoundCookies

LEMMA Refuses ==
  LET a == Answer("401", None, None) IN a \in AnswerType /\ a.status = "401" /\ a.cookies = None
BY DEF Answer, AnswerType

\* An answer a that brings a new token t, to a login or to a refresh of the token's user, is sound:
\* m is what remains of the accepted tokens n.
LEMMA BringingIsSound ==
  ASSUME NEW x, NEW n \in SUBSET TokenType, NEW m \in SUBSET n,
         NEW t \in TokenType, t # None,
         NEW a \in AnswerType, a.status = "ok", a.user = t.user,
         a.cookies # None, a.cookies.refresh = t, a.cookies.access = t.user,
         x.kind # "logout",
         x.kind = "refresh" => x.cookies.refresh # None /\ x.cookies.refresh.user = t.user
  PROVE  SoundAnswer(x, n, m \cup {t}, a)
<1>1. m \cup {t} \subseteq TokenType /\ a.cookies.refresh \in (m \cup {t}) \cup {None}
  OBVIOUS
<1>2. SoundCookies(a.cookies)
  BY DEF SoundCookies
<1> QED
  BY <1>1, <1>2 DEF SoundAnswer

LEMMA ServedIs ==
  ASSUME IInv, NEW r \in All, req[r].kind \in CookieWriters, NEW s \in Served(r)
  PROVE  SoundAnswer(req[r], live, s[1], s[2])
<1> USE Known
<1> DEFINE x == req[r]
           c == req[r].cookies
<1>0. /\ x \in RequestType /\ live \subseteq TokenType /\ c \in CookiesType
      /\ x.kind = "login" => x.user \in Accounts
  BY DEF Shapes, Shape, RequestType
<1>1. CASE x.kind = "login"
  <2> DEFINE t == Token(r, x.user)
  <2>1. \/ s = <<live \cup {t}, Answer("ok", t.user, CookiesOf(t))>>
        \/ s = <<live, Answer("401", None, None)>>
    BY <1>1 DEF Served
  <2>2. CASE s = <<live \cup {t}, Answer("ok", t.user, CookiesOf(t))>>
    <3>1. s[1] = live \cup {t} /\ s[2] = Answer("ok", t.user, CookiesOf(t))
      BY <2>2
    <3> DEFINE a == Answer("ok", t.user, CookiesOf(t))
    <3>2. /\ t \in TokenType /\ t # None
          /\ a \in AnswerType /\ a.status = "ok" /\ a.user = t.user
          /\ a.cookies # None /\ a.cookies.refresh = t /\ a.cookies.access = t.user
      BY <1>0, <1>1, Brings
    <3> HIDE DEF t, a
    <3>3. SoundAnswer(x, live, live \cup {t}, a)
      BY <1>0, <1>1, <3>2, BringingIsSound
    <3> QED
      BY <3>1, <3>3 DEF a
  <2>3. CASE s = <<live, Answer("401", None, None)>>
    BY <1>0, <1>1, <2>3, Refuses DEF SoundAnswer
  <2> QED
    BY <2>1, <2>2, <2>3
<1>2. CASE x.kind = "logout"
  <2>1. s = <<live \ {c.refresh}, Answer("ok", None, NoCookies)>>
    BY <1>2 DEF Served
  <2> QED
    BY <1>0, <1>2, <2>1, Clears DEF SoundAnswer
<1>3. CASE x.kind = "refresh" /\ c.refresh \notin live
  <2>1. \E code \in {"401"} \cup Blocked(c.refresh) : s = <<live, Answer(code, None, NoCookies)>>
    BY <1>3 DEF Served
  <2>2. PICK code \in {"401", "403"} : /\ s = <<live, Answer(code, None, NoCookies)>>
                                       /\ code = "403" => c.refresh # None
    BY <2>1 DEF Blocked
  <2> QED
    BY <1>0, <1>3, <2>2, Clears DEF SoundAnswer
<1>4. CASE x.kind = "refresh" /\ c.refresh \in live
  <2> DEFINE t == Token(r, c.refresh.user)
  <2>1. s = <<(live \ {c.refresh}) \cup {t}, Answer("ok", t.user, CookiesOf(t))>>
    BY <1>4 DEF Served
  <2>2. c.refresh # None /\ c.refresh.user \in Accounts
    BY <1>0, <1>4, NoneAssumption DEF TokenType
  <2>3. s[1] = (live \ {c.refresh}) \cup {t} /\ s[2] = Answer("ok", t.user, CookiesOf(t))
    BY <2>1
  <2> DEFINE a == Answer("ok", t.user, CookiesOf(t))
  <2>4. /\ t \in TokenType /\ t # None /\ t.user = c.refresh.user
        /\ a \in AnswerType /\ a.status = "ok" /\ a.user = t.user
        /\ a.cookies # None /\ a.cookies.refresh = t /\ a.cookies.access = t.user
    BY <2>2, Brings
  <2> HIDE DEF t, a
  <2>5. SoundAnswer(x, live, (live \ {c.refresh}) \cup {t}, a)
    BY <1>0, <1>4, <2>2, <2>4, BringingIsSound
  <2> QED
    BY <2>3, <2>5 DEF a
<1> QED
  BY <1>1, <1>2, <1>3, <1>4 DEF CookieWriters

\* A served request brings cookies that fit: a refresh is answered for the user whose token it had.
LEMMA ServedFits ==
  ASSUME IInv, NEW r \in All, req[r].phase = "sent", req[r].kind \in CookieWriters,
         NEW l, NEW a, SoundAnswer(req[r], live, l, a),
         NEW b \in AnswerType, b.cookies = a.cookies, b.user = a.user, b.status = a.status \/ b.status = "500",
         NEW y \in RequestType, y.kind = req[r].kind, y.phase = "served", y.answer = b
  PROVE  Fits(y, tab, jar)
<1> USE Known
<1>1. Fits(req[r], tab, jar)
  BY DEF RequestsFit
<1>2. y.kind = "refresh" /\ y.answer.cookies # None => OfUser(y.answer.cookies, jar)
  BY <1>1 DEF Fits, SoundAnswer, OfUser
<1>3. y.kind \notin Protected
  BY DEF CookieWriters, Protected, Profiles
<1>4. y.kind = "login" /\ y.answer.status = "ok" =>
        /\ y.answer.cookies # None /\ y.answer.cookies.refresh # None
        /\ y.answer.cookies.refresh.user = y.answer.user
  BY DEF SoundAnswer
<1>5. y.answer.cookies # None => SoundCookies(y.answer.cookies)
  BY DEF SoundAnswer
<1>6. y.kind = "logout" => y.answer.cookies = NoCookies
  BY DEF SoundAnswer
<1> QED
  BY <1>2, <1>3, <1>4, <1>5, <1>6 DEF Fits

\* The request r of cookie writer x after it has been served answer a.
Answers(r, a) == req' = [req EXCEPT ![r].phase = "served", ![r].answer = a]

LEMMA AnswersIs ==
  ASSUME IInv, NEW r \in All, req[r].phase = "sent", req[r].kind \in CookieWriters,
         NEW a \in AnswerType, Answers(r, a)
  PROVE  /\ req' \in [All -> RequestType] /\ \A s \in All \ {r} : req'[s] = req[s]
         /\ Writing(req[r]) /\ Writing(req'[r]) /\ OpenWriter(req'[r])
         /\ req'[r].kind = req[r].kind /\ req'[r].user = req[r].user /\ req'[r].fresh = req[r].fresh
         /\ req'[r].retried = req[r].retried /\ req'[r].phase = "served" /\ req'[r].answer = a
         /\ Shape(r, req'[r]) /\ queue # <<>> /\ Head(queue) = r /\ WriterOpen'
<1>1. req[r] \in RequestType /\ req \in [All -> RequestType] /\ Shape(r, req[r]) /\ Ordered(queue, req)
  BY Known DEF Shapes
<1>2. /\ req' \in [All -> RequestType] /\ \A s \in All \ {r} : req'[s] = req[s]
      /\ req'[r] = [req[r] EXCEPT !.phase = "served", !.answer = a]
  BY <1>1 DEF Answers, RequestType
<1>3. /\ req'[r].kind = req[r].kind /\ req'[r].user = req[r].user /\ req'[r].fresh = req[r].fresh
      /\ req'[r].retried = req[r].retried /\ req'[r].phase = "served" /\ req'[r].answer = a
  BY <1>1, <1>2 DEF RequestType
<1>4. OpenWriter(req[r]) /\ Writing(req[r]) /\ Writing(req'[r]) /\ OpenWriter(req'[r])
  BY <1>3 DEF OpenWriter, Writing, Open
<1>5. Shape(r, req'[r])
  BY <1>1, <1>3 DEF Shape, CookieWriters, Protected, Profiles, OpenProtected
<1>6. queue # <<>> /\ Head(queue) = r
  BY <1>1, <1>4 DEF Ordered
<1>7. WriterOpen'
  BY <1>4 DEF WriterOpen, OpenWriter
<1> QED
  BY <1>2, <1>3, <1>4, <1>5, <1>6, <1>7

LEMMA ServeKeeps ==
  ASSUME IInv, NEW r \in All, Serve(r)
  PROVE  IInv'
<1> USE Known
<1>0. /\ req[r].phase = "sent" /\ req[r].kind \in CookieWriters
      /\ tab' = tab /\ queue' = queue /\ jar' = jar /\ disturbed' = disturbed /\ kicked' = kicked
  BY DEF Serve
<1>1. PICK s \in Served(r) : live' = s[1] /\ Answers(r, s[2])
  BY DEF Serve, Answers
<1>2. SoundAnswer(req[r], live, s[1], s[2]) /\ s[2] \in AnswerType
  BY <1>0, ServedIs DEF SoundAnswer
<1>3. /\ req' \in [All -> RequestType] /\ \A o \in All \ {r} : req'[o] = req[o]
      /\ Writing(req[r]) /\ Writing(req'[r]) /\ OpenWriter(req'[r])
      /\ req'[r].kind = req[r].kind /\ req'[r].user = req[r].user /\ req'[r].fresh = req[r].fresh
      /\ req'[r].retried = req[r].retried /\ req'[r].phase = "served" /\ req'[r].answer = s[2]
      /\ Shape(r, req'[r]) /\ queue # <<>> /\ Head(queue) = r /\ WriterOpen'
  BY <1>0, <1>1, <1>2, AnswersIs
<1>4. Fits(req'[r], tab, jar)
  BY <1>0, <1>2, <1>3, ServedFits
<1>5. ASSUME ~ disturbed' PROVE Accepted(req'[r], jar, live')
  <2>1. Accepted(req[r], jar, live)
    BY <1>0, <1>5 DEF Kept, Carried
  <2>2. OpenWriter(req[r])
    BY <1>0 DEF OpenWriter, Open
  <2>3. req[r].cookies.refresh = jar.refresh /\ jar.refresh \in live \cup {None}
    BY <1>0, <2>1, <2>2 DEF Accepted
  <2> QED
    BY <1>1, <1>2, <1>3, <2>3 DEF Accepted, SoundAnswer
<1>6. live' \subseteq TokenType /\ disturbed' \in BOOLEAN
  BY <1>0, <1>1, <1>2 DEF SoundAnswer
<1> QED
  BY <1>0, <1>3, <1>4, <1>5, <1>6, WriterMoves

LEMMA ServeRolledBackKeeps ==
  ASSUME IInv, NEW r \in All, ServeRolledBack(r)
  PROVE  IInv'
<1> USE Known
<1>0. /\ req[r].phase = "sent" /\ req[r].kind \in CookieWriters /\ Disturb(TRUE)
      /\ tab' = tab /\ queue' = queue /\ jar' = jar /\ live' = live /\ kicked' = kicked
  BY DEF ServeRolledBack
<1>1. PICK s \in Served(r) : Answers(r, [s[2] EXCEPT !.status = "500"])
  BY DEF ServeRolledBack, Answers
<1> DEFINE b == [s[2] EXCEPT !.status = "500"]
<1>2. SoundAnswer(req[r], live, s[1], s[2]) /\ s[2] \in AnswerType
  BY <1>0, ServedIs DEF SoundAnswer
<1>3. b \in AnswerType /\ b.status = "500" /\ b.cookies = s[2].cookies /\ b.user = s[2].user
  BY <1>2 DEF AnswerType
<1> HIDE DEF b
<1>4. /\ req' \in [All -> RequestType] /\ \A o \in All \ {r} : req'[o] = req[o]
      /\ Writing(req[r]) /\ Writing(req'[r]) /\ OpenWriter(req'[r])
      /\ req'[r].kind = req[r].kind /\ req'[r].user = req[r].user /\ req'[r].fresh = req[r].fresh
      /\ req'[r].retried = req[r].retried /\ req'[r].phase = "served" /\ req'[r].answer = b
      /\ Shape(r, req'[r]) /\ queue # <<>> /\ Head(queue) = r /\ WriterOpen'
  <2>1. Answers(r, b)
    BY <1>1 DEF b
  <2> QED
    BY <1>0, <1>3, <2>1, AnswersIs
<1>5. Fits(req'[r], tab, jar)
  BY <1>0, <1>2, <1>3, <1>4, ServedFits
<1>6. live' \subseteq TokenType /\ disturbed' \in BOOLEAN /\ disturbed'
  BY <1>0, DisturbIs
<1> QED
  BY <1>0, <1>4, <1>5, <1>6, WriterMoves

LEMMA ServeOrphanKeeps ==
  ASSUME IInv, NEW r \in All, ServeOrphan(r)
  PROVE  IInv'
<1> USE Known
<1> DEFINE x == req[r]
           y == req'[r]
<1>0. /\ x.phase = "orphan" /\ req' = [req EXCEPT ![r].phase = "done"]
      /\ tab' = tab /\ queue' = queue /\ jar' = jar /\ disturbed' = disturbed /\ kicked' = kicked
  BY DEF ServeOrphan
<1>1. x \in RequestType /\ Shape(r, x)
  BY DEF Shapes
<1>2. x.kind \in CookieWriters /\ ~ x.fresh /\ ~ x.retried
  BY <1>0, <1>1 DEF Shape, RequestType
<1>3. /\ req' \in [All -> RequestType] /\ (\A s \in All \ {r} : req'[s] = req[s])
      /\ y = [x EXCEPT !.phase = "done"]
  BY <1>0, <1>1 DEF RequestType
<1>4. /\ y.kind = x.kind /\ y.user = x.user /\ y.fresh = x.fresh /\ y.retried = x.retried
      /\ y.phase = "done" /\ y.answer = x.answer
  BY <1>1, <1>3 DEF RequestType
<1>5. {r} \in SUBSET All /\ (\A s \in All \ {r} : Same(req[s], req'[s])) /\ Rest({r}, req, req')
  BY <1>3, SameIs DEF Rest, Near
<1>6. ~ Writing(x) /\ ~ Writing(y) /\ ~ Signing(y) /\ ~ OpenWriter(x) /\ ~ OpenWriter(y)
  BY <1>0, <1>4 DEF Writing, Signing, OpenWriter, Open
<1>7. Shape(r, y)
  BY <1>1, <1>2, <1>4 DEF Shape, CookieWriters, Protected, Profiles, OpenProtected
<1>8. Ordered(queue', req') /\ Nobody(tab', req') /\ Refreshing(tab', req')
  <2>1. \A s \in {r} : /\ ~ Writing(req'[s]) /\ ~ Writing(req[s]) /\ ~ Signing(req'[s])
                       /\ ~ OpenWriter(req'[s]) /\ ~ req'[s].fresh
    BY <1>2, <1>4, <1>6
  <2>2. Ordered(queue, req')
    BY <1>3, <1>5, <2>1, OrderedKept
  <2>3. Nobody(tab, req')
    BY <1>3, <1>5, <2>1, NobodyKept
  <2>4. Refreshing(tab, req')
    BY <1>2, <1>3 DEF Refreshing, TabType
  <2> QED
    BY <1>0, <2>2, <2>3, <2>4
<1>9. live' \subseteq TokenType
  <2>1. PICK s \in Served(r) : live' = s[1]
    BY DEF ServeOrphan
  <2> QED
    BY <1>2, <2>1, ServedIs DEF SoundAnswer
<1>10. Structure'
  <2>1. \A s \in {r} : /\ Shape(s, req'[s]) /\ req'[s].phase = "done" /\ req[s].phase # "none"
                       /\ (req[s].retried => req'[s].retried)
    BY <1>0, <1>4, <1>7
  <2>2. tab' \in TabType /\ queue' \in Seq(All) /\ jar' \in CookiesType /\ disturbed' \in BOOLEAN
        /\ kicked' \in BOOLEAN
    BY <1>0
  <2> QED
    BY <1>3, <1>5, <1>8, <1>9, <2>1, <2>2, StructureKept
<1>11. disturbed
  BY <1>0 DEF Kept, Carried, Accepted
<1>12. OneIdentity' /\ SoundCookies(jar') /\ OfUser(jar', jar) /\ OfUser(jar, jar')
  BY <1>0 DEF OneIdentity, TabMatchesJar, CacheIsOfUser, OfUser, RequestsFit
<1>13. \A s \in {r} : /\ Fits(req'[s], tab', jar') /\ Awaits(req'[s], req', disturbed')
                      /\ Settles(req[s], req'[s], disturbed')
  BY <1>0, <1>2, <1>4 DEF Fits, Awaits, Settles, CookieWriters, Protected, Profiles
<1>14. disturbed' /\ tab'.user = tab.user
  BY <1>0, <1>11
<1> QED
  BY <1>5, <1>10, <1>12, <1>13, <1>14, IInvKept
----
(* The answer to a protected request.  *)

LEMMA ProtectedDone ==
  ASSUME IInv, NEW r \in All, req[r].kind \in Protected,
         req' \in [All -> RequestType], req'[r] = Done, \A s \in All \ {r} : req'[s] = req[s],
         tab' \in TabType, tab'.user = tab.user, tab'.checked = tab.checked, tab'.refresh = tab.refresh,
         CacheIsOfUser', UNCHANGED <<queue, jar, live>>, Noted
  PROVE  IInv'
<1> USE Known DEF Noted
<1>1. /\ req' \in [All -> RequestType] /\ req'[r] = Done /\ \A s \in All \ {r} : req'[s] = req[s]
  OBVIOUS
<1>2. {r} \in SUBSET All /\ (\A s \in All \ {r} : Same(req[s], req'[s])) /\ Rest({r}, req, req')
  BY <1>1, SameIs DEF Rest, Near
<1>3. /\ req[r].kind \notin CookieWriters /\ req[r].phase \in {"sent", "waiting"}
      /\ ~ Writing(req[r]) /\ ~ OpenWriter(req[r])
      /\ ~ Writing(Done) /\ ~ Signing(Done) /\ ~ OpenWriter(Done)
  BY DoneIs DEF Shapes, Shape, Writing, Signing, OpenWriter, Open, CookieWriters, Protected, Profiles
<1>4. \A s \in {r} : /\ ~ Writing(req[s]) /\ ~ Writing(req'[s]) /\ ~ Signing(req'[s])
                     /\ ~ OpenWriter(req'[s]) /\ ~ req'[s].fresh /\ req'[s].phase = "done"
                     /\ req[s].phase # "none"
  BY <1>1, <1>3, DoneIs
<1>5. Ordered(queue', req') /\ Nobody(tab', req') /\ Refreshing(tab', req')
  <2>1. Ordered(queue, req')
    BY <1>1, <1>2, <1>4, OrderedKept
  <2>2. Nobody(tab', req')
    BY <1>1, <1>2, <1>4, NobodyKept
  <2>3. tab.refresh # r
    BY <1>3, Nulls DEF Refreshing, CookieWriters
  <2>4. Refreshing(tab', req')
    BY <1>1, <2>3 DEF Refreshing, TabType
  <2> QED
    BY <2>1, <2>2, <2>4
<1>6. Structure'
  <2>1. Shape(r, Done)
    BY DoneIs DEF Shape, CookieWriters, Protected, Profiles, OpenProtected
  <2>2. \A s \in {r} : Shape(s, req'[s])
    BY <1>1, <2>1
  <2>3. queue' \in Seq(All) /\ jar' \in CookiesType /\ live' \subseteq TokenType
        /\ disturbed' \in BOOLEAN /\ kicked' \in BOOLEAN
    OBVIOUS
  <2> QED
    BY <1>1, <1>2, <1>4, <1>5, <2>2, <2>3, StructureKept
<1>7. OneIdentity' /\ SoundCookies(jar') /\ OfUser(jar', jar) /\ OfUser(jar, jar')
  BY DEF OneIdentity, TabMatchesJar, OfUser, RequestsFit
<1>8. /\ Fits(Done, tab', jar') /\ Awaits(Done, req', disturbed') /\ Settles(req[r], Done, disturbed')
      /\ Accepted(Done, jar', live')
  BY <1>3, DoneIs DEF Fits, Awaits, Settles, Accepted, OpenWriter, Open, CookieWriters, Protected, Profiles
<1>9. \A s \in {r} : /\ Fits(req'[s], tab', jar') /\ Awaits(req'[s], req', disturbed')
                     /\ Settles(req[s], req'[s], disturbed') /\ Accepted(req'[s], jar', live')
  BY <1>1, <1>8
<1>10. WriterOpen' <=> WriterOpen
  BY <1>2, <1>3, <1>4, NearKeeps DEF WriterOpen, OpenWriter, Rest
<1>11. ~ disturbed' => /\ (WriterOpen' \/ jar'.refresh \in live' \cup {None})
                       /\ jar'.refresh = jar.refresh /\ live \subseteq live'
  BY <1>10 DEF Kept
<1>12. (disturbed => disturbed')
  OBVIOUS
<1> QED
  BY <1>2, <1>6, <1>7, <1>9, <1>11, <1>12, IInvKept

\* While a protected request counts, nobody signs in or out.
LEMMA NobodySigns ==
  ASSUME IInv, NEW r \in All, req[r].kind \in Protected, req[r].fresh
  PROVE  ~ \E s \in All : Signing(req[s])
BY Known DEF Nobody, Protected, Profiles

\* What becomes of a request that waits for refresh o.
LEMMA WaitIs ==
  ASSUME NEW x \in RequestType, NEW o \in All
  PROVE  LET y == [x EXCEPT !.phase = "waiting", !.retried = TRUE, !.answer = None,
                            !.cookies = NoCookies, !.on = o]
         IN  /\ y \in RequestType /\ y.kind = x.kind /\ y.user = x.user /\ y.fresh = x.fresh
             /\ y.phase = "waiting" /\ y.retried /\ y.on = o
BY Nulls DEF RequestType

LEMMA NeedsRefreshKeeps ==
  ASSUME IInv, NEW r \in All, OpenProtected(req[r]), ~ req[r].retried,
         NeedsRefresh(r, [req EXCEPT ![r] = Done]), UNCHANGED <<jar, live>>, Noted
  PROVE  IInv'
<1> USE Known
<1> DEFINE f == RefreshOf(r)
           x == req[r]
           W(o) == [x EXCEPT !.phase = "waiting", !.retried = TRUE, !.answer = None,
                             !.cookies = NoCookies, !.on = o]
<1>0. /\ disturbed' \in BOOLEAN /\ (disturbed => disturbed') /\ kicked' \in BOOLEAN
      /\ jar' = jar /\ live' = live
  BY DEF Noted
<1>1. /\ x \in RequestType /\ Shape(r, x) /\ r \in Made /\ f \in All /\ f # r
      /\ x.kind \in Protected /\ x.phase = "sent" /\ x.fresh
      /\ x.kind \notin CookieWriters
  BY Numbers DEF Shapes, Shape, OpenProtected, CookieWriters, Protected, Profiles
<1>2. req[f].phase = "none" /\ req[f].kind = "none" /\ ~ req[f].fresh /\ ~ req[f].retried
  BY <1>1 DEF OneRefresh, Shapes, Shape
<1>3. ~ \E s \in All : Signing(req[s])
  BY <1>1, NobodySigns
<1>4. ~ Writing(x) /\ ~ Writing(req[f]) /\ ~ OpenWriter(x) /\ ~ OpenWriter(req[f])
  BY <1>1, <1>2 DEF Writing, OpenWriter, Open, CookieWriters
<1>5. \A o \in All : /\ W(o) \in RequestType /\ W(o).kind = x.kind /\ W(o).fresh
                     /\ W(o).phase = "waiting" /\ W(o).retried /\ W(o).on = o
  BY <1>1, WaitIs
<1> HIDE DEF W
<1>6. \A o \in All : /\ Shape(r, W(o)) /\ ~ Writing(W(o)) /\ ~ Signing(W(o)) /\ ~ OpenWriter(W(o))
                     /\ Accepted(W(o), jar, live) /\ Fits(W(o), tab, jar)
                     /\ Settles(x, W(o), disturbed')
  <2> SUFFICES ASSUME NEW o \in All
               PROVE  /\ Shape(r, W(o)) /\ ~ Writing(W(o)) /\ ~ Signing(W(o)) /\ ~ OpenWriter(W(o))
                      /\ Accepted(W(o), jar, live) /\ Fits(W(o), tab, jar)
                      /\ Settles(x, W(o), disturbed')
    OBVIOUS
  <2>1. Shape(r, W(o))
    BY <1>1, <1>5 DEF Shape, OpenProtected, CookieWriters, Protected, Profiles
  <2>2. ~ Writing(W(o)) /\ ~ Signing(W(o)) /\ ~ OpenWriter(W(o))
    BY <1>5 DEF Writing, Signing, OpenWriter, Open
  <2>3. x.kind = "get" => tab.user # None
    BY <1>1 DEF RequestsFit, Fits
  <2>4. Accepted(W(o), jar, live) /\ Fits(W(o), tab, jar) /\ Settles(x, W(o), disturbed')
    BY <1>1, <1>5, <2>2, <2>3 DEF Accepted, Fits, Settles, CookieWriters, Protected, Profiles
  <2> QED
    BY <2>1, <2>2, <2>4
<1>7. OneIdentity /\ SoundCookies(jar) /\ OfUser(jar, jar)
  BY DEF OneIdentity, OfUser, RequestsFit
<1>8. CASE tab.refresh = None
  <2> DEFINE n == NewWriter("refresh", None)
  <2>1. /\ queue' = Append(queue, f) /\ tab' = [tab EXCEPT !.refresh = f]
        /\ req' = [[[req EXCEPT ![r] = Done] EXCEPT ![r] = W(tab'.refresh)] EXCEPT ![f] = n]
    BY <1>8 DEF NeedsRefresh, W
  <2>2. /\ tab' \in TabType /\ tab'.user = tab.user /\ tab'.checked = tab.checked
        /\ tab'.refresh = f /\ tab'.cache = tab.cache
    BY <1>1, <2>1 DEF TabType
  <2>3. /\ n \in RequestType /\ n.kind = "refresh" /\ n.fresh /\ n.phase = "queued" /\ ~ n.retried
    BY Makes
  <2> HIDE DEF n
  <2>4. /\ req' \in [All -> RequestType] /\ req'[r] = W(f) /\ req'[f] = n
        /\ \A s \in All \ {r, f} : req'[s] = req[s]
    BY <1>1, <1>5, <2>1, <2>2, <2>3, DoneIs
  <2>5. /\ {r, f} \in SUBSET All /\ (\A s \in All \ {r, f} : Same(req[s], req'[s]))
        /\ Rest({r, f}, req, req')
    BY <1>1, <2>4, SameIs DEF Rest, Near
  <2>6. /\ Shape(f, n) /\ Writing(n) /\ ~ Signing(n) /\ ~ OpenWriter(n)
        /\ Accepted(n, jar, live) /\ Fits(n, tab, jar) /\ Settles(req[f], n, disturbed')
        /\ Awaits(n, req', disturbed')
    BY <1>2, <2>3 DEF Shape, Writing, Signing, OpenWriter, OpenProtected, Open, Accepted, Fits, Settles, Awaits,
                      CookieWriters, Protected, Profiles
  <2>7. ~ \E s \in All : Signing(req'[s])
    BY <1>1, <1>3, <1>6, <2>4, <2>6
  <2>8. Ordered(queue', req') /\ queue' \in Seq(All)
    <3>1. \A s \in {r, f} \ {f} : ~ Writing(req'[s]) /\ ~ Writing(req[s])
      BY <1>1, <1>4, <1>6, <2>4
    <3>2. Ordered(Append(queue, f), req')
      BY <1>1, <1>4, <2>4, <2>5, <2>6, <2>7, <3>1, OrderedAppend
    <3> QED
      BY <1>1, <2>1, <3>2
  <2>9. Nobody(tab', req') /\ Refreshing(tab', req')
    BY <2>2, <2>3, <2>4, <2>7 DEF Nobody, Refreshing
  <2>10. Structure'
    <3>1. \A s \in {r, f} : /\ Shape(s, req'[s]) /\ req[s].phase # "done" /\ ~ req[s].retried
                            /\ (s \in Made \/ (s = RefreshOf(r) /\ req'[r].retried))
      BY <1>1, <1>2, <1>5, <1>6, <2>4, <2>6
    <3>2. \A s \in {r, f} :
            /\ Shape(s, req'[s])
            /\ req[s].phase = "done" => req'[s].phase = "done"
            /\ req[s].retried => req'[s].retried \/ req'[s].phase = "done"
            /\ req[s].phase = "none" /\ req'[s].phase # "none" =>
                 s \in Made \/ \E o \in Made : s = RefreshOf(o) /\ req'[o].retried
      BY <1>1, <3>1
    <3>3. jar' \in CookiesType /\ live' \subseteq TokenType /\ disturbed' \in BOOLEAN /\ kicked' \in BOOLEAN
      BY <1>0
    <3> QED
      BY <2>2, <2>4, <2>5, <2>8, <2>9, <3>2, <3>3, StructureKept
  <2>11. OneIdentity'
    BY <1>7, <2>2 DEF OneIdentity, TabMatchesJar, CacheIsOfUser
  <2>12. Awaits(W(f), req', disturbed')
    BY <1>1, <1>5, <2>3, <2>4 DEF Awaits
  <2>13. \A s \in {r, f} : /\ Fits(req'[s], tab', jar') /\ Awaits(req'[s], req', disturbed')
                           /\ Settles(req[s], req'[s], disturbed') /\ Accepted(req'[s], jar', live')
    <3>1. Fits(W(f), tab', jar') /\ Fits(n, tab', jar')
      BY <1>1, <1>6, <2>2, <2>6 DEF Fits
    <3> QED
      BY <1>0, <1>1, <1>6, <2>4, <2>6, <2>12, <3>1
  <2>14. WriterOpen' <=> WriterOpen
    BY <1>1, <1>4, <1>6, <2>4, <2>6 DEF WriterOpen, OpenWriter
  <2>15. ~ disturbed' => /\ (WriterOpen' \/ jar'.refresh \in live' \cup {None})
                         /\ jar'.refresh = jar.refresh /\ live \subseteq live'
    BY <1>0, <2>14 DEF Kept
  <2>16. (disturbed => disturbed') /\ jar' = jar
    BY <1>0
  <2> QED
    BY <1>7, <2>2, <2>5, <2>10, <2>11, <2>13, <2>15, <2>16, IInvKept
<1>9. CASE tab.refresh # None
  <2> DEFINE o == tab.refresh
  <2>1. /\ queue' = queue /\ tab' = tab
        /\ req' = [[req EXCEPT ![r] = Done] EXCEPT ![r] = W(tab'.refresh)]
    BY <1>9 DEF NeedsRefresh, W
  <2>2. o \in All /\ req[o].fresh /\ req[o].kind = "refresh" /\ o # r
    BY <1>1, <1>9 DEF TabType, Refreshing, CookieWriters
  <2>3. /\ req' \in [All -> RequestType] /\ req'[r] = W(o)
        /\ \A s \in All \ {r} : req'[s] = req[s]
    BY <1>1, <1>5, <2>1, <2>2, DoneIs
  <2>4. {r} \in SUBSET All /\ (\A s \in All \ {r} : Same(req[s], req'[s])) /\ Rest({r}, req, req')
    BY <2>3, SameIs DEF Rest, Near
  <2>5. Ordered(queue', req') /\ Nobody(tab', req') /\ Refreshing(tab', req')
    <3>1. \A s \in {r} : /\ ~ Writing(req[s]) /\ ~ Writing(req'[s]) /\ ~ Signing(req'[s])
                         /\ ~ OpenWriter(req'[s]) /\ req[s].fresh /\ req'[s].kind = req[s].kind
      BY <1>1, <1>4, <1>5, <1>6, <2>2, <2>3
    <3>2. Ordered(queue, req')
      BY <2>3, <2>4, <3>1, OrderedKept
    <3>3. Nobody(tab, req')
      BY <2>3, <2>4, <3>1, NobodyKept
    <3>4. Refreshing(tab, req')
      BY <2>2, <2>3 DEF Refreshing
    <3> QED
      BY <2>1, <3>2, <3>3, <3>4
  <2>6. Structure'
    <3>1. \A s \in {r} : /\ Shape(s, req'[s]) /\ req[s].phase # "done" /\ ~ req[s].retried
                         /\ req[s].phase # "none"
      BY <1>1, <1>6, <2>2, <2>3
    <3>2. /\ tab' \in TabType /\ queue' \in Seq(All) /\ jar' \in CookiesType /\ live' \subseteq TokenType
          /\ disturbed' \in BOOLEAN /\ kicked' \in BOOLEAN
      BY <1>0, <2>1
    <3> QED
      BY <2>3, <2>4, <2>5, <3>1, <3>2, StructureKept
  <2>7. OneIdentity'
    BY <1>7, <2>1 DEF OneIdentity, TabMatchesJar, CacheIsOfUser
  <2>8. Awaits(W(o), req', disturbed')
    BY <1>5, <2>2, <2>3 DEF Awaits
  <2>9. \A s \in {r} : /\ Fits(req'[s], tab', jar') /\ Awaits(req'[s], req', disturbed')
                       /\ Settles(req[s], req'[s], disturbed') /\ Accepted(req'[s], jar', live')
    BY <1>6, <2>1, <2>2, <2>3, <2>8
  <2>10. WriterOpen' <=> WriterOpen
    BY <1>4, <1>6, <2>2, <2>3 DEF WriterOpen, OpenWriter
  <2>11. ~ disturbed' => /\ (WriterOpen' \/ jar'.refresh \in live' \cup {None})
                         /\ jar'.refresh = jar.refresh /\ live \subseteq live'
    BY <1>0, <2>10 DEF Kept
  <2>12. (disturbed => disturbed') /\ jar' = jar /\ tab'.user = tab.user
    BY <1>0, <2>1
  <2> QED
    BY <1>7, <2>4, <2>6, <2>7, <2>9, <2>11, <2>12, IInvKept
<1> QED
  BY <1>8, <1>9

\* With the answer to a protected request the session ends, or the profile is accepted.
LEMMA EndsWith ==
  ASSUME IInv, NEW r \in All, req[r].kind \in Protected, req[r].fresh,
         req' = Invalidate([req EXCEPT ![r] = Done]),
         tab' \in TabType, tab'.refresh = None, tab'.cache = {}, TabMatchesJar',
         UNCHANGED <<queue, jar, live>>, Noted
  PROVE  IInv'
<1> USE Known
<1>1. /\ req' \in [All -> RequestType] /\ req'[r] = Done
      /\ \A s \in All \ {r} : Aged(req[s], req'[s])
  BY DoneThenAged
<1>2. ~ Writing(req[r]) /\ req[r].phase # "none"
  BY DEF Writing, Shapes, Shape, CookieWriters, Protected, Profiles
<1>3. ~ \E s \in All : Signing(req[s])
  BY NobodySigns
<1>5. UNCHANGED <<queue, jar, live>> /\ Noted
  OBVIOUS
<1>6. \A s \in {r} : ~ Writing(req[s]) /\ req[s].phase # "none" /\ req'[s] = Done
  BY <1>1, <1>2
<1>7. {r} \in SUBSET All
  OBVIOUS
<1> QED
  BY <1>1, <1>3, <1>5, <1>6, <1>7, QuietEnd

\* What the answer to a protected request does to the history of sessions given up.
LEMMA AnswerNoted ==
  ASSUME IInv, NEW r \in All, NEW status, NEW user, ProtectedAnswer(r, status, user)
  PROVE  kicked' \in BOOLEAN
BY Known DEF ProtectedAnswer, ProfileFailed, GiveUp

LEMMA ProtectedAnswerKeeps ==
  ASSUME IInv, NEW r \in All, OpenProtected(req[r]), NEW status \in {"ok", "401", "failed"}, NEW user,
         status = "ok" => user # None /\ user = req[r].cookies.access,
         ProtectedAnswer(r, status, user), UNCHANGED <<jar, live>>, Noted
  PROVE  IInv'
<1> USE Known
<1> DEFINE x == req[r]
           q == [req EXCEPT ![r] = Done]
<1>1. /\ x \in RequestType /\ x.kind \in Protected /\ x.phase = "sent" /\ x.fresh
      /\ tab \in TabType /\ q \in [All -> RequestType] /\ q[r] = Done /\ \A s \in All \ {r} : q[s] = req[s]
  BY DoneIs DEF OpenProtected, Shapes, Shape
<1>2. CacheIsOfUser /\ (status = "ok" => user \in Accounts)
  BY <1>1 DEF RequestType, CookiesType
<1>3. status = "ok" => /\ jar.refresh # None => jar.refresh.user = user
                       /\ x.kind = "get" => tab.user = user
  BY <1>1 DEF RequestsFit, Fits
<1>4. CASE status = "401" /\ ~ x.retried
  BY <1>4, NeedsRefreshKeeps DEF ProtectedAnswer
<1>5. CASE ~ (status = "401" /\ ~ x.retried) /\ x.kind = "get"
  <2>1. /\ tab' = IF status = "ok" THEN [tab EXCEPT !.cache = @ \cup {user}] ELSE tab
        /\ req' = q /\ queue' = queue
    BY <1>5 DEF ProtectedAnswer
  <2>2. /\ tab' \in TabType /\ tab'.user = tab.user /\ tab'.checked = tab.checked
        /\ tab'.refresh = tab.refresh
        /\ tab'.cache = IF status = "ok" THEN tab.cache \cup {user} ELSE tab.cache
    BY <1>1, <1>2, <2>1 DEF TabType
  <2>3. CacheIsOfUser'
    BY <1>2, <1>3, <1>5, <2>2 DEF CacheIsOfUser
  <2>4. req' \in [All -> RequestType] /\ req'[r] = Done /\ \A s \in All \ {r} : req'[s] = req[s]
    BY <1>1, <2>1
  <2>5. UNCHANGED <<queue, jar, live>> /\ Noted
    BY <2>1
  <2> QED
    BY <1>1, <2>2, <2>3, <2>4, <2>5, ProtectedDone
<1>6. CASE /\ ~ (status = "401" /\ ~ x.retried) /\ x.kind # "get"
           /\ \/ status = "ok" /\ ~ x.latest
              \/ status # "ok" /\ ~ (x.latest /\ (x.kind = "bootstrap" \/ status = "401"))
  <2>1. tab' = tab /\ req' = q /\ queue' = queue
    BY <1>6 DEF ProtectedAnswer, ProfileFailed
  <2>2. req' \in [All -> RequestType] /\ req'[r] = Done /\ \A s \in All \ {r} : req'[s] = req[s]
    BY <1>1, <2>1
  <2>3. UNCHANGED <<queue, jar, live>> /\ Noted /\ tab' = tab /\ CacheIsOfUser'
    BY <1>2, <2>1 DEF CacheIsOfUser
  <2> QED
    BY <1>1, <2>2, <2>3, ProtectedDone
<1>7. CASE /\ ~ (status = "401" /\ ~ x.retried) /\ x.kind # "get"
           /\ \/ status = "ok" /\ x.latest
              \/ status # "ok" /\ x.latest /\ (x.kind = "bootstrap" \/ status = "401")
  <2>1. /\ req' = Invalidate(q) /\ queue' = queue
        /\ tab' = EndSession(tab, FALSE) \/ (status = "ok" /\ tab' = AcceptProfile(tab, user))
    BY <1>7 DEF ProtectedAnswer, ProfileFailed
  <2>2. /\ tab' \in TabType /\ tab'.refresh = None /\ tab'.cache = {}
        /\ tab'.user = None \/ (status = "ok" /\ tab'.user = user)
    <3>1. CASE tab' = EndSession(tab, FALSE)
      BY <1>1, <3>1, EndIs
    <3>2. CASE status = "ok" /\ tab' = AcceptProfile(tab, user)
      BY <1>1, <1>2, <3>2, AcceptIs
    <3> QED
      BY <2>1, <3>1, <3>2
  <2>4. TabMatchesJar'
    BY <1>3, <2>2 DEF TabMatchesJar
  <2>3. UNCHANGED <<queue, jar, live>> /\ Noted
    BY <2>1
  <2> QED
    BY <1>1, <2>1, <2>2, <2>3, <2>4, EndsWith
<1> QED
  BY <1>4, <1>5, <1>6, <1>7

LEMMA ArriveProtectedKeeps ==
  ASSUME IInv, NEW r \in All, ArriveProtected(r)
  PROVE  IInv'
<1>1. Shape(r, req[r])
  BY Known DEF Shapes
<1>2. OpenProtected(req[r]) /\ UNCHANGED <<jar, live>> /\ Noted
  BY Known, AnswerNoted DEF ArriveProtected, OpenProtected, Noted
<1>3. CASE req[r].cookies.access = None
  <2>1. ProtectedAnswer(r, "401", None)
    BY <1>3 DEF ArriveProtected
  <2> QED
    BY <1>2, <2>1, ProtectedAnswerKeeps
<1>4. CASE req[r].cookies.access # None
  <2>1. ProtectedAnswer(r, "ok", req[r].cookies.access)
    BY <1>4 DEF ArriveProtected
  <2> QED
    BY <1>2, <1>4, <2>1, ProtectedAnswerKeeps
<1> QED
  BY <1>3, <1>4
----
(* The answer to a cookie writer.  *)

\* What a request is whose page was left.
LEMMA LeftShape ==
  ASSUME NEW r \in All, NEW x \in RequestType, NEW y \in RequestType, Shape(r, x), Left(x, y)
  PROVE  Shape(r, y)
BY DEF Shape, Left, OpenProtected, CookieWriters, Protected, Profiles

\* A cookie writer that has been sent is the first of the queue, and so is the one that was served.
LEMMA OpenWriterIs ==
  ASSUME IInv, NEW r \in All, req[r].kind \in CookieWriters, Open(req[r])
  PROVE  /\ Writing(req[r]) /\ OpenWriter(req[r]) /\ queue # <<>> /\ Head(queue) = r
         /\ Without(r) = Tail(queue) /\ Shape(r, req[r]) /\ req[r] \in RequestType
         /\ req[r].phase \in {"sent", "served"}
         /\ \A s \in All \ {r} : ~ OpenWriter(req[s])
<1>1. Writing(req[r]) /\ OpenWriter(req[r]) /\ req[r].phase \in {"sent", "served"}
  BY DEF Writing, OpenWriter, Open
<1>2. queue # <<>> /\ Head(queue) = r
  BY <1>1, Known DEF Ordered
<1> QED
  BY <1>1, <1>2, Known, OneAtATime DEF Without, Shapes

\* The cookies that the answer to r leaves in the browser.
NewJar(r) == IF req[r].answer.cookies = None THEN jar ELSE req[r].answer.cookies

LEMMA NewJarIs ==
  ASSUME IInv, NEW r \in All, req[r].phase = "served", jar' = NewJar(r)
  PROVE  /\ req[r].kind \in CookieWriters /\ req[r].answer \in AnswerType
         /\ jar' \in CookiesType /\ SoundCookies(jar')
         /\ req[r].kind # "login" => OfUser(jar', jar)
         /\ req[r].kind = "login" /\ req[r].answer.status = "ok" =>
              /\ req[r].answer.user \in Accounts
              /\ jar'.refresh # None => jar'.refresh.user = req[r].answer.user
         /\ ~ disturbed => /\ jar'.refresh \in live \cup {None}
                           /\ req[r].kind = "refresh" =>
                                \/ req[r].answer.status = "ok"
                                \/ req[r].answer.status = "401" /\ jar.refresh \notin live
<1> USE Known
<1> DEFINE x == req[r]
           a == req[r].answer
<1>1. x \in RequestType /\ Shape(r, x) /\ Fits(x, tab, jar) /\ SoundCookies(jar)
  BY DEF Shapes, RequestsFit
<1>2. x.kind \in CookieWriters /\ a \in AnswerType
  BY <1>1 DEF Shape, RequestType
<1>3. a.cookies # None => /\ a.cookies \in CookiesType /\ SoundCookies(a.cookies)
                          /\ x.kind = "refresh" => OfUser(a.cookies, jar)
                          /\ x.kind = "logout" => a.cookies = NoCookies
  BY <1>1, <1>2 DEF Fits, AnswerType
<1>4. jar' \in CookiesType /\ SoundCookies(jar')
  BY <1>1, <1>3 DEF NewJar
<1>5. x.kind # "login" => OfUser(jar', jar)
  BY <1>2, <1>3 DEF NewJar, OfUser, CookieWriters, NoCookies
<1>6. ASSUME x.kind = "login", a.status = "ok"
      PROVE  a.user \in Accounts /\ (jar'.refresh # None => jar'.refresh.user = a.user)
  <2>1. a.cookies # None /\ a.cookies.refresh # None /\ a.cookies.refresh.user = a.user
    BY <1>1, <1>6 DEF Fits
  <2>2. a.cookies.refresh \in TokenType
    BY <1>3, <2>1 DEF CookiesType
  <2> QED
    BY <2>1, <2>2 DEF NewJar, TokenType
<1>7. ASSUME ~ disturbed
      PROVE  /\ jar'.refresh \in live \cup {None}
             /\ x.kind = "refresh" => a.status = "ok" \/ (a.status = "401" /\ jar.refresh \notin live)
  <2>1. Accepted(x, jar, live)
    BY <1>7 DEF Kept, Carried
  <2>2. OpenWriter(x)
    BY <1>2 DEF OpenWriter, Open
  <2>3. /\ IF a.cookies = None THEN jar.refresh \in live \cup {None}
           ELSE a.cookies.refresh \in live \cup {None}
        /\ x.kind = "refresh" => a.status = "ok" \/ (a.status = "401" /\ jar.refresh = None)
    BY <2>1, <2>2 DEF Accepted
  <2> QED
    BY <2>3, NoneAssumption DEF NewJar
<1> QED
  BY <1>2, <1>4, <1>5, <1>6, <1>7

\* Cookies that belong to the user of the old ones leave store and browser of one user; the answer
\* to a login finds nobody in the store.
LEMMA NewJarMatches ==
  ASSUME IInv, NEW r \in All, req[r].phase = "served", jar' = NewJar(r),
         tab' \in TabType, tab'.user = tab.user, tab'.cache = tab.cache
  PROVE  /\ OneIdentity'
         /\ OfUser(jar', jar) \/ \A s \in All \ {r} : ~ OpenProtected(req[s])
<1> USE Known
<1>1. /\ req[r].kind \in CookieWriters /\ (req[r].kind # "login" => OfUser(jar', jar))
  BY NewJarIs
<1>2. CASE req[r].kind = "login"
  <2>1. Signing(req[r])
    BY <1>2 DEF Signing
  <2>2. tab.user = None /\ \A s \in All : req[s].fresh => req[s].kind \in {"login", "logout"}
    BY <2>1 DEF Nobody
  <2>3. \A s \in All : ~ OpenProtected(req[s])
    BY <2>2 DEF Shapes, Shape, OpenProtected, Protected, Profiles
  <2> QED
    BY <2>2, <2>3 DEF OneIdentity, TabMatchesJar, CacheIsOfUser
<1>3. CASE req[r].kind # "login"
  BY <1>1, <1>3 DEF OneIdentity, TabMatchesJar, CacheIsOfUser, OfUser
<1> QED
  BY <1>2, <1>3

\* The page is left because the session has expired.
LEMMA ExpiresAway ==
  ASSUME IInv, NEW r \in All, req[r].phase # "none",
         tab' = NewTab("public"), req' = Abandon([req EXCEPT ![r] = Done]), queue' = <<>>,
         jar' \in CookiesType, SoundCookies(jar'), live' = live, disturbed' = disturbed, kicked' \in BOOLEAN,
         ~ disturbed => /\ jar'.refresh \in live \cup {None}
                        /\ \A s \in All \ {r} : ~ OpenWriter(req[s])
  PROVE  IInv'
<1> DEFINE q == [req EXCEPT ![r] = Done]
<1>1. /\ q \in [All -> RequestType] /\ Shapes(q)
      /\ q[r] = Done /\ \A s \in All \ {r} : q[s] = req[s]
  BY Known, DoneThenAged, DoneIs
<1> HIDE DEF q
<1>2. req' \in [All -> RequestType] /\ \A s \in All : Left(q[s], req'[s])
  BY <1>1, Abandoned DEF q
<1>3. \A s \in All : Left(req[s], req'[s])
  <2>1. Left(req[r], req'[r])
    BY <1>1, <1>2, DoneIs DEF Left
  <2> QED
    BY <1>1, <1>2, <2>1
<1>4. tab' \in TabType /\ tab'.user = None /\ tab'.refresh = None /\ tab'.cache = {}
  BY NewTabIs
<1>5. ASSUME ~ disturbed' PROVE \A s \in All : req'[s].phase # "orphan"
  <2>1. \A s \in All \ {r} : q[s].phase # "orphan" /\ ~ OpenWriter(q[s])
    BY <1>1, <1>5, Known DEF Kept, Carried, Accepted
  <2>2. q[r].phase # "orphan" /\ ~ OpenWriter(q[r])
    BY <1>1, DoneIs DEF OpenWriter, Open
  <2> QED
    BY <1>2, <2>1, <2>2 DEF Left, OpenWriter, Open
<1>6. disturbed' \in BOOLEAN
  BY Known
<1> QED
  BY <1>2, <1>3, <1>4, <1>5, <1>6, PageLeft

\* The session ends, or another begins, with the answer to a cookie writer.
LEMMA WriterEndsSession ==
  ASSUME IInv, NEW r \in All, Writing(req[r]), queue # <<>>, Head(queue) = r,
         req' \in [All -> RequestType], req'[r] = Done, \A s \in All \ {r} : Aged(req[s], req'[s]),
         tab' \in TabType, tab'.refresh = None, tab'.cache = {}, TabMatchesJar',
         (tab'.user = None /\ tab'.checked) \/ (Signing(req[r]) /\ req[r].fresh),
         queue' = Tail(queue), jar' \in CookiesType, SoundCookies(jar'),
         live' = live, disturbed' = disturbed, kicked' \in BOOLEAN,
         ~ disturbed => jar'.refresh \in live \cup {None}
  PROVE  IInv'
<1> USE Known
<1>1. /\ req' \in [All -> RequestType] /\ req'[r] = Done
      /\ \A s \in All \ {r} : Aged(req[s], req'[s])
  OBVIOUS
<1>2. Rest({r}, req, req') /\ {r} \in SUBSET All
  BY <1>1 DEF Rest, Near
<1>3. ~ Writing(Done) /\ ~ Signing(Done) /\ req[r].phase # "none"
  BY DoneIs DEF Writing, Signing
<1>4. Ordered(queue', req') /\ queue' \in Seq(All)
  <2>1. Ordered(Tail(queue), req') /\ Tail(queue) \in Seq(All)
    BY <1>1, <1>2, <1>3, OrderedTail
  <2> QED
    BY <2>1
<1>5. Nobody(tab', req')
  <2>1. \A s \in All : ~ req'[s].fresh
    BY <1>1, DoneIs DEF Aged
  <2>2. ASSUME Signing(req[r]), req[r].fresh, NEW s \in All \ {r} PROVE ~ Writing(req[s])
    <3>1. queue[Len(queue)] = r /\ queue[1] = r /\ Len(queue) \in Nat \ {0}
      BY <2>2 DEF Ordered
    <3>2. \A i, j \in 1 .. Len(queue) : queue[i] = queue[j] => i = j
      BY DEF Ordered
    <3>3. 1 \in 1 .. Len(queue) /\ Len(queue) \in 1 .. Len(queue)
      BY <3>1
    <3>4. Len(queue) = 1
      BY <3>1, <3>2, <3>3, Zenon
    <3> QED
      BY <3>1, <3>4 DEF Ordered
  <2>3. CASE Signing(req[r]) /\ req[r].fresh
    <3>1. \A s \in All \ {r} : ~ Writing(req'[s])
      BY <1>2, <2>2, <2>3, NearKeeps DEF Rest
    <3>2. \A s \in All : ~ Signing(req'[s])
      BY <1>1, <1>3, <3>1 DEF Signing, Writing, CookieWriters
    <3> QED
      BY <3>2 DEF Nobody
  <2>4. CASE tab'.user = None /\ tab'.checked
    BY <2>1, <2>4 DEF Nobody
  <2> QED
    BY <2>3, <2>4
<1>6. \A s \in All \ {r} : ~ OpenWriter(req'[s])
  BY <1>2, OneAtATime, NearKeeps DEF Rest
<1>7. \A s \in {r} : req[s].phase # "none" /\ req'[s] = Done
  BY <1>1, <1>3
<1> QED
  BY <1>1, <1>2, <1>4, <1>5, <1>6, <1>7, SessionEnds

\* Done, with how a refresh has ended.
LEMMA DoneWith ==
  ASSUME NEW r \in All, NEW s \in {"ok", "401", "403", "500", "failed"},
         NEW x \in {Done} \cup RequestType, x.phase \in {"done", "orphan"}, ~ x.fresh, Shape(r, x)
  PROVE  LET y == [x EXCEPT !.answer = Answer(s, None, None)] IN
         /\ y \in RequestType /\ y.phase = x.phase /\ ~ y.fresh /\ y.kind = x.kind
         /\ y.answer # None /\ y.answer.status = s /\ Shape(r, y)
<1> DEFINE a == Answer(s, None, None)
           y == [x EXCEPT !.answer = a]
<1>1. a \in AnswerType /\ a.status = s /\ a # None
  BY NoneAssumption DEF Answer, AnswerType
<1> HIDE DEF a
<1>2. x \in RequestType
  BY DoneIs
<1>3. /\ y \in RequestType /\ y.phase = x.phase /\ y.fresh = x.fresh /\ y.kind = x.kind /\ y.answer = a
      /\ y.retried = x.retried /\ y.user = x.user /\ y.on = x.on
  BY <1>1, <1>2 DEF RequestType
<1>4. Shape(r, y)
  BY <1>3 DEF Shape, OpenProtected
<1> QED
  BY <1>1, <1>3, <1>4 DEF a

LEMMA DoneShape == \A r \in All : Shape(r, Done)
BY DoneIs DEF Shape, CookieWriters, Protected, Profiles, OpenProtected

LEMMA ArriveKeeps ==
  ASSUME IInv, NEW r \in All, Arrive(r)
  PROVE  IInv'
<1> USE Known
<1> DEFINE x == req[r]
           a == req[r].answer
           q == [req EXCEPT ![r] = Done]
           settled == [tab EXCEPT !.refresh = IF @ = r THEN None ELSE @]
<1>0. /\ x.phase = "served" /\ jar' = NewJar(r) /\ live' = live /\ disturbed' = disturbed
      /\ kicked' = (kicked \/ (x.fresh /\ x.kind = "refresh" /\ a.status \in {"401", "403"} /\ jar.refresh \in live))
  BY DEF Arrive, NewJar
<1>1. /\ x.kind \in CookieWriters /\ a \in AnswerType /\ x \in RequestType
      /\ jar' \in CookiesType /\ SoundCookies(jar')
  BY <1>0, NewJarIs
<1>2. /\ Writing(x) /\ OpenWriter(x) /\ queue # <<>> /\ Head(queue) = r
      /\ Without(r) = Tail(queue) /\ x.phase = "served"
      /\ \A s \in All \ {r} : ~ OpenWriter(req[s])
  BY <1>0, <1>1, OpenWriterIs DEF Open
<1>3. /\ kicked' \in BOOLEAN /\ disturbed' \in BOOLEAN /\ (disturbed => disturbed')
      /\ ~ disturbed => jar'.refresh \in live \cup {None}
  BY <1>0, NewJarIs
<1>4. /\ q \in [All -> RequestType] /\ q[r] = Done /\ \A s \in All \ {r} : q[s] = req[s]
  BY DoneIs
<1>5. /\ settled \in TabType /\ settled.user = tab.user /\ settled.checked = tab.checked
      /\ settled.refresh \in {None, tab.refresh} /\ settled.refresh # r /\ settled.cache = tab.cache
      /\ settled.page = tab.page
  BY Nulls DEF TabType
<1>6. tab.refresh = r => x.fresh /\ x.kind = "refresh"
  BY Nulls DEF Refreshing
<1>7. x.phase \notin {"done", "orphan"} /\ Done.phase = "done" /\ ~ Done.fresh /\ Shape(r, Done)
  BY <1>2, DoneIs, DoneShape
<1> HIDE DEF settled
<1>8. CASE ~ x.fresh
  <2>1. req' = q /\ queue' = Tail(queue) /\ tab' = tab
    BY <1>2, <1>8 DEF Arrive
  <2>2. /\ req' \in [All -> RequestType] /\ req'[r] = Done /\ \A s \in All \ {r} : req'[s] = req[s]
    BY <1>4, <2>1
  <2>3. OneIdentity' /\ (OfUser(jar', jar) \/ \A s \in All \ {r} : ~ OpenProtected(req[s]))
    BY <1>0, <2>1, NewJarMatches
  <2>4. Settles(x, req'[r], disturbed')
    BY <1>7, <1>8, <2>2 DEF Settles
  <2>5. tab' = tab /\ tab.refresh # r /\ queue' = Tail(queue)
    BY <1>6, <1>8, <2>1
  <2>6. req'[r].phase = "done" /\ ~ req'[r].fresh /\ Shape(r, req'[r])
    BY <1>7, <2>2
  <2> QED
    BY <1>0, <1>1, <1>2, <1>3, <2>2, <2>3, <2>4, <2>5, <2>6, WriterEnds
<1>9. CASE x.fresh /\ x.kind = "login" /\ a.status = "ok"
  <2>1. tab' = AcceptProfile(tab, a.user) /\ req' = Invalidate(q) /\ queue' = Tail(queue)
    BY <1>2, <1>9 DEF Arrive, WriterAnswer, settled
  <2>2. a.user \in Accounts /\ (jar'.refresh # None => jar'.refresh.user = a.user)
    BY <1>0, <1>9, NewJarIs
  <2>3. tab' \in TabType /\ tab'.user = a.user /\ tab'.refresh = None /\ tab'.cache = {}
    BY <2>1, <2>2, AcceptIs
  <2>4. TabMatchesJar'
    BY <2>2, <2>3 DEF TabMatchesJar
  <2>5. Signing(x) /\ x.fresh
    BY <1>2, <1>9 DEF Signing
  <2>6. /\ req' \in [All -> RequestType] /\ req'[r] = Done
        /\ \A s \in All \ {r} : Aged(req[s], req'[s])
    BY <2>1, DoneThenAged
  <2>7. queue' = Tail(queue)
    BY <2>1
  <2> QED
    BY <1>0, <1>1, <1>2, <1>3, <2>3, <2>4, <2>5, <2>6, <2>7, WriterEndsSession
<1>10. CASE x.fresh /\ x.kind # "refresh" /\ ~ (x.kind = "login" /\ a.status = "ok")
  <2>1. tab' = [tab EXCEPT !.loading = FALSE] /\ req' = q /\ queue' = Tail(queue)
    BY <1>2, <1>10 DEF Arrive, WriterAnswer, settled
  <2>2. /\ req' \in [All -> RequestType] /\ req'[r] = Done /\ \A s \in All \ {r} : req'[s] = req[s]
    BY <1>4, <2>1
  <2>3. /\ tab' \in TabType /\ tab'.user = tab.user /\ tab'.checked = tab.checked
        /\ tab'.refresh = tab.refresh /\ tab'.cache = tab.cache /\ queue' = Tail(queue)
    BY <2>1 DEF TabType
  <2>4. OneIdentity' /\ (OfUser(jar', jar) \/ \A s \in All \ {r} : ~ OpenProtected(req[s]))
    BY <1>0, <2>3, NewJarMatches
  <2>5. Settles(x, req'[r], disturbed')
    BY <1>7, <1>10, <2>2 DEF Settles
  <2>6. tab.refresh # r
    BY <1>6, <1>10
  <2>7. req'[r].phase = "done" /\ ~ req'[r].fresh /\ Shape(r, req'[r])
    BY <1>7, <2>2
  <2> QED
    BY <1>0, <1>1, <1>2, <1>3, <2>2, <2>3, <2>4, <2>5, <2>6, <2>7, WriterEnds
<1>11. CASE x.fresh /\ x.kind = "refresh" /\ a.status = "401" /\ tab.page = "public"
  <2>1. tab' = EndSession(settled, FALSE) /\ req' = Invalidate(q) /\ queue' = Tail(queue)
    BY <1>2, <1>5, <1>11 DEF Arrive, WriterAnswer, Expire, settled
  <2>2. tab' \in TabType /\ tab'.user = None /\ tab'.checked /\ tab'.refresh = None /\ tab'.cache = {}
    BY <1>5, <2>1, EndIs
  <2>3. TabMatchesJar'
    BY <2>2 DEF TabMatchesJar
  <2>4. /\ req' \in [All -> RequestType] /\ req'[r] = Done
        /\ \A s \in All \ {r} : Aged(req[s], req'[s])
    BY <2>1, DoneThenAged
  <2>5. queue' = Tail(queue)
    BY <2>1
  <2> QED
    BY <1>0, <1>1, <1>2, <1>3, <2>2, <2>3, <2>4, <2>5, WriterEndsSession
<1>12. CASE x.fresh /\ x.kind = "refresh" /\ a.status = "401" /\ tab.page # "public"
  <2>1. tab' = NewTab("public") /\ req' = Abandon(q) /\ queue' = <<>>
    BY <1>5, <1>12 DEF Arrive, WriterAnswer, Expire, settled
  <2>2. x.phase # "none"
    BY <1>2
  <2> QED
    BY <1>0, <1>1, <1>2, <1>3, <2>1, <2>2, ExpiresAway
<1>13. CASE x.fresh /\ x.kind = "refresh" /\ a.status # "401"
  <2> DEFINE y == [Done EXCEPT !.answer = Answer(a.status, None, None)]
  <2>1. tab' = settled /\ req' = [q EXCEPT ![r] = y] /\ queue' = Tail(queue)
    BY <1>2, <1>4, <1>13 DEF Arrive, WriterAnswer, settled
  <2>2. a.status \in {"ok", "401", "403", "500", "failed"}
    BY <1>1 DEF AnswerType
  <2>3. /\ y \in RequestType /\ y.phase = "done" /\ ~ y.fresh /\ y.answer # None
        /\ y.answer.status = a.status /\ Shape(r, y)
    BY <1>7, <2>2, DoneWith
  <2> HIDE DEF y
  <2>4. /\ req' \in [All -> RequestType] /\ req'[r] = y /\ \A s \in All \ {r} : req'[s] = req[s]
    BY <1>4, <2>1, <2>3
  <2>5. /\ tab' \in TabType /\ tab'.user = tab.user /\ tab'.checked = tab.checked
        /\ tab'.refresh \in {None, tab.refresh} /\ tab'.refresh # r /\ tab'.cache = tab.cache
        /\ queue' = Tail(queue)
    BY <1>5, <2>1
  <2>6. OneIdentity' /\ (OfUser(jar', jar) \/ \A s \in All \ {r} : ~ OpenProtected(req[s]))
    BY <1>0, <2>5, NewJarMatches
  <2>7. Settles(x, y, disturbed')
    <3>1. ~ disturbed => a.status = "ok"
      BY <1>0, <1>13, NewJarIs
    <3> QED
      BY <1>0, <1>7, <2>3, <3>1 DEF Settles
  <2>8. Settles(x, req'[r], disturbed') /\ req'[r].phase = "done" /\ ~ req'[r].fresh /\ Shape(r, req'[r])
    BY <2>3, <2>4, <2>7
  <2> QED
    BY <1>0, <1>1, <1>2, <1>3, <2>4, <2>5, <2>6, <2>8, WriterEnds
<1> QED
  BY <1>8, <1>9, <1>10, <1>11, <1>12, <1>13
----
(* A connection fails, a wait ends.  *)

\* How a cookie writer is lost: the server may still be at work on it, or it is done.
Lost(r) == [q \in All |-> IF q = r THEN Abandon(req)[r] ELSE req[q]]

LEMMA LostIs ==
  ASSUME IInv, NEW r \in All, req[r].kind \in CookieWriters, Open(req[r])
  PROVE  /\ Lost(r) \in [All -> RequestType]
         /\ \A s \in All \ {r} : Lost(r)[s] = req[s]
         /\ Lost(r)[r].phase \in {"done", "orphan"} /\ ~ Lost(r)[r].fresh /\ Shape(r, Lost(r)[r])
<1>1. /\ req \in [All -> RequestType] /\ Shapes(req) /\ Shape(r, req[r]) /\ req[r] \in RequestType
      /\ req[r].phase \in {"sent", "served"}
  BY Known, OpenWriterIs
<1>2. Abandon(req) \in [All -> RequestType] /\ Left(req[r], Abandon(req)[r])
  BY <1>1, Abandoned
<1>3. Abandon(req)[r].phase \in {"done", "orphan"} /\ ~ Abandon(req)[r].fresh
  BY <1>1, <1>2 DEF Left
<1>4. Shape(r, Abandon(req)[r])
  BY <1>1, <1>2, LeftShape
<1> QED
  BY <1>1, <1>2, <1>3, <1>4 DEF Lost

LEMMA FailKeeps ==
  ASSUME IInv, NEW r \in All, Fail(r)
  PROVE  IInv'
<1> USE Known
<1> DEFINE x == req[r]
<1>0. /\ Open(x) /\ Disturb(x.kind \in CookieWriters \cup {"bootstrap"}) /\ UNCHANGED <<jar, live>>
      /\ Shape(r, x) /\ x \in RequestType
  BY DEF Fail, Shapes
<1>1. CASE x.kind \in Protected
  <2>1. x.fresh /\ x.kind \notin CookieWriters /\ OpenProtected(x)
    BY <1>0, <1>1 DEF Shape, OpenProtected, Open, CookieWriters, Protected, Profiles
  <2>2. ProtectedAnswer(r, "failed", None)
    BY <1>1, <2>1 DEF Fail, CookieWriters
  <2>3. UNCHANGED <<jar, live>> /\ Noted
    <3>1. (x.kind \in CookieWriters \cup {"bootstrap"}) \in BOOLEAN
      OBVIOUS
    <3>2. disturbed' \in BOOLEAN /\ (disturbed => disturbed')
      BY <1>0, <3>1, DisturbIs
    <3>3. kicked' \in BOOLEAN
      BY <2>2, AnswerNoted
    <3> QED
      BY <1>0, <3>2, <3>3 DEF Noted
  <2> QED
    BY <2>1, <2>2, <2>3, ProtectedAnswerKeeps
<1>2. CASE x.kind \in CookieWriters
  <2>1. /\ Writing(x) /\ queue # <<>> /\ Head(queue) = r /\ Without(r) = Tail(queue)
        /\ x.phase \in {"sent", "served"}
    BY <1>0, <1>2, OpenWriterIs
  <2>2. disturbed' \in BOOLEAN /\ disturbed' /\ jar' = jar /\ live' = live /\ kicked' = kicked
    BY <1>0, <1>2, DisturbIs DEF Fail, CookieWriters
  <2>3. SoundCookies(jar') /\ OfUser(jar', jar) /\ jar' \in CookiesType /\ kicked' \in BOOLEAN
    BY <2>2 DEF OfUser, RequestsFit
  <2>4. /\ Lost(r) \in [All -> RequestType]
        /\ \A s \in All \ {r} : Lost(r)[s] = req[s]
        /\ Lost(r)[r].phase \in {"done", "orphan"} /\ ~ Lost(r)[r].fresh /\ Shape(r, Lost(r)[r])
    BY <1>0, <1>2, LostIs
  <2>5. tab.refresh = r => x.fresh /\ x.kind = "refresh"
    BY Nulls DEF Refreshing
  <2>6. ASSUME tab' \in TabType, tab'.user = tab.user, tab'.cache = tab.cache PROVE OneIdentity'
    BY <2>2, <2>6 DEF OneIdentity, TabMatchesJar, CacheIsOfUser
  <2>7. ASSUME req'[r].phase \in {"done", "orphan"} PROVE Settles(x, req'[r], disturbed')
    BY <2>1, <2>2, <2>7 DEF Settles
  <2>8. CASE ~ (x.fresh /\ x.kind = "refresh")
    <3>1. req' = Lost(r) /\ queue' = Tail(queue) /\ (tab' = tab \/ tab' = [tab EXCEPT !.loading = FALSE])
      BY <1>2, <2>1, <2>8 DEF Fail, Lost
    <3>2. /\ tab' \in TabType /\ tab'.user = tab.user /\ tab'.checked = tab.checked
          /\ tab'.refresh = tab.refresh /\ tab'.cache = tab.cache /\ queue' = Tail(queue)
      BY <3>1 DEF TabType
    <3>3. /\ req' \in [All -> RequestType] /\ \A s \in All \ {r} : req'[s] = req[s]
          /\ req'[r].phase \in {"done", "orphan"} /\ ~ req'[r].fresh /\ Shape(r, req'[r])
      BY <2>4, <3>1
    <3>4. OneIdentity' /\ Settles(x, req'[r], disturbed') /\ tab.refresh # r
      BY <2>5, <2>6, <2>7, <2>8, <3>2, <3>3
    <3> QED
      BY <2>1, <2>2, <2>3, <3>2, <3>3, <3>4, WriterEnds
  <2>9. CASE x.fresh /\ x.kind = "refresh"
    <3> DEFINE y == [Lost(r)[r] EXCEPT !.answer = Answer("failed", None, None)]
    <3>1. /\ req' = [Lost(r) EXCEPT ![r] = y] /\ queue' = Tail(queue)
          /\ tab' = [tab EXCEPT !.refresh = IF @ = r THEN None ELSE @]
      BY <2>1, <2>4, <2>9 DEF Fail, Lost
    <3>2. /\ tab' \in TabType /\ tab'.user = tab.user /\ tab'.checked = tab.checked
          /\ tab'.refresh \in {None, tab.refresh} /\ tab'.refresh # r /\ tab'.cache = tab.cache
          /\ queue' = Tail(queue)
      BY <3>1, Nulls DEF TabType
    <3>3. y \in RequestType /\ y.phase \in {"done", "orphan"} /\ ~ y.fresh /\ Shape(r, y)
      BY <2>4, DoneWith
    <3> HIDE DEF y
    <3>4. /\ req' \in [All -> RequestType] /\ \A s \in All \ {r} : req'[s] = req[s]
          /\ req'[r].phase \in {"done", "orphan"} /\ ~ req'[r].fresh /\ Shape(r, req'[r])
      BY <2>4, <3>1, <3>3
    <3>5. OneIdentity' /\ Settles(x, req'[r], disturbed')
      BY <2>6, <2>7, <3>2, <3>4
    <3> QED
      BY <2>1, <2>2, <2>3, <3>2, <3>4, <3>5, WriterEnds
  <2> QED
    BY <2>8, <2>9
<1> QED
  BY <1>0, <1>1, <1>2 DEF Shape, RequestType, Open

\* The cookies of this moment are sent with a request that is made again.
LEMMA AgainIs ==
  ASSUME NEW x \in RequestType, jar \in CookiesType
  PROVE  LET y == [x EXCEPT !.phase = "sent", !.cookies = jar, !.on = None] IN
         /\ y \in RequestType /\ y.kind = x.kind /\ y.fresh = x.fresh /\ y.retried = x.retried
         /\ y.phase = "sent" /\ y.cookies = jar
BY DEF RequestType

LEMMA ResumeKeeps ==
  ASSUME IInv, NEW r \in All, Resume(r)
  PROVE  IInv'
<1> USE Known
<1> DEFINE x == req[r]
           q == [req EXCEPT ![r] = Done]
<1>0. /\ x.phase = "waiting" /\ req[x.on].phase \in {"done", "orphan"}
      /\ UNCHANGED <<jar, live>> /\ Noted /\ Shape(r, x) /\ x \in RequestType
  <2>1. kicked' \in BOOLEAN
    BY DEF Resume, GiveUp
  <2> QED
    BY <2>1 DEF Resume, Refreshed, Noted, Shapes
<1>1. x.kind \in Protected /\ x.on \in All /\ r \in Made
  BY <1>0 DEF Shape
<1>2. CASE ~ x.fresh
  <2>1. req' = q /\ tab' = tab /\ queue' = queue
    BY <1>2 DEF Resume
  <2>2. req' \in [All -> RequestType] /\ req'[r] = Done /\ \A s \in All \ {r} : req'[s] = req[s]
    BY <2>1, DoneIs
  <2>3. UNCHANGED <<queue, jar, live>> /\ Noted /\ tab' = tab /\ CacheIsOfUser'
    BY <1>0, <2>1 DEF CacheIsOfUser
  <2> QED
    BY <1>1, <2>2, <2>3, ProtectedDone
<1>3. CASE x.fresh /\ req[x.on].answer.status = "ok"
  <2> DEFINE y == [x EXCEPT !.phase = "sent", !.cookies = jar, !.on = None]
  <2>1. /\ req' = [req EXCEPT ![r].phase = "sent", ![r].cookies = jar, ![r].on = None]
        /\ tab' = tab /\ queue' = queue
    BY <1>3 DEF Resume
  <2>2. /\ y \in RequestType /\ y.kind = x.kind /\ y.fresh = x.fresh /\ y.retried = x.retried
        /\ y.phase = "sent" /\ y.cookies = jar
    BY <1>0, AgainIs
  <2>3. req' = [req EXCEPT ![r] = y]
    BY <2>1
  <2> HIDE DEF y
  <2>4. /\ req' \in [All -> RequestType] /\ req'[r] = y /\ \A s \in All \ {r} : Same(req[s], req'[s])
    BY <2>2, <2>3, SameIs
  <2>5. /\ req'[r].kind \in Protected /\ req'[r].fresh /\ req'[r].phase = "sent" /\ req'[r].cookies = jar
        /\ (req[r].retried => req'[r].retried) /\ (req'[r].kind = "get" => tab.user # None)
    BY <1>1, <1>3, <2>2, <2>4 DEF RequestsFit, Fits
  <2>6. UNCHANGED <<queue, jar, live>> /\ Noted /\ tab' = tab
        /\ ~ \E s \in All : Signing(req[s])
    BY <1>0, <1>1, <1>3, <2>1, NobodySigns
  <2> QED
    BY <1>0, <1>1, <2>4, <2>5, <2>6, SentKeeps
<1>4. CASE x.fresh /\ req[x.on].answer.status # "ok" /\ tab.page = "public"
  <2>1. tab' = EndSession(tab, FALSE) /\ req' = Invalidate(q) /\ queue' = queue
    BY <1>4 DEF Resume, Expire
  <2>2. tab' \in TabType /\ tab'.user = None /\ tab'.refresh = None /\ tab'.cache = {}
    BY <2>1, EndIs
  <2>3. TabMatchesJar' /\ UNCHANGED <<queue, jar, live>> /\ Noted
    BY <1>0, <2>1, <2>2 DEF TabMatchesJar
  <2> QED
    BY <1>1, <1>4, <2>1, <2>2, <2>3, EndsWith
<1>5. CASE x.fresh /\ req[x.on].answer.status # "ok" /\ tab.page # "public"
  <2>1. tab' = NewTab("public") /\ req' = Abandon(q) /\ queue' = <<>>
    BY <1>5 DEF Resume, Expire
  <2>2. disturbed
    <3>1. Awaits(x, req, disturbed) /\ Shape(x.on, req[x.on])
      BY <1>1 DEF AllAwait, Shapes
    <3>2. ~ req[x.on].fresh
      BY <1>0, <3>1 DEF Shape
    <3> QED
      BY <1>0, <1>5, <3>1, <3>2 DEF Awaits
  <2>3. /\ jar' \in CookiesType /\ SoundCookies(jar') /\ live' = live /\ disturbed' = disturbed
        /\ kicked' \in BOOLEAN /\ x.phase # "none"
    BY <1>0 DEF RequestsFit, Noted, Resume
  <2> QED
    BY <2>1, <2>2, <2>3, ExpiresAway
<1> QED
  BY <1>2, <1>3, <1>4, <1>5
----
(* What happens elsewhere, and how a tab is opened.  *)

LEMMA ElsewhereKeeps ==
  ASSUME IInv, UNCHANGED <<tab, req, queue>>,
         jar' \in CookiesType, SoundCookies(jar'), OfUser(jar', jar), OfUser(jar, jar'),
         live' \subseteq TokenType, kicked' = kicked, disturbed' \in BOOLEAN, disturbed => disturbed',
         ~ disturbed' => /\ WriterOpen \/ jar'.refresh \in live' \cup {None}
                         /\ (jar'.refresh = jar.refresh /\ live \subseteq live') \/ ~ WriterOpen
  PROVE  IInv'
<1> USE Known
<1>1. Rest({}, req, req') /\ {} \in SUBSET All /\ \A s \in All : Same(req[s], req'[s])
  BY SameIs DEF Rest, Near
<1>2. Structure'
  <2>1. Ordered(queue', req') /\ Nobody(tab', req') /\ Refreshing(tab', req')
    BY DEF Ordered, Nobody, Refreshing
  <2>2. /\ tab' \in TabType /\ req' \in [All -> RequestType] /\ queue' \in Seq(All)
        /\ kicked' \in BOOLEAN
    OBVIOUS
  <2> QED
    BY <1>1, <2>1, <2>2, StructureKept
<1>3. OneIdentity'
  BY DEF OneIdentity, TabMatchesJar, CacheIsOfUser, OfUser
<1>4. (WriterOpen' <=> WriterOpen) /\ (~ WriterOpen => \A s \in All \ {} : ~ OpenWriter(req'[s]))
  BY DEF WriterOpen, OpenWriter
<1>5. ~ disturbed' => /\ (WriterOpen' \/ jar'.refresh \in live' \cup {None})
                      /\ (jar'.refresh = jar.refresh /\ live \subseteq live') \/ \A s \in All \ {} : ~ OpenWriter(req'[s])
  BY <1>4 DEF Kept
<1>6. tab'.user = tab.user
  OBVIOUS
<1> QED
  BY <1>1, <1>2, <1>3, <1>5, <1>6, IInvKept

LEMMA AccessExpiresKeeps ==
  ASSUME IInv, AccessExpires
  PROVE  IInv'
<1>1. /\ jar' = [jar EXCEPT !.access = None] /\ UNCHANGED <<tab, req, queue, live, kicked>>
      /\ disturbed' \in BOOLEAN /\ (disturbed => disturbed')
  BY Known, DisturbIs DEF AccessExpires, Refreshed
<1>2. jar' \in CookiesType /\ jar'.access = None /\ jar'.refresh = jar.refresh
  BY <1>1, Known DEF CookiesType
<1>3. SoundCookies(jar') /\ OfUser(jar', jar) /\ OfUser(jar, jar')
  BY <1>2 DEF SoundCookies, OfUser
<1> QED
  BY <1>1, <1>2, <1>3, Known, ElsewhereKeeps DEF Kept

LEMMA RevokeKeeps ==
  ASSUME IInv, NEW u \in Accounts, Revoke(u)
  PROVE  IInv'
<1>1. /\ live' = {t \in live : t.user # u} /\ Disturb(TRUE) /\ UNCHANGED <<tab, req, queue, jar, kicked>>
  BY DEF Revoke
<1>2. disturbed' \in BOOLEAN /\ disturbed' /\ live' \subseteq TokenType
  BY <1>1, Known, DisturbIs
<1>3. SoundCookies(jar') /\ OfUser(jar', jar) /\ OfUser(jar, jar')
  BY <1>1, Known DEF RequestsFit, OfUser
<1> QED
  BY <1>1, <1>2, <1>3, Known, ElsewhereKeeps

LEMMA OtherTabRefreshesKeeps ==
  ASSUME IInv, OtherTabRefreshes
  PROVE  IInv'
<1> DEFINE t == Token(0, jar.refresh.user)
<1>1. /\ jar.refresh \in live /\ live' = (live \ {jar.refresh}) \cup {t} /\ jar' = CookiesOf(t)
      /\ Disturb(WriterOpen) /\ UNCHANGED <<tab, req, queue, kicked>>
  BY DEF OtherTabRefreshes
<1>2. /\ jar.refresh \in TokenType /\ jar.refresh # None /\ jar.refresh.user \in Accounts
      /\ t \in TokenType /\ t.user = jar.refresh.user
  BY <1>1, Known, NoneAssumption DEF TokenType, Token
<1>3. jar' \in CookiesType /\ jar'.refresh = t /\ jar'.access = t.user /\ live' \subseteq TokenType
  BY <1>1, <1>2, Known DEF CookiesOf, CookiesType
<1> HIDE DEF t
<1>4. SoundCookies(jar') /\ OfUser(jar', jar) /\ OfUser(jar, jar')
  BY <1>2, <1>3, NoneAssumption DEF SoundCookies, OfUser
<1>5. disturbed' \in BOOLEAN /\ (disturbed => disturbed') /\ (WriterOpen => disturbed')
  BY <1>1, Known, DisturbIs DEF WriterOpen
<1>6. jar'.refresh \in live' \cup {None}
  BY <1>1, <1>3
<1> QED
  BY <1>1, <1>3, <1>4, <1>5, <1>6, Known, ElsewhereKeeps

LEMMA InitHolds == Init => IInv
<1> SUFFICES ASSUME Init PROVE IInv
  OBVIOUS
<1>0. /\ req = [r \in All |-> NoRequest] /\ queue = <<>> /\ live = {jar.refresh} \ {None}
      /\ disturbed = FALSE /\ kicked = FALSE
  BY DEF Init
<1>1. /\ jar \in CookiesType /\ SoundCookies(jar)
      /\ jar # NoCookies => jar.access \in Accounts /\ jar.refresh \in TokenType /\ jar.refresh.user = jar.access
  <2>1. CASE jar = NoCookies
    BY <2>1, Nulls DEF SoundCookies, NoCookies
  <2>2. CASE jar # NoCookies
    <3>1. PICK u \in Earlier : jar = CookiesOf(Token(-1, u))
      BY <2>2 DEF Init
    <3>2. u \in Accounts /\ Token(-1, u) \in TokenType /\ Token(-1, u).user = u
      BY AccountsAssumption DEF Token, TokenType
    <3>3. jar \in CookiesType /\ jar.access = u /\ jar.refresh = Token(-1, u)
      BY <3>1, <3>2 DEF CookiesOf, CookiesType
    <3> QED
      BY <3>2, <3>3, NoneAssumption DEF SoundCookies
  <2> QED
    BY <2>1, <2>2
<1>2. /\ tab \in TabType /\ tab.refresh = None /\ tab.cache = {}
      /\ tab.user # None => jar # NoCookies /\ tab.user = jar.access
  <2>1. CASE tab \in {NewTab("public"), NewTab("inside")}
    BY <2>1, NewTabIs
  <2>2. CASE jar # NoCookies /\ tab = AcceptProfile(NewTab("inside"), jar.access)
    BY <1>1, <2>2, NewTabIs, AcceptIs
  <2> QED
    BY <2>1, <2>2 DEF Init
<1>3. req \in [All -> RequestType] /\ \A r \in All : req[r] = NoRequest
  BY <1>0, NoRequestIs
<1>4. /\ NoRequest.kind = "none" /\ NoRequest.phase = "none" /\ ~ NoRequest.fresh /\ NoRequest.retried = FALSE
  BY NoRequestIs DEF NoRequest
<1>5. \A r \in All : /\ Shape(r, req[r]) /\ ~ Writing(req[r]) /\ ~ Signing(req[r]) /\ ~ OpenWriter(req[r])
                     /\ req[r].phase = "none" /\ ~ req[r].fresh
  BY <1>3, <1>4 DEF Shape, Writing, Signing, OpenWriter, OpenProtected, Open, CookieWriters, Protected, Profiles
<1>6. Structure
  <2>1. TypeOK
    <3>1. disturbed \in BOOLEAN /\ kicked \in BOOLEAN
      BY <1>0
    <3>3. queue \in Seq(All)
      BY <1>0, SMT
    <3>2. live \subseteq TokenType
      BY <1>0, <1>1 DEF CookiesType
    <3> QED
      BY <1>1, <1>2, <1>3, <1>5, <3>1, <3>2, <3>3, Types
  <2>2. Ordered(queue, req)
    BY <1>0, <1>3, <1>5, OrderedEmpty
  <2>3. Shapes(req) /\ OneRefresh(req) /\ Nobody(tab, req) /\ Refreshing(tab, req)
    BY <1>2, <1>5, Numbers DEF Shapes, OneRefresh, Nobody, Refreshing
  <2> QED
    BY <2>1, <2>2, <2>3 DEF Structure
<1>7. OneIdentity
  BY <1>1, <1>2 DEF OneIdentity, TabMatchesJar, CacheIsOfUser
<1>8. RequestsFit(req, tab, jar) /\ AllAwait(req, disturbed) /\ Carried(req, jar, live)
  BY <1>1, <1>3, <1>4, <1>5
     DEF RequestsFit, Fits, AllAwait, Awaits, Carried, Accepted, Protected, Profiles, CookieWriters
<1> QED
  BY <1>0, <1>6, <1>7, <1>8 DEF IInv, Kept

LEMMA StepKeeps == IInv /\ [Next]_vars => IInv'
<1> SUFFICES ASSUME IInv, [Next]_vars PROVE IInv'
  OBVIOUS
<1>1. ASSUME NEW r \in Made, NEW u \in Accounts, Login(r, u) PROVE IInv'
  BY <1>1, LoginKeeps
<1>2. ASSUME NEW r \in Made,
             Logout(r) \/ InitializeAuth(r) \/ LoadProfile(r) \/ Get(r)
      PROVE  IInv'
  BY <1>2, LogoutKeeps, InitializeAuthKeeps, LoadProfileKeeps, GetKeeps
<1>3. ASSUME NEW r \in All, Execute(r) \/ Resume(r) PROVE IInv'
  BY <1>3, ExecuteKeeps, ResumeKeeps
<1>4. ASSUME NEW r \in All, Serve(r) \/ Arrive(r) \/ ArriveProtected(r) \/ Fail(r) PROVE IInv'
  BY <1>4, ServeKeeps, ArriveKeeps, ArriveProtectedKeeps, FailKeeps
<1>5. ASSUME NEW r \in All, ServeRolledBack(r) \/ ServeOrphan(r) PROVE IInv'
  BY <1>5, ServeRolledBackKeeps, ServeOrphanKeeps
<1>6. ASSUME NEW u \in Accounts, Revoke(u) PROVE IInv'
  BY <1>6, RevokeKeeps
<1>7. CASE Reload \/ AccessExpires \/ OtherTabRefreshes
  BY <1>7, ReloadKeeps, AccessExpiresKeeps, OtherTabRefreshesKeeps
<1>8. CASE UNCHANGED vars
  <2>1. UNCHANGED <<tab, req, queue, jar, live, disturbed, kicked>>
    BY <1>8 DEF vars
  <2>2. SoundCookies(jar') /\ OfUser(jar', jar) /\ OfUser(jar, jar')
    BY <2>1, Known DEF RequestsFit, OfUser
  <2> QED
    BY <2>1, <2>2, Known, ElsewhereKeeps DEF Kept
<1> QED
  BY <1>1, <1>2, <1>3, <1>4, <1>5, <1>6, <1>7, <1>8 DEF Next, Answered

\* The invariant holds in every state of the tab, whatever the user, the server and the connection do.
THEOREM SessionInductive == Spec => []IInv
<1> QED
  BY InitHolds, StepKeeps, PTL DEF Spec

\* The tab, its requests, the queue of cookie writers, the cookies and the server's tokens keep their
\* shape, and only the first of the queue has been sent (serializeCookieMutation of api.ts).
THEOREM SessionTypeCorrect == Spec => []TypeOK
<1>1. IInv => TypeOK
  BY DEF IInv, Structure
<1> QED
  BY <1>1, SessionInductive, PTL

\* Store, pages and cookies are of one user, whatever logins, logouts, refreshes, profile loads and
\* reloads overlap (invalidateApiSession, acceptProfile and the generations of api.ts).
THEOREM StoreAndCookiesAgree == Spec => []OneIdentity
<1>1. IInv => OneIdentity
  BY DEF IInv
<1> QED
  BY <1>1, SessionInductive, PTL

----
(* What is given up.  A request that was refused waits for a refresh; undisturbed, the refresh ends *)
(* well and brings the access token with which the request is made again, so that it is not refused *)
(* a second time, and what would end the session does not happen.                                   *)

Ended(x) == x.phase \in {"done", "orphan"}

\* Request x, among requests q and with cookies j, has what its retry needs, or brings it.
Backed(x, q, j) ==
  /\ x.kind \in Protected /\ x.fresh =>
       /\ x.phase = "sent" /\ x.retried => x.cookies.access # None
       /\ x.phase = "waiting" /\ Ended(q[x.on]) => j.access # None
  /\ x.kind = "refresh" /\ x.phase = "served" /\ x.answer.status = "ok" =>
       x.answer.cookies # None /\ x.answer.cookies.access # None

Renewed == ~ disturbed => ~ kicked /\ \A r \in All : Backed(req[r], req, jar)

\* Refreshes that still count are what requests wait for; those that move do not end unnoticed.
LEMMA RenewedKept ==
  ASSUME IInv, Renewed, NEW S \in SUBSET All, req' \in [All -> RequestType], Rest(S, req, req'),
         disturbed \in BOOLEAN, disturbed => disturbed',
         ~ disturbed' =>
           /\ ~ kicked' /\ \A s \in S : Backed(req'[s], req', jar')
           /\ \/ jar'.access # None
              \/ /\ jar'.access = jar.access
                 /\ \A s \in S : Ended(req'[s]) =>
                                   Ended(req[s]) \/ ~ (req[s].fresh /\ req[s].kind = "refresh")
  PROVE  Renewed'
<1> USE Known
<1> SUFFICES ASSUME ~ disturbed', NEW s \in All \ S
             PROVE  Backed(req'[s], req', jar')
  BY DEF Renewed
<1> DEFINE x == req[s]
           y == req'[s]
           o == y.on
<1>1. /\ x \in RequestType /\ y \in RequestType /\ Near(x, y) /\ Shape(s, x) /\ Backed(x, req, jar)
      /\ Awaits(x, req, disturbed) /\ ~ disturbed
  BY DEF Rest, Shapes, Renewed, AllAwait
<1>2. y.fresh => Same(x, y)
  BY <1>1, NearKeeps
<1>3. y.kind = "refresh" /\ y.phase = "served" => /\ x.kind = "refresh" /\ x.phase = "served"
                                                  /\ y.answer = x.answer
  BY <1>1 DEF Near, Same, Aged
<1>4. ASSUME y.fresh, y.kind \in Protected, y.phase = "waiting", Ended(req'[o])
      PROVE  jar'.access # None
  <2>1. o \in All /\ o = x.on /\ x.fresh /\ x.kind = y.kind /\ x.phase = "waiting"
    BY <1>1, <1>2, <1>4 DEF Shape, Same
  <2>2. Shape(o, req[o]) /\ req[o] \in RequestType
    BY <2>1 DEF Shapes
  <2>3. CASE Ended(req[o])
    BY <1>1, <1>4, <2>1, <2>3 DEF Backed, RequestsFit
  <2>4. CASE ~ Ended(req[o])
    <3>1. req[o].fresh /\ req[o].kind = "refresh"
      BY <1>1, <2>1, <2>4 DEF Awaits, Ended
    <3>2. CASE o \in S
      BY <1>4, <2>4, <3>1, <3>2
    <3>3. CASE o \notin S
      <4>1. Near(req[o], req'[o]) /\ ~ OpenProtected(req[o])
        BY <2>1, <3>1, <3>3 DEF Rest, OpenProtected, Protected, Profiles
      <4>2. req'[o].phase = req[o].phase
        BY <4>1 DEF Near, Same, Aged
      <4> QED
        BY <1>4, <2>4, <4>2 DEF Ended
    <3> QED
      BY <3>2, <3>3
  <2> QED
    BY <2>3, <2>4
<1> QED
  BY <1>1, <1>2, <1>3, <1>4 DEF Backed, Same

\* No protected request counts any more.
LEMMA RenewedAlone ==
  ASSUME IInv, Renewed, disturbed => disturbed', ~ disturbed' => ~ kicked',
         \A s \in All : /\ req'[s].fresh => req'[s].kind \notin Protected
                        /\ req'[s].phase = "served" =>
                             /\ req[s].phase = "served" /\ req[s].kind = req'[s].kind
                             /\ req[s].answer = req'[s].answer
  PROVE  Renewed'
BY DEF Renewed, Backed

\* Of a request that belongs to the past, or whose page was left.
LEMMA PastIs ==
  ASSUME NEW x \in RequestType, NEW y \in RequestType, Aged(x, y) \/ Left(x, y)
  PROVE  /\ ~ y.fresh
         /\ y.phase = "served" => x.phase = "served" /\ x.kind = y.kind /\ x.answer = y.answer
BY DEF Aged, Left

\* The session has ended with the requests q, of which all but r are what they were.
LEMMA RenewedPast ==
  ASSUME IInv, Renewed, disturbed => disturbed', ~ disturbed' => ~ kicked',
         req' \in [All -> RequestType], NEW S \in SUBSET All,
         \A s \in All \ S : Aged(req[s], req'[s]) \/ Left(req[s], req'[s]),
         \A s \in S : req'[s].phase # "served" /\ (req'[s].fresh => req'[s].kind \notin Protected)
  PROVE  Renewed'
<1>1. \A s \in All : req[s] \in RequestType /\ req'[s] \in RequestType
  BY Known
<1> QED
  BY <1>1, PastIs, RenewedAlone

LEMMA SignInRenews ==
  ASSUME IInv, Renewed, NEW r \in Made, NEW x \in RequestType, SignsIn(r, x),
         x.kind \in {"login", "logout"}, x.phase = "queued"
  PROVE  Renewed'
<1>1. r \in All /\ req \in [All -> RequestType] /\ Shapes(req)
  BY Known, Numbers
<1>2. /\ req' \in [All -> RequestType] /\ req'[r] = x
      /\ \A s \in All \ {r} : Aged(req[s], req'[s])
  BY <1>1, AgeAll DEF SignsIn
<1>3. {r} \in SUBSET All /\ \A s \in {r} : req'[s].phase # "served" /\ req'[s].kind \notin Protected
  BY <1>1, <1>2 DEF Protected, Profiles
<1>4. (disturbed => disturbed') /\ (~ disturbed' => ~ kicked')
  BY DEF SignsIn, Renewed
<1> QED
  BY <1>2, <1>3, <1>4, RenewedPast

\* A request is made: it has not been refused yet.
LEMMA SentRenews ==
  ASSUME IInv, Renewed, NEW r \in Made, Unused(r), NEW k \in Protected,
         req' \in [All -> RequestType], req'[r] = NewProtected(k),
         \A s \in All \ {r} : Same(req[s], req'[s]), UNCHANGED <<jar, disturbed, kicked>>
  PROVE  Renewed'
<1>1. r \in All /\ jar \in CookiesType /\ disturbed \in BOOLEAN
  BY Known, Numbers
<1>2. /\ req'[r].kind = k /\ req'[r].phase = "sent" /\ ~ req'[r].retried
  BY <1>1, Makes
<1>3. {r} \in SUBSET All /\ Rest({r}, req, req') /\ ~ Ended(req'[r])
  BY <1>1, <1>2 DEF Rest, Near, Ended
<1>4. \A s \in {r} : Backed(req'[s], req', jar')
  BY <1>2 DEF Backed, Protected, Profiles
<1>5. \A s \in {r} : ~ Ended(req'[s])
  BY <1>3
<1> QED
  BY <1>1, <1>3, <1>4, <1>5, RenewedKept DEF Renewed

LEMMA MadeRenews ==
  ASSUME IInv, Renewed, NEW r \in Made,
         Logout(r) \/ InitializeAuth(r) \/ LoadProfile(r) \/ Get(r)
  PROVE  Renewed'
<1>1. r \in All /\ req \in [All -> RequestType] /\ jar \in CookiesType /\ Shapes(req)
  BY Known, Numbers
<1>2. CASE Logout(r)
  <2>1. SignsIn(r, NewWriter("logout", None))
    BY <1>2 DEF Logout, SignsIn
  <2> QED
    BY <2>1, Makes, SignInRenews
<1>3. CASE LoadProfile(r)
  <2>1. /\ req' \in [All -> RequestType] /\ req'[r] = NewProtected("profile")
        /\ \A s \in All \ {r} : Same(req[s], req'[s])
    BY <1>1, <1>3, Superseded, Makes DEF LoadProfile, Protected, Profiles
  <2> QED
    BY <1>3, <2>1, SentRenews DEF LoadProfile, Protected, Profiles
<1>4. CASE Get(r)
  <2>1. /\ req' \in [All -> RequestType] /\ req'[r] = NewProtected("get")
        /\ \A s \in All \ {r} : Same(req[s], req'[s])
    BY <1>1, <1>4, SameIs, Makes DEF Get, Protected
  <2> QED
    BY <1>4, <2>1, SentRenews DEF Get, Protected
<1>5. CASE InitializeAuth(r) /\ tab.page = "public" /\ jar.refresh = None
  <2>1. req' = Invalidate(req) /\ UNCHANGED <<disturbed, kicked>>
    BY <1>5 DEF InitializeAuth
  <2>2. /\ req' \in [All -> RequestType] /\ {} \in SUBSET All
        /\ \A s \in All \ {} : Aged(req[s], req'[s])
    BY <1>1, <2>1, AgeAll
  <2>3. (disturbed => disturbed') /\ (~ disturbed' => ~ kicked')
    BY <2>1 DEF Renewed
  <2> QED
    BY <2>2, <2>3, RenewedPast
<1>6. CASE InitializeAuth(r) /\ ~ (tab.page = "public" /\ jar.refresh = None)
  <2>1. Unused(r) /\ req' = [Supersede(req) EXCEPT ![r] = NewProtected("bootstrap")]
    BY <1>6 DEF InitializeAuth
  <2>2. /\ req' \in [All -> RequestType] /\ req'[r] = NewProtected("bootstrap")
        /\ \A s \in All \ {r} : Same(req[s], req'[s])
    BY <1>1, <2>1, Superseded, Makes DEF Protected, Profiles
  <2> QED
    BY <1>6, <2>1, <2>2, SentRenews DEF InitializeAuth, Protected, Profiles
<1> QED
  BY <1>2, <1>3, <1>4, <1>5, <1>6

LEMMA LoginRenews ==
  ASSUME IInv, Renewed, NEW r \in Made, NEW u \in Accounts, Login(r, u)
  PROVE  Renewed'
<1>1. SignsIn(r, NewWriter("login", u))
  BY DEF Login, SignsIn
<1> QED
  BY <1>1, Makes, SignInRenews

LEMMA ReloadRenews ==
  ASSUME IInv, Renewed, Reload
  PROVE  Renewed'
<1>1. req' = Abandon(req) /\ Disturb(WriterOpen) /\ kicked' = kicked
  BY DEF Reload
<1>2. /\ req \in [All -> RequestType] /\ Shapes(req) /\ disturbed \in BOOLEAN
  BY Known
<1>3. /\ req' \in [All -> RequestType] /\ {} \in SUBSET All
      /\ \A s \in All \ {} : Left(req[s], req'[s])
  BY <1>1, <1>2, Abandoned
<1>4. (disturbed => disturbed') /\ (~ disturbed' => ~ kicked')
  BY <1>1, <1>2, DisturbIs DEF WriterOpen, Renewed
<1> QED
  BY <1>3, <1>4, RenewedPast

\* A request moves from where it has not ended to where it has not, or it was not awaited; the
\* others and the cookies stay.
LEMMA MovesRenew ==
  ASSUME IInv, Renewed, NEW r \in All, req' \in [All -> RequestType],
         \A s \in All \ {r} : req'[s] = req[s], jar'.access = jar.access,
         disturbed => disturbed', ~ disturbed' => ~ kicked' /\ Backed(req'[r], req', jar'),
         Ended(req'[r]) => Ended(req[r]) \/ ~ (req[r].fresh /\ req[r].kind = "refresh")
  PROVE  Renewed'
<1>1. /\ {r} \in SUBSET All /\ \A s \in All \ {r} : Same(req[s], req'[s])
      /\ disturbed \in BOOLEAN
  BY Known, SameIs
<1>2. Rest({r}, req, req')
  BY <1>1 DEF Rest, Near
<1>3. ~ disturbed' =>
        /\ ~ kicked' /\ \A s \in {r} : Backed(req'[s], req', jar')
        /\ \A s \in {r} : Ended(req'[s]) => Ended(req[s]) \/ ~ (req[s].fresh /\ req[s].kind = "refresh")
  OBVIOUS
<1> QED
  BY <1>1, <1>2, <1>3, RenewedKept

LEMMA ExecuteRenews ==
  ASSUME IInv, Renewed, NEW r \in All, Execute(r)
  PROVE  Renewed'
<1> USE Known
<1>1. /\ req[r].phase = "queued" /\ req[r] \in RequestType /\ Shape(r, req[r])
      /\ UNCHANGED <<jar, disturbed, kicked>>
  BY DEF Execute, Shapes
<1>2. CASE req[r].kind = "refresh" /\ ~ req[r].fresh
  <2>1. req' = [req EXCEPT ![r] = Done]
    BY <1>2 DEF Execute
  <2>2. req' \in [All -> RequestType] /\ \A s \in All \ {r} : req'[s] = req[s]
    BY <2>1, DoneIs
  <2>3. Backed(req'[r], req', jar')
    BY <2>1, DoneIs DEF Backed, Protected, Profiles
  <2> QED
    BY <1>1, <1>2, <2>2, <2>3, MovesRenew DEF Renewed
<1>3. CASE ~ (req[r].kind = "refresh" /\ ~ req[r].fresh)
  <2>1. req' = [req EXCEPT ![r].phase = "sent", ![r].cookies = jar]
    BY <1>3 DEF Execute
  <2>2. /\ req' \in [All -> RequestType] /\ \A s \in All \ {r} : req'[s] = req[s]
        /\ req'[r].kind = req[r].kind /\ req'[r].phase = "sent"
    BY <1>1, <2>1 DEF RequestType
  <2>3. req'[r].kind \notin Protected
    BY <1>1, <2>2 DEF Shape
  <2>4. Backed(req'[r], req', jar') /\ ~ Ended(req'[r])
    BY <2>2, <2>3 DEF Backed, Ended
  <2> QED
    BY <1>1, <2>2, <2>4, MovesRenew DEF Renewed
<1> QED
  BY <1>2, <1>3

\* A refresh that is accepted brings an access token.
LEMMA ServedBrings ==
  ASSUME IInv, NEW r \in All, req[r].phase = "sent", req[r].kind = "refresh", NEW s \in Served(r),
         s[2].status = "ok"
  PROVE  s[2].cookies # None /\ s[2].cookies.access # None
<1> DEFINE c == req[r].cookies
           t == Token(r, c.refresh.user)
<1>1. c.refresh \in live
  <2> SUFFICES ASSUME c.refresh \notin live PROVE FALSE
    OBVIOUS
  <2>1. PICK code \in {"401"} \cup Blocked(c.refresh) : s = <<live, Answer(code, None, NoCookies)>>
    BY DEF Served
  <2>2. code \in {"401", "403"} /\ s[2].status = code
    BY <2>1 DEF Blocked, Answer
  <2> QED
    BY <2>2
<1>2. s = <<(live \ {c.refresh}) \cup {t}, Answer("ok", t.user, CookiesOf(t))>>
  BY <1>1 DEF Served
<1>3. c.refresh.user \in Accounts /\ t.user = c.refresh.user
  BY <1>1, Known DEF TokenType, Token
<1>4. s[2].cookies = CookiesOf(t) /\ CookiesOf(t) \in CookiesType /\ CookiesOf(t).access = t.user
  BY <1>2, <1>3, Nulls DEF Answer, CookiesOf
<1> QED
  BY <1>3, <1>4, NoneAssumption, AccountsAssumption

LEMMA ServeRenews ==
  ASSUME IInv, Renewed, NEW r \in All, Serve(r)
  PROVE  Renewed'
<1> USE Known
<1>1. PICK s \in Served(r) : req' = [req EXCEPT ![r].phase = "served", ![r].answer = s[2]]
  BY DEF Serve
<1>2. /\ req[r].phase = "sent" /\ req[r].kind \in CookieWriters /\ req[r] \in RequestType
      /\ UNCHANGED <<jar, disturbed, kicked>>
  BY DEF Serve
<1>3. req' \in [All -> RequestType]
  BY ServeKeeps DEF IInv, Structure, TypeOK, RequestType
<1>4. /\ \A q \in All \ {r} : req'[q] = req[q]
      /\ req'[r].kind = req[r].kind /\ req'[r].phase = "served" /\ req'[r].answer = s[2]
  BY <1>1, <1>2 DEF RequestType
<1>5. Backed(req'[r], req', jar') /\ ~ Ended(req'[r])
  BY <1>2, <1>4, ServedBrings DEF Backed, Ended, CookieWriters, Protected, Profiles
<1> QED
  BY <1>2, <1>3, <1>4, <1>5, MovesRenew DEF Renewed

LEMMA ServedElsewhereRenews ==
  ASSUME IInv, Renewed, NEW r \in All, ServeRolledBack(r) \/ ServeOrphan(r)
  PROVE  Renewed'
<1> USE Known
<1>1. CASE ServeRolledBack(r)
  BY <1>1, DisturbIs DEF ServeRolledBack, Renewed
<1>2. CASE ServeOrphan(r)
  <2>1. /\ req[r].phase = "orphan" /\ req' = [req EXCEPT ![r].phase = "done"] /\ req[r] \in RequestType
        /\ UNCHANGED <<jar, disturbed, kicked>> /\ Shape(r, req[r])
    BY <1>2 DEF ServeOrphan, Shapes
  <2>2. /\ req' \in [All -> RequestType] /\ \A s \in All \ {r} : req'[s] = req[s]
        /\ req'[r].kind = req[r].kind /\ req'[r].phase = "done"
    BY <2>1 DEF RequestType
  <2>3. Backed(req'[r], req', jar') /\ Ended(req[r])
    BY <2>1, <2>2 DEF Backed, Ended
  <2> QED
    BY <2>1, <2>2, <2>3, MovesRenew DEF Renewed
<1> QED
  BY <1>1, <1>2

\* A request that waits for the refresh o.
Waiting(x, o) == [x EXCEPT !.phase = "waiting", !.retried = TRUE, !.answer = None,
                           !.cookies = NoCookies, !.on = o]

LEMMA WaitingIs ==
  ASSUME NEW x \in RequestType, NEW o \in All
  PROVE  /\ Waiting(x, o) \in RequestType /\ Waiting(x, o).kind = x.kind
         /\ Waiting(x, o).phase = "waiting" /\ Waiting(x, o).on = o
BY WaitIs DEF Waiting

\* The answer to a protected request that counts, while nothing is disturbed: the session does not
\* end, or the user's own begins.
LEMMA AnswerRenews ==
  ASSUME IInv, Renewed, NEW r \in All, OpenProtected(req[r]), NEW status \in {"ok", "401", "failed"},
         NEW user, ProtectedAnswer(r, status, user), ~ disturbed', disturbed' = disturbed, jar' = jar,
         status = "401" => ~ req[r].retried, status = "failed" => req[r].kind # "bootstrap"
  PROVE  Renewed'
<1> USE Known
<1> DEFINE x == req[r]
           q == [req EXCEPT ![r] = Done]
<1>1. /\ x \in RequestType /\ Shape(r, x) /\ x.fresh /\ x.kind \in Protected /\ x.phase = "sent"
      /\ q \in [All -> RequestType] /\ q[r] = Done /\ \A s \in All \ {r} : q[s] = req[s]
  BY DoneIs DEF Shapes, Shape, OpenProtected
<1>2. Backed(Done, req', jar') /\ x.kind # "refresh"
  BY <1>1, DoneIs DEF Backed, Protected, Profiles
<1>3. CASE status = "401"
  <2> DEFINE f == RefreshOf(r)
             n == NewWriter("refresh", None)
             S == IF tab.refresh = None THEN {r, f} ELSE {r}
             o == tab'.refresh
  <2>1. NeedsRefresh(r, q) /\ kicked' = kicked
    BY <1>3 DEF ProtectedAnswer
  <2>2. /\ r \in Made /\ f \in All /\ f # r
        /\ n \in RequestType /\ n.kind = "refresh" /\ n.phase = "queued" /\ n.fresh
    BY <1>1, Numbers, Makes DEF Shape
  <2> HIDE DEF n
  <2>3. /\ o \in All /\ (tab.refresh # None => o = tab.refresh /\ o # r)
        /\ tab.refresh = None => o = f
    BY <1>1, <1>2, <2>1, <2>2 DEF NeedsRefresh, TabType, Refreshing
  <2>4. /\ Waiting(x, o) \in RequestType /\ Waiting(x, o).kind = x.kind
        /\ Waiting(x, o).phase = "waiting" /\ Waiting(x, o).on = o
    BY <1>1, <2>3, WaitingIs
  <2>5. /\ tab.refresh # None => req' = [q EXCEPT ![r] = Waiting(x, o)]
        /\ tab.refresh = None => req' = [[q EXCEPT ![r] = Waiting(x, o)] EXCEPT ![f] = n]
    BY <2>1, <2>3 DEF NeedsRefresh, Waiting, n
  <2>6. /\ req' \in [All -> RequestType] /\ req'[r] = Waiting(x, o)
        /\ tab.refresh = None => req'[f] = n
        /\ \A s \in All \ S : req'[s] = req[s]
    BY <1>1, <2>2, <2>4, <2>5
  <2>7. ~ Ended(req'[o])
    <3>1. CASE tab.refresh = None
      BY <2>2, <2>3, <2>6, <3>1 DEF Ended
    <3>2. CASE tab.refresh # None
      <4>1. req'[o] = req[o] /\ req[o].fresh /\ Shape(o, req[o])
        BY <2>3, <2>6, <3>2 DEF Refreshing, Shapes
      <4> QED
        BY <4>1 DEF Shape, Ended
    <3> QED
      BY <3>1, <3>2
  <2>8. Backed(Waiting(x, o), req', jar') /\ Backed(n, req', jar') /\ ~ Ended(Waiting(x, o)) /\ ~ Ended(n)
    BY <1>1, <2>2, <2>4, <2>7 DEF Backed, Ended, Protected, Profiles
  <2>9. /\ S \in SUBSET All
        /\ \A s \in S : Backed(req'[s], req', jar') /\ ~ Ended(req'[s])
    BY <2>2, <2>6, <2>8
  <2>10. Rest(S, req, req')
    BY <2>6, SameIs DEF Rest
  <2> HIDE DEF S
  <2>11. ~ kicked'
    BY <2>1 DEF Renewed
  <2> QED
    BY <2>6, <2>9, <2>10, <2>11, RenewedKept
<1>4. CASE status # "401" /\ (x.kind = "get" \/ status = "failed" \/ ~ x.latest)
  <2>1. req' = q /\ kicked' = kicked
    BY <1>4 DEF ProtectedAnswer, ProfileFailed
  <2> QED
    BY <1>1, <1>2, <2>1, MovesRenew DEF Renewed
<1>5. CASE status = "ok" /\ x.kind # "get" /\ x.latest
  <2>1. req' = Invalidate(q) /\ kicked' = kicked
    BY <1>5 DEF ProtectedAnswer
  <2>2. /\ req' \in [All -> RequestType] /\ req'[r] = Done
        /\ \A s \in All \ {r} : Aged(req[s], req'[s])
    BY <2>1, DoneThenAged
  <2>3. {r} \in SUBSET All /\ \A s \in {r} : req'[s].phase # "served" /\ ~ req'[s].fresh
    BY <2>2, DoneIs
  <2> QED
    BY <2>1, <2>2, <2>3, RenewedPast DEF Renewed
<1> QED
  BY <1>3, <1>4, <1>5

LEMMA ArriveProtectedRenews ==
  ASSUME IInv, Renewed, NEW r \in All, ArriveProtected(r)
  PROVE  Renewed'
<1> SUFFICES ASSUME ~ disturbed' PROVE Renewed'
  BY DEF Renewed
<1>1. Shape(r, req[r]) /\ OpenProtected(req[r]) /\ jar' = jar /\ disturbed' = disturbed
  BY Known DEF ArriveProtected, OpenProtected, Shapes
<1>2. req[r].kind \in Protected /\ req[r].fresh /\ Backed(req[r], req, jar)
  BY <1>1 DEF ArriveProtected, Renewed, Shape
<1>3. CASE req[r].cookies.access = None
  <2>1. ProtectedAnswer(r, "401", None) /\ ~ req[r].retried
    BY <1>1, <1>2, <1>3 DEF ArriveProtected, Backed
  <2> QED
    BY <1>1, <2>1, AnswerRenews
<1>4. CASE req[r].cookies.access # None
  <2>1. ProtectedAnswer(r, "ok", req[r].cookies.access)
    BY <1>4 DEF ArriveProtected
  <2> QED
    BY <1>1, <2>1, AnswerRenews
<1> QED
  BY <1>3, <1>4

LEMMA FailRenews ==
  ASSUME IInv, Renewed, NEW r \in All, Fail(r)
  PROVE  Renewed'
<1> SUFFICES ASSUME ~ disturbed' PROVE Renewed'
  BY DEF Renewed
<1> DEFINE fault == req[r].kind \in CookieWriters \cup {"bootstrap"}
<1>1. Open(req[r]) /\ Disturb(fault) /\ jar' = jar /\ fault \in BOOLEAN /\ disturbed \in BOOLEAN
      /\ Shape(r, req[r]) /\ req[r] \in RequestType
  BY Known DEF Fail, Shapes
<1>2. ~ fault /\ disturbed' = disturbed
  BY <1>1, DisturbIs
<1>3. req[r].kind \in Protected /\ OpenProtected(req[r]) /\ req[r].fresh
  BY <1>1, <1>2 DEF Shape, OpenProtected, Open, RequestType
<1>4. ProtectedAnswer(r, "failed", None)
  BY <1>2, <1>3 DEF Fail, CookieWriters
<1> QED
  BY <1>1, <1>2, <1>3, <1>4, AnswerRenews

LEMMA ResumeRenews ==
  ASSUME IInv, Renewed, NEW r \in All, Resume(r)
  PROVE  Renewed'
<1> USE Known
<1> SUFFICES ASSUME ~ disturbed' PROVE Renewed'
  BY DEF Renewed
<1>1. /\ req[r].phase = "waiting" /\ Ended(req[req[r].on]) /\ jar' = jar /\ disturbed' = disturbed
      /\ Shape(r, req[r]) /\ req[r] \in RequestType /\ Backed(req[r], req, jar)
      /\ Awaits(req[r], req, disturbed)
  BY DEF Resume, Refreshed, Ended, Shapes, Renewed, AllAwait
<1>2. req[r].kind \in Protected /\ req[r].kind # "refresh" /\ req[r].on \in All
  BY <1>1 DEF Shape, Protected, Profiles
<1>3. CASE ~ req[r].fresh
  <2>1. req' = [req EXCEPT ![r] = Done] /\ kicked' = kicked
    BY <1>3 DEF Resume
  <2>2. req' \in [All -> RequestType] /\ \A s \in All \ {r} : req'[s] = req[s]
    BY <2>1, DoneIs
  <2>3. Backed(req'[r], req', jar')
    BY <2>1, DoneIs DEF Backed, Protected, Profiles
  <2> QED
    BY <1>1, <1>2, <2>1, <2>2, <2>3, MovesRenew DEF Renewed
<1>4. CASE req[r].fresh
  <2>1. req[req[r].on].answer.status = "ok"
    <3>1. Shape(req[r].on, req[req[r].on])
      BY <1>2 DEF Shapes
    <3> QED
      BY <1>1, <1>4, <3>1 DEF Awaits, Shape, Ended
  <2>2. req' = [req EXCEPT ![r].phase = "sent", ![r].cookies = jar, ![r].on = None] /\ kicked' = kicked
    BY <1>4, <2>1 DEF Resume
  <2>3. /\ req' \in [All -> RequestType] /\ \A s \in All \ {r} : req'[s] = req[s]
        /\ req'[r].phase = "sent" /\ req'[r].cookies = jar /\ req'[r].kind = req[r].kind
    BY <1>1, <2>2 DEF RequestType
  <2>4. jar.access # None
    BY <1>1, <1>2, <1>4 DEF Backed
  <2>5. Backed(req'[r], req', jar') /\ ~ Ended(req'[r])
    BY <1>2, <2>3, <2>4 DEF Backed, Ended
  <2> QED
    BY <1>1, <2>2, <2>3, <2>5, MovesRenew DEF Renewed
<1> QED
  BY <1>3, <1>4

\* A refused refresh ends the session, and no request is left that counts.
LEMMA RefusalRenews ==
  ASSUME IInv, Renewed, NEW r \in All, Arrive(r), ~ kicked',
         req[r].fresh, req[r].kind = "refresh", req[r].answer.status = "401"
  PROVE  Renewed'
<1> USE Known
<1> DEFINE q == [req EXCEPT ![r] = Done]
<1>1. req[r].phase = "served" /\ disturbed' = disturbed
  BY DEF Arrive
<1>2. req' = Invalidate(q) \/ req' = Abandon(q)
  BY <1>1 DEF Arrive, WriterAnswer, Expire
<1>3. /\ q \in [All -> RequestType] /\ Shapes(q) /\ q[r] = Done /\ \A s \in All \ {r} : q[s] = req[s]
  BY DoneIs, DoneThenAged
<1>4. CASE req' = Invalidate(q)
  <2>1. /\ req' \in [All -> RequestType] /\ req'[r] = Done
        /\ \A s \in All \ {r} : Aged(req[s], req'[s])
    BY <1>4, DoneThenAged
  <2>2. {r} \in SUBSET All /\ \A s \in {r} : req'[s].phase # "served" /\ ~ req'[s].fresh
    BY <2>1, DoneIs
  <2> QED
    BY <1>1, <2>1, <2>2, RenewedPast
<1>5. CASE req' = Abandon(q)
  <2>1. req' \in [All -> RequestType] /\ \A s \in All : Left(q[s], req'[s])
    BY <1>3, <1>5, Abandoned
  <2>2. /\ {r} \in SUBSET All /\ \A s \in {r} : req'[s].phase # "served" /\ ~ req'[s].fresh
        /\ \A s \in All \ {r} : Left(req[s], req'[s])
    BY <1>3, <2>1 DEF Left
  <2> QED
    BY <1>1, <2>1, <2>2, RenewedPast
<1> QED
  BY <1>2, <1>4, <1>5

LEMMA ArriveRenews ==
  ASSUME IInv, Renewed, NEW r \in All, Arrive(r)
  PROVE  Renewed'
<1> USE Known
<1> SUFFICES ASSUME ~ disturbed' PROVE Renewed'
  BY DEF Renewed
<1> DEFINE x == req[r]
           a == req[r].answer
           q == [req EXCEPT ![r] = Done]
<1>1. /\ x.phase = "served" /\ disturbed' = disturbed /\ ~ disturbed /\ ~ kicked
      /\ jar' = (IF a.cookies = None THEN jar ELSE a.cookies)
      /\ kicked' = (kicked \/ (x.fresh /\ x.kind = "refresh" /\ a.status \in {"401", "403"}
                               /\ jar.refresh \in live))
  BY DEF Arrive, Renewed
<1>2. /\ x \in RequestType /\ Shape(r, x) /\ x.kind \in CookieWriters /\ OpenWriter(x)
      /\ Backed(x, req, jar) /\ Accepted(x, jar, live) /\ Fits(x, tab, jar) /\ SoundCookies(jar)
  <2>1. x \in RequestType /\ Shape(r, x) /\ Fits(x, tab, jar) /\ SoundCookies(jar)
    BY DEF Shapes, RequestsFit
  <2>2. x.kind \in CookieWriters
    BY <1>1, <2>1 DEF Shape, RequestType
  <2>3. OpenWriter(x)
    BY <1>1, <2>2 DEF OpenWriter, Open
  <2>4. Backed(x, req, jar) /\ Accepted(x, jar, live)
    BY <1>1 DEF Renewed, Kept, Carried
  <2> QED
    BY <2>1, <2>2, <2>3, <2>4
<1>3. /\ q \in [All -> RequestType] /\ q[r] = Done /\ \A s \in All \ {r} : q[s] = req[s]
  BY DoneIs
<1>4. CASE x.kind # "refresh"
  <2>1. \A s \in All : req[s].fresh => req[s].kind \in {"login", "logout"}
    BY <1>1, <1>2, <1>4 DEF Nobody, Signing, CookieWriters
  <2>2. req' = q \/ req' = Invalidate(q)
    BY <1>4 DEF Arrive, WriterAnswer
  <2>3. CASE req' = q
    BY <1>1, <1>3, <1>4, <2>1, <2>3, DoneIs, RenewedAlone DEF Protected, Profiles
  <2>4. CASE req' = Invalidate(q)
    <3>1. /\ req' \in [All -> RequestType] /\ req'[r] = Done
          /\ \A s \in All \ {r} : Aged(req[s], req'[s])
      BY <2>4, DoneThenAged
    <3>2. {r} \in SUBSET All /\ \A s \in {r} : req'[s].phase # "served" /\ ~ req'[s].fresh
      BY <3>1, DoneIs
    <3> QED
      BY <1>1, <1>4, <3>1, <3>2, RenewedPast
  <2> QED
    BY <2>2, <2>3, <2>4
<1>5. CASE x.kind = "refresh" /\ a.status = "ok"
  <2>1. jar'.access # None /\ ~ kicked'
    BY <1>1, <1>2, <1>5 DEF Backed
  <2>2. \/ ~ x.fresh /\ req' = q
        \/ x.fresh /\ req' = [q EXCEPT ![r].answer = Answer("ok", None, None)]
    BY <1>5 DEF Arrive, WriterAnswer
  <2>3. /\ req' \in [All -> RequestType] /\ \A s \in All \ {r} : req'[s] = req[s]
        /\ req'[r].phase = "done" /\ ~ req'[r].fresh
    <3>1. CASE ~ x.fresh /\ req' = q
      BY <1>3, <3>1, DoneIs
    <3>2. CASE x.fresh /\ req' = [q EXCEPT ![r].answer = Answer("ok", None, None)]
      <4>1. Answer("ok", None, None) \in AnswerType
        BY DEF Answer, AnswerType
      <4>2. [Done EXCEPT !.answer = Answer("ok", None, None)] \in RequestType
        BY <4>1, DoneIs DEF RequestType
      <4>3. req' = [q EXCEPT ![r] = [Done EXCEPT !.answer = Answer("ok", None, None)]]
        BY <1>3, <3>2
      <4>4. LET y == [Done EXCEPT !.answer = Answer("ok", None, None)] IN
            y.phase = "done" /\ ~ y.fresh
        BY DoneIs DEF RequestType
      <4> QED
        BY <1>3, <4>2, <4>3, <4>4
    <3> QED
      BY <2>2, <3>1, <3>2
  <2>4. /\ {r} \in SUBSET All /\ Rest({r}, req, req')
        /\ \A s \in {r} : Backed(req'[s], req', jar')
    BY <2>3, SameIs DEF Rest, Near, Backed
  <2> QED
    BY <1>1, <2>1, <2>3, <2>4, RenewedKept
<1>6. CASE x.kind = "refresh" /\ a.status # "ok"
  <2>1. a.status = "401" /\ jar.refresh = None /\ jar.access = None
    BY <1>1, <1>2, <1>6 DEF Accepted, SoundCookies
  <2>2. ~ kicked'
    BY <1>1, <2>1, NoneAssumption
  <2>3. CASE x.fresh
    BY <1>6, <2>1, <2>2, <2>3, RefusalRenews
  <2>4. CASE ~ x.fresh
    <3>1. req' = q
      BY <2>4 DEF Arrive
    <3>2. jar'.access = jar.access
      BY <1>1, <1>2, <1>6, <2>1 DEF Fits, SoundCookies, OfUser
    <3>3. Backed(req'[r], req', jar')
      BY <1>3, <3>1, DoneIs DEF Backed, Protected, Profiles
    <3> QED
      BY <1>1, <1>3, <2>2, <2>4, <3>1, <3>2, <3>3, MovesRenew
  <2> QED
    BY <2>3, <2>4
<1> QED
  BY <1>4, <1>5, <1>6

\* The cookies change while no request moves.
LEMMA ElsewhereRenews ==
  ASSUME IInv, Renewed,
         (\E u \in Accounts : Revoke(u)) \/ AccessExpires \/ OtherTabRefreshes \/ UNCHANGED vars
  PROVE  Renewed'
<1> USE Known
<1> SUFFICES ASSUME ~ disturbed' PROVE Renewed'
  BY DEF Renewed
<1>1. req' = req /\ kicked' = kicked /\ {} \in SUBSET All /\ Rest({}, req, req')
  BY SameIs DEF Revoke, AccessExpires, OtherTabRefreshes, vars, Rest, Near
<1>2. CASE \E u \in Accounts : Revoke(u)
  BY <1>2, DisturbIs DEF Revoke
<1>3. CASE AccessExpires
  <2> DEFINE fault == \E r \in All : req[r].fresh /\ Refreshed(r)
  <2>1. fault \in BOOLEAN /\ Disturb(fault)
    BY <1>3 DEF AccessExpires
  <2> HIDE DEF fault
  <2>2. ~ fault /\ disturbed' = disturbed
    BY <2>1, DisturbIs
  <2>3. \A r \in All : req[r].fresh => ~ (req[r].phase = "waiting" /\ Ended(req[req[r].on]))
    BY <2>2 DEF fault, Refreshed, Ended
  <2> QED
    BY <1>1, <2>2, <2>3 DEF Renewed, Backed
<1>4. CASE OtherTabRefreshes
  <2>1. jar'.access # None
    <3> DEFINE u == jar.refresh.user
    <3>1. jar.refresh \in live /\ jar' = CookiesOf(Token(0, u))
      BY <1>4 DEF OtherTabRefreshes
    <3>2. u \in Accounts
      BY <3>1 DEF TokenType
    <3> QED
      BY <3>1, <3>2, AccountsAssumption DEF CookiesOf, Token
  <2>2. disturbed' \in BOOLEAN /\ (disturbed => disturbed')
    BY <1>4, DisturbIs DEF OtherTabRefreshes, WriterOpen
  <2> QED
    BY <1>1, <2>1, <2>2, RenewedKept DEF Renewed
<1>5. CASE UNCHANGED vars
  BY <1>5 DEF vars, Renewed, Backed
<1> QED
  BY <1>2, <1>3, <1>4, <1>5

LEMMA StepRenews == IInv /\ Renewed /\ [Next]_vars => Renewed'
<1> SUFFICES ASSUME IInv, Renewed, [Next]_vars PROVE Renewed'
  OBVIOUS
<1>1. ASSUME NEW r \in Made, NEW u \in Accounts, Login(r, u) PROVE Renewed'
  BY <1>1, LoginRenews
<1>2. ASSUME NEW r \in Made, Logout(r) \/ InitializeAuth(r) \/ LoadProfile(r) \/ Get(r)
      PROVE  Renewed'
  BY <1>2, MadeRenews
<1>3. ASSUME NEW r \in All, Execute(r) \/ Resume(r) PROVE Renewed'
  BY <1>3, ExecuteRenews, ResumeRenews
<1>4. ASSUME NEW r \in All, Serve(r) \/ Arrive(r) \/ ArriveProtected(r) \/ Fail(r) PROVE Renewed'
  BY <1>4, ServeRenews, ArriveRenews, ArriveProtectedRenews, FailRenews
<1>5. ASSUME NEW r \in All, ServeRolledBack(r) \/ ServeOrphan(r) PROVE Renewed'
  BY <1>5, ServedElsewhereRenews
<1>6. CASE Reload
  BY <1>6, ReloadRenews
<1>7. CASE (\E u \in Accounts : Revoke(u)) \/ AccessExpires \/ OtherTabRefreshes \/ UNCHANGED vars
  BY <1>7, ElsewhereRenews
<1> QED
  BY <1>1, <1>2, <1>3, <1>4, <1>5, <1>6, <1>7 DEF Next, Answered

\* The tab gives up, unasked, no session that the server accepts: neither because a refresh was
\* refused nor because the profile could not be loaded (initializeAuth, loadProfile); and between
\* two cookie writers the refresh token of the browser is accepted.  Except after a fault (Disturb):
\* the answer to a cookie writer or to the first load of the profile was lost, or came of a
\* transaction rolled back, an access token expired before the retry it was brought for, the session
\* was revoked, or the page was left or another tab refreshed while a cookie writer was under way.
THEOREM SessionIsKept == Spec => []SessionSurvives
<1>1. Init => Renewed
  BY DEF Init, Renewed, Backed, NoRequest, Protected, Profiles
<1>2. IInv /\ Renewed => SessionSurvives
  BY DEF IInv, Kept, Renewed, SessionSurvives
<1> QED
  BY <1>1, <1>2, SessionInductive, StepRenews, PTL DEF Spec

----
(* The bell and the page. *)

\* What is answered carries its answer, and a click that may be rolled back the list it was made on.
Carries(query, answers) == query.fetch = "served" => query.answer \in answers
Undoable(x) == x.at \in {"sent", "written", "done", "failed"} => x.op \in Ops /\ x.before \in Lists

NotificationsIInv ==
  /\ NotificationsTypeOK
  /\ Carries(list, Lists) /\ Carries(unread, [count : Counts])
  /\ \A c \in Clicks : Undoable(click[c])

ListQueries == [data : Lists \cup {Nothing}, invalid : BOOLEAN,
                fetch : {"none", "asked", "served"}, answer : Lists \cup {Nothing}]
UnreadQueries == [data : [plain : Counts] \cup [count : Counts] \cup {Nothing}, invalid : BOOLEAN,
                  fetch : {"none", "asked", "served"}, answer : [count : Counts] \cup {Nothing}]

LEMMA Counted ==
  /\ Cardinality(Notices) \in Nat
  /\ \A S \in SUBSET Notices : Cardinality(S) \in Counts
<1>1. Cardinality(Notices) \in Nat
  BY NoticesAssumption, FS_CardinalityType
<1>2. ASSUME NEW S \in SUBSET Notices PROVE Cardinality(S) \in Counts
  <2>1. IsFiniteSet(S) /\ Cardinality(S) <= Cardinality(Notices)
    BY NoticesAssumption, FS_Subset
  <2>2. Cardinality(S) \in Nat
    BY <2>1, FS_CardinalityType
  <2> QED
    BY <1>1, <2>1, <2>2 DEF Counts
<1> QED
  BY <1>1, <1>2

LEMMA ListForm ==
  /\ \A S \in SUBSET Notices : [S -> BOOLEAN] \subseteq Lists
  /\ \A l \in Lists : DOMAIN l \in SUBSET Notices /\ l \in [DOMAIN l -> BOOLEAN]
  BY DEF Lists

\* What the page computes from a list.
LEMMA ListOperators ==
  ASSUME NEW l \in Lists
  PROVE  /\ [plain |-> Unread(l)] \in [plain : Counts]
         /\ \A op \in Ops : Optimistic(op, l) \in Lists
<1>1. DOMAIN l \in SUBSET Notices /\ l \in [DOMAIN l -> BOOLEAN]
  BY ListForm
<1>2. Unread(l) \in Counts
  <2>1. {n \in DOMAIN l : ~l[n]} \in SUBSET Notices
    BY <1>1
  <2> QED
    BY <2>1, Counted DEF Unread
<1>3. ASSUME NEW op \in Ops PROVE Optimistic(op, l) \in Lists
  <2>1. [n \in DOMAIN l |-> l[n] \/ n \in op.on] \in [DOMAIN l -> BOOLEAN]
    BY <1>1
  <2>2. [n \in DOMAIN l \ op.on |-> l[n]] \in [DOMAIN l \ op.on -> BOOLEAN]
    BY <1>1
  <2>3. DOMAIN l \ op.on \in SUBSET Notices
    BY <1>1
  <2> QED
    BY <1>1, <2>1, <2>2, <2>3, ListForm DEF Optimistic
<1> QED
  BY <1>2, <1>3

\* What the server answers.
LEMMA ServerAnswers ==
  ASSUME notice \in [Notices -> {"new", "creating", "there", "deleting", "gone"}]
  PROVE  ListNow \in Lists /\ [count |-> UnreadNow] \in [count : Counts] /\ Visible \in SUBSET Notices
<1>1. Visible \in SUBSET Notices
  BY DEF Visible
<1>2. ListNow \in [Visible -> BOOLEAN]
  BY DEF ListNow
<1>3. UnreadNow \in Counts
  <2>1. Visible \ readBy \in SUBSET Notices
    BY <1>1
  <2> QED
    BY <2>1, Counted DEF UnreadNow
<1> QED
  BY <1>1, <1>2, <1>3, ListForm

\* What the cache does to a query.
LEMMA ListUpdates ==
  ASSUME NEW q \in ListQueries, Carries(q, Lists)
  PROVE  /\ \A x \in {Fetch(q), Refetch(q), Cancel(q)} : x \in ListQueries /\ Carries(x, Lists)
         /\ \A d \in Lists : SetData(q, d) \in ListQueries /\ Carries(SetData(q, d), Lists)
         /\ \A used \in BOOLEAN : Invalidated(q, used) \in ListQueries /\ Carries(Invalidated(q, used), Lists)
         /\ Mounted(q) \subseteq {q, Fetch(q)}
         /\ Cancel(q).fetch = "none"
  BY DEF ListQueries, Carries, Fetch, Refetch, Cancel, SetData, Invalidated, Mounted

LEMMA UnreadUpdates ==
  ASSUME NEW q \in UnreadQueries, Carries(q, [count : Counts])
  PROVE  /\ \A x \in {Fetch(q), Refetch(q), Cancel(q)} : x \in UnreadQueries /\ Carries(x, [count : Counts])
         /\ \A d \in [plain : Counts] \cup [count : Counts] :
              SetData(q, d) \in UnreadQueries /\ Carries(SetData(q, d), [count : Counts])
         /\ \A used \in BOOLEAN :
              Invalidated(q, ~used) \in UnreadQueries /\ Carries(Invalidated(q, ~used), [count : Counts])
         /\ Mounted(q) \subseteq {q, Fetch(q)}
  BY DEF UnreadQueries, Carries, Fetch, Refetch, Cancel, SetData, Invalidated, Mounted

LEMMA NotificationSteps ==
  ASSUME NotificationsIInv, NotificationsNext
  PROVE  NotificationsIInv'
<1>0. /\ NotificationsTypeOK /\ Carries(list, Lists) /\ Carries(unread, [count : Counts])
      /\ \A c \in Clicks : Undoable(click[c])
  BY DEF NotificationsIInv
<1>1. list \in ListQueries /\ unread \in UnreadQueries
  BY <1>0 DEF NotificationsTypeOK, ListQueries, UnreadQueries
<1> DEFINE ListOK == list \in ListQueries /\ Carries(list, Lists)
           UnreadOK == unread \in UnreadQueries /\ Carries(unread, [count : Counts])
           NoticesOK == /\ notice \in [Notices -> {"new", "creating", "there", "deleting", "gone"}]
                        /\ readBy \subseteq Notices /\ dismissedBy \subseteq Notices
           ClicksOK ==
             /\ click \in [Clicks -> [at : {"unused", "sent", "written", "done", "failed", "settled"},
                                      op : Ops \cup {Nothing}, before : Lists \cup {Nothing}]]
             /\ \A c \in Clicks : Undoable(click[c])
           RestOK == signal \in BOOLEAN /\ open \in BOOLEAN /\ losses \in 0..MaxLosses
<1>2. ListOK /\ UnreadOK /\ NoticesOK /\ ClicksOK /\ RestOK
  BY <1>0, <1>1 DEF NotificationsTypeOK
<1>3. ListOK' /\ UnreadOK' /\ NoticesOK' /\ ClicksOK' /\ RestOK' => NotificationsIInv'
  BY DEF NotificationsIInv, NotificationsTypeOK, ListQueries, UnreadQueries
<1>4. /\ UNCHANGED list => ListOK'
      /\ UNCHANGED unread => UnreadOK'
      /\ UNCHANGED <<notice, readBy, dismissedBy>> => NoticesOK'
      /\ UNCHANGED click => ClicksOK'
      /\ UNCHANGED <<open, losses>> /\ signal' \in {signal, TRUE, FALSE} => RestOK'
  BY <1>2 DEF Carries
<1>5. losses < MaxLosses /\ losses' = losses + 1 /\ UNCHANGED <<open, signal>> => RestOK'
  BY <1>2, NoticesAssumption
\* The page shows the list; the count is written from it.
<1>6. ASSUME NEW l \in Lists PROVE Sync(l) \in UnreadQueries /\ Carries(Sync(l), [count : Counts])
  BY <1>2, ListOperators, UnreadUpdates DEF Sync
<1>7. list.data \in Lists \cup {Nothing}
  BY <1>2 DEF ListQueries
<1>8. InvalidateAll => ListOK' /\ UnreadOK'
  <2> SUFFICES ASSUME InvalidateAll PROVE ListOK' /\ UnreadOK'
    OBVIOUS
  <2>1. open \in BOOLEAN
    BY <1>2
  <2>2. list' = Invalidated(list, open) /\ unread' = Invalidated(unread, ~open)
    BY DEF InvalidateAll
  <2> QED
    BY <1>2, <2>1, <2>2, ListUpdates, UnreadUpdates
<1> USE DEF serverVars, clientVars
<1> HIDE DEF ListOK, UnreadOK, NoticesOK, ClicksOK, RestOK
<1>10. ASSUME NEW n \in Notices, Post(n) \/ DeleteAsAdmin(n) \/ Commit(n) \/ Abort(n)
       PROVE  NotificationsIInv'
  <2>1. NoticesOK'
    BY <1>2, <1>10 DEF NoticesOK, Post, DeleteAsAdmin, Commit, Abort
  <2>2. RestOK'
    BY <1>4, <1>5, <1>10 DEF Post, DeleteAsAdmin, Commit, Abort
  <2>3. ListOK' /\ UnreadOK' /\ ClicksOK'
    BY <1>4, <1>10 DEF Post, DeleteAsAdmin, Commit, Abort
  <2> QED
    BY <1>3, <2>1, <2>2, <2>3
<1>11. CASE OpenPage
  <2>1. ListOK'
    BY <1>2, <1>11, ListUpdates DEF OpenPage, ListOK
  <2>2. UnreadOK'
    BY <1>2, <1>6, <1>7, <1>11 DEF OpenPage, UnreadOK
  <2>3. NoticesOK' /\ ClicksOK'
    BY <1>4, <1>11 DEF OpenPage
  <2>4. RestOK'
    BY <1>2, <1>11 DEF OpenPage, RestOK
  <2> QED
    BY <1>3, <2>1, <2>2, <2>3, <2>4
<1>12. CASE LeavePage
  <2>1. UnreadOK'
    BY <1>2, <1>12, UnreadUpdates DEF LeavePage, UnreadOK
  <2>2. ListOK' /\ NoticesOK' /\ ClicksOK'
    BY <1>4, <1>12 DEF LeavePage
  <2>3. RestOK'
    BY <1>2, <1>12 DEF LeavePage, RestOK
  <2> QED
    BY <1>3, <2>1, <2>2, <2>3
<1>13. CASE Poll \/ GetUnreadCount \/ UnreadArrives
  <2>1. UnreadOK'
    <3>1. CASE Poll
      BY <1>2, <3>1, UnreadUpdates DEF Poll, UnreadOK
    <3>2. CASE GetUnreadCount
      <4>1. [count |-> UnreadNow] \in [count : Counts]
        BY <1>2, ServerAnswers DEF NoticesOK
      <4>2. unread' = [unread EXCEPT !.fetch = "served", !.answer = [count |-> UnreadNow]]
        BY <3>2 DEF GetUnreadCount
      <4> QED
        BY <1>2, <4>1, <4>2 DEF UnreadOK, UnreadQueries, Carries
    <3>3. CASE UnreadArrives
      <4>1. unread.answer \in [count : Counts]
        BY <1>2, <3>3 DEF UnreadArrives, UnreadOK, Carries
      <4>2. SetData(unread, unread.answer) \in UnreadQueries
            /\ Carries(SetData(unread, unread.answer), [count : Counts])
        BY <1>2, <4>1, UnreadUpdates DEF UnreadOK
      <4> QED
        BY <3>3, <4>2, UnreadUpdates DEF UnreadArrives, UnreadOK
    <3> QED
      BY <1>13, <3>1, <3>2, <3>3
  <2>2. ListOK' /\ NoticesOK' /\ ClicksOK' /\ RestOK'
    BY <1>4, <1>13 DEF Poll, GetUnreadCount, UnreadArrives
  <2> QED
    BY <1>3, <2>1, <2>2
<1>14. CASE FindByUser
  <2>1. ListOK'
    <3>1. ListNow \in Lists
      BY <1>2, ServerAnswers DEF NoticesOK
    <3> QED
      BY <1>2, <1>14, <3>1 DEF FindByUser, ListOK, ListQueries, Carries
  <2> QED
    BY <1>3, <1>4, <1>14, <2>1 DEF FindByUser
<1>15. CASE ListArrives
  <2>1. list.answer \in Lists
    BY <1>2, <1>15 DEF ListArrives, ListOK, Carries
  <2>2. ListOK'
    <3>1. SetData(list, list.answer) \in ListQueries /\ Carries(SetData(list, list.answer), Lists)
      BY <1>2, <2>1, ListUpdates DEF ListOK
    <3> QED
      BY <1>15, <3>1, ListUpdates DEF ListArrives, ListOK
  <2>3. UnreadOK'
    BY <1>2, <1>6, <1>15, <2>1 DEF ListArrives, UnreadOK
  <2> QED
    BY <1>3, <1>4, <1>15, <2>2, <2>3 DEF ListArrives
<1>16. CASE QueryFails
  <2>1. ListOK' /\ UnreadOK'
    BY <1>2, <1>16, ListUpdates, UnreadUpdates DEF QueryFails, ListOK, UnreadOK
  <2>2. NoticesOK' /\ ClicksOK' /\ RestOK'
    BY <1>4, <1>5, <1>16 DEF QueryFails
  <2> QED
    BY <1>3, <2>1, <2>2
<1>17. CASE SignalArrives \/ SignalLost
  <2>1. ListOK' /\ UnreadOK'
    BY <1>4, <1>8, <1>17 DEF SignalArrives, SignalLost
  <2>2. NoticesOK' /\ ClicksOK' /\ RestOK'
    BY <1>4, <1>17 DEF SignalArrives, SignalLost
  <2> QED
    BY <1>3, <2>1, <2>2
<1>18. ASSUME NEW c \in Clicks, NEW op \in Ops, Mutate(c, op)
       PROVE  NotificationsIInv'
  <2>1. list.data \in Lists /\ Optimistic(op, list.data) \in Lists
    BY <1>7, <1>18, ListOperators DEF Mutate
  <2>2. ListOK'
    <3>1. Cancel(list) \in ListQueries /\ Carries(Cancel(list), Lists)
      BY <1>2, ListUpdates DEF ListOK
    <3> QED
      BY <1>18, <2>1, <3>1, ListUpdates DEF Mutate, ListOK
  <2>3. UnreadOK'
    BY <1>6, <1>18, <2>1 DEF Mutate, UnreadOK
  <2>4. ClicksOK'
    BY <1>2, <1>18, <2>1 DEF Mutate, ClicksOK, Undoable
  <2>5. NoticesOK' /\ RestOK'
    BY <1>4, <1>18 DEF Mutate
  <2> QED
    BY <1>3, <2>2, <2>3, <2>4, <2>5
<1>19. ASSUME NEW c \in Clicks, Handle(c)
       PROVE  NotificationsIInv'
  <2>1. ClicksOK'
    <3>1. click[c].op \in Ops /\ click[c].before \in Lists
      BY <1>2, <1>19 DEF Handle, ClicksOK, Undoable
    <3>2. [click[c].op EXCEPT !.on = @ \cap Visible] \in Ops
      BY <3>1 DEF Ops
    <3>3. CASE click' = [click EXCEPT ![c].at = "failed"]
      BY <1>2, <3>1, <3>3 DEF ClicksOK, Undoable
    <3>4. CASE click' = [click EXCEPT ![c].at = "written", ![c].op.on = @ \cap Visible]
      <4> DEFINE y == [click[c].op EXCEPT !.on = @ \cap Visible]
                 z == [at |-> "written", op |-> y, before |-> click[c].before]
      <4>1. DOMAIN click = Clicks /\ click[c] = [at |-> click[c].at, op |-> click[c].op, before |-> click[c].before]
        BY <1>2 DEF ClicksOK
      <4>2. click' = [click EXCEPT ![c] = z]
        <5> DEFINE w == [click EXCEPT ![c].at = "written"]
        <5>1. w = [click EXCEPT ![c] = [click[c] EXCEPT !.at = "written"]]
          OBVIOUS
        <5>2. w[c] = [at |-> "written", op |-> click[c].op, before |-> click[c].before]
              /\ w[c].op = click[c].op
          BY <4>1
        <5>3. click' = [w EXCEPT ![c].op.on = w[c].op.on \cap Visible]
          BY <3>4
        <5>4. [w[c] EXCEPT !.op.on = w[c].op.on \cap Visible] = z
          BY <5>2
        <5>5. click' = [w EXCEPT ![c] = z]
          <6> HIDE DEF w, z
          <6> QED
            BY <5>3, <5>4
        <5> QED
          BY <5>1, <5>5
      <4>3. z \in [at : {"unused", "sent", "written", "done", "failed", "settled"},
                   op : Ops \cup {Nothing}, before : Lists \cup {Nothing}] /\ Undoable(z)
        BY <3>1, <3>2 DEF Undoable
      <4> QED
        BY <1>2, <4>2, <4>3 DEF ClicksOK
    <3> QED
      BY <1>19, <3>3, <3>4 DEF Handle
  <2>2. ListOK' /\ UnreadOK' /\ NoticesOK' /\ RestOK'
    BY <1>4, <1>19 DEF Handle
  <2> QED
    BY <1>3, <2>1, <2>2
<1>20. ASSUME NEW c \in Clicks, HandleCommits(c)
       PROVE  NotificationsIInv'
  <2>1. ClicksOK' /\ NoticesOK'
    BY <1>2, <1>20 DEF HandleCommits, ClicksOK, Undoable, NoticesOK, Ops
  <2>2. ListOK' /\ UnreadOK' /\ RestOK'
    BY <1>4, <1>20 DEF HandleCommits
  <2> QED
    BY <1>3, <2>1, <2>2
<1>21. ASSUME NEW c \in Clicks, ClickFails(c)
       PROVE  NotificationsIInv'
  <2>1. ClicksOK'
    BY <1>2, <1>21 DEF ClickFails, ClicksOK, Undoable
  <2>2. ListOK' /\ UnreadOK' /\ NoticesOK' /\ RestOK'
    BY <1>4, <1>5, <1>21 DEF ClickFails
  <2> QED
    BY <1>3, <2>1, <2>2
<1>22. ASSUME NEW c \in Clicks, Settle(c)
       PROVE  NotificationsIInv'
  <2>1. ClicksOK'
    BY <1>2, <1>22 DEF Settle, ClicksOK, Undoable, NoClick
  <2>2. ListOK' /\ UnreadOK'
    <3>1. CASE click[c].at = "done"
      BY <1>8, <1>22, <3>1 DEF Settle
    <3>2. CASE click[c].at = "failed"
      <4>1. click[c].before \in Lists
        BY <1>2, <3>2 DEF ClicksOK, Undoable
      <4>2. /\ SetData(list, click[c].before) \in ListQueries /\ Carries(SetData(list, click[c].before), Lists)
            /\ Sync(click[c].before) \in UnreadQueries /\ Carries(Sync(click[c].before), [count : Counts])
        BY <1>2, <1>6, <4>1, ListUpdates DEF ListOK
      <4>3. /\ list' = Invalidated(SetData(list, click[c].before), open)
            /\ unread' = Invalidated(Sync(click[c].before), ~open)
        BY <1>22, <3>2 DEF Settle
      <4>4. open \in BOOLEAN
        BY <1>2 DEF RestOK
      <4> QED
        BY <4>2, <4>3, <4>4, ListUpdates, UnreadUpdates DEF ListOK, UnreadOK
    <3> QED
      BY <1>22, <3>1, <3>2 DEF Settle
  <2>3. NoticesOK' /\ RestOK'
    BY <1>4, <1>22 DEF Settle
  <2> QED
    BY <1>3, <2>1, <2>2, <2>3
<1> QED
  BY <1>10, <1>11, <1>12, <1>13, <1>14, <1>15, <1>16, <1>17, <1>18, <1>19, <1>20, <1>21, <1>22
     DEF NotificationsNext

LEMMA NotificationsBegin == NotificationsInit => NotificationsIInv
<1> SUFFICES ASSUME NotificationsInit PROVE NotificationsIInv
  OBVIOUS
<1>1. /\ list = NoQuery /\ unread = Fetch(NoQuery)
      /\ NoQuery = [data |-> Nothing, invalid |-> FALSE, fetch |-> "none", answer |-> Nothing]
      /\ Fetch(NoQuery) = [data |-> Nothing, invalid |-> FALSE, fetch |-> "asked", answer |-> Nothing]
  BY DEF NotificationsInit, NoQuery, Fetch
<1>2. \A c \in Clicks : click[c].at = "unused"
  BY DEF NotificationsInit, NoClick
<1>3. click \in [Clicks -> [at : {"unused", "sent", "written", "done", "failed", "settled"},
                           op : Ops \cup {Nothing}, before : Lists \cup {Nothing}]]
  BY DEF NotificationsInit, NoClick
<1>4. /\ notice \in [Notices -> {"new", "creating", "there", "deleting", "gone"}]
      /\ readBy \subseteq Notices /\ dismissedBy \subseteq Notices
      /\ signal \in BOOLEAN /\ open \in BOOLEAN /\ losses \in 0..MaxLosses
  <2>1. notice \in [Notices -> {"new", "creating", "there", "deleting", "gone"}]
    BY DEF NotificationsInit
  <2>2. readBy = {} /\ dismissedBy = {} /\ signal = FALSE /\ open = FALSE
    BY DEF NotificationsInit
  <2>3. losses = 0 /\ 0 \in 0..MaxLosses
    BY NoticesAssumption DEF NotificationsInit
  <2> QED
    BY <2>1, <2>2, <2>3
<1>5. list \in ListQueries /\ Carries(list, Lists) /\ unread \in UnreadQueries /\ Carries(unread, [count : Counts])
  <2>1. NoQuery \in ListQueries /\ NoQuery \in UnreadQueries /\ NoQuery.fetch = "none"
    BY <1>1 DEF ListQueries, UnreadQueries
  <2>2. Carries(NoQuery, Lists) /\ Carries(NoQuery, [count : Counts])
    BY <2>1 DEF Carries
  <2>3. Fetch(NoQuery) \in UnreadQueries /\ Carries(Fetch(NoQuery), [count : Counts])
    BY <2>1, <2>2, UnreadUpdates
  <2> QED
    BY <1>1, <2>1, <2>2, <2>3
<1>6. \A c \in Clicks : Undoable(click[c])
  BY <1>2 DEF Undoable
<1> QED
  BY <1>3, <1>4, <1>5, <1>6 DEF NotificationsIInv, NotificationsTypeOK, ListQueries, UnreadQueries

LEMMA NotificationsStand ==
  NotificationsIInv /\ UNCHANGED notificationVars => NotificationsIInv'
<1> SUFFICES ASSUME NotificationsIInv, UNCHANGED notificationVars PROVE NotificationsIInv'
  OBVIOUS
<1>1. /\ notice' = notice /\ readBy' = readBy /\ dismissedBy' = dismissedBy /\ click' = click
      /\ signal' = signal /\ open' = open /\ list' = list /\ unread' = unread /\ losses' = losses
  BY DEF notificationVars, serverVars, clientVars
<1> QED
  BY <1>1 DEF NotificationsIInv, NotificationsTypeOK, Carries, Undoable

\* In the whole browser, beside the session: a query that has been answered carries its answer, a
\* click that fails has the list it was made on to put back, and the bell's count is of one of its two
\* shapes and never more than there are notifications (NotificationsPage.tsx).
THEOREM BrowserTypeCorrect == BrowserSpec => []BrowserTypeOK
<1>1. BrowserInit => IInv /\ NotificationsIInv
  BY InitHolds, NotificationsBegin DEF BrowserInit
<1>2. IInv /\ NotificationsIInv /\ [BrowserNext]_browserVars => (IInv /\ NotificationsIInv)'
  <2> SUFFICES ASSUME IInv, NotificationsIInv, [BrowserNext]_browserVars
               PROVE  IInv' /\ NotificationsIInv'
    OBVIOUS
  <2>1. /\ Next \/ UNCHANGED vars
        /\ NotificationsNext \/ UNCHANGED notificationVars
    BY DEF BrowserNext, browserVars
  <2> QED
    BY <2>1, StepKeeps, NotificationSteps, NotificationsStand
<1>3. IInv /\ NotificationsIInv => BrowserTypeOK
  BY DEF IInv, Structure, NotificationsIInv, BrowserTypeOK
<1> QED
  BY <1>1, <1>2, <1>3, PTL DEF BrowserSpec
====
