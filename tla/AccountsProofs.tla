---- MODULE AccountsProofs ----
(***************************************************************************)
(* Credentials, sessions and profiles of the accounts, for any number of   *)
(* users, profiles, tokens and overlapping requests.                       *)
(*                                                                         *)
(* A request holds a whole document from the time its handler ran until it *)
(* commits.  The inductive invariant demands of such a document, and of    *)
(* the token that goes out with it, what is demanded of the committed ones *)
(* (Fits): it stays true while the request waits, because a commit of the  *)
(* same document ends the request, and everything else that it refers to   *)
(* (tokens handed out, links mailed) is only ever added to (Grows).        *)
(***************************************************************************)
EXTENDS Accounts, TLAPS

(* What a document d of the account u has to satisfy, given the tokens I and the links R; g is *)
(* the token that is handed out with it, if any.                                               *)

\* The session of t was opened under the password and the role of d.
Live(u, d, g, I, t) ==
  \/ g # None /\ t = g.token
  \/ I[t] # None /\ I[t].user = u /\ I[t].pw = d.pw /\ I[t].role = d.role

Family(g, I, t) == IF g # None /\ t = g.token THEN g.family ELSE I[t].family

SessionsFit(u, d, g, I) ==
  /\ d.status = "blocked" => d.sessions = {}
  /\ \A t \in d.sessions : Live(u, d, g, I, t)
  /\ \A s, t \in d.sessions : s # t => Family(g, I, s) # Family(g, I, t)

ResetFits(u, d, R) ==
  d.reset # None => R[d.reset] # None /\ R[d.reset].user = u /\ R[d.reset].pw = d.pw

Selected(d) ==
  /\ IF ActiveProfiles(d) = {} THEN d.chosen = None ELSE d.chosen \in ActiveProfiles(d)
  /\ d.role # "student" => OwnProfiles(d) = {}

Fits(u, d, g, I, R) ==
  d \in DocType /\ SessionsFit(u, d, g, I) /\ ResetFits(u, d, R) /\ Selected(d)

\* A token that is not handed out yet, of a new session or of one that there is.
FreshGrant(g, I) ==
  g # None => /\ I[g.token] = None
              /\ g.family = g.token \/ I[g.family] # None

Opened(r) == txn[r].phase = "open"

DocumentsFit == \A u \in Users : Fits(u, users[u], None, issued, resets)

RequestsFit ==
  \A r \in Requests : Opened(r) =>
    /\ Fits(txn[r].user, txn[r].doc, txn[r].grant, issued, resets)
    /\ FreshGrant(txn[r].grant, issued)
    /\ \A q \in Requests \ {r} :
         Opened(q) /\ txn[r].grant # None /\ txn[q].grant # None =>
           txn[r].grant.token # txn[q].grant.token

FamiliesIssued == \A t \in Tokens : issued[t] # None => issued[issued[t].family] # None

ProfilesOwned == \A u \in Users : \A v \in Users \ {u} : OwnProfiles(users[u]) \cap OwnProfiles(users[v]) = {}

IInv == TypeOK /\ DocumentsFit /\ RequestsFit /\ FamiliesIssued /\ ProfilesOwned
----
(* What is handed out or mailed is never taken back or changed. *)
Grows(S, f, g) == \A x \in S : f[x] # None => g[x] = f[x]

LEMMA FitsStays ==
  ASSUME NEW u, NEW d, NEW g, NEW I, NEW J, NEW R, NEW S,
         Fits(u, d, g, I, R), Grows(Tokens, I, J), Grows(Resets, R, S)
  PROVE  Fits(u, d, g, J, S)
<1>1. d \in DocType /\ d.sessions \subseteq Tokens /\ d.reset \in Resets \cup {None}
  BY DEF Fits, DocType
<1>2. ASSUME NEW t \in d.sessions
      PROVE  Live(u, d, g, J, t) /\ Family(g, J, t) = Family(g, I, t)
  BY <1>1 DEF Fits, SessionsFit, Live, Family, Grows
<1>3. SessionsFit(u, d, g, J)
  BY <1>2 DEF Fits, SessionsFit
<1>4. ResetFits(u, d, S)
  BY <1>1 DEF Fits, ResetFits, Grows
<1> QED
  BY <1>1, <1>3, <1>4 DEF Fits

\* The document of a request that has committed, with its token handed out.
LEMMA FitsCommitted ==
  ASSUME NEW u, NEW d, NEW g \in GrantType, NEW I \in [Tokens -> IssuedType \cup {None}], NEW J, NEW R,
         Fits(u, d, g, I, R), FreshGrant(g, I), g # None,
         J = [I EXCEPT ![g.token] = [user |-> u, pw |-> d.pw, role |-> d.role, family |-> g.family]],
         J[g.token] # None
  PROVE  Fits(u, d, None, J, R)
<1>1. d.sessions \subseteq Tokens /\ g.token \in Tokens
  BY DEF Fits, DocType, GrantType
<1>2. ASSUME NEW t \in d.sessions
      PROVE  Live(u, d, None, J, t) /\ Family(None, J, t) = Family(g, I, t)
  BY <1>1 DEF Fits, SessionsFit, Live, Family
<1>3. SessionsFit(u, d, None, J)
  BY <1>2 DEF Fits, SessionsFit
<1> QED
  BY <1>3 DEF Fits

----
(* Requests come and go. *)

LEMMA RequestTyped ==
  ASSUME TypeOK, NEW r \in Requests
  PROVE  /\ txn \in [Requests -> {Idle} \cup AdmittedType \cup OpenType]
         /\ txn[r] \in {Idle} \cup AdmittedType \cup OpenType
         /\ Opened(r) => /\ txn[r] \in OpenType /\ txn[r].user \in Users /\ txn[r].doc \in DocType
                         /\ txn[r].grant \in GrantType \cup {None}
         /\ txn[r].phase = "admitted" => txn[r].actor \in Users
         /\ Idle.phase = "idle"
BY DEF TypeOK, Idle, AdmittedType, OpenType, Opened

\* A request that ends, or has only been admitted, holds nothing.
LEMMA Ends ==
  ASSUME IInv, NEW r \in Requests, NEW x \in {Idle} \cup AdmittedType,
         txn' = [txn EXCEPT ![r] = x], UNCHANGED <<users, issued, resets>>
  PROVE  IInv'
<1>1. x.phase # "open"
  BY DEF Idle, AdmittedType
<1>2. /\ txn' \in [Requests -> {Idle} \cup AdmittedType \cup OpenType]
      /\ \A q \in Requests : txn'[q].phase = "open" => q # r /\ txn'[q] = txn[q] /\ Opened(q)
  BY <1>1, RequestTyped DEF IInv, Opened
<1>3. TypeOK'
  BY <1>2 DEF IInv, TypeOK
<1>4. RequestsFit'
  BY <1>2 DEF IInv, RequestsFit, Opened
<1>5. DocumentsFit' /\ FamiliesIssued' /\ ProfilesOwned'
  BY DEF IInv, DocumentsFit, FamiliesIssued, ProfilesOwned
<1> QED
  BY <1>3, <1>4, <1>5 DEF IInv

\* A request holds a document that fits.
LEMMA Opens ==
  ASSUME IInv, NEW r \in Requests, NEW u \in Users, NEW d, NEW g \in GrantType \cup {None},
         Open(r, u, d, g), UNCHANGED <<users, issued>>,
         resets' \in [Resets -> ResetType \cup {None}], Grows(Resets, resets, resets'),
         Fits(u, d, g, issued, resets'), FreshGrant(g, issued),
         g # None => g.token \notin Signed, ~Opened(r)
  PROVE  IInv'
<1> PICK x : x = [phase |-> "open", user |-> u, doc |-> d, grant |-> g]
  OBVIOUS
<1>1. x \in OpenType /\ x.phase = "open" /\ x.user = u /\ x.doc = d /\ x.grant = g
  BY DEF OpenType, Fits
<1>2. /\ txn' \in [Requests -> {Idle} \cup AdmittedType \cup OpenType] /\ txn'[r] = x
      /\ \A q \in Requests \ {r} : txn'[q] = txn[q]
  BY <1>1, RequestTyped DEF IInv, Open
<1>3. TypeOK'
  BY <1>2 DEF IInv, TypeOK
<1>4. Grows(Tokens, issued, issued)
  BY DEF Grows
<1>5. DocumentsFit'
  BY <1>4, FitsStays DEF IInv, DocumentsFit
<1>6. \A q \in Requests \ {r} : Opened(q) => Fits(txn[q].user, txn[q].doc, txn[q].grant, issued, resets')
  BY <1>4, FitsStays DEF IInv, RequestsFit
<1>7. \A q \in Requests \ {r} : Opened(q) /\ g # None /\ txn[q].grant # None => txn[q].grant.token # g.token
  BY DEF Signed, Opened
<1>8. RequestsFit'
  BY <1>1, <1>2, <1>6, <1>7 DEF IInv, RequestsFit, Opened
<1>9. FamiliesIssued' /\ ProfilesOwned'
  BY DEF IInv, FamiliesIssued, ProfilesOwned
<1> QED
  BY <1>3, <1>5, <1>8, <1>9 DEF IInv

LEMMA CommitStep ==
  ASSUME IInv, NEW r \in Requests, Commit(r)
  PROVE  IInv'
<1> PICK u, d, g : u = txn[r].user /\ d = txn[r].doc /\ g = txn[r].grant
  OBVIOUS
<1>1. /\ Opened(r) /\ u \in Users /\ d \in DocType /\ g \in GrantType \cup {None}
      /\ IndexAdmits(u, d) /\ users' = [users EXCEPT ![u] = d] /\ resets' = resets
  BY RequestTyped DEF IInv, Commit, Opened
<1>2. /\ Fits(u, d, g, issued, resets) /\ FreshGrant(g, issued)
      /\ issued \in [Tokens -> IssuedType \cup {None}] /\ resets \in [Resets -> ResetType \cup {None}]
      /\ users \in [Users -> DocType] /\ users' \in [Users -> DocType]
  BY <1>1 DEF IInv, RequestsFit, TypeOK
<1>3. /\ issued' \in [Tokens -> IssuedType \cup {None}] /\ Grows(Tokens, issued, issued')
      /\ Fits(u, d, None, issued', resets) /\ FamiliesIssued'
      /\ \A t \in Tokens : issued'[t] # issued[t] => g # None /\ t = g.token
  <2>1. CASE g = None
    BY <1>1, <1>2, <2>1 DEF Commit, Grows, IInv, FamiliesIssued
  <2>2. CASE g # None
    <3> PICK i : i = [user |-> u, pw |-> d.pw, role |-> d.role, family |-> g.family]
      OBVIOUS
    <3>1. i \in IssuedType /\ g \in GrantType /\ g.token \in Tokens
      BY <1>1, <2>2 DEF IssuedType, DocType, GrantType
    <3>2. i # None
      BY <3>1, NoneAssumption, BoundsAssumption DEF IssuedType, Tokens
    <3>3. issued' = [issued EXCEPT ![g.token] = i] /\ issued[g.token] = None
      BY <1>2, <2>2 DEF Commit, FreshGrant
    <3>4. issued'[g.token] = i /\ \A t \in Tokens \ {g.token} : issued'[t] = issued[t]
      BY <1>2, <3>1, <3>3
    <3>5. Fits(u, d, None, issued', resets)
      BY <1>2, <2>2, <3>1, <3>2, <3>3, <3>4, FitsCommitted
    <3>6. FamiliesIssued'
      <4> SUFFICES ASSUME NEW t \in Tokens, issued'[t] # None
                   PROVE  issued'[issued'[t].family] # None
        BY DEF FamiliesIssued
      <4>1. CASE t = g.token
        <5>1. g.family \in Tokens /\ issued'[t].family = g.family
          BY <3>1, <3>4, <4>1 DEF GrantType
        <5>2. g.family = g.token \/ issued[g.family] # None
          BY <1>2, <2>2 DEF FreshGrant
        <5> QED
          BY <3>2, <3>4, <5>1, <5>2
      <4>2. CASE t # g.token
        <5>1. issued[t] \in IssuedType /\ issued'[t] = issued[t] /\ issued[t].family \in Tokens
          BY <1>2, <3>4, <4>2 DEF IssuedType
        <5>2. issued[issued[t].family] # None
          BY <4>2, <5>1 DEF IInv, FamiliesIssued
        <5> QED
          BY <3>2, <3>3, <3>4, <5>1, <5>2
      <4> QED
        BY <4>1, <4>2
    <3>7. issued' \in [Tokens -> IssuedType \cup {None}]
      BY <1>2, <3>1, <3>3
    <3>8. Grows(Tokens, issued, issued')
      BY <3>3, <3>4 DEF Grows
    <3> QED
      BY <2>2, <3>4, <3>5, <3>6, <3>7, <3>8
  <2> QED
    BY <2>1, <2>2
<1>4. /\ txn' \in [Requests -> {Idle} \cup AdmittedType \cup OpenType]
      /\ \A q \in Requests : txn'[q].phase = "open" =>
           q # r /\ txn'[q] = txn[q] /\ Opened(q)
  BY RequestTyped DEF IInv, Commit, Opened
<1>5. TypeOK'
  BY <1>1, <1>2, <1>3, <1>4 DEF TypeOK
<1>6. Grows(Resets, resets, resets)
  BY DEF Grows
<1>7. DocumentsFit'
  <2> SUFFICES ASSUME NEW v \in Users PROVE Fits(v, users'[v], None, issued', resets')
    BY DEF DocumentsFit
  <2>1. CASE v = u
    BY <1>1, <1>2, <1>3, <2>1
  <2>2. CASE v # u
    BY <1>1, <1>2, <1>3, <1>6, <2>2, FitsStays DEF IInv, DocumentsFit
  <2> QED
    BY <2>1, <2>2
<1>8. RequestsFit'
  <2> SUFFICES ASSUME NEW q \in Requests, q # r, Opened(q), txn'[q] = txn[q]
               PROVE  /\ Fits(txn[q].user, txn[q].doc, txn[q].grant, issued', resets')
                      /\ FreshGrant(txn[q].grant, issued')
                      /\ \A p \in Requests \ {q} : Opened(p)' /\ txn[q].grant # None /\ txn'[p].grant # None =>
                           txn[q].grant.token # txn'[p].grant.token
    BY <1>4 DEF RequestsFit, Opened
  <2> PICK h : h = txn[q].grant
    OBVIOUS
  <2>1. h \in GrantType \cup {None} /\ FreshGrant(h, issued) /\ (h # None /\ g # None => h.token # g.token)
    BY <1>1, RequestTyped DEF IInv, RequestsFit
  <2>2. Fits(txn[q].user, txn[q].doc, h, issued', resets')
    BY <1>1, <1>3, <1>6, FitsStays DEF IInv, RequestsFit
  <2>3. FreshGrant(h, issued')
    BY <1>3, <2>1 DEF FreshGrant, GrantType, Grows
  <2> QED
    BY <1>4, <2>2, <2>3 DEF IInv, RequestsFit, Opened
<1>9. ProfilesOwned'
  BY <1>1, <1>2 DEF IInv, ProfilesOwned, IndexAdmits
<1> QED
  BY <1>3, <1>5, <1>7, <1>8, <1>9 DEF IInv

----
(* What the handlers make of a document. *)

\* A document with the same credentials, or none.
LEMMA SessionsStay ==
  ASSUME NEW u, NEW d, NEW e, NEW g, NEW I, NEW R, Fits(u, d, None, I, R), e \in DocType, g = None,
         e.sessions \in {d.sessions, {}}, e.pw = d.pw, e.role = d.role, e.reset \in {d.reset, None},
         e.status = "blocked" => e.sessions = {}
  PROVE  SessionsFit(u, e, g, I) /\ ResetFits(u, e, R)
BY DEF Fits, SessionsFit, ResetFits, Live, Family

LEMMA NewPasswordFits ==
  ASSUME NEW u, NEW d, NEW I, NEW R, Fits(u, d, None, I, R), d.pw < MaxPasswords
  PROVE  Fits(u, PasswordDoc(d), None, I, R)
<1> PICK p, e : p = NewPassword(d) /\ e = Revoke(p)
  OBVIOUS
<1>1. d \in DocType /\ d.pw + 1 \in 0 .. MaxPasswords
  BY BoundsAssumption DEF Fits, DocType
<1>2. /\ p \in DocType /\ p.reset = None
      /\ p.chosen = d.chosen /\ p.profiles = d.profiles /\ p.role = d.role
  BY <1>1 DEF NewPassword, DocType
<1>3. /\ e \in DocType /\ e.sessions = {} /\ e.reset = None
      /\ e.chosen = d.chosen /\ e.profiles = d.profiles /\ e.role = d.role
  BY <1>2 DEF Revoke, DocType
<1>4. e = PasswordDoc(d)
  BY DEF PasswordDoc
<1> QED
  BY <1>3, <1>4 DEF Fits, SessionsFit, ResetFits, Selected, ActiveProfiles, OwnProfiles

\* A role, status or selection of profiles that leaves the credentials as they are.
LEMMA UpdateFits ==
  ASSUME NEW u, NEW d, NEW e, NEW status \in {"active", "blocked"}, NEW password \in BOOLEAN,
         NEW I, NEW R, Fits(u, d, None, I, R), e \in DocType, Selected(e),
         e.sessions = d.sessions, e.pw = d.pw, e.reset = d.reset, password => d.pw < MaxPasswords
  PROVE  Fits(u, UpdateDoc(d, e, status, password), None, I, R)
<1> PICK a : a = [e EXCEPT !.status = status]
  OBVIOUS
<1> PICK p : p = IF password THEN NewPassword(a) ELSE a
  OBVIOUS
<1> PICK x : x = UpdateDoc(d, e, status, password)
  OBVIOUS
<1>1. /\ a \in DocType /\ a.status = status /\ a.sessions = d.sessions /\ a.pw = d.pw
      /\ a.reset = d.reset /\ a.role = e.role /\ a.profiles = e.profiles /\ a.chosen = e.chosen
  BY DEF DocType
<1>2. password => d.pw + 1 \in 0 .. MaxPasswords
  BY BoundsAssumption DEF Fits, DocType
<1>3. /\ p \in DocType /\ p.status = status /\ p.sessions = d.sessions /\ p.role = e.role
      /\ p.profiles = e.profiles /\ p.chosen = e.chosen
      /\ IF password THEN p.reset = None ELSE p.pw = d.pw /\ p.reset = d.reset
  BY <1>1, <1>2 DEF NewPassword, DocType
<1>4. x = IF p.role # d.role \/ password \/ (p.status = "blocked" /\ d.status # "blocked")
          THEN Revoke(p) ELSE p
  BY DEF UpdateDoc
<1>5. /\ x \in DocType /\ x.status = status /\ x.role = e.role
      /\ x.profiles = e.profiles /\ x.chosen = e.chosen /\ x.pw = p.pw /\ x.reset = p.reset
      /\ \/ x.sessions = {}
         \/ /\ x.sessions = d.sessions /\ x.role = d.role /\ ~password
            /\ status = "blocked" => d.status = "blocked"
  BY <1>3, <1>4 DEF Revoke, DocType
<1>6. Selected(x)
  BY <1>5 DEF Selected, ActiveProfiles, OwnProfiles
<1>7. ResetFits(u, x, R)
  BY <1>3, <1>5 DEF Fits, ResetFits
<1>8. SessionsFit(u, x, None, I)
  BY <1>3, <1>5 DEF Fits, SessionsFit, Live, Family
<1> QED
  BY <1>5, <1>6, <1>7, <1>8 DEF Fits

\* Nothing but the role, the profiles and the one that is chosen differs.
SameCredentials(d, e) ==
  e.sessions = d.sessions /\ e.pw = d.pw /\ e.reset = d.reset /\ e.status = d.status

LEMMA RoleDocsFit ==
  ASSUME NEW d \in DocType, NEW role \in Roles, NEW ids \in IdSets \cup {None},
         NEW e \in RoleDocs(d, role, ids)
  PROVE  e \in DocType /\ Selected(e) /\ SameCredentials(d, e) /\ e.role = role
<1>1. CASE role = "student"
  <2>1. ids # None /\ ids \in IdSets
    BY <1>1 DEF RoleDocs
  <2>2. PICK p \in ids : e = [d EXCEPT !.role = role, !.chosen = p,
                     !.profiles = [q \in Profiles |-> IF q \in ids THEN "active" ELSE "none"]]
    BY <1>1, <2>1 DEF RoleDocs
  <2>3. /\ e \in DocType /\ e.chosen = p /\ p \in Profiles /\ e.role = role
        /\ e.profiles = [q \in Profiles |-> IF q \in ids THEN "active" ELSE "none"]
        /\ SameCredentials(d, e)
    BY <2>1, <2>2 DEF DocType, IdSets, SameCredentials
  <2> QED
    BY <1>1, <2>3 DEF Selected, ActiveProfiles
<1>2. CASE role # "student"
  <2>1. e = [d EXCEPT !.role = role, !.chosen = None, !.profiles = NoProfiles]
    BY <1>2 DEF RoleDocs
  <2>2. /\ e \in DocType /\ e.chosen = None /\ e.role = role
        /\ e.profiles = [p \in Profiles |-> "none"] /\ SameCredentials(d, e)
    BY <2>1 DEF DocType, NoProfiles, SameCredentials
  <2> QED
    BY <1>2, <2>2 DEF Selected, ActiveProfiles, OwnProfiles
<1> QED
  BY <1>1, <1>2

\* The next selection is one of the active profiles, or nothing when there is none.
LEMMA ChosenNextActive ==
  ASSUME NEW d \in DocType, NEW want, NEW p \in ChosenNext(d, want)
  PROVE  IF ActiveProfiles(d) = {} THEN p = None ELSE p \in ActiveProfiles(d)
BY DEF ChosenNext

LEMMA ChoosingFits ==
  ASSUME NEW d, NEW m \in DocType, NEW want, NEW p \in ChosenNext(m, want), m.role = "student",
         SameCredentials(d, m), NEW e, e = [m EXCEPT !.chosen = p]
  PROVE  e \in DocType /\ Selected(e) /\ SameCredentials(d, e) /\ e.role = "student"
<1>1. p \in Profiles \cup {None}
  BY ChosenNextActive DEF ActiveProfiles
<1>2. /\ e \in DocType /\ e.chosen = p /\ e.profiles = m.profiles /\ e.role = "student"
      /\ SameCredentials(d, e)
  BY <1>1 DEF DocType, SameCredentials
<1>3. ActiveProfiles(e) = ActiveProfiles(m)
  BY <1>2 DEF ActiveProfiles
<1>4. Selected(e)
  BY <1>2, <1>3, ChosenNextActive DEF Selected
<1> QED
  BY <1>2, <1>4

LEMMA ProfileDocsFit ==
  ASSUME NEW d \in DocType, Selected(d), NEW role \in Roles, NEW ids \in IdSets \cup {None}, NEW want,
         NEW e \in ProfileDocs(d, role, ids, want)
  PROVE  e \in DocType /\ Selected(e) /\ SameCredentials(d, e) /\ e.role = role
<1>1. CASE role # d.role
  BY <1>1, RoleDocsFit DEF ProfileDocs
<1>2. CASE role = d.role /\ e = d
  BY <1>2 DEF SameCredentials
<1>3. CASE role = d.role /\ role = "student" /\ ids # None
  <2> PICK m : m = Merge(d, ids)
    OBVIOUS
  <2>1. PICK p \in ChosenNext(m, want) : e = [m EXCEPT !.chosen = p]
    BY <1>3 DEF ProfileDocs, MergeDocs
  <2>2. m \in DocType /\ m.role = "student" /\ SameCredentials(d, m)
    BY <1>3 DEF Merge, DocType, SameCredentials
  <2> QED
    BY <1>3, <2>1, <2>2, ChoosingFits
<1>4. CASE role = d.role /\ role = "student" /\ ids = None /\ want # None
  <2>1. PICK p \in {want} \cap ActiveProfiles(d) : e = [d EXCEPT !.chosen = p]
    BY <1>4 DEF ProfileDocs
  <2>2. p \in ChosenNext(d, want)
    BY <1>4, <2>1 DEF ChosenNext
  <2>3. SameCredentials(d, d)
    BY DEF SameCredentials
  <2> QED
    BY <1>4, <2>1, <2>2, <2>3, ChoosingFits
<1> QED
  BY <1>1, <1>2, <1>3, <1>4 DEF ProfileDocs

LEMMA SyncDocsFit ==
  ASSUME NEW d \in DocType, d.role = "student", NEW seen, NEW added, NEW e \in SyncDocs(d, seen, added)
  PROVE  e \in DocType /\ Selected(e) /\ SameCredentials(d, e) /\ e.role = "student"
<1> PICK m : m = [d EXCEPT !.profiles =
              [p \in Profiles |->
                 IF d.profiles[p] = "none" THEN IF p \in added THEN "active" ELSE "none"
                 ELSE IF p \in seen THEN "active" ELSE "inactive"]]
  OBVIOUS
<1>1. PICK p \in ChosenNext(m, None) : e = [m EXCEPT !.chosen = p]
  BY DEF SyncDocs
<1>2. m \in DocType /\ m.role = "student" /\ SameCredentials(d, m)
  BY DEF DocType, SameCredentials
<1> QED
  BY <1>1, <1>2, ChoosingFits

----
(* The steps of the requests. *)

\* What the handler reads, and what it holds until the commit when no token goes out.
LEMMA HoldsNoToken ==
  ASSUME IInv, NEW r \in Requests, NEW u \in Users, NEW e, Open(r, u, e, None), ~Opened(r),
         UNCHANGED <<users, issued, resets>>, Fits(u, e, None, issued, resets)
  PROVE  IInv'
<1>1. resets' \in [Resets -> ResetType \cup {None}] /\ Grows(Resets, resets, resets')
  BY DEF IInv, TypeOK, Grows
<1> QED
  BY <1>1, Opens DEF FreshGrant

LEMMA Reads ==
  ASSUME IInv, NEW u \in Users
  PROVE  Fits(u, users[u], None, issued, resets) /\ users[u] \in DocType
BY DEF IInv, DocumentsFit, Fits

\* A token that is signed for the session of the family f.
LEMMA GrantSigned ==
  ASSUME TypeOK, NEW t, NextToken(t), NEW f \in Tokens, f = t \/ issued[f] # None,
         NEW g, g = [token |-> t, family |-> f]
  PROVE  /\ g \in GrantType /\ g # None /\ g.token = t /\ g.family = f /\ FreshGrant(g, issued)
         /\ g.token \notin Signed /\ t \in Tokens /\ issued[t] = None
<1>1. t \in Tokens \ Signed /\ issued[t] = None
  BY DEF NextToken, Signed
<1>2. g \in GrantType /\ g # None
  BY <1>1, NoneAssumption, BoundsAssumption DEF GrantType, Tokens
<1> QED
  BY <1>1, <1>2 DEF FreshGrant

LEMMA LoginStep ==
  ASSUME IInv, NEW r \in Requests, NEW u \in Users, Login(r, u)
  PROVE  IInv'
<1> PICK d : d = users[u]
  OBVIOUS
<1>1. PICK t \in Tokens : /\ NextToken(t)
                          /\ Open(r, u, [d EXCEPT !.sessions = @ \cup {t}], [token |-> t, family |-> t])
  BY DEF Login
<1> PICK e, g : e = [d EXCEPT !.sessions = @ \cup {t}] /\ g = [token |-> t, family |-> t]
  OBVIOUS
<1>2. /\ g \in GrantType /\ g # None /\ g.token = t /\ g.family = t /\ FreshGrant(g, issued)
      /\ g.token \notin Signed /\ issued[t] = None
  BY <1>1, GrantSigned DEF IInv
<1>3. Fits(u, d, None, issued, resets) /\ d \in DocType /\ d.status = "active"
  BY Reads DEF Login, Active
<1>4. /\ e \in DocType /\ e.sessions = d.sessions \cup {t}
      /\ e.pw = d.pw /\ e.role = d.role /\ e.reset = d.reset /\ e.status = d.status
      /\ e.chosen = d.chosen /\ e.profiles = d.profiles
  BY <1>3 DEF DocType
<1>5. \A s \in d.sessions : /\ Live(u, d, None, issued, s) /\ s \in Tokens /\ s # t
                            /\ issued[s].family # t
  BY <1>2, <1>3 DEF Fits, SessionsFit, Live, DocType, IInv, FamiliesIssued
<1>6. \A s \in e.sessions : Live(u, e, g, issued, s)
  BY <1>2, <1>4, <1>5 DEF Live
<1>7. \A s, q \in d.sessions : s # q => Family(g, issued, s) # Family(g, issued, q)
  BY <1>2, <1>3, <1>5 DEF Fits, SessionsFit, Family
<1>8. \A s \in d.sessions : Family(g, issued, s) # Family(g, issued, t)
  BY <1>2, <1>5 DEF Family
<1>9. SessionsFit(u, e, g, issued)
  BY <1>3, <1>4, <1>6, <1>7, <1>8 DEF SessionsFit
<1>10. ResetFits(u, e, resets) /\ Selected(e)
  BY <1>3, <1>4 DEF Fits, ResetFits, Selected, ActiveProfiles, OwnProfiles
<1>11. /\ resets' \in [Resets -> ResetType \cup {None}] /\ Grows(Resets, resets, resets')
       /\ ~Opened(r) /\ Open(r, u, e, g) /\ UNCHANGED <<users, issued, resets>>
  BY <1>1 DEF IInv, TypeOK, Grows, Login, Opened, Idle
<1> QED
  BY <1>2, <1>4, <1>9, <1>10, <1>11, Opens DEF Fits

LEMMA RefreshStep ==
  ASSUME IInv, NEW r \in Requests, NEW t \in Tokens, Refresh(r, t)
  PROVE  IInv'
<1> PICK u, d, f : u = issued[t].user /\ d = users[u] /\ f = issued[t].family
  OBVIOUS
<1>1. /\ issued[t] # None /\ u \in Users /\ f \in Tokens /\ issued[f] # None
      /\ t \in d.sessions /\ d.status = "active"
  BY DEF Refresh, IInv, TypeOK, IssuedType, FamiliesIssued, Active
<1>2. PICK next \in Tokens : /\ NextToken(next)
                             /\ Open(r, u, RotateDoc(d, t, next), [token |-> next, family |-> f])
  BY DEF Refresh
<1> PICK e, g : e = RotateDoc(d, t, next) /\ g = [token |-> next, family |-> f]
  OBVIOUS
<1>3. /\ g \in GrantType /\ g # None /\ g.token = next /\ g.family = f /\ FreshGrant(g, issued)
      /\ g.token \notin Signed /\ issued[next] = None
  BY <1>1, <1>2, GrantSigned DEF IInv
<1>4. Fits(u, d, None, issued, resets) /\ d \in DocType
  BY <1>1, Reads
<1>5. /\ e \in DocType /\ e.sessions = (d.sessions \ {t}) \cup {next}
      /\ e.pw = d.pw /\ e.role = d.role /\ e.reset = d.reset /\ e.status = d.status
      /\ e.chosen = d.chosen /\ e.profiles = d.profiles
  BY <1>4 DEF DocType, RotateDoc
<1>6. \A s \in d.sessions : /\ Live(u, d, None, issued, s) /\ s # next
                            /\ s # t => issued[s].family # f
  BY <1>1, <1>3, <1>4 DEF Fits, SessionsFit, Live, Family
<1>7. \A s \in e.sessions : Live(u, e, g, issued, s)
  BY <1>3, <1>5, <1>6 DEF Live
<1>8. \A s, q \in d.sessions : s # q => Family(g, issued, s) # Family(g, issued, q)
  BY <1>3, <1>4, <1>6 DEF Fits, SessionsFit, Family
<1>9. \A s \in d.sessions \ {t} : Family(g, issued, s) # Family(g, issued, next)
  BY <1>3, <1>6 DEF Family
<1>10. SessionsFit(u, e, g, issued)
  BY <1>1, <1>5, <1>7, <1>8, <1>9 DEF SessionsFit
<1>11. ResetFits(u, e, resets) /\ Selected(e)
  BY <1>4, <1>5 DEF Fits, ResetFits, Selected, ActiveProfiles, OwnProfiles
<1>12. /\ resets' \in [Resets -> ResetType \cup {None}] /\ Grows(Resets, resets, resets')
       /\ ~Opened(r) /\ Open(r, u, e, g) /\ UNCHANGED <<users, issued, resets>>
  BY <1>2 DEF IInv, TypeOK, Grows, Refresh, Opened, Idle
<1> QED
  BY <1>1, <1>3, <1>5, <1>10, <1>11, <1>12, Opens DEF Fits

LEMMA LogoutStep ==
  ASSUME IInv, NEW r \in Requests, NEW t \in Tokens, Logout(r, t)
  PROVE  IInv'
<1> PICK u, d, e : u = issued[t].user /\ d = users[u] /\ e = [d EXCEPT !.sessions = @ \ {t}]
  OBVIOUS
<1>1. u \in Users /\ Open(r, u, e, None) /\ ~Opened(r) /\ UNCHANGED <<users, issued, resets>>
  BY DEF Logout, IInv, TypeOK, IssuedType, Opened, Idle
<1>2. Fits(u, d, None, issued, resets) /\ d \in DocType
  BY <1>1, Reads
<1>3. /\ e \in DocType /\ e.sessions = d.sessions \ {t}
      /\ e.pw = d.pw /\ e.role = d.role /\ e.reset = d.reset /\ e.status = d.status
      /\ e.chosen = d.chosen /\ e.profiles = d.profiles
  BY <1>2 DEF DocType
<1>4. Fits(u, e, None, issued, resets)
  BY <1>2, <1>3 DEF Fits, SessionsFit, Live, Family, ResetFits, Selected, ActiveProfiles, OwnProfiles
<1> QED
  BY <1>1, <1>4, HoldsNoToken

LEMMA PasswordStep ==
  ASSUME IInv, NEW r \in Requests, ChangePassword(r) \/ \E k \in Resets : ConfirmPasswordReset(r, k)
  PROVE  IInv'
<1>1. PICK u \in Users : /\ users[u].pw < MaxPasswords
                         /\ Open(r, u, PasswordDoc(users[u]), None)
  BY UsersAssumption DEF ChangePassword, ConfirmPasswordReset
<1>2. Fits(u, PasswordDoc(users[u]), None, issued, resets)
  BY <1>1, Reads, NewPasswordFits
<1>3. ~Opened(r) /\ UNCHANGED <<users, issued, resets>>
  BY DEF ChangePassword, ConfirmPasswordReset, Opened, Idle
<1> QED
  BY <1>1, <1>2, <1>3, HoldsNoToken

\* The link is mailed, and counts as mailed, although its document is not committed.
LEMMA RequestPasswordResetStep ==
  ASSUME IInv, NEW r \in Requests, NEW u \in Users, RequestPasswordReset(r, u)
  PROVE  IInv'
<1> PICK d : d = users[u]
  OBVIOUS
<1>1. PICK k \in Resets : /\ resets[k] = None
                          /\ resets' = [resets EXCEPT ![k] = [user |-> u, pw |-> d.pw]]
                          /\ Open(r, u, [d EXCEPT !.reset = k], None)
  BY DEF RequestPasswordReset
<1> PICK e, m : e = [d EXCEPT !.reset = k] /\ m = [user |-> u, pw |-> d.pw]
  OBVIOUS
<1>2. Fits(u, d, None, issued, resets) /\ d \in DocType
  BY Reads
<1>3. m \in ResetType /\ m # None /\ m.user = u /\ m.pw = d.pw
  BY <1>2, NoneAssumption, BoundsAssumption DEF ResetType, DocType
<1>4. /\ resets' \in [Resets -> ResetType \cup {None}] /\ resets'[k] = m
      /\ Grows(Resets, resets, resets')
  BY <1>1, <1>3 DEF IInv, TypeOK, Grows
<1>5. /\ e \in DocType /\ e.reset = k /\ e.pw = d.pw /\ e.role = d.role /\ e.status = d.status
      /\ e.sessions = d.sessions /\ e.chosen = d.chosen /\ e.profiles = d.profiles
  BY <1>2 DEF DocType
<1>6. Fits(u, e, None, issued, resets')
  BY <1>2, <1>3, <1>4, <1>5
  DEF Fits, SessionsFit, Live, Family, ResetFits, Selected, ActiveProfiles, OwnProfiles
<1>7. ~Opened(r) /\ UNCHANGED <<users, issued>>
  BY DEF RequestPasswordReset, Opened, Idle
<1> QED
  BY <1>1, <1>4, <1>6, <1>7, Opens DEF FreshGrant

LEMMA UpdateStep ==
  ASSUME IInv, NEW r \in Requests, NEW u \in Users, Update(r, u)
  PROVE  IInv'
<1> PICK d : d = users[u]
  OBVIOUS
<1>1. PICK role \in Roles, status \in {"active", "blocked"}, password \in BOOLEAN,
           ids \in IdSets \cup {None}, want \in Profiles \cup {None} :
        /\ password => d.pw < MaxPasswords
        /\ \E e \in ProfileDocs(d, role, ids, want) : Open(r, u, UpdateDoc(d, e, status, password), None)
  BY DEF Update
<1>2. PICK e \in ProfileDocs(d, role, ids, want) : Open(r, u, UpdateDoc(d, e, status, password), None)
  BY <1>1
<1>3. Fits(u, d, None, issued, resets) /\ d \in DocType /\ Selected(d)
  BY Reads DEF Fits
<1>4. e \in DocType /\ Selected(e) /\ SameCredentials(d, e)
  BY <1>2, <1>3, ProfileDocsFit
<1>5. Fits(u, UpdateDoc(d, e, status, password), None, issued, resets)
  BY <1>1, <1>3, <1>4, UpdateFits DEF SameCredentials
<1>6. ~Opened(r) /\ UNCHANGED <<users, issued, resets>>
  BY DEF Update, AdmittedAdmin, Opened
<1> QED
  BY <1>2, <1>5, <1>6, HoldsNoToken

\* A rebuilt document of the same role keeps its sessions, one of another role has none.
LEMMA ChangeRoleStep ==
  ASSUME IInv, NEW r \in Requests, NEW u \in Users, ChangeRole(r, u)
  PROVE  IInv'
<1> PICK d : d = users[u]
  OBVIOUS
<1>0. PICK role \in Roles, ids \in IdSets \cup {None} :
        \E e \in RoleDocs(d, role, ids) : Open(r, u, IF role # d.role THEN Revoke(e) ELSE e, None)
  BY DEF ChangeRole
<1>1. PICK e \in RoleDocs(d, role, ids) : Open(r, u, IF role # d.role THEN Revoke(e) ELSE e, None)
  BY <1>0
<1> PICK x : x = IF role # d.role THEN Revoke(e) ELSE e
  OBVIOUS
<1>2. Fits(u, d, None, issued, resets) /\ d \in DocType
  BY Reads
<1>3. e \in DocType /\ Selected(e) /\ SameCredentials(d, e) /\ e.role = role
  BY <1>1, <1>2, RoleDocsFit
<1>4. /\ x \in DocType /\ x.pw = d.pw /\ x.reset = d.reset /\ x.status = d.status
      /\ x.role = role /\ x.chosen = e.chosen /\ x.profiles = e.profiles
      /\ x.sessions = IF role # d.role THEN {} ELSE d.sessions
  BY <1>3 DEF DocType, Revoke, SameCredentials
<1>5. Selected(x)
  BY <1>3, <1>4 DEF Selected, ActiveProfiles, OwnProfiles
<1>6. SessionsFit(u, x, None, issued) /\ ResetFits(u, x, resets)
  BY <1>2, <1>4 DEF Fits, SessionsFit, ResetFits, Live, Family
<1>7. ~Opened(r) /\ UNCHANGED <<users, issued, resets>>
  BY DEF ChangeRole, AdmittedAdmin, Opened
<1> QED
  BY <1>1, <1>4, <1>5, <1>6, <1>7, HoldsNoToken DEF Fits

LEMMA ToggleBlockStep ==
  ASSUME IInv, NEW r \in Requests, NEW u \in Users, ToggleBlock(r, u)
  PROVE  IInv'
<1> PICK d : d = users[u]
  OBVIOUS
<1> PICK x : x = IF Active(u) THEN BlockedDoc(d) ELSE [d EXCEPT !.status = "active"]
  OBVIOUS
<1>1. Open(r, u, x, None) /\ ~Opened(r) /\ UNCHANGED <<users, issued, resets>>
  BY DEF ToggleBlock, AdmittedAdmin, Opened
<1>2. Fits(u, d, None, issued, resets) /\ d \in DocType
  BY Reads
<1>3. /\ x \in DocType /\ x.pw = d.pw /\ x.role = d.role
      /\ x.chosen = d.chosen /\ x.profiles = d.profiles
      /\ \/ x.status = "blocked" /\ x.sessions = {} /\ x.reset = None
         \/ x.status = "active" /\ x.sessions = d.sessions /\ x.reset = d.reset
  BY <1>2 DEF DocType, BlockedDoc
<1>4. Selected(x)
  BY <1>2, <1>3 DEF Fits, Selected, ActiveProfiles, OwnProfiles
<1>5. SessionsFit(u, x, None, issued) /\ ResetFits(u, x, resets)
  BY <1>2, <1>3 DEF Fits, SessionsFit, ResetFits, Live, Family
<1> QED
  BY <1>1, <1>3, <1>4, <1>5, HoldsNoToken DEF Fits

LEMMA AbsentFits ==
  ASSUME NEW u, NEW I, NEW R
  PROVE  Absent \in DocType /\ Fits(u, Absent, None, I, R) /\ OwnProfiles(Absent) = {}
BY RolesAssumption, BoundsAssumption
DEF Absent, NoProfiles, DocType, Fits, SessionsFit, ResetFits, Selected, ActiveProfiles, OwnProfiles

LEMMA CreateUserStep ==
  ASSUME IInv, NEW r \in Requests, NEW u \in Users, CreateUser(r, u)
  PROVE  IInv'
<1>0. PICK role \in Roles, status \in {"active", "blocked"}, ids \in IdSets \cup {None} :
        \E e \in RoleDocs(Absent, role, ids) : Open(r, u, [e EXCEPT !.status = status], None)
  BY DEF CreateUser
<1> PICK a : a = Absent
  OBVIOUS
<1>1. PICK e \in RoleDocs(a, role, ids) : Open(r, u, [e EXCEPT !.status = status], None)
  BY <1>0
<1> PICK x : x = [e EXCEPT !.status = status]
  OBVIOUS
<1>2. e \in DocType /\ Selected(e) /\ e.sessions = {} /\ e.reset = None
  <2>1. a \in DocType
    BY AbsentFits
  <2>2. a.sessions = {} /\ a.reset = None
    BY DEF Absent
  <2>3. e \in DocType /\ Selected(e) /\ SameCredentials(a, e)
    BY <1>1, <2>1, RoleDocsFit
  <2> QED
    BY <2>2, <2>3 DEF SameCredentials
<1>3. /\ x \in DocType /\ x.sessions = {} /\ x.reset = None
      /\ x.role = e.role /\ x.chosen = e.chosen /\ x.profiles = e.profiles
  BY <1>2 DEF DocType
<1>4. Fits(u, x, None, issued, resets)
  BY <1>2, <1>3 DEF Fits, SessionsFit, ResetFits, Selected, ActiveProfiles, OwnProfiles
<1>5. ~Opened(r) /\ UNCHANGED <<users, issued, resets>>
  BY DEF CreateUser, AdmittedAdmin, Opened
<1> QED
  BY <1>1, <1>4, <1>5, HoldsNoToken

LEMMA SyncStudentStep ==
  ASSUME IInv, NEW r \in Requests, NEW u \in Users, SyncStudent(r, u)
  PROVE  IInv'
<1> PICK d : d = users[u]
  OBVIOUS
<1>1. PICK seen, added, e : e \in SyncDocs(d, seen, added) /\ Open(r, u, e, None)
  BY DEF SyncStudent
<1>2. Fits(u, d, None, issued, resets) /\ d \in DocType /\ d.role = "student"
  BY Reads DEF SyncStudent
<1>3. e \in DocType /\ Selected(e) /\ SameCredentials(d, e) /\ e.role = d.role
  BY <1>1, <1>2, SyncDocsFit
<1>4. SessionsFit(u, e, None, issued) /\ ResetFits(u, e, resets)
  BY <1>2, <1>3 DEF Fits, SessionsFit, ResetFits, Live, Family, SameCredentials
<1>5. ~Opened(r) /\ UNCHANGED <<users, issued, resets>>
  BY DEF SyncStudent, AdmittedAdmin, Opened
<1> QED
  BY <1>1, <1>3, <1>4, <1>5, HoldsNoToken DEF Fits

\* A request is admitted on the account as it is now, or ends without a trace.
LEMMA AdmitOrFailStep ==
  ASSUME IInv, NEW r \in Requests, Fail(r) \/ \E u \in Users : Admit(r, u)
  PROVE  IInv'
<1>1. CASE Fail(r)
  BY <1>1, Ends DEF Fail
<1>2. CASE \E u \in Users : Admit(r, u)
  <2>1. PICK u \in Users : Admit(r, u)
    BY <1>2
  <2>2. [phase |-> "admitted", actor |-> u, role |-> users[u].role] \in AdmittedType
    BY Reads DEF AdmittedType, DocType
  <2> QED
    BY <2>1, <2>2, Ends DEF Admit
<1> QED
  BY <1>1, <1>2

----
(* The theorems. *)

\* The invariant is inductive: whatever handlers overlap, fail or are run again, every document,
\* committed or held, fits the tokens that were handed out and the links that were mailed.
THEOREM AccountsInductive == Spec => []IInv
<1>1. Init => IInv
  <2> SUFFICES ASSUME Init PROVE IInv
    OBVIOUS
  <2> USE DEF Init
  <2>1. \A u \in Users : /\ users[u].role \in {"admin", "student"}
                         /\ users[u].status \in {"active", "absent"}
                         /\ users[u] \in DocType /\ users[u].sessions = {}
                         /\ users[u].reset = None /\ users[u].chosen = None
                         /\ users[u].profiles = NoProfiles
    BY AbsentFits, RolesAssumption DEF Absent, DocType
  <2>2. TypeOK
    BY <2>1 DEF TypeOK
  <2>3. \A u \in Users : Fits(u, users[u], None, issued, resets) /\ OwnProfiles(users[u]) = {}
    BY <2>1 DEF Fits, SessionsFit, ResetFits, Selected, ActiveProfiles, OwnProfiles, NoProfiles
  <2>4. RequestsFit /\ FamiliesIssued
    BY DEF RequestsFit, FamiliesIssued, Opened, Idle
  <2> QED
    BY <2>2, <2>3, <2>4 DEF IInv, DocumentsFit, ProfilesOwned
<1>2. IInv /\ [Next]_vars => IInv'
  <2> SUFFICES ASSUME IInv, [Next]_vars PROVE IInv'
    OBVIOUS
  <2>1. ASSUME NEW r \in Requests,
               Commit(r) \/ Fail(r) \/ (\E u \in Users : Admit(r, u))
        PROVE  IInv'
    BY <2>1, CommitStep, AdmitOrFailStep
  <2>2. ASSUME NEW r \in Requests,
               \/ ChangePassword(r) \/ \E k \in Resets : ConfirmPasswordReset(r, k)
               \/ \E t \in Tokens : Refresh(r, t) \/ Logout(r, t)
        PROVE  IInv'
    BY <2>2, PasswordStep, RefreshStep, LogoutStep
  <2>3. ASSUME NEW r \in Requests, NEW u \in Targets,
               \/ Login(r, u) \/ RequestPasswordReset(r, u)
               \/ Update(r, u) \/ ChangeRole(r, u) \/ ToggleBlock(r, u) \/ CreateUser(r, u)
               \/ SyncStudent(r, u)
        PROVE  IInv'
    <3>1. u \in Users
      BY UsersAssumption
    <3> QED
      BY <2>3, <3>1, LoginStep, RequestPasswordResetStep, UpdateStep, ChangeRoleStep,
         ToggleBlockStep, CreateUserStep, SyncStudentStep
  <2>4. CASE UNCHANGED vars
    BY <2>4 DEF vars, IInv, TypeOK, DocumentsFit, RequestsFit, FamiliesIssued, ProfilesOwned, Opened
  <2> QED
    BY <2>1, <2>2, <2>3, <2>4 DEF Next
<1> QED
  BY <1>1, <1>2, PTL DEF Spec

\* Documents, tokens, links and requests are well formed; in particular a request never holds a
\* document that the schema would refuse.
THEOREM AccountsTypeCorrect == Spec => []TypeOK
<1>1. IInv => TypeOK
  BY DEF IInv
<1> QED
  BY <1>1, AccountsInductive, PTL

\* A blocked account has no session, and no token or reset link of an earlier password or role
\* works, whatever logins, refreshes and changes overlap (AuthService, UsersService).
THEOREM CredentialsAreCurrent == Spec => []CredentialsCurrent
<1>1. IInv => CredentialsCurrent
  <2> SUFFICES ASSUME IInv, NEW u \in Users
               PROVE  /\ users[u].status = "blocked" => users[u].sessions = {}
                      /\ \A t \in users[u].sessions :
                           issued[t] # None /\ issued[t].user = u /\ issued[t].pw = users[u].pw
                                            /\ issued[t].role = users[u].role
                      /\ users[u].reset # None =>
                           resets[users[u].reset] # None /\ resets[users[u].reset].user = u
                                                         /\ resets[users[u].reset].pw = users[u].pw
    BY DEF CredentialsCurrent
  <2> QED
    BY DEF IInv, DocumentsFit, Fits, SessionsFit, ResetFits, Live
<1> QED
  BY <1>1, AccountsInductive, PTL

\* The live tokens of an account are of different sessions: rotation never leaves two descendants
\* of one login (refresh, logout and rotateRefreshTokenHash).
THEOREM SessionsHaveOneToken == Spec => []OneTokenPerSession
<1>1. IInv => OneTokenPerSession
  BY DEF IInv, DocumentsFit, Fits, SessionsFit, Live, Family, OneTokenPerSession
<1> QED
  BY <1>1, AccountsInductive, PTL

\* The selected profile is an active one of the account, and an external student id belongs to one
\* account (createRoleUpdateOperation, mergeStudentProfiles, resolveNextActiveProfileId and the
\* synchronisation).
THEOREM SelectedProfileIsActive == Spec => []ActiveProfileSelected
<1>1. IInv => ActiveProfileSelected
  BY DEF IInv, DocumentsFit, Fits, Selected, ProfilesOwned, ActiveProfileSelected
<1> QED
  BY <1>1, AccountsInductive, PTL
====
