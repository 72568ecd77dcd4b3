---- MODULE Accounts ----
(***************************************************************************)
(* User accounts and their sessions: AuthService (login, refresh, logout,  *)
(* password change and reset), UsersService (create, update, changeRole,   *)
(* toggleBlock) and StudentProfileSyncService.                             *)
(*                                                                         *)
(* Every one of these handlers answers a POST or a PATCH, so the           *)
(* TransactionInterceptor runs it in a transaction: it reads a snapshot,   *)
(* writes one user document, and commits unless another transaction has    *)
(* committed a change of that document since.  The guards of a protected   *)
(* route run before the transaction starts, on a user read of their own.   *)
(* So a request is admitted, runs its handler on the snapshot (an `open`   *)
(* transaction holding the document it will write), and commits or aborts; *)
(* anything may happen in between.                                         *)
(*                                                                         *)
(* Abstracted: a password is the number of times it was changed; a student *)
(* profile is its externalStudentId; tokens are numbered in the order in   *)
(* which they are signed; expiry of tokens only refuses requests, which    *)
(* the model may do anyway by not making them.                             *)
(***************************************************************************)
EXTENDS Integers, FiniteSets

CONSTANTS Users,         \* accounts, created or still to be created
          InitialAdmins, \* the administrators there are at first
          Roles,         \* Role; members that are neither of the two named below behave alike
          Targets,       \* bound: the accounts whose documents requests write
          Requests,      \* requests under way at one time
          Profiles,      \* externalStudentIds
          None,
          MaxTokens,     \* bound on the refresh tokens signed
          MaxPasswords,  \* bound on the changes of one password
          MaxResets      \* bound on the reset links mailed

ASSUME UsersAssumption == InitialAdmins \subseteq Users /\ Targets \subseteq Users
ASSUME RolesAssumption == {"admin", "student"} \subseteq Roles
ASSUME NoneAssumption ==
  /\ None \notin Users \cup Profiles \cup Roles \cup Int
  /\ None \notin [token : Nat, family : Nat] \cup [user : Users, pw : Nat]
                 \cup [user : Users, pw : Nat, role : Roles, family : Nat]
ASSUME BoundsAssumption == MaxTokens \in Nat /\ MaxPasswords \in Nat /\ MaxResets \in Nat

VARIABLES users,   \* the committed user documents
          issued,  \* what is known of each refresh token that was handed out
          resets,  \* the password under which each reset link was mailed
          txn      \* the place of each request

vars == <<users, issued, resets, txn>>

Tokens == 1 .. MaxTokens
Resets == 1 .. MaxResets

NoProfiles == [p \in Profiles |-> "none"]

Absent == [role |-> "student", status |-> "absent", pw |-> 0, sessions |-> {},
           reset |-> None, profiles |-> NoProfiles, chosen |-> None]

Idle == [phase |-> "idle"]

Exists(u) == users[u].status # "absent"
Active(u) == users[u].status = "active"
ActiveProfiles(d) == {p \in Profiles : d.profiles[p] = "active"}
OwnProfiles(d) == {p \in Profiles : d.profiles[p] # "none"}

----
(* Transactions. *)

\* JwtStrategy.validate and RolesGuard, before the interceptor: the account is read now.
Admit(r, u) ==
  /\ txn[r] = Idle
  /\ Active(u)
  /\ txn' = [txn EXCEPT ![r] = [phase |-> "admitted", actor |-> u, role |-> users[u].role]]
  /\ UNCHANGED <<users, issued, resets>>

AdmittedAdmin(r) == txn[r].phase = "admitted" /\ txn[r].role = "admin"

\* The handler has run on the snapshot; `doc` is what it writes, `grant` the token it signed.
Open(r, u, doc, grant) ==
  txn' = [txn EXCEPT ![r] = [phase |-> "open", user |-> u, doc |-> doc, grant |-> grant]]

\* jti is a random UUID, so a signature always yields a token that was not there before.
Signed == {t \in Tokens : issued[t] # None}
          \cup {txn[q].grant.token : q \in {o \in Requests : txn[o].phase = "open" /\ txn[o].grant # None}}
NextToken(t) == t \in Tokens \ Signed /\ \A s \in Tokens \ Signed : t <= s

\* Mutant: the index is declared without `unique`.
IndexAdmitsAny(u, doc) == TRUE

\* The unique index on studentProfiles.externalStudentId, over committed documents.
IndexAdmits(u, doc) == \A v \in Users \ {u} : OwnProfiles(users[v]) \cap OwnProfiles(doc) = {}

\* The commit installs the document.  A transaction that is to write the same one must now fail,
\* and the driver runs its handler again: as if it had not begun yet.
Commit(r) ==
  /\ txn[r].phase = "open"
  /\ LET u == txn[r].user  d == txn[r].doc  g == txn[r].grant IN
     /\ IndexAdmits(u, d)
     /\ users' = [users EXCEPT ![u] = d]
     /\ issued' = IF g = None THEN issued
                  ELSE [issued EXCEPT ![g.token] = [user |-> u, pw |-> d.pw, role |-> d.role,
                                                    family |-> g.family]]
     /\ txn' = [q \in Requests |->
                  IF q = r \/ (txn[q].phase = "open" /\ txn[q].user = u) THEN Idle ELSE txn[q]]
  /\ UNCHANGED resets

\* Any other end: the handler refuses, a statement fails, the process dies.
Fail(r) ==
  /\ txn[r] # Idle
  /\ txn' = [txn EXCEPT ![r] = Idle]
  /\ UNCHANGED <<users, issued, resets>>

----
(* AuthService. *)

Revoke(d) == [d EXCEPT !.sessions = {}]
\* Mutant: the new password leaves the mailed link in force.
NewPasswordOldLink(d) == [d EXCEPT !.pw = @ + 1]

NewPassword(d) == [d EXCEPT !.pw = @ + 1, !.reset = None]

\* The caller knows the password of the document that is read; the token starts a session.
Login(r, u) ==
  /\ txn[r] = Idle
  /\ Active(u)
  /\ \E t \in Tokens :
       /\ NextToken(t)
       /\ Open(r, u, [users[u] EXCEPT !.sessions = @ \cup {t}], [token |-> t, family |-> t])
  /\ UNCHANGED <<users, issued, resets>>

\* Mutant: the hash of the new token is pushed and the old one stays.
RotateDocPush(d, t, next) == [d EXCEPT !.sessions = @ \cup {next}]

\* rotateRefreshTokenHash: `refreshTokenHashes.$` replaces the hash that was presented.
RotateDoc(d, t, next) == [d EXCEPT !.sessions = (@ \ {t}) \cup {next}]

\* Whoever holds a token may present it, whether or not it has been used before.
Refresh(r, t) ==
  /\ txn[r] = Idle
  /\ issued[t] # None
  /\ LET u == issued[t].user IN
     /\ Active(u)
     /\ t \in users[u].sessions
     /\ \E next \in Tokens :
          /\ NextToken(next)
          /\ Open(r, u, RotateDoc(users[u], t, next),
                  [token |-> next, family |-> issued[t].family])
  /\ UNCHANGED <<users, issued, resets>>

Logout(r, t) ==
  /\ txn[r] = Idle
  /\ issued[t] # None
  /\ LET u == issued[t].user IN
     /\ Active(u)
     /\ t \in users[u].sessions
     /\ Open(r, u, [users[u] EXCEPT !.sessions = @ \ {t}], None)
  /\ UNCHANGED <<users, issued, resets>>

\* updatePassword, then removeAllRefreshTokenHashes.
PasswordDoc(d) == Revoke(NewPassword(d))

ChangePassword(r) ==
  /\ txn[r].phase = "admitted"
  /\ LET u == txn[r].actor IN
     /\ u \in Targets /\ users[u].pw < MaxPasswords
     /\ Open(r, u, PasswordDoc(users[u]), None)
  /\ UNCHANGED <<users, issued, resets>>

\* The mail leaves while the transaction is open, so the link exists even if it aborts.
RequestPasswordReset(r, u) ==
  /\ txn[r] = Idle
  /\ Active(u)
  /\ \E k \in Resets :
       /\ resets[k] = None /\ \A j \in Resets : j < k => resets[j] # None
       /\ resets' = [resets EXCEPT ![k] = [user |-> u, pw |-> users[u].pw]]
       /\ Open(r, u, [users[u] EXCEPT !.reset = k], None)
  /\ UNCHANGED <<users, issued>>

\* consumePasswordResetToken finds the active account by the hash of the link's token.
ConfirmPasswordReset(r, k) ==
  /\ txn[r] = Idle
  /\ resets[k] # None
  /\ \E u \in Targets :
       /\ users[u].reset = k /\ Active(u) /\ users[u].pw < MaxPasswords
       /\ Open(r, u, PasswordDoc(users[u]), None)
  /\ UNCHANGED <<users, issued, resets>>

----
(* UsersService. *)

\* assertProfilesAvailable, on the snapshot.
Available(u, ids) == \A v \in Users \ {u} : OwnProfiles(users[v]) \cap ids = {}

\* assertAnotherActiveAdminExists: a count over documents this transaction does not write.
AnotherActiveAdmin(u) ==
  users[u].role = "admin" /\ Active(u) =>
    \E v \in Users \ {u} : users[v].role = "admin" /\ Active(v)

\* Mutant: the first profile itself is stored instead of its id.
RoleDocsWhole(d, role, ids) ==
  IF role # "student" \/ ids = None THEN {}
  ELSE {[d EXCEPT !.role = role, !.chosen = [externalStudentId |-> p],
                  !.profiles = [q \in Profiles |-> IF q \in ids THEN "active" ELSE "none"]]
          : p \in ids}

\* buildStudentProfiles and createRoleUpdateOperation: what a change of role makes of the
\* document.  `ids` is None when the request has no profiles, and their order is the caller's.
RoleDocs(d, role, ids) ==
  IF role = "student"
  THEN IF ids = None THEN {}
       ELSE {[d EXCEPT !.role = role, !.chosen = p,
                       !.profiles = [q \in Profiles |-> IF q \in ids THEN "active" ELSE "none"]]
               : p \in ids}
  ELSE IF ids # None THEN {}
       ELSE {[d EXCEPT !.role = role, !.chosen = None, !.profiles = NoProfiles]}

\* resolveNextActiveProfileId: the requested profile, the previous one, or the first active.
ChosenNext(d, want) ==
  IF want # None THEN {want} \cap ActiveProfiles(d)
  ELSE IF d.chosen \in ActiveProfiles(d) THEN {d.chosen}
  ELSE IF ActiveProfiles(d) = {} THEN {None} ELSE ActiveProfiles(d)

\* mergeStudentProfiles: profiles missing from the request become inactive.
Merge(d, ids) ==
  [d EXCEPT !.profiles =
     [p \in Profiles |-> IF p \in ids THEN IF d.profiles[p] = "none" THEN "active" ELSE d.profiles[p]
                         ELSE IF d.profiles[p] = "none" THEN "none" ELSE "inactive"]]

MergeDocs(d, ids, want) ==
  {[Merge(d, ids) EXCEPT !.chosen = p] : p \in ChosenNext(Merge(d, ids), want)}

\* The part of update that deals with the role and the profiles.
ProfileDocs(d, role, ids, want) ==
  IF role # d.role THEN RoleDocs(d, role, ids)
  ELSE IF d.role # "student" THEN {d}
  ELSE IF ids # None THEN MergeDocs(d, ids, want)
  ELSE IF want = None THEN {d}
  ELSE {[d EXCEPT !.chosen = p] : p \in {want} \cap ActiveProfiles(d)}

\* The status and the password, and the sessions these and a new role revoke.
UpdateDoc(old, d, status, password) ==
  LET s == [d EXCEPT !.status = status]
      p == IF password THEN NewPassword(s) ELSE s
  IN  IF p.role # old.role \/ password \/ (p.status = "blocked" /\ old.status # "blocked")
      THEN Revoke(p) ELSE p

IdSets == {ids \in SUBSET Profiles : ids # {}}

\* A role or a status left out of the request stands for the present one.
Update(r, u) ==
  /\ AdmittedAdmin(r) /\ Exists(u)
  /\ \E role \in Roles, status \in {"active", "blocked"}, password \in BOOLEAN,
        ids \in IdSets \cup {None}, want \in Profiles \cup {None} :
       LET d == users[u]
           roleChanged == role # d.role
           blocks == status = "blocked" /\ d.status # "blocked"
       IN /\ txn[r].actor = u => ~ roleChanged /\ ~ blocks
          /\ blocks \/ (roleChanged /\ role # "admin") => AnotherActiveAdmin(u)
          /\ ids # None => Available(u, ids)
          /\ password => d.pw < MaxPasswords
          /\ \E e \in ProfileDocs(d, role, ids, want) :
               Open(r, u, UpdateDoc(d, e, status, password), None)
  /\ UNCHANGED <<users, issued, resets>>

\* A role that is set again rebuilds the profiles but keeps the sessions.
ChangeRole(r, u) ==
  /\ AdmittedAdmin(r) /\ Exists(u)
  /\ txn[r].actor # u
  /\ \E role \in Roles, ids \in IdSets \cup {None} :
       /\ role # "admin" => AnotherActiveAdmin(u)
       /\ ids # None => Available(u, ids)
       /\ \E e \in RoleDocs(users[u], role, ids) :
            Open(r, u, IF role # users[u].role THEN Revoke(e) ELSE e, None)
  /\ UNCHANGED <<users, issued, resets>>

BlockedDoc(d) == [d EXCEPT !.status = "blocked", !.sessions = {}, !.reset = None]

ToggleBlock(r, u) ==
  /\ AdmittedAdmin(r) /\ Exists(u)
  /\ txn[r].actor # u
  /\ IF Active(u)
     THEN AnotherActiveAdmin(u) /\ Open(r, u, BlockedDoc(users[u]), None)
     ELSE Open(r, u, [users[u] EXCEPT !.status = "active"], None)
  /\ UNCHANGED <<users, issued, resets>>

CreateUser(r, u) ==
  /\ AdmittedAdmin(r) /\ ~ Exists(u)
  /\ \E role \in Roles, status \in {"active", "blocked"}, ids \in IdSets \cup {None} :
       /\ ids # None => Available(u, ids)
       /\ \E e \in RoleDocs(Absent, role, ids) : Open(r, u, [e EXCEPT !.status = status], None)
  /\ UNCHANGED <<users, issued, resets>>

----
(* StudentProfileSyncService.syncUser on an administrator's request. *)

\* What save() will write when the API has answered with the records `seen`.  A record that is
\* new needs a group, a record book and a year to become a profile (`added`).
SyncDocs(d, seen, added) ==
  LET m == [d EXCEPT !.profiles =
              [p \in Profiles |->
                 IF d.profiles[p] = "none" THEN IF p \in added THEN "active" ELSE "none"
                 ELSE IF p \in seen THEN "active" ELSE "inactive"]]
  IN  {[m EXCEPT !.chosen = p] : p \in ChosenNext(m, None)}

\* An answer without records, an API error or an API switched off leaves the document alone.
SyncStudent(r, u) ==
  /\ AdmittedAdmin(r) /\ Exists(u) /\ users[u].role = "student"
  /\ \E seen \in IdSets : \E added \in SUBSET (seen \ OwnProfiles(users[u])) :
       \E e \in SyncDocs(users[u], seen, added) : Open(r, u, e, None)
  /\ UNCHANGED <<users, issued, resets>>

----

Init ==
  /\ users = [u \in Users |-> IF u \in InitialAdmins
                              THEN [Absent EXCEPT !.role = "admin", !.status = "active"]
                              ELSE Absent]
  /\ issued = [t \in Tokens |-> None]
  /\ resets = [k \in Resets |-> None]
  /\ txn = [r \in Requests |-> Idle]

Next ==
  \E r \in Requests :
    \/ \E u \in Users : Admit(r, u)
    \/ Commit(r) \/ Fail(r)
    \/ ChangePassword(r)
    \/ \E t \in Tokens : Refresh(r, t) \/ Logout(r, t)
    \/ \E k \in Resets : ConfirmPasswordReset(r, k)
    \/ \E u \in Targets :
         \/ Login(r, u) \/ RequestPasswordReset(r, u)
         \/ Update(r, u) \/ ChangeRole(r, u) \/ ToggleBlock(r, u) \/ CreateUser(r, u)
         \/ SyncStudent(r, u)

Spec == Init /\ [][Next]_vars

----
(* Properties. *)

DocType ==
  [role : Roles, status : {"absent", "active", "blocked"}, pw : 0 .. MaxPasswords,
   sessions : SUBSET Tokens, reset : Resets \cup {None},
   profiles : [Profiles -> {"none", "active", "inactive"}], chosen : Profiles \cup {None}]

IssuedType == [user : Users, pw : 0 .. MaxPasswords, role : Roles, family : Tokens]
ResetType == [user : Users, pw : 0 .. MaxPasswords]
GrantType == [token : Tokens, family : Tokens]
AdmittedType == [phase : {"admitted"}, actor : Users, role : Roles]
OpenType == [phase : {"open"}, user : Users, doc : DocType, grant : GrantType \cup {None}]

\* The shape of the documents, of the tokens handed out and of the requests under way.
TypeOK ==
  /\ users \in [Users -> DocType]
  /\ issued \in [Tokens -> IssuedType \cup {None}]
  /\ resets \in [Resets -> ResetType \cup {None}]
  /\ txn \in [Requests -> {Idle} \cup AdmittedType \cup OpenType]

\* Whatever can still open a session belongs to the present state of the account: a blocked
\* one has no refresh token, the tokens of the others were signed under the present password
\* and role, and a reset link that works was mailed under the present password.  A block or a
\* change that overlaps with a login, a refresh or a request for a link must not leave one
\* from before (auth.service.ts:208).
CredentialsCurrent ==
  \A u \in Users :
    /\ users[u].status = "blocked" => users[u].sessions = {}
    /\ \A t \in users[u].sessions :
         issued[t] # None /\ issued[t].user = u /\ issued[t].pw = users[u].pw
                          /\ issued[t].role = users[u].role
    /\ users[u].reset # None =>
         resets[users[u].reset] # None /\ resets[users[u].reset].user = u
                                       /\ resets[users[u].reset].pw = users[u].pw

\* One login yields one live token: two refreshes with the same token, or a refresh and a
\* logout, never leave two of its descendants (auth.service.ts:489).
OneTokenPerSession ==
  \A u \in Users : \A s, t \in users[u].sessions :
    s # t => issued[s] # None /\ issued[t] # None /\ issued[s].family # issued[t].family

\* activeStudentProfileId names an active profile of the account, or nothing when it has none,
\* through edits of the profiles, changes of role and synchronisation with the university API;
\* and an externalStudentId belongs to one account, though two requests may give it to two and
\* neither sees the other's write (users.service.ts:1041).
ActiveProfileSelected ==
  \A u \in Users :
    /\ IF ActiveProfiles(users[u]) = {} THEN users[u].chosen = None
       ELSE users[u].chosen \in ActiveProfiles(users[u])
    /\ users[u].role # "student" => OwnProfiles(users[u]) = {}
    /\ \A v \in Users \ {u} : OwnProfiles(users[u]) \cap OwnProfiles(users[v]) = {}

\* There is always an active administrator: users.service.ts:1101 refuses to change or block
\* the last one.
AdminRemains == \E u \in Users : users[u].role = "admin" /\ Active(u)
====
