---- MODULE MCAccounts ----
(* One administrator who acts and accounts whose documents the requests write; and, for the  *)
(* last-administrator run, two administrators who act on each other.                        *)
EXTENDS Accounts, TLC

\* Requests are interchangeable, and so are the externalStudentIds.
Alike == Permutations(Requests) \cup Permutations(Profiles)
         \cup Permutations(Users \ InitialAdmins)

\* The user documents there are and those that open transactions are to write.
Docs == {users[u] : u \in Users} \cup {txn[r].doc : r \in {q \in Requests : txn[q].phase = "open"}}

\* The accounts that exist or are being created besides the first administrators.
Created == {u \in Users \ InitialAdmins :
              Exists(u) \/ \E r \in Requests : txn[r].phase = "open" /\ txn[r].user = u}

\* Bound: several profiles only while no token is signed and no link mailed, and a second account
\* only while no password is changed either, as these and the profiles meet in no handler's test.
Facets ==
  \/ /\ Signed = {} /\ \A k \in Resets : resets[k] = None
     /\ Cardinality(Created) <= 1 \/ \A d \in Docs : d.pw = 0
  \/ Cardinality(Created) <= 1 /\ \A d \in Docs : Cardinality(OwnProfiles(d)) <= 1
====
