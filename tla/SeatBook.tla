---- MODULE SeatBook ----
(***************************************************************************)
(* What the enrolledCount counter stands for: each discipline has a book   *)
(* of seat holders.  A holder is admitted only while the book is shorter   *)
(* than the discipline is large, one at a time; any number may leave at    *)
(* once; the size may change to anything that still fits the holders.      *)
(* Electives implements this book with a counter it never recounts.        *)
(***************************************************************************)
EXTENDS Naturals, FiniteSets

CONSTANTS Disciplines, Holders, MaxSize

VARIABLES holders, size

Init ==
  /\ holders = [d \in Disciplines |-> {}]
  /\ size \in [Disciplines -> 1..MaxSize]

Admit(d) ==
  /\ \E h \in Holders \ holders[d] : holders'[d] = holders[d] \cup {h}
  /\ Cardinality(holders[d]) < size[d]
  /\ size'[d] = size[d]

Release(d) ==
  /\ holders'[d] \in SUBSET holders[d]
  /\ size'[d] = size[d]

Resize(d) ==
  /\ holders'[d] = holders[d]
  /\ size'[d] \in Cardinality(holders[d])..MaxSize

Next == \A d \in Disciplines : Admit(d) \/ Release(d) \/ Resize(d)

Spec == Init /\ [][Next]_<<holders, size>>
====
