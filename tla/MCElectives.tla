---- MODULE MCElectives ----
(* Model values and symmetry for checking Electives. *)
EXTENDS Electives, TLC

CONSTANTS s1, s2, g

OneGroup == [s \in Students |-> g]

Symmetry == Permutations(Students) \cup Permutations(SelectionIds)
              \cup Permutations(Disciplines) \cup Permutations(Requests)
              \cup Permutations(Periods)
====
