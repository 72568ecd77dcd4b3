---- MODULE AuditTrail ----
(***************************************************************************)
(* What the outbox promises of each event, whoever works on it: once       *)
(* queued it stays open until it is settled, for good, in one of two ways. *)
(* It is processed, which takes that the journal has it, or it is given up *)
(* as dead, which takes MaxAttempts attempts.  The journal receives an     *)
(* event once, after an attempt; an attempt that has outlived its claim    *)
(* may still bring it when the event is dead.                              *)
(***************************************************************************)
EXTENDS Naturals

CONSTANTS Events, MaxAttempts

VARIABLES stage,   \* of each event
          tries,   \* how often it has been attempted
          journal  \* how often the journal has it

trailVars == <<stage, tries, journal>>

Init ==
  /\ stage = [e \in Events |-> "absent"]
  /\ tries = [e \in Events |-> 0]
  /\ journal = [e \in Events |-> 0]

Enqueue(e) ==
  /\ stage[e] = "absent"
  /\ stage' = [stage EXCEPT ![e] = "open"]
  /\ UNCHANGED <<tries, journal>>

Attempt(e) ==
  /\ stage[e] = "open"
  /\ tries' = [tries EXCEPT ![e] = @ + 1]
  /\ UNCHANGED <<stage, journal>>

Store(e) ==
  /\ tries[e] > 0 /\ journal[e] = 0
  /\ journal' = [journal EXCEPT ![e] = 1]
  /\ UNCHANGED <<stage, tries>>

Settle(e) ==
  /\ stage[e] = "open"
  /\ \/ journal[e] = 1 /\ stage' = [stage EXCEPT ![e] = "processed"]
     \/ tries[e] >= MaxAttempts /\ stage' = [stage EXCEPT ![e] = "dead"]
  /\ UNCHANGED <<tries, journal>>

\* Processed events are kept for a while only.
Forget(e) ==
  /\ stage[e] = "processed"
  /\ stage' = [stage EXCEPT ![e] = "expired"]
  /\ UNCHANGED <<tries, journal>>

Next == \E e \in Events : Enqueue(e) \/ Attempt(e) \/ Store(e) \/ Settle(e) \/ Forget(e)

Spec == Init /\ [][Next]_trailVars
====
