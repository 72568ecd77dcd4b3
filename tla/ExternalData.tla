---- MODULE ExternalData ----
(***************************************************************************)
(* The gradebook of one student as one process serves it: the cached row   *)
(* (ExternalDataCacheService), the loader's calls of the university's API  *)
(* (MaupStudentApiClient) with their timeouts and retries, and the circuit *)
(* breaker the process keeps over all of them.  The marks are needed, the  *)
(* names of marks (MaupReferenceCacheService) are not; the calls for the   *)
(* two maps of names, of mark types and of test types, are taken as one.   *)
(* The integration is enabled and configured.                              *)
(*                                                                         *)
(* Times are kept as ages, in units of the timeout of one attempt and the  *)
(* pause before the next, up to the age at which nothing depends on them.  *)
(* Of a payload only the time since it was read upstream is kept.          *)
(***************************************************************************)
EXTENDS Integers, FiniteSets

CONSTANTS Askers,        \* slots for GET /gradebook/my requests
          Threshold,     \* circuitFailureThreshold
          ResetAfter,    \* circuitResetTimeoutMs
          Ttl, StaleFor, \* ttlMs, staleMs
          Retries,       \* retryAttempts
          Never          \* absent row or time

ASSUME DataAssumption ==
  /\ Threshold \in Nat \ {0} /\ ResetAfter \in Nat /\ Ttl \in Nat \ {0}
  /\ StaleFor \in Nat /\ Retries \in Nat /\ Never \notin Int

VARIABLES failures,      \* consecutiveFailures
          openFor,       \* time since circuitOpenedAt
          probing,       \* halfOpenRequestActive
          named,         \* the map of mark names is loaded
          calls,         \* per request: its calls "marks" and "names"
          row,           \* the cached document
          asker          \* the requests

breakerVars == <<failures, openFor, probing>>
dataVars == <<breakerVars, named, calls, row, asker>>

\* The longest a loader's data may wait before they are stamped, and the age its label allows an
\* answer: the TTL, and for stale data the stale window after that.
LoadTime == Retries + 1
AgeAllowed == [fresh |-> Ttl + LoadTime, stale |-> Ttl + StaleFor + LoadTime]

\* Time since a row's payload was read and since its fetchedAt.
Row == [read : 0..AgeAllowed.stale, fetched : 0..Ttl + StaleFor]
Endpoints == {"marks", "names"}

\* since: time since the attempt was sent; probe (history): it was admitted to a half-open circuit.
Off == [at |-> "off", tries |-> 0, since |-> 0, probe |-> FALSE]
\* cached: how long before the request the row it may fall back on had been read upstream;
\* overdue (history): data were answered that were older than their label allows.
Resting == [at |-> "idle", cached |-> Never, loaded |-> Never, overdue |-> FALSE]

DataTypeOK ==
  /\ failures \in 0..Threshold /\ openFor \in 0..ResetAfter \cup {Never}
  /\ probing \in BOOLEAN /\ named \in BOOLEAN
  /\ calls \in [Askers -> [Endpoints -> [at : {"off", "sent", "ok", "failed"}, tries : 0..Retries,
                                        since : 0..LoadTime + 1, probe : BOOLEAN]]]
  /\ row \in Row \cup {Never}
  /\ asker \in [Askers -> [at : {"idle", "loading", "storing"},
                           cached : 0..AgeAllowed.stale \cup {Never}, loaded : Row \cup {Never},
                           overdue : BOOLEAN]]

DataInit ==
  /\ failures = 0 /\ openFor = Never /\ probing = FALSE
  /\ named = FALSE /\ row = Never
  /\ calls = [q \in Askers |-> [e \in Endpoints |-> Off]]
  /\ asker = [q \in Askers |-> Resting]

----
CircuitState == IF openFor = Never THEN "closed"
                ELSE IF openFor >= ResetAfter THEN "half-open" ELSE "open"

Admitted(probe) == CircuitState = "closed" \/ (CircuitState = "half-open" /\ ~probe)

Sent(admitted) == IF admitted
                  THEN [at |-> "sent", tries |-> 0, since |-> 0, probe |-> CircuitState = "half-open"]
                  ELSE [Off EXCEPT !.at = "failed"]

Awaited(q, e) == calls[q][e].at = "sent"

\* Mutant: the TTL index is trusted to have removed what is due.
UsableWhileStored(r) == TRUE

\* freshUntil and purgeAt, compared with the moment the request began.
IsFresh(r) == r.fetched < Ttl
Usable(r) == r.fetched < Ttl + StaleFor

\* The answer leaves, with data of some age or without; a call that is still in flight goes on.
AnswerWith(q, overdue) ==
  /\ asker' = [asker EXCEPT ![q] = [Resting EXCEPT !.overdue = overdue \/ asker[q].overdue]]
  /\ calls' = [calls EXCEPT ![q] = [e \in Endpoints |-> IF Awaited(q, e) THEN @[e] ELSE Off]]

----
\* A request that does not insist on new data is answered from a fresh row.
AnswerFromCache(q) ==
  /\ asker[q].at = "idle" /\ \A e \in Endpoints : ~Awaited(q, e)
  /\ row # Never /\ IsFresh(row)
  /\ AnswerWith(q, row.read >= AgeAllowed.fresh)
  /\ UNCHANGED <<breakerVars, named, row>>

\* Otherwise (an old row, none, or force) it keeps the row it read, and the loader starts both calls
\* at once: the marks are asked for first, and take the probe of a half-open circuit; the names are
\* only asked for when the process has none (24 hours are taken to be longer than it runs).
Load(q) ==
  /\ asker[q].at = "idle" /\ \A e \in Endpoints : ~Awaited(q, e)
  /\ LET taken == probing \/ (Admitted(probing) /\ CircuitState = "half-open") IN
       /\ calls' = [calls EXCEPT ![q] = [marks |-> Sent(Admitted(probing)),
                                         names |-> IF named THEN [Off EXCEPT !.at = "ok"]
                                                   ELSE Sent(Admitted(taken))]]
       /\ probing' = taken
  /\ asker' = [asker EXCEPT ![q] = [Resting EXCEPT !.at = "loading",
                !.cached = IF row # Never /\ Usable(row) THEN row.read ELSE Never]]
  /\ UNCHANGED <<failures, openFor, named, row>>

\* recordSuccess: any call's success closes the circuit.
CallSucceeds(q, e) ==
  /\ Awaited(q, e)
  /\ calls' = [calls EXCEPT ![q][e] = [Off EXCEPT !.at = "ok", !.since = calls[q][e].since]]
  /\ failures' = 0 /\ openFor' = Never /\ probing' = FALSE
  /\ named' = (named \/ e = "names")
  /\ UNCHANGED <<row, asker>>

\* A retryable failure or a timeout is tried again, up to retryAttempts times.
CallRetries(q, e) ==
  /\ Awaited(q, e) /\ calls[q][e].tries < Retries
  /\ calls' = [calls EXCEPT ![q][e].tries = @ + 1, ![q][e].since = 0]
  /\ UNCHANGED <<breakerVars, named, row, asker>>

\* Mutant: the early return precedes the reset of the flag.
RecordFailureLate(retryable) ==
  /\ probing' = (probing /\ ~retryable)
  /\ failures' = IF retryable /\ failures < Threshold THEN failures + 1 ELSE failures
  /\ openFor' = IF retryable /\ failures + 1 >= Threshold THEN 0 ELSE openFor

\* recordFailure: only failures that could be retried count, and open the circuit at the threshold.
RecordFailure(retryable) ==
  /\ probing' = FALSE
  /\ failures' = IF retryable /\ failures < Threshold THEN failures + 1 ELSE failures
  /\ openFor' = IF retryable /\ failures + 1 >= Threshold THEN 0 ELSE openFor

CallFails(q, e, retryable) ==
  /\ Awaited(q, e) /\ (retryable => calls[q][e].tries = Retries)
  /\ calls' = [calls EXCEPT ![q][e] = [Off EXCEPT !.at = "failed"]]
  /\ RecordFailure(retryable)
  /\ UNCHANGED <<named, row, asker>>

\* Without the marks the request falls back on the row it read, if that was not due to be purged
\* when the request began; it does not wait for the names.
Settled(q) == asker[q].at = "loading" /\ (\/ calls[q].marks.at = "failed"
                                          \/ \A e \in Endpoints : calls[q][e].at \in {"ok", "failed"})

FallBack(q) ==
  /\ Settled(q) /\ calls[q].marks.at = "failed"
  /\ AnswerWith(q, asker[q].cached # Never /\ asker[q].cached >= AgeAllowed.stale)
  /\ UNCHANGED <<breakerVars, named, row>>

\* With the marks (the names may be missing) the payload is stamped, and then written.
Stamp(q) ==
  /\ Settled(q) /\ calls[q].marks.at = "ok"
  /\ asker' = [asker EXCEPT ![q].at = "storing", ![q].cached = Never,
                            ![q].loaded = [read |-> calls[q].marks.since, fetched |-> 0]]
  /\ calls' = [calls EXCEPT ![q].marks = [Off EXCEPT !.at = "ok"]]
  /\ UNCHANGED <<breakerVars, named, row>>

\* The upsert may fail; the answer is the same.
Store(q) ==
  /\ asker[q].at = "storing"
  /\ row' \in {row, asker[q].loaded}
  /\ AnswerWith(q, FALSE)
  /\ UNCHANGED <<breakerVars, named>>

\* The TTL index removes the row some time after purgeAt.
Purge ==
  /\ row # Never /\ ~Usable(row)
  /\ row' = Never
  /\ UNCHANGED <<breakerVars, named, calls, asker>>

\* Time passes for everything.  An attempt ends within the timeout, and a promise that is settled is
\* looked at before.
UpTo(limit, age) == IF age < limit THEN age + 1 ELSE limit
Older(r) == [read |-> UpTo(AgeAllowed.stale, r.read), fetched |-> UpTo(Ttl + StaleFor, r.fetched)]
OlderCall(c) == IF c.at \in {"sent", "ok"} THEN [c EXCEPT !.since = UpTo(LoadTime + 1, @)] ELSE c

TimeoutsPass ==
  /\ \A q \in Askers : ~Settled(q) /\ \A e \in Endpoints : Awaited(q, e) => calls[q][e].since < 1
  /\ openFor' = IF openFor = Never THEN Never ELSE UpTo(ResetAfter, openFor)
  /\ row' = IF row = Never THEN Never ELSE Older(row)
  /\ calls' = [q \in Askers |-> [e \in Endpoints |-> OlderCall(calls[q][e])]]
  /\ asker' = [q \in Askers |-> IF asker[q].loaded = Never THEN asker[q]
                                ELSE [asker[q] EXCEPT !.loaded = Older(@)]]
  /\ UNCHANGED <<failures, probing, named>>

\* The process is restarted: the document stays.
RestartServer ==
  /\ failures' = 0 /\ openFor' = Never /\ probing' = FALSE /\ named' = FALSE
  /\ calls' = [q \in Askers |-> [e \in Endpoints |-> Off]]
  /\ asker' = [q \in Askers |-> Resting]
  /\ UNCHANGED row

DataNext ==
  \/ \E q \in Askers :
       \/ AnswerFromCache(q) \/ Load(q) \/ FallBack(q) \/ Stamp(q) \/ Store(q)
       \/ \E e \in Endpoints : \/ CallSucceeds(q, e) \/ CallRetries(q, e)
                               \/ \E retryable \in BOOLEAN : CallFails(q, e, retryable)
  \/ Purge \/ TimeoutsPass \/ RestartServer

DataSpec == DataInit /\ [][DataNext]_dataVars

----
\* Every answer keeps what its label says, whichever requests overlapped and in whichever order their
\* rows were written: data shown as current were read upstream within the TTL (and the time of one
\* load) before the request, and data shown as stale within the stale window after that.
AnswersHonest == \A q \in Askers : ~asker[q].overdue

\* A half-open circuit that turns requests away waits for a probe still in flight: whichever late
\* answer, timeout or refusal comes in between, the breaker never waits for nobody.
ProbeAwaited == probing => \E q \in Askers, e \in Endpoints : Awaited(q, e) /\ calls[q][e].probe
====
