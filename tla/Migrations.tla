---- MODULE Migrations ----
(***************************************************************************)
(* DatabaseMigrationsService: every server instance that starts takes the  *)
(* global lock, a document with an owner and a lease, applies the          *)
(* migrations of its registry that have no record yet, and releases the    *)
(* lock; one that cannot get the lock in time starts only if nothing is    *)
(* pending.  The collections are shared and each statement is atomic.      *)
(*                                                                         *)
(* Migrations are the numbers of their order by id.  All instances run the *)
(* same registry, so the checksum and unknown-migration checks pass and    *)
(* are left out, as is what a migration does.  An instance that fails to   *)
(* start exits and is started again, with a new instanceId.                *)
(***************************************************************************)
EXTENDS Naturals

CONSTANTS Instances,
          Registered,    \* number of migrations in the registry
          Nobody,        \* no lock document
          Departed       \* owner of a lock whose process has died

ASSUME RegistryAssumption == Registered \in Nat
ASSUME OwnersAssumption == Nobody # Departed /\ {Nobody, Departed} \cap Instances = {}

VARIABLES lock,        \* the lock document: its owner, and whether lockedUntil is in the future
          records,     \* the migrations with a record
          instance,    \* the instances
          performed,   \* history: migrations whose up() has run to its end
          lapsed       \* history: a lease has run out while its holder lived

migrationVars == <<lock, records, instance, performed, lapsed>>

Registry == 1..Registered

Down == [at |-> "down", pending |-> {}, heartbeatError |-> FALSE, error |-> FALSE]

MigrationsTypeOK ==
  /\ lock \in [owner : Instances \cup {Nobody, Departed}, valid : BOOLEAN]
  /\ records \subseteq Registry /\ performed \subseteq Registry
  /\ instance \in [Instances ->
       [at : {"down", "waiting", "locked", "renewing", "running", "recording", "releasing", "up"},
        pending : SUBSET Registry, heartbeatError : BOOLEAN, error : BOOLEAN]]
  /\ lapsed \in BOOLEAN
  /\ \A i \in Instances : instance[i].at \in {"renewing", "running", "recording"}
                            => instance[i].pending # {}

Pending == Registry \ records

\* The migration an instance is at: its pending ones are applied in the order of their ids.
Current(i) == CHOOSE m \in instance[i].pending : \A n \in instance[i].pending : m <= n

Running == {i \in Instances : instance[i].at = "running"}

MigrationsInit ==
  /\ lock = [owner |-> Nobody, valid |-> FALSE]
  /\ records = {} /\ performed = {} /\ lapsed = FALSE
  /\ instance = [i \in Instances |-> Down]

MoveTo(i, at) == instance' = [instance EXCEPT ![i].at = at]

----
StartUp(i) ==
  /\ instance[i].at = "down" /\ MoveTo(i, "waiting")
  /\ UNCHANGED <<lock, records, performed, lapsed>>

\* Mutant: whoever comes takes the lock, also from a holder with a valid lease.
LockFreeAlways(i) == TRUE

\* The filter of tryAcquireLock; without a document, the upsert inserts one.
LockFree(i) == ~lock.valid \/ lock.owner \in {Nobody, i}

TryAcquireLock(i) ==
  /\ instance[i].at = "waiting" /\ LockFree(i)
  /\ lock' = [owner |-> i, valid |-> TRUE]
  /\ MoveTo(i, "locked")
  /\ UNCHANGED <<records, performed, lapsed>>

\* DB_MIGRATION_WAIT_TIMEOUT_MS is over: assertDatabaseIsCurrent.
GiveUpWaiting(i) ==
  /\ instance[i].at = "waiting"
  /\ MoveTo(i, IF Pending = {} THEN "up" ELSE "down")
  /\ UNCHANGED <<lock, records, performed, lapsed>>

\* applyPendingMigrations reads the records once, for all it will apply.
ReadRecords(i) ==
  /\ instance[i].at = "locked"
  /\ instance' = [instance EXCEPT ![i].pending = Pending,
                                  ![i].at = IF Pending = {} THEN "releasing" ELSE "renewing"]
  /\ UNCHANGED <<lock, records, performed, lapsed>>

Fail(i) == instance' = [instance EXCEPT ![i].at = "releasing", ![i].error = TRUE]

RenewLock(i) ==
  /\ instance[i].at = "renewing"
  /\ IF lock.owner = i
     THEN lock' = [lock EXCEPT !.valid = TRUE] /\ MoveTo(i, "running")
     ELSE UNCHANGED lock /\ Fail(i)
  /\ UNCHANGED <<records, performed, lapsed>>

\* The timer of runWithLockHeartbeat, while up() runs; the first failure stops it.
Heartbeat(i) ==
  /\ instance[i].at = "running" /\ ~instance[i].heartbeatError
  /\ IF lock.owner = i
     THEN lock' = [lock EXCEPT !.valid = TRUE] /\ UNCHANGED instance
     ELSE instance' = [instance EXCEPT ![i].heartbeatError = TRUE] /\ UNCHANGED lock
  /\ UNCHANGED <<records, performed, lapsed>>

HeartbeatFails(i) ==
  /\ instance[i].at = "running" /\ ~instance[i].heartbeatError
  /\ instance' = [instance EXCEPT ![i].heartbeatError = TRUE]
  /\ UNCHANGED <<lock, records, performed, lapsed>>

UpEnds(i) ==
  /\ instance[i].at = "running"
  /\ performed' = performed \cup {Current(i)}
  /\ IF instance[i].heartbeatError THEN Fail(i) ELSE MoveTo(i, "recording")
  /\ UNCHANGED <<lock, records, lapsed>>

\* insertOne: a second record of the same migration is a duplicate key.
InsertRecord(i) ==
  LET m == Current(i)
      rest == instance[i].pending \ {m}
  IN /\ instance[i].at = "recording"
     /\ IF m \in records
        THEN UNCHANGED records /\ Fail(i)
        ELSE /\ records' = records \cup {m}
             /\ instance' = [instance EXCEPT
                  ![i].pending = rest,
                  ![i].at = IF rest = {} THEN "releasing" ELSE "renewing"]
     /\ UNCHANGED <<lock, performed, lapsed>>

\* A statement or a migration throws.
StatementFails(i) ==
  /\ instance[i].at \in {"locked", "renewing", "running", "recording"} /\ Fail(i)
  /\ UNCHANGED <<lock, records, performed, lapsed>>

\* finally: only the own lock is deleted.
ReleaseLock(i) ==
  /\ instance[i].at = "releasing"
  /\ lock' = IF lock.owner = i THEN [owner |-> Nobody, valid |-> FALSE] ELSE lock
  /\ instance' = [instance EXCEPT ![i] = [Down EXCEPT !.at = IF instance[i].error
                                                             THEN "down" ELSE "up"]]
  /\ UNCHANGED <<records, performed, lapsed>>

\* The process dies, at any point or as its start failed; its lease stays behind.
Die(i) ==
  /\ instance[i].at # "down"
  /\ instance' = [instance EXCEPT ![i] = Down]
  /\ lock' = IF lock.owner = i THEN [lock EXCEPT !.owner = Departed] ELSE lock
  /\ UNCHANGED <<records, performed, lapsed>>

\* lockedUntil passes: the holder has died, or has been unable to renew for DB_MIGRATION_LOCK_TTL_MS.
LeaseRunsOut ==
  /\ lock.valid
  /\ lock' = [lock EXCEPT !.valid = FALSE]
  /\ lapsed' = (lapsed \/ lock.owner # Departed)
  /\ UNCHANGED <<records, instance, performed>>

MigrationsNext ==
  \/ \E i \in Instances :
        \/ StartUp(i) \/ TryAcquireLock(i) \/ GiveUpWaiting(i) \/ ReadRecords(i)
        \/ RenewLock(i) \/ Heartbeat(i) \/ HeartbeatFails(i) \/ UpEnds(i) \/ InsertRecord(i)
        \/ StatementFails(i) \/ ReleaseLock(i) \/ Die(i)
  \/ LeaseRunsOut

MigrationsSpec == MigrationsInit /\ [][MigrationsNext]_migrationVars

----
(* An instance serves requests only on a database whose migrations have all run to their end  *)
(* and are recorded.  Migrations are recorded in order, and one begins only when all before   *)
(* it are recorded; and unless a lease has run out under a living holder (a migration that    *)
(* blocks the heartbeat for longer than the lease), no two run at the same time.              *)
DatabaseReady ==
  /\ records \subseteq performed
  /\ \A i \in Instances : instance[i].at = "up" => records = Registry
  /\ \A m \in records : 1..m \subseteq records
  /\ \A i \in Running : 1..(Current(i) - 1) \subseteq records
  /\ \A i, j \in Running : i # j => lapsed
====
