------------------------------ MODULE Startup -------------------------------
(***************************************************************************)
(* How API and worker pods start.  An init container runs `api migrate`,   *)
(* which waits for Postgres and applies the migrations its image carries   *)
(* (internal/store/migrate.go); then the pod's own container waits for     *)
(* Postgres and for the dispatch topic (internal/app) and serves.          *)
(*                                                                         *)
(* Pods start at once, or late, or again, and during a rollout with images *)
(* of different age: an older image carries the first of the files only.   *)
(* Containers die, statements fail, Postgres restarts.  A session whose    *)
(* client is gone lives on until Postgres notices: it keeps its advisory   *)
(* lock, and a COMMIT it was sent may still be carried out.                *)
(***************************************************************************)
EXTENDS Naturals, Sequences, Faults

CONSTANTS Pods,
          Image,   \* how many migration files the pod's image carries
          Nobody,  \* the lock is free
          Ghost    \* the lock is held by a session whose client is gone

ASSUME StartupAssumption ==
  /\ Image \in [Pods -> Nat]
  /\ Nobody \notin Pods /\ Ghost \notin Pods /\ Nobody # Ghost

VARIABLES pods,               \* each pod's place, and the file it has got to
          schema_migrations,  \* the files recorded as applied
          applied,            \* the files applied, in the order of their commits
          lock,               \* the advisory lock migrateLockID
          ghost,              \* the file whose COMMIT that session was sent, or 0
          up,                 \* Postgres accepts connections
          topic               \* the dispatch topic exists

vars == <<pods, schema_migrations, applied, lock, ghost, up, topic, faults>>
database == <<schema_migrations, applied, lock, ghost>>
services == <<up, topic>>

\* opening: migrate waits for Postgres
\* lock, create, check, apply, commit, unlock: the steps of Migrate
\* connect, topic: the pod's own container waits for Postgres, for the topic
\* initFailed, mainFailed: the container has exited with an error
Session == {"create", "check", "apply", "commit", "unlock"}
Pod == [phase : {"opening", "lock", "connect", "topic", "serving",
                 "initFailed", "mainFailed"} \cup Session,
        file : Nat]

TypeOK ==
  /\ pods \in [Pods -> Pod] /\ \A p \in Pods : pods[p].file \in 1..(Image[p] + 1)
  /\ schema_migrations \subseteq Nat \ {0} /\ applied \in Seq(Nat \ {0})
  /\ lock \in Pods \cup {Nobody, Ghost} /\ ghost \in Nat
  /\ up \in BOOLEAN /\ topic \in BOOLEAN
  /\ FaultsTypeOK

Init ==
  /\ pods = [p \in Pods |-> [phase |-> "opening", file |-> 1]]
  /\ schema_migrations = {} /\ applied = << >>
  /\ lock = Nobody /\ ghost = 0
  /\ up = FALSE /\ topic = FALSE
  /\ FaultsInit

At(p, phase) == pods[p].phase = phase
Goto(p, phase) == pods' = [pods EXCEPT ![p].phase = phase]

\* Mutant: the name is recorded by a statement of its own, which may fail.
CommittedApart(f) ==
  /\ schema_migrations' \in {schema_migrations, schema_migrations \cup {f}}
  /\ applied' = Append(applied, f)

\* The transaction of applyMigration commits: the file's statements take effect
\* and its name is recorded.
Committed(f) ==
  /\ schema_migrations' = schema_migrations \cup {f}
  /\ applied' = Append(applied, f)

-----------------------------------------------------------------------------
\* OpenDB and WaitForTopic.  WaitFor tries again until it succeeds ...

OpenDB(p) ==
  /\ up
  /\ \/ At(p, "opening") /\ Goto(p, "lock")
     \/ At(p, "connect") /\ Goto(p, "topic")
  /\ UNCHANGED <<database, services, faults>>

WaitForTopic(p) ==
  /\ At(p, "topic")
  /\ topic
  /\ Goto(p, "serving")
  /\ UNCHANGED <<database, services, faults>>

\* ... or StartupTimeout has passed and the last try failed.
WaitForFails(p) ==
  /\ \/ ~up /\ At(p, "opening") /\ Goto(p, "initFailed")
     \/ ~up /\ At(p, "connect") /\ Goto(p, "mainFailed")
     \/ ~topic /\ At(p, "topic") /\ Goto(p, "mainFailed")
  /\ UNCHANGED <<database, services, faults>>

-----------------------------------------------------------------------------
\* Migrate.

\* Mutant: the lock is not waited for.
LockNotTaken(p) ==
  /\ At(p, "lock")
  /\ Goto(p, "create")
  /\ UNCHANGED <<database, services, faults>>

\* SELECT pg_advisory_lock
TakeLock(p) ==
  /\ At(p, "lock")
  /\ lock = Nobody
  /\ lock' = p
  /\ Goto(p, "create")
  /\ UNCHANGED <<schema_migrations, applied, ghost, services, faults>>

\* CREATE TABLE IF NOT EXISTS schema_migrations; the loop starts.
CreateTable(p) ==
  /\ At(p, "create")
  /\ pods' = [pods EXCEPT ![p] = [phase |-> "check", file |-> 1]]
  /\ UNCHANGED <<database, services, faults>>

\* SELECT EXISTS: the file is recorded.
Done(p) == pods[p].file \in schema_migrations

\* Mutant: the loop goes on past the last of its names.
CheckPast(p) ==
  LET file == pods[p].file IN
  /\ At(p, "check")
  /\ pods' = [pods EXCEPT ![p] =
       IF file > Image[p] + 1 THEN [phase |-> "unlock", file |-> file]
       ELSE IF Done(p)        THEN [phase |-> "check", file |-> file + 1]
       ELSE                        [phase |-> "apply", file |-> file]]
  /\ UNCHANGED <<database, services, faults>>

\* The body of the loop, up to applyMigration, and its end.
Check(p) ==
  LET file == pods[p].file IN
  /\ At(p, "check")
  /\ pods' = [pods EXCEPT ![p] =
       IF file > Image[p] THEN [phase |-> "unlock", file |-> file]
       ELSE IF Done(p)    THEN [phase |-> "check", file |-> file + 1]
       ELSE                    [phase |-> "apply", file |-> file]]
  /\ UNCHANGED <<database, services, faults>>

\* applyMigration up to COMMIT.  If the name is recorded the INSERT fails, and
\* Migrate with it.
Apply(p) ==
  /\ At(p, "apply")
  /\ IF Done(p) THEN Goto(p, "initFailed") /\ lock' = Nobody
                ELSE Goto(p, "commit") /\ UNCHANGED lock
  /\ UNCHANGED <<schema_migrations, applied, ghost, services, faults>>

\* Its COMMIT.
Commit(p) ==
  /\ At(p, "commit")
  /\ Committed(pods[p].file)
  /\ pods' = [pods EXCEPT ![p] = [phase |-> "check", file |-> @.file + 1]]
  /\ UNCHANGED <<lock, ghost, services, faults>>

\* The deferred unlock, whose error is ignored, and the init container's exit.
Unlock(p) ==
  /\ At(p, "unlock")
  /\ \/ lock' = Nobody /\ UNCHANGED faults
     \/ lock' = Ghost /\ Fault("db")
  /\ Goto(p, "connect")
  /\ UNCHANGED <<schema_migrations, applied, ghost, services>>

\* Mutant: an error skips the unlock, and the session stays.
MigrateFailsLocked(p) ==
  /\ pods[p].phase \in (Session \ {"unlock"}) \cup {"lock"}
  /\ Fault("db")
  /\ Goto(p, "initFailed")
  /\ UNCHANGED <<database, services>>

\* Another statement returns an error: Rollback, unlock, exit.
MigrateFails(p) ==
  /\ pods[p].phase \in (Session \ {"unlock"}) \cup {"lock"}
  /\ Fault("db")
  /\ lock' = IF lock = p THEN Nobody ELSE lock
  /\ Goto(p, "initFailed")
  /\ UNCHANGED <<schema_migrations, applied, ghost, services>>

-----------------------------------------------------------------------------
\* What happens to containers and to Postgres.

\* Which of a pod's containers has died.
Failed(phase) ==
  IF phase \in {"connect", "topic", "serving"} THEN "mainFailed" ELSE "initFailed"

\* A container dies, or Migrate's connection does.  Its session stays.  (Unlock
\* ignores the loss of its connection: that is its second disjunct.)
Crash(p) ==
  /\ pods[p].phase \notin {"initFailed", "mainFailed"}
  /\ Fault("crash")
  /\ Goto(p, Failed(pods[p].phase))
  /\ IF lock = p
     THEN lock' = Ghost /\ ghost' = IF At(p, "commit") THEN pods[p].file ELSE 0
     ELSE UNCHANGED <<lock, ghost>>
  /\ UNCHANGED <<schema_migrations, applied, services>>

\* Postgres ends the session: a COMMIT it was sent may have come first.
SessionEnds ==
  /\ lock = Ghost
  /\ lock' = Nobody /\ ghost' = 0
  /\ \/ ghost # 0 /\ Committed(ghost)
     \/ UNCHANGED <<schema_migrations, applied>>
  /\ UNCHANGED <<pods, services, faults>>

\* Mutant: the pod's own container does not wait for migrate to succeed.
RestartAnyway(p) ==
  /\ pods[p].phase \in {"initFailed", "mainFailed"}
  /\ Goto(p, "connect")
  /\ UNCHANGED <<database, services, faults>>

\* A failed container is started again; a pod's init containers are not run
\* again once they have succeeded.
Restart(p) ==
  /\ \/ At(p, "initFailed") /\ Goto(p, "opening")
     \/ At(p, "mainFailed") /\ Goto(p, "connect")
  /\ UNCHANGED <<database, services, faults>>

\* Where Migrate goes on when Postgres ends its session: it fails, unless all that
\* is left is the unlock, whose error is ignored.
Severed(phase) ==
  CASE phase \in (Session \ {"unlock"}) \cup {"lock"} -> "initFailed"
    [] phase = "unlock" -> "connect"
    [] OTHER -> phase

\* Postgres stops: every session ends, a COMMIT is carried out or not.
PostgresStops ==
  /\ up
  /\ Fault("db")
  /\ up' = FALSE
  /\ lock' = Nobody /\ ghost' = 0
  /\ pods' = [p \in Pods |-> [pods[p] EXCEPT !.phase = Severed(@)]]
  /\ \/ \E p \in Pods : lock = p /\ At(p, "commit") /\ Committed(pods[p].file)
     \/ ghost # 0 /\ Committed(ghost)
     \/ UNCHANGED <<schema_migrations, applied>>
  /\ UNCHANGED topic

PostgresStarts ==
  /\ ~up
  /\ up' = TRUE
  /\ UNCHANGED <<pods, database, topic, faults>>

\* kafka-init creates the topic.
CreateTopic ==
  /\ ~topic
  /\ topic' = TRUE
  /\ UNCHANGED <<pods, database, up, faults>>

-----------------------------------------------------------------------------

\* What a pod does by itself.
Proceed(p) ==
  \/ OpenDB(p) \/ WaitForTopic(p)
  \/ TakeLock(p) \/ CreateTable(p) \/ Check(p) \/ Apply(p) \/ Commit(p) \/ Unlock(p)
  \/ Restart(p)

Next ==
  \/ \E p \in Pods : Proceed(p) \/ WaitForFails(p) \/ MigrateFails(p) \/ Crash(p)
  \/ SessionEnds \/ PostgresStops \/ PostgresStarts \/ CreateTopic

Spec == Init /\ [][Next]_vars

\* Containers run and are started again, Postgres comes up and notices clients
\* that are gone, the topic is created.
FairSpec ==
  /\ Spec
  /\ \A p \in Pods : WF_vars(Proceed(p))
  /\ WF_vars(SessionEnds) /\ WF_vars(PostgresStarts) /\ WF_vars(CreateTopic)

-----------------------------------------------------------------------------
\* Invariants.

\* Migrate applies the files "in name order, each in its own transaction [...]
\* each file runs exactly once": the files applied are the first so many, in
\* order and without repetition, and they are the ones recorded, whatever died
\* between the statements of a file, between two files or during a COMMIT.
AppliedInOrder ==
  /\ \A i \in 1..Len(applied) : applied[i] = i
  /\ schema_migrations = 1..Len(applied)

\* "An advisory lock makes concurrent callers take turns": a migrator that has
\* found a file missing still finds it missing when it records it, so that no
\* migrator fails because of another, or of the session of one that is gone.
TurnsTaken ==
  \A p \in Pods :
    pods[p].phase \in {"apply", "commit"} => pods[p].file \notin schema_migrations

\* "Compose and Kubernetes run it before the API and workers start": a pod that
\* serves finds every migration of its own image applied, whichever older or
\* newer pods migrated before or after it, and after each restart.
SchemaReady ==
  \A p \in Pods :
    pods[p].phase \in {"connect", "topic", "serving", "mainFailed"} =>
      1..Image[p] \subseteq schema_migrations

-----------------------------------------------------------------------------
\* Liveness, under FairSpec.

\* Once faults have stopped every pod serves for good: nobody waits for a lock
\* that is never released, and a failed wait is not the last one.
AllServe == \A p \in Pods : <>[](pods[p].phase = "serving")
=============================================================================
