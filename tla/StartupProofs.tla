---------------------------- MODULE StartupProofs ----------------------------
(***************************************************************************)
(* Proofs about startup and migrations, for any number of pods, images of  *)
(* any age, and any number of crashes and database failures.               *)
(*                                                                         *)
(* The argument: whoever may still commit a file holds the advisory lock,  *)
(* or is the one session that outlived its client and holds it (LockInv);  *)
(* and what such a one may commit is the first file that is missing        *)
(* (PlaceInv).                                                             *)
(***************************************************************************)
EXTENDS Startup, TLAPS

-----------------------------------------------------------------------------
\* Types.

LEMMA GotoType ==
  ASSUME TypeOK, NEW p \in Pods,
         NEW phase \in {"opening", "lock", "connect", "topic", "serving",
                        "initFailed", "mainFailed"} \cup Session,
         Goto(p, phase)
  PROVE  pods' \in [Pods -> Pod]
BY DEF TypeOK, Goto, Pod

LEMMA CommittedType ==
  ASSUME TypeOK, NEW f \in Nat \ {0}, Committed(f)
  PROVE  schema_migrations' \subseteq Nat \ {0} /\ applied' \in Seq(Nat \ {0})
BY DEF TypeOK, Committed

LEMMA FaultType ==
  ASSUME TypeOK, NEW k \in FaultKinds, Fault(k)
  PROVE  FaultsTypeOK'
BY DEF TypeOK, FaultsTypeOK, Fault

\* What a migrator applies is a file of its own image.
OwnFiles ==
  \A p \in Pods : pods[p].phase \in {"apply", "commit"} => pods[p].file <= Image[p]

LEMMA TypeStep ==
  ASSUME TypeOK, OwnFiles, [Next]_vars
  PROVE  TypeOK' /\ OwnFiles'
<1> USE StartupAssumption DEF FaultKinds
<1>1. ASSUME NEW p \in Pods, OpenDB(p) \/ WaitForTopic(p) \/ WaitForFails(p) \/ Restart(p)
      PROVE  TypeOK' /\ OwnFiles'
  <2>1. PICK phase \in {"lock", "topic", "serving", "initFailed", "mainFailed",
                        "opening", "connect"} : Goto(p, phase)
    BY <1>1 DEF OpenDB, WaitForTopic, WaitForFails, Restart
  <2>2. pods' \in [Pods -> Pod]
    BY <2>1, GotoType
  <2>3. UNCHANGED <<database, services, faults>>
    BY <1>1 DEF OpenDB, WaitForTopic, WaitForFails, Restart
  <2> QED BY <2>1, <2>2, <2>3 DEF TypeOK, OwnFiles, Goto, Pod, database, services, FaultsTypeOK
<1>2. ASSUME NEW p \in Pods, TakeLock(p) PROVE TypeOK' /\ OwnFiles'
  BY <1>2 DEF TakeLock, Goto, TypeOK, OwnFiles, Pod, Session, services, FaultsTypeOK
<1>3. ASSUME NEW p \in Pods, CreateTable(p) \/ Check(p) PROVE TypeOK' /\ OwnFiles'
  <2>1. pods \in [Pods -> Pod] /\ \A q \in Pods : pods[q].file \in 1..(Image[q] + 1)
    BY DEF TypeOK
  <2>2. CASE CreateTable(p)
    BY <2>1, <2>2 DEF CreateTable, Pod, Session, TypeOK, OwnFiles, database, services,
                      FaultsTypeOK
  <2>3. CASE Check(p)
    <3>1. /\ pods' \in [Pods -> Pod]
          /\ \A q \in Pods : pods'[q].file \in 1..(Image[q] + 1)
          /\ OwnFiles'
      <4>1. CASE pods[p].file > Image[p]
        BY <2>1, <2>3, <4>1 DEF Check, Pod, Session, OwnFiles
      <4>2. CASE ~(pods[p].file > Image[p]) /\ Done(p)
        BY <2>1, <2>3, <4>2 DEF Check, Pod, Session, OwnFiles
      <4>3. CASE ~(pods[p].file > Image[p]) /\ ~Done(p)
        BY <2>1, <2>3, <4>3 DEF Check, Pod, Session, OwnFiles
      <4> QED BY <4>1, <4>2, <4>3
    <3> QED BY <2>3, <3>1 DEF Check, TypeOK, database, services, FaultsTypeOK
  <2> QED BY <1>3, <2>2, <2>3
<1>4. ASSUME NEW p \in Pods, Apply(p) PROVE TypeOK' /\ OwnFiles'
  <2>1. PICK phase \in {"initFailed", "commit"} : Goto(p, phase)
    BY <1>4 DEF Apply
  <2>2. pods' \in [Pods -> Pod]
    BY <2>1, GotoType DEF Session
  <2>3. OwnFiles' /\ \A q \in Pods : pods'[q].file = pods[q].file
    BY <1>4, <2>1 DEF Apply, At, Goto, TypeOK, OwnFiles, Pod
  <2> QED BY <1>4, <2>2, <2>3 DEF Apply, TypeOK, services, FaultsTypeOK
<1>5. ASSUME NEW p \in Pods, Commit(p) PROVE TypeOK' /\ OwnFiles'
  <2>1. pods[p].file \in Nat \ {0} /\ pods[p].file <= Image[p]
    BY <1>5 DEF Commit, At, TypeOK, OwnFiles, Pod
  <2>2. schema_migrations' \subseteq Nat \ {0} /\ applied' \in Seq(Nat \ {0})
    BY <1>5, <2>1, CommittedType DEF Commit
  <2>3. pods' \in [Pods -> Pod] /\ OwnFiles'
        /\ \A q \in Pods : pods'[q].file \in 1..(Image[q] + 1)
    <3>1. pods' = [pods EXCEPT ![p] = [phase |-> "check", file |-> pods[p].file + 1]]
      BY <1>5 DEF Commit
    <3> QED BY <2>1, <3>1 DEF TypeOK, OwnFiles, Pod, Session
  <2> QED BY <1>5, <2>2, <2>3 DEF Commit, TypeOK, services, FaultsTypeOK
<1>6. ASSUME NEW p \in Pods, Unlock(p) PROVE TypeOK' /\ OwnFiles'
  BY <1>6, FaultType DEF Unlock, Goto, TypeOK, OwnFiles, Pod, services, FaultsTypeOK
<1>7. ASSUME NEW p \in Pods, MigrateFails(p) PROVE TypeOK' /\ OwnFiles'
  BY <1>7, FaultType DEF MigrateFails, Goto, TypeOK, OwnFiles, Pod, services
<1>8. ASSUME NEW p \in Pods, Crash(p) PROVE TypeOK' /\ OwnFiles'
  BY <1>8, FaultType DEF Crash, Failed, Goto, TypeOK, OwnFiles, Pod, services
<1>9. CASE SessionEnds
  BY <1>9, CommittedType
     DEF SessionEnds, TypeOK, OwnFiles, services, FaultsTypeOK
<1>10. CASE PostgresStops
  <2>1. schema_migrations' \subseteq Nat \ {0} /\ applied' \in Seq(Nat \ {0})
    <3>1. ASSUME NEW p \in Pods, Committed(pods[p].file)
          PROVE  schema_migrations' \subseteq Nat \ {0} /\ applied' \in Seq(Nat \ {0})
      BY <3>1, CommittedType DEF TypeOK, OwnFiles, Pod
    <3>2. CASE ghost # 0 /\ Committed(ghost)
      BY <3>2, CommittedType DEF TypeOK
    <3> QED BY <1>10, <3>1, <3>2 DEF PostgresStops, TypeOK
  <2>2. pods' \in [Pods -> Pod] /\ OwnFiles'
        /\ \A q \in Pods : pods'[q].file \in 1..(Image[q] + 1)
    <3>1. \A q \in Pods : pods'[q] = [pods[q] EXCEPT !.phase = Severed(pods[q].phase)]
      BY <1>10 DEF PostgresStops
    <3>2. \A q \in Pods : Severed(pods[q].phase) \in {"initFailed", "connect", pods[q].phase}
      BY DEF Severed
    <3>3. \A q \in Pods :
            /\ pods'[q] \in Pod /\ pods'[q].file = pods[q].file
            /\ pods'[q].phase \in {"apply", "commit"} => pods[q].phase \in {"apply", "commit"}
      <4> SUFFICES ASSUME NEW q \in Pods
                   PROVE  /\ pods'[q] \in Pod /\ pods'[q].file = pods[q].file
                          /\ pods'[q].phase \in {"apply", "commit"} =>
                               pods[q].phase \in {"apply", "commit"}
        OBVIOUS
      <4>1. pods[q] \in Pod
        BY DEF TypeOK
      <4> QED BY <3>1, <3>2, <4>1 DEF Pod
    <3> QED BY <1>10, <3>3 DEF PostgresStops, TypeOK, OwnFiles
  <2> QED BY <1>10, <2>1, <2>2, FaultType DEF PostgresStops, TypeOK
<1>11. CASE PostgresStarts
  BY <1>11 DEF PostgresStarts, TypeOK, OwnFiles, database, FaultsTypeOK
<1>12. CASE CreateTopic
  BY <1>12 DEF CreateTopic, TypeOK, OwnFiles, database, FaultsTypeOK
<1>13. CASE UNCHANGED vars
  BY <1>13 DEF vars, TypeOK, OwnFiles, FaultsTypeOK
<1> QED BY <1>1, <1>2, <1>3, <1>4, <1>5, <1>6, <1>7, <1>8, <1>9, <1>10, <1>11, <1>12, <1>13
        DEF Next, Proceed

LEMMA InitType == ASSUME Init PROVE TypeOK /\ OwnFiles
<1>1. pods \in [Pods -> Pod] /\ OwnFiles
      /\ \A p \in Pods : pods[p].file \in 1..(Image[p] + 1)
  BY StartupAssumption DEF Init, Pod, OwnFiles
<1>2. FaultsTypeOK
  BY DEF Init, FaultsInit, FaultsTypeOK
<1>3. schema_migrations \subseteq Nat \ {0} /\ applied \in Seq(Nat \ {0})
  BY DEF Init
<1> QED BY <1>1, <1>2, <1>3 DEF Init, TypeOK

\* Pods, the record of the migrations, the lock and the session left behind keep
\* their types, and Migrate's loop stays within the files of its image.
THEOREM StartupTypeCorrect == Spec => []TypeOK
<1> QED BY InitType, TypeStep, PTL DEF Spec

-----------------------------------------------------------------------------
\* Migrations.

\* A migrator between pg_advisory_lock and the unlock holds the lock; a COMMIT
\* without a client is that of the session that has kept it.
LockInv ==
  /\ \A p \in Pods : pods[p].phase \in Session => lock = p
  /\ ghost # 0 => lock = Ghost

\* What a migrator, or the session left behind, has got to: it has passed
\* recorded files only, and what it applies is the first file not recorded.
PlaceInv ==
  /\ \A p \in Pods :
       /\ pods[p].phase \in {"check", "unlock"} => pods[p].file <= Len(applied) + 1
       /\ pods[p].phase \in {"apply", "commit"} => pods[p].file = Len(applied) + 1
       /\ pods[p].phase = "unlock" => pods[p].file > Image[p]
       /\ pods[p].phase \in {"connect", "topic", "serving", "mainFailed"} =>
            Image[p] <= Len(applied)
  /\ ghost # 0 => ghost = Len(applied) + 1

MigrateInv == TypeOK /\ OwnFiles /\ AppliedInOrder /\ LockInv /\ PlaceInv

\* Committing the first file that is missing keeps the files in order.
LEMMA CommittedInOrder ==
  ASSUME TypeOK, AppliedInOrder, Committed(Len(applied) + 1)
  PROVE  AppliedInOrder' /\ Len(applied') = Len(applied) + 1
<1> DEFINE n == Len(applied)
<1>1. n \in Nat /\ applied \in Seq(Nat \ {0})
  BY DEF TypeOK
<1>2. applied' = Append(applied, n + 1)
  BY DEF Committed
<1>3. Len(applied') = n + 1 /\ applied'[n + 1] = n + 1
      /\ \A i \in 1..n : applied'[i] = applied[i]
  BY <1>1, <1>2
<1>4. \A i \in 1..(n + 1) : applied'[i] = i
  BY <1>1, <1>3 DEF AppliedInOrder
<1>5. schema_migrations' = 1..(n + 1)
  <2>1. schema_migrations' = (1..n) \cup {n + 1}
    BY DEF Committed, AppliedInOrder
  <2> QED BY <1>1, <2>1
<1> QED BY <1>3, <1>4, <1>5 DEF AppliedInOrder

\* At most one of the sessions that may commit exists.
LEMMA OneSession ==
  ASSUME LockInv
  PROVE  /\ \A p, q \in Pods :
              pods[p].phase \in Session /\ pods[q].phase \in Session => p = q
         /\ \A p \in Pods : pods[p].phase \in Session => ghost = 0
BY StartupAssumption DEF LockInv

LEMMA MigrateStep ==
  ASSUME MigrateInv, [Next]_vars
  PROVE  AppliedInOrder' /\ LockInv' /\ PlaceInv'
<1> USE StartupAssumption
<1>0. /\ pods \in [Pods -> Pod] /\ Len(applied) \in Nat /\ ghost \in Nat
      /\ \A p \in Pods : pods[p].file \in Nat /\ pods[p].file > 0
  BY DEF MigrateInv, TypeOK, OwnFiles, Pod
<1> USE DEF MigrateInv
\* Steps of a pod that neither take the lock nor commit.
<1>1. ASSUME NEW p \in Pods,
             OpenDB(p) \/ WaitForTopic(p) \/ WaitForFails(p) \/ Restart(p)
      PROVE  AppliedInOrder' /\ LockInv' /\ PlaceInv'
  <2>1. UNCHANGED database
    BY <1>1 DEF OpenDB, WaitForTopic, WaitForFails, Restart
  <2>2. \A q \in Pods \ {p} : pods'[q] = pods[q]
    BY <1>0, <1>1 DEF OpenDB, WaitForTopic, WaitForFails, Restart, Goto
  <2>3. /\ pods'[p].phase \notin Session
        /\ \/ pods'[p].phase \in {"connect", "topic", "serving", "mainFailed"}
              /\ pods[p].phase \in {"connect", "topic", "serving", "mainFailed"}
           \/ pods'[p].phase \in {"opening", "lock", "initFailed"}
    <3>1. \A phase : Goto(p, phase) => pods'[p].phase = phase
      BY <1>0 DEF Goto, Pod
    <3>2. CASE OpenDB(p)
      BY <3>1, <3>2 DEF OpenDB, At, Session
    <3>3. CASE WaitForTopic(p)
      BY <3>1, <3>3 DEF WaitForTopic, At, Session
    <3>4. CASE WaitForFails(p)
      BY <3>1, <3>4 DEF WaitForFails, At, Session
    <3>5. CASE Restart(p)
      BY <3>1, <3>5 DEF Restart, At, Session
    <3> QED BY <1>1, <3>2, <3>3, <3>4, <3>5
  <2>4. AppliedInOrder'
    BY <2>1 DEF database, AppliedInOrder
  <2>5. LockInv'
    BY <2>1, <2>2, <2>3 DEF database, LockInv
  <2>6. PlaceInv'
    <3>1. pods'[p].phase \notin {"check", "unlock", "apply", "commit"}
      BY <2>3 DEF Session
    <3> QED BY <2>1, <2>2, <2>3, <3>1 DEF database, PlaceInv
  <2> QED BY <2>4, <2>5, <2>6
<1>2. ASSUME NEW p \in Pods, TakeLock(p) PROVE AppliedInOrder' /\ LockInv' /\ PlaceInv'
  <2>1. \A q \in Pods : pods[q].phase \notin Session
    BY <1>2 DEF TakeLock, LockInv
  <2>2. pods' = [pods EXCEPT ![p].phase = "create"] /\ lock' = p /\ ghost = 0
        /\ UNCHANGED <<schema_migrations, applied, ghost>>
    BY <1>2 DEF TakeLock, Goto, LockInv
  <2>3. AppliedInOrder'
    BY <2>2 DEF AppliedInOrder
  <2>4. LockInv'
    BY <1>0, <2>1, <2>2 DEF LockInv
  <2>5. PlaceInv'
    BY <1>0, <2>2 DEF PlaceInv
  <2> QED BY <2>3, <2>4, <2>5
<1>3. ASSUME NEW p \in Pods, CreateTable(p) PROVE AppliedInOrder' /\ LockInv' /\ PlaceInv'
  <2>1. pods' = [pods EXCEPT ![p] = [phase |-> "check", file |-> 1]]
        /\ UNCHANGED <<schema_migrations, applied, lock, ghost>>
    BY <1>3 DEF CreateTable, database
  <2>2. lock = p
    BY <1>3 DEF CreateTable, At, LockInv, Session
  <2>3. AppliedInOrder'
    BY <2>1 DEF AppliedInOrder
  <2>4. LockInv'
    BY <1>0, <2>1, <2>2 DEF LockInv
  <2>5. PlaceInv'
    BY <1>0, <2>1 DEF PlaceInv
  <2> QED BY <2>3, <2>4, <2>5
<1>4. ASSUME NEW p \in Pods, Check(p) PROVE AppliedInOrder' /\ LockInv' /\ PlaceInv'
  <2> DEFINE file == pods[p].file
  <2>1. UNCHANGED <<schema_migrations, applied, lock, ghost>>
    BY <1>4 DEF Check, database
  <2>2. lock = p /\ file <= Len(applied) + 1
    BY <1>4 DEF Check, At, LockInv, PlaceInv, Session
  <2>3. Done(p) <=> file <= Len(applied)
    BY <1>0 DEF Done, AppliedInOrder
  <2>4. PICK r : /\ pods' = [pods EXCEPT ![p] = r]
                 /\ \/ r = [phase |-> "unlock", file |-> file] /\ file > Image[p]
                    \/ r = [phase |-> "check", file |-> file + 1] /\ file <= Len(applied)
                    \/ r = [phase |-> "apply", file |-> file] /\ file = Len(applied) + 1
    <3>1. CASE file > Image[p]
      BY <1>4, <3>1 DEF Check
    <3>2. CASE ~(file > Image[p]) /\ Done(p)
      BY <1>4, <2>3, <3>2 DEF Check
    <3>3. CASE ~(file > Image[p]) /\ ~Done(p)
      <4>1. file = Len(applied) + 1
        BY <1>0, <2>2, <2>3, <3>3
      <4> QED BY <1>4, <3>3, <4>1 DEF Check
    <3> QED BY <3>1, <3>2, <3>3
  <2>5. AppliedInOrder'
    BY <2>1 DEF AppliedInOrder
  <2>6. LockInv'
    BY <1>0, <2>1, <2>2, <2>4 DEF LockInv
  <2>7. PlaceInv'
    BY <1>0, <2>1, <2>2, <2>4 DEF PlaceInv
  <2> QED BY <2>5, <2>6, <2>7
<1>5. ASSUME NEW p \in Pods, Apply(p) PROVE AppliedInOrder' /\ LockInv' /\ PlaceInv'
  <2>1. lock = p /\ pods[p].file = Len(applied) + 1
    BY <1>5 DEF Apply, At, LockInv, PlaceInv, Session
  <2>2. ~Done(p)
    BY <1>0, <2>1 DEF Done, AppliedInOrder
  <2>3. pods' = [pods EXCEPT ![p].phase = "commit"]
        /\ UNCHANGED <<schema_migrations, applied, lock, ghost>>
    BY <1>5, <2>2 DEF Apply, Goto
  <2>4. AppliedInOrder'
    BY <2>3 DEF AppliedInOrder
  <2>5. LockInv'
    BY <1>0, <2>1, <2>3 DEF LockInv
  <2>6. PlaceInv'
    BY <1>0, <2>1, <2>3 DEF PlaceInv
  <2> QED BY <2>4, <2>5, <2>6
<1>6. ASSUME NEW p \in Pods, Commit(p) PROVE AppliedInOrder' /\ LockInv' /\ PlaceInv'
  <2>1. lock = p /\ pods[p].file = Len(applied) + 1 /\ pods[p].phase \in Session
    BY <1>6 DEF Commit, At, LockInv, PlaceInv, Session
  <2>2. pods' = [pods EXCEPT ![p] = [phase |-> "check", file |-> pods[p].file + 1]]
        /\ Committed(Len(applied) + 1) /\ UNCHANGED <<lock, ghost>>
    BY <1>6, <2>1 DEF Commit
  <2>3. AppliedInOrder' /\ Len(applied') = Len(applied) + 1
    BY <2>2, CommittedInOrder
  <2>4. LockInv'
    BY <1>0, <2>1, <2>2 DEF LockInv
  <2>5. ghost = 0 /\ \A q \in Pods \ {p} : pods[q].phase \notin Session
    BY <2>1, OneSession
  <2>6. PlaceInv'
    BY <1>0, <2>1, <2>2, <2>3, <2>5 DEF PlaceInv, Session
  <2> QED BY <2>3, <2>4, <2>6
<1>7. ASSUME NEW p \in Pods, Unlock(p) PROVE AppliedInOrder' /\ LockInv' /\ PlaceInv'
  <2>1. pods[p].phase \in Session /\ pods[p].file > Image[p]
        /\ pods[p].file <= Len(applied) + 1
    BY <1>7 DEF Unlock, At, PlaceInv, Session
  <2>2. pods' = [pods EXCEPT ![p].phase = "connect"]
        /\ UNCHANGED <<schema_migrations, applied, ghost>>
    BY <1>7 DEF Unlock, Goto
  <2>3. ghost = 0 /\ \A q \in Pods \ {p} : pods[q].phase \notin Session
    BY <2>1, OneSession
  <2>4. AppliedInOrder'
    BY <2>2 DEF AppliedInOrder
  <2>5. LockInv'
    BY <1>0, <2>2, <2>3 DEF LockInv, Session
  <2>6. PlaceInv'
    BY <1>0, <2>1, <2>2 DEF PlaceInv
  <2> QED BY <2>4, <2>5, <2>6
<1>8. ASSUME NEW p \in Pods, MigrateFails(p) PROVE AppliedInOrder' /\ LockInv' /\ PlaceInv'
  <2>1. pods' = [pods EXCEPT ![p].phase = "initFailed"]
        /\ lock' = (IF lock = p THEN Nobody ELSE lock)
        /\ UNCHANGED <<schema_migrations, applied, ghost>>
    BY <1>8 DEF MigrateFails, Goto
  <2>2. AppliedInOrder'
    BY <2>1 DEF AppliedInOrder
  <2>3. LockInv'
    BY <1>0, <2>1 DEF LockInv, Session
  <2>4. PlaceInv'
    BY <1>0, <2>1 DEF PlaceInv
  <2> QED BY <2>2, <2>3, <2>4
<1>9. ASSUME NEW p \in Pods, Crash(p) PROVE AppliedInOrder' /\ LockInv' /\ PlaceInv'
  <2>1. pods' = [pods EXCEPT ![p].phase = Failed(pods[p].phase)]
        /\ UNCHANGED <<schema_migrations, applied>>
    BY <1>9 DEF Crash, Goto
  <2>2. /\ pods[p].phase \in {"connect", "topic", "serving"} =>
             pods'[p].phase = "mainFailed"
        /\ pods[p].phase \notin {"connect", "topic", "serving"} =>
             pods'[p].phase = "initFailed"
        /\ \A q \in Pods \ {p} : pods'[q] = pods[q]
    BY <1>0, <2>1 DEF Failed
  <2>3. AppliedInOrder'
    BY <2>1 DEF AppliedInOrder
  <2>4. CASE lock = p
    <3>1. lock' = Ghost /\ ghost' = (IF At(p, "commit") THEN pods[p].file ELSE 0)
      BY <1>9, <2>4 DEF Crash
    <3>2. LockInv'
      BY <2>2, <2>4, <3>1 DEF LockInv, Session
    <3>3. PlaceInv'
      BY <2>1, <2>2, <3>1 DEF PlaceInv, At
    <3> QED BY <2>3, <3>2, <3>3
  <2>5. CASE lock # p
    <3>1. UNCHANGED <<lock, ghost>>
      BY <1>9, <2>5 DEF Crash
    <3>2. LockInv'
      BY <2>2, <3>1 DEF LockInv, Session
    <3>3. PlaceInv'
      BY <2>1, <2>2, <3>1 DEF PlaceInv
    <3> QED BY <2>3, <3>2, <3>3
  <2> QED BY <2>4, <2>5
<1>10. CASE SessionEnds
  <2>1. \A p \in Pods : pods[p].phase \notin Session
    BY <1>10 DEF SessionEnds, LockInv
  <2>2. pods' = pods /\ ghost' = 0
    BY <1>10 DEF SessionEnds
  <2>3. AppliedInOrder' /\ (Len(applied') = Len(applied) + 1 \/ UNCHANGED applied)
    <3>1. CASE ghost # 0 /\ Committed(ghost)
      BY <3>1, CommittedInOrder DEF PlaceInv
    <3>2. CASE UNCHANGED <<schema_migrations, applied>>
      BY <3>2 DEF AppliedInOrder
    <3> QED BY <1>10, <3>1, <3>2 DEF SessionEnds
  <2>4. LockInv'
    BY <2>1, <2>2 DEF LockInv
  <2>5. PlaceInv'
    BY <1>0, <2>1, <2>2, <2>3 DEF PlaceInv, Session
  <2> QED BY <2>3, <2>4, <2>5
<1>11. CASE PostgresStops
  <2>1. /\ ghost' = 0
        /\ \A p \in Pods : pods'[p].phase = Severed(pods[p].phase)
    BY <1>0, <1>11 DEF PostgresStops, Pod
  <2>2. AppliedInOrder' /\ (Len(applied') = Len(applied) + 1 \/ UNCHANGED applied)
    <3>1. ASSUME NEW p \in Pods, At(p, "commit"), Committed(pods[p].file)
          PROVE  AppliedInOrder' /\ Len(applied') = Len(applied) + 1
      BY <3>1, CommittedInOrder DEF PlaceInv, At
    <3>2. CASE ghost # 0 /\ Committed(ghost)
      BY <3>2, CommittedInOrder DEF PlaceInv
    <3>3. CASE UNCHANGED <<schema_migrations, applied>>
      BY <3>3 DEF AppliedInOrder
    <3> QED BY <1>11, <3>1, <3>2, <3>3 DEF PostgresStops
  <2>3. LockInv'
    BY <2>1 DEF LockInv, Severed, Session
  <2>4. \A p \in Pods : pods[p].phase = "unlock" => Image[p] <= Len(applied)
    BY <1>0 DEF PlaceInv
  <2>5. PlaceInv'
    BY <1>0, <2>1, <2>2, <2>4 DEF PlaceInv, Severed, Session
  <2> QED BY <2>2, <2>3, <2>5
<1>12. CASE PostgresStarts \/ CreateTopic \/ UNCHANGED vars
  <2>1. UNCHANGED <<pods, schema_migrations, applied, lock, ghost>>
    BY <1>12 DEF PostgresStarts, CreateTopic, vars, database
  <2> QED BY <2>1 DEF AppliedInOrder, LockInv, PlaceInv
<1> QED BY <1>1, <1>2, <1>3, <1>4, <1>5, <1>6, <1>7, <1>8, <1>9, <1>10, <1>11, <1>12
        DEF Next, Proceed

LEMMA MigrateInvariant == Spec => []MigrateInv
<1>1. Init => MigrateInv
  <2> SUFFICES ASSUME Init PROVE MigrateInv
    OBVIOUS
  <2>1. TypeOK /\ OwnFiles
    BY InitType
  <2>2. AppliedInOrder
    BY DEF Init, AppliedInOrder
  <2>3. LockInv /\ PlaceInv
    BY DEF Init, LockInv, PlaceInv, Session
  <2> QED BY <2>1, <2>2, <2>3 DEF MigrateInv
<1>2. MigrateInv /\ [Next]_vars => MigrateInv'
  BY TypeStep, MigrateStep DEF MigrateInv
<1> QED BY <1>1, <1>2, PTL DEF Spec

\* Each migration is applied exactly once and in order, and the record says
\* which: also when a migrator dies during a COMMIT that is carried out later,
\* and whichever images migrate in whichever order.
THEOREM MigrationsAppliedInOrder == Spec => []AppliedInOrder
<1>1. MigrateInv => AppliedInOrder
  BY DEF MigrateInv
<1> QED BY <1>1, MigrateInvariant, PTL

\* The advisory lock makes migrators take turns: what one has found missing is
\* still missing when it records it.
THEOREM MigratorsTakeTurns == Spec => []TurnsTaken
<1>1. MigrateInv => TurnsTaken
  <2> SUFFICES ASSUME MigrateInv, NEW p \in Pods, pods[p].phase \in {"apply", "commit"}
               PROVE  pods[p].file \notin schema_migrations
    BY DEF TurnsTaken
  <2>1. pods[p].file = Len(applied) + 1 /\ Len(applied) \in Nat
    BY DEF MigrateInv, PlaceInv, TypeOK
  <2> QED BY <2>1 DEF MigrateInv, AppliedInOrder
<1> QED BY <1>1, MigrateInvariant, PTL

\* A pod's own container runs only when every migration of its image has been
\* applied, for any mixture of images and after any restart.
THEOREM SchemaIsReady == Spec => []SchemaReady
<1>1. MigrateInv => SchemaReady
  <2> SUFFICES ASSUME MigrateInv, NEW p \in Pods,
                      pods[p].phase \in {"connect", "topic", "serving", "mainFailed"}
               PROVE  1..Image[p] \subseteq schema_migrations
    BY DEF SchemaReady
  <2>1. Image[p] <= Len(applied) /\ Image[p] \in Nat /\ Len(applied) \in Nat
    BY StartupAssumption DEF MigrateInv, PlaceInv, TypeOK
  <2> QED BY <2>1 DEF MigrateInv, AppliedInOrder
<1> QED BY <1>1, MigrateInvariant, PTL
=============================================================================
