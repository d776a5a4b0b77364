--------------------------- MODULE UnitJobsProofs ---------------------------
(***************************************************************************)
(* Proofs about UnitJobs, for any tasks and integers. JInv, stated there,  *)
(* is inductive; that the calls on a unit are serial, whose job a result   *)
(* is of, and who starts a unit follow from it.                            *)
(***************************************************************************)
EXTENDS UnitJobs, TLAPS

USE NoTaskAssumption, MaxInt64Assumption DEF unitVars, taskVars, Managed, Jobs

(* The smallest signed integer is one.                                     *)
LEMMA MinusMax == -MaxInt64 - 1 \in Int
  OBVIOUS

(* Whatever systemd's property holds, the time is a point in time.         *)
LEMMA StartTimeRange == \A v \in Values : UnitStartTime(v) \in 0 .. MaxInt64
  <1> SUFFICES ASSUME NEW v \in Values PROVE UnitStartTime(v) \in 0 .. MaxInt64
    OBVIOUS
  <1>1. /\ v.type = "uint64" => v.n \in Nat
        /\ v.type = "int64" => v.n \in -MaxInt64 - 1 .. MaxInt64
    BY DEF Values, MaxUint64
  <1>2. parseTimestampUsec(v) \in 0 .. MaxInt64
    BY <1>1 DEF parseTimestampUsec
  <1> QED
    BY <1>2 DEF UnitStartTime, Int64

-----------------------------------------------------------------------------
(* What each part of a step does.                                          *)
LEMMA DeliverEffect ==
    ASSUME TypeOK, NEW w \in Tasks \cup {NoTask}, NEW r \in {"done", "failed"},
           Deliver(w, r)
    PROVE  /\ result' \in [Tasks -> {"none", "done", "failed"}]
           /\ \A t \in Tasks : result'[t] = IF t = w THEN r ELSE result[t]
  BY DEF TypeOK, Deliver

(* A move of the unit: who is watching sees it.                            *)
LEMMA UnitEffect ==
    ASSUME TypeOK, NEW s \in {"down", "coming", "up"},
           NEW c \in {"none", "driver", "admin"}, Unit(s, c)
    PROVE  /\ unit' = s
           /\ by' \in {"none", "driver", "admin"}
           /\ by' \in {"none", c}
           /\ seen' \in [Tasks -> SUBSET {"down", "coming", "up"}]
           /\ \A t \in Tasks : seen[t] \subseteq seen'[t] /\ s \in seen'[t]
  BY DEF TypeOK, Unit

(* A request: the unit's job is of its kind then, and a job of the other   *)
(* kind has failed.                                                        *)
LEMMA EnqueueEffect ==
    ASSUME TypeOK, NEW k \in {"start", "stop"}, NEW c \in {"driver", "admin"},
           NEW t \in Tasks \cup {NoTask}, Enqueue(k, c, t)
    PROVE  /\ job' \in Jobs
           /\ result' \in [Tasks -> {"none", "done", "failed"}]
           /\ job'.kind = k
           /\ job'.waiter = t \/ (t = NoTask /\ job'.waiter = job.waiter /\ job.kind = k)
           /\ \/ UNCHANGED result
              \/ /\ job.kind # k
                 /\ \A u \in Tasks : result'[u] = IF u = job.waiter THEN "failed"
                                                                   ELSE result[u]
           /\ job'.by = "driver" => c = "driver" \/ (job.kind = k /\ job.by = "driver")
  <1>0. job \in Jobs
    BY DEF TypeOK
  <1>1. CASE job.kind = k
    <2>1. /\ job' = [kind |-> k, by |-> IF c = "driver" THEN c ELSE job.by,
                     waiter |-> IF t = NoTask THEN job.waiter ELSE t]
          /\ UNCHANGED result
      BY <1>1 DEF Enqueue
    <2>2. /\ (IF c = "driver" THEN c ELSE job.by) \in {"none", "driver", "admin"}
          /\ (IF t = NoTask THEN job.waiter ELSE t) \in Tasks \cup {NoTask}
      BY <1>0
    <2>3. result' \in [Tasks -> {"none", "done", "failed"}]
      BY <2>1 DEF TypeOK
    <2>4. job'.kind = k /\ job'.waiter = IF t = NoTask THEN job.waiter ELSE t
      BY <2>1
    <2>5. job'.by = "driver" => c = "driver" \/ job.by = "driver"
      BY <2>1
    <2>6. job' \in Jobs
      BY <2>1, <2>2
    <2> QED
      BY <1>1, <2>1, <2>3, <2>4, <2>5, <2>6
  <1>2. CASE job.kind # k
    <2>1. job' = [kind |-> k, by |-> c, waiter |-> t]
      BY <1>2 DEF Enqueue
    <2>2. Deliver(job.waiter, "failed")
      BY <1>2 DEF Enqueue
    <2>3. job.waiter \in Tasks \cup {NoTask}
      BY <1>0
    <2>4. /\ result' \in [Tasks -> {"none", "done", "failed"}]
          /\ \A u \in Tasks : result'[u] = IF u = job.waiter THEN "failed" ELSE result[u]
      BY <2>2, <2>3, DeliverEffect
    <2>5. /\ job'.kind = k /\ job'.waiter = t /\ job'.by = c
          /\ job' \in Jobs
      BY <2>1
    <2> QED
      BY <1>2, <2>4, <2>5
  <1> QED
    BY <1>1, <1>2

(* The end of a wait: neither result nor waiter is left.                   *)
LEMMA ForgetEffect ==
    ASSUME TypeOK, NEW t \in Tasks, Forget(t)
    PROVE  /\ job' \in Jobs
           /\ result' = [result EXCEPT ![t] = "none"]
           /\ job'.kind = job.kind /\ job'.by = job.by
           /\ job'.waiter # t
           /\ job'.waiter \in {job.waiter, NoTask}
  <1>0. job \in Jobs
    BY DEF TypeOK
  <1>1. result' = [result EXCEPT ![t] = "none"]
    BY DEF Forget
  <1>2. CASE job.waiter = t
    BY <1>0, <1>1, <1>2 DEF Forget
  <1>3. CASE job.waiter # t
    BY <1>0, <1>1, <1>3 DEF Forget
  <1> QED
    BY <1>2, <1>3

-----------------------------------------------------------------------------
(* At first there is neither a job nor a call.                             *)
LEMMA InitInv == Init => JInv
  <1> SUFFICES ASSUME Init PROVE JInv
    OBVIOUS
  <1>0. job \in Jobs
    BY DEF Init, NoJob, Jobs
  <1>00. /\ call \in [Tasks -> {"idle", "start", "startwait", "rollback", "rollwait",
                               "stop", "stopwait"} \cup Managed]
         /\ result \in [Tasks -> {"none", "done", "failed"}]
    BY DEF Init
  <1>01. /\ seen \in [Tasks -> SUBSET {"down", "coming", "up"}]
         /\ startedAt \in [Tasks -> Int]
    BY DEF Init
  <1>02. /\ unit \in {"down", "coming", "up"} /\ by \in {"none", "driver", "admin"}
         /\ owner \in Tasks \cup {NoTask} /\ reported \in BOOLEAN
    BY DEF Init
  <1>1. TypeOK
    BY <1>0, <1>00, <1>01, <1>02 DEF TypeOK
  <1>2. job.kind = "none" /\ job.waiter = NoTask /\ ~StartPending /\ ~DriverJob
    BY DEF Init, NoJob, StartPending, DriverJob
  <1>3. WaitInv /\ DoneInv
    BY <1>2 DEF Init, WaitInv, DoneInv
  <1>4. OrphanInv
    BY <1>2 DEF Init, OrphanInv, OrphansAreReported
  <1>5. JobsAreHonest /\ StartTimeIsReal
    BY DEF Init, JobsAreHonest, StartTimeIsReal
  <1> QED
    BY <1>1, <1>3, <1>4, <1>5 DEF JInv

(* A request goes to systemd, is lost or queued, and changes no more than  *)
(* the job, a result and the caller's program counter.                     *)
LEMMA RequestEffect ==
    ASSUME TypeOK, NEW t \in Tasks, NEW k \in {"start", "stop"},
           NEW wait, NEW failed, Request(t, k, wait, failed)
    PROVE  /\ job' \in Jobs
           /\ result' \in [Tasks -> {"none", "done", "failed"}]
           /\ \/ call' = [call EXCEPT ![t] = failed] /\ UNCHANGED <<job, result>>
              \/ /\ call' = [call EXCEPT ![t] = failed]
                 /\ Enqueue(k, "driver", NoTask)
              \/ /\ call' = [call EXCEPT ![t] = wait]
                 /\ Enqueue(k, "driver", t)
  <1>1. CASE Goto(t, failed) /\ UNCHANGED <<job, result>>
    BY <1>1 DEF Goto, TypeOK
  <1>2. CASE Goto(t, failed) /\ Enqueue(k, "driver", NoTask)
    BY <1>2, EnqueueEffect DEF Goto
  <1>3. CASE Goto(t, wait) /\ Enqueue(k, "driver", t)
    BY <1>3, EnqueueEffect DEF Goto
  <1> QED
    BY <1>1, <1>2, <1>3 DEF Request

(* Every step keeps the types.                                             *)
LEMMA TypeStep == TypeOK /\ [Next]_jvars => TypeOK'
  <1> SUFFICES ASSUME TypeOK, [Next]_jvars PROVE TypeOK'
    OBVIOUS
  <1>1. ASSUME NEW k \in {"start", "stop"}, AdminAsks(k) PROVE TypeOK'
    <2>1. job' \in Jobs /\ result' \in [Tasks -> {"none", "done", "failed"}]
      BY <1>1, EnqueueEffect DEF AdminAsks
    <2> QED
      BY <1>1, <2>1 DEF AdminAsks, TypeOK
  <1>2. CASE JobDone
    <2>1. job.by \in {"none", "driver", "admin"} /\ job.waiter \in Tasks \cup {NoTask}
      BY DEF TypeOK
    <2>2. /\ unit' \in {"down", "coming", "up"} /\ by' \in {"none", "driver", "admin"}
          /\ seen' \in [Tasks -> SUBSET {"down", "coming", "up"}]
      BY <1>2, <2>1, UnitEffect DEF JobDone
    <2>3. result' \in [Tasks -> {"none", "done", "failed"}]
      BY <1>2, <2>1, DeliverEffect DEF JobDone
    <2>4. job' \in Jobs
      BY <1>2 DEF JobDone, NoJob
    <2> QED
      BY <1>2, <2>2, <2>3, <2>4 DEF JobDone, TypeOK
  <1>3. CASE JobFails
    <2>1. job.by \in {"none", "driver", "admin"} /\ job.waiter \in Tasks \cup {NoTask}
      BY DEF TypeOK
    <2>2. /\ unit' \in {"down", "coming", "up"} /\ by' \in {"none", "driver", "admin"}
          /\ seen' \in [Tasks -> SUBSET {"down", "coming", "up"}]
      <3>1. CASE UNCHANGED <<unitVars, seen>>
        BY <3>1 DEF TypeOK
      <3>2. ASSUME NEW s \in {"down", "coming"}, Unit(s, job.by)
            PROVE  <2>2!1 /\ <2>2!2
        BY <2>1, <3>2, UnitEffect
      <3> QED
        BY <1>3, <3>1, <3>2 DEF JobFails
    <2>3. result' \in [Tasks -> {"none", "done", "failed"}]
      BY <1>3, <2>1, DeliverEffect DEF JobFails
    <2>4. job' \in Jobs
      BY <1>3 DEF JobFails, NoJob
    <2> QED
      BY <1>3, <2>2, <2>3, <2>4 DEF JobFails, TypeOK
  <1>4. CASE UnitMoves
    <2>1. PICK s \in {"down", "coming", "up"} : Unit(s, by)
      BY <1>4 DEF UnitMoves
    <2>2. by \in {"none", "driver", "admin"}
      BY DEF TypeOK
    <2>3. /\ unit' \in {"down", "coming", "up"} /\ by' \in {"none", "driver", "admin"}
          /\ seen' \in [Tasks -> SUBSET {"down", "coming", "up"}]
      BY <2>1, <2>2, UnitEffect
    <2> QED
      BY <1>4, <2>3 DEF UnitMoves, TypeOK
  <1>5. CASE ConnectionDrops
    BY <1>5 DEF ConnectionDrops, TypeOK
  <1>6. ASSUME NEW t \in Tasks, StartTask(t) PROVE TypeOK'
    BY <1>6 DEF StartTask, Goto, TypeOK
  <1>7. ASSUME NEW t \in Tasks, RecoverTask(t) PROVE TypeOK'
    <2>1. startedAt' \in [Tasks -> Int]
      BY <1>7, StartTimeRange DEF RecoverTask, TypeOK
    <2> QED
      BY <1>7, <2>1 DEF RecoverTask, Goto, TypeOK
  <1>8. ASSUME NEW t \in Tasks, StopTask(t) \/ DestroyTask(t) PROVE TypeOK'
    BY <1>8 DEF StopTask, DestroyTask, Release, Goto, TypeOK
  <1>9. ASSUME NEW t \in Tasks, StartUnit(t) \/ StopUnit(t) \/ RollBack(t) PROVE TypeOK'
    <2>0. Watch(t)
      BY <1>9 DEF StartUnit, StopUnit, RollBack
    <2>1. Watch(t) /\ seen' \in [Tasks -> SUBSET {"down", "coming", "up"}]
      <3>1. {unit} \in SUBSET {"down", "coming", "up"}
        BY DEF TypeOK
      <3> QED
        BY <2>0, <3>1 DEF Watch, TypeOK
    <2>2. CASE StartUnit(t)
      BY <2>1, <2>2, RequestEffect DEF StartUnit, TypeOK
    <2>3. CASE StopUnit(t)
      BY <2>1, <2>3, RequestEffect DEF StopUnit, TypeOK
    <2>4. CASE RollBack(t)
      <3>1. owner' \in Tasks \cup {NoTask} /\ reported' \in BOOLEAN
        BY <2>4 DEF RollBack, TypeOK
      <3>2. Request(t, "stop", "rollwait", "idle") /\ UNCHANGED <<unitVars, startedAt>>
        BY <2>4 DEF RollBack
      <3> QED
        BY <2>1, <3>1, <3>2, RequestEffect DEF TypeOK
    <2> QED
      BY <1>9, <2>2, <2>3, <2>4
  <1>10. ASSUME NEW t \in Tasks,
                \/ Started(t) \/ StartFails(t) \/ StartAbandoned(t) \/ RolledBack(t)
                \/ RollBackAbandoned(t) \/ Stopped(t) \/ StopAbandoned(t)
         PROVE  TypeOK'
    <2>1. Forget(t) /\ UNCHANGED <<unitVars, startedAt, seen>>
      BY <1>10 DEF Started, StartFails, StartAbandoned, RolledBack, RollBackAbandoned,
                   Stopped, StopAbandoned
    <2>2. job' \in Jobs /\ result' \in [Tasks -> {"none", "done", "failed"}]
      BY <2>1, ForgetEffect DEF TypeOK
    <2>3. /\ call' \in [Tasks -> {"idle", "start", "startwait", "rollback", "rollwait",
                                  "stop", "stopwait"} \cup Managed]
          /\ owner' \in Tasks \cup {NoTask}
      BY <1>10 DEF Started, StartFails, StartAbandoned, RolledBack, RollBackAbandoned,
                   Stopped, StopAbandoned, Release, Goto, TypeOK
    <2>4. reported' \in BOOLEAN
      BY <1>10 DEF Started, StartFails, StartAbandoned, RolledBack, RollBackAbandoned,
                   Stopped, StopAbandoned, TypeOK
    <2> QED
      BY <2>1, <2>2, <2>3, <2>4 DEF TypeOK
  <1>11. CASE UNCHANGED jvars
    BY <1>11 DEF jvars, TypeOK
  <1> QED
    BY <1>1, <1>2, <1>3, <1>4, <1>5, <1>6, <1>7, <1>8, <1>9, <1>10, <1>11
       DEF Next, StartStep, RollStep, StopStep

-----------------------------------------------------------------------------
(* The conjuncts of JInv that a step can disturb.                          *)
Inv == WaitInv /\ DoneInv /\ OrphanInv /\ JobsAreHonest
USE DEF Inv

(* Others' requests fail a job of the other kind, and take no claim.       *)
LEMMA AdminAsksInv ==
    ASSUME TypeOK, Inv, NEW k \in {"start", "stop"}, AdminAsks(k)
    PROVE  Inv'
  <1>0. /\ Enqueue(k, "admin", NoTask)
        /\ UNCHANGED <<unit, by, owner, call, seen, reported>>
    BY DEF AdminAsks
  <1>1. /\ job'.kind = k
        /\ job'.waiter = NoTask \/ (job'.waiter = job.waiter /\ job.kind = k)
        /\ UNCHANGED result \/ \A t \in Tasks : result'[t] = IF t = job.waiter THEN "failed"
                                                                          ELSE result[t]
        /\ job'.by = "driver" => job.kind = k /\ job.by = "driver"
    BY <1>0, EnqueueEffect
  <1>2. UNCHANGED result \/ job.kind # k
    BY <1>0 DEF Enqueue
  <1>3. DriverJob' => DriverJob
    BY <1>1 DEF DriverJob
  <1>4. WaitInv'
    BY <1>0, <1>1, <1>2, EnqueueEffect DEF WaitInv
  <1>5. DoneInv'
    BY <1>0, <1>1, <1>3 DEF DoneInv, StartPending, DriverJob
  <1>6. OrphanInv'
    BY <1>0, <1>3 DEF OrphanInv, OrphansAreReported, StartPending, DriverJob
  <1>7. JobsAreHonest'
    BY <1>0 DEF JobsAreHonest
  <1> QED
    BY <1>4, <1>5, <1>6, <1>7

(* A job that is done brings the unit up or down before its result is      *)
(* heard.                                                                  *)
LEMMA JobDoneInv ==
    ASSUME TypeOK, Inv, JobDone
    PROVE  Inv'
  <1>0. /\ job.kind \in {"start", "stop"} /\ job.by \in {"none", "driver", "admin"}
        /\ job.waiter \in Tasks \cup {NoTask}
        /\ UNCHANGED <<owner, call, reported>>
    BY DEF JobDone, TypeOK
  <1>1. \A t \in Tasks : result'[t] = IF t = job.waiter THEN "done" ELSE result[t]
    BY <1>0, DeliverEffect DEF JobDone
  <1>2. job' = NoJob /\ job'.kind = "none" /\ job'.waiter = NoTask /\ ~DriverJob'
    BY DEF JobDone, NoJob, DriverJob
  <1>3. /\ job.kind = "start" => unit' = "up" /\ by' = job.by
        /\ job.kind = "stop" => unit' = "down" /\ by' = "none"
        /\ \A t \in Tasks : seen[t] \subseteq seen'[t] /\ unit' \in seen'[t]
    BY <1>0 DEF JobDone, Unit
  <1>4. StartPending' => StartPending /\ DriverJob
    BY <1>0, <1>2, <1>3 DEF StartPending, DriverJob
  <1>5. WaitInv'
    BY <1>0, <1>1, <1>2 DEF WaitInv
  <1>6. DoneInv'
    <2> SUFFICES ASSUME NEW t \in Tasks, result'[t] = "done"
                 PROVE  \/ call'[t] = "startwait" /\ "up" \in seen'[t] /\ ~DriverJob'
                        \/ call'[t] = "rollwait" /\ ~StartPending'
                        \/ call'[t] = "stopwait" /\ "down" \in seen'[t]
      BY DEF DoneInv
    <2>1. CASE t = job.waiter
      BY <1>0, <1>2, <1>3, <1>4, <2>1 DEF WaitInv, DriverJob
    <2>2. CASE t # job.waiter
      BY <1>0, <1>1, <1>2, <1>3, <1>4, <2>2 DEF DoneInv
    <2> QED
      BY <2>1, <2>2
  <1>7. OrphanInv'
    BY <1>0, <1>2, <1>4 DEF OrphanInv, OrphansAreReported
  <1>8. JobsAreHonest'
    BY <1>0, <1>3 DEF JobsAreHonest
  <1> QED
    BY <1>5, <1>6, <1>7, <1>8

(* A job that ends, or a unit that moves, with nobody told it is done.     *)
LEMMA UnitStepInv ==
    ASSUME TypeOK, Inv, JobFails \/ UnitMoves
    PROVE  Inv'
  <1>0. UNCHANGED <<owner, call, reported>>
    BY DEF JobFails, UnitMoves
  <1>1. job' = job \/ job' = NoJob
    BY DEF JobFails, UnitMoves
  <1>2. \A t \in Tasks : result'[t] \in {"none", "done"} => result'[t] = result[t]
    BY DEF JobFails, UnitMoves, Deliver
  <1>3. \A t \in Tasks : seen[t] \subseteq seen'[t]
    BY DEF JobFails, UnitMoves, Unit
  <1>4. DriverJob' => DriverJob
    BY <1>1 DEF DriverJob, NoJob
  <1>5. unit' # "down" /\ by' = "driver" => StartPending
    BY DEF JobFails, UnitMoves, Unit, StartPending
  <1>6. StartPending' => StartPending
    BY <1>4, <1>5 DEF StartPending, DriverJob
  <1>7. job' = NoJob \/ (job' = job /\ result' = result)
    BY DEF JobFails, UnitMoves
  <1>8. WaitInv'
    <2>1. CASE job' = job /\ result' = result
      BY <1>0, <2>1 DEF WaitInv
    <2>2. CASE JobFails
      <3>1. \A t \in Tasks : result'[t] = IF t = job.waiter THEN "failed" ELSE result[t]
        BY <2>2, DeliverEffect DEF JobFails, TypeOK
      <3> QED
        BY <1>0, <2>2, <3>1 DEF WaitInv, NoJob, JobFails
    <2> QED
      BY <2>1, <2>2 DEF UnitMoves
  <1>9. DoneInv'
    BY <1>0, <1>2, <1>3, <1>4, <1>6 DEF DoneInv
  <1>10. OrphanInv'
    BY <1>0, <1>4, <1>6 DEF OrphanInv, OrphansAreReported
  <1>11. JobsAreHonest'
    BY <1>0, <1>3 DEF JobsAreHonest
  <1> QED
    BY <1>8, <1>9, <1>10, <1>11

(* Results that are lost tell nobody anything.                             *)
LEMMA ConnectionDropsInv ==
    ASSUME TypeOK, Inv, ConnectionDrops
    PROVE  Inv'
  <1>1. /\ UNCHANGED <<unit, by, owner, call, result, seen, reported>>
        /\ job'.kind = job.kind /\ job'.by = job.by /\ job'.waiter = NoTask
    BY DEF ConnectionDrops, TypeOK
  <1>2. (DriverJob' <=> DriverJob) /\ (StartPending' <=> StartPending)
    BY <1>1 DEF DriverJob, StartPending
  <1> QED
    BY <1>1, <1>2 DEF WaitInv, DoneInv, OrphanInv, OrphansAreReported, JobsAreHonest

(* The claim, a recovery, the next StopTask and a destroy.                 *)
LEMMA ClaimInv ==
    ASSUME TypeOK, Inv, NEW t \in Tasks, StartTask(t) \/ RecoverTask(t)
    PROVE  Inv'
  <1>1. /\ UNCHANGED <<unit, by, job, result, seen, reported>>
        /\ owner = NoTask /\ owner' = t /\ call[t] = "idle"
        /\ call' = [call EXCEPT ![t] = "managed"] \/ call' = [call EXCEPT ![t] = "start"]
    BY DEF StartTask, RecoverTask, Goto
  <1>2. DriverJob => reported
    BY <1>1 DEF OrphanInv, OrphansAreReported, StartPending, DriverJob
  <1>3. (DriverJob' <=> DriverJob) /\ (StartPending' <=> StartPending)
    BY <1>1 DEF DriverJob, StartPending
  <1> QED
    BY <1>1, <1>2, <1>3 DEF TypeOK, WaitInv, DoneInv, OrphanInv, OrphansAreReported,
                            JobsAreHonest

(* A stop begins as a call of the owner.                                   *)
LEMMA StopTaskInv ==
    ASSUME TypeOK, Inv, NEW t \in Tasks, StopTask(t)
    PROVE  Inv'
  <1>1. /\ UNCHANGED <<unit, by, job, owner, result, seen, reported>>
        /\ call[t] \in Managed /\ call' = [call EXCEPT ![t] = "stop"]
    BY DEF StopTask, Goto
  <1>2. (DriverJob' <=> DriverJob) /\ (StartPending' <=> StartPending)
    BY <1>1 DEF DriverJob, StartPending
  <1> QED
    BY <1>1, <1>2 DEF TypeOK, WaitInv, DoneInv, OrphanInv, OrphansAreReported,
                      JobsAreHonest

(* A task is given up with its unit down.                                  *)
LEMMA DestroyTaskInv ==
    ASSUME TypeOK, Inv, NEW t \in Tasks, DestroyTask(t)
    PROVE  Inv'
  <1>1. /\ UNCHANGED <<unit, by, job, result, seen, reported>>
        /\ call[t] \in Managed /\ call' = [call EXCEPT ![t] = "idle"]
        /\ owner' = NoTask /\ unit = "down"
    BY DEF DestroyTask, Release, Goto
  <1>2. (DriverJob' <=> DriverJob) /\ (StartPending' <=> StartPending)
    BY <1>1 DEF DriverJob, StartPending
  <1>3. owner = t /\ (DriverJob => reported) /\ (StartPending => DriverJob)
    BY <1>1 DEF WaitInv, OrphanInv, StartPending, DriverJob
  <1> QED
    BY <1>1, <1>2, <1>3 DEF TypeOK, WaitInv, DoneInv, OrphanInv, OrphansAreReported,
                            JobsAreHonest

-----------------------------------------------------------------------------
(* A request, from a task that holds no result.                            *)
LEMMA StartUnitInv ==
    ASSUME TypeOK, Inv, NEW t \in Tasks, StartUnit(t)
    PROVE  Inv'
  <1>1. /\ call[t] = "start" /\ Request(t, "start", "startwait", "rollback")
        /\ UNCHANGED <<unit, by, owner, reported>>
        /\ owner = t /\ \A u \in Tasks \ {t} : call[u] = "idle"
        /\ seen' = [seen EXCEPT ![t] = {unit}]
    BY DEF StartUnit, WaitInv, Watch
  <1>2. /\ \A u \in Tasks : job.waiter # u /\ result[u] # "done"
        /\ job.waiter = NoTask
    BY <1>1 DEF WaitInv, DoneInv, TypeOK
  <1>3. CASE call' = [call EXCEPT ![t] = "rollback"] /\ UNCHANGED <<job, result>>
    BY <1>1, <1>2, <1>3 DEF TypeOK, WaitInv, DoneInv, OrphanInv, OrphansAreReported,
                            JobsAreHonest
  <1>4. CASE call' = [call EXCEPT ![t] = "rollback"] /\ Enqueue("start", "driver", NoTask)
    <2>1. /\ job'.waiter = NoTask
          /\ \A u \in Tasks : result'[u] # "done" /\ result'[u] = result[u]
      BY <1>2, <1>4, EnqueueEffect
    <2>2. result[t] = "none"
      BY <1>1 DEF WaitInv, TypeOK
    <2>3. /\ call'[t] = "rollback"
          /\ \A u \in Tasks \ {t} : call'[u] = call[u] /\ seen'[u] = seen[u]
      BY <1>1, <1>4 DEF TypeOK
    <2>4. WaitInv'
      BY <1>1, <2>1, <2>2, <2>3 DEF WaitInv
    <2>5. DoneInv' /\ JobsAreHonest'
      BY <1>1, <2>1, <2>3 DEF DoneInv, JobsAreHonest
    <2>6. OrphanInv'
      BY <1>1, <2>3 DEF OrphanInv, OrphansAreReported
    <2> QED
      BY <2>4, <2>5, <2>6
  <1>5. CASE call' = [call EXCEPT ![t] = "startwait"] /\ Enqueue("start", "driver", t)
    <2>1. /\ job'.waiter = t /\ job'.kind = "start"
          /\ \A u \in Tasks : result'[u] # "done" /\ result'[u] = result[u]
      BY <1>2, <1>5, EnqueueEffect
    <2>2. result[t] = "none"
      BY <1>1 DEF WaitInv, TypeOK
    <2>3. /\ call'[t] = "startwait"
          /\ \A u \in Tasks \ {t} : call'[u] = call[u] /\ seen'[u] = seen[u]
      BY <1>1, <1>5 DEF TypeOK
    <2>4. WaitInv'
      BY <1>1, <2>1, <2>2, <2>3 DEF WaitInv
    <2>5. DoneInv' /\ JobsAreHonest'
      BY <1>1, <2>1, <2>3 DEF DoneInv, JobsAreHonest
    <2>6. OrphanInv'
      BY <1>1, <2>3 DEF OrphanInv, OrphansAreReported
    <2> QED
      BY <2>4, <2>5, <2>6
  <1> QED
    BY <1>1, <1>3, <1>4, <1>5, RequestEffect

(* The stop of a StopTask.                                                 *)
LEMMA StopUnitInv ==
    ASSUME TypeOK, Inv, NEW t \in Tasks, StopUnit(t)
    PROVE  Inv'
  <1>1. /\ call[t] = "stop" /\ Request(t, "stop", "stopwait", "managed")
        /\ UNCHANGED <<unit, by, owner, reported>>
        /\ owner = t /\ \A u \in Tasks \ {t} : call[u] = "idle"
        /\ seen' = [seen EXCEPT ![t] = {unit}]
        /\ DriverJob => reported
    BY DEF StopUnit, WaitInv, Watch, OrphanInv
  <1>2. /\ \A u \in Tasks : job.waiter # u /\ result[u] = "none"
        /\ job.waiter = NoTask
    BY <1>1 DEF WaitInv, TypeOK
  <1>3. CASE call' = [call EXCEPT ![t] = "managed"] /\ UNCHANGED <<job, result>>
    <2>1. DriverJob' <=> DriverJob
      BY <1>3 DEF DriverJob
    <2> QED
      BY <1>1, <1>2, <1>3, <2>1 DEF TypeOK, WaitInv, DoneInv, OrphanInv,
                                    OrphansAreReported, JobsAreHonest
  <1>4. CASE call' = [call EXCEPT ![t] = "managed"] /\ Enqueue("stop", "driver", NoTask)
    <2>1. /\ job'.waiter = NoTask /\ job'.kind = "stop"
          /\ \A u \in Tasks : result'[u] = "none"
      BY <1>2, <1>4, EnqueueEffect
    <2> QED
      BY <1>1, <1>4, <2>1 DEF TypeOK, WaitInv, DoneInv, OrphanInv, OrphansAreReported,
                              JobsAreHonest, DriverJob
  <1>5. CASE call' = [call EXCEPT ![t] = "stopwait"] /\ Enqueue("stop", "driver", t)
    <2>1. /\ job'.waiter = t /\ job'.kind = "stop"
          /\ \A u \in Tasks : result'[u] = "none"
      BY <1>2, <1>5, EnqueueEffect
    <2> QED
      BY <1>1, <1>5, <2>1 DEF TypeOK, WaitInv, DoneInv, OrphanInv, OrphansAreReported,
                              JobsAreHonest, DriverJob
  <1> QED
    BY <1>1, <1>3, <1>4, <1>5, RequestEffect

(* The stop of a rollback; one that cannot be asked for is reported.       *)
LEMMA RollBackInv ==
    ASSUME TypeOK, Inv, NEW t \in Tasks, RollBack(t)
    PROVE  Inv'
  <1>1. /\ call[t] = "rollback" /\ Request(t, "stop", "rollwait", "idle")
        /\ UNCHANGED <<unit, by>>
        /\ owner = t /\ \A u \in Tasks \ {t} : call[u] = "idle"
        /\ seen' = [seen EXCEPT ![t] = {unit}]
        /\ IF call'[t] = "idle" THEN owner' = NoTask /\ reported' = TRUE
                                ELSE UNCHANGED <<owner, reported>>
    BY DEF RollBack, WaitInv, Watch
  <1>2. /\ \A u \in Tasks : job.waiter # u /\ result[u] = "none"
        /\ job.waiter = NoTask
    BY <1>1 DEF WaitInv, TypeOK
  <1>3. CASE call' = [call EXCEPT ![t] = "idle"] /\ UNCHANGED <<job, result>>
    <2>1. call'[t] = "idle" /\ owner' = NoTask /\ reported'
      BY <1>1, <1>3 DEF TypeOK
    <2> QED
      BY <1>1, <1>2, <1>3, <2>1 DEF TypeOK, WaitInv, DoneInv, OrphanInv,
                                    OrphansAreReported, JobsAreHonest
  <1>4. CASE call' = [call EXCEPT ![t] = "idle"] /\ Enqueue("stop", "driver", NoTask)
    <2>1. job'.waiter = NoTask /\ \A u \in Tasks : result'[u] = "none"
      BY <1>2, <1>4, EnqueueEffect
    <2>2. call'[t] = "idle" /\ owner' = NoTask /\ reported'
      BY <1>1, <1>4 DEF TypeOK
    <2> QED
      BY <1>1, <1>4, <2>1, <2>2 DEF TypeOK, WaitInv, DoneInv, OrphanInv,
                                    OrphansAreReported, JobsAreHonest
  <1>5. CASE call' = [call EXCEPT ![t] = "rollwait"] /\ Enqueue("stop", "driver", t)
    <2>1. /\ job'.waiter = t /\ job'.kind = "stop"
          /\ \A u \in Tasks : result'[u] = "none"
      BY <1>2, <1>5, EnqueueEffect
    <2>2. UNCHANGED <<owner, reported>>
      BY <1>1, <1>5 DEF TypeOK
    <2> QED
      BY <1>1, <1>5, <2>1, <2>2 DEF TypeOK, WaitInv, DoneInv, OrphanInv,
                                    OrphansAreReported, JobsAreHonest, DriverJob
  <1> QED
    BY <1>1, <1>3, <1>4, <1>5, RequestEffect

-----------------------------------------------------------------------------
(* The end of a wait, by a result or without one.                          *)
LEMMA WaitEnds ==
    ASSUME TypeOK, Inv, NEW t \in Tasks, Forget(t),
           call[t] \in {"startwait", "rollwait", "stopwait"}
    PROVE  /\ owner = t /\ \A u \in Tasks \ {t} : call[u] = "idle"
           /\ \A u \in Tasks : result'[u] = "none" /\ job'.waiter # u
           /\ DriverJob' <=> DriverJob
           /\ UNCHANGED <<unit, by>> => (StartPending' <=> StartPending)
  <1>1. owner = t /\ \A u \in Tasks \ {t} : call[u] = "idle"
    BY DEF WaitInv
  <1>2. \A u \in Tasks \ {t} : result[u] = "none" /\ job.waiter # u
    BY <1>1 DEF WaitInv
  <1>3. /\ \A u \in Tasks : result'[u] = "none" /\ job'.waiter # u
        /\ job'.kind = job.kind /\ job'.by = job.by
    BY <1>2, ForgetEffect DEF TypeOK
  <1> QED
    BY <1>1, <1>3 DEF DriverJob, StartPending

(* A start that did not end well goes to its rollback.                     *)
LEMMA StartWaitEndsInv ==
    ASSUME TypeOK, Inv, NEW t \in Tasks,
           Started(t) \/ StartFails(t) \/ StartAbandoned(t)
    PROVE  Inv'
  <1>1. /\ call[t] = "startwait" /\ Forget(t) /\ UNCHANGED <<unit, by, owner, seen>>
        /\ \/ /\ call' = [call EXCEPT ![t] = "started"]
              /\ result[t] = "done" /\ reported' = FALSE
           \/ call' = [call EXCEPT ![t] = "rollback"] /\ UNCHANGED reported
    BY DEF Started, StartFails, StartAbandoned, Hears, Goto
  <1>2. result[t] = "done" => "up" \in seen[t] /\ ~DriverJob
    BY <1>1 DEF DoneInv
  <1> QED
    BY <1>1, <1>2, WaitEnds DEF TypeOK, WaitInv, DoneInv, OrphanInv, OrphansAreReported,
                                JobsAreHonest

(* A rollback leaves no start of the driver, or is reported.               *)
LEMMA RollWaitEndsInv ==
    ASSUME TypeOK, Inv, NEW t \in Tasks, RolledBack(t) \/ RollBackAbandoned(t)
    PROVE  Inv'
  <1>1. /\ call[t] = "rollwait" /\ Forget(t) /\ UNCHANGED <<unit, by, seen>>
        /\ owner' = NoTask /\ call' = [call EXCEPT ![t] = "idle"]
        /\ reported' \/ result[t] = "done"
    BY DEF RolledBack, RollBackAbandoned, Hears, Release, Goto
  <1>2. reported' \/ ~StartPending
    BY <1>1 DEF DoneInv
  <1> QED
    BY <1>1, <1>2, WaitEnds DEF TypeOK, WaitInv, DoneInv, OrphanInv, OrphansAreReported,
                                JobsAreHonest

(* A stop that ended well saw the unit down.                               *)
LEMMA StopWaitEndsInv ==
    ASSUME TypeOK, Inv, NEW t \in Tasks, Stopped(t) \/ StopAbandoned(t)
    PROVE  Inv'
  <1>1. /\ call[t] = "stopwait" /\ Forget(t) /\ UNCHANGED <<unit, by, owner, seen, reported>>
        /\ \/ call' = [call EXCEPT ![t] = "stopped"] /\ result[t] = "done"
           \/ call' = [call EXCEPT ![t] = "managed"]
    BY DEF Stopped, StopAbandoned, Hears, Goto
  <1>2. (result[t] = "done" => "down" \in seen[t]) /\ (DriverJob => reported)
    BY <1>1 DEF DoneInv, OrphanInv
  <1> QED
    BY <1>1, <1>2, WaitEnds DEF TypeOK, WaitInv, DoneInv, OrphanInv, OrphansAreReported,
                                JobsAreHonest

-----------------------------------------------------------------------------
(* Start times come from UnitStartTime, or are the Handler's creation.     *)
LEMMA StartTimeKept == TypeOK /\ StartTimeIsReal /\ [Next]_jvars => StartTimeIsReal'
  <1> SUFFICES ASSUME TypeOK, StartTimeIsReal, [Next]_jvars PROVE StartTimeIsReal'
    OBVIOUS
  <1>1. ASSUME NEW t \in Tasks, StartTask(t) \/ RecoverTask(t) PROVE StartTimeIsReal'
    <2>1. PICK n \in 0 .. MaxInt64 : startedAt' = [startedAt EXCEPT ![t] = n]
      BY <1>1, StartTimeRange DEF StartTask, RecoverTask
    <2> QED
      BY <2>1 DEF TypeOK, StartTimeIsReal
  <1>2. CASE UNCHANGED startedAt
    BY <1>2 DEF StartTimeIsReal
  <1> QED
    BY <1>1, <1>2 DEF Next, jvars, AdminAsks, JobDone, JobFails, UnitMoves,
       ConnectionDrops, StopTask, DestroyTask, StartStep, StartUnit, Started, StartFails,
       StartAbandoned, RollStep, RollBack, RolledBack, RollBackAbandoned, StopStep,
       StopUnit, Stopped, StopAbandoned

(* JInv is inductive.                                                      *)
LEMMA NextInv == JInv /\ [Next]_jvars => JInv'
  <1> SUFFICES ASSUME JInv, [Next]_jvars PROVE Inv'
    BY TypeStep, StartTimeKept DEF JInv
  <1>0. TypeOK /\ Inv
    BY DEF JInv
  <1>1. ASSUME NEW k \in {"start", "stop"}, AdminAsks(k) PROVE Inv'
    BY <1>0, <1>1, AdminAsksInv
  <1>2. CASE JobDone
    BY <1>0, <1>2, JobDoneInv
  <1>3. CASE JobFails \/ UnitMoves
    BY <1>0, <1>3, UnitStepInv
  <1>4. CASE ConnectionDrops
    BY <1>0, <1>4, ConnectionDropsInv
  <1>5. ASSUME NEW t \in Tasks, StartTask(t) \/ RecoverTask(t) PROVE Inv'
    BY <1>0, <1>5, ClaimInv
  <1>6. ASSUME NEW t \in Tasks, StopTask(t) \/ DestroyTask(t) PROVE Inv'
    BY <1>0, <1>6, StopTaskInv, DestroyTaskInv
  <1>7. ASSUME NEW t \in Tasks, StartStep(t) PROVE Inv'
    BY <1>0, <1>7, StartUnitInv, StartWaitEndsInv DEF StartStep
  <1>8. ASSUME NEW t \in Tasks, RollStep(t) PROVE Inv'
    BY <1>0, <1>8, RollBackInv, RollWaitEndsInv DEF RollStep
  <1>9. ASSUME NEW t \in Tasks, StopStep(t) PROVE Inv'
    BY <1>0, <1>9, StopUnitInv, StopWaitEndsInv DEF StopStep
  <1>10. CASE UNCHANGED jvars
    BY <1>0, <1>10 DEF jvars, WaitInv, DoneInv, OrphanInv, OrphansAreReported,
       JobsAreHonest, StartPending, DriverJob
  <1> QED
    BY <1>1, <1>2, <1>3, <1>4, <1>5, <1>6, <1>7, <1>8, <1>9, <1>10 DEF Next

(* The inductive invariant of a unit's jobs.                               *)
THEOREM JobsInvariant == Spec => []JInv
  BY InitInv, NextInv, PTL DEF Spec

(* A StartUnit or StopUnit that returned nil saw the unit come up, or go   *)
(* down, whatever else was asked of systemd meanwhile (waitJobResult).     *)
THEOREM NilIsHonest == Spec => []JobsAreHonest
  <1>1. JInv => JobsAreHonest
    BY DEF JInv
  <1> QED
    BY <1>1, JobsInvariant, PTL

(* A failed start that may bring the unit up with no task to manage it was *)
(* reported (rollBackFailedStart).                                         *)
THEOREM NoSilentOrphan == Spec => []OrphansAreReported
  <1>1. JInv => OrphansAreReported
    BY DEF JInv, OrphanInv
  <1> QED
    BY <1>1, JobsInvariant, PTL

(* A recovered task's start time is a point in time (parseTimestampUsec).  *)
THEOREM StartTimesAreReal == Spec => []StartTimeIsReal
  <1>1. JInv => StartTimeIsReal
    BY DEF JInv
  <1> QED
    BY <1>1, JobsInvariant, PTL

-----------------------------------------------------------------------------
(* The claim serialises the calls: while one task's RPC works on the unit, *)
(* none of another's does, and no result is left over for the next wait    *)
(* (claimUnit, waitJobResult).                                             *)
OneCaller ==
    /\ \A t, u \in Tasks : call[t] # "idle" /\ call[u] # "idle" => t = u
    /\ \A t \in Tasks : result[t] # "none" =>
          call[t] \in {"startwait", "rollwait", "stopwait"} /\ job.waiter # t

(* Calls on a unit are serial and find no old result: whoever is not idle  *)
(* is the owner, and who waits for a job has heard nothing yet             *)
(* (claimUnit).                                                            *)
THEOREM CallsAreSerial == Spec => []OneCaller
  <1>1. JInv => OneCaller
    BY DEF JInv, WaitInv, OneCaller
  <1> QED
    BY <1>1, JobsInvariant, PTL

(* A result is of the job the call waits for: it arrives in the step in    *)
(* which that job ends, and says "done" only when the job ran to its end - *)
(* not when one of the other kind replaced it (StartUnit, StopUnit).       *)
ResultsFit == [][\A t \in Tasks : result[t] = "none" /\ result'[t] # "none" =>
    /\ job.waiter = t
    /\ job' = NoJob \/ job'.kind # job.kind
    /\ result'[t] = "done" =>
          /\ job' = NoJob
          /\ call[t] = "startwait" => unit' = "up"
          /\ call[t] \in {"rollwait", "stopwait"} => unit' = "down"
    ]_jvars

(* What a request does to the results: the job it replaces failed.         *)
LEMMA RequestFit ==
    ASSUME TypeOK, NEW k \in {"start", "stop"}, NEW c \in {"driver", "admin"},
           NEW w \in Tasks \cup {NoTask}, Enqueue(k, c, w),
           NEW t \in Tasks, result[t] = "none", result'[t] # "none"
    PROVE  job.waiter = t /\ job'.kind # job.kind /\ result'[t] = "failed"
  BY EnqueueEffect

(* Results fit the calls that hear them, since who waits for a job waits   *)
(* for one of that kind (waitJobResult).                                   *)
THEOREM ResultsAreTheJobs == Spec => ResultsFit
  <1>1. ASSUME JInv, [Next]_jvars, NEW t \in Tasks,
               result[t] = "none", result'[t] # "none"
        PROVE  /\ job.waiter = t
               /\ job' = NoJob \/ job'.kind # job.kind
               /\ result'[t] = "done" =>
                     /\ job' = NoJob
                     /\ call[t] = "startwait" => unit' = "up"
                     /\ call[t] \in {"rollwait", "stopwait"} => unit' = "down"
    <2>0. TypeOK /\ WaitInv /\ job.waiter \in Tasks \cup {NoTask}
      BY <1>1 DEF JInv, TypeOK
    <2>1. CASE \E k \in {"start", "stop"} : AdminAsks(k)
      BY <1>1, <2>0, <2>1, RequestFit DEF AdminAsks
    <2>2. CASE JobDone
      <3>1. job' = NoJob /\ job.waiter = t
        BY <1>1, <2>0, <2>2, DeliverEffect DEF JobDone
      <3>2. unit' = IF job.kind = "start" THEN "up" ELSE "down"
        BY <2>2 DEF JobDone, Unit
      <3> QED
        BY <2>0, <3>1, <3>2 DEF WaitInv
    <2>3. CASE JobFails
      BY <1>1, <2>0, <2>3, DeliverEffect DEF JobFails
    <2>4. ASSUME NEW u \in Tasks, StartUnit(u) \/ RollBack(u) \/ StopUnit(u)
          PROVE  \E k \in {"start", "stop"}, w \in Tasks \cup {NoTask} :
                    Enqueue(k, "driver", w)
      BY <1>1, <2>4 DEF StartUnit, RollBack, StopUnit, Request
    <2>5. CASE \E u \in Tasks : StartUnit(u) \/ RollBack(u) \/ StopUnit(u)
      BY <1>1, <2>0, <2>4, <2>5, RequestFit
    <2>6. ASSUME NEW u \in Tasks, Forget(u) PROVE FALSE
      BY <1>1, <2>0, <2>6 DEF Forget, TypeOK
    <2> QED
      BY <1>1, <2>1, <2>2, <2>3, <2>5, <2>6 DEF Next, jvars, UnitMoves,
         ConnectionDrops, StartTask, RecoverTask, StopTask, DestroyTask,
         StartStep, Started, StartFails, StartAbandoned, RollStep, RolledBack,
         RollBackAbandoned, StopStep, Stopped, StopAbandoned
  <1>2. JInv /\ [Next]_jvars =>
          [\A t \in Tasks : result[t] = "none" /\ result'[t] # "none" =>
             /\ job.waiter = t
             /\ job' = NoJob \/ job'.kind # job.kind
             /\ result'[t] = "done" =>
                   /\ job' = NoJob
                   /\ call[t] = "startwait" => unit' = "up"
                   /\ call[t] \in {"rollwait", "stopwait"} => unit' = "down"
          ]_jvars
    BY <1>1
  <1> QED
    BY JobsInvariant, <1>2, PTL DEF Spec, ResultsFit

(* A start for the driver comes only of the StartUnit of the task that has *)
(* the claim; whatever others ask, and whatever is lost, makes none        *)
(* (StartTask, StartUnit).                                                 *)
StartsAreClaimed == [][DriverJob' /\ ~DriverJob =>
    /\ owner \in Tasks /\ owner' = owner
    /\ call[owner] = "start" /\ call'[owner] \in {"startwait", "rollback"}
    ]_jvars

(* Only a claimed StartUnit makes a start the driver's: a stop replaces a  *)
(* start, and the admin's request that joins one leaves whose it is        *)
(* (StartUnit).                                                            *)
THEOREM StartsHaveAnOwner == Spec => StartsAreClaimed
  <1>1. ASSUME JInv, [Next]_jvars, DriverJob', ~DriverJob
        PROVE  /\ owner \in Tasks /\ owner' = owner
               /\ call[owner] = "start" /\ call'[owner] \in {"startwait", "rollback"}
    <2>0. TypeOK /\ WaitInv /\ job \in Jobs
      BY <1>1 DEF JInv, TypeOK
    <2>1. CASE \E k \in {"start", "stop"} : AdminAsks(k)
      BY <1>1, <2>0, <2>1, EnqueueEffect DEF AdminAsks, DriverJob
    <2>2. CASE JobDone \/ JobFails
      BY <1>1, <2>2 DEF JobDone, JobFails, NoJob, DriverJob
    <2>3. CASE ConnectionDrops
      <3>1. job'.kind = job.kind /\ job'.by = job.by
        BY <2>0, <2>3 DEF ConnectionDrops
      <3> QED
        BY <1>1, <3>1 DEF DriverJob
    <2>4. ASSUME NEW t \in Tasks, RollBack(t) \/ StopUnit(t) PROVE FALSE
      <3>1. \/ UNCHANGED job
            \/ \E w \in Tasks \cup {NoTask} : Enqueue("stop", "driver", w)
        BY <2>4 DEF RollBack, StopUnit, Request
      <3> QED
        BY <1>1, <2>0, <3>1, EnqueueEffect DEF DriverJob
    <2>5. ASSUME NEW t \in Tasks, StartUnit(t)
          PROVE  /\ owner = t /\ owner' = t
                 /\ call[t] = "start" /\ call'[t] \in {"startwait", "rollback"}
      <3>1. call[t] = "start" /\ owner' = owner
        BY <2>5 DEF StartUnit
      <3>2. owner = t
        BY <2>0, <3>1 DEF WaitInv
      <3>3. \/ call' = [call EXCEPT ![t] = "rollback"]
            \/ call' = [call EXCEPT ![t] = "startwait"]
        BY <2>5 DEF StartUnit, Request, Goto
      <3>4. call'[t] \in {"startwait", "rollback"}
        BY <2>0, <3>3 DEF TypeOK
      <3> QED
        BY <3>1, <3>2, <3>4
    <2>6. ASSUME NEW t \in Tasks, Forget(t) PROVE FALSE
      <3>1. job'.kind = job.kind /\ job'.by = job.by
        BY <2>0, <2>6, ForgetEffect DEF TypeOK
      <3> QED
        BY <1>1, <3>1 DEF DriverJob
    <2>7. CASE UNCHANGED job
      BY <1>1, <2>7 DEF DriverJob
    <2> QED
      BY <1>1, <2>1, <2>2, <2>3, <2>4, <2>5, <2>6, <2>7 DEF Next, jvars,
         UnitMoves, StartTask, RecoverTask, StopTask, DestroyTask, StartStep,
         Started, StartFails, StartAbandoned, RollStep, RolledBack,
         RollBackAbandoned, StopStep, Stopped, StopAbandoned
  <1>2. JInv /\ [Next]_jvars =>
          [DriverJob' /\ ~DriverJob =>
             /\ owner \in Tasks /\ owner' = owner
             /\ call[owner] = "start" /\ call'[owner] \in {"startwait", "rollback"}
          ]_jvars
    BY <1>1
  <1> QED
    BY JobsInvariant, <1>2, PTL DEF Spec, StartsAreClaimed
=============================================================================
