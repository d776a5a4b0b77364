------------------------------ MODULE UnitJobs ------------------------------
(***************************************************************************)
(* One unit and the jobs the driver asks systemd for: StartUnit, StopUnit  *)
(* and the wait for a job's result (pkg/systemd/unit.go), StartTask, which *)
(* rolls a failed start back (plugin/task.go), StopTask, and RecoverTask   *)
(* with the start time it reads.  A job goes on whoever gave up waiting    *)
(* for it; its result may be lost with the connection; and others, "the    *)
(* admin", start and stop the unit too.                                    *)
(*                                                                         *)
(* Claims are DriverTasks' subject and StopTask's timers TaskTeardown's.   *)
(* Requests reach systemd in the order in which they are made.             *)
(***************************************************************************)
EXTENDS Integers

CONSTANTS Tasks,
          NoTask,
          MaxInt64      \* the largest signed integer; the unsigned ones have
                        \* one bit more

ASSUME NoTaskAssumption == NoTask \notin Tasks
ASSUME MaxInt64Assumption == MaxInt64 \in Nat \ {0}

VARIABLES
    unit,       \* systemd: whether the unit is up, down, or coming up on its
                \* own, after a restart or a job that timed out
    by,         \* history: whose start it is up, or coming up, for
    job,        \* systemd: the unit's job, for whom, and who hears its result
    owner,      \* the task that claims the unit
    call,       \* program counter of each task's RPC
    result,     \* the result channel of its job
    seen,       \* history: what the unit was during the StartUnit or StopUnit
    startedAt,  \* Handler.startedAt; 0 is the time of the Handler's creation
    reported    \* history: the last rollback failed, which was logged

unitVars == <<unit, by>>
taskVars == <<owner, call, startedAt>>
jvars == <<unitVars, job, taskVars, result, seen, reported>>

(* A task in the store with no call out; the last one was a StartUnit or a *)
(* StopUnit that returned nil, or neither.                                 *)
Managed == {"managed", "started", "stopped"}

Jobs == [kind : {"none", "start", "stop"}, by : {"none", "driver", "admin"},
         waiter : Tasks \cup {NoTask}]
NoJob == [kind |-> "none", by |-> "none", waiter |-> NoTask]

TypeOK ==
    /\ unit \in {"down", "coming", "up"}
    /\ by \in {"none", "driver", "admin"}
    /\ job \in Jobs
    /\ owner \in Tasks \cup {NoTask}
    /\ call \in [Tasks -> {"idle", "start", "startwait", "rollback", "rollwait",
                           "stop", "stopwait"} \cup Managed]
    /\ result \in [Tasks -> {"none", "done", "failed"}]
    /\ seen \in [Tasks -> SUBSET {"down", "coming", "up"}]
    /\ startedAt \in [Tasks -> Int]
    /\ reported \in BOOLEAN

Init == /\ \/ unit = "down" /\ by = "none"
           \/ unit = "up" /\ by = "admin"
        /\ job = NoJob
        /\ owner = NoTask
        /\ call = [t \in Tasks |-> "idle"]
        /\ result = [t \in Tasks |-> "none"]
        /\ seen = [t \in Tasks |-> {}]
        /\ startedAt = [t \in Tasks |-> 0]
        /\ reported = FALSE

-----------------------------------------------------------------------------
(* systemd.  A job in "replace" mode cancels one of the other kind, which  *)
(* its waiter hears, and joins one of its own kind, whose result only the  *)
(* last to ask for it hears.                                               *)
Unit(state, cause) ==
    /\ unit' = state
    /\ by' = IF state = "down" THEN "none" ELSE cause
    /\ seen' = [t \in Tasks |-> seen[t] \cup {state}]

Deliver(t, r) == result' = [u \in Tasks |-> IF u = t THEN r ELSE result[u]]

Enqueue(kind, cause, t) ==
    IF job.kind = kind
      THEN /\ job' = [kind |-> kind,
                      by |-> IF cause = "driver" THEN cause ELSE job.by,
                      waiter |-> IF t = NoTask THEN job.waiter ELSE t]
           /\ UNCHANGED result
      ELSE /\ job' = [kind |-> kind, by |-> cause, waiter |-> t]
           /\ Deliver(job.waiter, "failed")

AdminAsks(kind) ==
    /\ Enqueue(kind, "admin", NoTask)
    /\ UNCHANGED <<unitVars, taskVars, seen, reported>>

JobDone ==
    /\ job.kind # "none"
    /\ IF job.kind = "start" THEN Unit("up", job.by) ELSE Unit("down", "none")
    /\ Deliver(job.waiter, "done")
    /\ job' = NoJob
    /\ UNCHANGED <<taskVars, reported>>

(* A start that failed may be restarted, one that timed out may go on.  A  *)
(* stop that failed leaves the unit as it was.                             *)
JobFails ==
    /\ job.kind # "none"
    /\ IF job.kind = "start" THEN \E s \in {"down", "coming"} : Unit(s, job.by)
                             ELSE UNCHANGED <<unitVars, seen>>
    /\ Deliver(job.waiter, "failed")
    /\ job' = NoJob
    /\ UNCHANGED <<taskVars, reported>>

UnitMoves ==
    /\ \/ unit = "up" /\ \E s \in {"down", "coming"} : Unit(s, by)
       \/ unit = "coming" /\ \E s \in {"down", "up"} : Unit(s, by)
    /\ UNCHANGED <<job, taskVars, result, reported>>

(* A new connection hears nothing of the jobs of the old one.              *)
ConnectionDrops ==
    /\ job' = [job EXCEPT !.waiter = NoTask]
    /\ UNCHANGED <<unitVars, taskVars, result, seen, reported>>

-----------------------------------------------------------------------------
Goto(t, pc) == call' = [call EXCEPT ![t] = pc]

Watch(t) == seen' = [seen EXCEPT ![t] = {unit}]

(* StartTask: the claim, and the unit's state.  A read that fails gives    *)
(* the claim back and leaves all as it was.                                *)
StartTask(t) ==
    /\ owner = NoTask
    /\ call[t] = "idle"
    /\ owner' = t
    /\ Goto(t, IF unit = "up" THEN "managed" ELSE "start")
    /\ startedAt' = [startedAt EXCEPT ![t] = 0]
    /\ UNCHANGED <<unitVars, job, result, seen, reported>>

(* StartUnit and StopUnit: getConn or the request fails, and systemd may   *)
(* have queued the job nevertheless; or the job's result is waited for.    *)
Request(t, kind, wait, failed) ==
    \/ /\ Goto(t, failed)
       /\ UNCHANGED <<job, result>>
    \/ /\ Goto(t, failed)
       /\ Enqueue(kind, "driver", NoTask)
    \/ /\ Goto(t, wait)
       /\ Enqueue(kind, "driver", t)

StartUnit(t) ==
    /\ call[t] = "start"
    /\ Request(t, "start", "startwait", "rollback")
    /\ Watch(t)
    /\ UNCHANGED <<unitVars, owner, startedAt, reported>>

(* waitJobResult: a result in the channel.                                 *)
Hears(t, pc) == call[t] = pc /\ result[t] # "none"

(* The result is used up, and the job, if it is still there, forgotten.    *)
Forget(t) ==
    /\ result' = [result EXCEPT ![t] = "none"]
    /\ job' = IF job.waiter = t THEN [job EXCEPT !.waiter = NoTask] ELSE job

(* Mutant: any result ends the wait well.                                  *)
StartedAnyhow(t) ==
    /\ Hears(t, "startwait")
    /\ Goto(t, "started")
    /\ reported' = FALSE
    /\ Forget(t)
    /\ UNCHANGED <<unitVars, owner, startedAt, seen>>

Started(t) ==
    /\ Hears(t, "startwait")
    /\ result[t] = "done"
    /\ Goto(t, "started")
    /\ reported' = FALSE
    /\ Forget(t)
    /\ UNCHANGED <<unitVars, owner, startedAt, seen>>

(* Mutant: a start that systemd says has failed needs no rollback.         *)
StartFailsDown(t) ==
    /\ Hears(t, "startwait")
    /\ result[t] # "done"
    /\ Goto(t, "idle")
    /\ owner' = NoTask
    /\ Forget(t)
    /\ UNCHANGED <<unitVars, startedAt, seen, reported>>

StartFails(t) ==
    /\ Hears(t, "startwait")
    /\ result[t] # "done"
    /\ Goto(t, "rollback")
    /\ Forget(t)
    /\ UNCHANGED <<unitVars, owner, startedAt, seen, reported>>

(* opContext: the limit passes, the driver or the Manager stops.           *)
StartAbandoned(t) ==
    /\ call[t] = "startwait"
    /\ Goto(t, "rollback")
    /\ Forget(t)
    /\ UNCHANGED <<unitVars, owner, startedAt, seen, reported>>

(* rollBackFailedStart, and releaseUnit.                                   *)
Release(t) == owner' = NoTask /\ Goto(t, "idle")

RollBack(t) ==
    /\ call[t] = "rollback"
    /\ Request(t, "stop", "rollwait", "idle")
    /\ IF call'[t] = "idle" THEN owner' = NoTask /\ reported' = TRUE
                            ELSE UNCHANGED <<owner, reported>>
    /\ Watch(t)
    /\ UNCHANGED <<unitVars, startedAt>>

RolledBack(t) ==
    /\ Hears(t, "rollwait")
    /\ reported' = (result[t] # "done")
    /\ Release(t)
    /\ Forget(t)
    /\ UNCHANGED <<unitVars, startedAt, seen>>

(* Mutant: the rollback waits for its stop for as long as it takes.        *)
RollBackPatient(t) == FALSE /\ UNCHANGED jvars

RollBackAbandoned(t) ==
    /\ call[t] = "rollwait"
    /\ reported' = TRUE
    /\ Release(t)
    /\ Forget(t)
    /\ UNCHANGED <<unitVars, startedAt, seen>>

-----------------------------------------------------------------------------
(* parseTimestampUsec of a property's value: the integer types it takes,   *)
(* and anything else.  0 is what it refuses, and what a unit that was      *)
(* never active has; UnitStartTime fails on both.                          *)
MaxUint64 == 2 * MaxInt64 + 1
usecInfinity == MaxUint64

Values == [type : {"uint64"}, n : 0 .. MaxUint64]
            \cup [type : {"int64"}, n : -MaxInt64 - 1 .. MaxInt64]
            \cup [type : {"other"}, n : {0}]

(* Mutant: only infinity is refused.                                       *)
parseTimestampUsecBounded(v) ==
    IF \/ v.type = "uint64" /\ v.n # usecInfinity
       \/ v.type = "int64" /\ v.n >= 0
    THEN v.n ELSE 0

parseTimestampUsec(v) ==
    IF \/ v.type = "uint64" /\ v.n # usecInfinity /\ v.n <= MaxInt64
       \/ v.type = "int64" /\ v.n >= 0
    THEN v.n ELSE 0

(* int64 of an unsigned value.                                             *)
Int64(n) == IF n > MaxInt64 THEN n - (MaxUint64 + 1) ELSE n

UnitStartTime(v) == Int64(parseTimestampUsec(v))

(* RecoverTask: the Handler keeps the time of its creation when the read   *)
(* fails or yields none.                                                   *)
RecoverTask(t) ==
    /\ owner = NoTask
    /\ call[t] = "idle"
    /\ owner' = t
    /\ Goto(t, "managed")
    /\ \/ startedAt' = [startedAt EXCEPT ![t] = 0]
       \/ \E v \in Values : startedAt' = [startedAt EXCEPT ![t] = UnitStartTime(v)]
    /\ UNCHANGED <<unitVars, job, result, seen, reported>>

(* StopTask's stop job, one at a time.                                     *)
StopTask(t) ==
    /\ call[t] \in Managed
    /\ Goto(t, "stop")
    /\ UNCHANGED <<unitVars, job, owner, startedAt, result, seen, reported>>

StopUnit(t) ==
    /\ call[t] = "stop"
    /\ Request(t, "stop", "stopwait", "managed")
    /\ Watch(t)
    /\ UNCHANGED <<unitVars, owner, startedAt, reported>>

Stopped(t) ==
    /\ Hears(t, "stopwait")
    /\ Goto(t, IF result[t] = "done" THEN "stopped" ELSE "managed")
    /\ Forget(t)
    /\ UNCHANGED <<unitVars, owner, startedAt, seen, reported>>

StopAbandoned(t) ==
    /\ call[t] = "stopwait"
    /\ Goto(t, "managed")
    /\ Forget(t)
    /\ UNCHANGED <<unitVars, owner, startedAt, seen, reported>>

(* DestroyTask, not forced, of a task whose unit went down for good; one   *)
(* that is started again is started by others.                             *)
DestroyTask(t) ==
    /\ call[t] \in Managed
    /\ unit = "down"
    /\ Release(t)
    /\ UNCHANGED <<unitVars, job, startedAt, result, seen, reported>>

StartStep(t) == \/ StartUnit(t) \/ Started(t) \/ StartFails(t) \/ StartAbandoned(t)
RollStep(t) == RollBack(t) \/ RolledBack(t) \/ RollBackAbandoned(t)
StopStep(t) == StopUnit(t) \/ Stopped(t) \/ StopAbandoned(t)

Next == \/ \E kind \in {"start", "stop"} : AdminAsks(kind)
        \/ JobDone \/ JobFails \/ UnitMoves \/ ConnectionDrops
        \/ \E t \in Tasks : \/ StartTask(t) \/ RecoverTask(t)
                            \/ StopTask(t) \/ DestroyTask(t)
                            \/ StartStep(t) \/ RollStep(t) \/ StopStep(t)

Spec == Init /\ [][Next]_jvars

(* A call goes on, and its deadline passes.  Nothing is assumed of jobs.   *)
Fairness == \A t \in Tasks :
    WF_jvars(StartStep(t)) /\ WF_jvars(RollStep(t)) /\ WF_jvars(StopStep(t))

FairSpec == Spec /\ Fairness

-----------------------------------------------------------------------------
(* StartUnit's "A nil error means the unit actually came up" and StopUnit's*)
(* "A nil error means the unit is down": it was, during the call, although *)
(* jobs are joined, cancelled, lost and given up on, and others use the    *)
(* unit (StartUnit, StopUnit, waitJobResult).                              *)
JobsAreHonest == \A t \in Tasks :
    /\ call[t] = "started" => "up" \in seen[t]
    /\ call[t] = "stopped" => "down" \in seen[t]

(* A start the driver asked for that brings the unit up, or still may,     *)
(* with no task to manage it, was reported: the rollback catches every     *)
(* other failed start (rollBackFailedStart).                               *)
StartPending == \/ unit # "down" /\ by = "driver"
                \/ job.kind = "start" /\ job.by = "driver"

OrphansAreReported == owner = NoTask /\ StartPending => reported

(* The start time of a recovered task is a point in time, or else that of  *)
(* its recovery (UnitStartTime, parseTimestampUsec).                       *)
StartTimeIsReal == \A t \in Tasks : startedAt[t] \in 0 .. MaxInt64

(* Every call ends, though the result of its job may never come            *)
(* (opContext, waitJobResult).                                             *)
Busy(t) == call[t] \notin {"idle"} \cup Managed

CallsEnd == \A t \in Tasks : Busy(t) ~> ~Busy(t)

-----------------------------------------------------------------------------
(* Why the rollback suffices: whoever waits for a job waits for that kind, *)
(* and no start is left when the stop of a rollback is done.               *)
DriverJob == job.kind = "start" /\ job.by = "driver"

WaitInv ==
    /\ \A t \in Tasks : call[t] # "idle" <=> owner = t
    /\ \A t \in Tasks :
          result[t] # "none" => call[t] \in {"startwait", "rollwait", "stopwait"}
    /\ \A t \in Tasks : job.waiter = t =>
          /\ \/ job.kind = "start" /\ call[t] = "startwait"
             \/ job.kind = "stop" /\ call[t] \in {"rollwait", "stopwait"}
          /\ result[t] = "none"

DoneInv == \A t \in Tasks : result[t] = "done" =>
    \/ call[t] = "startwait" /\ "up" \in seen[t] /\ ~DriverJob
    \/ call[t] = "rollwait" /\ ~StartPending
    \/ call[t] = "stopwait" /\ "down" \in seen[t]

OrphanInv ==
    /\ OrphansAreReported
    /\ \A t \in Tasks :
          call[t] \in Managed \cup {"stop", "stopwait"} /\ DriverJob => reported

(* The inductive invariant of a unit's jobs.                               *)
JInv == /\ TypeOK /\ WaitInv /\ DoneInv /\ OrphanInv
        /\ JobsAreHonest /\ StartTimeIsReal
=============================================================================
