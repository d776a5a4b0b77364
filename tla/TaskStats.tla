----------------------------- MODULE TaskStats ------------------------------
(***************************************************************************)
(* The resource statistics of one unit: TaskStats streams (plugin/task.go) *)
(* that sample it until their context ends or their task does, the entry   *)
(* of the unit in the Manager, with its cached cgroup path and its CPU     *)
(* tracker, and the DBus reads that fill the cache (pkg/systemd/cgroup.go, *)
(* unit.go).  The unit is managed for one task after another; each         *)
(* registration is a new entry.  A read that was asked for one entry may   *)
(* be stored in the next.                                                  *)
(***************************************************************************)
EXTENDS CgroupFiles

CONSTANTS Streams,      \* TaskStats calls
          MaxTasks,     \* tasks the unit is managed for, one at a time
          MaxUsage      \* CPU time a cgroup accumulates

ASSUME StatsAssumption == /\ MaxTasks \in Nat /\ MaxUsage \in Nat
                          /\ Streams \cap {"register", "reconnect"} = {}

(* Those who call cacheUnitProperties.                                     *)
Readers == Streams \cup {"register", "reconnect"}

VARIABLES
    task,       \* the task the unit was last registered for, a number
    registered, \* Manager.units has an entry for the unit
    path,       \* its controlGroup and cachedAt
    base,       \* its cpu tracker's last sample, or -1 without a tracker
    read,       \* progress of each cacheUnitProperties call
    up,         \* the unit has a cgroup
    usage,      \* usage_usec of that cgroup
    exited,     \* tasks whose waitCh is closed
    cancelled,  \* streams whose context is cancelled
    stream,     \* program counter of each stream
    taskOf,     \* the task it reports on
    usec,       \* what it read from cpu.stat
    unbilled,   \* history: CPU time the unit's cgroups accumulated, less what
                \* any stream has reported
    raced       \* history: two streams were between a read and its use

entryVars == <<task, registered, path, base>>
unitVars == <<up, usage>>
streamVars == <<stream, taskOf, usec>>
histVars == <<unbilled, raced>>
svars == <<entryVars, read, unitVars, exited, cancelled, streamVars, histVars>>

TypeOK == /\ task \in 0..MaxTasks
          /\ registered \in BOOLEAN
          /\ path \in {"never", "empty", "stale", "path"}
          /\ base \in Int
          /\ read \in [Readers -> {"idle", "asked", "empty", "path", "done"}]
          /\ up \in BOOLEAN
          /\ usage \in Nat
          /\ exited \subseteq 0..MaxTasks
          /\ cancelled \subseteq Streams
          /\ stream \in [Streams -> {"idle", "wait", "refresh", "files", "cpu",
                                     "send", "ended"}]
          /\ taskOf \in [Streams -> 0..MaxTasks]
          /\ usec \in [Streams -> Nat]
          /\ unbilled \in Int
          /\ raced \in BOOLEAN

Init == /\ task = 0
        /\ registered = FALSE
        /\ path = "never"
        /\ base = -1
        /\ read = [r \in Readers |-> "idle"]
        /\ up = FALSE
        /\ usage = 0
        /\ exited = {}
        /\ cancelled = {}
        /\ stream = [s \in Streams |-> "idle"]
        /\ taskOf = [s \in Streams |-> 0]
        /\ usec = [s \in Streams |-> 0]
        /\ unbilled = 0
        /\ raced = FALSE

-----------------------------------------------------------------------------
(* The unit: it starts with a new cgroup, runs, and stops.                 *)
UnitStarts ==
    /\ ~up
    /\ up' = TRUE
    /\ usage' = 0
    /\ UNCHANGED <<entryVars, read, exited, cancelled, streamVars, histVars>>

UnitRuns ==
    /\ up
    /\ usage < MaxUsage /\ unbilled < 2 * MaxUsage
    /\ usage' = usage + 1
    /\ unbilled' = unbilled + 1
    /\ UNCHANGED <<entryVars, read, up, exited, cancelled, streamVars, raced>>

UnitStops ==
    /\ up
    /\ up' = FALSE
    /\ UNCHANGED <<entryVars, read, usage, exited, cancelled, streamVars, histVars>>

-----------------------------------------------------------------------------
(* RegisterUnit makes a new entry and reads the properties; the previous   *)
(* task has been unregistered, for a claim comes first.                    *)
RegisterUnit ==
    /\ ~registered
    /\ task < MaxTasks
    /\ read["register"] = "idle"
    /\ task' = task + 1
    /\ registered' = TRUE
    /\ path' = "never"
    /\ base' = -1
    /\ read' = [read EXCEPT !["register"] = "asked"]
    /\ UNCHANGED <<unitVars, exited, cancelled, streamVars, histVars>>

(* The task's exit is observed.                                            *)
TaskExits ==
    /\ registered
    /\ exited' = exited \cup {task}
    /\ UNCHANGED <<entryVars, read, unitVars, cancelled, streamVars, histVars>>

(* DestroyTask, of a task that exited or, forced, of one that never will.  *)
UnregisterUnit ==
    /\ registered
    /\ registered' = FALSE
    /\ path' = "never"
    /\ base' = -1
    /\ UNCHANGED <<task, read, unitVars, exited, cancelled, streamVars, histVars>>

(* tryReconnect reads every registered unit's properties again.            *)
Reconnect ==
    /\ registered
    /\ read["reconnect"] = "idle"
    /\ read' = [read EXCEPT !["reconnect"] = "asked"]
    /\ UNCHANGED <<entryVars, unitVars, exited, cancelled, streamVars, histVars>>

(* cacheUnitProperties: the round trip answers with the unit's cgroup as   *)
(* of then or fails, and an answer is stored in whatever entry there is.   *)
Done(r) == IF r \in Streams THEN "done" ELSE "idle"

ReadAnswers(r) ==
    /\ read[r] = "asked"
    /\ read' = [read EXCEPT ![r] = IF up THEN "path" ELSE "empty"]
    /\ UNCHANGED <<entryVars, unitVars, exited, cancelled, streamVars, histVars>>

ReadFails(r) ==
    /\ read[r] = "asked"
    /\ read' = [read EXCEPT ![r] = Done(r)]
    /\ UNCHANGED <<entryVars, unitVars, exited, cancelled, streamVars, histVars>>

CacheStores(r) ==
    /\ read[r] \in {"empty", "path"}
    /\ path' = IF registered THEN read[r] ELSE path
    /\ read' = [read EXCEPT ![r] = Done(r)]
    /\ UNCHANGED <<task, registered, base, unitVars, exited, cancelled, streamVars, histVars>>

(* cgroupRetryInterval passes.                                             *)
CacheAges ==
    /\ path = "empty"
    /\ path' = "stale"
    /\ UNCHANGED <<task, registered, base, read, unitVars, exited, cancelled,
                   streamVars, histVars>>

-----------------------------------------------------------------------------
(* TaskStats: a stream for the task in the store.                          *)
StreamStarts(s) ==
    /\ stream[s] = "idle"
    /\ task > 0
    /\ stream' = [stream EXCEPT ![s] = "wait"]
    /\ taskOf' = [taskOf EXCEPT ![s] = task]
    /\ UNCHANGED <<entryVars, read, unitVars, exited, cancelled, usec, histVars>>

(* Nomad cancels the stream's context.                                     *)
Cancel(s) ==
    /\ stream[s] \notin {"idle", "ended"}
    /\ cancelled' = cancelled \cup {s}
    /\ UNCHANGED <<entryVars, read, unitVars, exited, streamVars, histVars>>

(* Between samples the context and the task's waitCh end the stream.       *)
StreamEnds(s) ==
    /\ stream[s] = "wait"
    /\ s \in cancelled \/ taskOf[s] \in exited
    /\ stream' = [stream EXCEPT ![s] = "ended"]
    /\ UNCHANGED <<entryVars, read, unitVars, exited, cancelled, taskOf, usec, histVars>>

Goto(s, pc) == stream' = [stream EXCEPT ![s] = pc]

(* Mutant: an empty reading is kept for good.                              *)
SampleOnce(s) ==
    /\ stream[s] = "wait"
    /\ IF ~registered THEN Goto(s, "ended") /\ UNCHANGED read
       ELSE CASE path = "never" -> /\ Goto(s, "refresh")
                                   /\ read' = [read EXCEPT ![s] = "asked"]
              [] path = "path"  -> Goto(s, "files") /\ UNCHANGED read
              [] OTHER          -> Goto(s, "send") /\ UNCHANGED read
    /\ UNCHANGED <<entryVars, unitVars, exited, cancelled, taskOf, usec, histVars>>

(* Mutant: a unit that is not registered is sampled as zeros.              *)
SampleZeros(s) ==
    /\ stream[s] = "wait"
    /\ IF ~registered THEN Goto(s, "send") /\ UNCHANGED read
       ELSE CASE path \in {"never", "stale"} -> /\ Goto(s, "refresh")
                                                /\ read' = [read EXCEPT ![s] = "asked"]
              [] path = "path"  -> Goto(s, "files") /\ UNCHANGED read
              [] path = "empty" -> Goto(s, "send") /\ UNCHANGED read
    /\ UNCHANGED <<entryVars, unitVars, exited, cancelled, taskOf, usec, histVars>>

(* A tick of the timer: ResourceStats looks the cached path up.  A path    *)
(* never read, or found empty a while ago, is read first.                  *)
Sample(s) ==
    /\ stream[s] = "wait"
    /\ IF ~registered THEN Goto(s, "ended") /\ UNCHANGED read
       ELSE CASE path \in {"never", "stale"} -> /\ Goto(s, "refresh")
                                                /\ read' = [read EXCEPT ![s] = "asked"]
              [] path = "path"  -> Goto(s, "files") /\ UNCHANGED read
              [] path = "empty" -> Goto(s, "send") /\ UNCHANGED read
    /\ UNCHANGED <<entryVars, unitVars, exited, cancelled, taskOf, usec, histVars>>

(* The entry is looked up again, which another task may have made.         *)
Refreshed(s) ==
    /\ stream[s] = "refresh"
    /\ read[s] = "done"
    /\ read' = [read EXCEPT ![s] = "idle"]
    /\ CASE ~registered                  -> Goto(s, "ended")
         [] registered /\ path = "path"  -> Goto(s, "files")
         [] registered /\ path # "path"  -> Goto(s, "send")
    /\ UNCHANGED <<entryVars, unitVars, exited, cancelled, taskOf, usec, histVars>>

(* getCgroupV2Stats: the files of a unit that is up hold what it has used; *)
(* any of them may be missing or lack a key, all of them once it is down.  *)
ReadFiles(s) ==
    /\ stream[s] = "files"
    /\ \/ up /\ Goto(s, "cpu") /\ usec' = [usec EXCEPT ![s] = usage]
       \/ Goto(s, "send") /\ UNCHANGED usec
    /\ raced' = (raced \/ \E t \in Streams : stream[t] = "cpu")
    /\ UNCHANGED <<entryVars, read, unitVars, exited, cancelled, taskOf, unbilled>>

(* Mutant: a new tracker takes the first sample for a change from zero.    *)
CalculateFromZero(s) ==
    /\ stream[s] = "cpu"
    /\ unbilled' = unbilled - IF ~registered \/ usec[s] < base THEN 0
                              ELSE usec[s] - IF base = -1 THEN 0 ELSE base
    /\ base' = IF registered THEN usec[s] ELSE base
    /\ usec' = [usec EXCEPT ![s] = 0]
    /\ Goto(s, "send")
    /\ UNCHANGED <<task, registered, path, read, unitVars, exited, cancelled,
                   taskOf, raced>>

(* calculateCPUPercent: the change since the entry's previous sample.  The *)
(* tracker reports none for its first sample, nor for one that went down.  *)
Change(s) == IF base # -1 /\ usec[s] > base THEN usec[s] - base ELSE 0

CalculateCPUPercent(s) ==
    /\ stream[s] = "cpu"
    /\ IF registered THEN unbilled' = unbilled - Change(s) /\ base' = usec[s]
                     ELSE UNCHANGED <<unbilled, base>>
    /\ usec' = [usec EXCEPT ![s] = 0]
    /\ Goto(s, "send")
    /\ UNCHANGED <<task, registered, path, read, unitVars, exited, cancelled,
                   taskOf, raced>>

(* sendTaskStats: Nomad takes the sample, or has cancelled.                *)
NomadReceives(s) ==
    /\ stream[s] = "send"
    /\ stream' = [stream EXCEPT ![s] = "wait"]
    /\ UNCHANGED <<entryVars, read, unitVars, exited, cancelled, taskOf, usec, histVars>>

(* Mutant: a send that nobody receives does not watch the context.         *)
SendWaits(s) == FALSE /\ UNCHANGED svars

SendCancelled(s) ==
    /\ stream[s] = "send"
    /\ s \in cancelled
    /\ stream' = [stream EXCEPT ![s] = "wait"]
    /\ UNCHANGED <<entryVars, read, unitVars, exited, cancelled, taskOf, usec, histVars>>

-----------------------------------------------------------------------------
StreamStep(s) == \/ Sample(s) \/ Refreshed(s) \/ ReadFiles(s)
                 \/ CalculateCPUPercent(s) \/ SendCancelled(s)

ReadStep(r) == ReadAnswers(r) \/ ReadFails(r) \/ CacheStores(r)

Next == \/ UnitStarts \/ UnitRuns \/ UnitStops
        \/ RegisterUnit \/ TaskExits \/ UnregisterUnit \/ Reconnect
        \/ CacheAges
        \/ \E r \in Readers : ReadStep(r)
        \/ \E s \in Streams : StreamStarts(s) \/ Cancel(s) \/ StreamEnds(s)
                              \/ StreamStep(s) \/ NomadReceives(s)

Spec == Init /\ [][Next]_svars

(* Timers fire and goroutines that can run do; a select that finds a       *)
(* branch ready again and again takes it; a DBus read ends and, asked      *)
(* again and again, answers.  Nothing is assumed of Nomad or of the unit.  *)
Fairness == /\ WF_svars(CacheAges)
            /\ \A s \in Streams :
                  /\ WF_svars(ReadStep(s)) /\ SF_svars(ReadAnswers(s))
                  /\ WF_svars(StreamStep(s)) /\ SF_svars(StreamEnds(s))

FairSpec == Spec /\ Fairness

-----------------------------------------------------------------------------
(* A stream whose context is cancelled ends, wherever it is: waiting for a *)
(* DBus answer, or with a sample that nobody will take (sendTaskStats).    *)
EndsOnCancel == \A s \in Streams :
    s \in cancelled ~> stream[s] = "ended"

(* A stream whose samples are taken ends once its task has exited, or its  *)
(* unit is no longer managed for anybody (TaskStats, sendTaskStats).       *)
EndsWithUnit == \A s \in Streams :
    /\ []<>(stream[s] # "send")
    /\ <>[](~registered \/ taskOf[s] \in exited)
    => <>[](stream[s] \in {"idle", "ended"})

(* A unit that was registered, or read, before it had a cgroup is measured *)
(* in the end: once it stays up its streams read its cgroup files again    *)
(* and again, although an empty reading of an earlier moment may still     *)
(* come in, even of the entry of another task (ResourceStats).             *)
MeasuresInTheEnd == \A s \in Streams :
    /\ <>[](up /\ registered /\ stream[s] \notin {"idle", "ended"})
    /\ []<>(stream[s] # "send")
    => []<>(stream[s] = "files")

(* CPU time is reported at most once, across restarts of the unit, failed  *)
(* reads and changes of the task it runs for, unless two streams sample    *)
(* the unit at the same moment (calculateCPUPercent).                      *)
BilledOnce == raced \/ unbilled >= 0

(* plugin/task.go:359 of TaskStats: samples are sent "until the given      *)
(* context is canceled or the task terminates".  The code does not keep    *)
(* this: the stream of a task destroyed by force notices that the unit is  *)
(* not registered only if no other task has registered it since.           *)
StatsEndWithTask == \A s \in Streams :
    /\ []<>(stream[s] # "send")
    /\ <>[](taskOf[s] # 0 /\ (taskOf[s] # task \/ ~registered))
    => <>[](stream[s] = "ended")

-----------------------------------------------------------------------------
(* Why nothing is reported twice.  What was not reported yet covers what   *)
(* the current cgroup used since the tracker's last sample, and, while a   *)
(* stream holds a newer sample, what that will report and what follows it. *)
Beyond(x, y) == IF x > y THEN x - y ELSE 0

BillInv ==
    /\ unbilled >= 0
    /\ base # -1 => base >= 0 /\ unbilled >= Beyond(usage, base)
    /\ \A s \in Streams : stream[s] = "cpu" =>
           /\ unbilled >= Change(s) + Beyond(usage, usec[s])
           /\ \A t \in Streams : stream[t] = "cpu" => t = s

(* The inductive invariant of the statistics.                              *)
SInv == TypeOK /\ (raced \/ BillInv)
=============================================================================
