---------------------------- MODULE TaskHandler -----------------------------
(***************************************************************************)
(* One task's Handler (pkg/task): how it is built by StartTask or by       *)
(* RecoverTask, the goroutine that polls the unit's state and publishes    *)
(* the exit, the WaitTask calls that wait for it, and Handler.Stop.  The   *)
(* unit itself is systemd's: it may stop, fail, be restarted out of band   *)
(* or hang in a transition at any moment, its change notifications may be  *)
(* lost, and any DBus read may fail.                                       *)
(*                                                                         *)
(* A step is what runs between two points at which another goroutine can   *)
(* be seen: a section under stateLock, a DBus round trip, a channel        *)
(* operation.                                                              *)
(***************************************************************************)
EXTENDS UnitStates

CONSTANTS Waiters,      \* the WaitTask calls
          States,       \* the ActiveStates the unit moves through
          Statuses,     \* the ways a main process may end
          MaxStarts     \* bound: activations of the unit after the first

ASSUME StatesAssumption == States \subseteq UnitState
ASSUME StatusesAssumption ==
    Statuses \subseteq {st \in ExitStatus : st.Code \in 1 .. 3}
ASSUME MaxStartsAssumption == MaxStarts \in Nat

VARIABLES
    unit,       \* systemd: the unit's ActiveState
    main,       \* systemd: how the unit's main process last exited
    starts,     \* activations so far, bounded by MaxStarts
    stops,      \* history: the results the stops under management justify
    setup,      \* how far the driver is with this Handler
    seen,       \* the ActiveState the running goroutine last read
    wake,       \* a value is pending in the wake channel
    state,      \* Handler.state
    exitResult, \* Handler.exitResult
    waitClosed, \* Handler.waitCh is closed
    cancelled,  \* Handler.ctx is cancelled
    poller,     \* program counter of pollTaskState
    pending,    \* the exit result the poller is about to publish
    waiter,     \* program counter of each WaitTask goroutine
    answer      \* what each WaitTask call was sent

unitVars   == <<unit, main, starts, stops>>
taskVars   == <<state, exitResult, waitClosed>>
pollVars   == <<poller, pending>>
waitVars   == <<waiter, answer>>
vars == <<unitVars, setup, seen, wake, taskVars, cancelled, pollVars, waitVars>>

Setup == {"none", "up", "read", "exited", "built", "started", "stored", "deleted"}
Poller == {"off", "check", "handle", "resolve", "publish", "select", "done"}

TypeOK == /\ unit \in UnitState
          /\ main \in Statuses \cup {NotExited}
          /\ starts \in 0 .. MaxStarts
          /\ stops \subseteq ExitResult
          /\ setup \in Setup
          /\ seen \in UnitState
          /\ wake \in BOOLEAN
          /\ state \in TaskState
          /\ exitResult \in ExitResult \cup {NoResult}
          /\ waitClosed \in BOOLEAN
          /\ cancelled \in BOOLEAN
          /\ poller \in Poller
          /\ pending \in ExitResult \cup {NoResult}
          /\ waiter \in [Waiters -> {"idle", "waiting", "woken", "answered", "closed"}]
          /\ answer \in [Waiters -> ExitResult \cup {NoResult}]

Init == /\ unit \in States
        /\ main \in IF unit \in {"active", "reloading"}
                      THEN {NotExited} ELSE Statuses \cup {NotExited}
        /\ starts = 0
        /\ stops = {}
        /\ setup = "none"
        /\ seen = "other"
        /\ wake = FALSE
        /\ state = "Unknown"
        /\ exitResult = NoResult
        /\ waitClosed = FALSE
        /\ cancelled = FALSE
        /\ poller = "off"
        /\ pending = NoResult
        /\ waiter = [w \in Waiters |-> "idle"]
        /\ answer = [w \in Waiters |-> NoResult]

-----------------------------------------------------------------------------
(* systemd's unit.  The moves a service unit makes; an automatic restart   *)
(* shows as "activating", and units also reload, hang, or sit in a state   *)
(* the package does not know.                                              *)
Successors(s) ==
    CASE s \in {"inactive", "failed"} -> {"activating", "maintenance"}
      [] s = "activating"   -> {"active", "deactivating", "inactive", "failed"}
      [] s = "active"       -> {"reloading", "deactivating", "activating",
                                "inactive", "failed", "other"}
      [] s = "reloading"    -> {"active", "deactivating", "failed"}
      [] s = "deactivating" -> {"inactive", "failed", "activating"}
      [] s = "maintenance"  -> {"inactive"}
      [] OTHER              -> {"active"}

(* The results a stop in state s with exit status st may truthfully be     *)
(* reported with: the process's own, or the state's when it is not known.  *)
Justified(s, st) == {BuildExitResult(s, st), FallbackResult(s)}

(* The exit status is cleared when a new main process starts and set when  *)
(* it ends; a stop with no new main process leaves the old status behind.  *)
UnitStep ==
    /\ unit' \in Successors(unit) \cap States
    /\ starts' = IF unit' = "activating" THEN starts + 1 ELSE starts
    /\ starts' \in 0 .. MaxStarts
    /\ main' \in CASE unit' \in {"active", "reloading", "other"} -> {NotExited}
                   [] IsTerminal(unit') -> Statuses \cup {main}
                   [] OTHER             -> {main}
    /\ stops' = IF IsTerminal(unit') THEN stops \cup Justified(unit', main')
                                     ELSE stops
    /\ UNCHANGED <<setup, seen, wake, taskVars, cancelled, pollVars, waitVars>>

(* A wake: dispatched for a PropertiesChanged signal or sent by StopUnit   *)
(* and KillUnit.  Signals are best effort and about any property, so one   *)
(* may arrive without a state change, late, or never; pending ones merge.  *)
Wake == /\ setup \in {"built", "exited", "started", "stored"}
        /\ wake' = TRUE
        /\ UNCHANGED <<unitVars, setup, seen, taskVars, cancelled, pollVars, waitVars>>

-----------------------------------------------------------------------------
(* StartTask builds its Handler once the unit was read as running or its   *)
(* start job was done, which for a oneshot, or a unit whose conditions do  *)
(* not hold, leaves the unit inactive again.                               *)
StartTaskUp ==
    /\ setup = "none"
    /\ unit \in {"active", "inactive"}
    /\ setup' = "up"
    /\ stops' = IF IsTerminal(unit) THEN Justified(unit, main) ELSE {}
    /\ UNCHANGED <<unit, main, starts, seen, wake, taskVars, cancelled,
                   pollVars, waitVars>>

StartTaskBuild ==
    /\ setup = "up"
    /\ setup' = "built"
    /\ state' = "Running"
    /\ UNCHANGED <<unitVars, seen, wake, exitResult, waitClosed, cancelled,
                   pollVars, waitVars>>

(* RecoverTask: reads the unit's state, builds a Handler in the state it   *)
(* maps to, and resolves the exit result of a unit that is already down.   *)
RecoverRead ==
    /\ setup = "none"
    /\ setup' = "read"
    /\ seen' = unit
    /\ stops' = IF IsTerminal(unit) THEN Justified(unit, main) ELSE {}
    /\ UNCHANGED <<unit, main, starts, wake, taskVars, cancelled, pollVars,
                   waitVars>>

RecoverBuild ==
    /\ setup = "read"
    /\ LET ts == ToTaskState(seen)
       IN  /\ state' = IF ts = "Unknown" THEN "Running" ELSE ts
           /\ setup' = IF ts = "Exited" THEN "exited" ELSE "built"
           /\ waitClosed' = (ts = "Exited")
    /\ UNCHANGED <<unitVars, seen, wake, exitResult, cancelled, pollVars,
                   waitVars>>

RecoverSetExitResult ==
    /\ setup = "exited"
    /\ setup' = "built"
    /\ \E st \in {main, NotExited} :    \* read, or the read failed
           exitResult' = BuildExitResult(seen, st)
    /\ UNCHANGED <<unitVars, seen, wake, state, waitClosed, cancelled,
                   pollVars, waitVars>>

(* Handler.Start launches the poller; tasks.Set then makes the task known. *)
Start == /\ setup = "built"
         /\ setup' = "started"
         /\ poller' = "check"
         /\ UNCHANGED <<unitVars, seen, wake, taskVars, cancelled, pending,
                        waitVars>>

Store == /\ setup = "started"
         /\ setup' = "stored"
         /\ UNCHANGED <<unitVars, seen, wake, taskVars, cancelled, pollVars,
                        waitVars>>

-----------------------------------------------------------------------------
(* pollTaskState.  checkTaskState is done with an exited task; otherwise   *)
(* it reads the unit's state, and a read that fails is left to a later     *)
(* round.                                                                  *)
PollExited ==
    /\ poller = "check"
    /\ state = "Exited"
    /\ poller' = "done"
    /\ UNCHANGED <<unitVars, setup, seen, wake, taskVars, cancelled, pending,
                   waitVars>>

(* Mutant: a task that has exited is polled like any other.                *)
PollReadAlways ==
    /\ poller = "check"
    /\ seen' = unit
    /\ poller' = "handle"
    /\ UNCHANGED <<unitVars, setup, wake, taskVars, cancelled, pending, waitVars>>

PollRead ==
    /\ poller = "check"
    /\ state # "Exited"
    /\ seen' = unit
    /\ poller' = "handle"
    /\ UNCHANGED <<unitVars, setup, wake, taskVars, cancelled, pending, waitVars>>

(* Mutant: a failed read ends the poller.                                  *)
PollReadFailsEnds ==
    /\ poller = "check"
    /\ state # "Exited"
    /\ poller' = "done"
    /\ UNCHANGED <<unitVars, setup, seen, wake, taskVars, cancelled, pending,
                   waitVars>>

PollReadFails ==
    /\ poller = "check"
    /\ state # "Exited"
    /\ poller' = "select"
    /\ UNCHANGED <<unitVars, setup, seen, wake, taskVars, cancelled, pending,
                   waitVars>>

(* Mutant: an exit is published before its result is resolved.             *)
PollHandleEarly ==
    /\ poller = "handle"
    /\ state' = ToTaskState(seen)
    /\ IF ToTaskState(seen) # "Exited"
         THEN poller' = "select" /\ UNCHANGED waitClosed
         ELSE poller' = "resolve" /\ waitClosed' = TRUE
    /\ UNCHANGED <<unitVars, setup, seen, wake, exitResult, cancelled, pending,
                   waitVars>>

(* handleStateChange: under the lock, a state other than Exited is         *)
(* recorded at once; for an exit the lock is given up first, the result is *)
(* resolved by a DBus round trip, and only then are state, result and      *)
(* waitCh published in one section.                                        *)
PollHandle ==
    /\ poller = "handle"
    /\ IF ToTaskState(seen) # "Exited"
         THEN /\ state' = ToTaskState(seen)
              /\ poller' = "select"
         ELSE /\ poller' = "resolve"
              /\ UNCHANGED state
    /\ UNCHANGED <<unitVars, setup, seen, wake, exitResult, waitClosed,
                   cancelled, pending, waitVars>>

PollResolve ==
    /\ poller = "resolve"
    /\ poller' = "publish"
    /\ \E st \in {main, NotExited} :    \* read, or the read failed
           pending' = BuildExitResult(seen, st)
    /\ UNCHANGED <<unitVars, setup, seen, wake, taskVars, cancelled, waitVars>>

PollPublish ==
    /\ poller = "publish"
    /\ poller' = "done"
    /\ state' = "Exited"
    /\ exitResult' = pending
    /\ waitClosed' = TRUE
    /\ UNCHANGED <<unitVars, setup, seen, wake, cancelled, pending, waitVars>>

(* The select: cancellation, a wake, or the safety-net ticker.             *)
PollStopped ==
    /\ poller = "select"
    /\ cancelled
    /\ poller' = "done"
    /\ UNCHANGED <<unitVars, setup, seen, wake, taskVars, cancelled, pending,
                   waitVars>>

PollWoken ==
    /\ poller = "select"
    /\ wake
    /\ wake' = FALSE
    /\ poller' = "check"
    /\ UNCHANGED <<unitVars, setup, seen, taskVars, cancelled, pending, waitVars>>

PollTick ==
    /\ poller = "select"
    /\ poller' = "check"
    /\ UNCHANGED <<unitVars, setup, seen, wake, taskVars, cancelled, pending,
                   waitVars>>

-----------------------------------------------------------------------------
(* WaitTask.  Its goroutine ends on its own context or on waitCh, and then *)
(* reads the status; {0} is its answer to a missing result.                *)
WaitTask(w) ==
    /\ setup = "stored"
    /\ waiter[w] = "idle"
    /\ waiter' = [waiter EXCEPT ![w] = "waiting"]
    /\ UNCHANGED <<unitVars, setup, seen, wake, taskVars, cancelled, pollVars,
                   answer>>

WaitClosed(w) ==
    /\ waiter[w] = "waiting"
    /\ waitClosed
    /\ waiter' = [waiter EXCEPT ![w] = "woken"]
    /\ UNCHANGED <<unitVars, setup, seen, wake, taskVars, cancelled, pollVars,
                   answer>>

WaitAnswer(w) ==
    /\ waiter[w] = "woken"
    /\ waiter' = [waiter EXCEPT ![w] = "answered"]
    /\ answer' = [answer EXCEPT ![w] =
                    IF exitResult # NoResult THEN exitResult
                    ELSE [ExitCode |-> 0, Signal |-> 0, Err |-> FALSE]]
    /\ UNCHANGED <<unitVars, setup, seen, wake, taskVars, cancelled, pollVars>>

WaitGivesUp(w) ==
    /\ waiter[w] = "waiting"
    /\ waiter' = [waiter EXCEPT ![w] = "closed"]
    /\ UNCHANGED <<unitVars, setup, seen, wake, taskVars, cancelled, pollVars,
                   answer>>

-----------------------------------------------------------------------------
(* Handler.Stop cancels the context, then waits for the goroutines; the    *)
(* driver deletes the task once it has returned.                           *)
Cancel == /\ setup = "stored"
          /\ cancelled' = TRUE
          /\ UNCHANGED <<unitVars, setup, seen, wake, taskVars, pollVars, waitVars>>

Delete == /\ setup = "stored"
          /\ cancelled
          /\ poller = "done"
          /\ setup' = "deleted"
          /\ UNCHANGED <<unitVars, seen, wake, taskVars, cancelled, pollVars,
                         waitVars>>

SetupStep == \/ StartTaskUp \/ StartTaskBuild
             \/ RecoverRead \/ RecoverBuild \/ RecoverSetExitResult
             \/ Start \/ Store

PollStep == \/ PollExited \/ PollRead \/ PollReadFails
            \/ PollHandle \/ PollResolve \/ PollPublish
            \/ PollStopped \/ PollWoken \/ PollTick

WaitStep == \E w \in Waiters :
                WaitTask(w) \/ WaitClosed(w) \/ WaitAnswer(w) \/ WaitGivesUp(w)

Next == UnitStep \/ Wake \/ SetupStep \/ PollStep \/ WaitStep \/ Cancel \/ Delete

Spec == Init /\ [][Next]_vars

(* A goroutine that can run does.  The ticker fires again and again, so a  *)
(* select never blocks for good; select picks among ready cases at random, *)
(* so one that is ready again and again is eventually picked; and DBus,    *)
(* which the driver reconnects to for ever, does not fail every read.      *)
Fairness == /\ WF_vars(PollExited) /\ SF_vars(PollRead)
            /\ WF_vars(PollHandle) /\ WF_vars(PollResolve)
            /\ WF_vars(PollPublish) /\ SF_vars(PollStopped)
            /\ WF_vars(PollTick)
            /\ WF_vars(RecoverBuild) /\ WF_vars(RecoverSetExitResult)
            /\ WF_vars(Start) /\ WF_vars(Store)
            /\ \A w \in Waiters : WF_vars(WaitClosed(w)) /\ WF_vars(WaitAnswer(w))

FairSpec == Spec /\ Fairness

-----------------------------------------------------------------------------
(* A task is visible to other goroutines from the moment its own start.    *)
Visible == setup \in {"started", "stored", "deleted"}

(* A visible task is Exited exactly when its waitCh is closed, and then it *)
(* carries an exit result that systemd's record justified at a stop of the *)
(* unit under this management: never nil, never an exit the unit did not   *)
(* make, never success for want of a reading of a failed unit - although   *)
(* the unit may have been restarted between the two DBus reads the result  *)
(* is built from (handleStateChange, buildExitResult, RecoverTask).        *)
ExitIsTruthful ==
    Visible => /\ waitClosed <=> state = "Exited"
               /\ state = "Exited" => exitResult \in stops

(* The Handler implements what the driver promises of a task: an exit is   *)
(* published once, together with its result, is never revoked - although   *)
(* the unit may run again - and is what every WaitTask call is sent.       *)
Contract == INSTANCE TaskContract
                WITH Results <- ExitResult,
                     status <- IF setup \in {"stored", "deleted"} THEN state
                                                                 ELSE "none",
                     result <- IF setup \in {"stored", "deleted"} THEN exitResult
                                                                 ELSE NoResult
KeepsContract == Contract!CSpec

(* When the unit stops for good, every WaitTask call of a task that is not *)
(* being torn down is answered, even if no notification of the stop ever   *)
(* arrived and reads failed on the way (the safety-net ticker of           *)
(* pollTaskState, the unconditional first check).                          *)
WaitersHearOfExit ==
    (<>[]IsTerminal(unit) /\ []~cancelled) =>
        \A w \in Waiters :
            waiter[w] = "waiting" ~> waiter[w] \in {"answered", "closed"}

-----------------------------------------------------------------------------
(* Why ExitIsTruthful and KeepsContract hold.  A stop justifies the result *)
(* its state alone suggests, and the result in systemd's record, which     *)
(* only another stop replaces.                                             *)
UnitInv ==
    /\ IsTerminal(unit) /\ setup # "none" => FallbackResult(unit) \in stops
    /\ stops # {} => ExitResultFromStatus(main) \in stops \cup {NoResult}

(* A Handler that is being built, and what its builder has read.           *)
SetupInv ==
    /\ poller = "off" <=> setup \in {"none", "up", "read", "exited", "built"}
    /\ setup \in {"none", "up", "read"} => state = "Unknown" /\ ~waitClosed
    /\ setup \in {"none", "up", "read", "exited"} => exitResult = NoResult
    /\ setup = "exited" => state = "Exited" /\ waitClosed /\ IsTerminal(seen)
    /\ setup \in {"read", "exited"} /\ IsTerminal(seen) =>
           FallbackResult(seen) \in stops

(* What the poller knows between its steps.                                *)
PollInv ==
    /\ poller \in {"handle", "resolve", "publish", "select"} => state # "Exited"
    /\ poller = "handle" /\ IsTerminal(seen) => FallbackResult(seen) \in stops
    /\ poller = "resolve" => IsTerminal(seen) /\ FallbackResult(seen) \in stops
    /\ poller = "publish" => pending \in stops

ExitInv ==
    setup \notin {"none", "up", "read", "exited"} =>
        /\ waitClosed <=> state = "Exited"
        /\ state = "Exited" => exitResult \in stops
        /\ state # "Exited" => exitResult = NoResult

WaitInv == \A w \in Waiters :
    /\ waiter[w] # "idle" => setup \in {"stored", "deleted"}
    /\ waiter[w] \in {"woken", "answered"} => waitClosed
    /\ answer[w] = IF waiter[w] = "answered" THEN exitResult ELSE NoResult

(* The inductive invariant of a Handler and the goroutines around it.      *)
HInv == TypeOK /\ UnitInv /\ SetupInv /\ PollInv /\ ExitInv /\ WaitInv
=============================================================================
