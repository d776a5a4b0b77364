---------------------------- MODULE TaskTeardown ----------------------------
(***************************************************************************)
(* The driver's ways of ending one task (plugin/task.go): concurrent       *)
(* StopTask and DestroyTask calls on the Handler of TaskHandler, each with *)
(* the StopUnit goroutine it spawns, the deadline it races against it, and *)
(* the escalation to SIGKILL.  Handler.Stop and tasks.Delete, free actions *)
(* in TaskHandler, are here steps of DestroyTask.                          *)
(***************************************************************************)
EXTENDS TaskHandler

CONSTANTS Stoppers,     \* StopTask calls
          Destroyers    \* DestroyTask calls

ASSUME CallersAssumption == Stoppers \cap Destroyers = {}

Callers == Stoppers \cup Destroyers

VARIABLES call,         \* program counter of each call
          job,          \* each call's StopUnit goroutine
          force,        \* DestroyTask's argument
          killed        \* history: a SIGKILL was delivered to the unit

callVars == <<call, job, force, killed>>
tvars == <<vars, callVars>>

TTypeOK ==
    /\ call \in [Callers -> {"idle", "check", "select", "kill", "verify", "halt",
                             "wait", "delete", "ok", "error", "rejected"}]
    /\ job \in [Callers -> {"none", "queued", "enqueued", "ok", "error"}]
    /\ force \in [Destroyers -> BOOLEAN]
    /\ killed \in BOOLEAN

TInit == /\ Init
         /\ call = [c \in Callers |-> "idle"]
         /\ job = [c \in Callers |-> "none"]
         /\ force = [d \in Destroyers |-> FALSE]
         /\ killed = FALSE

Goto(c, pc) == call' = [call EXCEPT ![c] = pc]

(* Where a call resumes when its unit is taken to be down.                 *)
Down(c) == IF c \in Stoppers THEN "ok" ELSE "halt"

-----------------------------------------------------------------------------
(* StopTask: no grace period at all escalates at once.                     *)
StopTask(c) ==
    /\ setup = "stored"
    /\ call[c] = "idle"
    /\ \/ Goto(c, "select") \/ Goto(c, "kill")
    /\ job' = [job EXCEPT ![c] = "queued"]
    /\ UNCHANGED <<vars, force, killed>>

(* The goroutine's StopUnit: it enqueues a stop job and waits for systemd  *)
(* to report it done, which it does once the unit is down.  A rejected,    *)
(* failed, abandoned or timed out job is an error.  The unit's watcher is  *)
(* woken before StopUnit returns either way.                               *)
StopJobEnqueued(c) ==
    /\ job[c] = "queued"
    /\ job' = [job EXCEPT ![c] = "enqueued"]
    /\ UNCHANGED <<vars, call, force, killed>>

StopJobDone(c) ==
    /\ job[c] = "enqueued"
    /\ IsTerminal(unit)
    /\ job' = [job EXCEPT ![c] = "ok"]
    /\ wake' = (wake \/ setup = "stored")
    /\ UNCHANGED <<unitVars, setup, seen, taskVars, cancelled, pollVars,
                   waitVars, call, force, killed>>

StopJobFails(c) ==
    /\ job[c] \in {"queued", "enqueued"}
    /\ job' = [job EXCEPT ![c] = "error"]
    /\ wake' = (wake \/ setup = "stored")
    /\ UNCHANGED <<unitVars, setup, seen, taskVars, cancelled, pollVars,
                   waitVars, call, force, killed>>

(* The select of StopTask and of a forced DestroyTask.                     *)
SelectDown(c) ==
    /\ call[c] = "select"
    /\ waitClosed \/ job[c] = "ok"
    /\ Goto(c, Down(c))
    /\ UNCHANGED <<vars, job, force, killed>>

SelectStopFailed(c) ==
    /\ call[c] = "select"
    /\ job[c] = "error"
    /\ Goto(c, "kill")
    /\ UNCHANGED <<vars, job, force, killed>>


SelectTimeout(c) ==
    /\ call[c] = "select"
    /\ Goto(c, "kill")
    /\ UNCHANGED <<vars, job, force, killed>>

(* forceKillTask: a kill that fails for want of processes is a success; a  *)
(* DestroyTask carries on whatever comes of it.                            *)
KillDelivered(c) ==
    /\ call[c] = "kill"
    /\ ~IsTerminal(unit)
    /\ killed' = TRUE
    /\ wake' = (wake \/ setup = "stored")
    /\ Goto(c, Down(c))
    /\ UNCHANGED <<unitVars, setup, seen, taskVars, cancelled, pollVars,
                   waitVars, job, force>>

KillFails(c) ==
    /\ call[c] = "kill"
    /\ wake' = (wake \/ setup = "stored")
    /\ Goto(c, "verify")
    /\ UNCHANGED <<unitVars, setup, seen, taskVars, cancelled, pollVars,
                   waitVars, job, force, killed>>

VerifyDown(c) ==
    /\ call[c] = "verify"
    /\ IsTerminal(unit)
    /\ Goto(c, Down(c))
    /\ UNCHANGED <<vars, job, force, killed>>

(* Mutant: StopTask swallows the failed kill of a unit that is up.         *)
VerifyForgives(c) ==
    /\ call[c] = "verify"
    /\ Goto(c, Down(c))
    /\ UNCHANGED <<vars, job, force, killed>>

(* The unit is up, or its state could not be read.                         *)
VerifyFails(c) ==
    /\ call[c] = "verify"
    /\ Goto(c, IF c \in Stoppers THEN "error" ELSE "halt")
    /\ UNCHANGED <<vars, job, force, killed>>

-----------------------------------------------------------------------------
(* DestroyTask: tasks.Get, then the guard that rejects a task which has    *)
(* not exited unless forced, then a stop of the unit if it has not.        *)
DestroyTask(c) ==
    /\ setup = "stored"
    /\ call[c] = "idle"
    /\ \E f \in BOOLEAN : force' = [force EXCEPT ![c] = f]
    /\ Goto(c, "check")
    /\ UNCHANGED <<vars, job, killed>>

HasExited == state = "Exited"

DestroyRejected(c) ==
    /\ call[c] = "check"
    /\ ~HasExited /\ ~force[c]
    /\ Goto(c, "rejected")
    /\ UNCHANGED <<vars, job, force, killed>>

(* Mutant: a task that is not running is taken to have exited.             *)
DestroyAcceptedNotRunning(c) ==
    /\ call[c] = "check"
    /\ state # "Running" \/ force[c]
    /\ IF state # "Running" THEN Goto(c, "halt") /\ UNCHANGED job
                            ELSE Goto(c, "select") /\ job' = [job EXCEPT ![c] = "queued"]
    /\ UNCHANGED <<vars, force, killed>>

DestroyAccepted(c) ==
    /\ call[c] = "check"
    /\ HasExited \/ force[c]
    /\ IF HasExited THEN Goto(c, "halt") /\ UNCHANGED job
                    ELSE Goto(c, "select") /\ job' = [job EXCEPT ![c] = "queued"]
    /\ UNCHANGED <<vars, force, killed>>

(* Handler.Stop: cancel, then wait for the poller.                         *)
DestroyCancels(c) ==
    /\ call[c] = "halt"
    /\ cancelled' = TRUE
    /\ Goto(c, "wait")
    /\ UNCHANGED <<unitVars, setup, seen, wake, taskVars, pollVars, waitVars,
                   job, force, killed>>

(* Mutant: Handler.Stop does not wait for the poller.                      *)
DestroyHurries(c) ==
    /\ call[c] = "wait"
    /\ Goto(c, "delete")
    /\ UNCHANGED <<vars, job, force, killed>>

DestroyWaits(c) ==
    /\ call[c] = "wait"
    /\ poller = "done"
    /\ Goto(c, "delete")
    /\ UNCHANGED <<vars, job, force, killed>>

(* tasks.Delete, harmless when another call got there first.               *)
DestroyDeletes(c) ==
    /\ call[c] = "delete"
    /\ setup' = "deleted"
    /\ Goto(c, "ok")
    /\ UNCHANGED <<unitVars, seen, wake, taskVars, cancelled, pollVars, waitVars,
                   job, force, killed>>

StopJobStep(c) == StopJobEnqueued(c) \/ StopJobDone(c) \/ StopJobFails(c)

EscalationStep(c) == \/ SelectDown(c) \/ SelectStopFailed(c) \/ SelectTimeout(c)
                     \/ KillDelivered(c) \/ KillFails(c)
                     \/ VerifyDown(c) \/ VerifyFails(c)

DestroyStep(d) == \/ DestroyRejected(d) \/ DestroyAccepted(d)
                  \/ DestroyCancels(d) \/ DestroyWaits(d) \/ DestroyDeletes(d)

HandlerStep == /\ UnitStep \/ Wake \/ SetupStep \/ PollStep \/ WaitStep
               /\ UNCHANGED callVars

TNext == \/ HandlerStep
         \/ \E c \in Stoppers : StopTask(c)
         \/ \E c \in Callers : StopJobStep(c) \/ EscalationStep(c)
         \/ \E d \in Destroyers : DestroyTask(d) \/ DestroyStep(d)

TSpec == TInit /\ [][TNext]_tvars

(* Deadlines pass, and a call that can go on does.                         *)
TFairness == /\ Fairness
             /\ \A c \in Callers : WF_tvars(EscalationStep(c))
             /\ \A d \in Destroyers : WF_tvars(DestroyStep(d))

TFairSpec == TSpec /\ TFairness

-----------------------------------------------------------------------------
(* A StopTask call that reports success reports something that happened:   *)
(* the unit was seen down under this task's management, or every process   *)
(* of it was sent SIGKILL (StopTask, forceKillTask).                       *)
StopIsHonest ==
    \A c \in Stoppers : call[c] = "ok" => stops # {} \/ killed

(* A task is torn down before it exited only by a forced DestroyTask that  *)
(* set out to stop its unit first; a unit in a transitional state, neither *)
(* running nor exited, is not mistaken for one that is done (DestroyTask,  *)
(* Handler.HasExited).                                                     *)
NeverAbandoned ==
    cancelled /\ ~HasExited =>
        \E d \in Destroyers : force[d] /\ job[d] # "none"

(* Tearing down respects the Handler: every step here is one TaskHandler   *)
(* allows.  In particular a task leaves the store only after its poller    *)
(* has ended, so nothing uses the resources released next (Handler.Stop).  *)
RespectsHandler == Spec


(* plugin/task.go:191 of WaitTask: its channel "will send an *ExitResult   *)
(* when the task exits or close the channel when the context is canceled". *)
(* The code does not keep this: a forced DestroyTask whose StopUnit is     *)
(* done cancels the poller before it reads the unit again, and waitCh is   *)
(* never closed.                                                           *)
WaitTaskSendsOnExit ==
    <>[]IsTerminal(unit) =>
        \A w \in Waiters : waiter[w] = "waiting" ~> waiter[w] # "waiting"

-----------------------------------------------------------------------------
(* Why StopIsHonest, NeverAbandoned and RespectsHandler hold.  Calls are   *)
(* made for a task in the store, and one that is under way or has returned *)
(* knows how far Handler.Stop is.                                          *)
ProgressInv ==
    /\ cancelled => setup \in {"stored", "deleted"}
    /\ setup = "deleted" => cancelled /\ poller = "done"
    /\ \A c \in Callers :
           IF call[c] = "idle" THEN job[c] = "none"
                               ELSE setup \in {"stored", "deleted"}
    /\ \A d \in Destroyers :
           /\ call[d] \in {"wait", "delete"} => cancelled
           /\ call[d] = "delete" => poller = "done"

(* A stop job that is done, and a StopTask that succeeds, saw the stop.    *)
StopsInv ==
    /\ \A c \in Callers : job[c] = "ok" => stops # {}
    /\ \A c \in Stoppers : call[c] \notin {"halt", "wait", "delete"}
    /\ StopIsHonest

(* What a DestroyTask past its guard knows, and who cancelled the poller.  *)
Forced(d) == force[d] /\ job[d] # "none"

ForceInv ==
    /\ \A d \in Destroyers :
           /\ call[d] \in {"select", "kill", "verify"} => Forced(d)
           /\ call[d] \in {"halt", "wait", "delete", "ok"} => HasExited \/ Forced(d)
    /\ cancelled => \E d \in Destroyers : call[d] \in {"wait", "delete", "ok"}

(* The inductive invariant of a task that is being torn down, together     *)
(* with HInv of its Handler.                                               *)
TInv == TTypeOK /\ ProgressInv /\ StopsInv /\ ForceInv
=============================================================================
