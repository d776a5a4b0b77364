------------------------- MODULE TaskTeardownProofs -------------------------
(***************************************************************************)
(* Proofs about TaskTeardown, for any number of concurrent StopTask and    *)
(* DestroyTask calls.  HInv holds of the Handler whatever the calls do,    *)
(* since every step they take is one TaskHandler allows; with it, TInv is  *)
(* inductive, and what the calls promise follows.                          *)
(***************************************************************************)
EXTENDS TaskTeardown, TaskHandlerProofs

USE CallersAssumption

(* What the Handler's own steps leave alone once its task is in the store: *)
(* a stop is not forgotten, an ended poller and an exit are final.         *)
LEMMA HandlerMoves ==
    ASSUME HInv, HandlerStep
    PROVE  /\ UNCHANGED <<cancelled, call, job, force, killed>>
           /\ setup' = "deleted" => setup = "deleted"
           /\ setup \in {"stored", "deleted"} =>
                  /\ setup' = setup
                  /\ stops \subseteq stops'
                  /\ poller = "done" => poller' = "done"
                  /\ HasExited => HasExited'
<1>1. CASE UnitStep
  BY <1>1 DEF HandlerStep, UnitStep, HasExited, callVars, taskVars, pollVars
<1>2. CASE Wake
  BY <1>2 DEF HandlerStep, Wake, HasExited, callVars, unitVars, taskVars, pollVars
<1>3. CASE SetupStep
  BY <1>3 DEF HandlerStep, SetupStep, StartTaskUp, StartTaskBuild, RecoverRead,
        RecoverBuild, RecoverSetExitResult, Start, Store, HasExited, callVars,
        unitVars, taskVars, pollVars
<1>4. CASE PollStep
  BY <1>4 DEF HandlerStep, PollStep, PollExited, PollRead, PollReadFails,
        PollHandle, PollResolve, PollPublish, PollStopped, PollWoken, PollTick,
        HInv, PollInv, HasExited, callVars, unitVars, taskVars
<1>5. CASE WaitStep
  BY <1>5 DEF HandlerStep, WaitStep, WaitTask, WaitClosed, WaitAnswer,
        WaitGivesUp, HasExited, callVars, unitVars, taskVars, pollVars
<1> QED
  BY <1>1, <1>2, <1>3, <1>4, <1>5 DEF HandlerStep

(* A task in the store that has exited, or whose unit is down, has stopped *)
(* under its management.                                                   *)
LEMMA StopSeen ==
    ASSUME HInv, setup \in {"stored", "deleted"}, waitClosed \/ IsTerminal(unit)
    PROVE  stops # {}
  BY DEF HInv, UnitInv, ExitInv

(* The Handler's own steps preserve TInv.                                  *)
LEMMA HandlerStepTInv ==
    ASSUME HInv, TInv, HandlerStep
    PROVE  TInv'
<1>1. TTypeOK'
  BY HandlerMoves DEF TInv, TTypeOK
<1>2. ProgressInv'
  BY HandlerMoves DEF TInv, ProgressInv
<1>3. StopsInv'
  BY HandlerMoves DEF TInv, StopsInv, StopIsHonest, ProgressInv, Callers
<1>4. ForceInv'
  BY HandlerMoves DEF TInv, ForceInv, Forced, ProgressInv, Callers
<1> QED
  BY <1>1, <1>2, <1>3, <1>4 DEF TInv

(* A StopTask call begins.                                                 *)
LEMMA StopTaskTInv ==
    ASSUME HInv, TInv, NEW c \in Stoppers, StopTask(c)
    PROVE  TInv'
<1>1. TTypeOK'
  BY DEF TInv, TTypeOK, Callers, StopTask, vars, unitVars, taskVars, pollVars,
        waitVars, Goto
<1>2. ProgressInv'
  BY DEF TInv, ProgressInv, TTypeOK, Callers, StopTask, vars, unitVars,
        taskVars, pollVars, waitVars, Goto
<1>3. StopsInv'
  BY DEF TInv, StopsInv, StopIsHonest, TTypeOK, Callers, StopTask, vars,
        unitVars, taskVars, pollVars, waitVars, Goto
<1>4. ForceInv'
  BY DEF TInv, ForceInv, Forced, TTypeOK, HasExited, Callers, StopTask, vars,
        unitVars, taskVars, pollVars, waitVars, Goto
<1> QED
  BY <1>1, <1>2, <1>3, <1>4 DEF TInv

(* A stop job is enqueued.                                                 *)
LEMMA StopJobEnqueuedTInv ==
    ASSUME HInv, TInv, NEW c \in Callers, StopJobEnqueued(c)
    PROVE  TInv'
<1>1. TTypeOK'
  BY DEF TInv, TTypeOK, Callers, StopJobEnqueued, vars, unitVars, taskVars,
        pollVars, waitVars
<1>2. ProgressInv'
  BY DEF TInv, ProgressInv, TTypeOK, Callers, StopJobEnqueued, vars, unitVars,
        taskVars, pollVars, waitVars
<1>3. StopsInv'
  BY DEF TInv, StopsInv, StopIsHonest, TTypeOK, Callers, StopJobEnqueued, vars,
        unitVars, taskVars, pollVars, waitVars
<1>4. ForceInv'
  BY DEF TInv, ForceInv, Forced, TTypeOK, HasExited, Callers, StopJobEnqueued,
        vars, unitVars, taskVars, pollVars, waitVars
<1> QED
  BY <1>1, <1>2, <1>3, <1>4 DEF TInv

(* A stop job is done when the unit is down.                               *)
LEMMA StopJobDoneTInv ==
    ASSUME HInv, TInv, NEW c \in Callers, StopJobDone(c)
    PROVE  TInv'
<1>1. stops # {}
  BY StopSeen DEF TInv, ProgressInv, StopsInv, Callers, StopJobDone
<1>2. TTypeOK'
  BY DEF TInv, TTypeOK, Callers, StopJobDone, unitVars, taskVars, pollVars,
        waitVars
<1>3. ProgressInv'
  BY DEF TInv, ProgressInv, TTypeOK, Callers, StopJobDone, unitVars, taskVars,
        pollVars, waitVars
<1>4. StopsInv'
  BY <1>1 DEF TInv, StopsInv, StopIsHonest, TTypeOK, Callers, StopJobDone,
        unitVars, taskVars, pollVars, waitVars
<1>5. ForceInv'
  BY DEF TInv, ForceInv, Forced, TTypeOK, HasExited, Callers, StopJobDone,
        unitVars, taskVars, pollVars, waitVars
<1> QED
  BY <1>2, <1>3, <1>4, <1>5 DEF TInv

(* A stop job fails.                                                       *)
LEMMA StopJobFailsTInv ==
    ASSUME HInv, TInv, NEW c \in Callers, StopJobFails(c)
    PROVE  TInv'
<1>1. TTypeOK'
  BY DEF TInv, TTypeOK, Callers, StopJobFails, unitVars, taskVars, pollVars,
        waitVars
<1>2. ProgressInv'
  BY DEF TInv, ProgressInv, TTypeOK, Callers, StopJobFails, unitVars, taskVars,
        pollVars, waitVars
<1>3. StopsInv'
  BY DEF TInv, StopsInv, StopIsHonest, TTypeOK, Callers, StopJobFails,
        unitVars, taskVars, pollVars, waitVars
<1>4. ForceInv'
  BY DEF TInv, ForceInv, Forced, TTypeOK, HasExited, Callers, StopJobFails,
        unitVars, taskVars, pollVars, waitVars
<1> QED
  BY <1>1, <1>2, <1>3, <1>4 DEF TInv

(* A call goes on because the exit was observed or its stop job is done:   *)
(* in both cases the unit was down.                                        *)
LEMMA SelectDownTInv ==
    ASSUME HInv, TInv, NEW c \in Callers, SelectDown(c)
    PROVE  TInv'
<1>1. stops # {}
  BY StopSeen DEF TInv, ProgressInv, StopsInv, Callers, SelectDown
<1>2. TTypeOK'
  BY DEF TInv, TTypeOK, Callers, Down, SelectDown, vars, unitVars, taskVars,
        pollVars, waitVars, Goto
<1>3. ProgressInv'
  BY DEF TInv, ProgressInv, TTypeOK, Callers, Down, SelectDown, vars, unitVars,
        taskVars, pollVars, waitVars, Goto
<1>4. StopsInv'
  BY <1>1 DEF TInv, StopsInv, StopIsHonest, TTypeOK, Callers, Down, SelectDown,
        vars, unitVars, taskVars, pollVars, waitVars, Goto
<1>5. ForceInv'
  BY DEF TInv, ForceInv, Forced, TTypeOK, HasExited, Callers, Down, SelectDown,
        vars, unitVars, taskVars, pollVars, waitVars, Goto
<1> QED
  BY <1>2, <1>3, <1>4, <1>5 DEF TInv

(* A stop job that failed is escalated.                                    *)
LEMMA SelectStopFailedTInv ==
    ASSUME HInv, TInv, NEW c \in Callers, SelectStopFailed(c)
    PROVE  TInv'
<1>1. TTypeOK'
  BY DEF TInv, TTypeOK, Callers, SelectStopFailed, vars, unitVars, taskVars,
        pollVars, waitVars, Goto
<1>2. ProgressInv'
  BY DEF TInv, ProgressInv, TTypeOK, Callers, SelectStopFailed, vars, unitVars,
        taskVars, pollVars, waitVars, Goto
<1>3. StopsInv'
  BY DEF TInv, StopsInv, StopIsHonest, TTypeOK, Callers, SelectStopFailed,
        vars, unitVars, taskVars, pollVars, waitVars, Goto
<1>4. ForceInv'
  BY DEF TInv, ForceInv, Forced, TTypeOK, HasExited, Callers, SelectStopFailed,
        vars, unitVars, taskVars, pollVars, waitVars, Goto
<1> QED
  BY <1>1, <1>2, <1>3, <1>4 DEF TInv

(* A stop that takes too long is escalated.                                *)
LEMMA SelectTimeoutTInv ==
    ASSUME HInv, TInv, NEW c \in Callers, SelectTimeout(c)
    PROVE  TInv'
<1>1. TTypeOK'
  BY DEF TInv, TTypeOK, Callers, SelectTimeout, vars, unitVars, taskVars,
        pollVars, waitVars, Goto
<1>2. ProgressInv'
  BY DEF TInv, ProgressInv, TTypeOK, Callers, SelectTimeout, vars, unitVars,
        taskVars, pollVars, waitVars, Goto
<1>3. StopsInv'
  BY DEF TInv, StopsInv, StopIsHonest, TTypeOK, Callers, SelectTimeout, vars,
        unitVars, taskVars, pollVars, waitVars, Goto
<1>4. ForceInv'
  BY DEF TInv, ForceInv, Forced, TTypeOK, HasExited, Callers, SelectTimeout,
        vars, unitVars, taskVars, pollVars, waitVars, Goto
<1> QED
  BY <1>1, <1>2, <1>3, <1>4 DEF TInv

(* SIGKILL is delivered.                                                   *)
LEMMA KillDeliveredTInv ==
    ASSUME HInv, TInv, NEW c \in Callers, KillDelivered(c)
    PROVE  TInv'
<1>1. TTypeOK'
  BY DEF TInv, TTypeOK, Callers, Down, KillDelivered, unitVars, taskVars,
        pollVars, waitVars, Goto
<1>2. ProgressInv'
  BY DEF TInv, ProgressInv, TTypeOK, Callers, Down, KillDelivered, unitVars,
        taskVars, pollVars, waitVars, Goto
<1>3. StopsInv'
  BY DEF TInv, StopsInv, StopIsHonest, TTypeOK, Callers, Down, KillDelivered,
        unitVars, taskVars, pollVars, waitVars, Goto
<1>4. ForceInv'
  BY DEF TInv, ForceInv, Forced, TTypeOK, HasExited, Callers, Down,
        KillDelivered, unitVars, taskVars, pollVars, waitVars, Goto
<1> QED
  BY <1>1, <1>2, <1>3, <1>4 DEF TInv

(* SIGKILL is not delivered.                                               *)
LEMMA KillFailsTInv ==
    ASSUME HInv, TInv, NEW c \in Callers, KillFails(c)
    PROVE  TInv'
<1>1. TTypeOK'
  BY DEF TInv, TTypeOK, Callers, KillFails, unitVars, taskVars, pollVars,
        waitVars, Goto
<1>2. ProgressInv'
  BY DEF TInv, ProgressInv, TTypeOK, Callers, KillFails, unitVars, taskVars,
        pollVars, waitVars, Goto
<1>3. StopsInv'
  BY DEF TInv, StopsInv, StopIsHonest, TTypeOK, Callers, KillFails, unitVars,
        taskVars, pollVars, waitVars, Goto
<1>4. ForceInv'
  BY DEF TInv, ForceInv, Forced, TTypeOK, HasExited, Callers, KillFails,
        unitVars, taskVars, pollVars, waitVars, Goto
<1> QED
  BY <1>1, <1>2, <1>3, <1>4 DEF TInv

(* The unit was down already.                                              *)
LEMMA VerifyDownTInv ==
    ASSUME HInv, TInv, NEW c \in Callers, VerifyDown(c)
    PROVE  TInv'
<1>1. stops # {}
  BY StopSeen DEF TInv, ProgressInv, StopsInv, Callers, VerifyDown
<1>2. TTypeOK'
  BY DEF TInv, TTypeOK, Callers, Down, VerifyDown, vars, unitVars, taskVars,
        pollVars, waitVars, Goto
<1>3. ProgressInv'
  BY DEF TInv, ProgressInv, TTypeOK, Callers, Down, VerifyDown, vars, unitVars,
        taskVars, pollVars, waitVars, Goto
<1>4. StopsInv'
  BY <1>1 DEF TInv, StopsInv, StopIsHonest, TTypeOK, Callers, Down, VerifyDown,
        vars, unitVars, taskVars, pollVars, waitVars, Goto
<1>5. ForceInv'
  BY DEF TInv, ForceInv, Forced, TTypeOK, HasExited, Callers, Down, VerifyDown,
        vars, unitVars, taskVars, pollVars, waitVars, Goto
<1> QED
  BY <1>2, <1>3, <1>4, <1>5 DEF TInv

(* A kill that failed is an error to StopTask only.                        *)
LEMMA VerifyFailsTInv ==
    ASSUME HInv, TInv, NEW c \in Callers, VerifyFails(c)
    PROVE  TInv'
<1>1. TTypeOK'
  BY DEF TInv, TTypeOK, Callers, VerifyFails, vars, unitVars, taskVars,
        pollVars, waitVars, Goto
<1>2. ProgressInv'
  BY DEF TInv, ProgressInv, TTypeOK, Callers, VerifyFails, vars, unitVars,
        taskVars, pollVars, waitVars, Goto
<1>3. StopsInv'
  BY DEF TInv, StopsInv, StopIsHonest, TTypeOK, Callers, VerifyFails, vars,
        unitVars, taskVars, pollVars, waitVars, Goto
<1>4. ForceInv'
  BY DEF TInv, ForceInv, Forced, TTypeOK, HasExited, Callers, VerifyFails,
        vars, unitVars, taskVars, pollVars, waitVars, Goto
<1> QED
  BY <1>1, <1>2, <1>3, <1>4 DEF TInv

(* A DestroyTask call begins.                                              *)
LEMMA DestroyTaskTInv ==
    ASSUME HInv, TInv, NEW c \in Destroyers, DestroyTask(c)
    PROVE  TInv'
<1>1. TTypeOK'
  BY DEF TInv, TTypeOK, Callers, DestroyTask, vars, unitVars, taskVars,
        pollVars, waitVars, Goto
<1>2. ProgressInv'
  BY DEF TInv, ProgressInv, TTypeOK, Callers, DestroyTask, vars, unitVars,
        taskVars, pollVars, waitVars, Goto
<1>3. StopsInv'
  BY DEF TInv, StopsInv, StopIsHonest, TTypeOK, Callers, DestroyTask, vars,
        unitVars, taskVars, pollVars, waitVars, Goto
<1>4. ForceInv'
  BY DEF TInv, ForceInv, Forced, TTypeOK, HasExited, Callers, DestroyTask,
        vars, unitVars, taskVars, pollVars, waitVars, Goto
<1> QED
  BY <1>1, <1>2, <1>3, <1>4 DEF TInv

(* A task that has not exited is not destroyed unless forced.              *)
LEMMA DestroyRejectedTInv ==
    ASSUME HInv, TInv, NEW c \in Destroyers, DestroyRejected(c)
    PROVE  TInv'
<1>1. TTypeOK'
  BY DEF TInv, TTypeOK, Callers, DestroyRejected, vars, unitVars, taskVars,
        pollVars, waitVars, Goto
<1>2. ProgressInv'
  BY DEF TInv, ProgressInv, TTypeOK, Callers, DestroyRejected, vars, unitVars,
        taskVars, pollVars, waitVars, Goto
<1>3. StopsInv'
  BY DEF TInv, StopsInv, StopIsHonest, TTypeOK, Callers, DestroyRejected, vars,
        unitVars, taskVars, pollVars, waitVars, Goto
<1>4. ForceInv'
  BY DEF TInv, ForceInv, Forced, TTypeOK, HasExited, Callers, DestroyRejected,
        vars, unitVars, taskVars, pollVars, waitVars, Goto
<1> QED
  BY <1>1, <1>2, <1>3, <1>4 DEF TInv

(* A task is destroyed when it has exited, or stopped first when forced.   *)
LEMMA DestroyAcceptedTInv ==
    ASSUME HInv, TInv, NEW c \in Destroyers, DestroyAccepted(c)
    PROVE  TInv'
<1>1. TTypeOK'
  BY DEF TInv, TTypeOK, Callers, DestroyAccepted, vars, unitVars, taskVars,
        pollVars, waitVars, Goto
<1>2. ProgressInv'
  BY DEF TInv, ProgressInv, TTypeOK, Callers, DestroyAccepted, vars, unitVars,
        taskVars, pollVars, waitVars, Goto
<1>3. StopsInv'
  BY DEF TInv, StopsInv, StopIsHonest, TTypeOK, Callers, DestroyAccepted, vars,
        unitVars, taskVars, pollVars, waitVars, Goto
<1>4. ForceInv'
  BY DEF TInv, ForceInv, Forced, TTypeOK, HasExited, Callers, DestroyAccepted,
        vars, unitVars, taskVars, pollVars, waitVars, Goto
<1> QED
  BY <1>1, <1>2, <1>3, <1>4 DEF TInv

(* Handler.Stop cancels the poller.                                        *)
LEMMA DestroyCancelsTInv ==
    ASSUME HInv, TInv, NEW c \in Destroyers, DestroyCancels(c)
    PROVE  TInv'
<1>1. TTypeOK'
  BY DEF TInv, TTypeOK, Callers, DestroyCancels, unitVars, taskVars, pollVars,
        waitVars, Goto
<1>2. ProgressInv'
  BY DEF TInv, ProgressInv, TTypeOK, Callers, DestroyCancels, unitVars,
        taskVars, pollVars, waitVars, Goto
<1>3. StopsInv'
  BY DEF TInv, StopsInv, StopIsHonest, TTypeOK, Callers, DestroyCancels,
        unitVars, taskVars, pollVars, waitVars, Goto
<1>4. ForceInv'
  BY DEF TInv, ForceInv, Forced, TTypeOK, HasExited, Callers, DestroyCancels,
        unitVars, taskVars, pollVars, waitVars, Goto
<1> QED
  BY <1>1, <1>2, <1>3, <1>4 DEF TInv

(* Handler.Stop returns.                                                   *)
LEMMA DestroyWaitsTInv ==
    ASSUME HInv, TInv, NEW c \in Destroyers, DestroyWaits(c)
    PROVE  TInv'
<1>1. TTypeOK'
  BY DEF TInv, TTypeOK, Callers, DestroyWaits, vars, unitVars, taskVars,
        pollVars, waitVars, Goto
<1>2. ProgressInv'
  BY DEF TInv, ProgressInv, TTypeOK, Callers, DestroyWaits, vars, unitVars,
        taskVars, pollVars, waitVars, Goto
<1>3. StopsInv'
  BY DEF TInv, StopsInv, StopIsHonest, TTypeOK, Callers, DestroyWaits, vars,
        unitVars, taskVars, pollVars, waitVars, Goto
<1>4. ForceInv'
  BY DEF TInv, ForceInv, Forced, TTypeOK, HasExited, Callers, DestroyWaits,
        vars, unitVars, taskVars, pollVars, waitVars, Goto
<1> QED
  BY <1>1, <1>2, <1>3, <1>4 DEF TInv

(* The task leaves the store.                                              *)
LEMMA DestroyDeletesTInv ==
    ASSUME HInv, TInv, NEW c \in Destroyers, DestroyDeletes(c)
    PROVE  TInv'
<1>1. TTypeOK'
  BY DEF TInv, TTypeOK, Callers, DestroyDeletes, unitVars, taskVars, pollVars,
        waitVars, Goto
<1>2. ProgressInv'
  BY DEF TInv, ProgressInv, TTypeOK, Callers, DestroyDeletes, unitVars,
        taskVars, pollVars, waitVars, Goto
<1>3. StopsInv'
  BY DEF TInv, StopsInv, StopIsHonest, TTypeOK, Callers, DestroyDeletes,
        unitVars, taskVars, pollVars, waitVars, Goto
<1>4. ForceInv'
  BY DEF TInv, ForceInv, Forced, TTypeOK, HasExited, Callers, DestroyDeletes,
        unitVars, taskVars, pollVars, waitVars, Goto
<1> QED
  BY <1>1, <1>2, <1>3, <1>4 DEF TInv
(* Before a Handler is built no call is made.                              *)
LEMMA InitTInv == TInit => TInv
  BY DEF TInit, Init, TInv, TTypeOK, ProgressInv, StopsInv, StopIsHonest,
        ForceInv, Callers

(* Every step preserves TInv.                                              *)
LEMMA NextTInv == HInv /\ TInv /\ [TNext]_tvars => TInv'
<1> SUFFICES ASSUME HInv, TInv, [TNext]_tvars PROVE TInv'
  OBVIOUS
<1>1. CASE HandlerStep
  BY <1>1, HandlerStepTInv
<1>2. CASE \E c \in Stoppers : StopTask(c)
  BY <1>2, StopTaskTInv
<1>3. CASE \E c \in Callers : StopJobStep(c)
  BY <1>3, StopJobEnqueuedTInv, StopJobDoneTInv, StopJobFailsTInv DEF StopJobStep
<1>4. CASE \E c \in Callers : EscalationStep(c)
  BY <1>4, SelectDownTInv, SelectStopFailedTInv, SelectTimeoutTInv,
        KillDeliveredTInv, KillFailsTInv, VerifyDownTInv, VerifyFailsTInv
     DEF EscalationStep
<1>5. CASE \E d \in Destroyers : DestroyTask(d) \/ DestroyStep(d)
  BY <1>5, DestroyTaskTInv, DestroyRejectedTInv, DestroyAcceptedTInv,
        DestroyCancelsTInv, DestroyWaitsTInv, DestroyDeletesTInv DEF DestroyStep
<1>6. CASE UNCHANGED tvars
  BY <1>6 DEF TInv, TTypeOK, ProgressInv, StopsInv, StopIsHonest, ForceInv,
        Forced, HasExited, Callers, tvars, callVars, vars, unitVars, taskVars,
        pollVars
<1> QED
  BY <1>1, <1>2, <1>3, <1>4, <1>5, <1>6 DEF TNext

-----------------------------------------------------------------------------
(* A step of a call is a step of the Handler, or does not concern it: a    *)
(* wake, Handler.Stop's cancellation, and a deletion that comes only after *)
(* the poller has ended.                                                   *)
LEMMA CallsMoveHandler ==
    ASSUME HInv, TInv, NEW c \in Callers,
           \/ c \in Stoppers /\ StopTask(c)
           \/ StopJobStep(c)
           \/ EscalationStep(c)
           \/ c \in Destroyers /\ (DestroyTask(c) \/ DestroyStep(c))
    PROVE  [Next]_vars
<1>1. CASE StopJobDone(c) \/ StopJobFails(c) \/ KillDelivered(c) \/ KillFails(c)
  <2>1. CASE setup = "stored"
    <3>1. Wake
      BY <1>1, <2>1 DEF StopJobDone, StopJobFails, KillDelivered, KillFails, Wake
    <3> QED
      BY <3>1 DEF Next
  <2>2. CASE setup # "stored"
    <3>1. wake \in BOOLEAN
      BY DEF HInv, TypeOK
    <3>2. wake' = wake
      BY <1>1, <2>2, <3>1 DEF StopJobDone, StopJobFails, KillDelivered, KillFails
    <3> QED
      BY <1>1, <3>2 DEF StopJobDone, StopJobFails, KillDelivered, KillFails, vars
  <2> QED
    BY <2>1, <2>2
<1>2. CASE c \in Destroyers /\ DestroyCancels(c)
  <2>1. setup = "stored" \/ cancelled
    BY <1>2 DEF DestroyCancels, TInv, ProgressInv
  <2>2. CASE setup = "stored"
    BY <1>2, <2>2 DEF DestroyCancels, Cancel, Next
  <2>3. CASE cancelled = TRUE
    BY <1>2, <2>3 DEF DestroyCancels, vars
  <2> QED
    BY <2>1, <2>2, <2>3
<1>3. CASE c \in Destroyers /\ DestroyDeletes(c)
  <2>1. /\ setup \in {"stored", "deleted"} /\ cancelled /\ poller = "done"
    BY <1>3 DEF DestroyDeletes, TInv, ProgressInv
  <2>2. CASE setup = "stored"
    BY <1>3, <2>1, <2>2 DEF DestroyDeletes, Delete, Next
  <2>3. CASE setup = "deleted"
    BY <1>3, <2>3 DEF DestroyDeletes, vars
  <2> QED
    BY <2>1, <2>2, <2>3
<1>4. CASE \/ c \in Stoppers /\ StopTask(c)
           \/ StopJobEnqueued(c)
           \/ SelectDown(c) \/ SelectStopFailed(c) \/ SelectTimeout(c)
           \/ VerifyDown(c) \/ VerifyFails(c)
           \/ DestroyTask(c) \/ DestroyRejected(c) \/ DestroyAccepted(c)
           \/ DestroyWaits(c)
  BY <1>4 DEF StopTask, StopJobEnqueued, SelectDown, SelectStopFailed,
        SelectTimeout, VerifyDown, VerifyFails, DestroyTask, DestroyRejected,
        DestroyAccepted, DestroyWaits
<1> QED
  BY <1>1, <1>2, <1>3, <1>4 DEF StopJobStep, EscalationStep, DestroyStep

(* Every step of the teardown is one the Handler allows.                   *)
LEMMA NextRespects == HInv /\ TInv /\ [TNext]_tvars => [Next]_vars
<1> SUFFICES ASSUME HInv, TInv, [TNext]_tvars PROVE [Next]_vars
  OBVIOUS
<1>1. CASE HandlerStep
  BY <1>1 DEF HandlerStep, Next
<1>2. CASE \E c \in Stoppers : StopTask(c)
  BY <1>2, CallsMoveHandler DEF Callers
<1>3. CASE \E c \in Callers : StopJobStep(c) \/ EscalationStep(c)
  BY <1>3, CallsMoveHandler
<1>4. CASE \E d \in Destroyers : DestroyTask(d) \/ DestroyStep(d)
  BY <1>4, CallsMoveHandler DEF Callers
<1>5. CASE UNCHANGED tvars
  BY <1>5 DEF tvars
<1> QED
  BY <1>1, <1>2, <1>3, <1>4, <1>5 DEF TNext

(* HInv and TInv hold together: each keeps the other going.                *)
THEOREM TeardownInvariant == TSpec => [](HInv /\ TInv)
<1>1. TInit => HInv /\ TInv
  BY InitHInv, InitTInv DEF TInit
<1>2. HInv /\ TInv /\ [TNext]_tvars => (HInv /\ TInv)'
  BY NextHInv, NextTInv, NextRespects
<1> QED
  BY <1>1, <1>2, PTL DEF TSpec

(* Every variable of the calls keeps its type, however they interleave.    *)
THEOREM TeardownTypeCorrect == TSpec => []TTypeOK
<1>1. TInv => TTypeOK
  BY DEF TInv
<1> QED
  BY <1>1, TeardownInvariant, PTL

(* A StopTask that succeeds has seen the unit stop, or killed it           *)
(* (StopTask, forceKillTask).                                              *)
THEOREM Honest == TSpec => []StopIsHonest
<1>1. TInv => StopIsHonest
  BY DEF TInv, StopsInv
<1> QED
  BY <1>1, TeardownInvariant, PTL

(* Only a forced DestroyTask that set out to stop the unit tears down a    *)
(* task that has not exited (DestroyTask's guard).                         *)
THEOREM NotAbandoned == TSpec => []NeverAbandoned
<1>1. TInv => NeverAbandoned
  BY DEF TInv, ForceInv, Forced, NeverAbandoned
<1> QED
  BY <1>1, TeardownInvariant, PTL

(* Stopping and destroying a task implements its Handler's specification:  *)
(* in particular, a task is deleted only once its poller has ended.        *)
THEOREM HandlerRespected == TSpec => RespectsHandler
<1>1. TInit => Init
  BY DEF TInit
<1> QED
  BY <1>1, NextRespects, TeardownInvariant, PTL DEF TSpec, RespectsHandler, Spec

(* So what Nomad is promised of one task holds while it is being stopped   *)
(* and destroyed by any number of calls.                                   *)
THEOREM ContractRespected == TSpec => KeepsContract
  BY HandlerRespected, ImplementsContract DEF RespectsHandler

(* An exit that a task was seen with is final while calls stop and destroy *)
(* it, kill its unit, and start the next job on it (handleStateChange).    *)
THEOREM FinalExitInTeardown == TSpec => ExitIsFinal
  BY HandlerRespected, FinalExit DEF RespectsHandler

(* Every WaitTask call that is answered is sent the task's own exit        *)
(* result, whoever else stops or destroys the task meanwhile (WaitTask).   *)
THEOREM AnsweredInTeardown == TSpec => []AnswersAreTheExit
  BY HandlerRespected, AnsweredWithTheExit DEF RespectsHandler

(* Once a DestroyTask call has deleted the task, nothing of its Handler    *)
(* moves any more - although other DestroyTask calls on it, their StopUnit *)
(* goroutines and a late wake may still be under way (DestroyTask,         *)
(* Handler.Stop).                                                          *)
THEOREM QuietInTeardown == TSpec => DeletedIsQuiet
  BY HandlerRespected, QuietOnceDeleted DEF RespectsHandler
=============================================================================
