------------------------- MODULE TaskHandlerProofs --------------------------
(***************************************************************************)
(* Proofs about TaskHandler, for any WaitTask calls, any set of states a   *)
(* unit moves through, any ways for its process to end, and any number of  *)
(* restarts of the unit.  HInv, stated in TaskHandler, is inductive: one   *)
(* lemma per action shows that the action preserves each of its parts.     *)
(* What a visible task reports, and that the Handler implements            *)
(* TaskContract, follow from it; so do, step by step, that an exit is      *)
(* final, published once and what every WaitTask call is told, and that a  *)
(* deleted Handler is at rest.                                             *)
(***************************************************************************)
EXTENDS TaskHandler, TLAPS

USE NoResultAssumption, StatesAssumption, StatusesAssumption, MaxStartsAssumption

(* A process that systemd never saw end has no result of its own.          *)
LEMMA NotExitedHasNoResult == ExitResultFromStatus(NotExited) = NoResult
  BY DEF ExitResultFromStatus, NotExited, CLDExited, CLDKilled, CLDDumped

(* Whatever is read of a unit, it is reported with a real exit result      *)
(* (buildExitResult, ExitResultFromStatus).                                *)
LEMMA ResultsTyped ==
    ASSUME NEW s, NEW st \in Statuses \cup {NotExited}
    PROVE  /\ FallbackResult(s) \in ExitResult
           /\ ExitResultFromStatus(st) \in ExitResult \cup {NoResult}
           /\ BuildExitResult(s, st) \in ExitResult
<1>1. FallbackResult(s) \in ExitResult
  BY DEF FallbackResult, ExitResult
<1>2. st \in ExitStatus
  BY DEF ExitStatus, NotExited
<1>3. ExitResultFromStatus(st) \in ExitResult \cup {NoResult}
  BY <1>2 DEF ExitResultFromStatus, ExitResult, ExitStatus
<1> QED
  BY <1>1, <1>3 DEF BuildExitResult

(* A result built from a state and a status that both justify one, or from *)
(* the state alone because the status could not be read, is justified.     *)
LEMMA BuiltIsJustified ==
    ASSUME HInv, NEW s, FallbackResult(s) \in stops,
           NEW st \in {main, NotExited}
    PROVE  BuildExitResult(s, st) \in stops
<1>1. ExitResultFromStatus(st) \in stops \cup {NoResult}
  BY NotExitedHasNoResult DEF HInv, UnitInv
<1> QED
  BY <1>1 DEF BuildExitResult

(* Only an inactive or failed unit's task has exited.                      *)
LEMMA TaskStateTyped ==
    ASSUME NEW s
    PROVE  /\ ToTaskState(s) \in TaskState
           /\ ToTaskState(s) = "Exited" <=> IsTerminal(s)
  BY DEF ToTaskState, TaskState, IsTerminal

(* Another stop of the unit justifies its own result as well, and takes    *)
(* none away.                                                              *)
LEMMA UnitStepInv ==
    ASSUME HInv, UnitStep
    PROVE  HInv'
<1>1. stops \subseteq stops' /\ main' \in Statuses \cup {NotExited}
  BY DEF HInv, TypeOK, UnitStep
<1>2. stops' \subseteq ExitResult
  BY <1>1, ResultsTyped DEF HInv, TypeOK, UnitStep, Justified
<1>3. TypeOK'
  BY <1>1, <1>2 DEF HInv, TypeOK, UnitState, ExitStatus, UnitStep, taskVars,
        pollVars, waitVars
<1>4. UnitInv'
  BY <1>1, <1>2, NotExitedHasNoResult DEF HInv, UnitInv, Justified,
        BuildExitResult, UnitStep, taskVars, pollVars, waitVars
<1>5. SetupInv'
  BY <1>1 DEF HInv, SetupInv, UnitStep, taskVars, pollVars, waitVars
<1>6. PollInv'
  BY <1>1 DEF HInv, PollInv, UnitStep, taskVars, pollVars, waitVars
<1>7. ExitInv'
  BY <1>1 DEF HInv, ExitInv, UnitStep, taskVars, pollVars, waitVars
<1>8. WaitInv'
  BY DEF HInv, WaitInv, UnitStep, taskVars, pollVars, waitVars
<1> QED
  BY <1>3, <1>4, <1>5, <1>6, <1>7, <1>8 DEF HInv

(* A wake tells nothing.                                                   *)
LEMMA WakeInv ==
    ASSUME HInv, Wake
    PROVE  HInv'
  BY DEF HInv, TypeOK, UnitInv, SetupInv, PollInv, ExitInv, WaitInv, Wake,
        unitVars, taskVars, pollVars, waitVars

(* A unit that StartTask has just started has stopped only if it is not    *)
(* up any more.                                                            *)
LEMMA StartTaskUpInv ==
    ASSUME HInv, StartTaskUp
    PROVE  HInv'
<1>1. stops' \subseteq ExitResult
  BY ResultsTyped DEF HInv, TypeOK, StartTaskUp, Justified
<1>2. TypeOK'
  BY <1>1 DEF HInv, TypeOK, Setup, StartTaskUp, taskVars, pollVars, waitVars
<1>3. UnitInv'
  BY <1>1, NotExitedHasNoResult DEF HInv, UnitInv, Justified, BuildExitResult,
        IsTerminal, StartTaskUp, taskVars, pollVars, waitVars
<1>4. PollInv'
  BY DEF HInv, PollInv, SetupInv, StartTaskUp, taskVars, pollVars, waitVars
<1>5. SetupInv' /\ ExitInv' /\ WaitInv'
  BY DEF HInv, SetupInv, ExitInv, WaitInv, StartTaskUp, taskVars, pollVars,
        waitVars
<1> QED
  BY <1>2, <1>3, <1>4, <1>5 DEF HInv

(* A task that StartTask makes known is running.                           *)
LEMMA StartTaskBuildInv ==
    ASSUME HInv, StartTaskBuild
    PROVE  HInv'
<1>1. TypeOK'
  BY DEF HInv, TypeOK, Setup, TaskState, StartTaskBuild, unitVars, pollVars,
        waitVars
<1>2. PollInv'
  BY DEF HInv, PollInv, SetupInv, StartTaskBuild, unitVars, pollVars, waitVars
<1>3. ExitInv'
  BY DEF HInv, ExitInv, SetupInv, StartTaskBuild, unitVars, pollVars, waitVars
<1>4. UnitInv' /\ SetupInv' /\ WaitInv'
  BY DEF HInv, UnitInv, SetupInv, WaitInv, StartTaskBuild, unitVars, pollVars,
        waitVars
<1> QED
  BY <1>1, <1>2, <1>3, <1>4 DEF HInv

(* What RecoverTask reads of a unit that is down justifies the result it   *)
(* is about to build.                                                      *)
LEMMA RecoverReadInv ==
    ASSUME HInv, RecoverRead
    PROVE  HInv'
<1>1. stops' \subseteq ExitResult
  BY ResultsTyped DEF HInv, TypeOK, RecoverRead, Justified
<1>2. TypeOK'
  BY <1>1 DEF HInv, TypeOK, Setup, UnitState, RecoverRead, taskVars, pollVars,
        waitVars
<1>3. UnitInv'
  BY <1>1, NotExitedHasNoResult DEF HInv, UnitInv, Justified, BuildExitResult,
        IsTerminal, RecoverRead, taskVars, pollVars, waitVars
<1>4. SetupInv'
  BY <1>1 DEF HInv, SetupInv, Justified, RecoverRead, taskVars, pollVars,
        waitVars
<1>5. PollInv'
  BY <1>1 DEF HInv, PollInv, SetupInv, RecoverRead, taskVars, pollVars,
        waitVars
<1>6. ExitInv' /\ WaitInv'
  BY DEF HInv, ExitInv, WaitInv, RecoverRead, taskVars, pollVars, waitVars
<1> QED
  BY <1>2, <1>3, <1>4, <1>5, <1>6 DEF HInv

(* NewHandler closes the waitCh of a task that has exited.                 *)
LEMMA RecoverBuildInv ==
    ASSUME HInv, RecoverBuild
    PROVE  HInv'
<1>1. TypeOK'
  BY TaskStateTyped DEF HInv, TypeOK, Setup, TaskState, RecoverBuild, unitVars,
        pollVars, waitVars
<1>2. SetupInv'
  BY TaskStateTyped DEF HInv, SetupInv, TypeOK, RecoverBuild, unitVars,
        pollVars, waitVars
<1>3. PollInv'
  BY TaskStateTyped DEF HInv, PollInv, SetupInv, RecoverBuild, unitVars,
        pollVars, waitVars
<1>4. ExitInv'
  BY TaskStateTyped DEF HInv, ExitInv, SetupInv, RecoverBuild, unitVars,
        pollVars, waitVars
<1>5. UnitInv' /\ WaitInv'
  BY DEF HInv, UnitInv, WaitInv, RecoverBuild, unitVars, pollVars, waitVars
<1> QED
  BY <1>1, <1>2, <1>3, <1>4, <1>5 DEF HInv

(* SetExitResult completes a recovered task that has exited with a result  *)
(* its stop justifies.                                                     *)
LEMMA RecoverSetExitResultInv ==
    ASSUME HInv, RecoverSetExitResult
    PROVE  HInv'
<1>1. exitResult' \in stops /\ exitResult' \in ExitResult
  BY BuiltIsJustified DEF HInv, TypeOK, SetupInv, RecoverSetExitResult
<1>2. TypeOK'
  BY <1>1 DEF HInv, TypeOK, Setup, RecoverSetExitResult, unitVars, pollVars,
        waitVars
<1>3. PollInv'
  BY DEF HInv, PollInv, SetupInv, RecoverSetExitResult, unitVars, pollVars,
        waitVars
<1>4. ExitInv'
  BY <1>1 DEF HInv, ExitInv, SetupInv, RecoverSetExitResult, unitVars,
        pollVars, waitVars
<1>5. UnitInv' /\ SetupInv' /\ WaitInv'
  BY DEF HInv, UnitInv, SetupInv, WaitInv, RecoverSetExitResult, unitVars,
        pollVars, waitVars
<1> QED
  BY <1>2, <1>3, <1>4, <1>5 DEF HInv

(* The poller starts.                                                      *)
LEMMA StartInv ==
    ASSUME HInv, Start
    PROVE  HInv'
<1>1. TypeOK'
  BY DEF HInv, TypeOK, Setup, Poller, Start, unitVars, taskVars, waitVars
<1>2. UnitInv' /\ SetupInv' /\ PollInv' /\ ExitInv' /\ WaitInv'
  BY DEF HInv, UnitInv, SetupInv, PollInv, ExitInv, WaitInv, Start, unitVars,
        taskVars, waitVars
<1> QED
  BY <1>1, <1>2 DEF HInv

(* The task becomes known.                                                 *)
LEMMA StoreInv ==
    ASSUME HInv, Store
    PROVE  HInv'
<1>1. TypeOK'
  BY DEF HInv, TypeOK, Setup, Store, unitVars, taskVars, pollVars, waitVars
<1>2. UnitInv' /\ SetupInv' /\ PollInv' /\ ExitInv' /\ WaitInv'
  BY DEF HInv, UnitInv, SetupInv, PollInv, ExitInv, WaitInv, Store, unitVars,
        taskVars, pollVars, waitVars
<1> QED
  BY <1>1, <1>2 DEF HInv

(* The poller of an exited task ends.                                      *)
LEMMA PollExitedInv ==
    ASSUME HInv, PollExited
    PROVE  HInv'
<1>1. TypeOK'
  BY DEF HInv, TypeOK, Poller, PollExited, unitVars, taskVars, waitVars
<1>2. UnitInv' /\ SetupInv' /\ PollInv' /\ ExitInv' /\ WaitInv'
  BY DEF HInv, UnitInv, SetupInv, PollInv, ExitInv, WaitInv, PollExited,
        unitVars, taskVars, waitVars
<1> QED
  BY <1>1, <1>2 DEF HInv

(* A unit that the poller reads as down has stopped under management.      *)
LEMMA PollReadInv ==
    ASSUME HInv, PollRead
    PROVE  HInv'
<1>1. TypeOK'
  BY DEF HInv, TypeOK, Poller, PollRead, unitVars, taskVars, waitVars
<1>2. PollInv'
  BY DEF HInv, PollInv, UnitInv, SetupInv, PollRead, unitVars, taskVars,
        waitVars
<1>3. UnitInv' /\ SetupInv' /\ ExitInv' /\ WaitInv'
  BY DEF HInv, UnitInv, SetupInv, ExitInv, WaitInv, PollRead, unitVars,
        taskVars, waitVars
<1> QED
  BY <1>1, <1>2, <1>3 DEF HInv

(* The poller could not read the unit.                                     *)
LEMMA PollReadFailsInv ==
    ASSUME HInv, PollReadFails
    PROVE  HInv'
<1>1. TypeOK'
  BY DEF HInv, TypeOK, Poller, PollReadFails, unitVars, taskVars, waitVars
<1>2. UnitInv' /\ SetupInv' /\ PollInv' /\ ExitInv' /\ WaitInv'
  BY DEF HInv, UnitInv, SetupInv, PollInv, ExitInv, WaitInv, PollReadFails,
        unitVars, taskVars, waitVars
<1> QED
  BY <1>1, <1>2 DEF HInv

(* An exit is noticed, or another state recorded.                          *)
LEMMA PollHandleInv ==
    ASSUME HInv, PollHandle
    PROVE  HInv'
<1>1. TypeOK'
  BY TaskStateTyped DEF HInv, TypeOK, Poller, PollHandle, unitVars, waitVars
<1>2. SetupInv'
  BY DEF HInv, SetupInv, PollHandle, unitVars, waitVars
<1>3. PollInv'
  BY TaskStateTyped DEF HInv, PollInv, PollHandle, unitVars, waitVars
<1>4. ExitInv'
  BY TaskStateTyped DEF HInv, ExitInv, PollInv, PollHandle, unitVars, waitVars
<1>5. UnitInv' /\ WaitInv'
  BY DEF HInv, UnitInv, WaitInv, PollHandle, unitVars, waitVars
<1> QED
  BY <1>1, <1>2, <1>3, <1>4, <1>5 DEF HInv

(* The result is resolved: whatever became of the unit since it was read,  *)
(* the result is one of its stops'.                                        *)
LEMMA PollResolveInv ==
    ASSUME HInv, PollResolve
    PROVE  HInv'
<1>1. pending' \in stops /\ pending' \in ExitResult
  BY BuiltIsJustified DEF HInv, TypeOK, PollInv, PollResolve
<1>2. TypeOK'
  BY <1>1 DEF HInv, TypeOK, Poller, PollResolve, unitVars, taskVars, waitVars
<1>3. PollInv'
  BY <1>1 DEF HInv, PollInv, PollResolve, unitVars, taskVars, waitVars
<1>4. UnitInv' /\ SetupInv' /\ ExitInv' /\ WaitInv'
  BY DEF HInv, UnitInv, SetupInv, ExitInv, WaitInv, PollResolve, unitVars,
        taskVars, waitVars
<1> QED
  BY <1>2, <1>3, <1>4 DEF HInv

(* State, result and waitCh are published together; no WaitTask call was   *)
(* answered before.                                                        *)
LEMMA PollPublishInv ==
    ASSUME HInv, PollPublish
    PROVE  HInv'
<1>1. TypeOK'
  BY DEF HInv, TypeOK, Poller, TaskState, PollPublish, unitVars, waitVars
<1>2. SetupInv'
  BY DEF HInv, SetupInv, PollPublish, unitVars, waitVars
<1>3. ExitInv'
  BY DEF HInv, ExitInv, SetupInv, PollInv, PollPublish, unitVars, waitVars
<1>4. WaitInv'
  BY DEF HInv, WaitInv, SetupInv, PollInv, ExitInv, PollPublish, unitVars,
        waitVars
<1>5. UnitInv' /\ PollInv'
  BY DEF HInv, UnitInv, PollInv, PollPublish, unitVars, waitVars
<1> QED
  BY <1>1, <1>2, <1>3, <1>4, <1>5 DEF HInv

(* The poller is stopped.                                                  *)
LEMMA PollStoppedInv ==
    ASSUME HInv, PollStopped
    PROVE  HInv'
<1>1. TypeOK'
  BY DEF HInv, TypeOK, Poller, PollStopped, unitVars, taskVars, waitVars
<1>2. UnitInv' /\ SetupInv' /\ PollInv' /\ ExitInv' /\ WaitInv'
  BY DEF HInv, UnitInv, SetupInv, PollInv, ExitInv, WaitInv, PollStopped,
        unitVars, taskVars, waitVars
<1> QED
  BY <1>1, <1>2 DEF HInv

(* The poller is woken.                                                    *)
LEMMA PollWokenInv ==
    ASSUME HInv, PollWoken
    PROVE  HInv'
<1>1. TypeOK'
  BY DEF HInv, TypeOK, Poller, PollWoken, unitVars, taskVars, waitVars
<1>2. UnitInv' /\ SetupInv' /\ PollInv' /\ ExitInv' /\ WaitInv'
  BY DEF HInv, UnitInv, SetupInv, PollInv, ExitInv, WaitInv, PollWoken,
        unitVars, taskVars, waitVars
<1> QED
  BY <1>1, <1>2 DEF HInv

(* The safety-net ticker fires.                                            *)
LEMMA PollTickInv ==
    ASSUME HInv, PollTick
    PROVE  HInv'
<1>1. TypeOK'
  BY DEF HInv, TypeOK, Poller, PollTick, unitVars, taskVars, waitVars
<1>2. UnitInv' /\ SetupInv' /\ PollInv' /\ ExitInv' /\ WaitInv'
  BY DEF HInv, UnitInv, SetupInv, PollInv, ExitInv, WaitInv, PollTick,
        unitVars, taskVars, waitVars
<1> QED
  BY <1>1, <1>2 DEF HInv

(* A WaitTask call begins to wait for a known task.                        *)
LEMMA WaitTaskInv ==
    ASSUME HInv, NEW w \in Waiters, WaitTask(w)
    PROVE  HInv'
  BY DEF HInv, TypeOK, UnitInv, SetupInv, PollInv, ExitInv, WaitInv, WaitTask,
        unitVars, taskVars, pollVars

(* A WaitTask call finds waitCh closed.                                    *)
LEMMA WaitClosedInv ==
    ASSUME HInv, NEW w \in Waiters, WaitClosed(w)
    PROVE  HInv'
  BY DEF HInv, TypeOK, UnitInv, SetupInv, PollInv, ExitInv, WaitInv,
        WaitClosed, unitVars, taskVars, pollVars

(* A WaitTask call is sent the exit result: there is one.                  *)
LEMMA WaitAnswerInv ==
    ASSUME HInv, NEW w \in Waiters, WaitAnswer(w)
    PROVE  HInv'
<1>1. exitResult \in ExitResult
  BY DEF HInv, TypeOK, WaitInv, ExitInv, WaitAnswer
<1>2. TypeOK'
  BY <1>1 DEF HInv, TypeOK, WaitAnswer, unitVars, taskVars, pollVars
<1>3. WaitInv'
  BY <1>1 DEF HInv, WaitInv, TypeOK, WaitAnswer, unitVars, taskVars, pollVars
<1>4. UnitInv' /\ SetupInv' /\ PollInv' /\ ExitInv'
  BY DEF HInv, UnitInv, SetupInv, PollInv, ExitInv, WaitAnswer, unitVars,
        taskVars, pollVars
<1> QED
  BY <1>2, <1>3, <1>4 DEF HInv

(* A WaitTask call is given up.                                            *)
LEMMA WaitGivesUpInv ==
    ASSUME HInv, NEW w \in Waiters, WaitGivesUp(w)
    PROVE  HInv'
  BY DEF HInv, TypeOK, UnitInv, SetupInv, PollInv, ExitInv, WaitInv,
        WaitGivesUp, unitVars, taskVars, pollVars

(* Handler.Stop cancels the poller.                                        *)
LEMMA CancelInv ==
    ASSUME HInv, Cancel
    PROVE  HInv'
  BY DEF HInv, TypeOK, UnitInv, SetupInv, PollInv, ExitInv, WaitInv, Cancel,
        unitVars, taskVars, pollVars, waitVars

(* The task leaves the store.                                              *)
LEMMA DeleteInv ==
    ASSUME HInv, Delete
    PROVE  HInv'
<1>1. TypeOK'
  BY DEF HInv, TypeOK, Setup, Delete, unitVars, taskVars, pollVars, waitVars
<1>2. UnitInv' /\ SetupInv' /\ PollInv' /\ ExitInv' /\ WaitInv'
  BY DEF HInv, UnitInv, SetupInv, PollInv, ExitInv, WaitInv, Delete, unitVars,
        taskVars, pollVars, waitVars
<1> QED
  BY <1>1, <1>2 DEF HInv
(* Before a Handler is built nothing is published.                         *)
LEMMA InitHInv == Init => HInv
<1> SUFFICES ASSUME Init PROVE HInv
  OBVIOUS
<1>1. unit \in UnitState /\ main \in Statuses \cup {NotExited} /\ seen \in UnitState
  BY DEF Init, UnitState
<1>2. TypeOK
  <2>1. starts \in 0 .. MaxStarts
    BY DEF Init
  <2>2. /\ waiter \in [Waiters -> {"idle", "waiting", "woken", "answered", "closed"}]
        /\ answer \in [Waiters -> ExitResult \cup {NoResult}]
    BY DEF Init
  <2> QED
    BY <1>1, <2>1, <2>2 DEF Init, TypeOK, Setup, TaskState, Poller
<1>3. UnitInv /\ SetupInv /\ PollInv /\ ExitInv /\ WaitInv
  BY DEF Init, UnitInv, SetupInv, PollInv, ExitInv, WaitInv
<1> QED
  BY <1>2, <1>3 DEF HInv

(* Every step preserves HInv.                                              *)
LEMMA NextHInv == HInv /\ [Next]_vars => HInv'
<1> SUFFICES ASSUME HInv, [Next]_vars PROVE HInv'
  OBVIOUS
<1>1. CASE UnitStep
  BY <1>1, UnitStepInv
<1>2. CASE Wake
  BY <1>2, WakeInv
<1>3. CASE SetupStep
  BY <1>3, StartTaskUpInv, StartTaskBuildInv, RecoverReadInv, RecoverBuildInv,
        RecoverSetExitResultInv, StartInv, StoreInv DEF SetupStep
<1>4. CASE PollStep
  BY <1>4, PollExitedInv, PollReadInv, PollReadFailsInv, PollHandleInv,
        PollResolveInv, PollPublishInv, PollStoppedInv, PollWokenInv,
        PollTickInv DEF PollStep
<1>5. CASE WaitStep
  BY <1>5, WaitTaskInv, WaitClosedInv, WaitAnswerInv, WaitGivesUpInv DEF WaitStep
<1>6. CASE Cancel
  BY <1>6, CancelInv
<1>7. CASE Delete
  BY <1>7, DeleteInv
<1>8. CASE UNCHANGED vars
  BY <1>8 DEF HInv, TypeOK, UnitInv, SetupInv, PollInv, ExitInv, WaitInv, vars,
        unitVars, taskVars, pollVars, waitVars
<1> QED
  BY <1>1, <1>2, <1>3, <1>4, <1>5, <1>6, <1>7, <1>8 DEF Next

(* HInv is an invariant of every Handler.                                  *)
THEOREM HandlerInvariant == Spec => []HInv
  BY InitHInv, NextHInv, PTL DEF Spec

(* Every variable of a Handler keeps its type, whatever the unit does and  *)
(* whichever reads of it fail.                                             *)
THEOREM TypeCorrect == Spec => []TypeOK
<1>1. HInv => TypeOK
  BY DEF HInv
<1> QED
  BY <1>1, HandlerInvariant, PTL

(* A task that is visible reports its exit exactly when its waitCh is      *)
(* closed, and with a result a stop of its unit justifies                  *)
(* (handleStateChange, RecoverTask).                                       *)
THEOREM Truthful == Spec => []ExitIsTruthful
<1>1. HInv => ExitIsTruthful
  BY DEF HInv, ExitInv, ExitIsTruthful, Visible
<1> QED
  BY <1>1, HandlerInvariant, PTL

-----------------------------------------------------------------------------
(* The task's status and result as TaskContract knows them.                *)
Known == setup \in {"stored", "deleted"}

Status == IF Known THEN state ELSE "none"
Result == IF Known THEN exitResult ELSE NoResult

(* The three variables of TaskContract are a function of these.            *)
LEMMA StutterOrStep ==
    ASSUME UNCHANGED <<Status, Result, answer>>
    PROVE  [Contract!CNext]_(Contract!cvars)
  BY DEF Status, Result, Known, Contract!cvars

(* A task appears in a state the contract lets it appear in.               *)
LEMMA StoreAppears ==
    ASSUME HInv, Store
    PROVE  Contract!Appear
  BY DEF HInv, TypeOK, TaskState, SetupInv, ExitInv, Store, Contract!Appear,
        taskVars, waitVars

(* A state the poller records for a visible task is none it can exit by.   *)
LEMMA HandleFluctuates ==
    ASSUME HInv, PollHandle
    PROVE  [Contract!CNext]_(Contract!cvars)
<1>1. CASE ~Known \/ ToTaskState(seen) = "Exited"
  <2>1. UNCHANGED <<Status, Result, answer>>
    BY <1>1 DEF PollHandle, Status, Result, Known, waitVars
  <2> QED
    BY <2>1, StutterOrStep
<1>2. CASE Known /\ ToTaskState(seen) # "Exited"
  <2>1. state \in {"Running", "Unknown"} /\ state' \in {"Running", "Unknown"}
    BY <1>2, TaskStateTyped DEF HInv, TypeOK, PollInv, TaskState, PollHandle
  <2>2. Contract!Fluctuate
    BY <1>2, <2>1 DEF PollHandle, Contract!Fluctuate, Known, waitVars
  <2> QED
    BY <2>2 DEF Contract!CNext
<1> QED
  BY <1>1, <1>2

(* The poller publishes the exit of a visible task once, with a result.    *)
LEMMA PublishExits ==
    ASSUME HInv, PollPublish
    PROVE  [Contract!CNext]_(Contract!cvars)
<1>1. CASE ~Known
  <2>1. UNCHANGED <<Status, Result, answer>>
    BY <1>1 DEF PollPublish, Status, Result, Known, waitVars
  <2> QED
    BY <2>1, StutterOrStep
<1>2. CASE Known
  <2>1. state \in {"Running", "Unknown"} /\ pending \in ExitResult
    BY DEF HInv, TypeOK, PollInv, TaskState, PollPublish
  <2>2. Contract!Exit
    BY <1>2, <2>1 DEF PollPublish, Contract!Exit, Known, waitVars
  <2> QED
    BY <2>2 DEF Contract!CNext
<1> QED
  BY <1>1, <1>2

(* A WaitTask call is answered with the result of a task that has exited.  *)
LEMMA WaitAnswers ==
    ASSUME HInv, NEW w \in Waiters, WaitAnswer(w)
    PROVE  Contract!Answer(w)
<1>1. /\ Known /\ state = "Exited" /\ exitResult # NoResult /\ answer[w] = NoResult
  BY DEF HInv, TypeOK, WaitInv, ExitInv, WaitAnswer, Known
<1> QED
  BY <1>1 DEF WaitAnswer, Contract!Answer, Known, taskVars

(* The Handler implements TaskContract: an exit is published once, with    *)
(* its result, never revoked, and is what every WaitTask call is sent.     *)
THEOREM ImplementsContract == Spec => KeepsContract
<1>1. Init => Contract!CInit
  BY DEF Init, Contract!CInit
<1>2. HInv /\ [Next]_vars => [Contract!CNext]_(Contract!cvars)
  <2> SUFFICES ASSUME HInv, [Next]_vars
               PROVE  [Contract!CNext]_(Contract!cvars)
    OBVIOUS
  <2>1. CASE Store
    BY <2>1, StoreAppears DEF Contract!CNext
  <2>2. CASE PollHandle
    BY <2>2, HandleFluctuates
  <2>3. CASE PollPublish
    BY <2>3, PublishExits
  <2>4. CASE \E w \in Waiters : WaitAnswer(w)
    BY <2>4, WaitAnswers DEF Contract!CNext
  <2>5. CASE UnitStep \/ Wake \/ Cancel \/ Delete \/ UNCHANGED vars
    <3>1. UNCHANGED <<Status, Result, answer>>
      BY <2>5 DEF UnitStep, Wake, Cancel, Delete, Status, Result, Known, vars,
            taskVars, waitVars
    <3> QED
      BY <3>1, StutterOrStep
  <2>6. CASE SetupStep /\ ~Store
    <3>1. UNCHANGED <<Status, Result, answer>>
      BY <2>6 DEF SetupStep, StartTaskUp, StartTaskBuild, RecoverRead,
            RecoverBuild, RecoverSetExitResult, Start, Status, Result, Known,
            taskVars, waitVars
    <3> QED
      BY <3>1, StutterOrStep
  <2>7. CASE PollStep /\ ~PollHandle /\ ~PollPublish
    <3>1. UNCHANGED <<Status, Result, answer>>
      BY <2>7 DEF PollStep, PollExited, PollRead, PollReadFails, PollResolve,
            PollStopped, PollWoken, PollTick, Status, Result, Known, taskVars,
            waitVars
    <3> QED
      BY <3>1, StutterOrStep
  <2>8. CASE \E w \in Waiters : WaitTask(w) \/ WaitClosed(w) \/ WaitGivesUp(w)
    <3>1. UNCHANGED <<Status, Result, answer>>
      BY <2>8 DEF WaitTask, WaitClosed, WaitGivesUp, Status, Result, Known,
            taskVars
    <3> QED
      BY <3>1, StutterOrStep
  <2> QED
    BY <2>1, <2>2, <2>3, <2>4, <2>5, <2>6, <2>7, <2>8
       DEF Next, SetupStep, PollStep, WaitStep
<1> QED
  BY <1>1, <1>2, HandlerInvariant, PTL DEF Spec, KeepsContract, Contract!CSpec
-----------------------------------------------------------------------------
(* An exit result tells one story: it carries an error exactly when its    *)
(* exit code or signal says that the process did not succeed.              *)
Consistent(r) == r.Err <=> r.ExitCode # 0 \/ r.Signal # 0

(* Whatever buildExitResult makes of a unit is consistent.                 *)
LEMMA BuiltIsConsistent ==
    ASSUME NEW s, NEW st \in Statuses \cup {NotExited}
    PROVE  Consistent(BuildExitResult(s, st)) /\ Consistent(FallbackResult(s))
<1>1. Consistent(FallbackResult(s))
  BY DEF Consistent, FallbackResult
<1>2. ExitResultFromStatus(st) # NoResult => Consistent(ExitResultFromStatus(st))
  <2>1. CASE st.Code = CLDExited
    <3> DEFINE nonzero == st.Status # 0
    <3>1. st.Code \notin {CLDKilled, CLDDumped} /\ nonzero \in BOOLEAN
      BY <2>1 DEF CLDExited, CLDKilled, CLDDumped
    <3>2. ExitResultFromStatus(st) =
             [ExitCode |-> st.Status, Signal |-> 0, Err |-> nonzero]
      BY <2>1, <3>1, Zenon DEF ExitResultFromStatus
    <3> HIDE DEF nonzero
    <3>3. /\ ExitResultFromStatus(st).Err <=> nonzero
          /\ ExitResultFromStatus(st).ExitCode = st.Status
          /\ ExitResultFromStatus(st).Signal = 0
      BY <3>1, <3>2
    <3> QED
      BY <3>3 DEF Consistent, nonzero
  <2>2. CASE st.Code \in {CLDKilled, CLDDumped}
    <3>1. ExitResultFromStatus(st) =
             [ExitCode |-> -1, Signal |-> st.Status, Err |-> TRUE]
      BY <2>2 DEF ExitResultFromStatus, CLDExited, CLDKilled, CLDDumped
    <3> QED
      BY <3>1 DEF Consistent
  <2>3. CASE st.Code \notin {CLDExited, CLDKilled, CLDDumped}
    BY <2>3 DEF ExitResultFromStatus
  <2> QED
    BY <2>1, <2>2, <2>3
<1> QED
  BY <1>1, <1>2 DEF BuildExitResult

(* A result that says success is that of a process that exited with 0, or, *)
(* of a process whose end systemd has no record of, of a unit that did not *)
(* fail: a failed unit, a signal or an unreadable status never becomes a   *)
(* success by default (buildExitResult).                                   *)
THEOREM SuccessIsEarned ==
    ASSUME NEW s, NEW st \in Statuses \cup {NotExited}, ~BuildExitResult(s, st).Err
    PROVE  \/ st.Code = CLDExited /\ st.Status = 0
           \/ ExitResultFromStatus(st) = NoResult /\ ~IsFailed(s)
<1>1. CASE ExitResultFromStatus(st) = NoResult
  BY <1>1 DEF BuildExitResult, FallbackResult
<1>2. CASE ExitResultFromStatus(st) # NoResult
  BY <1>2 DEF BuildExitResult, ExitResultFromStatus
<1> QED
  BY <1>1, <1>2

(* Every result a stop of the unit justifies is consistent.                *)
StopsConsistent == \A r \in stops : Consistent(r)

(* A stop adds only results that buildExitResult can give.                 *)
LEMMA NextStopsConsistent ==
    ASSUME HInv, StopsConsistent, [Next]_vars
    PROVE  StopsConsistent'
<1>1. ASSUME NEW s, NEW st \in Statuses \cup {NotExited}
      PROVE  \A r \in Justified(s, st) : Consistent(r)
  BY <1>1, BuiltIsConsistent DEF Justified
<1>2. CASE UnitStep
  <2>1. main' \in Statuses \cup {NotExited}
    BY <1>2 DEF HInv, TypeOK, UnitStep
  <2> QED
    BY <1>1, <1>2, <2>1 DEF UnitStep, StopsConsistent
<1>3. CASE StartTaskUp \/ RecoverRead
  <2>1. main \in Statuses \cup {NotExited}
    BY DEF HInv, TypeOK
  <2> QED
    BY <1>1, <1>3, <2>1 DEF StartTaskUp, RecoverRead, StopsConsistent
<1>4. CASE UNCHANGED stops
  BY <1>4 DEF StopsConsistent
<1>5. UnitStep \/ StartTaskUp \/ RecoverRead \/ UNCHANGED stops
  BY DEF Next, Wake, SetupStep, StartTaskBuild, RecoverBuild,
        RecoverSetExitResult, Start, Store, PollStep, PollExited, PollRead,
        PollReadFails, PollHandle, PollResolve, PollPublish, PollStopped,
        PollWoken, PollTick, WaitStep, WaitTask, WaitClosed, WaitAnswer,
        WaitGivesUp, Cancel, Delete, vars, unitVars
<1> QED
  BY <1>2, <1>3, <1>4, <1>5

(* Whatever a task reports, in its status or to a WaitTask call, tells one *)
(* story: a clean exit without error, or an exit code or signal with one - *)
(* although the result is built from two readings of a unit that may have  *)
(* been restarted in between, or of which one failed (buildExitResult,     *)
(* WaitTask).                                                              *)
ReportsAreConsistent ==
    /\ exitResult # NoResult => Consistent(exitResult)
    /\ \A w \in Waiters : answer[w] # NoResult => Consistent(answer[w])

(* Every report of a visible task is consistent, because every result a    *)
(* stop justifies is (buildExitResult).                                    *)
THEOREM ConsistentReports == Spec => []ReportsAreConsistent
<1>1. Init => StopsConsistent
  BY DEF Init, StopsConsistent
<1>2. HInv /\ StopsConsistent => ReportsAreConsistent
  BY DEF HInv, TypeOK, SetupInv, ExitInv, WaitInv, StopsConsistent,
        ReportsAreConsistent
<1> QED
  BY <1>1, <1>2, HandlerInvariant, NextStopsConsistent, PTL DEF Spec

(* Every WaitTask call that was answered was sent the task's own, final    *)
(* exit result, one that a stop of the unit justifies: never the success   *)
(* WaitTask makes up when it finds no result, and no two calls are told    *)
(* different things (WaitTask, handleWait).                                *)
AnswersAreTheExit == \A w \in Waiters :
    waiter[w] = "answered" => /\ state = "Exited"
                              /\ answer[w] = exitResult
                              /\ answer[w] \in stops

(* An answered WaitTask call has the published result, which a stop of the *)
(* unit justifies: answers are given once waitCh is closed, and that is    *)
(* done with the result (WaitTask, handleStateChange).                     *)
THEOREM AnsweredWithTheExit == Spec => []AnswersAreTheExit
<1>1. HInv => AnswersAreTheExit
  BY DEF HInv, WaitInv, ExitInv, AnswersAreTheExit
<1> QED
  BY <1>1, HandlerInvariant, PTL

-----------------------------------------------------------------------------
(* The steps that write a task's state, result or waitCh.                  *)
LEMMA Publishers ==
    ASSUME [Next]_vars
    PROVE  \/ UNCHANGED taskVars
           \/ StartTaskBuild \/ RecoverBuild \/ RecoverSetExitResult
           \/ PollHandle \/ PollPublish
  BY DEF Next, UnitStep, Wake, SetupStep, StartTaskUp, RecoverRead, Start,
        Store, PollStep, PollExited, PollRead, PollReadFails, PollResolve,
        PollStopped, PollWoken, PollTick, WaitStep, WaitTask, WaitClosed,
        WaitAnswer, WaitGivesUp, Cancel, Delete, vars

(* A task that was made visible stays so.                                  *)
LEMMA StaysVisible ==
    ASSUME [Next]_vars, Visible
    PROVE  Visible'
  BY DEF Next, UnitStep, Wake, SetupStep, StartTaskUp, StartTaskBuild,
        RecoverRead, RecoverBuild, RecoverSetExitResult, Start, Store,
        PollStep, PollExited, PollRead, PollReadFails, PollHandle, PollResolve,
        PollPublish, PollStopped, PollWoken, PollTick, WaitStep, WaitTask,
        WaitClosed, WaitAnswer, WaitGivesUp, Cancel, Delete, vars, Visible

(* "Exited is terminal: a Nomad task cannot revive" (handleStateChange):   *)
(* from the moment the driver shows a task to anybody, its exit, with the  *)
(* result and the closed waitCh, is final, although the unit may run       *)
(* again, be polled on, and stop with another result.                      *)
ExitIsFinal ==
    [][Visible /\ state = "Exited" =>
          Visible' /\ UNCHANGED <<state, exitResult, waitClosed>>]_vars

(* An exit that was shown is final: nobody publishes a second state of an  *)
(* exited task, and a shown task is not taken back (handleStateChange).    *)
THEOREM FinalExit == Spec => ExitIsFinal
<1>1. HInv /\ [Next]_vars =>
         (Visible /\ state = "Exited" =>
             Visible' /\ UNCHANGED <<state, exitResult, waitClosed>>)
  <2> SUFFICES ASSUME HInv, [Next]_vars, Visible, state = "Exited"
               PROVE  Visible' /\ UNCHANGED <<state, exitResult, waitClosed>>
    OBVIOUS
  <2>1. ~PollHandle /\ ~PollPublish
    BY DEF HInv, PollInv, PollHandle, PollPublish
  <2>2. ~StartTaskBuild /\ ~RecoverBuild /\ ~RecoverSetExitResult
    BY DEF Visible, StartTaskBuild, RecoverBuild, RecoverSetExitResult
  <2> QED
    BY <2>1, <2>2, Publishers, StaysVisible DEF taskVars
<1> QED
  BY <1>1, HandlerInvariant, PTL DEF Spec, ExitIsFinal

(* "waitCh is closed exactly once" (handleStateChange): whoever handles or *)
(* publishes a state finds the task not exited and waitCh open.  Both of   *)
(* handleStateChange's checks for a task that has exited in the meantime,  *)
(* and closeWaitCh's Once, are therefore never needed, and the model does  *)
(* without them.                                                           *)
PublishedOnce ==
    [][PollHandle \/ PollPublish => state # "Exited" /\ ~waitClosed]_vars

(* A poller that is past its check for an exited task is the only one to   *)
(* publish (checkTaskState, handleStateChange).                            *)
THEOREM PublishesOnce == Spec => PublishedOnce
<1>1. HInv => (PollHandle \/ PollPublish => state # "Exited" /\ ~waitClosed)
  BY DEF HInv, SetupInv, PollInv, ExitInv, PollHandle, PollPublish
<1> QED
  BY <1>1, HandlerInvariant, PTL DEF Spec, PublishedOnce

(* Nothing of a Handler that was deleted moves any more: neither its       *)
(* poller nor anyone else writes its state, so what DestroyTask releases   *)
(* next is in nobody's use (Handler.Stop's wait for its goroutines).       *)
DeletedIsQuiet ==
    [][setup = "deleted" =>
          UNCHANGED <<setup, seen, wake, taskVars, pollVars>>]_vars

(* A task is deleted once its poller has ended, and an ended poller writes *)
(* nothing (Handler.Stop, DestroyTask).                                    *)
THEOREM QuietOnceDeleted == Spec => DeletedIsQuiet
<1> DEFINE Joined == setup = "deleted" => poller = "done"
<1>1. Init => Joined
  BY DEF Init
<1>2. HInv /\ Joined /\ [Next]_vars => Joined'
  BY DEF HInv, SetupInv, Next, UnitStep, Wake, SetupStep, StartTaskUp,
        StartTaskBuild, RecoverRead, RecoverBuild, RecoverSetExitResult, Start,
        Store, PollStep, PollExited, PollRead, PollReadFails, PollHandle,
        PollResolve, PollPublish, PollStopped, PollWoken, PollTick, WaitStep,
        WaitTask, WaitClosed, WaitAnswer, WaitGivesUp, Cancel, Delete, vars,
        pollVars
<1>3. Joined /\ [Next]_vars =>
         (setup = "deleted" => UNCHANGED <<setup, seen, wake, taskVars, pollVars>>)
  BY DEF Next, UnitStep, Wake, SetupStep, StartTaskUp, StartTaskBuild,
        RecoverRead, RecoverBuild, RecoverSetExitResult, Start, Store,
        PollStep, PollExited, PollRead, PollReadFails, PollHandle, PollResolve,
        PollPublish, PollStopped, PollWoken, PollTick, WaitStep, WaitTask,
        WaitClosed, WaitAnswer, WaitGivesUp, Cancel, Delete, vars
<1> QED
  BY <1>1, <1>2, <1>3, HandlerInvariant, PTL DEF Spec, DeletedIsQuiet
=============================================================================
