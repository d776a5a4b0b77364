------------------------- MODULE DriverConfigProofs -------------------------
(***************************************************************************)
(* Proofs about DriverConfig, for any SetConfig calls, Managers, tasks and *)
(* addresses.  DInv, stated there, is inductive: one lemma per action.     *)
(* The safety properties are parts of it or follow from it.  What          *)
(* DriverFrontend adds leaves all of it as it is, keeps to the policy, and *)
(* shows nothing of a reload to Nomad.                                     *)
(***************************************************************************)
EXTENDS DriverFrontend, TLAPS

USE NoneAssumption

(* Steps that touch no Manager and no call leave the Managers' holders as  *)
(* they were.                                                              *)
LEMMA HoldersUnchanged ==
    ASSUME DInv, UNCHANGED configVars
    PROVE  HolderInv' /\ OneHolder' /\ StoppedOnce' /\ NoManagerLost'
  BY DEF DInv, HolderInv, OneHolder, Held, StoppedOnce, NoManagerLost, Up,
     configVars

(* A call that begins holds no Manager.                                    *)
LEMMA SetConfigInv ==
    ASSUME DInv, NEW c \in Calls, NEW a \in Addrs \cup {NoAddr}, SetConfig(c, a)
    PROVE  DInv'
<1>1. TypeOK'
  BY DEF DInv, TypeOK, SetConfig, Goto, Return, Idle, pprofVars, taskVars,
     downVars
<1>2. HolderInv' /\ OneHolder' /\ StoppedOnce' /\ NoManagerLost'
  BY DEF DInv, TypeOK, HolderInv, OneHolder, Held, StoppedOnce, NoManagerLost,
     Up, SetConfig, Goto, Return, Idle
<1>3. DownInv' /\ HandlersFirst'
  BY DEF DInv, TypeOK, DownInv, HandlersFirst, SetConfig, Goto, Return, Idle,
     pprofVars, taskVars, downVars
<1>4. PprofListens'
  BY DEF DInv, TypeOK, PprofListens, SetConfig, pprofVars, downVars
<1> QED
  BY <1>1, <1>2, <1>3, <1>4 DEF DInv

(* The pprof server is replaced as a whole, or not at all.                 *)
LEMMA ConfigurePprofInv ==
    ASSUME DInv, NEW c \in Calls, ConfigurePprof(c)
    PROVE  DInv'
<1>1. TypeOK'
  BY DEF DInv, TypeOK, ConfigurePprof, GoOn, Return, Idle, pprofVars, taskVars,
     downVars
<1>2. HolderInv' /\ OneHolder' /\ StoppedOnce' /\ NoManagerLost'
  BY DEF DInv, TypeOK, HolderInv, OneHolder, Held, StoppedOnce, NoManagerLost,
     Up, ConfigurePprof, GoOn, Return, Idle
<1>3. DownInv' /\ HandlersFirst'
  BY DEF DInv, TypeOK, DownInv, HandlersFirst, ConfigurePprof, GoOn, Return,
     Idle, pprofVars, taskVars, downVars
<1>4. PprofListens'
  BY DEF DInv, TypeOK, DownInv, PprofListens, ConfigurePprof, pprofVars, downVars
<1> QED
  BY <1>1, <1>2, <1>3, <1>4 DEF DInv

(* A new Manager is held by the call that made it, and by nobody else.     *)
LEMMA ConnectInv ==
    ASSUME DInv, NEW c \in Calls, Connect(c)
    PROVE  DInv'
<1>1. CASE Return(c) /\ UNCHANGED made
  <2>1. TypeOK' /\ HolderInv' /\ OneHolder' /\ DownInv'
    BY <1>1 DEF DInv, TypeOK, HolderInv, OneHolder, Held, DownInv, Connect,
       Return, Idle, pprofVars,
          taskVars, downVars
  <2>2. StoppedOnce' /\ NoManagerLost' /\ PprofListens' /\ HandlersFirst'
    BY <1>1 DEF DInv, TypeOK, StoppedOnce, NoManagerLost, PprofListens,
          HandlersFirst, Connect, Return, Idle, Up, pprofVars, taskVars, downVars
  <2> QED
    BY <2>1, <2>2 DEF DInv
<1>2. ASSUME NEW m \in Mgrs \ made,
             made' = made \cup {m},
             config' = [config EXCEPT ![c] = [Idle EXCEPT !.pc = "swap", !.new = m]]
      PROVE  DInv'
  <2>1. /\ config' = [config EXCEPT ![c] = [pc |-> "swap", addr |-> NoAddr,
                                             new |-> m, old |-> NoMgr]]
        /\ mgr' = mgr /\ stopCalls' = stopCalls /\ shutdown' = shutdown
        /\ UNCHANGED <<pprofVars, taskVars, teardown>>
        /\ config[c].pc = "connect"
    BY <1>2 DEF Connect, Idle, downVars
  <2>2. /\ config'[c].pc = "swap" /\ config'[c].new = m
        /\ \A d \in Calls : d # c => config'[d] = config[d]
    BY <2>1 DEF DInv, TypeOK
  <2>3. TypeOK'
    <3>1. config' \in [Calls -> [pc : {"idle", "pprof", "connect", "swap", "stop", "join"},
                                 addr : Addrs \cup {NoAddr},
                                 new : Mgrs \cup {NoMgr}, old : Mgrs \cup {NoMgr}]]
      BY <2>1 DEF DInv, TypeOK
    <3> QED
      BY <1>2, <2>1, <3>1 DEF DInv, TypeOK, pprofVars, taskVars
  <2>4. HolderInv'
    <3>1. m \notin made /\ m # mgr /\ stopCalls[m] = 0
      BY DEF DInv, TypeOK, HolderInv
    <3> QED
      BY <1>2, <2>1, <2>2, <3>1 DEF DInv, HolderInv, Held
  <2>5. OneHolder'
    <3>1. \A d \in Calls : /\ config[d].pc = "swap" => config[d].new # m
                           /\ config[d].pc = "stop" => config[d].old # m
      BY DEF DInv, HolderInv, Held
    <3> QED
      BY <2>2, <3>1 DEF DInv, OneHolder
  <2>6. DownInv'
    BY <2>1, <2>2 DEF DInv, TypeOK, DownInv, pprofVars, taskVars
  <2>7. NoManagerLost'
    BY <1>2, <2>1, <2>2 DEF DInv, NoManagerLost, Up
  <2>8. StoppedOnce' /\ PprofListens' /\ HandlersFirst'
    BY <2>1 DEF DInv, StoppedOnce, PprofListens, HandlersFirst, pprofVars,
       taskVars
  <2> QED
    BY <2>3, <2>4, <2>5, <2>6, <2>7, <2>8 DEF DInv
<1> QED
  BY <1>1, <1>2 DEF Connect

(* The new Manager comes into use; the call now holds the one it replaced. *)
LEMMA SwapInv ==
    ASSUME DInv, NEW c \in Calls, Swap(c)
    PROVE  DInv'
<1>1. /\ mgr' = config[c].new /\ mgr' \in Mgrs
      /\ \A d \in Calls : d # c => config'[d] = config[d]
      /\ shutdown = "up"
  BY DEF DInv, TypeOK, HolderInv, Held, DownInv, Swap, Return
<1>2. IF mgr = NoMgr THEN config'[c] = Idle
                     ELSE config'[c].pc = "stop" /\ config'[c].old = mgr
  BY DEF DInv, TypeOK, Swap, Return, Idle
<1>3. TypeOK'
  <2>1. CASE mgr = NoMgr
    BY <1>1, <2>1 DEF DInv, TypeOK, Swap, Return, Idle, pprofVars, taskVars,
       downVars
  <2>2. CASE mgr # NoMgr
    <3>1. config' = [config EXCEPT ![c] = [pc |-> "stop", addr |-> NoAddr,
                                           new |-> NoMgr, old |-> mgr]]
      BY <2>2 DEF Swap, Idle
    <3>2. config' \in [Calls -> [pc : {"idle", "pprof", "connect", "swap", "stop", "join"},
                                 addr : Addrs \cup {NoAddr},
                                 new : Mgrs \cup {NoMgr}, old : Mgrs \cup {NoMgr}]]
      BY <3>1 DEF DInv, TypeOK
    <3> QED
      BY <1>1, <3>2 DEF DInv, TypeOK, Swap, pprofVars, taskVars, downVars
  <2> QED
    BY <2>1, <2>2
<1>4. HolderInv'
  <2>1. /\ mgr' = config[c].new /\ Held(config[c].new)
        /\ made' = made /\ stopCalls' = stopCalls
    BY DEF DInv, HolderInv, Swap
  <2>2. mgr # NoMgr => mgr \in made /\ stopCalls[mgr] = 0
    BY <1>1 DEF DInv, HolderInv, DownInv
  <2>3. ASSUME NEW d \in Calls
        PROVE  (/\ config[d].pc = "swap" => Held(config[d].new)
                /\ config[d].pc = "stop" => Held(config[d].old))'
    <3>1. CASE d = c
      BY <1>2, <2>1, <2>2, <3>1 DEF Held, Idle
    <3>2. CASE d # c
      BY <1>1, <2>1, <3>2 DEF DInv, HolderInv, OneHolder, Held, Swap
    <3> QED
      BY <3>1, <3>2
  <2> QED
    BY <2>1, <2>3 DEF DInv, HolderInv, Held
<1>5. OneHolder'
  BY <1>1, <1>2 DEF DInv, TypeOK, HolderInv, OneHolder, Held, Swap, Idle
<1>6. DownInv'
  BY <1>1, <1>2 DEF DInv, TypeOK, HolderInv, Held, DownInv, Swap, pprofVars,
     taskVars,
        downVars
<1>7. StoppedOnce' /\ NoManagerLost'
  BY <1>1, <1>2 DEF DInv, TypeOK, StoppedOnce, NoManagerLost, Up, Swap
<1>8. PprofListens' /\ HandlersFirst'
  BY DEF DInv, PprofListens, HandlersFirst, Swap, pprofVars, taskVars, downVars
<1> QED
  BY <1>3, <1>4, <1>5, <1>6, <1>7, <1>8 DEF DInv

(* A replaced Manager is stopped by the call that holds it, and only then. *)
LEMMA StopOldInv ==
    ASSUME DInv, NEW c \in Calls, StopOld(c)
    PROVE  DInv'
<1> DEFINE m == config[c].old
<1>1. m \in Mgrs /\ m \in made /\ m # mgr /\ stopCalls[m] = 0
  BY DEF DInv, TypeOK, HolderInv, OneHolder, Held, StopOld
<1>2. /\ stopCalls' = [stopCalls EXCEPT ![m] = 1]
      /\ config'[c].pc = "join"
      /\ \A d \in Calls : d # c => config'[d] = config[d]
  BY <1>1 DEF DInv, TypeOK, StopOld, StopManager, Goto
<1>3. TypeOK'
  BY <1>1, <1>2 DEF DInv, TypeOK, StopOld, Goto, pprofVars, taskVars, downVars
<1>4. HolderInv'
  BY <1>1, <1>2 DEF DInv, TypeOK, HolderInv, OneHolder, Held, StopOld
<1>5. OneHolder'
  BY <1>2 DEF DInv, OneHolder, StopOld
<1>6. DownInv'
  BY <1>1, <1>2 DEF DInv, TypeOK, DownInv, StopOld, pprofVars, taskVars,
     downVars
<1>7. StoppedOnce' /\ NoManagerLost'
  BY <1>1, <1>2 DEF DInv, TypeOK, StoppedOnce, NoManagerLost, Up, StopOld
<1>8. PprofListens' /\ HandlersFirst'
  BY DEF DInv, PprofListens, HandlersFirst, StopOld, pprofVars, taskVars,
     downVars
<1> QED
  BY <1>3, <1>4, <1>5, <1>6, <1>7, <1>8 DEF DInv

(* The call holds nothing any more.                                        *)
LEMMA OldStoppedInv ==
    ASSUME DInv, NEW c \in Calls, OldStopped(c)
    PROVE  DInv'
<1>1. TypeOK'
  BY DEF DInv, TypeOK, OldStopped, Goto, Return, Idle, pprofVars, taskVars,
     downVars
<1>2. HolderInv' /\ OneHolder' /\ StoppedOnce' /\ NoManagerLost'
  BY DEF DInv, TypeOK, HolderInv, OneHolder, Held, StoppedOnce, NoManagerLost,
     Up, OldStopped, Goto, Return, Idle
<1>3. DownInv' /\ HandlersFirst'
  BY DEF DInv, TypeOK, DownInv, HandlersFirst, OldStopped, Goto, Return, Idle,
     pprofVars, taskVars, downVars
<1>4. PprofListens'
  BY DEF DInv, TypeOK, PprofListens, OldStopped, pprofVars, downVars
<1> QED
  BY <1>1, <1>2, <1>3, <1>4 DEF DInv

(* A task takes the current Manager, which need not be current for long.   *)
LEMMA GetManagerInv ==
    ASSUME DInv, NEW t \in Tasks, GetManager(t)
    PROVE  DInv'
<1>1. TypeOK' /\ PprofListens'
  BY DEF DInv, TypeOK, PprofListens, GetManager, configVars, pprofVars,
     taskVars, downVars
<1>2. DownInv' /\ HandlersFirst'
  BY DEF DInv, TypeOK, DownInv, HandlersFirst, GetManager, configVars,
     pprofVars, taskVars, downVars
<1>3. HolderInv' /\ OneHolder' /\ StoppedOnce' /\ NoManagerLost'
  BY HoldersUnchanged DEF GetManager
<1> QED
  BY <1>1, <1>2, <1>3 DEF DInv

(* A start that fails is over.                                             *)
LEMMA StartFailsInv ==
    ASSUME DInv, NEW t \in Tasks, StartFails(t)
    PROVE  DInv'
<1>1. TypeOK' /\ PprofListens'
  BY DEF DInv, TypeOK, PprofListens, StartFails, configVars, pprofVars,
     taskVars, downVars
<1>2. DownInv' /\ HandlersFirst'
  BY DEF DInv, TypeOK, DownInv, HandlersFirst, StartFails, configVars,
     pprofVars, taskVars, downVars
<1>3. HolderInv' /\ OneHolder' /\ StoppedOnce' /\ NoManagerLost'
  BY HoldersUnchanged DEF StartFails
<1> QED
  BY <1>1, <1>2, <1>3 DEF DInv

(* A unit is started, or found running.                                    *)
LEMMA StartUnitInv ==
    ASSUME DInv, NEW t \in Tasks, StartUnit(t)
    PROVE  DInv'
<1>1. TypeOK' /\ PprofListens'
  BY DEF DInv, TypeOK, PprofListens, StartUnit, configVars, pprofVars,
     taskVars, downVars
<1>2. DownInv' /\ HandlersFirst'
  BY DEF DInv, TypeOK, DownInv, HandlersFirst, StartUnit, configVars,
     pprofVars, taskVars, downVars
<1>3. HolderInv' /\ OneHolder' /\ StoppedOnce' /\ NoManagerLost'
  BY HoldersUnchanged DEF StartUnit
<1> QED
  BY <1>1, <1>2, <1>3 DEF DInv

(* Its Handler watches it.                                                 *)
LEMMA WatchInv ==
    ASSUME DInv, NEW t \in Tasks, Watch(t)
    PROVE  DInv'
<1>1. TypeOK' /\ PprofListens'
  BY DEF DInv, TypeOK, PprofListens, Watch, configVars, pprofVars, taskVars,
     downVars
<1>2. DownInv' /\ HandlersFirst'
  BY DEF DInv, TypeOK, DownInv, HandlersFirst, Watch, configVars, pprofVars,
     taskVars, downVars
<1>3. HolderInv' /\ OneHolder' /\ StoppedOnce' /\ NoManagerLost'
  BY HoldersUnchanged DEF Watch
<1> QED
  BY <1>1, <1>2, <1>3 DEF DInv

(* The unit stops.                                                         *)
LEMMA UnitStopsInv ==
    ASSUME DInv, NEW t \in Tasks, UnitStops(t)
    PROVE  DInv'
<1>1. TypeOK' /\ PprofListens'
  BY DEF DInv, TypeOK, PprofListens, UnitStops, configVars, pprofVars,
     taskVars, downVars
<1>2. DownInv' /\ HandlersFirst'
  BY DEF DInv, TypeOK, DownInv, HandlersFirst, UnitStops, configVars,
     pprofVars, taskVars, downVars
<1>3. HolderInv' /\ OneHolder' /\ StoppedOnce' /\ NoManagerLost'
  BY HoldersUnchanged DEF UnitStops
<1> QED
  BY <1>1, <1>2, <1>3 DEF DInv

(* The poller observes it.                                                 *)
LEMMA ObserveExitInv ==
    ASSUME DInv, NEW t \in Tasks, ObserveExit(t)
    PROVE  DInv'
<1>1. TypeOK' /\ PprofListens'
  BY DEF DInv, TypeOK, PprofListens, ObserveExit, configVars, pprofVars,
     taskVars, downVars
<1>2. DownInv' /\ HandlersFirst'
  BY DEF DInv, TypeOK, DownInv, HandlersFirst, ObserveExit, configVars,
     pprofVars, taskVars, downVars
<1>3. HolderInv' /\ OneHolder' /\ StoppedOnce' /\ NoManagerLost'
  BY HoldersUnchanged DEF ObserveExit
<1> QED
  BY <1>1, <1>2, <1>3 DEF DInv

(* Handler.Stop and tasks.Delete; Shutdown has not begun.                  *)
LEMMA DestroyTaskInv ==
    ASSUME DInv, NEW t \in Tasks, DestroyTask(t)
    PROVE  DInv'
<1>1. TypeOK' /\ PprofListens'
  BY DEF DInv, TypeOK, PprofListens, DestroyTask, configVars, pprofVars,
     taskVars, downVars
<1>2. DownInv' /\ HandlersFirst'
  BY DEF DInv, TypeOK, DownInv, HandlersFirst, DestroyTask, configVars,
     pprofVars, taskVars, downVars
<1>3. HolderInv' /\ OneHolder' /\ StoppedOnce' /\ NoManagerLost'
  BY HoldersUnchanged DEF DestroyTask
<1> QED
  BY <1>1, <1>2, <1>3 DEF DInv

(* A Handler that Shutdown stops is gone once its goroutines end.          *)
LEMMA HandlerEndsInv ==
    ASSUME DInv, NEW t \in Tasks, HandlerEnds(t)
    PROVE  DInv'
<1>1. TypeOK' /\ PprofListens'
  BY DEF DInv, TypeOK, PprofListens, HandlerEnds, configVars, pprofVars,
     taskVars, downVars
<1>2. DownInv' /\ HandlersFirst'
  BY DEF DInv, TypeOK, DownInv, HandlersFirst, HandlerEnds, configVars,
     pprofVars, taskVars, downVars
<1>3. HolderInv' /\ OneHolder' /\ StoppedOnce' /\ NoManagerLost'
  BY HoldersUnchanged DEF HandlerEnds
<1> QED
  BY <1>1, <1>2, <1>3 DEF DInv

(* Shutdown begins with no call under way, so nobody holds a Manager.      *)
LEMMA ShutdownInv ==
    ASSUME DInv, Shutdown
    PROVE  DInv'
<1>1. TypeOK' /\ PprofListens'
  BY DEF DInv, TypeOK, PprofListens, Shutdown, configVars, pprofVars, taskVars,
     downVars
<1>2. DownInv' /\ HandlersFirst'
  BY DEF DInv, TypeOK, DownInv, HandlersFirst, Shutdown, configVars, pprofVars,
     taskVars, downVars
<1>3. HolderInv' /\ OneHolder' /\ StoppedOnce' /\ NoManagerLost'
  BY HoldersUnchanged DEF Shutdown
<1> QED
  BY <1>1, <1>2, <1>3 DEF DInv

(* The Handlers of the store are all there are.                            *)
LEMMA StopTasksInv ==
    ASSUME DInv, StopTasks
    PROVE  DInv'
<1>1. TypeOK' /\ PprofListens'
  BY DEF DInv, TypeOK, PprofListens, StopTasks, configVars, pprofVars,
     taskVars, downVars
<1>2. DownInv' /\ HandlersFirst'
  BY DEF DInv, TypeOK, DownInv, HandlersFirst, StopTasks, configVars,
     pprofVars, taskVars, downVars
<1>3. HolderInv' /\ OneHolder' /\ StoppedOnce' /\ NoManagerLost'
  BY HoldersUnchanged DEF StopTasks
<1> QED
  BY <1>1, <1>2, <1>3 DEF DInv

(* The Manager in use has stopped.                                         *)
LEMMA ManagerStoppedInv ==
    ASSUME DInv, ManagerStopped
    PROVE  DInv'
<1>1. TypeOK' /\ PprofListens'
  BY DEF DInv, TypeOK, PprofListens, ManagerStopped, configVars, pprofVars,
     taskVars, downVars
<1>2. DownInv' /\ HandlersFirst'
  BY DEF DInv, TypeOK, DownInv, HandlersFirst, ManagerStopped, configVars,
     pprofVars, taskVars, downVars
<1>3. HolderInv' /\ OneHolder' /\ StoppedOnce' /\ NoManagerLost'
  BY HoldersUnchanged DEF ManagerStopped
<1> QED
  BY <1>1, <1>2, <1>3 DEF DInv

(* The pprof server is stopped.                                            *)
LEMMA TeardownPprofInv ==
    ASSUME DInv, TeardownPprof
    PROVE  DInv'
<1>1. TypeOK' /\ PprofListens'
  BY DEF DInv, TypeOK, PprofListens, TeardownPprof, configVars, pprofVars,
     taskVars, downVars
<1>2. DownInv' /\ HandlersFirst'
  BY DEF DInv, TypeOK, DownInv, HandlersFirst, TeardownPprof, configVars,
     pprofVars, taskVars, downVars
<1>3. HolderInv' /\ OneHolder' /\ StoppedOnce' /\ NoManagerLost'
  BY HoldersUnchanged DEF TeardownPprof
<1> QED
  BY <1>1, <1>2, <1>3 DEF DInv

(* Shutdown returns with everything torn down,                             *)
LEMMA ShutdownDoneInv ==
    ASSUME DInv, ShutdownDone
    PROVE  DInv'
<1>1. TypeOK' /\ PprofListens'
  BY DEF DInv, TypeOK, PprofListens, ShutdownDone, configVars, pprofVars,
     taskVars, downVars
<1>2. DownInv' /\ HandlersFirst'
  BY DEF DInv, TypeOK, DownInv, HandlersFirst, ShutdownDone, configVars,
     pprofVars, taskVars, downVars
<1>3. HolderInv' /\ OneHolder' /\ StoppedOnce' /\ NoManagerLost'
  BY HoldersUnchanged DEF ShutdownDone
<1> QED
  BY <1>1, <1>2, <1>3 DEF DInv

(* or leaves the rest to the end of the process.                           *)
LEMMA ShutdownTimesOutInv ==
    ASSUME DInv, ShutdownTimesOut
    PROVE  DInv'
<1>1. TypeOK' /\ PprofListens'
  BY DEF DInv, TypeOK, PprofListens, ShutdownTimesOut, configVars, pprofVars,
     taskVars, downVars
<1>2. DownInv' /\ HandlersFirst'
  BY DEF DInv, TypeOK, DownInv, HandlersFirst, ShutdownTimesOut, configVars,
     pprofVars, taskVars, downVars
<1>3. HolderInv' /\ OneHolder' /\ StoppedOnce' /\ NoManagerLost'
  BY HoldersUnchanged DEF ShutdownTimesOut
<1> QED
  BY <1>1, <1>2, <1>3 DEF DInv

(* What is left of the pprof server goes with the driver's context.        *)
LEMMA ContextDoneInv ==
    ASSUME DInv, ContextDone
    PROVE  DInv'
<1>1. TypeOK' /\ PprofListens'
  BY DEF DInv, TypeOK, PprofListens, ContextDone, configVars, taskVars,
     downVars
<1>2. DownInv' /\ HandlersFirst'
  BY DEF DInv, DownInv, HandlersFirst, ContextDone, configVars, taskVars,
     downVars
<1>3. HolderInv' /\ OneHolder' /\ StoppedOnce' /\ NoManagerLost'
  BY HoldersUnchanged DEF ContextDone
<1> QED
  BY <1>1, <1>2, <1>3 DEF DInv

(* The Manager in use is stopped for the first and only time.              *)
LEMMA TeardownManagerInv ==
    ASSUME DInv, TeardownManager
    PROVE  DInv'
<1>1. \A c \in Calls : config[c].pc = "idle"
  BY DEF DInv, DownInv, TeardownManager
<1>2. TypeOK'
  BY DEF DInv, TypeOK, TeardownManager, StopManager, pprofVars, taskVars
<1>3. HolderInv' /\ OneHolder' /\ StoppedOnce' /\ NoManagerLost'
  BY <1>1 DEF DInv, TypeOK, HolderInv, OneHolder, Held, DownInv, StoppedOnce,
     NoManagerLost, Up, TeardownManager, StopManager
<1>4. DownInv' /\ HandlersFirst'
  BY DEF DInv, TypeOK, DownInv, HandlersFirst, TeardownManager, StopManager,
     pprofVars, taskVars
<1>5. PprofListens'
  BY DEF DInv, PprofListens, TeardownManager, pprofVars
<1> QED
  BY <1>2, <1>3, <1>4, <1>5 DEF DInv

(* A new driver has no Manager, no task and no pprof server.               *)
LEMMA InitDInv == Init => DInv
  BY DEF Init, DInv, TypeOK, HolderInv, OneHolder, Held, DownInv, StoppedOnce,
     NoManagerLost, PprofListens, HandlersFirst, Idle, Up

(* Every step preserves DInv.                                              *)
LEMMA NextDInv == DInv /\ [Next]_dvars => DInv'
<1> SUFFICES ASSUME DInv, [Next]_dvars PROVE DInv'
  OBVIOUS
<1>1. CASE \E c \in Calls : \/ \E a \in Addrs \cup {NoAddr} : SetConfig(c, a)
                             \/ ConfigStep(c)
  BY <1>1, SetConfigInv, ConfigurePprofInv, ConnectInv, SwapInv, StopOldInv,
     OldStoppedInv DEF ConfigStep
<1>2. CASE \E t \in Tasks : TaskStep(t)
  BY <1>2, GetManagerInv, StartFailsInv, StartUnitInv, WatchInv, UnitStopsInv,
     ObserveExitInv, DestroyTaskInv, HandlerEndsInv DEF TaskStep
<1>3. CASE Shutdown \/ TeardownStep \/ ShutdownDone \/ ShutdownTimesOut
            \/ ContextDone
  BY <1>3, ShutdownInv, StopTasksInv, TeardownManagerInv, ManagerStoppedInv,
     TeardownPprofInv, ShutdownDoneInv, ShutdownTimesOutInv, ContextDoneInv DEF
     TeardownStep
<1>4. CASE UNCHANGED dvars
  <2>1. TypeOK' /\ DownInv' /\ PprofListens' /\ HandlersFirst'
    BY <1>4 DEF DInv, TypeOK, DownInv, PprofListens, HandlersFirst, dvars,
       configVars, pprofVars, taskVars, downVars
  <2> QED
    BY <1>4, <2>1, HoldersUnchanged DEF DInv, dvars
<1> QED
  BY <1>1, <1>2, <1>3, <1>4 DEF Next

(* DInv is an invariant of every driver.                                   *)
THEOREM ConfigInvariant == Spec => []DInv
  BY InitDInv, NextDInv, PTL DEF Spec

(* From the first SetConfig to Shutdown the driver's Manager is one that   *)
(* nobody has stopped, whatever reloads overlap and fail (SetConfig).      *)
THEOREM AlwaysAManager == Spec => []CurrentWorks
<1>1. DInv => CurrentWorks
  BY DEF DInv, TypeOK, HolderInv, DownInv, CurrentWorks, Up
<1> QED
  BY <1>1, ConfigInvariant, PTL

(* No Manager is stopped twice, as Manager.Stop requires of its callers.   *)
THEOREM NeverStoppedTwice == Spec => []StoppedOnce
<1>1. DInv => StoppedOnce
  BY DEF DInv
<1> QED
  BY <1>1, ConfigInvariant, PTL

(* No Manager is left with its connection and goroutines when nothing uses *)
(* it or will stop it (SetConfig, Shutdown).                               *)
THEOREM ManagersAccountedFor == Spec => []NoManagerLost
<1>1. DInv => NoManagerLost
  BY DEF DInv
<1> QED
  BY <1>1, ConfigInvariant, PTL

(* Shutdown stops the Handlers before the Manager they read through.       *)
THEOREM ShutdownOrder == Spec => []HandlersFirst
<1>1. DInv => HandlersFirst
  BY DEF DInv
<1> QED
  BY <1>1, ConfigInvariant, PTL

(* A Shutdown that was not abandoned leaves nothing behind.                *)
THEOREM CleanShutdown == Spec => []ShutdownIsClean
<1>1. DInv => ShutdownIsClean
  BY DEF DInv, TypeOK, DownInv, NoManagerLost, PprofListens, HandlersFirst,
     ShutdownIsClean, Up
<1> QED
  BY <1>1, ConfigInvariant, PTL

(* What the driver takes for its pprof server is listening, however        *)
(* reloads fail (configurePprof).                                          *)
THEOREM PprofIsBound == Spec => []PprofListens
<1>1. DInv => PprofListens
  BY DEF DInv
<1> QED
  BY <1>1, ConfigInvariant, PTL

-----------------------------------------------------------------------------
(* What a reload does to the Manager: the step that changes it puts one in *)
(* use that works, never again after Shutdown has begun, and leaves the    *)
(* one it replaces, not stopped yet, to the call that will (SetConfig).    *)
ReloadsHandOver == [][mgr' # mgr =>
    /\ shutdown = "up"
    /\ Up(mgr)'
    /\ mgr # NoMgr => /\ stopCalls'[mgr] = 0
                      /\ \E c \in Calls : config'[c].pc = "stop" /\ config'[c].old = mgr
    ]_dvars

(* Only the swap changes it, and its Manager and the new one are held.     *)
LEMMA MgrChanges ==
    ASSUME DInv, [Next]_dvars, mgr' # mgr
    PROVE  /\ shutdown = "up"
           /\ Up(mgr)'
           /\ mgr # NoMgr =>
                /\ stopCalls'[mgr] = 0
                /\ \E c \in Calls : config'[c].pc = "stop" /\ config'[c].old = mgr
<1>1. PICK c \in Calls : Swap(c)
  BY DEF Next, ConfigStep, TaskStep, TeardownStep, SetConfig,
     ConfigurePprof, Connect, StopOld, OldStopped, GetManager, StartFails,
     StartUnit, Watch, UnitStops, ObserveExit, DestroyTask, HandlerEnds,
     Shutdown, StopTasks, TeardownManager, ManagerStopped, TeardownPprof,
     ShutdownDone, ShutdownTimesOut, ContextDone, configVars, dvars
<1>2. shutdown = "up" /\ teardown = "up"
  BY <1>1 DEF DInv, DownInv, Swap
<1>3. Up(mgr)'
  BY <1>1 DEF DInv, HolderInv, Held, Swap, Up
<1>4. mgr # NoMgr => stopCalls'[mgr] = 0
  BY <1>1, <1>2 DEF DInv, DownInv, Swap
<1>5. mgr # NoMgr => config'[c].pc = "stop" /\ config'[c].old = mgr
  BY <1>1 DEF DInv, TypeOK, Swap, Idle
<1> QED
  BY <1>2, <1>3, <1>4, <1>5

(* Every change of the Manager is a swap, and the swap hands over as it    *)
(* must (SetConfig).                                                       *)
THEOREM HandOver == Spec => ReloadsHandOver
<1>1. DInv /\ [Next]_dvars =>
        [mgr' # mgr =>
           /\ shutdown = "up"
           /\ Up(mgr)'
           /\ mgr # NoMgr =>
                /\ stopCalls'[mgr] = 0
                /\ \E c \in Calls : config'[c].pc = "stop" /\ config'[c].old = mgr
        ]_dvars
  BY MgrChanges
<1> QED
  BY ConfigInvariant, <1>1, PTL DEF Spec, ReloadsHandOver

(* Who stops a Manager: the SetConfig call that replaced it, or Shutdown,  *)
(* and that not before the last Handler is gone (SetConfig, Shutdown).     *)
StoppedByItsHolder == [][\A m \in Mgrs : Up(m) /\ ~Up(m)' =>
    \/ m # mgr /\ \E c \in Calls : config[c].pc = "stop" /\ config[c].old = m
    \/ m = mgr /\ teardown = "handlers" /\ \A t \in Tasks : task[t] = "none"
    ]_dvars

(* A Manager is stopped by who holds it: stopCalls counts in two steps     *)
(* only, and the holder is known in each (SetConfig, Shutdown).            *)
THEOREM OnlyHoldersStop == Spec => StoppedByItsHolder
<1>1. ASSUME DInv, [Next]_dvars, NEW m \in Mgrs, Up(m), ~Up(m)'
      PROVE  \/ m # mgr /\ \E c \in Calls : config[c].pc = "stop" /\ config[c].old = m
             \/ m = mgr /\ teardown = "handlers" /\ \A t \in Tasks : task[t] = "none"
  <2>1. CASE \E c \in Calls : StopOld(c)
    <3>1. PICK c \in Calls : StopOld(c)
      BY <2>1
    <3>2. m = config[c].old
      BY <1>1, <3>1 DEF DInv, TypeOK, StopOld, StopManager, Up
    <3> QED
      BY <1>1, <3>1, <3>2 DEF DInv, HolderInv, Held, StopOld
  <2>2. CASE TeardownManager
    <3>1. m = mgr
      BY <1>1, <2>2 DEF DInv, TypeOK, TeardownManager, StopManager, Up
    <3> QED
      BY <1>1, <2>2, <3>1 DEF DInv, DownInv, TeardownManager
  <2>3. CASE ~ \/ \E c \in Calls : StopOld(c)
               \/ TeardownManager
    <3>1. stopCalls' = stopCalls /\ made \subseteq made'
      BY <1>1, <2>3 DEF Next, ConfigStep, TaskStep, TeardownStep, SetConfig,
         ConfigurePprof, Connect, Swap, OldStopped, GetManager, StartFails,
         StartUnit, Watch, UnitStops, ObserveExit, DestroyTask, HandlerEnds,
         Shutdown, StopTasks, ManagerStopped, TeardownPprof, ShutdownDone,
         ShutdownTimesOut, ContextDone, configVars, dvars
    <3> QED
      BY <1>1, <3>1 DEF Up
  <2> QED
    BY <2>1, <2>2, <2>3
<1>2. DInv /\ [Next]_dvars =>
        [\A m \in Mgrs : Up(m) /\ ~Up(m)' =>
           \/ m # mgr /\ \E c \in Calls : config[c].pc = "stop" /\ config[c].old = m
           \/ m = mgr /\ teardown = "handlers" /\ \A t \in Tasks : task[t] = "none"
        ]_dvars
  BY <1>1
<1> QED
  BY ConfigInvariant, <1>2, PTL DEF Spec, StoppedByItsHolder

(* Once Shutdown has begun nothing comes up any more: no unit is started,  *)
(* no Manager connected or put in use, no address bound, no call begun     *)
(* (Shutdown's goroutine runs beside whatever was under way).              *)
OnlyDown == [][shutdown # "up" =>
    /\ shutdown' # "up"
    /\ running' \subseteq running /\ bound' \subseteq bound
    /\ UNCHANGED <<config, made, mgr>>
    ]_dvars

(* Shutdown only takes down: no SetConfig call is under way and no task on *)
(* its way up then, and neither begins (Shutdown, main).                   *)
THEOREM ShutdownOnlyStops == Spec => OnlyDown
<1>1. ASSUME DInv, [Next]_dvars, shutdown # "up"
      PROVE  /\ shutdown' # "up"
             /\ running' \subseteq running /\ bound' \subseteq bound
             /\ UNCHANGED <<config, made, mgr>>
  <2>1. /\ \A c \in Calls : config[c].pc = "idle"
        /\ \A t \in Tasks : task[t] \notin {"starting", "started"}
    BY <1>1 DEF DInv, DownInv
  <2>2. CASE \E c \in Calls : \/ \E a \in Addrs \cup {NoAddr} : SetConfig(c, a)
                              \/ ConfigStep(c)
    BY <1>1, <2>1, <2>2 DEF SetConfig, ConfigStep, ConfigurePprof, Connect,
       Swap, StopOld, OldStopped
  <2>3. CASE \E t \in Tasks : TaskStep(t)
    BY <1>1, <2>1, <2>3 DEF TaskStep, GetManager, StartFails, StartUnit, Watch,
       UnitStops, ObserveExit, DestroyTask, HandlerEnds, configVars, pprofVars,
       downVars
  <2>4. CASE Shutdown \/ TeardownStep \/ ShutdownDone \/ ShutdownTimesOut
              \/ ContextDone
    BY <1>1, <2>4 DEF Shutdown, TeardownStep, StopTasks, TeardownManager,
       ManagerStopped, TeardownPprof, ShutdownDone, ShutdownTimesOut,
       ContextDone, configVars, pprofVars, taskVars, downVars
  <2>5. CASE UNCHANGED dvars
    BY <1>1, <2>5 DEF dvars, configVars, pprofVars, taskVars, downVars
  <2> QED
    BY <1>1, <2>2, <2>3, <2>4, <2>5 DEF Next
<1>2. DInv /\ [Next]_dvars =>
        [shutdown # "up" =>
           /\ shutdown' # "up"
           /\ running' \subseteq running /\ bound' \subseteq bound
           /\ UNCHANGED <<config, made, mgr>>]_dvars
  BY <1>1
<1> QED
  BY ConfigInvariant, <1>2, PTL DEF Spec, OnlyDown

(* Every task was given a Manager that had been started.                   *)
BuiltWith == \A t \in Tasks : task[t] # "none" => units[t] \in made

(* Managers are only ever added, and a task takes the one in use.          *)
LEMMA BuiltWithInvariant == Spec => []BuiltWith
<1>1. Init => BuiltWith
  BY DEF Init, BuiltWith
<1>2. DInv /\ BuiltWith /\ [Next]_dvars => BuiltWith'
  <2> SUFFICES ASSUME DInv, BuiltWith, [Next]_dvars PROVE BuiltWith'
    OBVIOUS
  <2>1. CASE \E c \in Calls : \/ \E a \in Addrs \cup {NoAddr} : SetConfig(c, a)
                              \/ ConfigStep(c)
    <3>1. made \subseteq made' /\ UNCHANGED <<task, units>>
      BY <2>1 DEF SetConfig, ConfigStep, ConfigurePprof, Connect, Swap, StopOld,
         OldStopped, taskVars
    <3> QED
      BY <3>1 DEF BuiltWith
  <2>2. ASSUME NEW t \in Tasks, GetManager(t) PROVE BuiltWith'
    BY <2>2 DEF GetManager, DInv, TypeOK, HolderInv, BuiltWith, configVars
  <2>3. ASSUME NEW t \in Tasks,
               \/ StartFails(t) \/ StartUnit(t) \/ Watch(t) \/ UnitStops(t)
               \/ ObserveExit(t) \/ DestroyTask(t) \/ HandlerEnds(t)
        PROVE  BuiltWith'
    <3>1. UNCHANGED <<made, units>>
      BY <2>3 DEF StartFails, StartUnit, Watch, UnitStops, ObserveExit,
         DestroyTask, HandlerEnds, configVars
    <3>2. \A s \in Tasks : task'[s] # "none" => task[s] # "none"
      BY <2>3 DEF StartFails, StartUnit, Watch, UnitStops, ObserveExit,
         DestroyTask, HandlerEnds, DInv, TypeOK
    <3> QED
      BY <3>1, <3>2 DEF BuiltWith
  <2>4. CASE Shutdown \/ TeardownStep \/ ShutdownDone \/ ShutdownTimesOut
              \/ ContextDone
    <3>1. UNCHANGED <<made, units>>
      BY <2>4 DEF Shutdown, TeardownStep, StopTasks, TeardownManager,
         ManagerStopped, TeardownPprof, ShutdownDone, ShutdownTimesOut,
         ContextDone, configVars, taskVars
    <3>2. \A s \in Tasks : task'[s] # "none" => task[s] # "none"
      BY <2>4 DEF Shutdown, TeardownStep, StopTasks, TeardownManager,
         ManagerStopped, TeardownPprof, ShutdownDone, ShutdownTimesOut,
         ContextDone, taskVars
    <3> QED
      BY <3>1, <3>2 DEF BuiltWith
  <2>5. CASE UNCHANGED dvars
    BY <2>5 DEF dvars, configVars, taskVars, BuiltWith
  <2> QED
    BY <2>1, <2>2, <2>3, <2>4, <2>5 DEF Next, TaskStep
<1> QED
  BY <1>1, <1>2, ConfigInvariant, PTL DEF Spec

(* A Handler never goes blind but by a reload: as long as it is there, its *)
(* Manager works, or was replaced and then stopped, once, by the SetConfig *)
(* call that replaced it.  Shutdown takes none away from under a Handler,  *)
(* not even one that is stuck.                                             *)
BlindOnlyAfterReload == \A t \in Tasks :
    task[t] # "none" /\ ~Up(units[t]) => units[t] # mgr /\ stopCalls[units[t]] = 1

(* A Handler is blinded by a reload only: its Manager is a started one,    *)
(* the one in use works while there are Handlers, and no Manager is        *)
(* stopped twice (SetConfig, Shutdown).                                    *)
THEOREM OnlyReloadsBlind == Spec => []BlindOnlyAfterReload
<1>1. DInv /\ BuiltWith => BlindOnlyAfterReload
  <2> SUFFICES ASSUME DInv, BuiltWith, NEW t \in Tasks,
                      task[t] # "none", ~Up(units[t])
               PROVE  units[t] # mgr /\ stopCalls[units[t]] = 1
    BY DEF BlindOnlyAfterReload
  <2>1. units[t] \in made /\ units[t] \in Mgrs /\ stopCalls[units[t]] # 0
    BY DEF BuiltWith, Up, DInv, TypeOK
  <2>2. stopCalls[units[t]] = 1
    BY <2>1 DEF DInv, TypeOK, StoppedOnce
  <2>3. units[t] # mgr
    BY <2>1, NoneAssumption DEF DInv, TypeOK, DownInv, HandlersFirst
  <2> QED
    BY <2>2, <2>3
<1> QED
  BY <1>1, ConfigInvariant, BuiltWithInvariant, PTL

-----------------------------------------------------------------------------
(* The loops of unitPolicy.check decide what the two lists mean.           *)
LEMMA CheckIsRight ==
    ASSUME NEW g \in Configs, NEW t \in Tasks
    PROVE  check(g.policy, UnitOf[t]) => Permitted(g.policy, UnitOf[t])
<1>1. UnitOf[t] \in Units
  BY UnitOfAssumption
<1> QED
  BY <1>1 DEF check, Permitted

(* Every step of the frontend preserves FInv.                              *)
LEMMA FrontendStep ==
    ASSUME FInv, [FNext]_fvars
    PROVE  FInv'
<1> USE DEF FInv, policyVars, fpVars
<1>1. ASSUME NEW c \in Calls, StorePolicy(c) PROVE FInv'
  BY <1>1 DEF StorePolicy, FTypeOK, PermittedByPolicy
<1>2. ASSUME NEW c \in Calls, Reconfigure(c) PROVE FInv'
  BY <1>2 DEF Reconfigure, FTypeOK, PermittedByPolicy
<1>3. ASSUME NEW t \in Tasks, CheckPolicy(t) PROVE FInv'
  <2>1. Permitted(policy, UnitOf[t])
    <3>1. CASE policy = NoPolicy
      BY <3>1 DEF Permitted
    <3>2. CASE policy # NoPolicy
      <4>1. PICK g \in Configs : policy = g.policy
        BY <3>2 DEF FTypeOK
      <4> QED
        BY <1>3, <3>2, <4>1, CheckIsRight DEF CheckPolicy
    <3> QED
      BY <3>1, <3>2
  <2>2. Permitted(policy, UnitOf[t]) \in BOOLEAN
    BY <2>1 DEF Permitted
  <2>3. /\ origin' = [origin EXCEPT ![t] = "start"]
        /\ excused' = [excused EXCEPT ![t] = TRUE]
    BY <1>3, <2>1, <2>2 DEF CheckPolicy
  <2>4. PermittedByPolicy'
    BY <2>3 DEF FTypeOK, PermittedByPolicy
  <2>5. origin' \in [Tasks -> {"none", "start", "recover"}]
    BY <2>3 DEF FTypeOK
  <2>6. excused' \in [Tasks -> BOOLEAN]
    BY <2>3 DEF FTypeOK
  <2> QED
    BY <1>3, <2>4, <2>5, <2>6 DEF CheckPolicy, FTypeOK
<1>4. ASSUME NEW t \in Tasks, StartTask(t) \/ Carry(t) PROVE FInv'
  BY <1>4 DEF StartTask, Carry, FTypeOK, PermittedByPolicy
<1>5. ASSUME NEW t \in Tasks, NotInitialized(t) \/ RecoverTask(t) \/ Drop(t) PROVE FInv'
  BY <1>5 DEF NotInitialized, RecoverTask, Drop, FTypeOK, PermittedByPolicy
<1>6. CASE ShutDown
  BY <1>6 DEF ShutDown, FTypeOK, PermittedByPolicy
<1>7. CASE ConnectionMoves
  BY <1>7 DEF ConnectionMoves, FTypeOK, PermittedByPolicy
<1>8. CASE buildFingerprint
  BY <1>8 DEF buildFingerprint, Health, FTypeOK, PermittedByPolicy
<1>9. CASE Receive \/ Cancel \/ FingerprintEnds
  <2>1. CASE Receive
    <3>1. fp \in [pc : {"wait", "send", "ended"},
                  health : {"none", "undetected", "unhealthy", "healthy"}]
      BY DEF FTypeOK
    <3>2. fp' \in [pc : {"wait", "send", "ended"},
                   health : {"none", "undetected", "unhealthy", "healthy"}]
      BY <2>1, <3>1 DEF Receive
    <3> QED
      BY <2>1, <3>2 DEF Receive, FTypeOK, PermittedByPolicy
  <2>2. CASE Cancel
    BY <2>2 DEF Cancel, FTypeOK, PermittedByPolicy
  <2>3. CASE FingerprintEnds
    BY <2>3 DEF FingerprintEnds, FTypeOK, PermittedByPolicy
  <2> QED
    BY <1>9, <2>1, <2>2, <2>3
<1>10. CASE UNCHANGED fvars
  <2>1. UNCHANGED policy /\ UNCHANGED origin /\ UNCHANGED excused
    BY <1>10 DEF fvars
  <2>2. UNCHANGED sick /\ UNCHANGED fp /\ UNCHANGED listening
    BY <1>10 DEF fvars
  <2> QED
    BY <2>1, <2>2 DEF FTypeOK, PermittedByPolicy
<1> QED
  BY <1>1, <1>2, <1>3, <1>4, <1>5, <1>6, <1>7, <1>8, <1>9, <1>10 DEF FNext

(* FInv is an invariant of every frontend.                                 *)
THEOREM FrontendInvariant == FSpec => []FInv
<1>1. FInit => FInv
  <2> SUFFICES ASSUME FInit PROVE FInv
    OBVIOUS
  <2>1. /\ origin \in [Tasks -> {"none", "start", "recover"}]
        /\ policy = NoPolicy
        /\ PermittedByPolicy
    BY DEF FInit, PermittedByPolicy
  <2>2. excused \in [Tasks -> BOOLEAN] /\ sick \in BOOLEAN /\ listening \in BOOLEAN
    BY DEF FInit
  <2>3. fp \in [pc : {"wait", "send", "ended"},
                health : {"none", "undetected", "unhealthy", "healthy"}]
    BY DEF FInit
  <2> QED
    BY <2>1, <2>2, <2>3 DEF FInv, FTypeOK
<1> QED
  BY <1>1, FrontendStep, PTL DEF FSpec

(* Whatever reloads replace the policy while it runs, a StartTask that is  *)
(* past its check was permitted (StartTask, unitPolicy.check).             *)
THEOREM StartsArePermitted == FSpec => []PermittedByPolicy
<1>1. FInv => PermittedByPolicy
  BY DEF FInv
<1> QED
  BY <1>1, FrontendInvariant, PTL

(* A step of the frontend is one of the driver, or none of its business.   *)
LEMMA FrontendStepIsStep == [FNext]_fvars => [Next]_dvars
<1> SUFFICES ASSUME [FNext]_fvars PROVE [Next]_dvars
  OBVIOUS
<1>1. ASSUME NEW c \in Calls, StorePolicy(c) PROVE Next
  <2>1. PICK g \in Configs : SetConfig(c, g.addr)
    BY <1>1 DEF StorePolicy
  <2>2. g.addr \in Addrs \cup {NoAddr}
    BY ConfigsAssumption
  <2> QED
    BY <2>1, <2>2 DEF Next
<1>2. ASSUME NEW c \in Calls, Reconfigure(c) PROVE Next
  BY <1>2 DEF Reconfigure, Next
<1>3. ASSUME NEW t \in Tasks,
             StartTask(t) \/ RecoverTask(t) \/ Carry(t) \/ Drop(t)
      PROVE  Next
  BY <1>3 DEF StartTask, RecoverTask, Carry, Drop, TaskStep, Next
<1>4. CASE ShutDown
  BY <1>4 DEF ShutDown, Next
<1>5. ASSUME \/ \E t \in Tasks : CheckPolicy(t) \/ NotInitialized(t)
             \/ ConnectionMoves \/ buildFingerprint \/ Receive \/ Cancel
             \/ FingerprintEnds \/ UNCHANGED fvars
      PROVE  UNCHANGED dvars
  BY <1>5 DEF CheckPolicy, NotInitialized, ConnectionMoves, buildFingerprint,
     Receive, Cancel, FingerprintEnds, fvars
<1> QED
  BY <1>1, <1>2, <1>3, <1>4, <1>5 DEF FNext

(* The policy and the fingerprints leave the driver to do what DriverConfig*)
(* says: the theorems above hold with them.                                *)
THEOREM FrontendIsDriver == FSpec => Spec
<1>1. FInit => Init
  BY DEF FInit
<1> QED
  BY <1>1, FrontendStepIsStep, PTL DEF FSpec, Spec

(* So DriverConfig's safety holds of the whole frontend, reloads that      *)
(* store a policy and fail afterwards included (SetConfig, Shutdown).      *)
THEOREM FrontendIsSafe ==
    FSpec => [](CurrentWorks /\ NoManagerLost /\ PprofListens /\ ShutdownIsClean)
  BY FrontendIsDriver, AlwaysAManager, ManagersAccountedFor, PprofIsBound,
     CleanShutdown, PTL

(* What a fingerprint can say: it is unhealthy only for a connection that  *)
(* is down, or once Shutdown has begun - never because a reload is in      *)
(* between two Managers - and a driver that was once detected is not       *)
(* reported undetected again (buildFingerprint, SetConfig).                *)
ReloadsDoNotShow == [][fp.pc # "send" /\ fp'.pc = "send" =>
    /\ fp'.health = "unhealthy" => sick \/ shutdown # "up"
    /\ fp.health \in {"unhealthy", "healthy"} => fp'.health # "undetected"
    ]_fvars

(* A fingerprint of a Manager outlives that Manager, not the driver's      *)
(* having one.                                                             *)
Detected == fp.health \in {"unhealthy", "healthy"} => mgr # NoMgr

(* A driver that a fingerprint has found a Manager in keeps having one: it *)
(* is replaced, never taken away (SetConfig).                              *)
LEMMA DetectedInvariant == FSpec => []Detected
<1>1. FInit => Detected
  BY DEF FInit, Detected
<1>2. DInv /\ Detected /\ [FNext]_fvars => Detected'
  <2> SUFFICES ASSUME DInv, Detected, [FNext]_fvars PROVE Detected'
    OBVIOUS
  <2>1. [Next]_dvars /\ DInv'
    BY FrontendStepIsStep, NextDInv
  <2>2. mgr # NoMgr => mgr' # NoMgr
    <3>1. CASE mgr' = mgr
      BY <3>1
    <3>2. CASE mgr' # mgr
      <4>1. Up(mgr)'
        BY <2>1, <3>2, MgrChanges
      <4>2. mgr' \in made' /\ made' \subseteq Mgrs
        BY <2>1, <4>1 DEF Up, DInv, TypeOK
      <4> QED
        BY <4>2, NoneAssumption
    <3> QED
      BY <3>1, <3>2
  <2>3. CASE buildFingerprint
    <3>1. fp'.health = Health /\ mgr' = mgr
      BY <2>3 DEF buildFingerprint, dvars, configVars
    <3> QED
      BY <3>1 DEF Health, Detected
  <2>4. CASE FingerprintEnds
    BY <2>4 DEF FingerprintEnds, Detected
  <2>5. CASE Receive
    <3>1. fp' = [fp EXCEPT !.pc = "wait"]
      BY <2>5 DEF Receive
    <3>2. fp'.health = fp.health
      BY <3>1
    <3> QED
      BY <2>2, <3>2 DEF Detected
  <2>6. CASE UNCHANGED fp
    BY <2>2, <2>6 DEF Detected
  <2> QED
    BY <2>3, <2>4, <2>5, <2>6 DEF FNext, StorePolicy, Reconfigure, CheckPolicy,
       StartTask, NotInitialized, RecoverTask, Carry, Drop, ShutDown,
       ConnectionMoves, Cancel, fpVars, fvars
<1>3. FSpec => []DInv
  BY FrontendIsDriver, ConfigInvariant, PTL
<1> QED
  BY <1>1, <1>2, <1>3, PTL DEF FSpec

(* Every fingerprint keeps to that: it is built in one step from the       *)
(* Manager in use, which works (buildFingerprint).                         *)
THEOREM HealthIsTheConnections == FSpec => ReloadsDoNotShow
<1>1. ASSUME DInv, Detected, [FNext]_fvars, fp.pc # "send", fp'.pc = "send"
      PROVE  /\ fp'.health = "unhealthy" => sick \/ shutdown # "up"
             /\ fp.health \in {"unhealthy", "healthy"} => fp'.health # "undetected"
  <2>1. CASE buildFingerprint
    <3>1. fp'.health = Health
      BY <2>1 DEF buildFingerprint
    <3>2. mgr # NoMgr /\ shutdown = "up" => Up(mgr)
      BY <1>1 DEF DInv, TypeOK, HolderInv, DownInv, Up
    <3> QED
      BY <1>1, <3>1, <3>2 DEF Health, Detected
  <2>2. CASE FingerprintEnds
    BY <1>1, <2>2 DEF FingerprintEnds
  <2>3. CASE Receive
    BY <1>1, <2>3 DEF Receive
  <2>4. CASE UNCHANGED fp
    BY <1>1, <2>4
  <2> QED
    BY <1>1, <2>1, <2>2, <2>3, <2>4 DEF FNext, StorePolicy, Reconfigure,
       CheckPolicy, StartTask, NotInitialized, RecoverTask, Carry, Drop,
       ShutDown, ConnectionMoves, Cancel, fpVars, fvars
<1>2. DInv /\ Detected /\ [FNext]_fvars =>
        [fp.pc # "send" /\ fp'.pc = "send" =>
           /\ fp'.health = "unhealthy" => sick \/ shutdown # "up"
           /\ fp.health \in {"unhealthy", "healthy"} => fp'.health # "undetected"
        ]_fvars
  BY <1>1
<1>3. FSpec => []DInv
  BY FrontendIsDriver, ConfigInvariant, PTL
<1> QED
  BY <1>2, <1>3, DetectedInvariant, PTL DEF FSpec, ReloadsDoNotShow
=============================================================================
