---------------------------- MODULE DriverConfig ----------------------------
(***************************************************************************)
(* The driver's own life (plugin/driver.go, plugin/pprof.go): SetConfig    *)
(* calls, which bring the pprof server in line and replace the Manager,    *)
(* the tasks whose Handlers keep the Manager they were built with, and     *)
(* Shutdown, which tears down all of it against a deadline.                *)
(*                                                                         *)
(* A task is here no more than what it needs of its Manager; TaskHandler   *)
(* and DriverTasks have the rest.  The unit policy, which SetConfig stores *)
(* first, and the Fingerprint streams are DriverFrontend's.                *)
(***************************************************************************)
EXTENDS Naturals

CONSTANTS Calls,        \* SetConfig calls
          Mgrs,         \* Managers
          Tasks,
          Addrs,        \* pprof addresses
          NoMgr, NoAddr

ASSUME NoneAssumption == NoMgr \notin Mgrs /\ NoAddr \notin Addrs

VARIABLES
    config,     \* each SetConfig call's program counter and local variables
    mgr,        \* Driver.systemdMgr
    made,       \* Managers that were connected and started
    stopCalls,  \* history: how often Manager.Stop was called on each
    pprof,      \* Driver.pprof: the address it was configured with, or NoAddr
    bound,      \* addresses a pprof server of the driver listens on
    task,       \* how far each task is
    units,      \* the Manager each task's Handler was built with
    running,    \* tasks whose unit is not down
    teardown,   \* program counter of Shutdown's goroutine
    shutdown    \* program counter of Shutdown itself

configVars == <<config, mgr, made, stopCalls>>
pprofVars  == <<pprof, bound>>
taskVars   == <<task, units, running>>
downVars   == <<teardown, shutdown>>
dvars == <<configVars, pprofVars, taskVars, downVars>>

Idle == [pc |-> "idle", addr |-> NoAddr, new |-> NoMgr, old |-> NoMgr]

TypeOK ==
    /\ config \in [Calls -> [pc : {"idle", "pprof", "connect", "swap", "stop", "join"},
                             addr : Addrs \cup {NoAddr},
                             new : Mgrs \cup {NoMgr}, old : Mgrs \cup {NoMgr}]]
    /\ mgr \in Mgrs \cup {NoMgr}
    /\ made \subseteq Mgrs
    /\ stopCalls \in [Mgrs -> Nat]
    /\ pprof \in Addrs \cup {NoAddr}
    /\ bound \subseteq Addrs
    /\ task \in [Tasks -> {"none", "starting", "started", "watched", "exited", "ending"}]
    /\ units \in [Tasks -> Mgrs \cup {NoMgr}]
    /\ running \subseteq Tasks
    /\ teardown \in {"up", "tasks", "handlers", "manager", "pprof", "done"}
    /\ shutdown \in {"up", "waiting", "returned", "abandoned"}

Init == /\ config = [c \in Calls |-> Idle]
        /\ mgr = NoMgr
        /\ made = {}
        /\ stopCalls = [m \in Mgrs |-> 0]
        /\ pprof = NoAddr
        /\ bound = {}
        /\ task = [t \in Tasks |-> "none"]
        /\ units = [t \in Tasks |-> NoMgr]
        /\ running = {}
        /\ teardown = "up"
        /\ shutdown = "up"

(* A Manager that was asked to stop has no connection to use any more.     *)
Up(m) == m \in made /\ stopCalls[m] = 0

StopManager(m) == stopCalls' = [stopCalls EXCEPT ![m] = @ + 1]

Goto(c, pc) == config' = [config EXCEPT ![c].pc = pc]
Return(c)   == config' = [config EXCEPT ![c] = Idle]

-----------------------------------------------------------------------------
(* SetConfig.  A config that does not decode, or whose policy does not     *)
(* compile, is turned away before anything changes.                        *)
SetConfig(c, a) ==
    /\ shutdown = "up"
    /\ config[c].pc = "idle"
    /\ config' = [config EXCEPT ![c] = [Idle EXCEPT !.pc = "pprof", !.addr = a]]
    /\ UNCHANGED <<mgr, made, stopCalls, pprofVars, taskVars, downVars>>

(* The address has served its purpose.                                     *)
GoOn(c) == config' = [config EXCEPT ![c] = [Idle EXCEPT !.pc = "connect"]]

(* Mutant: an address that cannot be bound is taken for the running one.   *)
ConfigurePprofHasty(c) ==
    /\ config[c].pc = "pprof"
    /\ LET a == config[c].addr
           free == bound \ {pprof}
       IN  \/ pprof = a /\ GoOn(c) /\ UNCHANGED pprofVars
           \/ /\ pprof # a
              /\ pprof' = a
              /\ bound' = free \cup ({a} \ {NoAddr})
              /\ GoOn(c)
           \/ /\ pprof # a /\ a # NoAddr
              /\ pprof' = a
              /\ bound' = free
              /\ Return(c)
    /\ UNCHANGED <<mgr, made, stopCalls, taskVars, downVars>>

(* configurePprof, under its lock: an address that did not change is left  *)
(* alone; otherwise the old server is stopped before the new address is    *)
(* bound, and a bind that fails fails the call.                            *)
ConfigurePprof(c) ==
    /\ config[c].pc = "pprof"
    /\ LET a == config[c].addr
           free == bound \ {pprof}
       IN  \/ pprof = a /\ GoOn(c) /\ UNCHANGED pprofVars
           \/ /\ pprof # a
              /\ pprof' = a
              /\ bound' = free \cup ({a} \ {NoAddr})
              /\ GoOn(c)
           \/ /\ pprof # a /\ a # NoAddr
              /\ pprof' = NoAddr
              /\ bound' = free
              /\ Return(c)
    /\ UNCHANGED <<mgr, made, stopCalls, taskVars, downVars>>

(* Mutant: the current Manager is stopped before there is another.         *)
ConnectStopsFirst(c) ==
    /\ config[c].pc = "connect"
    /\ \/ \E m \in Mgrs \ made :
              /\ made' = made \cup {m}
              /\ config' = [config EXCEPT ![c] = [Idle EXCEPT !.pc = "swap", !.new = m]]
       \/ Return(c) /\ UNCHANGED made
    /\ IF mgr # NoMgr THEN StopManager(mgr) ELSE UNCHANGED stopCalls
    /\ UNCHANGED <<mgr, pprofVars, taskVars, downVars>>

(* NewManager, which fails when the bus is out of reach, and Start.        *)
Connect(c) ==
    /\ config[c].pc = "connect"
    /\ \/ \E m \in Mgrs \ made :
              /\ made' = made \cup {m}
              /\ config' = [config EXCEPT ![c] = [Idle EXCEPT !.pc = "swap", !.new = m]]
       \/ Return(c) /\ UNCHANGED made
    /\ UNCHANGED <<mgr, stopCalls, pprofVars, taskVars, downVars>>

(* Mutant: the Manager that was replaced is forgotten.                     *)
SwapForgets(c) ==
    /\ config[c].pc = "swap"
    /\ mgr' = config[c].new
    /\ Return(c)
    /\ UNCHANGED <<made, stopCalls, pprofVars, taskVars, downVars>>

(* The atomic swap, and what it leaves to be stopped.                      *)
Swap(c) ==
    /\ config[c].pc = "swap"
    /\ mgr' = config[c].new
    /\ IF mgr = NoMgr
         THEN Return(c)
         ELSE config' = [config EXCEPT ![c] = [Idle EXCEPT !.pc = "stop", !.old = mgr]]
    /\ UNCHANGED <<made, stopCalls, pprofVars, taskVars, downVars>>

StopOld(c) ==
    /\ config[c].pc = "stop"
    /\ StopManager(config[c].old)
    /\ Goto(c, "join")
    /\ UNCHANGED <<mgr, made, pprofVars, taskVars, downVars>>

OldStopped(c) ==
    /\ config[c].pc = "join"
    /\ Return(c)
    /\ UNCHANGED <<mgr, made, stopCalls, pprofVars, taskVars, downVars>>

-----------------------------------------------------------------------------
(* StartTask and RecoverTask take the current Manager, once, and use it    *)
(* for all they do; the Handler they build keeps it.                       *)
GetManager(t) ==
    /\ shutdown = "up"
    /\ task[t] = "none"
    /\ mgr # NoMgr
    /\ task' = [task EXCEPT ![t] = "starting"]
    /\ units' = [units EXCEPT ![t] = mgr]
    /\ UNCHANGED <<running, configVars, pprofVars, downVars>>

StartFails(t) ==
    /\ task[t] = "starting"
    /\ task' = [task EXCEPT ![t] = "none"]
    /\ UNCHANGED <<units, running, configVars, pprofVars, downVars>>

StartUnit(t) ==
    /\ task[t] = "starting"
    /\ Up(units[t])
    /\ task' = [task EXCEPT ![t] = "started"]
    /\ running' = running \cup {t}
    /\ UNCHANGED <<units, configVars, pprofVars, downVars>>

(* RegisterUnit, NewHandler, Handler.Start, tasks.Set: none of them fails. *)
Watch(t) ==
    /\ task[t] = "started"
    /\ task' = [task EXCEPT ![t] = "watched"]
    /\ UNCHANGED <<units, running, configVars, pprofVars, downVars>>

UnitStops(t) ==
    /\ t \in running
    /\ running' = running \ {t}
    /\ UNCHANGED <<task, units, configVars, pprofVars, downVars>>

(* The poller reads the unit's state through its Handler's Manager.        *)
ObserveExit(t) ==
    /\ task[t] = "watched"
    /\ t \notin running
    /\ Up(units[t])
    /\ task' = [task EXCEPT ![t] = "exited"]
    /\ UNCHANGED <<units, running, configVars, pprofVars, downVars>>

DestroyTask(t) ==
    /\ shutdown = "up"
    /\ task[t] \in {"watched", "exited"}
    /\ task' = [task EXCEPT ![t] = "none"]
    /\ UNCHANGED <<units, running, configVars, pprofVars, downVars>>

-----------------------------------------------------------------------------
(* Shutdown runs when Nomad has stopped issuing RPCs.  Its goroutine takes *)
(* the Handlers out of the store and stops them, then the Manager, then    *)
(* the pprof server.                                                       *)
Shutdown ==
    /\ shutdown = "up"
    /\ \A c \in Calls : config[c].pc = "idle"
    /\ \A t \in Tasks : task[t] \notin {"starting", "started"}
    /\ shutdown' = "waiting"
    /\ teardown' = "tasks"
    /\ UNCHANGED <<configVars, pprofVars, taskVars>>

StopTasks ==
    /\ teardown = "tasks"
    /\ teardown' = "handlers"
    /\ task' = [t \in Tasks |-> IF task[t] \in {"watched", "exited"} THEN "ending"
                                                                    ELSE task[t]]
    /\ UNCHANGED <<units, running, configVars, pprofVars, shutdown>>

(* A Handler's goroutines end when the call they are in does, if it does.  *)
HandlerEnds(t) ==
    /\ task[t] = "ending"
    /\ task' = [task EXCEPT ![t] = "none"]
    /\ UNCHANGED <<units, running, configVars, pprofVars, downVars>>

TeardownManager ==
    /\ teardown = "handlers"
    /\ \A t \in Tasks : task[t] # "ending"
    /\ teardown' = "manager"
    /\ IF mgr # NoMgr THEN StopManager(mgr) ELSE UNCHANGED stopCalls
    /\ UNCHANGED <<config, mgr, made, pprofVars, taskVars, shutdown>>

ManagerStopped ==
    /\ teardown = "manager"
    /\ teardown' = "pprof"
    /\ UNCHANGED <<configVars, pprofVars, taskVars, shutdown>>

(* Mutant: the pprof server is forgotten, not stopped.                     *)
TeardownPprofForgets ==
    /\ teardown = "pprof"
    /\ teardown' = "done"
    /\ pprof' = NoAddr
    /\ UNCHANGED <<bound, configVars, taskVars, shutdown>>

TeardownPprof ==
    /\ teardown = "pprof"
    /\ teardown' = "done"
    /\ pprof' = NoAddr
    /\ bound' = bound \ {pprof}
    /\ UNCHANGED <<configVars, taskVars, shutdown>>

ShutdownDone ==
    /\ shutdown = "waiting"
    /\ teardown = "done"
    /\ shutdown' = "returned"
    /\ UNCHANGED <<configVars, pprofVars, taskVars, teardown>>

(* Mutant: the deadline is checked between stages only.                    *)
ShutdownTimesOutLate ==
    /\ shutdown = "waiting"
    /\ teardown # "handlers"
    /\ shutdown' = "abandoned"
    /\ UNCHANGED <<configVars, pprofVars, taskVars, teardown>>

ShutdownTimesOut ==
    /\ shutdown = "waiting"
    /\ shutdown' = "abandoned"
    /\ UNCHANGED <<configVars, pprofVars, taskVars, teardown>>

(* Shutdown's last act, signalShutdown: a pprof server that is still there *)
(* stops with the driver's context.                                        *)
ContextDone ==
    /\ shutdown \in {"returned", "abandoned"}
    /\ bound # {}
    /\ bound' = {}
    /\ UNCHANGED <<pprof, configVars, taskVars, downVars>>

ConfigStep(c) == ConfigurePprof(c) \/ Connect(c) \/ Swap(c) \/ StopOld(c) \/ OldStopped(c)

TaskStep(t) == \/ GetManager(t) \/ StartFails(t) \/ StartUnit(t) \/ Watch(t)
               \/ UnitStops(t) \/ ObserveExit(t) \/ DestroyTask(t) \/ HandlerEnds(t)

TeardownStep == StopTasks \/ TeardownManager \/ ManagerStopped \/ TeardownPprof

Next == \/ \E c \in Calls : \/ \E a \in Addrs \cup {NoAddr} : SetConfig(c, a)
                            \/ ConfigStep(c)
        \/ \E t \in Tasks : TaskStep(t)
        \/ Shutdown \/ TeardownStep \/ ShutdownDone \/ ShutdownTimesOut \/ ContextDone

Spec == Init /\ [][Next]_dvars

(* A call that can go on does, a poller that can read an exit does - its   *)
(* ticker sees to that - and the deadline of Shutdown passes.  Nothing is  *)
(* assumed of Handlers that are being stopped: a goroutine may be stuck.   *)
Fairness == /\ \A c \in Calls : WF_dvars(ConfigStep(c))
            /\ \A t \in Tasks : WF_dvars(ObserveExit(t)) /\ WF_dvars(Watch(t))
            /\ WF_dvars(TeardownStep)
            /\ WF_dvars(ShutdownDone) /\ WF_dvars(ShutdownTimesOut)

FairSpec == Spec /\ Fairness

-----------------------------------------------------------------------------
(* The Manager the driver uses works: from the first SetConfig to Shutdown *)
(* there is always one that nobody has stopped, although reloads overlap,  *)
(* and fail at any step (SetConfig).                                       *)
CurrentWorks == mgr # NoMgr /\ shutdown = "up" => Up(mgr)

(* pkg/systemd/systemd.go: Manager.Stop is called at most once on each     *)
(* Manager, by whichever of overlapping reloads and Shutdown replaced it.  *)
StoppedOnce == \A m \in Mgrs : stopCalls[m] <= 1

(* No Manager is lost: one that still has its connection and goroutines is *)
(* in use, or held by a SetConfig call that will put it in use or stop it. *)
NoManagerLost == \A m \in Mgrs : Up(m) =>
    \/ m = mgr
    \/ \E c \in Calls : \/ config[c].pc = "swap" /\ config[c].new = m
                        \/ config[c].pc = "stop" /\ config[c].old = m

(* What the driver takes for its pprof server is listening, and no other:  *)
(* a later reload to an address it has "already" would otherwise leave it  *)
(* without a server, and one away from a forgotten address could never     *)
(* come back to it (configurePprof's failure path).                        *)
PprofListens == /\ bound \subseteq {pprof} \ {NoAddr}
                /\ shutdown \in {"up", "waiting"} => bound = {pprof} \ {NoAddr}

(* plugin/driver.go's "Handlers before the manager": Shutdown takes the    *)
(* Manager down only when no Handler reads through it any more.            *)
HandlersFirst ==
    teardown \in {"manager", "pprof", "done"} => \A t \in Tasks : task[t] = "none"

(* A Shutdown that was not abandoned leaves nothing: no Handler, no        *)
(* Manager - those that reloads replaced included - and no pprof server.   *)
ShutdownIsClean ==
    shutdown = "returned" => /\ \A t \in Tasks : task[t] = "none"
                             /\ \A m \in Mgrs : ~Up(m)
                             /\ bound = {}

(* Shutdown returns, though a Handler it waits for may be stuck.           *)
ShutdownReturns == shutdown = "waiting" ~> shutdown \in {"returned", "abandoned"}

(* Reloads, even failing ones, do not blind the tasks of the Manager in    *)
(* use: the exit of a task is observed unless the task is torn down or its *)
(* Manager was replaced.                                                   *)
ExitObservedUnlessReloaded == \A t \in Tasks :
    task[t] = "watched" /\ t \notin running ~>
        \/ task[t] # "watched" \/ t \in running
        \/ units[t] # mgr

(* pkg/task/doc.go:4: a Handler "watches one unit, [...] resolves the      *)
(* task's exit result once the unit stops".  A reload breaks this for the  *)
(* tasks it finds: their Handlers keep a Manager that is stopped.          *)
ExitObserved == \A t \in Tasks :
    task[t] = "watched" /\ t \notin running ~> task[t] # "watched" \/ t \in running

-----------------------------------------------------------------------------
(* Why the safety properties hold: a Manager has one holder - it is in     *)
(* use, about to be, or about to be stopped - and only its holder stops it.*)
Held(m) == m \in made /\ stopCalls[m] = 0 /\ m # mgr

HolderInv ==
    /\ mgr # NoMgr => mgr \in made
    /\ \A m \in Mgrs : m \notin made => stopCalls[m] = 0
    /\ \A c \in Calls :
          /\ config[c].pc = "swap" => Held(config[c].new)
          /\ config[c].pc = "stop" => Held(config[c].old)

OneHolder == \A c, d \in Calls : c # d =>
    /\ config[c].pc = "swap" /\ config[d].pc = "swap" =>
          config[c].new # config[d].new
    /\ config[c].pc = "stop" /\ config[d].pc = "stop" =>
          config[c].old # config[d].old
    /\ config[c].pc = "swap" /\ config[d].pc = "stop" =>
          config[c].new # config[d].old

(* How far Shutdown is, and what is gone by then.                          *)
DownInv ==
    /\ shutdown = "up" <=> teardown = "up"
    /\ shutdown = "returned" => teardown = "done"
    /\ shutdown # "up" => /\ \A c \in Calls : config[c].pc = "idle"
                          /\ \A t \in Tasks : task[t] \notin {"starting", "started"}
    /\ teardown \in {"up", "tasks", "handlers"} /\ mgr # NoMgr => stopCalls[mgr] = 0
    /\ teardown \in {"manager", "pprof", "done"} /\ mgr # NoMgr => stopCalls[mgr] = 1
    /\ teardown = "handlers" => \A t \in Tasks : task[t] \in {"none", "ending"}
    /\ teardown = "up" => \A t \in Tasks : task[t] # "ending"
    /\ teardown = "done" => pprof = NoAddr

(* The inductive invariant of a driver.                                    *)
DInv == /\ TypeOK /\ HolderInv /\ OneHolder /\ DownInv
        /\ StoppedOnce /\ NoManagerLost /\ PprofListens /\ HandlersFirst
=============================================================================
