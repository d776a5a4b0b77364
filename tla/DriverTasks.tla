---------------------------- MODULE DriverTasks -----------------------------
(***************************************************************************)
(* Many tasks on many units: the driver's StartTask, RecoverTask, StopTask *)
(* and DestroyTask (plugin/task.go) run concurrently, each a goroutine     *)
(* split where it takes or releases a lock or waits for DBus, over the     *)
(* state they share: unitOwners (plugin/unit.go), the task store, and the  *)
(* Manager's table of registered units.  The process may die at any point, *)
(* losing all of it; units and the handles Nomad persisted survive.        *)
(*                                                                         *)
(* A unit's state is systemd's and may change between any two steps, so a  *)
(* read of it returns anything and it has no variable here; TaskHandler    *)
(* and TaskTeardown model what becomes of one task.                        *)
(***************************************************************************)
CONSTANTS Tasks,        \* task IDs
          Units,        \* unit names
          Calls,        \* goroutines serving an RPC
          Ids,          \* identities of registrations and of their Handlers
          Serial,       \* Nomad has at most one lifecycle call out per task
          NoTask, NoUnit, NoId

ASSUME SerialAssumption == Serial \in BOOLEAN
ASSUME NoneAssumption == NoTask \notin Tasks /\ NoUnit \notin Units /\ NoId \notin Ids

VARIABLES
    owner,      \* Driver.unitOwners
    store,      \* Driver.tasks: the Handler of each known task
    reg,        \* Manager.units: the registration, hence wake channel, of a unit
    used,       \* identities given out
    handler,    \* the Handler of an identity: its task, unit and wake channel
    exited,     \* Handlers that observed their unit's exit
    stopped,    \* Handlers whose Stop has returned, or that died with the plugin
    stopping,   \* Handlers with a StopUnit goroutine of StopTask under way
    known,      \* the handles Nomad has persisted, as <<task, unit>>
    call        \* each goroutine's program counter and local variables

vars == <<owner, store, reg, used, handler, exited, stopped, stopping, known, call>>

NoHandler == [task |-> NoTask, unit |-> NoUnit, chan |-> NoId]

Pc == {"idle", "claim", "read", "start", "rollback", "release", "register",
       "build", "publish", "check", "stop", "halt", "unregister", "delete"}

Call == [pc : Pc, op : {"start", "recover", "destroy"}, task : Tasks \cup {NoTask},
         unit : Units \cup {NoUnit}, id : Ids \cup {NoId}, force : BOOLEAN]

Idle == [pc |-> "idle", op |-> "start", task |-> NoTask, unit |-> NoUnit,
         id |-> NoId, force |-> FALSE]

TypeOK == /\ owner \in [Units -> Tasks \cup {NoTask}]
          /\ store \in [Tasks -> Ids \cup {NoId}]
          /\ reg \in [Units -> Ids \cup {NoId}]
          /\ used \subseteq Ids
          /\ handler \in [Ids -> [task : Tasks \cup {NoTask},
                                  unit : Units \cup {NoUnit},
                                  chan : Ids \cup {NoId}]]
          /\ exited \subseteq Ids
          /\ stopped \subseteq Ids
          /\ stopping \subseteq Ids
          /\ known \subseteq Tasks \X Units
          /\ call \in [Calls -> Call]

Init == /\ owner = [u \in Units |-> NoTask]
        /\ store = [t \in Tasks |-> NoId]
        /\ reg = [u \in Units |-> NoId]
        /\ used = {}
        /\ handler = [k \in Ids |-> NoHandler]
        /\ exited = {}
        /\ stopped = {}
        /\ stopping = {}
        /\ known = {}
        /\ call = [c \in Calls |-> Idle]

-----------------------------------------------------------------------------
Goto(c, pc) == call' = [call EXCEPT ![c].pc = pc]
Return(c)   == call' = [call EXCEPT ![c] = Idle]

MayCall(t) == Serial => \A c \in Calls : call[c].task # t

Begin(c, t, u, k, op, pc, f) ==
    /\ call[c].pc = "idle"
    /\ MayCall(t)
    /\ call' = [call EXCEPT ![c] = [pc |-> pc, op |-> op, task |-> t, unit |-> u,
                                    id |-> k, force |-> f]]
    /\ UNCHANGED <<owner, store, reg, used, handler, exited, stopped, stopping, known>>

(* Both return at once for a task that is already in the store; a config   *)
(* that does not validate or that the unit policy denies is turned away    *)
(* here too, before anything is shared.                                    *)
StartTask(c, t, u) ==
    /\ store[t] = NoId
    /\ Begin(c, t, u, NoId, "start", "claim", FALSE)

RecoverTask(c, t, u) ==
    /\ <<t, u>> \in known
    /\ store[t] = NoId
    /\ Begin(c, t, u, NoId, "recover", "claim", FALSE)

(* Mutant: a unit is claimed whoever owns it.                              *)
ClaimAnyUnit(c) ==
    /\ call[c].pc = "claim"
    /\ owner' = [owner EXCEPT ![call[c].unit] = call[c].task]
    /\ Goto(c, "read")
    /\ UNCHANGED <<store, reg, used, handler, exited, stopped, stopping, known>>

(* claimUnit: a unit nobody owns, or that the same task owns already.      *)
ClaimUnit(c) ==
    /\ call[c].pc = "claim"
    /\ owner[call[c].unit] \in {NoTask, call[c].task}
    /\ owner' = [owner EXCEPT ![call[c].unit] = call[c].task]
    /\ Goto(c, "read")
    /\ UNCHANGED <<store, reg, used, handler, exited, stopped, stopping, known>>

ClaimRefused(c) ==
    /\ call[c].pc = "claim"
    /\ owner[call[c].unit] \notin {NoTask, call[c].task}
    /\ Return(c)
    /\ UNCHANGED <<owner, store, reg, used, handler, exited, stopped, stopping, known>>

(* A recovered task is registered whatever its unit's state; a new one     *)
(* starts a unit that is not running.                                      *)
ReadUnitState(c) ==
    /\ call[c].pc = "read"
    /\ \/ Goto(c, "register")
       \/ call[c].op = "start" /\ Goto(c, "start")
    /\ UNCHANGED <<owner, store, reg, used, handler, exited, stopped, stopping, known>>

(* Mutant: a failed read returns without giving the claim up.              *)
ReadFailsClaimed(c) ==
    /\ call[c].pc = "read"
    /\ Return(c)
    /\ UNCHANGED <<owner, store, reg, used, handler, exited, stopped, stopping, known>>

ReadFails(c) ==
    /\ call[c].pc = "read"
    /\ Goto(c, "release")
    /\ UNCHANGED <<owner, store, reg, used, handler, exited, stopped, stopping, known>>

(* Mutant: a failed start gives the claim up before it is rolled back.     *)
StartUnitReleases(c) ==
    /\ call[c].pc = "start"
    /\ \/ Goto(c, "register") /\ UNCHANGED owner
       \/ Goto(c, "rollback") /\ owner' = [owner EXCEPT ![call[c].unit] = NoTask]
    /\ UNCHANGED <<store, reg, used, handler, exited, stopped, stopping, known>>

StartUnit(c) ==
    /\ call[c].pc = "start"
    /\ Goto(c, "register") \/ Goto(c, "rollback")
    /\ UNCHANGED <<owner, store, reg, used, handler, exited, stopped, stopping, known>>

(* rollBackFailedStart's StopUnit, best effort: the claim is given up      *)
(* either way.                                                             *)
RollBackFailedStart(c) ==
    /\ call[c].pc = "rollback"
    /\ Goto(c, "release")
    /\ UNCHANGED <<owner, store, reg, used, handler, exited, stopped, stopping, known>>

(* RegisterUnit replaces the entry, hence the wake channel, of the unit.   *)
RegisterUnit(c) ==
    /\ call[c].pc = "register"
    /\ \E k \in Ids \ used :
          /\ used' = used \cup {k}
          /\ reg' = [reg EXCEPT ![call[c].unit] = k]
          /\ call' = [call EXCEPT ![c] = [@ EXCEPT !.pc = "build", !.id = k]]
    /\ UNCHANGED <<owner, store, handler, exited, stopped, stopping, known>>

(* Mutant: the wake channel was looked up before the unit was registered.  *)
NewHandlerDeaf(c) ==
    /\ call[c].pc = "build"
    /\ handler' = [handler EXCEPT ![call[c].id] =
                      [task |-> call[c].task, unit |-> call[c].unit, chan |-> NoId]]
    /\ \/ UNCHANGED exited
       \/ call[c].op = "recover" /\ exited' = exited \cup {call[c].id}
    /\ Goto(c, "publish")
    /\ UNCHANGED <<owner, store, reg, used, stopped, stopping, known>>

(* NewHandler, with the wake channel looked up afresh, and Handler.Start.  *)
(* A recovered task may have exited already.                               *)
NewHandler(c) ==
    /\ call[c].pc = "build"
    /\ handler' = [handler EXCEPT ![call[c].id] =
                      [task |-> call[c].task, unit |-> call[c].unit,
                       chan |-> reg[call[c].unit]]]
    /\ \/ UNCHANGED exited
       \/ call[c].op = "recover" /\ exited' = exited \cup {call[c].id}
    /\ Goto(c, "publish")
    /\ UNCHANGED <<owner, store, reg, used, stopped, stopping, known>>

(* tasks.Set, after which the call returns.                                *)
Publish(c) ==
    /\ call[c].pc = "publish"
    /\ store' = [store EXCEPT ![call[c].task] = call[c].id]
    /\ known' = known \cup {<<call[c].task, call[c].unit>>}
    /\ Return(c)
    /\ UNCHANGED <<owner, reg, used, handler, exited, stopped, stopping>>

-----------------------------------------------------------------------------
(* StopTask: the goroutine that stops the unit may outlive the call, which *)
(* is over as soon as the exit is observed or the unit is being killed.    *)
(* StopUnit does nothing more once Handler.Stop has cancelled its context. *)
StopTask(t) ==
    /\ store[t] # NoId
    /\ MayCall(t)
    /\ stopping' = stopping \cup {store[t]}
    /\ UNCHANGED <<owner, store, reg, used, handler, exited, stopped, known, call>>

StopUnitReturns(k) ==
    /\ k \in stopping
    /\ stopping' = stopping \ {k}
    /\ UNCHANGED <<owner, store, reg, used, handler, exited, stopped, known, call>>

(* The Handler's poller finds the unit inactive or failed.                 *)
ObserveExit(k) ==
    /\ handler[k] # NoHandler
    /\ k \notin stopped
    /\ k \notin exited
    /\ exited' = exited \cup {k}
    /\ UNCHANGED <<owner, store, reg, used, handler, stopped, stopping, known, call>>

-----------------------------------------------------------------------------
(* DestroyTask.  Like StopTask's, its StopUnit goroutine may outlive it.   *)
DestroyTask(c, t, f) ==
    /\ store[t] # NoId
    /\ Begin(c, t, handler[store[t]].unit, store[t], "destroy", "check", f)

DestroyCheck(c) ==
    /\ call[c].pc = "check"
    /\ \/ call[c].id \in exited /\ Goto(c, "halt") /\ UNCHANGED stopping
       \/ /\ call[c].id \notin exited /\ call[c].force
          /\ Goto(c, "stop")
          /\ stopping' = stopping \cup {call[c].id}
       \/ /\ call[c].id \notin exited /\ ~call[c].force
          /\ Return(c)
          /\ UNCHANGED stopping
    /\ UNCHANGED <<owner, store, reg, used, handler, exited, stopped, known>>

(* Stopped, killed, or given up on: the task is destroyed regardless.      *)
DestroyStops(c) ==
    /\ call[c].pc = "stop"
    /\ Goto(c, "halt")
    /\ UNCHANGED <<owner, store, reg, used, handler, exited, stopped, stopping, known>>

HandlerStop(c) ==
    /\ call[c].pc = "halt"
    /\ stopped' = stopped \cup {call[c].id}
    /\ Goto(c, "unregister")
    /\ UNCHANGED <<owner, store, reg, used, handler, exited, stopping, known>>

UnregisterUnit(c) ==
    /\ call[c].pc = "unregister"
    /\ reg' = [reg EXCEPT ![call[c].unit] = NoId]
    /\ Goto(c, "delete")
    /\ UNCHANGED <<owner, store, used, handler, exited, stopped, stopping, known>>

(* Mutant: the unit is given up while its task is still in the store.      *)
DeleteNothing(c) ==
    /\ call[c].pc = "delete"
    /\ Goto(c, "release")
    /\ UNCHANGED <<owner, store, reg, used, handler, exited, stopped, stopping, known>>

Delete(c) ==
    /\ call[c].pc = "delete"
    /\ store' = [store EXCEPT ![call[c].task] = NoId]
    /\ Goto(c, "release")
    /\ UNCHANGED <<owner, reg, used, handler, exited, stopped, stopping, known>>

(* releaseUnit, the last step of a DestroyTask and of a failed start or    *)
(* recovery.  It asks for no owner.                                        *)
ReleaseUnit(c) ==
    /\ call[c].pc = "release"
    /\ owner' = [owner EXCEPT ![call[c].unit] = NoTask]
    /\ known' = IF call[c].op = "destroy"
                  THEN known \ {<<call[c].task, call[c].unit>>} ELSE known
    /\ Return(c)
    /\ UNCHANGED <<store, reg, used, handler, exited, stopped, stopping>>

-----------------------------------------------------------------------------
(* The plugin process dies and is started again: New makes empty maps, and *)
(* no goroutine survives.                                                  *)
Crash ==
    /\ owner' = [u \in Units |-> NoTask]
    /\ store' = [t \in Tasks |-> NoId]
    /\ reg' = [u \in Units |-> NoId]
    /\ stopped' = used
    /\ stopping' = {}
    /\ call' = [c \in Calls |-> Idle]
    /\ UNCHANGED <<used, handler, exited, known>>

StartStep(c) == \/ ClaimUnit(c) \/ ClaimRefused(c) \/ ReadUnitState(c)
                \/ ReadFails(c) \/ StartUnit(c) \/ RollBackFailedStart(c)
                \/ RegisterUnit(c) \/ NewHandler(c) \/ Publish(c)

DestroyStep(c) == \/ DestroyCheck(c) \/ DestroyStops(c) \/ HandlerStop(c)
                  \/ UnregisterUnit(c) \/ Delete(c) \/ ReleaseUnit(c)

CallStep(c) ==
    \/ \E t \in Tasks, u \in Units : StartTask(c, t, u) \/ RecoverTask(c, t, u)
    \/ \E t \in Tasks, f \in BOOLEAN : DestroyTask(c, t, f)
    \/ StartStep(c)
    \/ DestroyStep(c)

Next == \/ \E c \in Calls : CallStep(c)
        \/ \E t \in Tasks : StopTask(t)
        \/ \E k \in Ids : StopUnitReturns(k) \/ ObserveExit(k)
        \/ Crash

Spec == Init /\ [][Next]_vars

-----------------------------------------------------------------------------
(* A call with its claim made and not yet given up.                        *)
Owning == Pc \ {"idle", "claim"}

(* The stages of a DestroyTask past Handler.Stop.                          *)
Ending == {"unregister", "delete", "release"}

Stored(t) == store[t] # NoId
UnitOf(t) == handler[store[t]].unit

(* plugin/driver.go:66: at most one task manages a unit at a time.         *)
OneManager == \A t1, t2 \in Tasks :
    Stored(t1) /\ Stored(t2) /\ t1 # t2 => UnitOf(t1) # UnitOf(t2)

(* A task in the store is really looked after: unless its own DestroyTask  *)
(* is past Handler.Stop, it owns its unit, its Handler is alive, and the   *)
(* wake channel that Handler listens to is the one the Manager signals -   *)
(* no step of another task's start, failed start or teardown, in whatever  *)
(* order they interleave, takes any of the three away.                     *)
StoredIsWatched == \A t \in Tasks :
    LET k == store[t] IN
    Stored(t) /\ (\A c \in Calls : call[c].task = t => call[c].pc \notin Ending) =>
        /\ owner[UnitOf(t)] = t
        /\ reg[UnitOf(t)] = k /\ handler[k].chan = k
        /\ k \notin stopped

(* Whoever is about to start, stop or kill a unit does so for the task     *)
(* that owns it, StopUnit goroutines that outlived their call included:    *)
(* no task's unit is ever stopped on behalf of another.                    *)
CommandsOwnTheirUnit ==
    /\ \A c \in Calls : call[c].pc \in {"start", "rollback", "stop"} =>
           owner[call[c].unit] = call[c].task
    /\ \A k \in stopping \ stopped : owner[handler[k].unit] = handler[k].task

(* Nothing is left behind by any path through the calls, failures and      *)
(* crashes included: a unit is owned only for a task in the store or a     *)
(* call at work on it, so it can be claimed again; a unit is registered    *)
(* only while it is owned; and a Handler that was not stopped is in the    *)
(* store or about to be.                                                   *)
NothingLeaks ==
    /\ \A u \in Units : owner[u] # NoTask =>
           \/ Stored(owner[u]) /\ UnitOf(owner[u]) = u
           \/ \E c \in Calls : /\ call[c].task = owner[u]
                               /\ call[c].unit = u
                               /\ call[c].pc \in Owning
    /\ \A u \in Units : reg[u] # NoId => owner[u] # NoTask
    /\ \A k \in Ids : handler[k] # NoHandler /\ k \notin stopped =>
           \/ store[handler[k].task] = k
           \/ \E c \in Calls : call[c].id = k /\ call[c].pc = "publish"

(* The unit each stored task is looked after on.                           *)
Serving == [t \in Tasks |-> IF Stored(t) THEN UnitOf(t) ELSE NoUnit]

Ownership == INSTANCE UnitOwnership WITH holder <- owner, serving <- Serving

(* The driver implements exclusive ownership: unitOwners is who holds a    *)
(* unit, and a task in the store serves its Handler's unit.                *)
KeepsOwnership == Ownership!OSpec

-----------------------------------------------------------------------------
(* Why the properties above hold when calls for one task do not overlap.   *)
AtWork(c) == call[c].pc # "idle"

CallsTyped == \A c \in Calls :
    /\ AtWork(c) => call[c].task \in Tasks /\ call[c].unit \in Units
    /\ ~AtWork(c) => call[c].task = NoTask /\ call[c].id = NoId

OneCallPerTask == \A c1, c2 \in Calls :
    AtWork(c1) /\ AtWork(c2) /\ call[c1].task = call[c2].task => c1 = c2

CallsOwn == \A c \in Calls :
    call[c].pc \in Owning => owner[call[c].unit] = call[c].task

(* What a StartTask or RecoverTask at work knows.                          *)
StartsInv == \A c \in Calls :
    LET x == call[c] IN
    /\ x.pc \in {"claim", "read", "start", "rollback", "release", "register",
                 "build", "publish"} => store[x.task] = NoId
    /\ x.pc \in {"claim", "read", "start", "rollback", "register"} =>
           x.id = NoId /\ x.op # "destroy"
    /\ x.pc \in {"build", "publish"} =>
           x.id \in used \ stopped /\ reg[x.unit] = x.id
    /\ x.pc = "build" => /\ handler[x.id] = NoHandler
                         /\ \A d \in Calls : call[d].id = x.id => d = c
    /\ x.pc = "publish" =>
           handler[x.id] = [task |-> x.task, unit |-> x.unit, chan |-> x.id]

(* What a DestroyTask at work knows.                                       *)
DestroysInv == \A c \in Calls :
    LET x == call[c] IN
    /\ x.pc \in {"check", "stop", "halt", "unregister", "delete"} =>
           x.id \in Ids /\ store[x.task] = x.id /\ handler[x.id].unit = x.unit
    /\ x.pc \in {"unregister", "delete"} => x.id \in stopped
    /\ x.pc \in {"delete", "release"} => reg[x.unit] = NoId

StoreInv == \A t \in Tasks : Stored(t) =>
    LET k == store[t] IN
    /\ k \in used /\ UnitOf(t) \in Units
    /\ handler[k] = [task |-> t, unit |-> UnitOf(t), chan |-> k]
    /\ owner[UnitOf(t)] = t
    /\ (\A c \in Calls : call[c].task = t => call[c].pc \notin Ending) =>
           k \notin stopped /\ reg[UnitOf(t)] = k

(* Where a registration and a live Handler come from.                      *)
RegInv == \A u \in Units : reg[u] # NoId =>
    \/ \E t \in Tasks : store[t] = reg[u] /\ UnitOf(t) = u
    \/ \E c \in Calls : /\ call[c].pc \in {"build", "publish"}
                        /\ call[c].unit = u

LiveInv == \A k \in Ids :
    /\ handler[k] # NoHandler /\ k \notin stopped =>
           \/ handler[k].task \in Tasks /\ store[handler[k].task] = k
           \/ \E c \in Calls : call[c].id = k /\ call[c].pc = "publish"
    /\ k \in stopping \ stopped =>
           handler[k].task \in Tasks /\ store[handler[k].task] = k
    /\ k \notin used => /\ handler[k] = NoHandler
                        /\ k \notin stopped
                        /\ \A c \in Calls : call[c].id # k
                        /\ \A u \in Units : reg[u] # k

OwnerInv == \A u \in Units : owner[u] # NoTask =>
    \/ Stored(owner[u]) /\ UnitOf(owner[u]) = u
    \/ \E c \in Calls : /\ call[c].task = owner[u]
                        /\ call[c].unit = u
                        /\ call[c].pc \in Owning

(* The inductive invariant: everything the goroutines know of the shared   *)
(* state between two of their steps, whatever the others do meanwhile      *)
(* (StartTask, RecoverTask, DestroyTask).                                  *)
IInv == /\ TypeOK
        /\ CallsTyped
        /\ OneCallPerTask
        /\ CallsOwn
        /\ StartsInv
        /\ DestroysInv
        /\ StoreInv
        /\ RegInv
        /\ LiveInv
        /\ OwnerInv
=============================================================================
