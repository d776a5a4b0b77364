--------------------------- MODULE DriverFrontend ---------------------------
(***************************************************************************)
(* The driver as Nomad sees it come and go: DriverConfig with the unit     *)
(* policy (plugin/unit.go), which every SetConfig replaces and StartTask   *)
(* asks, and a Fingerprint stream (plugin/fingerprint.go), which reports   *)
(* the health of whatever Manager is in use.                               *)
(*                                                                         *)
(* A pattern is the set of the units it matches.  The attributes that go   *)
(* with a fingerprint are left out.                                        *)
(***************************************************************************)
EXTENDS DriverConfig

CONSTANTS Units,
          UnitOf,       \* the unit each task asks for
          Configs,      \* what a plugin block may hold: an address, a policy
          NoPolicy      \* the nil policy, of a driver without a config

ASSUME UnitOfAssumption == UnitOf \in [Tasks -> Units]
ASSUME ConfigsAssumption ==
    Configs \subseteq [addr : Addrs \cup {NoAddr},
                       policy : [allowed : SUBSET SUBSET Units,
                                 denied : SUBSET SUBSET Units]]

VARIABLES
    policy,     \* Driver.unitPolicy
    origin,     \* the RPC that each task comes from
    excused,    \* history: a policy in force during its StartTask permits it
    sick,       \* the Manager in use is without a connection
    fp,         \* the stream: its program counter, and the health it offers,
                \* or was last received
    listening   \* Nomad has not cancelled the stream's context

policyVars == <<policy, origin, excused>>
fpVars == <<fp, listening>>
fvars == <<dvars, policyVars, sick, fpVars>>

FTypeOK ==
    /\ policy \in {g.policy : g \in Configs} \cup {NoPolicy}
    /\ origin \in [Tasks -> {"none", "start", "recover"}]
    /\ excused \in [Tasks -> BOOLEAN]
    /\ sick \in BOOLEAN
    /\ fp \in [pc : {"wait", "send", "ended"},
               health : {"none", "undetected", "unhealthy", "healthy"}]
    /\ listening \in BOOLEAN

FInit == /\ Init
         /\ policy = NoPolicy
         /\ origin = [t \in Tasks |-> "none"]
         /\ excused = [t \in Tasks |-> FALSE]
         /\ sick = FALSE
         /\ fp = [pc |-> "wait", health |-> "none"]
         /\ listening = TRUE

-----------------------------------------------------------------------------
(* Mutant: a unit that the allowlist has is not looked up any further.     *)
checkAllowedFirst(p, u) == \/ \E a \in p.allowed : u \in a
                           \/ ~\E d \in p.denied : u \in d

(* unitPolicy.check.                                                       *)
check(p, u) == /\ ~\E d \in p.denied : u \in d
               /\ p.allowed = {} \/ \E a \in p.allowed : u \in a

Permitted(p, u) ==
    p = NoPolicy \/ u \in (IF p.allowed = {} THEN Units ELSE UNION p.allowed)
                            \ UNION p.denied

(* SetConfig: the policy is in force at once, whatever becomes of the call *)
(* afterwards.                                                             *)
StorePolicy(c) == \E g \in Configs :
    /\ SetConfig(c, g.addr)
    /\ policy' = g.policy
    /\ excused' = [t \in Tasks |-> excused[t] \/ /\ origin[t] = "start"
                                                 /\ task[t] = "none"
                                                 /\ Permitted(g.policy, UnitOf[t])]
    /\ UNCHANGED <<origin, sick, fpVars>>

(* The rest of SetConfig.  A new Manager is connected.                     *)
Reconfigure(c) ==
    /\ ConfigStep(c)
    /\ IF mgr' = mgr THEN UNCHANGED sick ELSE sick' = FALSE
    /\ UNCHANGED <<policyVars, fpVars>>

(* StartTask, up to the policy, and on to the Manager, if there is one.    *)
CheckPolicy(t) ==
    /\ shutdown = "up"
    /\ task[t] = "none" /\ origin[t] = "none"
    /\ policy # NoPolicy => check(policy, UnitOf[t])
    /\ origin' = [origin EXCEPT ![t] = "start"]
    /\ excused' = [excused EXCEPT ![t] = Permitted(policy, UnitOf[t])]
    /\ UNCHANGED <<dvars, policy, sick, fpVars>>

StartTask(t) ==
    /\ origin[t] = "start"
    /\ GetManager(t)
    /\ UNCHANGED <<policyVars, sick, fpVars>>

NotInitialized(t) ==
    /\ origin[t] = "start" /\ task[t] = "none"
    /\ mgr = NoMgr
    /\ origin' = [origin EXCEPT ![t] = "none"]
    /\ excused' = [excused EXCEPT ![t] = FALSE]
    /\ UNCHANGED <<dvars, policy, sick, fpVars>>

(* "tightening the policy must not orphan a unit already under management".*)
RecoverTask(t) ==
    /\ origin[t] = "none"
    /\ GetManager(t)
    /\ origin' = [origin EXCEPT ![t] = "recover"]
    /\ UNCHANGED <<policy, excused, sick, fpVars>>

(* A task that is under way, and one that goes.                            *)
Carry(t) ==
    /\ StartUnit(t) \/ Watch(t) \/ UnitStops(t) \/ ObserveExit(t)
    /\ UNCHANGED <<policyVars, sick, fpVars>>

Drop(t) ==
    /\ StartFails(t) \/ DestroyTask(t) \/ HandlerEnds(t)
    /\ origin' = [origin EXCEPT ![t] = "none"]
    /\ excused' = [excused EXCEPT ![t] = FALSE]
    /\ UNCHANGED <<policy, sick, fpVars>>

ShutDown ==
    /\ \/ Shutdown /\ \A t \in Tasks : origin[t] = "start" => task[t] # "none"
       \/ TeardownStep \/ ShutdownDone \/ ShutdownTimesOut \/ ContextDone
    /\ UNCHANGED <<policyVars, sick, fpVars>>

-----------------------------------------------------------------------------
(* The connection of the Manager in use drops, or is made anew, as long as *)
(* the stream is there to tell.                                            *)
ConnectionMoves ==
    /\ mgr # NoMgr /\ Up(mgr) /\ fp.pc # "ended"
    /\ sick' = ~sick
    /\ UNCHANGED <<dvars, policyVars, fpVars>>

Health == IF mgr = NoMgr THEN "undetected"
          ELSE IF sick \/ ~Up(mgr) THEN "unhealthy" ELSE "healthy"

ContextIsDone == ~listening \/ shutdown \in {"returned", "abandoned"}

(* Mutant: the first fingerprint is repeated.                              *)
BuildOnce ==
    /\ fp.pc = "wait"
    /\ fp' = [pc |-> "send", health |-> IF fp.health = "none" THEN Health ELSE fp.health]
    /\ UNCHANGED <<dvars, policyVars, sick, listening>>

(* handleFingerprint: the timer fires, and what is built waits to be sent. *)
buildFingerprint ==
    /\ fp.pc = "wait"
    /\ fp' = [pc |-> "send", health |-> Health]
    /\ UNCHANGED <<dvars, policyVars, sick, listening>>

Receive ==
    /\ fp.pc = "send"
    /\ listening
    /\ fp' = [fp EXCEPT !.pc = "wait"]
    /\ UNCHANGED <<dvars, policyVars, sick, listening>>

Cancel ==
    /\ listening
    /\ listening' = FALSE
    /\ UNCHANGED <<dvars, policyVars, sick, fp>>

(* Mutant: a fingerprint that is built must be sent.                       *)
FingerprintEndsWaiting ==
    /\ fp.pc = "wait"
    /\ ContextIsDone
    /\ fp' = [pc |-> "ended", health |-> "none"]
    /\ UNCHANGED <<dvars, policyVars, sick, listening>>

FingerprintEnds ==
    /\ fp.pc # "ended"
    /\ ContextIsDone
    /\ fp' = [pc |-> "ended", health |-> "none"]
    /\ UNCHANGED <<dvars, policyVars, sick, listening>>

FNext == \/ \E c \in Calls : StorePolicy(c) \/ Reconfigure(c)
         \/ \E t \in Tasks : \/ CheckPolicy(t) \/ StartTask(t) \/ NotInitialized(t)
                             \/ RecoverTask(t) \/ Carry(t) \/ Drop(t)
         \/ ShutDown \/ ConnectionMoves
         \/ buildFingerprint \/ Receive \/ Cancel \/ FingerprintEnds

(* The timer fires, Nomad receives while it listens, and select, with a    *)
(* context that is done for good, takes that branch in the end.            *)
FFairness == /\ Fairness
             /\ WF_fvars(buildFingerprint) /\ WF_fvars(Receive)
             /\ WF_fvars(FingerprintEnds)

FSpec == FInit /\ [][FNext]_fvars /\ FFairness

-----------------------------------------------------------------------------
(* README.md's "allowed_units / denied_units restrict which units are      *)
(* eligible at all": a StartTask that is past its check was permitted by a *)
(* policy in force during the call, although reloads replace the policy    *)
(* between the check and the start, and may fail once they have            *)
(* (StartTask, unitPolicy.check).                                          *)
PermittedByPolicy == \A t \in Tasks : origin[t] = "start" => excused[t]

(* The inductive invariant of the frontend.                                *)
FInv == FTypeOK /\ PermittedByPolicy

(* The stream ends with its consumer or with the driver: "a caller that    *)
(* stopped listening cannot leak this goroutine" (handleFingerprint).      *)
StreamEnds == ContextIsDone ~> fp.pc = "ended"

(* A health that lasts is what Nomad hears of again and again, whichever   *)
(* Managers came and went before it (buildFingerprint).                    *)
HealthIsTold == \A h \in {"undetected", "unhealthy", "healthy"} :
    <>[](Health = h /\ fp.pc # "ended") => []<>(fp = [pc |-> "wait", health |-> h])
=============================================================================
