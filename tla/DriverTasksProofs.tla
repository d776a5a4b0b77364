------------------------- MODULE DriverTasksProofs --------------------------
(***************************************************************************)
(* Proofs about DriverTasks, for any tasks, units and number of goroutines *)
(* and any number of crashes.  When Nomad has at most one lifecycle call   *)
(* out per task (Serial), IInv, stated in DriverTasks, is inductive: one   *)
(* lemma per action shows that the action preserves each of its parts, and *)
(* the promises of the driver follow from it.  What remains true when the  *)
(* calls of one task overlap is proved from FreeInv, below.                *)
(***************************************************************************)
EXTENDS DriverTasks, TLAPS

USE NoneAssumption, SerialAssumption

(* How an action changes call: goroutine c goes on to a place in S, or     *)
(* returns.                                                                *)
Moved(c, S) ==
    /\ call' \in [Calls -> Call]
    /\ \A d \in Calls \ {c} : call'[d] = call[d]
    /\ call'[c].pc \in S
    /\ call'[c].task = call[c].task /\ call'[c].unit = call[c].unit
    /\ call'[c].id = call[c].id /\ call'[c].op = call[c].op

Returned(c) ==
    /\ call' \in [Calls -> Call]
    /\ \A d \in Calls \ {c} : call'[d] = call[d]
    /\ call'[c].pc = "idle" /\ call'[c].task = NoTask /\ call'[c].id = NoId

(* What TypeOK says of each goroutine, field by field.                     *)
Fields ==
    /\ call \in [Calls -> Call]
    /\ \A d \in Calls : /\ call[d].pc \in Pc
                        /\ call[d].op \in {"start", "recover", "destroy"}
                        /\ call[d].task \in Tasks \cup {NoTask}
                        /\ call[d].unit \in Units \cup {NoUnit}
                        /\ call[d].id \in Ids \cup {NoId}

(* The fields of a well-typed call are well typed.                         *)
LEMMA FieldsTyped == TypeOK => Fields
  BY DEF TypeOK, Fields, Call

(* Goto moves a goroutine and leaves the others and its own variables.     *)
LEMMA MoveGoto ==
    ASSUME Fields, NEW c \in Calls, NEW S, NEW p \in S \cap Pc, Goto(c, p)
    PROVE  Moved(c, S)
  BY DEF Fields, Goto, Moved, Call

(* Return makes a goroutine idle and leaves the others.                    *)
LEMMA MoveReturn ==
    ASSUME Fields, NEW c \in Calls, Return(c)
    PROVE  Returned(c)
  BY DEF Fields, Return, Returned, Call, Idle, Pc

(* What the invariant says of the Handler of a task in the store.          *)
LEMMA StoredFacts ==
    ASSUME IInv, NEW t \in Tasks, store[t] # NoId
    PROVE  /\ store[t] \in Ids \cap used
           /\ handler[store[t]].task = t /\ handler[store[t]].unit \in Units
           /\ handler[store[t]].chan = store[t]
           /\ handler[store[t]] # NoHandler
           /\ owner[handler[store[t]].unit] = t
<1>1. store[t] \in Ids
  BY DEF IInv, TypeOK
<1>2. /\ store[t] \in used /\ handler[store[t]].unit \in Units
      /\ handler[store[t]] = [task |-> t, unit |-> UnitOf(t), chan |-> store[t]]
      /\ owner[handler[store[t]].unit] = t
  BY DEF IInv, StoreInv, Stored, UnitOf
<1>3. NoHandler.task # t
  BY DEF NoHandler
<1> QED
  BY <1>1, <1>2, <1>3

(* A start or recovery that has not registered its unit yet finds it       *)
(* unregistered: any registration would be that of another task that owns  *)
(* the unit.                                                               *)
LEMMA UnregisteredStart ==
    ASSUME IInv, NEW c \in Calls, call[c].pc \in {"read", "start", "rollback"}
    PROVE  reg[call[c].unit] = NoId
<1> SUFFICES ASSUME reg[call[c].unit] # NoId PROVE FALSE
  OBVIOUS
<1>1. /\ call[c].task \in Tasks /\ call[c].unit \in Units
      /\ store[call[c].task] = NoId /\ owner[call[c].unit] = call[c].task
  BY DEF IInv, CallsTyped, AtWork, StartsInv, CallsOwn, Owning, Pc
<1>2. CASE \E t \in Tasks : store[t] = reg[call[c].unit] /\ UnitOf(t) = call[c].unit
  BY <1>1, <1>2, StoredFacts DEF UnitOf
<1>3. CASE \E d \in Calls : /\ call[d].pc \in {"build", "publish"}
                            /\ call[d].unit = call[c].unit
  BY <1>1, <1>3 DEF IInv, CallsOwn, Owning, Pc, OneCallPerTask, AtWork
<1> QED
  BY <1>1, <1>2, <1>3 DEF IInv, RegInv

(* StartTask and RecoverTask: a call that begins is the only one for its   *)
(* task, and knows nothing yet.                                            *)
LEMMA BeginsStep ==
    ASSUME IInv, NEW c \in Calls, NEW t \in Tasks, NEW u \in Units,
           call[c].pc = "idle", store[t] = NoId, \A d \in Calls : call[d].task # t,
           call' \in [Calls -> Call], \A d \in Calls \ {c} : call'[d] = call[d],
           call'[c].pc = "claim", call'[c].task = t, call'[c].unit = u,
           call'[c].id = NoId, call'[c].op # "destroy",
           UNCHANGED <<owner, store, reg, used, handler, exited, stopped, stopping,
                       known>>
    PROVE  IInv'
<1>1. TypeOK /\ CallsTyped /\ Fields
  BY FieldsTyped DEF IInv
<1>2. TypeOK'
  BY <1>1 DEF TypeOK, IInv, Fields
<1>3. CallsTyped'
  BY <1>1 DEF CallsTyped, AtWork, IInv, Fields
<1>4. OneCallPerTask'
  BY <1>1 DEF CallsTyped, OneCallPerTask, AtWork, IInv, Fields
<1>5. CallsOwn'
  BY <1>1 DEF CallsTyped, OneCallPerTask, CallsOwn, AtWork, Owning, Pc, IInv,
        Fields
<1>6. StartsInv'
  BY <1>1 DEF TypeOK, CallsTyped, OneCallPerTask, CallsOwn, StartsInv, AtWork,
        Owning, Pc, IInv, Fields
<1>7. DestroysInv'
  BY <1>1 DEF CallsTyped, OneCallPerTask, CallsOwn, StartsInv, DestroysInv,
        AtWork, Owning, Pc, IInv, Fields
<1>8. StoreInv'
  BY <1>1 DEF CallsTyped, OneCallPerTask, CallsOwn, StartsInv, DestroysInv,
        StoreInv, AtWork, Owning, Pc, Ending, Stored, UnitOf, IInv, Fields
<1>9. RegInv'
  BY <1>1 DEF CallsTyped, RegInv, AtWork, Stored, UnitOf, IInv, Fields
<1>10. LiveInv'
  BY <1>1 DEF CallsTyped, LiveInv, AtWork, IInv, Fields
<1>11. OwnerInv'
  BY <1>1 DEF CallsTyped, OwnerInv, AtWork, Owning, Pc, Stored, UnitOf, IInv,
        Fields
<1> QED
  BY <1>2, <1>3, <1>4, <1>5, <1>6, <1>7, <1>8, <1>9, <1>10, <1>11 DEF IInv

(* DestroyTask begins with the Handler it found in the store.              *)
LEMMA DestroyTaskStep ==
    ASSUME Serial, IInv, NEW c \in Calls, NEW t \in Tasks, NEW f \in BOOLEAN,
           DestroyTask(c, t, f)
    PROVE  IInv'
<1>1. TypeOK /\ CallsTyped /\ Fields
  BY FieldsTyped DEF IInv
<1>2. call[c].pc = "idle" /\ store[t] \in Ids /\ \A d \in Calls : call[d].task # t
  BY <1>1 DEF DestroyTask, CallsTyped, AtWork, Fields, Begin, MayCall, TypeOK
<1>3. handler[store[t]].unit \in Units /\ owner[handler[store[t]].unit] = t
      /\ store[t] \in used /\ handler[store[t]] # NoHandler
  BY <1>1, <1>2, StoredFacts
<1>4. /\ call' \in [Calls -> Call]
      /\ \A d \in Calls \ {c} : call'[d] = call[d]
      /\ call'[c].pc = "check" /\ call'[c].task = t
      /\ call'[c].unit = handler[store[t]].unit /\ call'[c].id = store[t]
      /\ UNCHANGED <<owner, store, reg, used, handler, exited, stopped, stopping,
                     known>>
  BY <1>1, <1>2, <1>3 DEF DestroyTask, Begin, Call, Pc, Fields
<1>5. TypeOK'
  BY <1>1, <1>2, <1>3, <1>4 DEF TypeOK, DestroyTask, IInv, Fields
<1>6. CallsTyped'
  BY <1>1, <1>2, <1>3, <1>4 DEF CallsTyped, AtWork, DestroyTask, IInv, Fields
<1>7. OneCallPerTask'
  BY <1>1, <1>2, <1>3, <1>4 DEF CallsTyped, OneCallPerTask, AtWork,
        DestroyTask, IInv, Fields
<1>8. CallsOwn'
  BY <1>1, <1>2, <1>3, <1>4 DEF CallsTyped, OneCallPerTask, CallsOwn, AtWork,
        Owning, Pc, DestroyTask, IInv, Fields
<1>9. StartsInv'
  BY <1>1, <1>2, <1>3, <1>4 DEF TypeOK, CallsTyped, OneCallPerTask, CallsOwn,
        StartsInv, AtWork, Owning, Pc, DestroyTask, IInv, Fields
<1>10. DestroysInv'
  BY <1>1, <1>2, <1>3, <1>4 DEF CallsTyped, OneCallPerTask, CallsOwn,
        StartsInv, DestroysInv, AtWork, Owning, Pc, DestroyTask, IInv, Fields
<1>11. StoreInv'
  BY <1>1, <1>2, <1>3, <1>4 DEF CallsTyped, OneCallPerTask, CallsOwn,
        StartsInv, DestroysInv, StoreInv, AtWork, Owning, Pc, Ending, Stored,
        UnitOf, DestroyTask, IInv, Fields
<1>12. RegInv'
  BY <1>1, <1>2, <1>3, <1>4 DEF CallsTyped, RegInv, AtWork, Stored, UnitOf,
        DestroyTask, IInv, Fields
<1>13. LiveInv'
  BY <1>1, <1>2, <1>3, <1>4 DEF CallsTyped, LiveInv, AtWork, DestroyTask, IInv,
        Fields
<1>14. OwnerInv'
  BY <1>1, <1>2, <1>3, <1>4 DEF CallsTyped, OwnerInv, AtWork, Owning, Pc,
        Stored, UnitOf, DestroyTask, IInv, Fields
<1> QED
  BY <1>5, <1>6, <1>7, <1>8, <1>9, <1>10, <1>11, <1>12, <1>13, <1>14 DEF IInv

(* claimUnit: the unit was free, or held for the same task - and then for  *)
(* nobody else's call, since calls for one task do not overlap.            *)
LEMMA ClaimUnitStep ==
    ASSUME IInv, NEW c \in Calls, ClaimUnit(c)
    PROVE  IInv'
<1>1. TypeOK /\ CallsTyped /\ Fields
  BY FieldsTyped DEF IInv
<1>2. call[c].pc = "claim" /\ call[c].task \in Tasks /\ call[c].unit \in Units
  BY <1>1 DEF ClaimUnit, CallsTyped, AtWork, Fields
<1>3. Moved(c, {"read"})
  BY <1>1, <1>2, MoveGoto DEF ClaimUnit, Fields, Pc
<1>4. /\ owner[call[c].unit] \in {NoTask, call[c].task}
      /\ owner' \in [Units -> Tasks \cup {NoTask}]
      /\ \A u \in Units \ {call[c].unit} : owner'[u] = owner[u]
      /\ owner'[call[c].unit] = call[c].task
      /\ UNCHANGED <<store, reg, used, handler, exited, stopped, stopping, known>>
  BY <1>1, <1>2, <1>3 DEF ClaimUnit, TypeOK
<1>5. TypeOK'
  BY <1>1, <1>2, <1>3, <1>4 DEF TypeOK, ClaimUnit, IInv, Fields, Moved
<1>6. CallsTyped'
  BY <1>1, <1>2, <1>3, <1>4 DEF CallsTyped, AtWork, ClaimUnit, IInv, Fields,
        Moved
<1>7. OneCallPerTask'
  BY <1>1, <1>2, <1>3, <1>4 DEF CallsTyped, OneCallPerTask, AtWork, ClaimUnit,
        IInv, Fields, Moved
<1>8. CallsOwn'
  BY <1>1, <1>2, <1>3, <1>4 DEF CallsTyped, OneCallPerTask, CallsOwn, AtWork,
        Owning, Pc, ClaimUnit, IInv, Fields, Moved
<1>9. StartsInv'
  BY <1>1, <1>2, <1>3, <1>4 DEF TypeOK, CallsTyped, OneCallPerTask, CallsOwn,
        StartsInv, AtWork, Owning, Pc, ClaimUnit, IInv, Fields, Moved
<1>10. DestroysInv'
  BY <1>1, <1>2, <1>3, <1>4 DEF CallsTyped, OneCallPerTask, CallsOwn,
        StartsInv, DestroysInv, AtWork, Owning, Pc, ClaimUnit, IInv, Fields,
        Moved
<1>11. StoreInv'
  BY <1>1, <1>2, <1>3, <1>4 DEF CallsTyped, OneCallPerTask, CallsOwn,
        StartsInv, DestroysInv, StoreInv, AtWork, Owning, Pc, Ending, Stored,
        UnitOf, ClaimUnit, IInv, Fields, Moved
<1>12. RegInv'
  BY <1>1, <1>2, <1>3, <1>4 DEF CallsTyped, RegInv, AtWork, Stored, UnitOf,
        ClaimUnit, IInv, Fields, Moved
<1>13. LiveInv'
  BY <1>1, <1>2, <1>3, <1>4 DEF CallsTyped, LiveInv, AtWork, ClaimUnit, IInv,
        Fields, Moved
<1>14. OwnerInv'
  BY <1>1, <1>2, <1>3, <1>4 DEF CallsTyped, OwnerInv, AtWork, Owning, Pc,
        Stored, UnitOf, ClaimUnit, IInv, Fields, Moved
<1> QED
  BY <1>5, <1>6, <1>7, <1>8, <1>9, <1>10, <1>11, <1>12, <1>13, <1>14 DEF IInv

(* A refused claim leaves nothing behind.                                  *)
LEMMA ClaimRefusedStep ==
    ASSUME IInv, NEW c \in Calls, ClaimRefused(c)
    PROVE  IInv'
<1>1. TypeOK /\ CallsTyped /\ Fields
  BY FieldsTyped DEF IInv
<1>2. call[c].pc = "claim" /\ call[c].task \in Tasks /\ call[c].unit \in Units
  BY <1>1 DEF ClaimRefused, CallsTyped, AtWork, Fields
<1>3. Returned(c)
  BY <1>1, <1>2, MoveReturn DEF ClaimRefused, Fields, Pc
<1>4. TypeOK'
  BY <1>1, <1>2, <1>3 DEF TypeOK, ClaimRefused, IInv, Fields, Returned
<1>5. CallsTyped'
  BY <1>1, <1>2, <1>3 DEF CallsTyped, AtWork, ClaimRefused, IInv, Fields,
        Returned
<1>6. OneCallPerTask'
  BY <1>1, <1>2, <1>3 DEF CallsTyped, OneCallPerTask, AtWork, ClaimRefused,
        IInv, Fields, Returned
<1>7. CallsOwn'
  BY <1>1, <1>2, <1>3 DEF CallsTyped, OneCallPerTask, CallsOwn, AtWork, Owning,
        Pc, ClaimRefused, IInv, Fields, Returned
<1>8. StartsInv'
  BY <1>1, <1>2, <1>3 DEF TypeOK, CallsTyped, OneCallPerTask, CallsOwn,
        StartsInv, AtWork, Owning, Pc, ClaimRefused, IInv, Fields, Returned
<1>9. DestroysInv'
  BY <1>1, <1>2, <1>3 DEF CallsTyped, OneCallPerTask, CallsOwn, StartsInv,
        DestroysInv, AtWork, Owning, Pc, ClaimRefused, IInv, Fields, Returned
<1>10. StoreInv'
  BY <1>1, <1>2, <1>3 DEF CallsTyped, OneCallPerTask, CallsOwn, StartsInv,
        DestroysInv, StoreInv, AtWork, Owning, Pc, Ending, Stored, UnitOf,
        ClaimRefused, IInv, Fields, Returned
<1>11. RegInv'
  BY <1>1, <1>2, <1>3 DEF CallsTyped, RegInv, AtWork, Stored, UnitOf,
        ClaimRefused, IInv, Fields, Returned
<1>12. LiveInv'
  BY <1>1, <1>2, <1>3 DEF CallsTyped, LiveInv, AtWork, ClaimRefused, IInv,
        Fields, Returned
<1>13. OwnerInv'
  BY <1>1, <1>2, <1>3 DEF CallsTyped, OwnerInv, AtWork, Owning, Pc, Stored,
        UnitOf, ClaimRefused, IInv, Fields, Returned
<1> QED
  BY <1>4, <1>5, <1>6, <1>7, <1>8, <1>9, <1>10, <1>11, <1>12, <1>13 DEF IInv

(* A start or recovery between its claim and RegisterUnit changes nothing  *)
(* shared; whether it goes on or is about to give the claim up, its unit   *)
(* is not registered.                                                      *)
LEMMA AdvanceStep ==
    ASSUME IInv, NEW c \in Calls,
           call[c].pc \in {"read", "start", "rollback"},
           Moved(c, {"start", "rollback", "release", "register"}),
           UNCHANGED <<owner, store, reg, used, handler, exited, stopped, stopping,
                       known>>
    PROVE  IInv'
<1>1. TypeOK /\ CallsTyped /\ Fields
  BY FieldsTyped DEF IInv
<1>2. /\ call[c].task \in Tasks /\ call[c].unit \in Units
      /\ call[c].op # "destroy" /\ call[c].id = NoId
      /\ reg[call[c].unit] = NoId
  BY <1>1, UnregisteredStart DEF IInv, StartsInv, CallsTyped, AtWork
<1>3. TypeOK'
  BY <1>1, <1>2 DEF TypeOK, IInv, Fields, Moved
<1>4. CallsTyped'
  BY <1>1, <1>2 DEF CallsTyped, AtWork, IInv, Fields, Moved
<1>5. OneCallPerTask'
  BY <1>1, <1>2 DEF CallsTyped, OneCallPerTask, AtWork, IInv, Fields, Moved
<1>6. CallsOwn'
  BY <1>1, <1>2 DEF CallsTyped, OneCallPerTask, CallsOwn, AtWork, Owning, Pc,
        IInv, Fields, Moved
<1>7. StartsInv'
  BY <1>1, <1>2 DEF TypeOK, CallsTyped, OneCallPerTask, CallsOwn, StartsInv,
        AtWork, Owning, Pc, IInv, Fields, Moved
<1>8. DestroysInv'
  BY <1>1, <1>2 DEF CallsTyped, OneCallPerTask, CallsOwn, StartsInv,
        DestroysInv, AtWork, Owning, Pc, IInv, Fields, Moved
<1>9. StoreInv'
  BY <1>1, <1>2 DEF CallsTyped, OneCallPerTask, CallsOwn, StartsInv,
        DestroysInv, StoreInv, AtWork, Owning, Pc, Ending, Stored, UnitOf,
        IInv, Fields, Moved
<1>10. RegInv'
  BY <1>1, <1>2 DEF CallsTyped, RegInv, AtWork, Stored, UnitOf, IInv, Fields,
        Moved
<1>11. LiveInv'
  BY <1>1, <1>2 DEF CallsTyped, LiveInv, AtWork, IInv, Fields, Moved
<1>12. OwnerInv'
  BY <1>1, <1>2 DEF CallsTyped, OwnerInv, AtWork, Owning, Pc, Stored, UnitOf,
        IInv, Fields, Moved
<1> QED
  BY <1>3, <1>4, <1>5, <1>6, <1>7, <1>8, <1>9, <1>10, <1>11, <1>12 DEF IInv

(* RegisterUnit puts a fresh registration under the unit this call owns.   *)
LEMMA RegisterUnitStep ==
    ASSUME IInv, NEW c \in Calls, RegisterUnit(c)
    PROVE  IInv'
<1>1. TypeOK /\ CallsTyped /\ Fields
  BY FieldsTyped DEF IInv
<1>2. call[c].pc = "register" /\ call[c].task \in Tasks /\ call[c].unit \in Units
  BY <1>1 DEF RegisterUnit, CallsTyped, AtWork, Fields
<1>3. PICK k \in Ids \ used :
        /\ used' = used \cup {k}
        /\ reg' = [reg EXCEPT ![call[c].unit] = k]
        /\ call' = [call EXCEPT ![c] = [@ EXCEPT !.pc = "build", !.id = k]]
  BY <1>1, <1>2 DEF RegisterUnit
<1>4. /\ call' \in [Calls -> Call]
      /\ \A d \in Calls \ {c} : call'[d] = call[d]
      /\ call'[c].pc = "build" /\ call'[c].task = call[c].task
      /\ call'[c].unit = call[c].unit /\ call'[c].id = k
  BY <1>1, <1>3 DEF Call, Pc, Fields
<1>5. UNCHANGED <<owner, store, handler, exited, stopped, stopping, known>>
  BY DEF RegisterUnit
<1>6. /\ reg' \in [Units -> Ids \cup {NoId}]
      /\ \A u \in Units \ {call[c].unit} : reg'[u] = reg[u]
      /\ reg'[call[c].unit] = k
  BY <1>1, <1>2, <1>3, <1>4, <1>5 DEF TypeOK
<1>7. /\ handler[k] = NoHandler /\ k \notin stopped
      /\ (\A d \in Calls : call[d].id # k) /\ \A u \in Units : reg[u] # k
  BY <1>1, <1>2, <1>3, <1>4, <1>5, <1>6 DEF IInv, LiveInv
<1>8. store[call[c].task] = NoId /\ owner[call[c].unit] = call[c].task
  BY <1>1, <1>2, <1>3, <1>4, <1>5, <1>6, <1>7 DEF IInv, StartsInv, CallsOwn,
        Owning, Pc
<1>9. TypeOK'
  BY <1>1, <1>2, <1>3, <1>4, <1>5, <1>6, <1>7, <1>8 DEF TypeOK, RegisterUnit,
        IInv, Fields
<1>10. CallsTyped'
  BY <1>1, <1>2, <1>3, <1>4, <1>5, <1>6, <1>7, <1>8 DEF CallsTyped, AtWork,
        RegisterUnit, IInv, Fields
<1>11. OneCallPerTask'
  BY <1>1, <1>2, <1>3, <1>4, <1>5, <1>6, <1>7, <1>8 DEF CallsTyped,
        OneCallPerTask, AtWork, RegisterUnit, IInv, Fields
<1>12. CallsOwn'
  BY <1>1, <1>2, <1>3, <1>4, <1>5, <1>6, <1>7, <1>8 DEF CallsTyped,
        OneCallPerTask, CallsOwn, AtWork, Owning, Pc, RegisterUnit, IInv,
        Fields
<1>13. StartsInv'
  BY <1>1, <1>2, <1>3, <1>4, <1>5, <1>6, <1>7, <1>8 DEF TypeOK, CallsTyped,
        OneCallPerTask, CallsOwn, StartsInv, AtWork, Owning, Pc, RegisterUnit,
        IInv, Fields
<1>14. DestroysInv'
  BY <1>1, <1>2, <1>3, <1>4, <1>5, <1>6, <1>7, <1>8 DEF CallsTyped,
        OneCallPerTask, CallsOwn, StartsInv, DestroysInv, AtWork, Owning, Pc,
        RegisterUnit, IInv, Fields
<1>15. StoreInv'
  BY <1>1, <1>2, <1>3, <1>4, <1>5, <1>6, <1>7, <1>8 DEF CallsTyped,
        OneCallPerTask, CallsOwn, StartsInv, DestroysInv, StoreInv, AtWork,
        Owning, Pc, Ending, Stored, UnitOf, RegisterUnit, IInv, Fields
<1>16. RegInv'
  BY <1>1, <1>2, <1>3, <1>4, <1>5, <1>6, <1>7, <1>8 DEF CallsTyped, RegInv,
        AtWork, Stored, UnitOf, RegisterUnit, IInv, Fields
<1>17. LiveInv'
  BY <1>1, <1>2, <1>3, <1>4, <1>5, <1>6, <1>7, <1>8 DEF CallsTyped, LiveInv,
        AtWork, RegisterUnit, IInv, Fields
<1>18. OwnerInv'
  BY <1>1, <1>2, <1>3, <1>4, <1>5, <1>6, <1>7, <1>8 DEF CallsTyped, OwnerInv,
        AtWork, Owning, Pc, Stored, UnitOf, RegisterUnit, IInv, Fields
<1> QED
  BY <1>9, <1>10, <1>11, <1>12, <1>13, <1>14, <1>15, <1>16, <1>17, <1>18 DEF
        IInv

(* The new Handler finds its own registration's wake channel.              *)
LEMMA NewHandlerStep ==
    ASSUME IInv, NEW c \in Calls, NewHandler(c)
    PROVE  IInv'
<1>1. TypeOK /\ CallsTyped /\ Fields
  BY FieldsTyped DEF IInv
<1>2. call[c].pc = "build" /\ call[c].task \in Tasks /\ call[c].unit \in Units
  BY <1>1 DEF NewHandler, CallsTyped, AtWork, Fields
<1>3. Moved(c, {"publish"})
  BY <1>1, <1>2, MoveGoto DEF NewHandler, Fields, Pc
<1>4. /\ call[c].id \in used \ stopped /\ call[c].id \in Ids
      /\ reg[call[c].unit] = call[c].id /\ handler[call[c].id] = NoHandler
      /\ store[call[c].task] = NoId
  BY <1>1, <1>2, <1>3 DEF IInv, StartsInv, TypeOK
<1>5. /\ handler' \in [Ids -> [task : Tasks \cup {NoTask}, unit : Units \cup {NoUnit},
                           chan : Ids \cup {NoId}]]
      /\ \A k \in Ids \ {call[c].id} : handler'[k] = handler[k]
      /\ handler'[call[c].id] = [task |-> call[c].task, unit |-> call[c].unit,
                                 chan |-> call[c].id]
      /\ exited' \subseteq Ids
      /\ UNCHANGED <<owner, store, reg, used, stopped, stopping, known>>
  BY <1>1, <1>2, <1>3, <1>4 DEF NewHandler, TypeOK
<1>6. NoHandler.task = NoTask /\ NoHandler.unit = NoUnit
  BY DEF NoHandler
<1>7. (\A d \in Calls : call[d].id = call[c].id => d = c)
      /\ (\A t \in Tasks : store[t] # call[c].id)
  BY <1>1, <1>2, <1>3, <1>4, <1>5, <1>6, StoredFacts DEF IInv, StartsInv
<1>8. TypeOK'
  BY <1>1, <1>2, <1>3, <1>4, <1>5, <1>6, <1>7 DEF TypeOK, NewHandler, IInv,
        Fields, Moved
<1>9. CallsTyped'
  BY <1>1, <1>2, <1>3, <1>4, <1>5, <1>6, <1>7 DEF CallsTyped, AtWork,
        NewHandler, IInv, Fields, Moved
<1>10. OneCallPerTask'
  BY <1>1, <1>2, <1>3, <1>4, <1>5, <1>6, <1>7 DEF CallsTyped, OneCallPerTask,
        AtWork, NewHandler, IInv, Fields, Moved
<1>11. CallsOwn'
  BY <1>1, <1>2, <1>3, <1>4, <1>5, <1>6, <1>7 DEF CallsTyped, OneCallPerTask,
        CallsOwn, AtWork, Owning, Pc, NewHandler, IInv, Fields, Moved
<1>12. StartsInv'
  BY <1>1, <1>2, <1>3, <1>4, <1>5, <1>6, <1>7 DEF TypeOK, CallsTyped,
        OneCallPerTask, CallsOwn, StartsInv, AtWork, Owning, Pc, NewHandler,
        IInv, Fields, Moved
<1>13. DestroysInv'
  BY <1>1, <1>2, <1>3, <1>4, <1>5, <1>6, <1>7 DEF CallsTyped, OneCallPerTask,
        CallsOwn, StartsInv, DestroysInv, AtWork, Owning, Pc, NewHandler, IInv,
        Fields, Moved
<1>14. StoreInv'
  BY <1>1, <1>2, <1>3, <1>4, <1>5, <1>6, <1>7 DEF CallsTyped, OneCallPerTask,
        CallsOwn, StartsInv, DestroysInv, StoreInv, AtWork, Owning, Pc, Ending,
        Stored, UnitOf, NewHandler, IInv, Fields, Moved
<1>15. RegInv'
  BY <1>1, <1>2, <1>3, <1>4, <1>5, <1>6, <1>7 DEF CallsTyped, RegInv, AtWork,
        Stored, UnitOf, StoreInv, NewHandler, IInv, Fields, Moved
<1>16. LiveInv'
  BY <1>1, <1>2, <1>3, <1>4, <1>5, <1>6, <1>7 DEF CallsTyped, LiveInv, AtWork,
        StartsInv, NewHandler, IInv, Fields, Moved
<1>17. OwnerInv'
  BY <1>1, <1>2, <1>3, <1>4, <1>5, <1>6, <1>7 DEF CallsTyped, OwnerInv, AtWork,
        Owning, Pc, Stored, UnitOf, StoreInv, NewHandler, IInv, Fields, Moved
<1> QED
  BY <1>8, <1>9, <1>10, <1>11, <1>12, <1>13, <1>14, <1>15, <1>16, <1>17 DEF
        IInv

(* tasks.Set turns what the call knew of its Handler into a stored task.   *)
LEMMA PublishStep ==
    ASSUME IInv, NEW c \in Calls, Publish(c)
    PROVE  IInv'
<1>1. TypeOK /\ CallsTyped /\ Fields
  BY FieldsTyped DEF IInv
<1>2. call[c].pc = "publish" /\ call[c].task \in Tasks /\ call[c].unit \in Units
  BY <1>1 DEF Publish, CallsTyped, AtWork, Fields
<1>3. Returned(c)
  BY <1>1, <1>2, MoveReturn DEF Publish, Fields, Pc
<1>4. /\ call[c].id \in used \ stopped /\ call[c].id \in Ids
      /\ reg[call[c].unit] = call[c].id /\ store[call[c].task] = NoId
      /\ handler[call[c].id] = [task |-> call[c].task, unit |-> call[c].unit,
                                chan |-> call[c].id]
      /\ owner[call[c].unit] = call[c].task
  BY <1>1, <1>2, <1>3 DEF IInv, StartsInv, TypeOK, CallsOwn, Owning, Pc
<1>5. /\ store' \in [Tasks -> Ids \cup {NoId}]
      /\ \A t \in Tasks \ {call[c].task} : store'[t] = store[t]
      /\ store'[call[c].task] = call[c].id
      /\ UNCHANGED <<owner, reg, used, handler, exited, stopped, stopping>>
  BY <1>1, <1>2, <1>3, <1>4 DEF Publish, TypeOK
<1>6. TypeOK'
  BY <1>1, <1>2, <1>3, <1>4, <1>5 DEF TypeOK, Publish, IInv, Fields, Returned
<1>7. CallsTyped'
  BY <1>1, <1>2, <1>3, <1>4, <1>5 DEF CallsTyped, AtWork, Publish, IInv,
        Fields, Returned
<1>8. OneCallPerTask'
  BY <1>1, <1>2, <1>3, <1>4, <1>5 DEF CallsTyped, OneCallPerTask, AtWork,
        Publish, IInv, Fields, Returned
<1>9. CallsOwn'
  BY <1>1, <1>2, <1>3, <1>4, <1>5 DEF CallsTyped, OneCallPerTask, CallsOwn,
        AtWork, Owning, Pc, Publish, IInv, Fields, Returned
<1>10. StartsInv'
  BY <1>1, <1>2, <1>3, <1>4, <1>5 DEF TypeOK, CallsTyped, OneCallPerTask,
        CallsOwn, StartsInv, AtWork, Owning, Pc, Publish, IInv, Fields,
        Returned
<1>11. DestroysInv'
  BY <1>1, <1>2, <1>3, <1>4, <1>5 DEF CallsTyped, OneCallPerTask, CallsOwn,
        StartsInv, DestroysInv, AtWork, Owning, Pc, Publish, IInv, Fields,
        Returned
<1>12. StoreInv'
  BY <1>1, <1>2, <1>3, <1>4, <1>5 DEF CallsTyped, OneCallPerTask, CallsOwn,
        StartsInv, DestroysInv, StoreInv, AtWork, Owning, Pc, Ending, Stored,
        UnitOf, Publish, IInv, Fields, Returned
<1>13. RegInv'
  BY <1>1, <1>2, <1>3, <1>4, <1>5 DEF CallsTyped, RegInv, AtWork, Stored,
        UnitOf, Publish, IInv, Fields, Returned
<1>14. LiveInv'
  BY <1>1, <1>2, <1>3, <1>4, <1>5 DEF CallsTyped, LiveInv, AtWork, Publish,
        IInv, Fields, Returned
<1>15. OwnerInv'
  BY <1>1, <1>2, <1>3, <1>4, <1>5 DEF CallsTyped, OwnerInv, AtWork, Owning, Pc,
        Stored, UnitOf, Publish, IInv, Fields, Returned
<1> QED
  BY <1>6, <1>7, <1>8, <1>9, <1>10, <1>11, <1>12, <1>13, <1>14, <1>15 DEF IInv

(* DestroyTask decides; a rejected one returns and the stored task is as   *)
(* it was.                                                                 *)
LEMMA DestroyCheckStep ==
    ASSUME IInv, NEW c \in Calls, DestroyCheck(c)
    PROVE  IInv'
<1>1. TypeOK /\ CallsTyped /\ Fields
  BY FieldsTyped DEF IInv
<1>2. call[c].pc = "check" /\ call[c].task \in Tasks /\ call[c].unit \in Units
  BY <1>1 DEF DestroyCheck, CallsTyped, AtWork, Fields
<1>3. /\ Moved(c, {"halt", "stop"}) \/ Returned(c)
      /\ stopping' \in {stopping, stopping \cup {call[c].id}}
      /\ UNCHANGED <<owner, store, reg, used, handler, exited, stopped, known>>
  BY <1>1, <1>2, MoveGoto, MoveReturn DEF DestroyCheck, Fields, Pc
<1>4. /\ call[c].id \in Ids /\ store[call[c].task] = call[c].id
      /\ handler[call[c].id].unit = call[c].unit
  BY <1>1, <1>2, <1>3 DEF IInv, DestroysInv
<1>5. handler[call[c].id].task = call[c].task
  BY <1>1, <1>2, <1>3, <1>4, StoredFacts
<1>6. TypeOK'
  BY <1>1, <1>2, <1>3, <1>4, <1>5 DEF TypeOK, DestroyCheck, IInv, Fields,
        Moved, Returned
<1>7. CallsTyped'
  BY <1>1, <1>2, <1>3, <1>4, <1>5 DEF CallsTyped, AtWork, DestroyCheck, IInv,
        Fields, Moved, Returned
<1>8. OneCallPerTask'
  BY <1>1, <1>2, <1>3, <1>4, <1>5 DEF CallsTyped, OneCallPerTask, AtWork,
        DestroyCheck, IInv, Fields, Moved, Returned
<1>9. CallsOwn'
  BY <1>1, <1>2, <1>3, <1>4, <1>5 DEF CallsTyped, OneCallPerTask, CallsOwn,
        AtWork, Owning, Pc, DestroyCheck, IInv, Fields, Moved, Returned
<1>10. StartsInv'
  BY <1>1, <1>2, <1>3, <1>4, <1>5 DEF TypeOK, CallsTyped, OneCallPerTask,
        CallsOwn, StartsInv, AtWork, Owning, Pc, DestroyCheck, IInv, Fields,
        Moved, Returned
<1>11. DestroysInv'
  BY <1>1, <1>2, <1>3, <1>4, <1>5 DEF CallsTyped, OneCallPerTask, CallsOwn,
        StartsInv, DestroysInv, AtWork, Owning, Pc, DestroyCheck, IInv, Fields,
        Moved, Returned
<1>12. StoreInv'
  BY <1>1, <1>2, <1>3, <1>4, <1>5 DEF CallsTyped, OneCallPerTask, CallsOwn,
        StartsInv, DestroysInv, StoreInv, AtWork, Owning, Pc, Ending, Stored,
        UnitOf, DestroyCheck, IInv, Fields, Moved, Returned
<1>13. RegInv'
  BY <1>1, <1>2, <1>3, <1>4, <1>5 DEF CallsTyped, RegInv, AtWork, Stored,
        UnitOf, DestroyCheck, IInv, Fields, Moved, Returned
<1>14. LiveInv'
  BY <1>1, <1>2, <1>3, <1>4, <1>5 DEF CallsTyped, LiveInv, AtWork,
        DestroyCheck, IInv, Fields, Moved, Returned
<1>15. OwnerInv'
  BY <1>1, <1>2, <1>3, <1>4, <1>5 DEF CallsTyped, OwnerInv, AtWork, Owning, Pc,
        Stored, UnitOf, DestroyCheck, IInv, Fields, Moved, Returned
<1> QED
  BY <1>6, <1>7, <1>8, <1>9, <1>10, <1>11, <1>12, <1>13, <1>14, <1>15 DEF IInv

(* The unit is stopped, killed or given up on: nothing shared changes.     *)
LEMMA DestroyStopsStep ==
    ASSUME IInv, NEW c \in Calls, DestroyStops(c)
    PROVE  IInv'
<1>1. TypeOK /\ CallsTyped /\ Fields
  BY FieldsTyped DEF IInv
<1>2. call[c].pc = "stop" /\ call[c].task \in Tasks /\ call[c].unit \in Units
  BY <1>1 DEF DestroyStops, CallsTyped, AtWork, Fields
<1>3. Moved(c, {"halt"})
  BY <1>1, <1>2, MoveGoto DEF DestroyStops, Fields, Pc
<1>4. TypeOK'
  BY <1>1, <1>2, <1>3 DEF TypeOK, DestroyStops, IInv, Fields, Moved
<1>5. CallsTyped'
  BY <1>1, <1>2, <1>3 DEF CallsTyped, AtWork, DestroyStops, IInv, Fields, Moved
<1>6. OneCallPerTask'
  BY <1>1, <1>2, <1>3 DEF CallsTyped, OneCallPerTask, AtWork, DestroyStops,
        IInv, Fields, Moved
<1>7. CallsOwn'
  BY <1>1, <1>2, <1>3 DEF CallsTyped, OneCallPerTask, CallsOwn, AtWork, Owning,
        Pc, DestroyStops, IInv, Fields, Moved
<1>8. StartsInv'
  BY <1>1, <1>2, <1>3 DEF TypeOK, CallsTyped, OneCallPerTask, CallsOwn,
        StartsInv, AtWork, Owning, Pc, DestroyStops, IInv, Fields, Moved
<1>9. DestroysInv'
  BY <1>1, <1>2, <1>3 DEF CallsTyped, OneCallPerTask, CallsOwn, StartsInv,
        DestroysInv, AtWork, Owning, Pc, DestroyStops, IInv, Fields, Moved
<1>10. StoreInv'
  BY <1>1, <1>2, <1>3 DEF CallsTyped, OneCallPerTask, CallsOwn, StartsInv,
        DestroysInv, StoreInv, AtWork, Owning, Pc, Ending, Stored, UnitOf,
        DestroyStops, IInv, Fields, Moved
<1>11. RegInv'
  BY <1>1, <1>2, <1>3 DEF CallsTyped, RegInv, AtWork, Stored, UnitOf,
        DestroyStops, IInv, Fields, Moved
<1>12. LiveInv'
  BY <1>1, <1>2, <1>3 DEF CallsTyped, LiveInv, AtWork, DestroyStops, IInv,
        Fields, Moved
<1>13. OwnerInv'
  BY <1>1, <1>2, <1>3 DEF CallsTyped, OwnerInv, AtWork, Owning, Pc, Stored,
        UnitOf, DestroyStops, IInv, Fields, Moved
<1> QED
  BY <1>4, <1>5, <1>6, <1>7, <1>8, <1>9, <1>10, <1>11, <1>12, <1>13 DEF IInv

(* Handler.Stop ends the one Handler that is this task's.                  *)
LEMMA HandlerStopStep ==
    ASSUME IInv, NEW c \in Calls, HandlerStop(c)
    PROVE  IInv'
<1>1. TypeOK /\ CallsTyped /\ Fields
  BY FieldsTyped DEF IInv
<1>2. call[c].pc = "halt" /\ call[c].task \in Tasks /\ call[c].unit \in Units
  BY <1>1 DEF HandlerStop, CallsTyped, AtWork, Fields
<1>3. Moved(c, {"unregister"})
  BY <1>1, <1>2, MoveGoto DEF HandlerStop, Fields, Pc
<1>4. call[c].id \in Ids /\ store[call[c].task] = call[c].id
  BY <1>1, <1>2, <1>3 DEF IInv, DestroysInv
<1>5. /\ call[c].id \in used /\ handler[call[c].id].task = call[c].task
      /\ handler[call[c].id] # NoHandler
  BY <1>1, <1>2, <1>3, <1>4, StoredFacts
<1>6. TypeOK'
  BY <1>1, <1>2, <1>3, <1>4, <1>5 DEF TypeOK, HandlerStop, IInv, Fields, Moved
<1>7. CallsTyped'
  BY <1>1, <1>2, <1>3, <1>4, <1>5 DEF CallsTyped, AtWork, HandlerStop, IInv,
        Fields, Moved
<1>8. OneCallPerTask'
  BY <1>1, <1>2, <1>3, <1>4, <1>5 DEF CallsTyped, OneCallPerTask, AtWork,
        HandlerStop, IInv, Fields, Moved
<1>9. CallsOwn'
  BY <1>1, <1>2, <1>3, <1>4, <1>5 DEF CallsTyped, OneCallPerTask, CallsOwn,
        AtWork, Owning, Pc, HandlerStop, IInv, Fields, Moved
<1>10. StartsInv'
  BY <1>1, <1>2, <1>3, <1>4, <1>5 DEF TypeOK, CallsTyped, OneCallPerTask,
        CallsOwn, StartsInv, AtWork, Owning, Pc, HandlerStop, IInv, Fields,
        Moved
<1>11. DestroysInv'
  BY <1>1, <1>2, <1>3, <1>4, <1>5 DEF CallsTyped, OneCallPerTask, CallsOwn,
        StartsInv, DestroysInv, AtWork, Owning, Pc, HandlerStop, IInv, Fields,
        Moved
<1>12. StoreInv'
  BY <1>1, <1>2, <1>3, <1>4, <1>5 DEF CallsTyped, OneCallPerTask, CallsOwn,
        StartsInv, DestroysInv, StoreInv, AtWork, Owning, Pc, Ending, Stored,
        UnitOf, HandlerStop, IInv, Fields, Moved
<1>13. RegInv'
  BY <1>1, <1>2, <1>3, <1>4, <1>5 DEF CallsTyped, RegInv, AtWork, Stored,
        UnitOf, HandlerStop, IInv, Fields, Moved
<1>14. LiveInv'
  BY <1>1, <1>2, <1>3, <1>4, <1>5 DEF CallsTyped, LiveInv, AtWork, HandlerStop,
        IInv, Fields, Moved
<1>15. OwnerInv'
  BY <1>1, <1>2, <1>3, <1>4, <1>5 DEF CallsTyped, OwnerInv, AtWork, Owning, Pc,
        Stored, UnitOf, HandlerStop, IInv, Fields, Moved
<1> QED
  BY <1>6, <1>7, <1>8, <1>9, <1>10, <1>11, <1>12, <1>13, <1>14, <1>15 DEF IInv

(* UnregisterUnit drops this task's registration and no other's.           *)
LEMMA UnregisterUnitStep ==
    ASSUME IInv, NEW c \in Calls, UnregisterUnit(c)
    PROVE  IInv'
<1>1. TypeOK /\ CallsTyped /\ Fields
  BY FieldsTyped DEF IInv
<1>2. call[c].pc = "unregister" /\ call[c].task \in Tasks /\ call[c].unit \in Units
  BY <1>1 DEF UnregisterUnit, CallsTyped, AtWork, Fields
<1>3. Moved(c, {"delete"})
  BY <1>1, <1>2, MoveGoto DEF UnregisterUnit, Fields, Pc
<1>4. /\ reg' \in [Units -> Ids \cup {NoId}]
      /\ \A u \in Units \ {call[c].unit} : reg'[u] = reg[u]
      /\ reg'[call[c].unit] = NoId
      /\ UNCHANGED <<owner, store, used, handler, exited, stopped, stopping, known>>
  BY <1>1, <1>2, <1>3 DEF UnregisterUnit, TypeOK
<1>5. TypeOK'
  BY <1>1, <1>2, <1>3, <1>4 DEF TypeOK, UnregisterUnit, IInv, Fields, Moved
<1>6. CallsTyped'
  BY <1>1, <1>2, <1>3, <1>4 DEF CallsTyped, AtWork, UnregisterUnit, IInv,
        Fields, Moved
<1>7. OneCallPerTask'
  BY <1>1, <1>2, <1>3, <1>4 DEF CallsTyped, OneCallPerTask, AtWork,
        UnregisterUnit, IInv, Fields, Moved
<1>8. CallsOwn'
  BY <1>1, <1>2, <1>3, <1>4 DEF CallsTyped, OneCallPerTask, CallsOwn, AtWork,
        Owning, Pc, UnregisterUnit, IInv, Fields, Moved
<1>9. StartsInv'
  BY <1>1, <1>2, <1>3, <1>4 DEF TypeOK, CallsTyped, OneCallPerTask, CallsOwn,
        StartsInv, AtWork, Owning, Pc, UnregisterUnit, IInv, Fields, Moved
<1>10. DestroysInv'
  BY <1>1, <1>2, <1>3, <1>4 DEF CallsTyped, OneCallPerTask, CallsOwn,
        StartsInv, DestroysInv, AtWork, Owning, Pc, UnregisterUnit, IInv,
        Fields, Moved
<1>11. StoreInv'
  BY <1>1, <1>2, <1>3, <1>4 DEF CallsTyped, OneCallPerTask, CallsOwn,
        StartsInv, DestroysInv, StoreInv, AtWork, Owning, Pc, Ending, Stored,
        UnitOf, UnregisterUnit, IInv, Fields, Moved
<1>12. RegInv'
  BY <1>1, <1>2, <1>3, <1>4 DEF CallsTyped, RegInv, AtWork, Stored, UnitOf,
        UnregisterUnit, IInv, Fields, Moved
<1>13. LiveInv'
  BY <1>1, <1>2, <1>3, <1>4 DEF CallsTyped, LiveInv, AtWork, UnregisterUnit,
        IInv, Fields, Moved
<1>14. OwnerInv'
  BY <1>1, <1>2, <1>3, <1>4 DEF CallsTyped, OwnerInv, AtWork, Owning, Pc,
        Stored, UnitOf, UnregisterUnit, IInv, Fields, Moved
<1> QED
  BY <1>5, <1>6, <1>7, <1>8, <1>9, <1>10, <1>11, <1>12, <1>13, <1>14 DEF IInv

(* tasks.Delete, after which only this call stands for the ownership.      *)
LEMMA DeleteStep ==
    ASSUME IInv, NEW c \in Calls, Delete(c)
    PROVE  IInv'
<1>1. TypeOK /\ CallsTyped /\ Fields
  BY FieldsTyped DEF IInv
<1>2. call[c].pc = "delete" /\ call[c].task \in Tasks /\ call[c].unit \in Units
  BY <1>1 DEF Delete, CallsTyped, AtWork, Fields
<1>3. Moved(c, {"release"})
  BY <1>1, <1>2, MoveGoto DEF Delete, Fields, Pc
<1>4. /\ call[c].id \in Ids \cap stopped /\ store[call[c].task] = call[c].id
      /\ handler[call[c].id].unit = call[c].unit /\ reg[call[c].unit] = NoId
  BY <1>1, <1>2, <1>3 DEF IInv, DestroysInv
<1>5. handler[call[c].id].task = call[c].task
  BY <1>1, <1>2, <1>3, <1>4, StoredFacts
<1>6. /\ store' \in [Tasks -> Ids \cup {NoId}]
      /\ \A t \in Tasks \ {call[c].task} : store'[t] = store[t]
      /\ store'[call[c].task] = NoId
      /\ UNCHANGED <<owner, reg, used, handler, exited, stopped, stopping, known>>
  BY <1>1, <1>2, <1>3, <1>4, <1>5 DEF Delete, TypeOK
<1>7. TypeOK'
  BY <1>1, <1>2, <1>3, <1>4, <1>5, <1>6 DEF TypeOK, Delete, IInv, Fields, Moved
<1>8. CallsTyped'
  BY <1>1, <1>2, <1>3, <1>4, <1>5, <1>6 DEF CallsTyped, AtWork, Delete, IInv,
        Fields, Moved
<1>9. OneCallPerTask'
  BY <1>1, <1>2, <1>3, <1>4, <1>5, <1>6 DEF CallsTyped, OneCallPerTask, AtWork,
        Delete, IInv, Fields, Moved
<1>10. CallsOwn'
  BY <1>1, <1>2, <1>3, <1>4, <1>5, <1>6 DEF CallsTyped, OneCallPerTask,
        CallsOwn, AtWork, Owning, Pc, Delete, IInv, Fields, Moved
<1>11. StartsInv'
  BY <1>1, <1>2, <1>3, <1>4, <1>5, <1>6 DEF TypeOK, CallsTyped, OneCallPerTask,
        CallsOwn, StartsInv, AtWork, Owning, Pc, Delete, IInv, Fields, Moved
<1>12. DestroysInv'
  BY <1>1, <1>2, <1>3, <1>4, <1>5, <1>6 DEF CallsTyped, OneCallPerTask,
        CallsOwn, StartsInv, DestroysInv, AtWork, Owning, Pc, Delete, IInv,
        Fields, Moved
<1>13. StoreInv'
  BY <1>1, <1>2, <1>3, <1>4, <1>5, <1>6 DEF CallsTyped, OneCallPerTask,
        CallsOwn, StartsInv, DestroysInv, StoreInv, AtWork, Owning, Pc, Ending,
        Stored, UnitOf, Delete, IInv, Fields, Moved
<1>14. RegInv'
  BY <1>1, <1>2, <1>3, <1>4, <1>5, <1>6 DEF CallsTyped, RegInv, AtWork, Stored,
        UnitOf, Delete, IInv, Fields, Moved
<1>15. LiveInv'
  BY <1>1, <1>2, <1>3, <1>4, <1>5, <1>6 DEF CallsTyped, LiveInv, AtWork,
        Delete, IInv, Fields, Moved
<1>16. OwnerInv'
  BY <1>1, <1>2, <1>3, <1>4, <1>5, <1>6 DEF CallsTyped, OwnerInv, AtWork,
        Owning, Pc, Stored, UnitOf, Delete, IInv, Fields, Moved
<1> QED
  BY <1>7, <1>8, <1>9, <1>10, <1>11, <1>12, <1>13, <1>14, <1>15, <1>16 DEF IInv

(* releaseUnit takes the unit from the task it was claimed for: no stored  *)
(* task is left on it.                                                     *)
LEMMA ReleaseUnitStep ==
    ASSUME IInv, NEW c \in Calls, ReleaseUnit(c)
    PROVE  IInv'
<1>1. TypeOK /\ CallsTyped /\ Fields
  BY FieldsTyped DEF IInv
<1>2. call[c].pc = "release" /\ call[c].task \in Tasks /\ call[c].unit \in Units
  BY <1>1 DEF ReleaseUnit, CallsTyped, AtWork, Fields
<1>3. Returned(c)
  BY <1>1, <1>2, MoveReturn DEF ReleaseUnit, Fields, Pc
<1>4. /\ store[call[c].task] = NoId /\ reg[call[c].unit] = NoId
      /\ owner[call[c].unit] = call[c].task
  BY <1>1, <1>2, <1>3 DEF IInv, StartsInv, DestroysInv, CallsOwn, Owning, Pc
<1>5. \A t \in Tasks : Stored(t) => UnitOf(t) # call[c].unit
  BY <1>1, <1>2, <1>3, <1>4 DEF IInv, StoreInv, Stored
<1>6. /\ owner' \in [Units -> Tasks \cup {NoTask}]
      /\ \A u \in Units \ {call[c].unit} : owner'[u] = owner[u]
      /\ owner'[call[c].unit] = NoTask
      /\ UNCHANGED <<store, reg, used, handler, exited, stopped, stopping>>
  BY <1>1, <1>2, <1>3, <1>4, <1>5 DEF ReleaseUnit, TypeOK
<1>7. TypeOK'
  BY <1>1, <1>2, <1>3, <1>4, <1>5, <1>6 DEF TypeOK, ReleaseUnit, IInv, Fields,
        Returned
<1>8. CallsTyped'
  BY <1>1, <1>2, <1>3, <1>4, <1>5, <1>6 DEF CallsTyped, AtWork, ReleaseUnit,
        IInv, Fields, Returned
<1>9. OneCallPerTask'
  BY <1>1, <1>2, <1>3, <1>4, <1>5, <1>6 DEF CallsTyped, OneCallPerTask, AtWork,
        ReleaseUnit, IInv, Fields, Returned
<1>10. CallsOwn'
  BY <1>1, <1>2, <1>3, <1>4, <1>5, <1>6 DEF CallsTyped, OneCallPerTask,
        CallsOwn, AtWork, Owning, Pc, ReleaseUnit, IInv, Fields, Returned
<1>11. StartsInv'
  BY <1>1, <1>2, <1>3, <1>4, <1>5, <1>6 DEF TypeOK, CallsTyped, OneCallPerTask,
        CallsOwn, StartsInv, AtWork, Owning, Pc, ReleaseUnit, IInv, Fields,
        Returned
<1>12. DestroysInv'
  BY <1>1, <1>2, <1>3, <1>4, <1>5, <1>6 DEF CallsTyped, OneCallPerTask,
        CallsOwn, StartsInv, DestroysInv, AtWork, Owning, Pc, ReleaseUnit,
        IInv, Fields, Returned
<1>13. StoreInv'
  BY <1>1, <1>2, <1>3, <1>4, <1>5, <1>6 DEF CallsTyped, OneCallPerTask,
        CallsOwn, StartsInv, DestroysInv, StoreInv, AtWork, Owning, Pc, Ending,
        Stored, UnitOf, ReleaseUnit, IInv, Fields, Returned
<1>14. RegInv'
  BY <1>1, <1>2, <1>3, <1>4, <1>5, <1>6 DEF CallsTyped, RegInv, AtWork, Stored,
        UnitOf, ReleaseUnit, IInv, Fields, Returned
<1>15. LiveInv'
  BY <1>1, <1>2, <1>3, <1>4, <1>5, <1>6 DEF CallsTyped, LiveInv, AtWork,
        ReleaseUnit, IInv, Fields, Returned
<1>16. OwnerInv'
  BY <1>1, <1>2, <1>3, <1>4, <1>5, <1>6 DEF CallsTyped, OwnerInv, AtWork,
        Owning, Pc, Stored, UnitOf, ReleaseUnit, IInv, Fields, Returned
<1> QED
  BY <1>7, <1>8, <1>9, <1>10, <1>11, <1>12, <1>13, <1>14, <1>15, <1>16 DEF IInv

(* StopTask's goroutine belongs to the stored Handler.                     *)
LEMMA StopTaskStep ==
    ASSUME IInv, NEW t \in Tasks, StopTask(t)
    PROVE  IInv'
<1>1. TypeOK /\ CallsTyped /\ Fields
  BY FieldsTyped DEF IInv
<1>2. /\ store[t] \in Ids /\ handler[store[t]].task = t
  BY <1>1, StoredFacts DEF StopTask
<1>3. TypeOK'
  BY <1>1, <1>2 DEF TypeOK, StopTask, IInv, Fields
<1>4. CallsTyped'
  BY <1>1, <1>2 DEF CallsTyped, AtWork, StopTask, IInv, Fields
<1>5. OneCallPerTask'
  BY <1>1, <1>2 DEF CallsTyped, OneCallPerTask, AtWork, StopTask, IInv, Fields
<1>6. CallsOwn'
  BY <1>1, <1>2 DEF CallsTyped, OneCallPerTask, CallsOwn, AtWork, Owning, Pc,
        StopTask, IInv, Fields
<1>7. StartsInv'
  BY <1>1, <1>2 DEF TypeOK, CallsTyped, OneCallPerTask, CallsOwn, StartsInv,
        AtWork, Owning, Pc, StopTask, IInv, Fields
<1>8. DestroysInv'
  BY <1>1, <1>2 DEF CallsTyped, OneCallPerTask, CallsOwn, StartsInv,
        DestroysInv, AtWork, Owning, Pc, StopTask, IInv, Fields
<1>9. StoreInv'
  BY <1>1, <1>2 DEF CallsTyped, OneCallPerTask, CallsOwn, StartsInv,
        DestroysInv, StoreInv, AtWork, Owning, Pc, Ending, Stored, UnitOf,
        StopTask, IInv, Fields
<1>10. RegInv'
  BY <1>1, <1>2 DEF CallsTyped, RegInv, AtWork, Stored, UnitOf, StopTask, IInv,
        Fields
<1>11. LiveInv'
  BY <1>1, <1>2 DEF CallsTyped, LiveInv, AtWork, StopTask, IInv, Fields
<1>12. OwnerInv'
  BY <1>1, <1>2 DEF CallsTyped, OwnerInv, AtWork, Owning, Pc, Stored, UnitOf,
        StopTask, IInv, Fields
<1> QED
  BY <1>3, <1>4, <1>5, <1>6, <1>7, <1>8, <1>9, <1>10, <1>11, <1>12 DEF IInv

(* A StopUnit goroutine ends.                                              *)
LEMMA StopUnitReturnsStep ==
    ASSUME IInv, NEW k \in Ids, StopUnitReturns(k)
    PROVE  IInv'
<1>1. TypeOK /\ CallsTyped /\ Fields
  BY FieldsTyped DEF IInv
<1>2. TypeOK'
  BY <1>1 DEF TypeOK, StopUnitReturns, IInv, Fields
<1>3. CallsTyped'
  BY <1>1 DEF CallsTyped, AtWork, StopUnitReturns, IInv, Fields
<1>4. OneCallPerTask'
  BY <1>1 DEF CallsTyped, OneCallPerTask, AtWork, StopUnitReturns, IInv, Fields
<1>5. CallsOwn'
  BY <1>1 DEF CallsTyped, OneCallPerTask, CallsOwn, AtWork, Owning, Pc,
        StopUnitReturns, IInv, Fields
<1>6. StartsInv'
  BY <1>1 DEF TypeOK, CallsTyped, OneCallPerTask, CallsOwn, StartsInv, AtWork,
        Owning, Pc, StopUnitReturns, IInv, Fields
<1>7. DestroysInv'
  BY <1>1 DEF CallsTyped, OneCallPerTask, CallsOwn, StartsInv, DestroysInv,
        AtWork, Owning, Pc, StopUnitReturns, IInv, Fields
<1>8. StoreInv'
  BY <1>1 DEF CallsTyped, OneCallPerTask, CallsOwn, StartsInv, DestroysInv,
        StoreInv, AtWork, Owning, Pc, Ending, Stored, UnitOf, StopUnitReturns,
        IInv, Fields
<1>9. RegInv'
  BY <1>1 DEF CallsTyped, RegInv, AtWork, Stored, UnitOf, StopUnitReturns,
        IInv, Fields
<1>10. LiveInv'
  BY <1>1 DEF CallsTyped, LiveInv, AtWork, StopUnitReturns, IInv, Fields
<1>11. OwnerInv'
  BY <1>1 DEF CallsTyped, OwnerInv, AtWork, Owning, Pc, Stored, UnitOf,
        StopUnitReturns, IInv, Fields
<1> QED
  BY <1>2, <1>3, <1>4, <1>5, <1>6, <1>7, <1>8, <1>9, <1>10, <1>11 DEF IInv

(* A poller observes its unit's exit.                                      *)
LEMMA ObserveExitStep ==
    ASSUME IInv, NEW k \in Ids, ObserveExit(k)
    PROVE  IInv'
<1>1. TypeOK /\ CallsTyped /\ Fields
  BY FieldsTyped DEF IInv
<1>2. TypeOK'
  BY <1>1 DEF TypeOK, ObserveExit, IInv, Fields
<1>3. CallsTyped'
  BY <1>1 DEF CallsTyped, AtWork, ObserveExit, IInv, Fields
<1>4. OneCallPerTask'
  BY <1>1 DEF CallsTyped, OneCallPerTask, AtWork, ObserveExit, IInv, Fields
<1>5. CallsOwn'
  BY <1>1 DEF CallsTyped, OneCallPerTask, CallsOwn, AtWork, Owning, Pc,
        ObserveExit, IInv, Fields
<1>6. StartsInv'
  BY <1>1 DEF TypeOK, CallsTyped, OneCallPerTask, CallsOwn, StartsInv, AtWork,
        Owning, Pc, ObserveExit, IInv, Fields
<1>7. DestroysInv'
  BY <1>1 DEF CallsTyped, OneCallPerTask, CallsOwn, StartsInv, DestroysInv,
        AtWork, Owning, Pc, ObserveExit, IInv, Fields
<1>8. StoreInv'
  BY <1>1 DEF CallsTyped, OneCallPerTask, CallsOwn, StartsInv, DestroysInv,
        StoreInv, AtWork, Owning, Pc, Ending, Stored, UnitOf, ObserveExit,
        IInv, Fields
<1>9. RegInv'
  BY <1>1 DEF CallsTyped, RegInv, AtWork, Stored, UnitOf, ObserveExit, IInv,
        Fields
<1>10. LiveInv'
  BY <1>1 DEF CallsTyped, LiveInv, AtWork, ObserveExit, IInv, Fields
<1>11. OwnerInv'
  BY <1>1 DEF CallsTyped, OwnerInv, AtWork, Owning, Pc, Stored, UnitOf,
        ObserveExit, IInv, Fields
<1> QED
  BY <1>2, <1>3, <1>4, <1>5, <1>6, <1>7, <1>8, <1>9, <1>10, <1>11 DEF IInv

(* A crash leaves nothing that could be wrong.                             *)
LEMMA CrashStep ==
    ASSUME IInv, Crash
    PROVE  IInv'
<1>1. TypeOK /\ CallsTyped /\ Fields
  BY FieldsTyped DEF IInv
<1>2. /\ call' \in [Calls -> Call]
      /\ \A d \in Calls : /\ call'[d].pc = "idle" /\ call'[d].task = NoTask
                          /\ call'[d].id = NoId
      /\ UNCHANGED <<used, handler, exited, known>>
  BY DEF Crash, Call, Pc, Idle
<1>3. TypeOK'
  BY <1>1, <1>2 DEF TypeOK, Crash, IInv, Fields
<1>4. CallsTyped'
  BY <1>1, <1>2 DEF CallsTyped, AtWork, Crash, IInv, Fields
<1>5. OneCallPerTask'
  BY <1>1, <1>2 DEF CallsTyped, OneCallPerTask, AtWork, Crash, IInv, Fields
<1>6. CallsOwn'
  BY <1>1, <1>2 DEF CallsTyped, OneCallPerTask, CallsOwn, AtWork, Owning, Pc,
        Crash, IInv, Fields
<1>7. StartsInv'
  BY <1>1, <1>2 DEF TypeOK, CallsTyped, OneCallPerTask, CallsOwn, StartsInv,
        AtWork, Owning, Pc, Crash, IInv, Fields
<1>8. DestroysInv'
  BY <1>1, <1>2 DEF CallsTyped, OneCallPerTask, CallsOwn, StartsInv,
        DestroysInv, AtWork, Owning, Pc, Crash, IInv, Fields
<1>9. StoreInv'
  BY <1>1, <1>2 DEF CallsTyped, OneCallPerTask, CallsOwn, StartsInv,
        DestroysInv, StoreInv, AtWork, Owning, Pc, Ending, Stored, UnitOf,
        Crash, IInv, Fields
<1>10. RegInv'
  BY <1>1, <1>2 DEF CallsTyped, RegInv, AtWork, Stored, UnitOf, Crash, IInv,
        Fields
<1>11. LiveInv'
  BY <1>1, <1>2 DEF CallsTyped, LiveInv, AtWork, Crash, IInv, Fields
<1>12. OwnerInv'
  BY <1>1, <1>2 DEF CallsTyped, OwnerInv, AtWork, Owning, Pc, Stored, UnitOf,
        Crash, IInv, Fields
<1> QED
  BY <1>3, <1>4, <1>5, <1>6, <1>7, <1>8, <1>9, <1>10, <1>11, <1>12 DEF IInv

-----------------------------------------------------------------------------
(* The invariant holds of the empty maps New makes.                        *)
LEMMA InitInv == Init => IInv
<1> SUFFICES ASSUME Init PROVE IInv
  OBVIOUS
<1>1. TypeOK
  BY DEF Init, TypeOK, Call, Idle, Pc, NoHandler
<1>2. /\ \A c \in Calls : /\ call[c].pc = "idle" /\ call[c].task = NoTask
                          /\ call[c].id = NoId
      /\ \A t \in Tasks : store[t] = NoId
      /\ \A u \in Units : reg[u] = NoId /\ owner[u] = NoTask
      /\ \A k \in Ids : handler[k] = NoHandler
      /\ used = {} /\ stopped = {} /\ stopping = {}
  BY DEF Init, Idle
<1>3. CallsTyped /\ OneCallPerTask /\ CallsOwn /\ StartsInv /\ DestroysInv
  BY <1>2 DEF CallsTyped, OneCallPerTask, CallsOwn, StartsInv, DestroysInv,
              AtWork, Owning
<1>4. StoreInv /\ RegInv /\ LiveInv /\ OwnerInv
  BY <1>2 DEF StoreInv, RegInv, LiveInv, OwnerInv, Stored
<1> QED
  BY <1>1, <1>3, <1>4 DEF IInv

(* Every step of the driver, or of a crash, preserves the invariant.       *)
LEMMA NextInv ==
    ASSUME Serial, IInv, [Next]_vars
    PROVE  IInv'
<1>1. Fields /\ CallsTyped
  BY FieldsTyped DEF IInv
<1>2. ASSUME NEW c \in Calls, StartStep(c) PROVE IInv'
  <2>1. CASE ReadUnitState(c) \/ ReadFails(c) \/ StartUnit(c) \/ RollBackFailedStart(c)
    <3> DEFINE S == {"start", "rollback", "release", "register"}
    <3>1. PICK p \in S : Goto(c, p)
      BY <2>1 DEF ReadUnitState, ReadFails, StartUnit, RollBackFailedStart
    <3>2. p \in S \cap Pc
      BY <3>1 DEF Pc
    <3>3. Moved(c, S)
      BY <1>1, <3>1, <3>2, MoveGoto
    <3> QED
      BY <2>1, <3>3, AdvanceStep
         DEF ReadUnitState, ReadFails, StartUnit, RollBackFailedStart
  <2> QED
    BY <1>2, <2>1, ClaimUnitStep, ClaimRefusedStep, RegisterUnitStep,
       NewHandlerStep, PublishStep DEF StartStep
<1>3. ASSUME NEW c \in Calls, DestroyStep(c) PROVE IInv'
  BY <1>3, DestroyCheckStep, DestroyStopsStep, HandlerStopStep,
     UnregisterUnitStep, DeleteStep, ReleaseUnitStep DEF DestroyStep
<1>4. ASSUME NEW c \in Calls, NEW t \in Tasks, NEW u \in Units,
             StartTask(c, t, u) \/ RecoverTask(c, t, u)
      PROVE  IInv'
  <2>1. /\ call[c].pc = "idle" /\ store[t] = NoId
        /\ \A d \in Calls : call[d].task # t
    BY <1>4 DEF StartTask, RecoverTask, Begin, MayCall
  <2>0. PICK o \in {"start", "recover"} :
            call' = [call EXCEPT ![c] = [pc |-> "claim", op |-> o, task |-> t,
                                         unit |-> u, id |-> NoId, force |-> FALSE]]
    BY <1>4 DEF StartTask, RecoverTask, Begin
  <2>2. /\ call' \in [Calls -> Call]
        /\ \A d \in Calls \ {c} : call'[d] = call[d]
        /\ call'[c].pc = "claim" /\ call'[c].task = t /\ call'[c].unit = u
        /\ call'[c].id = NoId /\ call'[c].op # "destroy"
    BY <1>1, <2>0 DEF Call, Pc, Fields
  <2>3. UNCHANGED <<owner, store, reg, used, handler, exited, stopped, stopping,
                    known>>
    BY <1>4 DEF StartTask, RecoverTask, Begin
  <2> QED
    BY <2>1, <2>2, <2>3, BeginsStep
<1>5. ASSUME NEW c \in Calls, CallStep(c) PROVE IInv'
  BY <1>2, <1>3, <1>4, <1>5, DestroyTaskStep DEF CallStep
<1>6. ASSUME NEW t \in Tasks, StopTask(t) PROVE IInv'
  BY <1>6, StopTaskStep
<1>7. ASSUME NEW k \in Ids, StopUnitReturns(k) \/ ObserveExit(k) PROVE IInv'
  BY <1>7, StopUnitReturnsStep, ObserveExitStep
<1>8. CASE Crash
  BY <1>8, CrashStep
<1>9. CASE UNCHANGED vars
  BY <1>9 DEF vars, IInv, TypeOK, CallsTyped, OneCallPerTask, CallsOwn,
              StartsInv, DestroysInv, StoreInv, RegInv, LiveInv, OwnerInv,
              Stored, UnitOf, AtWork
<1> QED
  BY <1>5, <1>6, <1>7, <1>8, <1>9 DEF Next

(* IInv is an invariant of the driver: what each goroutine of StartTask,   *)
(* RecoverTask and DestroyTask relies on between two of its steps.         *)
THEOREM Invariant ==
    ASSUME Serial
    PROVE  Spec => []IInv
<1>1. IInv /\ [Next]_vars => IInv'
  BY NextInv
<1> QED
  BY InitInv, <1>1, PTL DEF Spec

(* Every variable of the driver keeps its type.                            *)
THEOREM TypeCorrect ==
    ASSUME Serial
    PROVE  Spec => []TypeOK
<1>1. IInv => TypeOK
  BY DEF IInv
<1> QED
  BY Invariant, <1>1, PTL

(* plugin/driver.go:66: at most one task manages a unit at a time.         *)
THEOREM Exclusive ==
    ASSUME Serial
    PROVE  Spec => []OneManager
<1>1. IInv => OneManager
  BY StoredFacts DEF OneManager, Stored, UnitOf
<1> QED
  BY Invariant, <1>1, PTL

(* A stored task that is not past Handler.Stop owns its unit, listens to   *)
(* its unit's current wake channel, and has a live Handler.                *)
THEOREM Watched ==
    ASSUME Serial
    PROVE  Spec => []StoredIsWatched
<1>1. IInv => StoredIsWatched
  <2> SUFFICES ASSUME IInv, NEW t \in Tasks, Stored(t),
                      \A c \in Calls : call[c].task = t => call[c].pc \notin Ending
               PROVE  /\ owner[UnitOf(t)] = t
                      /\ reg[UnitOf(t)] = store[t] /\ handler[store[t]].chan = store[t]
                      /\ store[t] \notin stopped
    BY DEF StoredIsWatched
  <2>1. store[t] \notin stopped /\ reg[UnitOf(t)] = store[t]
    BY DEF IInv, StoreInv
  <2> QED
    BY <2>1, StoredFacts DEF Stored, UnitOf
<1> QED
  BY Invariant, <1>1, PTL

(* Whoever starts, stops or kills a unit does so for the task that owns    *)
(* it: rollBackFailedStart, DestroyTask, and StopUnit goroutines alike.    *)
THEOREM Commands ==
    ASSUME Serial
    PROVE  Spec => []CommandsOwnTheirUnit
<1>1. IInv => CommandsOwnTheirUnit
  <2> SUFFICES ASSUME IInv PROVE CommandsOwnTheirUnit
    OBVIOUS
  <2>1. \A c \in Calls : call[c].pc \in {"start", "rollback", "stop"} =>
            owner[call[c].unit] = call[c].task
    BY DEF IInv, CallsOwn, Owning, Pc
  <2>2. ASSUME NEW k \in stopping \ stopped
        PROVE  owner[handler[k].unit] = handler[k].task
    <3>1. k \in Ids /\ handler[k].task \in Tasks /\ store[handler[k].task] = k
      BY <2>2 DEF IInv, TypeOK, LiveInv
    <3> QED
      BY <3>1, StoredFacts
  <2> QED
    BY <2>1, <2>2 DEF CommandsOwnTheirUnit
<1> QED
  BY Invariant, <1>1, PTL

(* No path through the calls, failed or crashed, leaves a unit owned, a    *)
(* unit registered or a Handler running for no task.                       *)
THEOREM Leakless ==
    ASSUME Serial
    PROVE  Spec => []NothingLeaks
<1>1. IInv => NothingLeaks
  <2> SUFFICES ASSUME IInv PROVE NothingLeaks
    OBVIOUS
  <2>1. ASSUME NEW u \in Units, reg[u] # NoId PROVE owner[u] # NoTask
    <3>1. CASE \E t \in Tasks : store[t] = reg[u] /\ UnitOf(t) = u
      BY <2>1, <3>1, StoredFacts DEF UnitOf
    <3>2. CASE \E c \in Calls : /\ call[c].pc \in {"build", "publish"}
                                /\ call[c].unit = u
      BY <3>2 DEF IInv, CallsOwn, CallsTyped, AtWork, Owning, Pc
    <3> QED
      BY <2>1, <3>1, <3>2 DEF IInv, RegInv
  <2>2. ASSUME NEW k \in Ids, handler[k] # NoHandler, k \notin stopped
        PROVE  \/ store[handler[k].task] = k
               \/ \E c \in Calls : call[c].id = k /\ call[c].pc = "publish"
    BY <2>2 DEF IInv, LiveInv
  <2> QED
    BY <2>1, <2>2 DEF NothingLeaks, IInv, OwnerInv
<1> QED
  BY Invariant, <1>1, PTL

-----------------------------------------------------------------------------
(* Steps that change neither a unit's owner nor a stored task's Handler    *)
(* are invisible to UnitOwnership.                                         *)
LEMMA Stutters ==
    ASSUME owner' = owner, store' = store,
           \A t \in Tasks : store[t] # NoId => handler'[store[t]] = handler[store[t]]
    PROVE  UNCHANGED Ownership!ovars
<1>1. Serving' = Serving
  BY DEF Serving, Stored, UnitOf
<1> QED
  BY <1>1 DEF Ownership!ovars

(* The driver implements exclusive ownership of units (UnitOwnership).     *)
THEOREM Implements ==
    ASSUME Serial
    PROVE  Spec => KeepsOwnership
<1>1. Init => Ownership!Nothing
  BY DEF Init, Ownership!Nothing, Serving, Stored
<1>2. ASSUME IInv, IInv', [Next]_vars
      PROVE  [Ownership!ONext]_(Ownership!ovars)
  <2>0. TypeOK /\ CallsTyped
    BY <1>2 DEF IInv
  <2>1. ASSUME NEW c \in Calls, ClaimUnit(c)
        PROVE  [Ownership!ONext]_(Ownership!ovars)
    <3> DEFINE t == call[c].task  u == call[c].unit
    <3>1. t \in Tasks /\ u \in Units
      BY <2>0, <2>1 DEF ClaimUnit, CallsTyped, AtWork
    <3>2. CASE owner[u] = NoTask
      <4>1. Serving' = Serving
        BY <2>1 DEF ClaimUnit, Serving, Stored, UnitOf
      <4>2. Ownership!Acquire(t, u)
        BY <2>1, <3>2, <4>1 DEF ClaimUnit, Ownership!Acquire
      <4> QED
        BY <3>1, <4>2 DEF Ownership!ONext
    <3>3. CASE owner[u] = t
      <4>1. owner' = owner
        BY <2>0, <2>1, <3>1, <3>3 DEF ClaimUnit, TypeOK
      <4> QED
        BY <2>1, <4>1, Stutters DEF ClaimUnit
    <3> QED
      BY <2>1, <3>2, <3>3 DEF ClaimUnit
  <2>2. ASSUME NEW c \in Calls, NewHandler(c)
        PROVE  UNCHANGED Ownership!ovars
    <3>1. handler[call[c].id] = NoHandler
      BY <1>2, <2>2 DEF IInv, StartsInv, NewHandler
    <3>2. \A t \in Tasks : store[t] # NoId => store[t] # call[c].id
      BY <1>2, <3>1, StoredFacts
    <3> QED
      BY <1>2, <2>2, <3>2, StoredFacts, Stutters DEF NewHandler, IInv, TypeOK
  <2>3. ASSUME NEW c \in Calls, Publish(c)
        PROVE  Ownership!ONext
    <3> DEFINE t == call[c].task  u == call[c].unit
    <3>1. t \in Tasks /\ u \in Units
      BY <2>0, <2>3 DEF Publish, CallsTyped, AtWork
    <3>2. /\ owner[u] = t /\ store[t] = NoId
          /\ call[c].id # NoId /\ handler[call[c].id].unit = u
      <4>1. call[c].pc = "publish"
        BY <2>3 DEF Publish
      <4>2. owner[u] = t
        BY <1>2, <4>1 DEF IInv, CallsOwn, Owning, Pc
      <4>3. /\ store[t] = NoId /\ call[c].id \in used
            /\ handler[call[c].id] = [task |-> t, unit |-> u, chan |-> call[c].id]
        BY <1>2, <4>1 DEF IInv, StartsInv
      <4>4. used \subseteq Ids
        BY <2>0 DEF TypeOK
      <4> QED
        BY <4>2, <4>3, <4>4
    <3>3. Serving' = [Serving EXCEPT ![t] = u]
      BY <2>0, <2>3, <3>1, <3>2 DEF Publish, TypeOK, Serving, Stored, UnitOf
    <3>4. Ownership!Serve(t, u)
      BY <2>3, <3>1, <3>2, <3>3 DEF Publish, Ownership!Serve, Serving, Stored
    <3> QED
      BY <3>1, <3>4 DEF Ownership!ONext
  <2>4. ASSUME NEW c \in Calls, Delete(c)
        PROVE  Ownership!ONext
    <3> DEFINE t == call[c].task
    <3>1. t \in Tasks
      BY <2>0, <2>4 DEF Delete, CallsTyped, AtWork
    <3>2. Serving' = [Serving EXCEPT ![t] = NoUnit]
      BY <2>0, <2>4, <3>1 DEF Delete, TypeOK, Serving, Stored, UnitOf
    <3>3. Ownership!Retire(t)
      BY <2>4, <3>2 DEF Delete, Ownership!Retire
    <3> QED
      BY <3>1, <3>3 DEF Ownership!ONext
  <2>5. ASSUME NEW c \in Calls, ReleaseUnit(c)
        PROVE  Ownership!ONext
    <3> DEFINE t == call[c].task  u == call[c].unit
    <3>1. t \in Tasks /\ u \in Units
      BY <2>0, <2>5 DEF ReleaseUnit, CallsTyped, AtWork
    <3>2. owner[u] = t /\ store[t] = NoId
      BY <1>2, <2>5 DEF ReleaseUnit, IInv, CallsOwn, StartsInv, Owning, Pc
    <3>3. Serving[t] # u
      BY <3>1, <3>2 DEF Serving, Stored
    <3>4. Serving' = Serving
      BY <2>5 DEF ReleaseUnit, Serving, Stored, UnitOf
    <3>5. Ownership!GiveUp(t, u)
      BY <2>5, <3>2, <3>3, <3>4 DEF ReleaseUnit, Ownership!GiveUp
    <3> QED
      BY <3>1, <3>5 DEF Ownership!ONext
  <2>6. CASE Crash
    <3>1. Ownership!Nothing'
      BY <2>6 DEF Crash, Ownership!Nothing, Serving, Stored
    <3> QED
      BY <3>1 DEF Ownership!ONext
  <2>7. CASE owner' = owner /\ store' = store /\ handler' = handler
    BY <2>7, Stutters
  <2>8. ASSUME NEW c \in Calls, CallStep(c)
        PROVE  [Ownership!ONext]_(Ownership!ovars)
    BY <2>1, <2>2, <2>3, <2>4, <2>5, <2>7, <2>8
       DEF CallStep, StartStep, DestroyStep, StartTask, RecoverTask, DestroyTask,
           Begin, ClaimRefused, ReadUnitState, ReadFails, StartUnit,
           RollBackFailedStart, RegisterUnit, DestroyCheck, DestroyStops,
           HandlerStop, UnregisterUnit
  <2> QED
    BY <1>2, <2>6, <2>7, <2>8
       DEF Next, StopTask, StopUnitReturns, ObserveExit, vars
<1> QED
  BY Invariant, <1>1, <1>2, PTL DEF Spec, KeepsOwnership, Ownership!OSpec

-----------------------------------------------------------------------------
(* What every identity given out stands for, whichever calls overlap: one  *)
(* registration, of one unit, and at most one Handler, built once, for the *)
(* task and the unit of the call that registered it.                       *)
IdsInv ==
    /\ \A c \in Calls : call[c].id \in used \cup {NoId}
    /\ \A k \in Ids \ used : handler[k] = NoHandler /\ \A u \in Units : reg[u] # k
    /\ \A u, v \in Units : reg[u] # NoId /\ reg[u] = reg[v] => u = v
    /\ \A k \in Ids : handler[k].chan \in used \cup {NoId}
    /\ \A k \in Ids, u \in Units :
          reg[u] # NoId /\ handler[k].chan = reg[u] => handler[k].unit = u

(* A call that builds a Handler is the only one to hold its identity.      *)
BuildsInv == \A c \in Calls : call[c].pc = "build" =>
    /\ call[c].id \in used
    /\ handler[call[c].id] = NoHandler
    /\ \A d \in Calls : call[d].id = call[c].id => d = c
    /\ \A u \in Units : reg[u] = call[c].id => u = call[c].unit

(* The Handlers that calls publish or destroy, and those in the store.     *)
Holding == {"publish", "check", "stop", "halt", "unregister", "delete"}

HeldInv ==
    /\ \A c \in Calls : call[c].pc \in Holding =>
          /\ call[c].id \in used
          /\ handler[call[c].id].task = call[c].task
          /\ handler[call[c].id].unit = call[c].unit
    /\ \A t \in Tasks : Stored(t) =>
          /\ store[t] \in used
          /\ handler[store[t]].task = t
          /\ UnitOf(t) \in Units

(* The inductive invariant of a driver whose calls may overlap as they     *)
(* like.                                                                   *)
FreeInv == TypeOK /\ CallsTyped /\ IdsInv /\ BuildsInv /\ HeldInv

(* The facts about types that the proofs below use.                        *)
LEMMA FreeTypes ==
    ASSUME FreeInv
    PROVE  /\ Fields
           /\ used \subseteq Ids
           /\ store \in [Tasks -> Ids \cup {NoId}]
           /\ reg \in [Units -> Ids \cup {NoId}]
           /\ \A c \in Calls : call[c].pc # "idle" =>
                 call[c].task \in Tasks /\ call[c].unit \in Units
           /\ \A k \in Ids : handler[k].task \in Tasks => handler[k] # NoHandler
  BY FieldsTyped DEF FreeInv, TypeOK, CallsTyped, AtWork, NoHandler

(* A step that builds no Handler, registers nothing and publishes nothing. *)
Quiet ==
    /\ used' = used /\ handler' = handler
    /\ \A u \in Units : reg'[u] \in {reg[u], NoId}
    /\ \A t \in Tasks : store'[t] \in {store[t], NoId}
    /\ \A d \in Calls :
          \/ call'[d] = call[d]
          \/ /\ call'[d].pc \notin Holding \cup {"build"}
             /\ call'[d].id \in {call[d].id, NoId}
          \/ /\ call[d].pc \in Holding /\ call'[d].pc \in Holding
             /\ call'[d].id = call[d].id /\ call'[d].task = call[d].task
             /\ call'[d].unit = call[d].unit

(* Such a step leaves what is known of the identities as it was.           *)
LEMMA QuietStep ==
    ASSUME FreeInv, Quiet
    PROVE  IdsInv' /\ BuildsInv' /\ HeldInv'
<1>1. IdsInv'
  BY DEF FreeInv, Quiet, IdsInv
<1>2. BuildsInv'
  <2> SUFFICES ASSUME NEW c \in Calls, call'[c].pc = "build"
               PROVE  /\ call'[c].id \in used
                      /\ handler[call'[c].id] = NoHandler
                      /\ \A d \in Calls : call'[d].id = call'[c].id => d = c
                      /\ \A u \in Units : reg'[u] = call'[c].id => u = call'[c].unit
    BY DEF BuildsInv, Quiet
  <2>1. call'[c] = call[c]
    BY DEF Quiet, Holding
  <2>2. call[c].id # NoId
    BY <2>1, FreeTypes DEF FreeInv, BuildsInv
  <2> QED
    BY <2>1, <2>2 DEF FreeInv, BuildsInv, Quiet
<1>3. HeldInv'
  BY DEF FreeInv, Quiet, HeldInv, Stored, UnitOf
<1> QED
  BY <1>1, <1>2, <1>3

(* RegisterUnit gives out an identity nobody has heard of.                 *)
LEMMA RegisterUnitFree ==
    ASSUME FreeInv, NEW c \in Calls, RegisterUnit(c)
    PROVE  IdsInv' /\ BuildsInv' /\ HeldInv'
<1>1. PICK k \in Ids \ used :
          /\ used' = used \cup {k}
          /\ reg' = [reg EXCEPT ![call[c].unit] = k]
          /\ call' = [call EXCEPT ![c] = [@ EXCEPT !.pc = "build", !.id = k]]
  BY DEF RegisterUnit
<1>2. /\ call[c].unit \in Units
      /\ \A u \in Units \ {call[c].unit} : reg'[u] = reg[u]
      /\ reg'[call[c].unit] = k
      /\ \A d \in Calls \ {c} : call'[d] = call[d]
      /\ call'[c].pc = "build" /\ call'[c].id = k /\ call'[c].unit = call[c].unit
      /\ handler' = handler /\ store' = store
  BY <1>1, FreeTypes DEF RegisterUnit, Fields, Call
<1>3. IdsInv'
  BY <1>1, <1>2 DEF FreeInv, IdsInv
<1>4. BuildsInv'
  BY <1>1, <1>2 DEF FreeInv, IdsInv, BuildsInv
<1>5. HeldInv'
  BY <1>1, <1>2 DEF FreeInv, HeldInv, Holding, Stored, UnitOf
<1> QED
  BY <1>3, <1>4, <1>5

(* NewHandler builds the Handler of an identity that only this call holds, *)
(* listening to whatever is registered for the unit by then.               *)
LEMMA NewHandlerFree ==
    ASSUME FreeInv, NEW c \in Calls, NewHandler(c)
    PROVE  IdsInv' /\ BuildsInv' /\ HeldInv'
<1> DEFINE k == call[c].id
<1>1. /\ k \in used /\ k \in Ids /\ handler[k] = NoHandler
      /\ \A d \in Calls : call[d].id = k => d = c
      /\ call[c].task \in Tasks /\ call[c].unit \in Units
  BY FreeTypes DEF NewHandler, FreeInv, BuildsInv
<1>2. /\ Moved(c, {"publish"})
      /\ used' = used /\ reg' = reg /\ store' = store
  BY <1>1, FreeTypes, MoveGoto DEF NewHandler, Pc
<1>3. /\ \A j \in Ids \ {k} : handler'[j] = handler[j]
      /\ handler'[k].task = call[c].task /\ handler'[k].unit = call[c].unit
      /\ handler'[k].chan = reg[call[c].unit]
  BY <1>1 DEF NewHandler, FreeInv, TypeOK
<1>4. \A t \in Tasks : Stored(t) => store[t] # k
  BY <1>1, FreeTypes DEF FreeInv, HeldInv, Stored
<1>5. IdsInv'
  <2>1. reg[call[c].unit] \in used \cup {NoId}
    BY <1>1, FreeTypes DEF FreeInv, IdsInv
  <2> QED
    BY <1>1, <1>2, <1>3, <2>1 DEF FreeInv, IdsInv, Moved
<1>6. BuildsInv'
  BY <1>1, <1>2, <1>3, FreeTypes DEF FreeInv, BuildsInv, Moved
<1>7. HeldInv'
  BY <1>1, <1>2, <1>3, <1>4, FreeTypes
     DEF FreeInv, HeldInv, Holding, Moved, Stored, UnitOf
<1> QED
  BY <1>5, <1>6, <1>7

(* Publish stores the Handler its own call built, for its own task.        *)
LEMMA PublishFree ==
    ASSUME FreeInv, NEW c \in Calls, Publish(c)
    PROVE  IdsInv' /\ BuildsInv' /\ HeldInv'
<1>1. /\ call[c].task \in Tasks /\ call[c].unit \in Units /\ call[c].id \in used
      /\ handler[call[c].id].task = call[c].task
      /\ handler[call[c].id].unit = call[c].unit
  BY FreeTypes DEF Publish, FreeInv, HeldInv, Holding
<1>2. /\ Returned(c)
      /\ used' = used /\ reg' = reg /\ handler' = handler
      /\ \A t \in Tasks \ {call[c].task} : store'[t] = store[t]
      /\ store'[call[c].task] = call[c].id
  BY <1>1, FreeTypes, MoveReturn DEF Publish
<1>3. IdsInv'
  BY <1>1, <1>2 DEF FreeInv, IdsInv, Returned
<1>4. BuildsInv'
  BY <1>1, <1>2, FreeTypes DEF FreeInv, BuildsInv, Returned
<1>5. HeldInv'
  BY <1>1, <1>2 DEF FreeInv, HeldInv, Holding, Returned, Stored, UnitOf
<1> QED
  BY <1>3, <1>4, <1>5

(* DestroyTask takes the Handler it found in the store, which was built    *)
(* for its task.                                                           *)
LEMMA DestroyTaskFree ==
    ASSUME FreeInv, NEW c \in Calls, NEW t \in Tasks, NEW f \in BOOLEAN,
           DestroyTask(c, t, f)
    PROVE  FreeInv'
<1>1. /\ store[t] \in used /\ handler[store[t]].task = t
      /\ handler[store[t]].unit \in Units /\ handler[store[t]] # NoHandler
      /\ store[t] \in Ids
  BY FreeTypes DEF DestroyTask, FreeInv, HeldInv, Stored, UnitOf
<1>2. /\ call' \in [Calls -> Call]
      /\ \A d \in Calls \ {c} : call'[d] = call[d]
      /\ call'[c].pc = "check" /\ call'[c].task = t
      /\ call'[c].unit = handler[store[t]].unit /\ call'[c].id = store[t]
      /\ UNCHANGED <<owner, store, reg, used, handler, exited, stopped, stopping,
                     known>>
  BY <1>1, FreeTypes DEF DestroyTask, Begin, Call, Pc, Fields
<1>3. TypeOK' /\ CallsTyped'
  BY <1>1, <1>2 DEF FreeInv, TypeOK, CallsTyped, AtWork
<1>4. IdsInv'
  BY <1>1, <1>2 DEF FreeInv, IdsInv
<1>5. BuildsInv'
  BY <1>1, <1>2 DEF FreeInv, BuildsInv
<1>6. HeldInv'
  BY <1>1, <1>2 DEF FreeInv, HeldInv, Holding, Stored, UnitOf
<1> QED
  BY <1>3, <1>4, <1>5, <1>6 DEF FreeInv

(* Every other step moves, ends or begins a call, and forgets at most      *)
(* registrations and stored tasks.                                         *)
LEMMA MovesFree ==
    ASSUME FreeInv, NEW c \in Calls,
           StartStep(c) \/ DestroyStep(c),
           ~RegisterUnit(c), ~NewHandler(c), ~Publish(c)
    PROVE  Quiet
<1>1. CASE ClaimRefused(c) \/ ReleaseUnit(c)
  <2>1. Returned(c)
    BY <1>1, FreeTypes, MoveReturn DEF ClaimRefused, ReleaseUnit
  <2> QED
    BY <1>1, <2>1, FreeTypes
       DEF ClaimRefused, ReleaseUnit, Returned, Quiet, Holding
<1>2. CASE \/ ClaimUnit(c) \/ ReadUnitState(c) \/ ReadFails(c) \/ StartUnit(c)
           \/ RollBackFailedStart(c)
  <2> DEFINE S == {"read", "start", "rollback", "release", "register"}
  <2>1. PICK p \in S : Goto(c, p)
    BY <1>2 DEF ClaimUnit, ReadUnitState, ReadFails, StartUnit, RollBackFailedStart
  <2>2. p \in S \cap Pc
    BY <2>1 DEF Pc
  <2>3. Moved(c, S)
    BY <2>1, <2>2, FreeTypes, MoveGoto
  <2> QED
    BY <1>2, <2>3, FreeTypes
       DEF ClaimUnit, ReadUnitState, ReadFails, StartUnit, RollBackFailedStart,
           Moved, Quiet, Holding
<1>3. CASE DestroyCheck(c)
  <2>1. Returned(c) \/ Moved(c, {"halt", "stop"})
    BY <1>3, FreeTypes, MoveReturn, MoveGoto DEF DestroyCheck, Pc
  <2> QED
    BY <1>3, <2>1, FreeTypes DEF DestroyCheck, Returned, Moved, Quiet, Holding
<1>4. CASE DestroyStops(c) \/ HandlerStop(c) \/ UnregisterUnit(c) \/ Delete(c)
  <2> DEFINE S == {"halt", "unregister", "delete", "release"}
  <2>1. PICK p \in S : Goto(c, p)
    BY <1>4 DEF DestroyStops, HandlerStop, UnregisterUnit, Delete
  <2>2. p \in S \cap Pc
    BY <2>1 DEF Pc
  <2>3. Moved(c, S)
    BY <2>1, <2>2, FreeTypes, MoveGoto
  <2>4. /\ \A u \in Units : reg'[u] \in {reg[u], NoId}
        /\ \A t \in Tasks : store'[t] \in {store[t], NoId}
        /\ used' = used /\ handler' = handler
        /\ call[c].pc \in Holding
    BY <1>4, FreeTypes
       DEF DestroyStops, HandlerStop, UnregisterUnit, Delete, Holding
  <2> QED
    BY <2>3, <2>4, FreeTypes DEF Moved, Quiet, Holding
<1> QED
  BY <1>1, <1>2, <1>3, <1>4 DEF StartStep, DestroyStep

(* Every variable keeps its type when a call takes a step.                 *)
LEMMA StepsTyped ==
    ASSUME FreeInv, NEW c \in Calls, StartStep(c) \/ DestroyStep(c)
    PROVE  TypeOK' /\ CallsTyped'
<1>1. TypeOK /\ CallsTyped /\ Fields /\ used \subseteq Ids
  BY FreeTypes DEF FreeInv
<1>2. /\ call[c].task \in Tasks /\ call[c].unit \in Units
      /\ call[c].pc \in {"halt", "check", "build", "publish"} => call[c].id \in Ids
  BY <1>1 DEF StartStep, DestroyStep, ClaimUnit, ClaimRefused, ReadUnitState,
     ReadFails, StartUnit, RollBackFailedStart, RegisterUnit, NewHandler, Publish,
     DestroyCheck, DestroyStops, HandlerStop, UnregisterUnit, Delete, ReleaseUnit,
     CallsTyped, AtWork, FreeInv, BuildsInv, HeldInv, Holding
<1>3. ASSUME Returned(c) PROVE CallsTyped' /\ call' \in [Calls -> Call]
  BY <1>1, <1>3 DEF Returned, CallsTyped, AtWork
<1>4. ASSUME NEW S, S \subseteq Pc \ {"idle"}, Moved(c, S)
      PROVE  CallsTyped' /\ call' \in [Calls -> Call]
  BY <1>1, <1>2, <1>4 DEF Moved, CallsTyped, AtWork
<1>5. CASE ClaimRefused(c) \/ ReleaseUnit(c) \/ Publish(c)
  <2>1. Returned(c)
    BY <1>1, <1>5, MoveReturn DEF ClaimRefused, ReleaseUnit, Publish
  <2>2. TypeOK'
    BY <1>1, <1>2, <1>3, <1>5, <2>1 DEF ClaimRefused, ReleaseUnit, Publish, TypeOK
  <2> QED
    BY <1>3, <2>1, <2>2
<1>6. CASE \/ ClaimUnit(c) \/ ReadUnitState(c) \/ ReadFails(c) \/ StartUnit(c)
           \/ RollBackFailedStart(c)
  <2> DEFINE S == {"read", "start", "rollback", "release", "register"}
  <2>1. PICK p \in S : Goto(c, p)
    BY <1>6 DEF ClaimUnit, ReadUnitState, ReadFails, StartUnit, RollBackFailedStart
  <2>2. p \in S \cap Pc /\ S \subseteq Pc \ {"idle"}
    BY <2>1 DEF Pc
  <2>3. Moved(c, S)
    BY <1>1, <2>1, <2>2, MoveGoto
  <2>4. CallsTyped' /\ call' \in [Calls -> Call]
    BY <1>4, <2>2, <2>3
  <2>5. TypeOK'
    BY <1>1, <1>2, <1>6, <2>4
       DEF ClaimUnit, ReadUnitState, ReadFails, StartUnit, RollBackFailedStart,
           TypeOK
  <2> QED
    BY <2>4, <2>5
<1>7. CASE RegisterUnit(c)
  <2>1. PICK k \in Ids \ used :
            /\ used' = used \cup {k}
            /\ reg' = [reg EXCEPT ![call[c].unit] = k]
            /\ call' = [call EXCEPT ![c] = [@ EXCEPT !.pc = "build", !.id = k]]
    BY <1>7 DEF RegisterUnit
  <2>2. /\ call' \in [Calls -> Call]
        /\ \A d \in Calls \ {c} : call'[d] = call[d]
        /\ call'[c].pc # "idle"
        /\ call'[c].task = call[c].task /\ call'[c].unit = call[c].unit
    BY <1>1, <2>1 DEF Fields, Call, Pc
  <2> QED
    BY <1>1, <1>2, <1>7, <2>1, <2>2 DEF RegisterUnit, TypeOK, CallsTyped, AtWork
<1>8. CASE NewHandler(c)
  <2>1. {"publish"} \subseteq Pc \ {"idle"} /\ Moved(c, {"publish"})
    BY <1>1, <1>8, MoveGoto DEF NewHandler, Pc
  <2>2. CallsTyped' /\ call' \in [Calls -> Call]
    BY <1>4, <2>1
  <2>3. call[c].id \in Ids /\ reg[call[c].unit] \in Ids \cup {NoId}
    BY <1>1, <1>2, <1>8 DEF NewHandler, TypeOK
  <2>4. TypeOK'
    BY <1>1, <1>2, <1>8, <2>2, <2>3 DEF NewHandler, TypeOK
  <2> QED
    BY <2>2, <2>4
<1>9. CASE DestroyCheck(c)
  <2>1. Returned(c) \/ Moved(c, {"halt", "stop"})
    BY <1>1, <1>9, MoveReturn, MoveGoto DEF DestroyCheck, Pc
  <2>2. {"halt", "stop"} \subseteq Pc \ {"idle"}
    BY DEF Pc
  <2>3. CallsTyped' /\ call' \in [Calls -> Call]
    BY <1>3, <1>4, <2>1, <2>2
  <2>4. stopping' \subseteq Ids
    BY <1>1, <1>2, <1>9 DEF DestroyCheck, TypeOK
  <2> QED
    BY <1>1, <1>9, <2>3, <2>4 DEF DestroyCheck, TypeOK
<1>10. CASE DestroyStops(c) \/ HandlerStop(c) \/ UnregisterUnit(c) \/ Delete(c)
  <2> DEFINE S == {"halt", "unregister", "delete", "release"}
  <2>1. PICK p \in S : Goto(c, p)
    BY <1>10 DEF DestroyStops, HandlerStop, UnregisterUnit, Delete
  <2>2. p \in S \cap Pc /\ S \subseteq Pc \ {"idle"}
    BY <2>1 DEF Pc
  <2>3. Moved(c, S)
    BY <1>1, <2>1, <2>2, MoveGoto
  <2>4. CallsTyped' /\ call' \in [Calls -> Call]
    BY <1>4, <2>2, <2>3
  <2>5. TypeOK'
    BY <1>1, <1>2, <1>10, <2>4
       DEF DestroyStops, HandlerStop, UnregisterUnit, Delete, TypeOK
  <2> QED
    BY <2>4, <2>5
<1> QED
  BY <1>5, <1>6, <1>7, <1>8, <1>9, <1>10 DEF StartStep, DestroyStep

(* A step of a call, however the calls for one task overlap.               *)
LEMMA CallStepFree ==
    ASSUME FreeInv, NEW c \in Calls, CallStep(c)
    PROVE  FreeInv'
<1>1. CASE StartStep(c) \/ DestroyStep(c)
  <2>1. IdsInv' /\ BuildsInv' /\ HeldInv'
    BY <1>1, MovesFree, QuietStep, RegisterUnitFree, NewHandlerFree, PublishFree
  <2> QED
    BY <1>1, <2>1, StepsTyped DEF FreeInv
<1>2. ASSUME NEW t \in Tasks, NEW u \in Units, StartTask(c, t, u) \/ RecoverTask(c, t, u)
      PROVE  FreeInv'
  <2>1. PICK o \in {"start", "recover"} :
            call' = [call EXCEPT ![c] = [pc |-> "claim", op |-> o, task |-> t,
                                         unit |-> u, id |-> NoId, force |-> FALSE]]
    BY <1>2 DEF StartTask, RecoverTask, Begin
  <2>2. /\ call' \in [Calls -> Call]
        /\ \A d \in Calls \ {c} : call'[d] = call[d]
        /\ call'[c].pc = "claim" /\ call'[c].task = t /\ call'[c].unit = u
        /\ call'[c].id = NoId
    BY <2>1, FreeTypes DEF Call, Pc, Fields
  <2>3. UNCHANGED <<owner, store, reg, used, handler, exited, stopped, stopping,
                    known>>
    BY <1>2 DEF StartTask, RecoverTask, Begin
  <2>4. Quiet
    BY <2>2, <2>3 DEF Quiet, Holding
  <2>5. TypeOK' /\ CallsTyped'
    BY <2>2, <2>3 DEF FreeInv, TypeOK, CallsTyped, AtWork
  <2> QED
    BY <2>4, <2>5, QuietStep DEF FreeInv
<1> QED
  BY <1>1, <1>2, DestroyTaskFree DEF CallStep

(* StopTask, the end of its goroutine, and the poller leave calls, store   *)
(* and registrations alone.                                                *)
LEMMA OthersFree ==
    ASSUME FreeInv,
           \/ \E t \in Tasks : StopTask(t)
           \/ \E k \in Ids : StopUnitReturns(k) \/ ObserveExit(k)
    PROVE  FreeInv'
<1>1. UNCHANGED <<owner, store, reg, used, handler, stopped, known, call>>
  BY DEF StopTask, StopUnitReturns, ObserveExit
<1>2. stopping' \subseteq Ids /\ exited' \subseteq Ids
  BY DEF StopTask, StopUnitReturns, ObserveExit, FreeInv, TypeOK
<1> QED
  BY <1>1, <1>2
     DEF FreeInv, TypeOK, CallsTyped, AtWork, IdsInv, BuildsInv, HeldInv, Stored,
         UnitOf

(* A crash forgets everything but the identities given out.                *)
LEMMA CrashFree == ASSUME FreeInv, Crash PROVE FreeInv'
<1>1. /\ call' \in [Calls -> Call]
      /\ \A d \in Calls : /\ call'[d].pc = "idle" /\ call'[d].task = NoTask
                          /\ call'[d].id = NoId
  BY DEF Crash, Call, Pc, Idle
<1>2. Quiet
  BY <1>1 DEF Crash, Quiet, Holding
<1>3. TypeOK' /\ CallsTyped'
  BY <1>1 DEF Crash, FreeInv, TypeOK, CallsTyped, AtWork
<1> QED
  BY <1>2, <1>3, QuietStep DEF FreeInv

(* FreeInv holds however Nomad's calls overlap, Serial or not: several     *)
(* StartTask, RecoverTask and DestroyTask of one task may run at once.     *)
THEOREM FreeInvariant == Spec => []FreeInv
<1>1. Init => FreeInv
  <2> SUFFICES ASSUME Init PROVE FreeInv
    OBVIOUS
  <2>1. TypeOK
    BY DEF Init, TypeOK, Call, Idle, Pc, NoHandler
  <2> QED
    BY <2>1 DEF Init, FreeInv, CallsTyped, AtWork, IdsInv, BuildsInv, HeldInv,
                Holding, Idle, NoHandler, Stored
<1>2. FreeInv /\ [Next]_vars => FreeInv'
  <2> SUFFICES ASSUME FreeInv, [Next]_vars PROVE FreeInv'
    OBVIOUS
  <2>1. CASE UNCHANGED vars
    BY <2>1 DEF vars, FreeInv, TypeOK, CallsTyped, AtWork, IdsInv, BuildsInv,
                HeldInv, Stored, UnitOf
  <2> QED
    BY <2>1, CallStepFree, OthersFree, CrashFree DEF Next
<1> QED
  BY <1>1, <1>2, PTL DEF Spec

-----------------------------------------------------------------------------
(* Properties that need no discipline of Nomad's.                          *)

(* A unit never passes from one task to another in one step: whatever      *)
(* overlaps, claimUnit only takes a unit nobody else owns, and only        *)
(* releaseUnit or a crash lets go of it.                                   *)
NeverPassedOn ==
    [][\A u \in Units : owner[u] # NoTask => owner'[u] \in {owner[u], NoTask}]_vars

(* A Handler is built once: no later registration, start or recovery makes *)
(* it another task's, another unit's, or attached to another wake channel. *)
HandlersAreFixed ==
    [][\A k \in Ids : handler[k] # NoHandler => handler'[k] = handler[k]]_vars

(* The Handler the store returns for a task was built for that task, so    *)
(* that WaitTask, StopTask, SignalTask, InspectTask and TaskStats answer   *)
(* for the unit it was started on.                                         *)
StoredHandlerIsItsOwn == \A t \in Tasks :
    Stored(t) => handler[store[t]].task = t /\ UnitOf(t) \in Units

(* The wake channel a Handler listens to, if registered at all, is that of *)
(* its own unit, however NewHandler's look-up interleaves with other       *)
(* registrations: no task polls on another unit's signals.                 *)
WakesStayApart == \A k \in Ids, u \in Units :
    handler[k].chan # NoId /\ handler[k].chan = reg[u] => handler[k].unit = u

(* claimUnit and releaseUnit are the only steps to touch unitOwners, and   *)
(* neither hands a unit over.                                              *)
THEOREM NoHandOver == Spec => NeverPassedOn
<1>1. ASSUME FreeInv, [Next]_vars, NEW u \in Units, owner[u] # NoTask
      PROVE  owner'[u] \in {owner[u], NoTask}
  <2>1. owner \in [Units -> Tasks \cup {NoTask}]
    BY <1>1 DEF FreeInv, TypeOK
  <2>2. ASSUME NEW c \in Calls, ClaimUnit(c) PROVE owner'[u] = owner[u]
    BY <1>1, <2>1, <2>2 DEF ClaimUnit
  <2>3. ASSUME NEW c \in Calls, ReleaseUnit(c) PROVE owner'[u] \in {owner[u], NoTask}
    BY <2>1, <2>3 DEF ReleaseUnit
  <2>4. CASE Crash
    BY <2>4 DEF Crash
  <2>5. CASE owner' = owner
    BY <2>5
  <2> QED
    BY <1>1, <2>2, <2>3, <2>4, <2>5
       DEF Next, CallStep, StartStep, DestroyStep, StartTask, RecoverTask,
           DestroyTask, Begin, ClaimRefused, ReadUnitState, ReadFails, StartUnit,
           RollBackFailedStart, RegisterUnit, NewHandler, Publish, DestroyCheck,
           DestroyStops, HandlerStop, UnregisterUnit, Delete, StopTask,
           StopUnitReturns, ObserveExit, vars
<1>2. FreeInv /\ [Next]_vars =>
          [\A u \in Units : owner[u] # NoTask => owner'[u] \in {owner[u], NoTask}]_vars
  BY <1>1
<1> QED
  BY FreeInvariant, <1>2, PTL DEF Spec, NeverPassedOn

(* NewHandler is the only step to make a Handler, and makes one of an      *)
(* identity that has none.                                                 *)
THEOREM HandlersFixed == Spec => HandlersAreFixed
<1>1. ASSUME FreeInv, [Next]_vars, NEW k \in Ids, handler[k] # NoHandler
      PROVE  handler'[k] = handler[k]
  <2>1. ASSUME NEW c \in Calls, NewHandler(c) PROVE handler'[k] = handler[k]
    <3>1. call[c].id # k
      BY <1>1, <2>1 DEF NewHandler, FreeInv, BuildsInv
    <3>2. handler \in [Ids -> [task : Tasks \cup {NoTask}, unit : Units \cup {NoUnit},
                               chan : Ids \cup {NoId}]]
      BY <1>1 DEF FreeInv, TypeOK
    <3> QED
      BY <2>1, <3>1, <3>2 DEF NewHandler
  <2>2. CASE handler' = handler
    BY <2>2
  <2> QED
    BY <1>1, <2>1, <2>2
       DEF Next, CallStep, StartStep, DestroyStep, StartTask, RecoverTask,
           DestroyTask, Begin, ClaimUnit, ClaimRefused, ReadUnitState, ReadFails,
           StartUnit, RollBackFailedStart, RegisterUnit, Publish, DestroyCheck,
           DestroyStops, HandlerStop, UnregisterUnit, Delete, ReleaseUnit, StopTask,
           StopUnitReturns, ObserveExit, Crash, vars
<1>2. FreeInv /\ [Next]_vars =>
          [\A k \in Ids : handler[k] # NoHandler => handler'[k] = handler[k]]_vars
  BY <1>1
<1> QED
  BY FreeInvariant, <1>2, PTL DEF Spec, HandlersAreFixed

(* Types, whose Handler is whose, and whose wake channel is whose, without *)
(* any assumption on how Nomad's calls overlap.                            *)
THEOREM HandlersAreTheirTasks ==
    Spec => [](TypeOK /\ StoredHandlerIsItsOwn /\ WakesStayApart)
<1>1. FreeInv => TypeOK /\ StoredHandlerIsItsOwn /\ WakesStayApart
  BY DEF FreeInv, IdsInv, HeldInv, StoredHandlerIsItsOwn, WakesStayApart
<1> QED
  BY FreeInvariant, <1>1, PTL

-----------------------------------------------------------------------------
(* Properties of a Nomad with one lifecycle call per task.                 *)

(* A claim is a lock: from claimUnit to releaseUnit, one call at a time is *)
(* at work on a unit, so that its read of the unit's state, StartUnit,     *)
(* RegisterUnit, NewHandler and Set are not mixed with another call's.     *)
OneAtWork == \A c, d \in Calls :
    /\ call[c].pc \in Owning /\ call[d].pc \in Owning
    /\ call[c].unit = call[d].unit
    => c = d

(* A task in the store can be recovered: Nomad, which persists the handle  *)
(* StartTask answers with, has it for the unit the store has the task on,  *)
(* and DestroyTask takes the task out of the store before the answer on    *)
(* which Nomad drops it.  No later start, recovery or teardown, of this    *)
(* task or another, parts the two.                                         *)
KnownIfStored == \A t \in Tasks : Stored(t) => <<t, UnitOf(t)>> \in known

(* A unit changes hands only while no task in the store is on it, but for  *)
(* the crash that forgets the store with the owners.                       *)
HandedOverUnserved ==
    [][\A u \in Units : owner'[u] # owner[u] =>
          Crash \/ \A t \in Tasks : Stored(t) => UnitOf(t) # u]_vars

(* StartTask, RecoverTask and DestroyTask on one unit never overlap once   *)
(* they have claimed it.                                                   *)
THEOREM ClaimIsALock ==
    ASSUME Serial
    PROVE  Spec => []OneAtWork
<1>1. IInv => OneAtWork
  BY DEF IInv, OneAtWork, CallsOwn, OneCallPerTask, AtWork, Owning
<1> QED
  BY Invariant, <1>1, PTL

(* Set is followed by the answer that gives Nomad the handle; Delete comes *)
(* before the answer on which Nomad drops it.                              *)
THEOREM Recoverable ==
    ASSUME Serial
    PROVE  Spec => []KnownIfStored
<1>1. Init => KnownIfStored
  BY DEF Init, KnownIfStored, Stored
<1>2. ASSUME IInv, KnownIfStored, [Next]_vars PROVE KnownIfStored'
  <2>0. CallsTyped /\ store \in [Tasks -> Ids \cup {NoId}]
    BY <1>2 DEF IInv, TypeOK
  <2>1. ASSUME NEW c \in Calls, Publish(c) PROVE KnownIfStored'
    <3>1. /\ call[c].task \in Tasks
          /\ handler[call[c].id].unit = call[c].unit
          /\ handler' = handler
      <4>1. handler[call[c].id] = [task |-> call[c].task, unit |-> call[c].unit,
                                   chan |-> call[c].id]
        BY <1>2, <2>1 DEF Publish, IInv, StartsInv
      <4>2. call[c].task \in Tasks /\ handler' = handler
        BY <2>0, <2>1 DEF Publish, CallsTyped, AtWork
      <4> QED
        BY <4>1, <4>2
    <3> QED
      BY <1>2, <2>0, <2>1, <3>1 DEF Publish, KnownIfStored, Stored, UnitOf
  <2>2. ASSUME NEW c \in Calls, NewHandler(c) PROVE KnownIfStored'
    <3>1. handler[call[c].id] = NoHandler
      BY <1>2, <2>2 DEF IInv, StartsInv, NewHandler
    <3>2. \A t \in Tasks : store[t] # NoId =>
              store[t] # call[c].id /\ handler'[store[t]] = handler[store[t]]
      BY <1>2, <2>2, <3>1, StoredFacts DEF NewHandler, IInv, TypeOK
    <3> QED
      BY <1>2, <2>2, <3>2 DEF NewHandler, KnownIfStored, Stored, UnitOf
  <2>3. ASSUME NEW c \in Calls, ReleaseUnit(c) PROVE KnownIfStored'
    <3>1. store[call[c].task] = NoId
      BY <1>2, <2>3 DEF ReleaseUnit, IInv, StartsInv
    <3> QED
      BY <1>2, <2>3, <3>1 DEF ReleaseUnit, KnownIfStored, Stored, UnitOf
  <2>4. ASSUME NEW c \in Calls, Delete(c) PROVE KnownIfStored'
    BY <1>2, <2>0, <2>4 DEF Delete, KnownIfStored, Stored, UnitOf
  <2>5. CASE Crash
    BY <2>5 DEF Crash, KnownIfStored, Stored
  <2>6. CASE store' = store /\ handler' = handler /\ known' = known
    BY <1>2, <2>6 DEF KnownIfStored, Stored, UnitOf
  <2> QED
    BY <1>2, <2>1, <2>2, <2>3, <2>4, <2>5, <2>6
       DEF Next, CallStep, StartStep, DestroyStep, StartTask, RecoverTask,
           DestroyTask, Begin, ClaimUnit, ClaimRefused, ReadUnitState, ReadFails,
           StartUnit, RollBackFailedStart, RegisterUnit, DestroyCheck,
           DestroyStops, HandlerStop, UnregisterUnit, StopTask, StopUnitReturns,
           ObserveExit, vars
<1> QED
  BY Invariant, <1>1, <1>2, PTL DEF Spec

(* claimUnit succeeds on a unit no stored task is on; releaseUnit comes    *)
(* after the task left the store.                                          *)
THEOREM HandedOver ==
    ASSUME Serial
    PROVE  Spec => HandedOverUnserved
<1>1. ASSUME IInv, [Next]_vars, NEW u \in Units, owner'[u] # owner[u], ~Crash,
             NEW t \in Tasks, Stored(t)
      PROVE  UnitOf(t) # u
  <2>1. owner \in [Units -> Tasks \cup {NoTask}] /\ owner[UnitOf(t)] = t
    BY <1>1, StoredFacts DEF IInv, TypeOK, Stored, UnitOf
  <2>2. ASSUME NEW c \in Calls, ClaimUnit(c) PROVE UnitOf(t) # u
    BY <1>1, <2>1, <2>2 DEF ClaimUnit
  <2>3. ASSUME NEW c \in Calls, ReleaseUnit(c) PROVE UnitOf(t) # u
    <3>1. call[c].unit = u /\ owner[call[c].unit] = call[c].task
          /\ store[call[c].task] = NoId
      BY <1>1, <2>1, <2>3 DEF ReleaseUnit, IInv, CallsOwn, StartsInv, Owning, Pc
    <3> QED
      BY <1>1, <2>1, <3>1 DEF Stored
  <2>4. owner' # owner
    BY <1>1
  <2> QED
    BY <1>1, <2>2, <2>3, <2>4
       DEF Next, CallStep, StartStep, DestroyStep, StartTask, RecoverTask,
           DestroyTask, Begin, ClaimRefused, ReadUnitState, ReadFails, StartUnit,
           RollBackFailedStart, RegisterUnit, NewHandler, Publish, DestroyCheck,
           DestroyStops, HandlerStop, UnregisterUnit, Delete, StopTask,
           StopUnitReturns, ObserveExit, vars
<1>2. IInv /\ [Next]_vars =>
          [\A u \in Units : owner'[u] # owner[u] =>
              Crash \/ \A t \in Tasks : Stored(t) => UnitOf(t) # u]_vars
  BY <1>1
<1> QED
  BY Invariant, <1>2, PTL DEF Spec, HandedOverUnserved
=============================================================================
