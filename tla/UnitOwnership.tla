--------------------------- MODULE UnitOwnership ----------------------------
(***************************************************************************)
(* What the driver promises about units, and nothing about how: a task     *)
(* holds a unit exclusively, serves - is the task a user sees for - only a *)
(* unit it holds, gives a unit up only once it has stopped serving it, and *)
(* loses everything when the plugin process dies.                          *)
(***************************************************************************)
CONSTANTS Tasks, Units, NoTask, NoUnit

VARIABLES holder,       \* holder[u]: the task that holds unit u, or NoTask
          serving       \* serving[t]: the unit task t serves, or NoUnit

ovars == <<holder, serving>>

Nothing == /\ holder = [u \in Units |-> NoTask]
           /\ serving = [t \in Tasks |-> NoUnit]

Acquire(t, u) == /\ holder[u] = NoTask
                 /\ holder' = [holder EXCEPT ![u] = t]
                 /\ UNCHANGED serving

Serve(t, u) == /\ holder[u] = t
               /\ serving[t] = NoUnit
               /\ serving' = [serving EXCEPT ![t] = u]
               /\ UNCHANGED holder

Retire(t) == /\ serving' = [serving EXCEPT ![t] = NoUnit]
             /\ UNCHANGED holder

GiveUp(t, u) == /\ holder[u] = t
                /\ serving[t] # u
                /\ holder' = [holder EXCEPT ![u] = NoTask]
                /\ UNCHANGED serving

ONext == \/ \E t \in Tasks, u \in Units : Acquire(t, u) \/ Serve(t, u) \/ GiveUp(t, u)
         \/ \E t \in Tasks : Retire(t)
         \/ Nothing'

OSpec == Nothing /\ [][ONext]_ovars
=============================================================================
