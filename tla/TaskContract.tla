---------------------------- MODULE TaskContract ----------------------------
(***************************************************************************)
(* What the driver promises Nomad of one task, and nothing about how: once *)
(* visible, a task is Running or Unknown until it exits; it exits at most  *)
(* once, together with its exit result; nothing about it changes after     *)
(* that; and a WaitTask call is answered with exactly that result.         *)
(***************************************************************************)
CONSTANTS Waiters,      \* the WaitTask calls
          Results,      \* the exit results a task may be reported with
          NoResult      \* no exit result yet

VARIABLES status,       \* "none" until visible, then the task's state
          result,       \* the task's exit result
          answer        \* answer[w]: what WaitTask call w was sent

cvars == <<status, result, answer>>

CInit == /\ status = "none"
         /\ result = NoResult
         /\ answer = [w \in Waiters |-> NoResult]

(* The task becomes visible, running or - when recovered - already exited. *)
Appear == /\ status = "none"
          /\ \/ status' \in {"Running", "Unknown"} /\ UNCHANGED result
             \/ status' = "Exited" /\ result' \in Results
          /\ UNCHANGED answer

Fluctuate == /\ status \in {"Running", "Unknown"}
             /\ status' \in {"Running", "Unknown"}
             /\ UNCHANGED <<result, answer>>

Exit == /\ status \in {"Running", "Unknown"}
        /\ status' = "Exited"
        /\ result' \in Results
        /\ UNCHANGED answer

Answer(w) == /\ status = "Exited"
             /\ answer[w] = NoResult
             /\ answer' = [answer EXCEPT ![w] = result]
             /\ UNCHANGED <<status, result>>

CNext == Appear \/ Fluctuate \/ Exit \/ \E w \in Waiters : Answer(w)

CSpec == CInit /\ [][CNext]_cvars
=============================================================================
