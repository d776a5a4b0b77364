---------------------------- MODULE LogContract -----------------------------
(***************************************************************************)
(* What a task's log promises, seen from its FIFOs: records of the unit's  *)
(* journal are written at most once, in the order they were logged, and    *)
(* only records of priority error or worse go to stderr.                   *)
(***************************************************************************)
EXTENDS Naturals, Sequences

CONSTANT MaxRecords     \* records the unit logs

FIFOs == {"stdout", "stderr"}
Kinds == {"error", "info", "bare"}  \* by PRIORITY, or without a MESSAGE
Records == 1..MaxRecords
Fates == {"none", "earlier", "bare", "unreadable", "refused"} \cup FIFOs

VARIABLES journal,      \* the kinds of the records logged so far
          fate          \* what became of each record

Init == journal \in Seq(Kinds) /\ fate = [r \in Records |-> "none"]

Log == \E k \in Kinds : journal' = Append(journal, k) /\ UNCHANGED fate

(* The stream begins: what was logged before is nobody's.                  *)
Begin == \E c \in 0..Len(journal) :
    /\ fate = [r \in Records |-> "none"]
    /\ fate' = [r \in Records |-> IF r <= c THEN "earlier" ELSE "none"]
    /\ UNCHANGED journal

Settle(r, f) ==
    /\ r <= Len(journal)
    /\ fate[r] = "none"
    /\ fate' = [fate EXCEPT ![r] = f]
    /\ UNCHANGED journal

Write(r, f) ==
    /\ Settle(r, f)
    /\ \A s \in Records : s > r => fate[s] \notin FIFOs
    /\ journal[r] # "bare"
    /\ f = "stderr" => journal[r] = "error"

Lose(r) == \/ Settle(r, "refused") \/ Settle(r, "unreadable")
           \/ Settle(r, "bare") /\ journal[r] = "bare"

Next == \/ Log \/ Begin
        \/ \E r \in Records : Lose(r) \/ \E f \in FIFOs : Write(r, f)

Spec == Init /\ [][Next]_<<journal, fate>>
=============================================================================
