-------------------------- MODULE TaskStatsProofs ---------------------------
(***************************************************************************)
(* Proofs about TaskStats, for any number of streams, tasks and restarts   *)
(* of the unit.                                                            *)
(***************************************************************************)
EXTENDS TaskStats, TLAPS

USE DEF Readers, entryVars, unitVars, streamVars, histVars

(* The tracker's mark of no sample is an integer.                          *)
LEMMA MinusOne == -1 \in Int
  OBVIOUS

(* At first nothing is used, sampled or remembered.                        *)
LEMMA InitInv == Init => SInv
  <1> SUFFICES ASSUME Init PROVE TypeOK /\ BillInv
    BY DEF SInv
  <1>1. task \in 0..MaxTasks /\ exited \subseteq 0..MaxTasks
    BY StatsAssumption DEF Init
  <1>2. base \in Int /\ usage \in Nat /\ unbilled \in Int
    BY MinusOne DEF Init
  <1>3. /\ read \in [Readers -> {"idle", "asked", "empty", "path", "done"}]
        /\ path \in {"never", "empty", "stale", "path"}
    BY DEF Init
  <1>4. stream \in [Streams -> {"idle", "wait", "refresh", "files", "cpu", "send", "ended"}]
    BY DEF Init
  <1>5. taskOf \in [Streams -> 0..MaxTasks]
    BY StatsAssumption DEF Init
  <1>6. usec \in [Streams -> Nat]
    BY DEF Init
  <1>7. /\ registered \in BOOLEAN /\ up \in BOOLEAN /\ raced \in BOOLEAN
        /\ cancelled \subseteq Streams
    BY DEF Init
  <1>8. BillInv
    BY DEF Init, BillInv
  <1> QED
    BY <1>1, <1>2, <1>3, <1>4, <1>5, <1>6, <1>7, <1>8 DEF TypeOK

(* Every step keeps the types.                                             *)
LEMMA TypeStep == TypeOK /\ [Next]_svars => TypeOK'
  <1> SUFFICES ASSUME TypeOK, [Next]_svars PROVE TypeOK'
    OBVIOUS
  <1> USE DEF TypeOK
  <1>1. CASE UnitStarts
    BY <1>1 DEF UnitStarts
  <1>2. CASE UnitRuns
    BY <1>2 DEF UnitRuns
  <1>3. CASE UnitStops
    BY <1>3 DEF UnitStops
  <1>4. CASE RegisterUnit
    BY <1>4, StatsAssumption, MinusOne DEF RegisterUnit
  <1>5. CASE TaskExits
    BY <1>5, StatsAssumption DEF TaskExits
  <1>6. CASE UnregisterUnit
    BY <1>6, MinusOne DEF UnregisterUnit
  <1>7. CASE Reconnect
    BY <1>7 DEF Reconnect
  <1>8. CASE CacheAges
    BY <1>8 DEF CacheAges
  <1>9. ASSUME NEW r \in Readers, ReadStep(r) PROVE TypeOK'
    <2>1. Done(r) \in {"idle", "done"}
      BY DEF Done
    <2> QED
      BY <1>9, <2>1 DEF ReadStep, ReadAnswers, ReadFails, CacheStores
  <1>10. ASSUME NEW s \in Streams PROVE StreamStarts(s) => TypeOK'
    BY DEF StreamStarts
  <1>11. ASSUME NEW s \in Streams PROVE Cancel(s) => TypeOK'
    BY DEF Cancel
  <1>12. ASSUME NEW s \in Streams PROVE StreamEnds(s) => TypeOK'
    BY DEF StreamEnds
  <1>13. ASSUME NEW s \in Streams PROVE NomadReceives(s) => TypeOK'
    BY DEF NomadReceives
  <1>14. ASSUME NEW s \in Streams PROVE Sample(s) => TypeOK'
    BY DEF Sample, Goto
  <1>15. ASSUME NEW s \in Streams PROVE Refreshed(s) => TypeOK'
    BY DEF Refreshed, Goto
  <1>16. ASSUME NEW s \in Streams, ReadFiles(s) PROVE TypeOK'
    <2>1. raced' \in BOOLEAN
      BY <1>16 DEF ReadFiles
    <2> QED
      BY <1>16, <2>1 DEF ReadFiles, Goto
  <1>17. ASSUME NEW s \in Streams PROVE SendCancelled(s) => TypeOK'
    BY DEF SendCancelled
  <1>18. ASSUME NEW s \in Streams PROVE CalculateCPUPercent(s) => TypeOK'
    BY DEF CalculateCPUPercent, Change, Goto
  <1>19. CASE UNCHANGED svars
    BY <1>19 DEF svars
  <1> QED
    BY <1>1, <1>2, <1>3, <1>4, <1>5, <1>6, <1>7, <1>8, <1>9, <1>10, <1>11, <1>12,
       <1>13, <1>14, <1>15, <1>16, <1>17, <1>18, <1>19 DEF Next, StreamStep

-----------------------------------------------------------------------------
(* Steps that concern neither CPU time nor a stream that holds some.       *)
LEMMA QuietSteps ==
    ASSUME TypeOK, BillInv, UNCHANGED <<base, usec, usage, unbilled>>,
           \A s \in Streams : stream'[s] = "cpu" <=> stream[s] = "cpu"
    PROVE  BillInv'
  BY DEF BillInv, Change, Beyond

(* A new cgroup, a new entry, or none.                                     *)
LEMMA ResetSteps ==
    ASSUME TypeOK, BillInv, UNCHANGED <<usec, unbilled, stream>>,
           \/ usage' = 0 /\ base' = base
           \/ base' = -1 /\ usage' = usage
    PROVE  BillInv'
  <1>1. Beyond(usage', base') <= Beyond(usage, base) \/ base' = -1
    BY DEF TypeOK, Beyond, BillInv
  <1>2. ASSUME NEW s \in Streams, stream[s] = "cpu"
        PROVE  Beyond(usage', usec[s]) <= Beyond(usage, usec[s]) /\ Change(s)' <= Change(s)
    BY <1>2 DEF TypeOK, Beyond, BillInv, Change
  <1>3. \A s \in Streams : Change(s)' \in Nat /\ Change(s) \in Nat
    BY DEF TypeOK, Change, BillInv
  <1>4. \A s \in Streams : Beyond(usage', usec[s]) \in Nat /\ Beyond(usage, usec[s]) \in Nat
    BY DEF TypeOK, Beyond
  <1>5. \A s \in Streams : stream[s] = "cpu" =>
            unbilled >= Change(s)' + Beyond(usage', usec[s])
    BY <1>2, <1>3, <1>4 DEF TypeOK, BillInv
  <1> QED
    BY <1>1, <1>5 DEF TypeOK, BillInv, Beyond

(* Usage of the current cgroup adds to what may be reported.               *)
LEMMA UnitRunsKeeps == TypeOK /\ BillInv /\ UnitRuns => BillInv'
  BY DEF TypeOK, BillInv, UnitRuns, Change, Beyond

(* A stream that reads the counter is the only one that holds a sample.    *)
LEMMA ReadFilesKeeps ==
    ASSUME NEW s \in Streams, TypeOK, BillInv, ReadFiles(s), ~raced'
    PROVE  BillInv'
  <1>1. \A t \in Streams : stream[t] # "cpu"
    BY DEF ReadFiles, TypeOK
  <1>2. CASE stream' = [stream EXCEPT ![s] = "send"]
    BY <1>1, <1>2 DEF TypeOK, BillInv, ReadFiles
  <1>3. CASE stream' = [stream EXCEPT ![s] = "cpu"] /\ usec' = [usec EXCEPT ![s] = usage]
    <2>1. \A t \in Streams : stream'[t] = "cpu" => t = s
      BY <1>1, <1>3 DEF TypeOK
    <2>2. usec'[s] = usage /\ UNCHANGED <<base, usage, unbilled>>
      BY <1>3 DEF TypeOK, ReadFiles
    <2>3. Change(s)' = (IF base # -1 THEN Beyond(usage, base) ELSE 0)
      BY <2>2 DEF Change, Beyond, TypeOK
    <2>4. Beyond(usage', usec'[s]) = 0
      BY <2>2 DEF Beyond, TypeOK
    <2> QED
      BY <2>1, <2>2, <2>3, <2>4 DEF BillInv, TypeOK, Beyond
  <1> QED
    BY <1>2, <1>3 DEF ReadFiles, Goto

(* A report takes from it what the sample adds to the last one, no more.   *)
LEMMA CalculateKeeps ==
    ASSUME NEW s \in Streams, TypeOK, BillInv, CalculateCPUPercent(s)
    PROVE  BillInv'
  <1>1. \A t \in Streams : stream'[t] # "cpu"
    BY DEF CalculateCPUPercent, Goto, TypeOK, BillInv
  <1>2. /\ usage' = usage /\ usec[s] \in Nat
        /\ unbilled >= Change(s) + Beyond(usage, usec[s])
    BY DEF CalculateCPUPercent, TypeOK, BillInv
  <1>3. CASE registered
    <2>1. unbilled' = unbilled - Change(s) /\ base' = usec[s]
      BY <1>3 DEF CalculateCPUPercent
    <2>2. unbilled' >= Beyond(usage', base') /\ Beyond(usage', base') >= 0
      BY <1>2, <2>1 DEF TypeOK, Beyond, Change
    <2>3. base' >= 0
      BY <1>2, <2>1 DEF TypeOK
    <2>4. unbilled' >= 0
      BY <1>2, <2>1 DEF TypeOK, Change, Beyond
    <2> QED
      BY <1>1, <2>2, <2>3, <2>4 DEF BillInv
  <1>4. CASE ~registered
    BY <1>1, <1>2, <1>4 DEF CalculateCPUPercent, BillInv, TypeOK
  <1> QED
    BY <1>3, <1>4

(* SInv is inductive.                                                      *)
LEMMA NextInv == SInv /\ [Next]_svars => SInv'
  <1> SUFFICES ASSUME SInv, [Next]_svars, ~raced' PROVE BillInv'
    BY TypeStep DEF SInv
  <1>0. TypeOK /\ (raced \/ BillInv)
    BY DEF SInv
  <1>1. CASE UnitStarts \/ UnregisterUnit \/ RegisterUnit
    BY <1>0, <1>1, ResetSteps DEF UnitStarts, UnregisterUnit, RegisterUnit
  <1>2. CASE UnitRuns
    BY <1>0, <1>2, UnitRunsKeeps DEF UnitRuns
  <1>3. CASE UnitStops \/ TaskExits \/ Reconnect \/ CacheAges \/ UNCHANGED svars
    BY <1>0, <1>3, QuietSteps DEF UnitStops, TaskExits, Reconnect, CacheAges, svars
  <1>4. ASSUME NEW r \in Readers, ReadStep(r) PROVE BillInv'
    BY <1>0, <1>4, QuietSteps DEF ReadStep, ReadAnswers, ReadFails, CacheStores
  <1>5. ASSUME NEW s \in Streams, StreamStarts(s) \/ Cancel(s) \/ StreamEnds(s) \/ NomadReceives(s)
        PROVE  BillInv'
    BY <1>0, <1>5, QuietSteps DEF TypeOK, StreamStarts, Cancel, StreamEnds, NomadReceives
  <1>6. ASSUME NEW s \in Streams, Sample(s) \/ Refreshed(s) \/ SendCancelled(s) PROVE BillInv'
    <2>1. UNCHANGED <<base, usec, usage, unbilled, raced>>
      BY <1>6 DEF Sample, Refreshed, SendCancelled
    <2>2. \A t \in Streams : stream'[t] = "cpu" <=> stream[t] = "cpu"
      <3>1. CASE Sample(s)
        <4>1. /\ stream[s] = "wait"
              /\ \/ Goto(s, "ended") \/ Goto(s, "refresh")
                 \/ Goto(s, "files") \/ Goto(s, "send")
          BY <1>0, <3>1 DEF TypeOK, Sample
        <4> QED
          BY <1>0, <4>1 DEF TypeOK, Goto
      <3>2. CASE Refreshed(s)
        BY <1>0, <3>2 DEF TypeOK, Refreshed, Goto
      <3>3. CASE SendCancelled(s)
        BY <1>0, <3>3 DEF TypeOK, SendCancelled
      <3> QED
        BY <1>6, <3>1, <3>2, <3>3
    <2> QED
      BY <1>0, <2>1, <2>2, QuietSteps
  <1>7. ASSUME NEW s \in Streams, ReadFiles(s) PROVE BillInv'
    BY <1>0, <1>7, ReadFilesKeeps DEF ReadFiles
  <1>8. ASSUME NEW s \in Streams, CalculateCPUPercent(s) PROVE BillInv'
    BY <1>0, <1>8, CalculateKeeps DEF CalculateCPUPercent
  <1> QED
    BY <1>1, <1>2, <1>3, <1>4, <1>5, <1>6, <1>7, <1>8 DEF Next, StreamStep

(* The inductive invariant of the statistics holds, whatever the bounds.   *)
THEOREM StatsInvariant == Spec => []SInv
  BY InitInv, NextInv, PTL DEF Spec

(* CPU time is reported at most once, across restarts of the unit and      *)
(* changes of its task, unless two streams sample it at the same moment    *)
(* (calculateCPUPercent).                                                  *)
THEOREM NotBilledTwice == Spec => []BilledOnce
  <1>1. SInv => BilledOnce
    BY DEF SInv, BillInv, BilledOnce
  <1> QED
    BY <1>1, StatsInvariant, PTL

-----------------------------------------------------------------------------
(* A stream waits for the DBus reading it asked for, and for nothing else: *)
(* whoever waits has one under way or answered, and no reading is under    *)
(* way for a stream that has gone on - a stream is never left waiting for  *)
(* a reading that was already taken, nor takes one it did not ask for      *)
(* (ResourceStats, cacheUnitProperties).                                   *)
AskedIfWaiting == \A s \in Streams : stream[s] = "refresh" <=> read[s] # "idle"

(* Nothing is remembered of a unit that is not managed: a DBus reading, or *)
(* a sample of its CPU time, that was under way as it was unregistered     *)
(* leaves neither a path nor a tracker behind for the next task's entry    *)
(* to start from (cacheUnitProperties, calculateCPUPercent).               *)
NothingRemembered == ~registered => path = "never" /\ base = -1

(* At first nobody waits.                                                  *)
LEMMA InitWaits == Init => AskedIfWaiting /\ NothingRemembered
  BY DEF Init, AskedIfWaiting, NothingRemembered

(* Sample asks, and Refreshed, once answered, goes on.                     *)
LEMMA NextWaits == TypeOK /\ AskedIfWaiting /\ [Next]_svars => AskedIfWaiting'
  <1> SUFFICES ASSUME TypeOK, AskedIfWaiting, [Next]_svars PROVE AskedIfWaiting'
    OBVIOUS
  <1>0. /\ stream \in [Streams -> {"idle", "wait", "refresh", "files", "cpu", "send", "ended"}]
        /\ read \in [Readers -> {"idle", "asked", "empty", "path", "done"}]
        /\ path \in {"never", "empty", "stale", "path"} /\ registered \in BOOLEAN
    BY DEF TypeOK
  <1>1. CASE RegisterUnit \/ Reconnect
    BY <1>0, <1>1, StatsAssumption DEF RegisterUnit, Reconnect, AskedIfWaiting
  <1>2. ASSUME NEW r \in Readers, ReadStep(r) PROVE AskedIfWaiting'
    <2>1. /\ stream' = stream /\ read[r] # "idle"
          /\ \A q \in Readers \ {r} : read'[q] = read[q]
          /\ r \in Streams => read'[r] # "idle"
      BY <1>0, <1>2 DEF ReadStep, ReadAnswers, ReadFails, CacheStores, Done
    <2> QED
      BY <1>0, <2>1 DEF AskedIfWaiting
  <1>3. ASSUME NEW s \in Streams, Sample(s) PROVE AskedIfWaiting'
    <2>1. /\ stream[s] = "wait"
          /\ \/ Goto(s, "refresh") /\ read' = [read EXCEPT ![s] = "asked"]
             \/ /\ Goto(s, "ended") \/ Goto(s, "files") \/ Goto(s, "send")
                /\ UNCHANGED read
      BY <1>0, <1>3 DEF Sample
    <2> QED
      BY <1>0, <2>1 DEF Goto, AskedIfWaiting
  <1>4. ASSUME NEW s \in Streams, Refreshed(s) PROVE AskedIfWaiting'
    <2>1. /\ read' = [read EXCEPT ![s] = "idle"]
          /\ Goto(s, "ended") \/ Goto(s, "files") \/ Goto(s, "send")
      BY <1>0, <1>4 DEF Refreshed
    <2> QED
      BY <1>0, <2>1 DEF Goto, AskedIfWaiting
  <1>5. ASSUME NEW s \in Streams,
               \/ ReadFiles(s) \/ CalculateCPUPercent(s) \/ SendCancelled(s)
               \/ StreamStarts(s) \/ Cancel(s) \/ StreamEnds(s) \/ NomadReceives(s)
        PROVE  AskedIfWaiting'
    BY <1>0, <1>5 DEF ReadFiles, CalculateCPUPercent, SendCancelled, StreamStarts,
       Cancel, StreamEnds, NomadReceives, Goto, AskedIfWaiting
  <1>6. CASE UNCHANGED <<read, stream>>
    BY <1>6 DEF AskedIfWaiting
  <1> QED
    BY <1>1, <1>2, <1>3, <1>4, <1>5, <1>6 DEF Next, StreamStep, UnitStarts, UnitRuns,
       UnitStops, TaskExits, UnregisterUnit, CacheAges, svars

(* Whatever is stored is stored in an entry.                               *)
LEMMA NextRemembers == TypeOK /\ NothingRemembered /\ [Next]_svars => NothingRemembered'
  <1> SUFFICES ASSUME TypeOK, NothingRemembered, [Next]_svars PROVE NothingRemembered'
    OBVIOUS
  <1>1. CASE RegisterUnit \/ UnregisterUnit \/ CacheAges
    BY <1>1 DEF RegisterUnit, UnregisterUnit, CacheAges, NothingRemembered
  <1>2. ASSUME NEW r \in Readers, ReadStep(r) PROVE NothingRemembered'
    BY <1>2 DEF ReadStep, ReadAnswers, ReadFails, CacheStores, NothingRemembered
  <1>3. ASSUME NEW s \in Streams, CalculateCPUPercent(s) PROVE NothingRemembered'
    BY <1>3 DEF CalculateCPUPercent, NothingRemembered
  <1>4. CASE UNCHANGED <<registered, path, base>>
    BY <1>4 DEF NothingRemembered
  <1> QED
    BY <1>1, <1>2, <1>3, <1>4 DEF Next, StreamStep, Sample, Refreshed, ReadFiles,
       SendCancelled, StreamStarts, Cancel, StreamEnds, NomadReceives, UnitStarts,
       UnitRuns, UnitStops, TaskExits, Reconnect, svars

(* No stream waits in vain, and none leaves a reading behind.              *)
THEOREM NoLostReading == Spec => []AskedIfWaiting
  <1>1. SInv => TypeOK
    BY DEF SInv
  <1> QED
    BY <1>1, InitWaits, NextWaits, StatsInvariant, PTL DEF Spec

(* Every entry starts from nothing.                                        *)
THEOREM FreshEntries == Spec => []NothingRemembered
  <1>1. SInv => TypeOK
    BY DEF SInv
  <1> QED
    BY <1>1, InitWaits, NextRemembers, StatsInvariant, PTL DEF Spec

(* With one TaskStats stream per unit, as Nomad keeps one per task, no CPU *)
(* time is ever reported twice, with no exception left.                    *)
THEOREM OneStreamBillsOnce ==
  ASSUME \A s, t \in Streams : s = t
  PROVE  Spec => [](unbilled >= 0)
  <1>1. Init => ~raced
    BY DEF Init
  <1>2. TypeOK /\ ~raced /\ [Next]_svars => ~raced'
    <2> SUFFICES ASSUME TypeOK, ~raced, [Next]_svars PROVE ~raced'
      OBVIOUS
    <2>1. ASSUME NEW s \in Streams, ReadFiles(s) PROVE ~raced'
      <3>1. \A t \in Streams : stream[t] # "cpu"
        BY <2>1 DEF ReadFiles
      <3> QED
        BY <2>1, <3>1 DEF ReadFiles
    <2>2. CASE UNCHANGED raced
      BY <2>2
    <2> QED
      BY <2>1, <2>2 DEF Next, StreamStep, ReadStep, ReadAnswers, ReadFails, CacheStores,
         Sample, Refreshed, CalculateCPUPercent, SendCancelled, StreamStarts, Cancel,
         StreamEnds, NomadReceives, UnitStarts, UnitRuns, UnitStops, RegisterUnit,
         UnregisterUnit, CacheAges, TaskExits, Reconnect, svars
  <1>3. SInv => TypeOK /\ (raced \/ unbilled >= 0)
    BY DEF SInv, BillInv
  <1> QED
    BY <1>1, <1>2, <1>3, StatsInvariant, PTL DEF Spec
=============================================================================
