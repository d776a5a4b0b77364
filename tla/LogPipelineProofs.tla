------------------------- MODULE LogPipelineProofs --------------------------
(***************************************************************************)
(* Proofs about LogPipeline, for any number of records, any capacity of    *)
(* logCh and of the FIFOs, and any number of attempts to open stdout.      *)
(***************************************************************************)
EXTENDS LogPipeline, FiniteSetTheorems, SequenceTheorems, TLAPS

(* What receiving from, and sending to, a channel leaves in it.            *)
LEMMA Received ==
    ASSUME NEW S, NEW s \in Seq(S), s # <<>>
    PROVE  /\ Head(s) = s[1] /\ Head(s) \in S
           /\ Tail(s) \in Seq(S)
           /\ Len(s) \in Nat /\ Len(s) >= 1 /\ Len(Tail(s)) = Len(s) - 1
           /\ \A i \in 1..Len(Tail(s)) : i + 1 \in 1..Len(s) /\ Tail(s)[i] = s[i + 1]
  <1>1. Len(s) \in Nat /\ Len(s) >= 1
    BY EmptySeq, LenProperties
  <1>2. Head(s) = s[1] /\ Head(s) \in S /\ Tail(s) \in Seq(S) /\ Len(Tail(s)) = Len(s) - 1
    BY HeadTailProperties, <1>1
  <1>3. ASSUME NEW i \in 1..Len(Tail(s))
        PROVE  i + 1 \in 1..Len(s) /\ Tail(s)[i] = s[i + 1]
    BY HeadTailProperties, <1>1, <1>2
  <1> QED
    BY <1>1, <1>2, <1>3

(* What sending adds to it.                                                *)
LEMMA Sent ==
    ASSUME NEW S, NEW s \in Seq(S), NEW r \in S
    PROVE  /\ Append(s, r) \in Seq(S)
           /\ Len(s) \in Nat /\ Len(Append(s, r)) = Len(s) + 1
           /\ \A i \in 1..Len(s) : Append(s, r)[i] = s[i]
           /\ Append(s, r)[Len(s) + 1] = r
  BY AppendProperties, LenProperties

USE DEF FIFOs, Kinds, Records, Fates

-----------------------------------------------------------------------------
(* Before Handler.Start nothing is under way.                              *)
LEMMA InitInv == Init => LInv
  <1> SUFFICES ASSUME Init PROVE LInv
    OBVIOUS
  <1> USE DEF Init
  <1>1. <<>> \in Seq(Kinds) /\ <<>> \in Seq(Records) /\ Len(<<>>) = 0
    OBVIOUS
  <1>2. TypeOK
    <2>1. journal \in Seq(Kinds) /\ Len(journal) <= MaxRecords /\ cursor \in 0..Len(journal)
      BY <1>1, BoundsAssumption
    <2>2. logCh \in Seq(Records) /\ Len(logCh) <= Capacity
      BY <1>1, BoundsAssumption
    <2>3. opens \in 0..MaxOpens /\ entry \in 0..MaxRecords /\ pipe \in [FIFOs -> 0..Room]
      BY BoundsAssumption
    <2>4. fate \in [Records -> Fates] /\ errors \in FIFOs /\ listening \subseteq FIFOs
      OBVIOUS
    <2> QED
      BY <2>1, <2>2, <2>3, <2>4, Zenon DEF TypeOK
  <1>3. PhaseInv /\ QueueInv
    BY <1>1, BoundsAssumption DEF PhaseInv, QueueInv
  <1>4. SettledInv /\ NothingDropped
    BY <1>1 DEF SettledInv, NothingDropped
  <1> QED
    BY <1>2, <1>3, <1>4 DEF LInv

(* Steps of the program counters alone disturb nothing on its way.         *)
LEMMA QuietSteps ==
    ASSUME LInv, BoundsAssumption,
           UNCHANGED <<journal, fate, cursor, logCh, entry>>,
           TypeOK', PhaseInv',
           streamer' = "write" <=> streamer = "write",
           \/ reader' = "send" <=> reader = "send"
           \/ reader = "send" /\ reader' = "ended",
           reader = "ended" => reader' = "ended"
    PROVE  LInv'
  <1>1. QueueInv'
    BY DEF LInv, QueueInv, Fit
  <1>2. SettledInv'
    BY DEF LInv, SettledInv, InFlight
  <1>3. NothingDropped'
    BY DEF LInv, NothingDropped, InFlight
  <1> QED
    BY <1>1, <1>2, <1>3 DEF LInv

-----------------------------------------------------------------------------
(* Every step keeps the types.                                             *)
LEMMA TypeStep == LInv /\ [Next]_lvars => TypeOK'
  <1> SUFFICES ASSUME TypeOK, PhaseInv, QueueInv, [Next]_lvars PROVE TypeOK'
    BY DEF LInv
  <1> USE DEF TypeOK, lvars, readerVars, streamVars, fifoVars
  <1>1. CASE UnitLogs
    <2> PICK k \in Kinds : journal' = Append(journal, k)
      BY <1>1 DEF UnitLogs
    <2>1. journal' \in Seq(Kinds) /\ Len(journal') = Len(journal) + 1 /\ Len(journal) \in Nat
      BY Sent
    <2>2. Len(journal') <= MaxRecords /\ cursor' \in 0..Len(journal')
      BY <1>1, <2>1, BoundsAssumption DEF UnitLogs
    <2> QED
      BY <1>1, <2>1, <2>2 DEF UnitLogs
  <1>2. ASSUME NEW f \in FIFOs, Listen(f) \/ Leave(f) \/ ReadFIFO(f) PROVE TypeOK'
    <2>1. listening' \subseteq FIFOs
      BY <1>2 DEF Listen, Leave, ReadFIFO
    <2>2. pipe' \in [FIFOs -> 0..Room]
      <3>1. CASE ReadFIFO(f)
        <4>1. pipe[f] \in 0..Room /\ pipe[f] - 1 \in 0..Room
          BY <3>1, BoundsAssumption DEF ReadFIFO
        <4> QED
          BY <3>1, <4>1 DEF ReadFIFO
      <3> QED
        BY <1>2, <3>1 DEF Listen, Leave
    <2> QED
      BY <1>2, <2>1, <2>2 DEF Listen, Leave, ReadFIFO
  <1>3. CASE Start
    BY <1>3 DEF Start
  <1>4. CASE StopCancels \/ StopJoins \/ UnregisterUnit \/ ManagerStops
    BY <1>4 DEF StopCancels, StopJoins, UnregisterUnit, ManagerStops, CancelReader
  <1>5. CASE NextFails \/ BackoffEnds \/ ReaderEnds
    BY <1>5 DEF NextFails, BackoffEnds, ReaderEnds
  <1>6. CASE ReadRecord
    <2>1. cursor + 1 \in 0..Len(journal)' /\ reader' \in {"next", "send"}
      BY <1>6, LenProperties DEF ReadRecord
    <2>2. fate' \in [Records -> Fates]
      BY <1>6 DEF ReadRecord
    <2> QED
      BY <1>6, <2>1, <2>2 DEF ReadRecord
  <1>7. CASE SendEntry
    <2>1. cursor \in Records
      BY <1>7, LenProperties, BoundsAssumption DEF SendEntry, QueueInv, Fit
    <2>2. logCh' \in Seq(Records) /\ Len(logCh') = Len(logCh) + 1 /\ Len(logCh) \in Nat
      BY <1>7, <2>1, Sent DEF SendEntry
    <2> QED
      BY <1>7, <2>2, BoundsAssumption DEF SendEntry
  <1>8. CASE OpenStdout \/ OpenFails \/ OpenStderr \/ StreamerStops
    <2>1. opens' \in 0..MaxOpens
      BY <1>8, BoundsAssumption DEF PhaseInv, OpenStdout, OpenFails, OpenStderr, StreamerStops
    <2>2. streamer' \in {"open", "stderr", "select", "ended"} /\ errors' \in FIFOs
      BY <1>8 DEF OpenStdout, OpenFails, OpenStderr, StreamerStops
    <2> QED
      BY <1>8, <2>1, <2>2 DEF OpenStdout, OpenFails, OpenStderr, StreamerStops
  <1>9. CASE Receive
    <2>1. logCh' \in Seq(Records) /\ Len(logCh') <= Capacity
      BY <1>9, Received, BoundsAssumption DEF Receive
    <2>2. entry' \in Records
      BY <1>9, Received DEF Receive
    <2> QED
      BY <1>9, <2>1, <2>2, BoundsAssumption DEF Receive
  <1>10. CASE WriteStep
    <2>1. entry \in Records /\ Writer \in FIFOs
      BY <1>10, LenProperties DEF WriteStep, WriteEntry, WriteRefused, Writer, QueueInv, Fit
    <2>2. pipe' \in [FIFOs -> 0..Room] /\ fate' \in [Records -> Fates]
      BY <1>10, <2>1, BoundsAssumption DEF WriteStep, WriteEntry, WriteRefused
    <2> QED
      BY <1>10, <2>2 DEF WriteStep, WriteEntry, WriteRefused
  <1>11. CASE UNCHANGED lvars
    BY <1>11
  <1> QED
    BY <1>1, <1>2, <1>3, <1>4, <1>5, <1>6, <1>7, <1>8, <1>9, <1>10, <1>11
       DEF Next, HandlerStep, ReaderStep, StreamerStep

(* The program counters go on agreeing with each other.                    *)
LEMMA PhaseStep == LInv /\ [Next]_lvars => PhaseInv'
  <1> SUFFICES ASSUME TypeOK, PhaseInv, [Next]_lvars PROVE PhaseInv'
    BY DEF LInv
  <1> USE DEF PhaseInv, lvars, readerVars, streamVars, fifoVars
  <1>1. CASE UnitLogs \/ Start
    BY <1>1, BoundsAssumption DEF UnitLogs, Start
  <1>2. ASSUME NEW f \in FIFOs, Listen(f) \/ Leave(f) \/ ReadFIFO(f) PROVE PhaseInv'
    BY <1>2 DEF Listen, Leave, ReadFIFO
  <1>3. CASE StopCancels \/ StopJoins \/ UnregisterUnit \/ ManagerStops
    BY <1>3 DEF StopCancels, StopJoins, UnregisterUnit, ManagerStops, CancelReader
  <1>4. CASE ReaderStep
    BY <1>4 DEF ReaderStep, NextFails, BackoffEnds, ReadRecord, SendEntry, ReaderEnds
  <1>5. CASE OpenStdout \/ OpenFails \/ OpenStderr \/ StreamerStops
    BY <1>5, BoundsAssumption DEF TypeOK, OpenStdout, OpenFails, OpenStderr, StreamerStops
  <1>6. CASE Receive \/ WriteStep
    BY <1>6 DEF Receive, WriteStep, WriteEntry, WriteRefused
  <1>7. CASE UNCHANGED lvars
    BY <1>7
  <1> QED
    BY <1>1, <1>2, <1>3, <1>4, <1>5, <1>6, <1>7 DEF Next, HandlerStep, StreamerStep

-----------------------------------------------------------------------------
(* The steps that move records, one lemma each.                            *)
Kept == QueueInv /\ SettledInv /\ NothingDropped

(* The unit logs behind everything the reader has seen.                    *)
LEMMA UnitLogsKeeps == LInv /\ UnitLogs => Kept'
  <1> SUFFICES ASSUME LInv, UnitLogs PROVE Kept'
    OBVIOUS
  <1> PICK k \in Kinds : journal' = Append(journal, k)
    BY DEF UnitLogs
  <1>1. \A r \in 1..cursor : journal'[r] = journal[r]
    BY Sent, LenProperties DEF LInv, TypeOK
  <1>2. \A r : Fit(r) => Fit(r)'
    BY <1>1 DEF UnitLogs, readerVars, Fit
  <1>3. QueueInv'
    BY <1>2 DEF LInv, UnitLogs, readerVars, streamVars, QueueInv
  <1>4. SettledInv' /\ NothingDropped'
    BY DEF LInv, UnitLogs, readerVars, streamVars, SettledInv, NothingDropped, InFlight
  <1> QED
    BY <1>3, <1>4 DEF Kept

(* Handler.Start: the records before the cursor are none of the task's.    *)
LEMMA StartKeeps == LInv /\ Start => Kept'
  <1> SUFFICES ASSUME LInv, Start PROVE Kept'
    OBVIOUS
  <1>1. logCh' = <<>> /\ cursor = 0 /\ streamer' = "open" /\ reader' \in {"next", "ended"}
    BY DEF LInv, PhaseInv, Start
  <1>2. \A r : ~InFlight(r)'
    BY <1>1 DEF InFlight
  <1>3. cursor' \in Nat /\ Len(journal) \in Nat /\ cursor' \in 0..Len(journal)
    BY <1>1, LenProperties DEF LInv, TypeOK, Start
  <1>4. \A r \in Records : fate'[r] = IF r <= cursor' THEN "earlier" ELSE "none"
    BY <1>1, BoundsAssumption DEF LInv, PhaseInv, Start
  <1>5. QueueInv'
    BY <1>1 DEF QueueInv
  <1>6. SettledInv'
    BY <1>2, <1>3, <1>4 DEF SettledInv
  <1>7. NothingDropped'
    BY <1>3, <1>4, BoundsAssumption DEF LInv, TypeOK, NothingDropped, Start
  <1> QED
    BY <1>5, <1>6, <1>7 DEF Kept

(* The reader takes the next record, and skips it or holds it for sending. *)
LEMMA ReadRecordKeeps == LInv /\ ReadRecord => Kept'
  <1> SUFFICES ASSUME LInv, ReadRecord PROVE Kept'
    OBVIOUS
  <1> DEFINE n == cursor + 1
  <1>1. /\ n \in 1..Len(journal) /\ n \in Records /\ cursor' = n /\ cursor \in Nat
        /\ journal' = journal /\ logCh' = logCh /\ entry' = entry
        /\ streamer' = streamer /\ reader = "next" /\ reader' \in {"next", "send"}
    BY LenProperties, BoundsAssumption
       DEF LInv, TypeOK, ReadRecord, readerVars, streamVars
  <1>2. fate[n] = "none" /\ fate \in [Records -> Fates]
    BY <1>1 DEF LInv, TypeOK, SettledInv
  <1>3. /\ \A r \in Records : r # n => fate'[r] = fate[r]
        /\ \/ reader' = "send" /\ fate' = fate /\ journal[n] # "bare"
           \/ reader' = "next" /\ fate'[n] \in {"unreadable", "bare"}
    <2>1. CASE fate' = [fate EXCEPT ![n] = "unreadable"] /\ reader' = reader
      BY <1>1, <1>2, <2>1
    <2>2. CASE fate' = [fate EXCEPT ![n] = "bare"] /\ reader' = reader
      BY <1>1, <1>2, <2>2
    <2>3. CASE fate' = fate /\ reader' = "send" /\ journal[n] # "bare"
      BY <2>3
    <2> QED
      BY <2>1, <2>2, <2>3 DEF ReadRecord
  <1>4. ASSUME NEW r, Fit(r) PROVE Fit(r)' /\ r < n
    <2>1. r \in 1..cursor /\ r \in 1..n /\ r < n /\ r \in Records
      BY <1>1, <1>4, BoundsAssumption DEF Fit
    <2> QED
      BY <1>1, <1>3, <1>4, <2>1 DEF Fit
  <1>5. reader' = "send" => Fit(cursor)'
    BY <1>1, <1>2, <1>3 DEF Fit
  <1>6. QueueInv'
    BY <1>1, <1>4, <1>5 DEF LInv, QueueInv
  <1>7. \A s : InFlight(s)' => InFlight(s) \/ s = n
    BY <1>1 DEF InFlight
  <1>8. SettledInv'
    <2>1. \A r \in Records : fate'[r] \in FIFOs => fate[r] \in FIFOs /\ r <= cursor
      <3> SUFFICES ASSUME NEW r \in Records, fate'[r] \in FIFOs
                   PROVE  fate[r] \in FIFOs /\ r <= cursor
        OBVIOUS
      <3>1. r # n
        BY <1>2, <1>3
      <3>2. fate[r] \in FIFOs
        BY <1>3, <3>1
      <3> QED
        BY <1>1, <3>2, BoundsAssumption DEF LInv, SettledInv
    <2>2. \A r \in Records : r > n => fate'[r] = "none"
      BY <1>1, <1>2, <1>3 DEF LInv, SettledInv
    <2> QED
      BY <1>1, <1>2, <1>7, <2>1, <2>2 DEF LInv, SettledInv
  <1>9. NothingDropped'
    <2>1. \A r \in 1..cursor : r \in Records /\ r # n
      BY <1>1, BoundsAssumption
    <2>2. 1..n = 1..cursor \cup {n}
      BY <1>1
    <2>3. fate'[n] = "none" => InFlight(cursor)'
      BY <1>1, <1>3 DEF InFlight
    <2> QED
      BY <1>1, <1>3, <2>1, <2>2, <2>3 DEF LInv, NothingDropped, InFlight
  <1> QED
    BY <1>6, <1>8, <1>9 DEF Kept

(* The record it holds goes to the end of logCh.                           *)
LEMMA SendEntryKeeps == LInv /\ SendEntry => Kept'
  <1> SUFFICES ASSUME LInv, SendEntry PROVE Kept'
    OBVIOUS
  <1>1. /\ Fit(cursor) /\ cursor \in Records /\ reader = "send" /\ reader' = "next"
        /\ journal' = journal /\ fate' = fate /\ cursor' = cursor
        /\ entry' = entry /\ streamer' = streamer
    BY LenProperties, BoundsAssumption
       DEF LInv, TypeOK, QueueInv, Fit, SendEntry, streamVars
  <1>2. /\ Len(logCh) \in Nat /\ Len(logCh') = Len(logCh) + 1
        /\ \A i \in 1..Len(logCh) : logCh'[i] = logCh[i]
        /\ logCh'[Len(logCh) + 1] = cursor
    BY <1>1, Sent DEF LInv, TypeOK, SendEntry
  <1>3. \A r : Fit(r)' <=> Fit(r)
    BY <1>1 DEF Fit
  <1>4. QueueInv'
    <2>1. \A i \in 1..Len(logCh') :
             \/ i \in 1..Len(logCh) /\ logCh'[i] = logCh[i]
             \/ i = Len(logCh) + 1 /\ logCh'[i] = cursor
      BY <1>2
    <2> QED
      BY <1>1, <1>2, <1>3, <2>1 DEF LInv, QueueInv, Fit
  <1>5. \A r : InFlight(r)' <=> InFlight(r)
    <2>1. (\E i \in 1..Len(logCh') : logCh'[i] = cursor)
      BY <1>2
    <2> QED
      BY <1>1, <1>2, <2>1 DEF InFlight
  <1>6. SettledInv' /\ NothingDropped'
    BY <1>1, <1>5 DEF LInv, SettledInv, NothingDropped
  <1> QED
    BY <1>4, <1>6 DEF Kept

(* streamLogs takes the first of logCh.                                    *)
LEMMA ReceiveKeeps == LInv /\ Receive => Kept'
  <1> SUFFICES ASSUME LInv, Receive PROVE Kept'
    OBVIOUS
  <1>1. /\ journal' = journal /\ fate' = fate /\ cursor' = cursor /\ reader' = reader
        /\ streamer = "select" /\ streamer' = "write"
    BY DEF Receive, readerVars
  <1>2. /\ entry' = logCh[1] /\ Len(logCh) \in Nat /\ Len(logCh) >= 1
        /\ Len(logCh') = Len(logCh) - 1
        /\ \A i \in 1..Len(logCh') : i + 1 \in 1..Len(logCh) /\ logCh'[i] = logCh[i + 1]
    BY Received DEF LInv, TypeOK, Receive
  <1>3. \A r : Fit(r)' <=> Fit(r)
    BY <1>1 DEF Fit
  <1>4. QueueInv'
    <2>1. Fit(entry') /\ (reader = "send" => entry' < cursor)
      BY <1>2 DEF LInv, QueueInv
    <2>2. ASSUME NEW i \in 1..Len(logCh')
          PROVE  Fit(logCh'[i]) /\ entry' < logCh'[i] /\ (reader = "send" => logCh'[i] < cursor)
      BY <1>2 DEF LInv, QueueInv
    <2>3. ASSUME NEW i \in 1..Len(logCh'), NEW j \in 1..Len(logCh'), i < j
          PROVE  logCh'[i] < logCh'[j]
      BY <1>2, <2>3 DEF LInv, QueueInv
    <2> QED
      BY <1>1, <1>3, <2>1, <2>2, <2>3 DEF LInv, QueueInv
  <1>5. \A r : InFlight(r)' <=> InFlight(r)
    <2>1. ASSUME NEW r, NEW i \in 1..Len(logCh), logCh[i] = r PROVE InFlight(r)'
      <3>1. i = 1 \/ (i - 1 \in 1..Len(logCh') /\ logCh'[i - 1] = logCh[i])
        BY <1>2
      <3> QED
        BY <1>1, <1>2, <2>1, <3>1 DEF InFlight
    <2>2. ASSUME NEW r, NEW i \in 1..Len(logCh'), logCh'[i] = r PROVE InFlight(r)
      BY <1>2, <2>2 DEF InFlight
    <2>3. InFlight(entry')
      BY <1>2 DEF InFlight
    <2> QED
      BY <1>1, <2>1, <2>2, <2>3 DEF InFlight
  <1>6. SettledInv' /\ NothingDropped'
    BY <1>1, <1>5 DEF LInv, SettledInv, NothingDropped
  <1> QED
    BY <1>4, <1>6 DEF Kept

(* The entry it holds is written, or given up.                             *)
LEMMA WriteKeeps == LInv /\ WriteStep => Kept'
  <1> SUFFICES ASSUME LInv, WriteStep PROVE Kept'
    OBVIOUS
  <1>1. /\ journal' = journal /\ cursor' = cursor /\ reader' = reader /\ logCh' = logCh
        /\ entry' = entry /\ streamer = "write" /\ streamer' = "select"
    BY DEF WriteStep, WriteEntry, WriteRefused, readerVars
  <1>2. Fit(entry) /\ entry \in Records
    BY <1>1, LenProperties, BoundsAssumption DEF LInv, TypeOK, QueueInv, Fit
  <1>3. /\ \A r \in Records : r # entry => fate'[r] = fate[r]
        /\ fate'[entry] # "none"
    BY <1>2 DEF LInv, TypeOK, WriteStep, WriteEntry, WriteRefused, Writer
  <1>4. \A r \in Nat : Fit(r) /\ r # entry => Fit(r)'
    BY <1>1, <1>3, LenProperties, BoundsAssumption DEF LInv, TypeOK, Fit
  <1>5. \A s : InFlight(s)' => InFlight(s) /\ s > entry /\ s \in Nat
    BY <1>1, LenProperties, BoundsAssumption DEF LInv, TypeOK, QueueInv, InFlight, Fit
  <1>6. QueueInv'
    <2>1. \A i \in 1..Len(logCh) : Fit(logCh[i]) /\ logCh[i] \in Nat /\ logCh[i] # entry
      BY <1>1, <1>2, LenProperties DEF LInv, TypeOK, QueueInv, Fit
    <2>2. reader = "send" => Fit(cursor) /\ cursor \in Nat /\ cursor # entry
      BY <1>1, <1>2, LenProperties DEF LInv, TypeOK, QueueInv, Fit
    <2>3. (\A i \in 1..Len(logCh) : Fit(logCh[i])') /\ (reader = "send" => Fit(cursor)')
      BY <1>1, <1>4, <2>1, <2>2
    <2> QED
      BY <1>1, <2>3 DEF LInv, QueueInv
  <1>7. SettledInv'
    <2>1. cursor \in Nat /\ entry <= cursor
      BY <1>2, LenProperties DEF LInv, TypeOK, Fit
    <2>2. \A r \in Records : r > cursor => fate'[r] = "none"
      BY <1>2, <1>3, <2>1, BoundsAssumption DEF LInv, SettledInv
    <2>3. ASSUME NEW r \in Records, NEW s \in Records, fate'[r] \in FIFOs, InFlight(s)'
          PROVE  r < s
      <3>1. CASE r = entry
        BY <1>5, <2>3, <3>1
      <3>2. CASE r # entry
        BY <1>3, <1>5, <2>3, <3>2 DEF LInv, SettledInv
      <3> QED
        BY <3>1, <3>2
    <2> QED
      BY <1>1, <2>2, <2>3 DEF SettledInv
  <1>8. NothingDropped'
    <2> SUFFICES ASSUME NEW r \in 1..cursor, fate'[r] = "none"
                 PROVE  InFlight(r)' \/ (reader = "ended" /\ r = cursor)
      BY <1>1 DEF NothingDropped
    <2>1. r \in Records /\ r # entry
      BY <1>2, <1>3, LenProperties, BoundsAssumption DEF LInv, TypeOK
    <2>2. InFlight(r) \/ (reader = "ended" /\ r = cursor)
      BY <1>3, <2>1 DEF LInv, NothingDropped
    <2> QED
      BY <1>1, <2>1, <2>2 DEF InFlight
  <1> QED
    BY <1>6, <1>7, <1>8 DEF Kept

-----------------------------------------------------------------------------
(* LInv is inductive.                                                      *)
LEMMA NextInv == LInv /\ [Next]_lvars => LInv'
  <1> SUFFICES ASSUME LInv, [Next]_lvars PROVE LInv'
    OBVIOUS
  <1>1. TypeOK' /\ PhaseInv'
    BY TypeStep, PhaseStep
  <1>2. CASE UnitLogs \/ Start \/ ReadRecord \/ SendEntry \/ Receive \/ WriteStep
    BY <1>1, <1>2, UnitLogsKeeps, StartKeeps, ReadRecordKeeps, SendEntryKeeps,
       ReceiveKeeps, WriteKeeps DEF Kept, LInv
  <1> USE DEF lvars, readerVars, streamVars, fifoVars
  <1>3. ASSUME NEW f \in FIFOs, Listen(f) \/ Leave(f) \/ ReadFIFO(f) PROVE LInv'
    BY <1>1, <1>3, QuietSteps, BoundsAssumption DEF Listen, Leave, ReadFIFO
  <1>4. CASE StopCancels \/ StopJoins \/ UnregisterUnit \/ ManagerStops
    BY <1>1, <1>4, QuietSteps, BoundsAssumption
       DEF StopCancels, StopJoins, UnregisterUnit, ManagerStops, CancelReader
  <1>5. CASE NextFails \/ BackoffEnds \/ ReaderEnds
    BY <1>1, <1>5, QuietSteps, BoundsAssumption DEF NextFails, BackoffEnds, ReaderEnds
  <1>6. CASE OpenStdout \/ OpenFails \/ OpenStderr \/ StreamerStops
    BY <1>1, <1>6, QuietSteps, BoundsAssumption
       DEF OpenStdout, OpenFails, OpenStderr, StreamerStops
  <1>7. CASE UNCHANGED lvars
    BY <1>1, <1>7, QuietSteps, BoundsAssumption
  <1> QED
    BY <1>2, <1>3, <1>4, <1>5, <1>6, <1>7
       DEF Next, HandlerStep, ReaderStep, StreamerStep

(* The inductive invariant of a log pipeline holds, whatever its bounds.   *)
THEOREM PipelineInvariant == Spec => []LInv
  BY InitInv, NextInv, PTL DEF Spec

(* Back pressure instead of loss (logs.go:15, StreamLogs): a record the    *)
(* reader has passed is settled or on its way, but for the one a cancelled *)
(* reader was delivering.                                                  *)
THEOREM BackPressure == Spec => []NothingDropped
  <1>1. LInv => NothingDropped
    BY DEF LInv
  <1> QED
    BY <1>1, PipelineInvariant, PTL

(* A step that settles a record is one LogContract allows.                 *)
LEMMA StepKeepsOrder ==
    LInv /\ LInv' /\ [Next]_lvars => [LC!Next]_<<journal, fate>>
  <1> SUFFICES ASSUME LInv, [Next]_lvars PROVE LC!Next \/ UNCHANGED <<journal, fate>>
    OBVIOUS
  <1> USE DEF LC!FIFOs, LC!Kinds, LC!Records
  <1>1. CASE UnitLogs
    BY <1>1 DEF UnitLogs, LC!Next, LC!Log
  <1>2. CASE Start
    BY <1>2 DEF Start, LInv, PhaseInv, LC!Next, LC!Begin
  <1>3. CASE ReadRecord
    <2> DEFINE n == cursor + 1
    <2>1. n \in Records /\ n <= Len(journal) /\ fate[n] = "none" /\ journal' = journal
      BY <1>3, LenProperties, BoundsAssumption DEF ReadRecord, LInv, TypeOK, SettledInv
    <2>2. UNCHANGED <<journal, fate>> \/ LC!Lose(n)
      BY <1>3, <2>1 DEF ReadRecord, LC!Lose, LC!Settle
    <2> QED
      BY <2>1, <2>2 DEF LC!Next
  <1>4. CASE WriteStep
    <2>1. /\ entry \in Records /\ entry <= Len(journal) /\ journal' = journal
          /\ fate[entry] = "none" /\ journal[entry] # "bare" /\ InFlight(entry)
      BY <1>4, LenProperties, BoundsAssumption
         DEF WriteStep, WriteEntry, WriteRefused, LInv, TypeOK, QueueInv, Fit, InFlight
    <2>2. CASE WriteRefused
      BY <2>1, <2>2 DEF WriteRefused, LC!Next, LC!Lose, LC!Settle
    <2>3. CASE WriteEntry
      <3>1. Writer \in FIFOs /\ (Writer = "stderr" => journal[entry] = "error")
        BY DEF Writer, LInv, TypeOK
      <3>2. \A s \in Records : s > entry => fate[s] \notin FIFOs
        BY <2>1, BoundsAssumption DEF LInv, SettledInv
      <3> QED
        BY <2>1, <2>3, <3>1, <3>2 DEF WriteEntry, LC!Next, LC!Write, LC!Settle
    <2> QED
      BY <1>4, <2>2, <2>3 DEF WriteStep
  <1>5. CASE UNCHANGED <<journal, fate>>
    BY <1>5
  <1>6. ASSUME NEW f \in FIFOs, Listen(f) \/ Leave(f) \/ ReadFIFO(f)
        PROVE  UNCHANGED <<journal, fate>>
    BY <1>6 DEF Listen, Leave, ReadFIFO
  <1>7. CASE StopCancels \/ StopJoins \/ UnregisterUnit \/ ManagerStops
    BY <1>7 DEF StopCancels, StopJoins, UnregisterUnit, ManagerStops, CancelReader
  <1>8. CASE NextFails \/ BackoffEnds \/ SendEntry \/ ReaderEnds
    BY <1>8 DEF NextFails, BackoffEnds, SendEntry, ReaderEnds
  <1>9. CASE OpenStdout \/ OpenFails \/ OpenStderr \/ StreamerStops \/ Receive
    BY <1>9 DEF OpenStdout, OpenFails, OpenStderr, StreamerStops, Receive
  <1> QED
    BY <1>1, <1>2, <1>3, <1>4, <1>5, <1>6, <1>7, <1>8, <1>9
       DEF Next, HandlerStep, ReaderStep, StreamerStep, lvars

(* LogPipeline implements LogContract: records are written at most once,   *)
(* in order, and to the right FIFO (StreamLogs, streamLogs).               *)
THEOREM Implements == Spec => KeepsOrder
  <1>1. Init => LC!Init
    BY DEF Init, LC!Init, LC!Kinds, LC!Records
  <1>2. LInv /\ LInv' /\ [Next]_lvars => [LC!Next]_<<journal, fate>>
    BY StepKeepsOrder
  <1> QED
    BY <1>1, <1>2, PipelineInvariant, PTL DEF Spec, KeepsOrder, LC!Spec

-----------------------------------------------------------------------------
(* What LogContract's readers rely on, step by step.                       *)

(* What became of a record is settled once: a record written, refused or   *)
(* skipped is not written again, whatever is retried (StreamLogs,          *)
(* writeLogEntry).                                                         *)
FatesAreFinal ==
    [][\A r \in Records : fate[r] # "none" => fate'[r] = fate[r]]_lvars

(* A record is never written once a later one was: skips, retries and the  *)
(* buffer do not reorder a task's log, between its two FIFOs included.     *)
WritesInOrder ==
    [][\A r, s \in Records : fate[s] \in FIFOs /\ r < s /\ fate'[r] \in FIFOs =>
          fate[r] \in FIFOs]_lvars

(* Handler.Stop joins streamLogs: once it has returned nothing more is     *)
(* written, although the reader may still be running and logCh filled, so  *)
(* that Nomad may remove the FIFOs.                                        *)
NothingAfterStop ==
    [][handler = "stopped" => \A r \in Records :
          fate'[r] \in FIFOs => fate[r] \in FIFOs]_lvars

(* Every record goes where its priority says: stderr holds errors only,    *)
(* and a record without a MESSAGE is nowhere and is the only kind skipped  *)
(* for the lack of one (StreamLogs, writeLogEntry).                        *)
FatesAreFit == \A r \in Records :
    /\ fate[r] \in FIFOs \cup {"bare"} => r <= Len(journal)
    /\ fate[r] = "stderr" => journal[r] = "error"
    /\ fate[r] \in FIFOs => journal[r] # "bare"
    /\ fate[r] = "bare" => journal[r] = "bare"

(* The records the reader has passed that are not settled.                 *)
Backlog == {r \in 1..cursor : fate[r] = "none"}

(* Back pressure bounds the memory a task's logs take, however slowly its  *)
(* FIFOs are read and however much the unit logs: logCh, the entry being   *)
(* written and the one being delivered (logChannelBufferSize).             *)
BoundedBacklog == IsFiniteSet(Backlog) /\ Cardinality(Backlog) <= Capacity + 2

(* Only LogContract's Begin and Settle change a fate.                      *)
THEOREM FatesFinal == Spec => FatesAreFinal
  <1>1. ASSUME LInv, LInv', [Next]_lvars, NEW r \in Records, fate[r] # "none"
        PROVE  fate'[r] = fate[r]
    <2>1. [LC!Next]_<<journal, fate>>
      BY <1>1, StepKeepsOrder
    <2>2. fate \in [Records -> Fates]
      BY <1>1 DEF LInv, TypeOK
    <2> QED
      BY <1>1, <2>1, <2>2
         DEF LC!Next, LC!Log, LC!Begin, LC!Lose, LC!Write, LC!Settle, LC!Records
  <1>2. LInv /\ LInv' /\ [Next]_lvars =>
            [\A r \in Records : fate[r] # "none" => fate'[r] = fate[r]]_lvars
    BY <1>1
  <1> QED
    BY PipelineInvariant, <1>2, PTL DEF Spec, FatesAreFinal

(* streamLogs writes what is ahead of everything that was written.         *)
THEOREM InOrder == Spec => WritesInOrder
  <1>1. ASSUME LInv, LInv', [Next]_lvars, NEW r \in Records, NEW s \in Records,
               fate[s] \in FIFOs, r < s, fate'[r] \in FIFOs
        PROVE  fate[r] \in FIFOs
    <2>1. [LC!Next]_<<journal, fate>>
      BY <1>1, StepKeepsOrder
    <2>2. fate \in [Records -> Fates]
      BY <1>1 DEF LInv, TypeOK
    <2> QED
      BY <1>1, <2>1, <2>2, BoundsAssumption
         DEF LC!Next, LC!Log, LC!Begin, LC!Lose, LC!Write, LC!Settle, LC!Records,
             LC!FIFOs
  <1>2. LInv /\ LInv' /\ [Next]_lvars =>
            [\A r, s \in Records : fate[s] \in FIFOs /\ r < s /\ fate'[r] \in FIFOs =>
                fate[r] \in FIFOs]_lvars
    BY <1>1
  <1> QED
    BY PipelineInvariant, <1>2, PTL DEF Spec, WritesInOrder

(* StopJoins waits for streamLogs to end.                                  *)
THEOREM QuietAfterStop == Spec => NothingAfterStop
  <1>1. ASSUME LInv, [Next]_lvars, handler = "stopped",
               NEW r \in Records, fate'[r] \in FIFOs
        PROVE  fate[r] \in FIFOs
    <2>1. streamer = "ended" /\ fate \in [Records -> Fates]
      BY <1>1 DEF LInv, PhaseInv, TypeOK
    <2>2. CASE ReadRecord
      BY <1>1, <2>1, <2>2 DEF ReadRecord
    <2>3. CASE fate' = fate
      BY <1>1, <2>3
    <2> QED
      BY <1>1, <2>1, <2>2, <2>3 DEF Next, HandlerStep, ReaderStep, StreamerStep,
         UnitLogs, Listen, Leave, ReadFIFO, Start, StopCancels, StopJoins,
         UnregisterUnit, ManagerStops, CancelReader, NextFails, BackoffEnds,
         SendEntry, ReaderEnds, OpenStdout, OpenFails, OpenStderr, StreamerStops,
         Receive, WriteStep, WriteEntry, WriteRefused, lvars
  <1>2. LInv /\ [Next]_lvars =>
            [handler = "stopped" => \A r \in Records :
                fate'[r] \in FIFOs => fate[r] \in FIFOs]_lvars
    BY <1>1
  <1> QED
    BY PipelineInvariant, <1>2, PTL DEF Spec, NothingAfterStop

(* writeLogEntry looks at the priority, StreamLogs at the MESSAGE; journal *)
(* records do not change.                                                  *)
THEOREM FatesFit == Spec => []FatesAreFit
  <1>1. Init => FatesAreFit
    BY DEF Init, FatesAreFit
  <1>2. ASSUME LInv, LInv', FatesAreFit, [Next]_lvars PROVE FatesAreFit'
    <2>0. /\ fate \in [Records -> Fates] /\ journal \in Seq(Kinds)
          /\ Len(journal) \in Nat /\ LC!Records = Records /\ LC!FIFOs = FIFOs
          /\ LC!Kinds = Kinds
      BY <1>2, LenProperties DEF LInv, TypeOK, LC!Records, LC!FIFOs, LC!Kinds
    <2>1. CASE LC!Log
      <3>1. PICK k \in Kinds : journal' = Append(journal, k) /\ fate' = fate
        BY <2>0, <2>1 DEF LC!Log
      <3>2. /\ Len(journal') = Len(journal) + 1
            /\ \A i \in 1..Len(journal) : journal'[i] = journal[i]
        BY <2>0, <3>1, Sent
      <3>3. ASSUME NEW r \in Records, r <= Len(journal)
            PROVE  journal'[r] = journal[r] /\ r <= Len(journal')
        BY <2>0, <3>2, <3>3, BoundsAssumption
      <3> QED
        BY <1>2, <3>1, <3>3 DEF FatesAreFit
    <2>2. CASE LC!Begin
      BY <1>2, <2>0, <2>2 DEF LC!Begin, FatesAreFit
    <2>3. ASSUME NEW r \in Records, LC!Lose(r) PROVE FatesAreFit'
      BY <1>2, <2>0, <2>3 DEF LC!Lose, LC!Settle, FatesAreFit
    <2>4. ASSUME NEW r \in Records, NEW f \in FIFOs, LC!Write(r, f)
          PROVE  FatesAreFit'
      BY <1>2, <2>0, <2>4 DEF LC!Write, LC!Settle, FatesAreFit
    <2>5. CASE UNCHANGED <<journal, fate>>
      BY <1>2, <2>5 DEF FatesAreFit
    <2> QED
      BY <1>2, <2>0, <2>1, <2>2, <2>3, <2>4, <2>5, StepKeepsOrder DEF LC!Next
  <1> QED
    BY PipelineInvariant, <1>1, <1>2, PTL DEF Spec

(* What NothingDropped leaves room for.                                    *)
THEOREM Bounded == Spec => []BoundedBacklog
  <1>1. ASSUME LInv PROVE BoundedBacklog
    <2> DEFINE n == Len(logCh)
               held == [i \in 1..(n + 2) |-> IF i <= n THEN logCh[i]
                                             ELSE IF i = n + 1 THEN entry ELSE cursor]
               T == {held[i] : i \in 1..(n + 2)}
    <2>1. n \in Nat /\ n <= Capacity
      BY <1>1, LenProperties DEF LInv, TypeOK
    <2>2. held \in Surjection(1..(n + 2), T)
      BY DEF Surjection
    <2>3. IsFiniteSet(T) /\ Cardinality(T) <= Cardinality(1..(n + 2))
          /\ IsFiniteSet(1..(n + 2)) /\ Cardinality(1..(n + 2)) = n + 2
      <3>1. IsFiniteSet(1..(n + 2)) /\ Cardinality(1..(n + 2)) = n + 2
        BY <2>1, FS_Interval
      <3> HIDE DEF held
      <3> QED
        BY <2>2, <3>1, FS_Surjection
    <2>4. Backlog \subseteq T
      <3> SUFFICES ASSUME NEW r \in 1..cursor, fate[r] = "none"
                   PROVE  \E i \in 1..(n + 2) : held[i] = r
        BY DEF Backlog
      <3>1. InFlight(r) \/ r = cursor
        BY <1>1 DEF LInv, NothingDropped
      <3>2. CASE r = cursor
        BY <2>1, <3>2
      <3>3. CASE r = entry
        BY <2>1, <3>3
      <3>4. ASSUME NEW i \in 1..n, logCh[i] = r
            PROVE  \E j \in 1..(n + 2) : held[j] = r
        BY <2>1, <3>4
      <3> QED
        BY <3>1, <3>2, <3>3, <3>4 DEF InFlight
    <2>5. IsFiniteSet(Backlog) /\ Cardinality(Backlog) <= Cardinality(T)
      BY <2>3, <2>4, FS_Subset
    <2>6. Cardinality(Backlog) \in Nat /\ Cardinality(T) \in Nat
      BY <2>3, <2>5, FS_CardinalityType
    <2> QED
      BY <2>1, <2>3, <2>5, <2>6, BoundsAssumption DEF BoundedBacklog
  <1> QED
    BY <1>1, PipelineInvariant, PTL
=============================================================================
