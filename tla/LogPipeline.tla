---------------------------- MODULE LogPipeline -----------------------------
(***************************************************************************)
(* A task's logs on their way from the journal to Nomad: the goroutine     *)
(* StreamLogs starts to read the unit's journal (pkg/systemd/journal.go),  *)
(* the bounded logCh, and streamLogs, which writes each entry to a FIFO    *)
(* (pkg/task/logs.go).  Handler.Start starts both, Handler.Stop joins the  *)
(* writer, and unregistering the unit, or stopping the Manager, ends the   *)
(* reader.  The poller, which Stop joins too, is TaskHandler's; the race   *)
(* for the reader's registration is SystemdManager's.                      *)
(***************************************************************************)
EXTENDS Naturals, Sequences

CONSTANTS MaxRecords,   \* records the unit logs
          Capacity,     \* logChannelBufferSize
          MaxOpens,     \* maxStdoutOpenRetries
          Room          \* what a FIFO holds that Nomad has not read

ASSUME BoundsAssumption == /\ MaxRecords \in Nat
                           /\ Capacity \in Nat \ {0}
                           /\ MaxOpens \in Nat \ {0}
                           /\ Room \in Nat \ {0}

FIFOs == {"stdout", "stderr"}
Kinds == {"error", "info", "bare"}  \* by PRIORITY, or without a MESSAGE
Records == 1..MaxRecords
Fates == {"none", "earlier", "bare", "unreadable", "refused"} \cup FIFOs

VARIABLES
    journal,    \* the kinds of the records logged so far
    fate,       \* history: what became of each record
    cursor,     \* the record the journal reader is at
    reader,     \* program counter of the journal reader
    cancelled,  \* its unitCtx is cancelled
    logCh,      \* Handler.logCh
    handler,    \* Start and Stop of the Handler
    streamer,   \* program counter of streamLogs
    opens,      \* failed opens of stdout
    errors,     \* the FIFO opened for stderr
    entry,      \* the entry streamLogs is writing
    listening,  \* FIFOs some process has open for reading
    pipe        \* unread entries in each FIFO

readerVars == <<cursor, reader, cancelled>>
streamVars == <<streamer, opens, errors, entry>>
fifoVars == <<listening, pipe>>
lvars == <<journal, fate, readerVars, logCh, handler, streamVars, fifoVars>>

TypeOK == /\ journal \in Seq(Kinds) /\ Len(journal) <= MaxRecords
          /\ fate \in [Records -> Fates]
          /\ cursor \in 0..Len(journal)
          /\ reader \in {"idle", "next", "backoff", "send", "ended"}
          /\ cancelled \in BOOLEAN
          /\ logCh \in Seq(Records) /\ Len(logCh) <= Capacity
          /\ handler \in {"new", "up", "stopping", "stopped"}
          /\ streamer \in {"idle", "open", "stderr", "select", "write", "ended"}
          /\ opens \in 0..MaxOpens
          /\ errors \in FIFOs
          /\ entry \in 0..MaxRecords
          /\ listening \subseteq FIFOs
          /\ pipe \in [FIFOs -> 0..Room]

Init == /\ journal = <<>>
        /\ fate = [r \in Records |-> "none"]
        /\ cursor = 0
        /\ reader = "idle"
        /\ cancelled = FALSE
        /\ logCh = <<>>
        /\ handler = "new"
        /\ streamer = "idle"
        /\ opens = 0
        /\ errors = "stderr"
        /\ entry = 0
        /\ listening = {}
        /\ pipe = [f \in FIFOs |-> 0]

-----------------------------------------------------------------------------
(* The unit logs; Nomad's log collectors come, read, stall and go.         *)
UnitLogs ==
    /\ Len(journal) < MaxRecords
    /\ \E k \in Kinds : journal' = Append(journal, k)
    /\ UNCHANGED <<fate, readerVars, logCh, handler, streamVars, fifoVars>>

Listen(f) ==
    /\ listening' = listening \cup {f}
    /\ UNCHANGED <<journal, fate, readerVars, logCh, handler, streamVars, pipe>>

Leave(f) ==
    /\ listening' = listening \ {f}
    /\ UNCHANGED <<journal, fate, readerVars, logCh, handler, streamVars, pipe>>

ReadFIFO(f) ==
    /\ f \in listening
    /\ pipe[f] > 0
    /\ pipe' = [pipe EXCEPT ![f] = @ - 1]
    /\ UNCHANGED <<journal, fate, readerVars, logCh, handler, streamVars, listening>>

-----------------------------------------------------------------------------
(* Handler.Start: StreamLogs seeks to now, or failing that to wherever the *)
(* cursor is, and starts the reader; if it fails the task has no logs.     *)
Start ==
    /\ handler = "new"
    /\ handler' = "up"
    /\ streamer' = "open"
    /\ \/ \E c \in 0..Len(journal) :
             /\ reader' = "next"
             /\ cursor' = c
             /\ fate' = [r \in Records |-> IF r <= c THEN "earlier" ELSE "none"]
       \/ reader' = "ended" /\ UNCHANGED <<cursor, fate>>
    /\ UNCHANGED <<journal, cancelled, logCh, opens, errors, entry, fifoVars>>

(* Handler.Stop: cancel, then wait for streamLogs.                         *)
StopCancels ==
    /\ handler = "up"
    /\ handler' = "stopping"
    /\ UNCHANGED <<journal, fate, readerVars, logCh, streamVars, fifoVars>>

StopJoins ==
    /\ handler = "stopping"
    /\ streamer = "ended"
    /\ handler' = "stopped"
    /\ UNCHANGED <<journal, fate, readerVars, logCh, streamVars, fifoVars>>

(* Once the Handler is stopped its unit is unregistered; a Manager may be  *)
(* stopped, by a reload, under a Handler that is up.                       *)
CancelReader ==
    /\ cancelled' = TRUE
    /\ UNCHANGED <<journal, fate, cursor, reader, logCh, handler, streamVars, fifoVars>>

UnregisterUnit == handler = "stopped" /\ ~cancelled /\ CancelReader
ManagerStops == handler \in {"up", "stopping"} /\ ~cancelled /\ CancelReader

-----------------------------------------------------------------------------
(* The reader's loop.  journal.Next may fail, which is retried after a     *)
(* backoff, or find nothing, which is waited out.                          *)
NextFails ==
    /\ reader = "next"
    /\ ~cancelled
    /\ reader' = "backoff"
    /\ UNCHANGED <<journal, fate, cursor, cancelled, logCh, handler, streamVars, fifoVars>>

BackoffEnds ==
    /\ reader = "backoff"
    /\ reader' = "next"
    /\ UNCHANGED <<journal, fate, cursor, cancelled, logCh, handler, streamVars, fifoVars>>

(* Mutant: a record waits for the next one to be noticed.                  *)
ReadRecordLate ==
    /\ reader = "next"
    /\ ~cancelled
    /\ cursor + 1 < Len(journal)
    /\ cursor' = cursor + 1
    /\ reader' = IF journal[cursor + 1] = "bare" THEN "next" ELSE "send"
    /\ fate' = IF journal[cursor + 1] = "bare"
                 THEN [fate EXCEPT ![cursor + 1] = "bare"] ELSE fate
    /\ UNCHANGED <<journal, cancelled, logCh, handler, streamVars, fifoVars>>

(* A record that cannot be read, or has no MESSAGE, is skipped.            *)
ReadRecord ==
    /\ reader = "next"
    /\ ~cancelled
    /\ cursor < Len(journal)
    /\ cursor' = cursor + 1
    /\ \/ fate' = [fate EXCEPT ![cursor + 1] = "unreadable"] /\ UNCHANGED reader
       \/ /\ journal[cursor + 1] = "bare"
          /\ fate' = [fate EXCEPT ![cursor + 1] = "bare"]
          /\ UNCHANGED reader
       \/ /\ journal[cursor + 1] # "bare"
          /\ reader' = "send"
          /\ UNCHANGED fate
    /\ UNCHANGED <<journal, cancelled, logCh, handler, streamVars, fifoVars>>

(* Mutant: a full channel drops the entry.                                 *)
SendEntryOrDrop ==
    /\ reader = "send"
    /\ logCh' = IF Len(logCh) < Capacity THEN Append(logCh, cursor) ELSE logCh
    /\ reader' = "next"
    /\ UNCHANGED <<journal, fate, cursor, cancelled, handler, streamVars, fifoVars>>

(* Delivery blocks while logCh is full.                                    *)
SendEntry ==
    /\ reader = "send"
    /\ Len(logCh) < Capacity
    /\ logCh' = Append(logCh, cursor)
    /\ reader' = "next"
    /\ UNCHANGED <<journal, fate, cursor, cancelled, handler, streamVars, fifoVars>>

(* Mutant: a reader that is delivering does not watch its context.         *)
ReaderEndsIdle ==
    /\ reader \in {"next", "backoff"}
    /\ cancelled
    /\ reader' = "ended"
    /\ UNCHANGED <<journal, fate, cursor, cancelled, logCh, handler, streamVars, fifoVars>>

ReaderEnds ==
    /\ reader \in {"next", "backoff", "send"}
    /\ cancelled
    /\ reader' = "ended"
    /\ UNCHANGED <<journal, fate, cursor, cancelled, logCh, handler, streamVars, fifoVars>>

-----------------------------------------------------------------------------
(* streamLogs: opening stdout for writing fails while nobody reads it, and *)
(* is retried a few times, whether or not the Handler was stopped.         *)
OpenStdout ==
    /\ streamer = "open"
    /\ "stdout" \in listening
    /\ streamer' = "stderr"
    /\ UNCHANGED <<journal, fate, readerVars, logCh, handler, opens, errors, entry, fifoVars>>

OpenFails ==
    /\ streamer = "open"
    /\ "stdout" \notin listening
    /\ opens' = opens + 1
    /\ streamer' = IF opens + 1 = MaxOpens THEN "ended" ELSE "open"
    /\ UNCHANGED <<journal, fate, readerVars, logCh, handler, errors, entry, fifoVars>>

(* stderr is tried once; stdout takes its place.                           *)
OpenStderr ==
    /\ streamer = "stderr"
    /\ errors' = IF "stderr" \in listening THEN "stderr" ELSE "stdout"
    /\ streamer' = "select"
    /\ UNCHANGED <<journal, fate, readerVars, logCh, handler, opens, entry, fifoVars>>

StreamerStops ==
    /\ streamer = "select"
    /\ handler # "up"
    /\ streamer' = "ended"
    /\ UNCHANGED <<journal, fate, readerVars, logCh, handler, opens, errors, entry, fifoVars>>

Receive ==
    /\ streamer = "select"
    /\ logCh # <<>>
    /\ entry' = Head(logCh)
    /\ logCh' = Tail(logCh)
    /\ streamer' = "write"
    /\ UNCHANGED <<journal, fate, readerVars, handler, opens, errors, fifoVars>>

(* writeLogEntry: a full FIFO blocks, whatever becomes of the Handler; one *)
(* that nobody reads refuses the entry, which is lost.                     *)
Writer == IF journal[entry] = "error" THEN errors ELSE "stdout"

(* Mutant: an entry that was written may be written once more.             *)
WriteEntryAgain ==
    /\ streamer = "write"
    /\ Writer \in listening
    /\ pipe[Writer] < Room
    /\ pipe' = [pipe EXCEPT ![Writer] = @ + 1]
    /\ fate' = [fate EXCEPT ![entry] = Writer]
    /\ streamer' \in {"select", "write"}
    /\ UNCHANGED <<journal, readerVars, logCh, handler, opens, errors, entry, listening>>

WriteEntry ==
    /\ streamer = "write"
    /\ Writer \in listening
    /\ pipe[Writer] < Room
    /\ pipe' = [pipe EXCEPT ![Writer] = @ + 1]
    /\ fate' = [fate EXCEPT ![entry] = Writer]
    /\ streamer' = "select"
    /\ UNCHANGED <<journal, readerVars, logCh, handler, opens, errors, entry, listening>>

(* Mutant: a refused write is tried again.                                 *)
WriteRefusedRetries ==
    /\ streamer = "write"
    /\ Writer \notin listening
    /\ UNCHANGED lvars

WriteRefused ==
    /\ streamer = "write"
    /\ Writer \notin listening
    /\ fate' = [fate EXCEPT ![entry] = "refused"]
    /\ streamer' = "select"
    /\ UNCHANGED <<journal, readerVars, logCh, handler, opens, errors, entry, fifoVars>>

ReaderStep == \/ NextFails \/ BackoffEnds \/ ReadRecord \/ SendEntry \/ ReaderEnds

WriteStep == WriteEntry \/ WriteRefused

StreamerStep == \/ OpenStdout \/ OpenFails \/ OpenStderr
                \/ StreamerStops \/ Receive \/ WriteStep

HandlerStep == Start \/ StopCancels \/ StopJoins \/ UnregisterUnit \/ ManagerStops

Next == \/ UnitLogs
        \/ \E f \in FIFOs : Listen(f) \/ Leave(f) \/ ReadFIFO(f)
        \/ HandlerStep \/ ReaderStep \/ StreamerStep

Spec == Init /\ [][Next]_lvars

(* Goroutines that can run do.  Errors of the journal do not go on for     *)
(* ever, and a select that finds ctx.Done ready again and again takes it   *)
(* in the end.  Nothing is assumed of the FIFOs, of the unit or of who     *)
(* stops the Handler; a stopped one is unregistered.                       *)
Fairness == /\ WF_lvars(BackoffEnds) /\ SF_lvars(ReadRecord)
            /\ WF_lvars(SendEntry) /\ WF_lvars(ReaderEnds)
            /\ WF_lvars(OpenStdout \/ OpenFails) /\ WF_lvars(OpenStderr)
            /\ SF_lvars(StreamerStops) /\ WF_lvars(Receive) /\ WF_lvars(WriteStep)
            /\ WF_lvars(StopJoins) /\ WF_lvars(UnregisterUnit)

FairSpec == Spec /\ Fairness

-----------------------------------------------------------------------------
(* The entry streamLogs holds, those in logCh and the one the reader holds *)
(* are on their way.                                                       *)
InFlight(r) == \/ streamer = "write" /\ entry = r
               \/ \E i \in 1..Len(logCh) : logCh[i] = r
               \/ reader = "send" /\ cursor = r

(* Back pressure instead of loss (logs.go:15, StreamLogs): a record the    *)
(* reader has passed is written, or was unfit, or was refused by a FIFO    *)
(* nobody reads, or is on its way.  Only the end of the reader costs a     *)
(* record, the one it was delivering.                                      *)
NothingDropped == \A r \in 1..cursor :
    fate[r] = "none" => InFlight(r) \/ (reader = "ended" /\ r = cursor)

(* Each record is written at most once, in order and to its own FIFO,      *)
(* whatever is skipped, refused, buffered and cancelled on the way         *)
(* (StreamLogs, streamLogs, writeLogEntry).                                *)
LC == INSTANCE LogContract
KeepsOrder == LC!Spec

(* A reader whose unit is unregistered, or whose Manager stops, ends,      *)
(* although it may be blocked on a logCh that nobody receives from any     *)
(* more (StreamLogs); Manager.Stop waits for it.                           *)
CancelledReaderEnds == cancelled ~> reader \in {"idle", "ended"}

(* A FIFO that does not block for ever: it is drained again and again, or  *)
(* left by its readers for good.                                           *)
Drained(f) == []<>(pipe[f] < Room) \/ <>[](f \notin listening)

(* Handler.Stop returns unless a log collector stalls with its FIFO open;  *)
(* then the write, which nothing interrupts, holds up streamLogs and with  *)
(* it DestroyTask (Handler.Stop, writeLogEntry).                           *)
StopReturns ==
    (\A f \in FIFOs : Drained(f)) => (handler = "stopping" ~> handler = "stopped")

(* While a task is up and stdout could be opened, every record logged      *)
(* since Start is written or accounted for, however often the journal      *)
(* fails, logCh fills up or a FIFO loses its readers (StreamLogs).         *)
Delivered ==
    /\ <>[](reader # "ended" /\ streamer \in {"select", "write"} /\ handler = "up")
    /\ \A f \in FIFOs : Drained(f)
    => \A r \in Records : []<>(r > Len(journal) \/ fate[r] # "none")

-----------------------------------------------------------------------------
(* Why order is kept.  Program counters agree with the Handler's.          *)
PhaseInv ==
    /\ handler = "new" <=> streamer = "idle"
    /\ handler = "new" <=> reader = "idle"
    /\ reader = "idle" => cursor = 0 /\ logCh = <<>> /\ fate = [r \in Records |-> "none"]
    /\ streamer \in {"idle", "open"} => opens < MaxOpens
    /\ handler = "stopped" => streamer = "ended"

(* What is on its way is in order, unsettled and fit to be written: the    *)
(* entry being written, then logCh, then the record being sent.            *)
Fit(r) == r \in 1..cursor /\ fate[r] = "none" /\ journal[r] # "bare"

QueueInv ==
    /\ streamer = "write" => Fit(entry)
    /\ reader = "send" => Fit(cursor)
    /\ \A i \in 1..Len(logCh) :
           /\ Fit(logCh[i])
           /\ streamer = "write" => entry < logCh[i]
           /\ reader = "send" => logCh[i] < cursor
           /\ \A j \in 1..Len(logCh) : i < j => logCh[i] < logCh[j]
    /\ streamer = "write" /\ reader = "send" => entry < cursor

(* What is settled is behind what is on its way.                           *)
SettledInv ==
    /\ \A r \in Records : r > cursor => fate[r] = "none"
    /\ \A r, s \in Records : fate[r] \in FIFOs /\ InFlight(s) => r < s

(* The inductive invariant of a log pipeline.                              *)
LInv == TypeOK /\ PhaseInv /\ QueueInv /\ SettledInv /\ NothingDropped
=============================================================================
