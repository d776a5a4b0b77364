------------------------ MODULE SystemdManagerProofs ------------------------
(***************************************************************************)
(* Proofs about SystemdManager, for any units, entries, journal readers    *)
(* and connections.  MInv, stated there, is inductive: one lemma per       *)
(* action.  The safety properties are parts of it or follow from it.       *)
(***************************************************************************)
EXTENDS SystemdManager, TLAPS

USE NoneAssumption

(* Whoever a unit's entry records is a reader.                             *)
LEMMA RecordedReaders ==
    ASSUME TypeOK, NEW u \in Units
    PROVE  Recorded(u) \subseteq Readers
  BY DEF TypeOK, Recorded, Registered

(* An abandoned entry's reader is about to be cancelled.                   *)
LEMMA RegisterUnitInv ==
    ASSUME MInv, NEW u \in Units, RegisterUnit(u)
    PROVE  MInv'
<1>1. PICK k \in Regs : /\ \A v \in Units : units[v] # k
                         /\ units' = [units EXCEPT ![u] = k]
                         /\ journal' = [journal EXCEPT ![k] = NoReader]
  BY DEF RegisterUnit
<1>2. TypeOK'
  BY <1>1, RecordedReaders DEF MInv, TypeOK, RegisterUnit, readVars, connVars,
        loopVars, stopVars
<1>3. TableInv'
  BY DEF MInv, TableInv, Registered, TypeOK, RegisterUnit, readVars, connVars,
        loopVars, stopVars
<1>4. NoOrphanReader'
  BY <1>1 DEF MInv, NoOrphanReader, Ending, Recorded, Registered, TableInv,
        TypeOK, RegisterUnit, readVars, connVars, loopVars, stopVars
<1>5. LoopInv' /\ StopInv' /\ NoConnectionLeak' /\ NoDeafConnection'
  BY DEF MInv, LoopInv, StopInv, NoConnectionLeak, NoDeafConnection,
        Registered, RegisterUnit, readVars, connVars, loopVars, stopVars
<1> QED
  BY <1>2, <1>3, <1>4, <1>5 DEF MInv

(* So is that of a unit that is no longer registered.                      *)
LEMMA UnregisterUnitInv ==
    ASSUME MInv, NEW u \in Units, UnregisterUnit(u)
    PROVE  MInv'
<1>1. TypeOK'
  BY RecordedReaders DEF MInv, TypeOK, UnregisterUnit, readVars, connVars,
        loopVars, stopVars
<1>2. TableInv'
  BY DEF MInv, TableInv, Registered, TypeOK, UnregisterUnit, readVars,
        connVars, loopVars, stopVars
<1>3. NoOrphanReader'
  BY DEF MInv, NoOrphanReader, Ending, Recorded, Registered, TableInv, TypeOK,
        UnregisterUnit, readVars, connVars, loopVars, stopVars
<1>4. LoopInv' /\ StopInv' /\ NoConnectionLeak' /\ NoDeafConnection'
  BY DEF MInv, LoopInv, StopInv, NoConnectionLeak, NoDeafConnection,
        Registered, UnregisterUnit, readVars, connVars, loopVars, stopVars
<1> QED
  BY <1>1, <1>2, <1>3, <1>4 DEF MInv

(* A reader that was cancelled is ending.                                  *)
LEMMA CancelReaderInv ==
    ASSUME MInv, NEW r \in Readers, CancelReader(r)
    PROVE  MInv'
<1>1. TypeOK'
  BY DEF MInv, TypeOK, CancelReader, connVars, loopVars, stopVars
<1>2. NoOrphanReader'
  BY DEF MInv, NoOrphanReader, Ending, Recorded, Registered, TypeOK,
        CancelReader, connVars, loopVars, stopVars
<1>3. LoopInv' /\ StopInv' /\ TableInv' /\ NoConnectionLeak' /\
      NoDeafConnection'
  BY DEF MInv, LoopInv, StopInv, TableInv, NoConnectionLeak, NoDeafConnection,
        Registered, CancelReader, connVars, loopVars, stopVars
<1> QED
  BY <1>1, <1>2, <1>3 DEF MInv

(* A StreamLogs call is not a reader yet.                                  *)
LEMMA StreamLogsInv ==
    ASSUME MInv, NEW r \in Readers, NEW u \in Units, StreamLogs(r, u)
    PROVE  MInv'
<1>1. TypeOK'
  BY DEF MInv, TypeOK, StreamLogs, unitVars, connVars, loopVars, stopVars
<1>2. StopInv'
  BY DEF MInv, StopInv, Registered, TypeOK, StreamLogs, unitVars, connVars,
        loopVars, stopVars
<1>3. TableInv'
  BY DEF MInv, TableInv, Registered, TypeOK, StreamLogs, unitVars, connVars,
        loopVars, stopVars
<1>4. NoOrphanReader'
  BY DEF MInv, NoOrphanReader, Ending, Recorded, Registered, TableInv, TypeOK,
        StreamLogs, unitVars, connVars, loopVars, stopVars
<1>5. LoopInv' /\ NoConnectionLeak' /\ NoDeafConnection'
  BY DEF MInv, LoopInv, NoConnectionLeak, NoDeafConnection, StreamLogs,
        unitVars, connVars, loopVars, stopVars
<1> QED
  BY <1>1, <1>2, <1>3, <1>4, <1>5 DEF MInv

(* A StreamLogs call that fails starts no reader.                          *)
LEMMA StreamLogsFailsInv ==
    ASSUME MInv, NEW r \in Readers, StreamLogsFails(r)
    PROVE  MInv'
<1>1. TypeOK'
  BY DEF MInv, TypeOK, StreamLogsFails, unitVars, connVars, loopVars, stopVars
<1>2. StopInv'
  BY DEF MInv, StopInv, Registered, TypeOK, StreamLogsFails, unitVars,
        connVars, loopVars, stopVars
<1>3. TableInv'
  BY DEF MInv, TableInv, Registered, TypeOK, StreamLogsFails, unitVars,
        connVars, loopVars, stopVars
<1>4. NoOrphanReader'
  BY DEF MInv, NoOrphanReader, Ending, Recorded, Registered, TableInv, TypeOK,
        StreamLogsFails, unitVars, connVars, loopVars, stopVars
<1>5. LoopInv' /\ NoConnectionLeak' /\ NoDeafConnection'
  BY DEF MInv, LoopInv, NoConnectionLeak, NoDeafConnection, StreamLogsFails,
        unitVars, connVars, loopVars, stopVars
<1> QED
  BY <1>1, <1>2, <1>3, <1>4, <1>5 DEF MInv

(* A reader is recorded as it starts, and the one it replaces is about to  *)
(* be cancelled.                                                           *)
LEMMA StartJournalReaderInv ==
    ASSUME MInv, NEW r \in Readers, StartJournalReader(r)
    PROVE  MInv'
<1>1. unitOf[r] \in Units /\ units[unitOf[r]] \in Regs
  BY DEF MInv, TypeOK, TableInv, Registered, StartJournalReader
<1>2. TypeOK'
  BY <1>1 DEF MInv, TypeOK, Recorded, StartJournalReader, connVars, loopVars,
        stopVars
<1>3. StopInv'
  BY DEF MInv, StopInv, Registered, TypeOK, StartJournalReader, connVars,
        loopVars, stopVars
<1>4. TableInv'
  BY DEF MInv, TableInv, Registered, TypeOK, StartJournalReader, connVars,
        loopVars, stopVars
<1>5. NoOrphanReader'
  BY <1>1 DEF MInv, NoOrphanReader, Ending, Recorded, Registered, TableInv,
        TypeOK, StartJournalReader, connVars, loopVars, stopVars
<1>6. LoopInv' /\ NoConnectionLeak' /\ NoDeafConnection'
  BY DEF MInv, LoopInv, NoConnectionLeak, NoDeafConnection, StartJournalReader,
        connVars, loopVars, stopVars
<1> QED
  BY <1>2, <1>3, <1>4, <1>5, <1>6 DEF MInv

(* A reader ends.                                                          *)
LEMMA ReaderExitsInv ==
    ASSUME MInv, NEW r \in Readers, ReaderExits(r)
    PROVE  MInv'
<1>1. TypeOK'
  BY DEF MInv, TypeOK, ReaderExits, unitVars, connVars, loopVars, stopVars
<1>2. StopInv'
  BY DEF MInv, StopInv, Registered, TypeOK, ReaderExits, unitVars, connVars,
        loopVars, stopVars
<1>3. TableInv'
  BY DEF MInv, TableInv, Registered, TypeOK, ReaderExits, unitVars, connVars,
        loopVars, stopVars
<1>4. NoOrphanReader'
  BY DEF MInv, NoOrphanReader, Ending, Recorded, Registered, TableInv, TypeOK,
        ReaderExits, unitVars, connVars, loopVars, stopVars
<1>5. LoopInv' /\ NoConnectionLeak' /\ NoDeafConnection'
  BY DEF MInv, LoopInv, NoConnectionLeak, NoDeafConnection, ReaderExits,
        unitVars, connVars, loopVars, stopVars
<1> QED
  BY <1>1, <1>2, <1>3, <1>4, <1>5 DEF MInv

(* A connection that drops is still to be closed.                          *)
LEMMA DropInv ==
    ASSUME MInv, NEW c \in Conns, Drop(c)
    PROVE  MInv'
<1>1. TypeOK' /\ LoopInv' /\ StopInv' /\ TableInv' /\ NoOrphanReader' /\
      NoConnectionLeak' /\ NoDeafConnection'
  BY DEF MInv, TypeOK, LoopInv, StopInv, TableInv, NoOrphanReader,
        NoConnectionLeak, NoDeafConnection, Registered, Ending, Recorded, Drop,
        unitVars, readVars, loopVars, stopVars
<1> QED
  BY <1>1 DEF MInv

(* The loop is about to dial.                                              *)
LEMMA ReconnectTickInv ==
    ASSUME MInv, ReconnectTick
    PROVE  MInv'
<1>1. LoopInv'
  BY DEF MInv, LoopInv, ReconnectTick, unitVars, readVars, connVars, stopVars
<1>2. TypeOK' /\ StopInv' /\ TableInv' /\ NoOrphanReader' /\ NoConnectionLeak'
      /\ NoDeafConnection'
  BY DEF MInv, TypeOK, StopInv, TableInv, NoOrphanReader, NoConnectionLeak,
        NoDeafConnection, Registered, Ending, Recorded, ReconnectTick,
        unitVars, readVars, connVars, stopVars
<1> QED
  BY <1>1, <1>2 DEF MInv

(* The loop ends.                                                          *)
LEMMA ReconnectExitInv ==
    ASSUME MInv, ReconnectExit
    PROVE  MInv'
<1>1. LoopInv'
  BY DEF MInv, LoopInv, ReconnectExit, unitVars, readVars, connVars, stopVars
<1>2. TypeOK' /\ StopInv' /\ TableInv' /\ NoOrphanReader' /\ NoConnectionLeak'
      /\ NoDeafConnection'
  BY DEF MInv, TypeOK, StopInv, TableInv, NoOrphanReader, NoConnectionLeak,
        NoDeafConnection, Registered, Ending, Recorded, ReconnectExit,
        unitVars, readVars, connVars, stopVars
<1> QED
  BY <1>1, <1>2 DEF MInv

(* The bus refuses a connection.                                           *)
LEMMA DialFailsInv ==
    ASSUME MInv, DialFails
    PROVE  MInv'
<1>1. LoopInv'
  BY DEF MInv, LoopInv, DialFails, unitVars, readVars, connVars, stopVars
<1>2. TypeOK' /\ StopInv' /\ TableInv' /\ NoOrphanReader' /\ NoConnectionLeak'
      /\ NoDeafConnection'
  BY DEF MInv, TypeOK, StopInv, TableInv, NoOrphanReader, NoConnectionLeak,
        NoDeafConnection, Registered, Ending, Recorded, DialFails, unitVars,
        readVars, connVars, stopVars
<1> QED
  BY <1>1, <1>2 DEF MInv

(* A new connection is none that is open, so not the one in use.           *)
LEMMA DialInv ==
    ASSUME MInv, Dial
    PROVE  MInv'
<1>1. TypeOK'
  BY DEF MInv, TypeOK, Dial, unitVars, readVars, stopVars
<1>2. LoopInv'
  BY DEF MInv, LoopInv, StopInv, TypeOK, Dial, unitVars, readVars, stopVars
<1>3. StopInv'
  BY DEF MInv, StopInv, Registered, LoopInv, Dial, unitVars, readVars, stopVars
<1>4. NoConnectionLeak'
  BY DEF MInv, NoConnectionLeak, LoopInv, Dial, unitVars, readVars, stopVars
<1>5. NoDeafConnection'
  BY DEF MInv, NoDeafConnection, StopInv, Dial, unitVars, readVars, stopVars
<1>6. TableInv' /\ NoOrphanReader'
  BY DEF MInv, TableInv, NoOrphanReader, Registered, Ending, Recorded, Dial,
        unitVars, readVars, stopVars
<1> QED
  BY <1>1, <1>2, <1>3, <1>4, <1>5, <1>6 DEF MInv

(* The new connection is subscribed.                                       *)
LEMMA SubscribeInv ==
    ASSUME MInv, Subscribe
    PROVE  MInv'
<1>1. TypeOK'
  BY DEF MInv, TypeOK, LoopInv, Subscribe, unitVars, readVars, stopVars
<1>2. LoopInv'
  BY DEF MInv, LoopInv, Subscribe, unitVars, readVars, stopVars
<1>3. StopInv' /\ TableInv' /\ NoOrphanReader' /\ NoConnectionLeak' /\
      NoDeafConnection'
  BY DEF MInv, StopInv, TableInv, NoOrphanReader, NoConnectionLeak,
        NoDeafConnection, Registered, Ending, Recorded, Subscribe, unitVars,
        readVars, stopVars
<1> QED
  BY <1>1, <1>2, <1>3 DEF MInv

(* The new connection takes the place of the one that was in use.          *)
LEMMA SwapConnInv ==
    ASSUME MInv, SwapConn
    PROVE  MInv'
<1>1. fresh \in open
  BY DEF MInv, LoopInv, SwapConn
<1>2. TypeOK'
  BY DEF MInv, TypeOK, LoopInv, SwapConn, unitVars, readVars, stopVars
<1>3. LoopInv'
  BY DEF MInv, LoopInv, TypeOK, SwapConn, unitVars, readVars, stopVars
<1>4. StopInv'
  BY <1>1 DEF MInv, StopInv, Registered, LoopInv, SwapConn, unitVars, readVars,
        stopVars
<1>5. NoConnectionLeak'
  BY DEF MInv, NoConnectionLeak, LoopInv, TypeOK, SwapConn, unitVars, readVars,
        stopVars
<1>6. NoDeafConnection'
  BY DEF MInv, NoDeafConnection, LoopInv, SwapConn, unitVars, readVars,
        stopVars
<1>7. TableInv' /\ NoOrphanReader'
  BY DEF MInv, TableInv, NoOrphanReader, Registered, Ending, Recorded,
        SwapConn, unitVars, readVars, stopVars
<1> QED
  BY <1>2, <1>3, <1>4, <1>5, <1>6, <1>7 DEF MInv

(* The connection that was replaced is closed.                             *)
LEMMA CloseOldInv ==
    ASSUME MInv, CloseOld
    PROVE  MInv'
<1>1. TypeOK'
  BY DEF MInv, TypeOK, CloseOld, unitVars, readVars, stopVars
<1>2. LoopInv'
  BY DEF MInv, LoopInv, CloseOld, unitVars, readVars, stopVars
<1>3. StopInv'
  BY DEF MInv, StopInv, Registered, LoopInv, CloseOld, unitVars, readVars,
        stopVars
<1>4. NoConnectionLeak'
  BY DEF MInv, NoConnectionLeak, LoopInv, CloseOld, unitVars, readVars,
        stopVars
<1>5. TableInv' /\ NoOrphanReader' /\ NoDeafConnection'
  BY DEF MInv, TableInv, NoOrphanReader, NoDeafConnection, Registered, Ending,
        Recorded, CloseOld, unitVars, readVars, stopVars
<1> QED
  BY <1>1, <1>2, <1>3, <1>4, <1>5 DEF MInv

(* Stop cancels the context of every reader.                               *)
LEMMA StopCancelsInv ==
    ASSUME MInv, StopCancels
    PROVE  MInv'
<1>1. NoOrphanReader'
  BY DEF MInv, NoOrphanReader, Ending, Recorded, Registered, StopCancels,
        unitVars, readVars, connVars, loopVars
<1>2. TypeOK' /\ LoopInv' /\ StopInv' /\ TableInv' /\ NoConnectionLeak' /\
      NoDeafConnection'
  BY DEF MInv, TypeOK, LoopInv, StopInv, TableInv, NoConnectionLeak,
        NoDeafConnection, Registered, StopCancels, unitVars, readVars,
        connVars, loopVars
<1> QED
  BY <1>1, <1>2 DEF MInv

(* Stop has joined the loop.                                               *)
LEMMA StopJoinsInv ==
    ASSUME MInv, StopJoins
    PROVE  MInv'
<1>1. TypeOK' /\ LoopInv' /\ StopInv' /\ TableInv' /\ NoOrphanReader' /\
      NoConnectionLeak' /\ NoDeafConnection'
  BY DEF MInv, TypeOK, LoopInv, StopInv, TableInv, NoOrphanReader,
        NoConnectionLeak, NoDeafConnection, Registered, Ending, Recorded,
        StopJoins, unitVars, readVars, connVars, loopVars
<1> QED
  BY <1>1 DEF MInv

(* Stop refuses further readers and empties the table.                     *)
LEMMA StopRefusesInv ==
    ASSUME MInv, StopRefuses
    PROVE  MInv'
<1>1. TypeOK'
  BY DEF MInv, TypeOK, Recorded, Registered, StopRefuses, readVars, connVars,
        loopVars
<1>2. TableInv'
  BY DEF MInv, TableInv, Registered, StopRefuses, readVars, connVars, loopVars
<1>3. NoOrphanReader'
  BY DEF MInv, NoOrphanReader, Ending, Recorded, Registered, StopRefuses,
        readVars, connVars, loopVars
<1>4. LoopInv' /\ StopInv' /\ NoConnectionLeak' /\ NoDeafConnection'
  BY DEF MInv, LoopInv, StopInv, NoConnectionLeak, NoDeafConnection,
        Registered, StopRefuses, readVars, connVars, loopVars
<1> QED
  BY <1>1, <1>2, <1>3, <1>4 DEF MInv

(* Stop has waited for every reader.                                       *)
LEMMA StopWaitsInv ==
    ASSUME MInv, StopWaits
    PROVE  MInv'
<1>1. TypeOK' /\ LoopInv' /\ StopInv' /\ TableInv' /\ NoOrphanReader' /\
      NoConnectionLeak' /\ NoDeafConnection'
  BY DEF MInv, TypeOK, LoopInv, StopInv, TableInv, NoOrphanReader,
        NoConnectionLeak, NoDeafConnection, Registered, Ending, Recorded,
        StopWaits, unitVars, readVars, connVars, loopVars
<1> QED
  BY <1>1 DEF MInv

(* Stop closes the connection in use.                                      *)
LEMMA StopClosesInv ==
    ASSUME MInv, StopCloses
    PROVE  MInv'
<1>1. TypeOK'
  BY DEF MInv, TypeOK, StopCloses, unitVars, readVars, loopVars
<1>2. LoopInv' /\ StopInv' /\ TableInv' /\ NoOrphanReader' /\ NoConnectionLeak'
      /\ NoDeafConnection'
  BY DEF MInv, LoopInv, StopInv, TableInv, NoOrphanReader, NoConnectionLeak,
        NoDeafConnection, Registered, Ending, Recorded, StopCloses, unitVars,
        readVars, loopVars
<1> QED
  BY <1>1, <1>2 DEF MInv
(* A new Manager has no unit, no reader and one connection.                *)
LEMMA InitMInv == Init => MInv
  BY DEF Init, MInv, TypeOK, LoopInv, StopInv, TableInv, NoOrphanReader,
        NoConnectionLeak, NoDeafConnection, Registered

(* Every step preserves MInv.                                              *)
LEMMA NextMInv == MInv /\ [Next]_mvars => MInv'
<1> SUFFICES ASSUME MInv, [Next]_mvars PROVE MInv'
  OBVIOUS
<1>1. CASE \E u \in Units : RegisterUnit(u) \/ UnregisterUnit(u)
  BY <1>1, RegisterUnitInv, UnregisterUnitInv
<1>2. CASE \E r \in Readers : ReaderStep(r)
  BY <1>2, StreamLogsInv, StreamLogsFailsInv, StartJournalReaderInv,
        CancelReaderInv, ReaderExitsInv DEF ReaderStep
<1>3. CASE \E c \in Conns : Drop(c)
  BY <1>3, DropInv
<1>4. CASE LoopStep
  BY <1>4, ReconnectTickInv, ReconnectExitInv, DialFailsInv, DialInv,
        SubscribeInv, SwapConnInv, CloseOldInv DEF LoopStep
<1>5. CASE StopStep
  BY <1>5, StopCancelsInv, StopJoinsInv, StopRefusesInv, StopWaitsInv,
        StopClosesInv DEF StopStep
<1>6. CASE UNCHANGED mvars
  BY <1>6 DEF MInv, TypeOK, LoopInv, StopInv, TableInv, NoOrphanReader,
        NoConnectionLeak, NoDeafConnection, Registered, Recorded, Ending, mvars,
        unitVars, readVars, connVars, loopVars, stopVars
<1> QED
  BY <1>1, <1>2, <1>3, <1>4, <1>5, <1>6 DEF Next

(* MInv is an invariant of every Manager.                                  *)
THEOREM ManagerInvariant == Spec => []MInv
  BY InitMInv, NextMInv, PTL DEF Spec

(* No registration, replacement or shutdown leaves a journal reader that   *)
(* nothing can stop (startJournalReader).                                  *)
THEOREM ReadersAccountedFor == Spec => []NoOrphanReader
<1>1. MInv => NoOrphanReader
  BY DEF MInv
<1> QED
  BY <1>1, ManagerInvariant, PTL

(* Stop leaves nothing behind (Manager.Stop).                              *)
THEOREM CleanStop == Spec => []StoppedIsClean
<1>1. MInv => StoppedIsClean
  BY DEF MInv, TypeOK, LoopInv, StopInv, NoConnectionLeak, StoppedIsClean
<1> QED
  BY <1>1, ManagerInvariant, PTL

(* Every connection the Manager makes is in use, about to be, or about to  *)
(* be closed (setConn).                                                    *)
THEOREM ConnectionsAccountedFor == Spec => []NoConnectionLeak
<1>1. MInv => NoConnectionLeak
  BY DEF MInv
<1> QED
  BY <1>1, ManagerInvariant, PTL
(* The connection in use was subscribed before it came into use, or asked  *)
(* to be (tryReconnect).                                                   *)
THEOREM ConnectionHears == Spec => []NoDeafConnection
<1>1. MInv => NoDeafConnection
  BY DEF MInv
<1> QED
  BY <1>1, ManagerInvariant, PTL

-----------------------------------------------------------------------------
(* A reader that runs and that nobody is about to end.                     *)
Live(r) == reader[r] = "running" /\ ~Ending(r) /\ r \notin doomed

(* A unit's logs are streamed once: two StreamLogs calls for one unit, on  *)
(* whichever of its registrations, never leave two readers alive - each    *)
(* line of the journal would reach the task's log twice.                   *)
StreamedOnce == \A r, s \in Readers :
    Live(r) /\ Live(s) /\ unitOf[r] = unitOf[s] => r = s

(* A unit that is not registered is not streamed, whichever StreamLogs     *)
(* calls were on their way when it was unregistered.                       *)
UnregisteredIsSilent == \A r \in Readers :
    Live(r) => unitOf[r] \in Units /\ Registered(unitOf[r])

(* The connection Stop closes is the last one: once Stop has joined the    *)
(* loops no reconnect under way puts another in its place (tryReconnect,   *)
(* setConn), and before that one connection only gives way to another that *)
(* is open and subscribed, and is then closed by the loop.                 *)
ConnectionsSucceed ==
    [][conn' # conn => /\ stop \in {"up", "join"}
                       /\ conn' \in open' \cap subscribed'
                       /\ old' = conn /\ conn \in open']_mvars

(* Whoever Stop has told to refuse readers starts none: the readers it     *)
(* waits for only become fewer, so that its wait is not for ever renewed.  *)
ReadersOnlyEnd ==
    [][stopping => \A r \in Readers : reader'[r] = "running" => reader[r] = "running"
      ]_mvars

(* The entry of a unit records a reader of that unit only, and nobody can  *)
(* cancel a reader that has not started.                                   *)
RecordedInv ==
    /\ \A u \in Units : \A r \in Recorded(u) : unitOf[r] = u
    /\ \A r \in Readers : reader[r] = "open" =>
           /\ r \notin doomed \cup cancelled
           /\ \A u \in Units : r \notin Recorded(u)

(* One unit's calls never end another unit's stream: a reader stops being  *)
(* alive only as its own unit's entry is replaced or dropped, as another   *)
(* reader of the same unit takes over, or as the Manager stops.            *)
StreamsApart ==
    [][\A r \in Readers : Live(r) /\ ~Live(r)' =>
          \/ stop' # "up"
          \/ units'[unitOf[r]] # units[unitOf[r]]
          \/ \E s \in Readers \ {r} : Live(s)' /\ unitOf'[s] = unitOf[r]]_mvars

(* RegisterUnit and startJournalReader hand over a unit's reader.          *)
THEOREM StreamsOnce == Spec => [](StreamedOnce /\ UnregisteredIsSilent)
<1>1. MInv => StreamedOnce /\ UnregisteredIsSilent
  BY DEF MInv, NoOrphanReader, TableInv, Recorded, Live, StreamedOnce,
         UnregisteredIsSilent
<1> QED
  BY <1>1, ManagerInvariant, PTL

(* Only setConn changes the connection in use.                             *)
THEOREM Succession == Spec => ConnectionsSucceed
<1>1. ASSUME MInv, [Next]_mvars, conn' # conn
      PROVE  /\ stop \in {"up", "join"}
             /\ conn' \in open' \cap subscribed'
             /\ old' = conn /\ conn \in open'
  <2>1. SwapConn
    BY <1>1 DEF Next, RegisterUnit, UnregisterUnit, ReaderStep, StreamLogs,
       StreamLogsFails, StartJournalReader, CancelReader, ReaderExits, Drop,
       LoopStep, ReconnectTick, ReconnectExit, DialFails, Dial, Subscribe, CloseOld,
       StopStep, StopCancels, StopJoins, StopRefuses, StopWaits, StopCloses, mvars,
       connVars
  <2> QED
    BY <1>1, <2>1 DEF SwapConn, MInv, TypeOK, LoopInv, StopInv
<1>2. MInv /\ [Next]_mvars =>
          [conn' # conn => /\ stop \in {"up", "join"}
                           /\ conn' \in open' \cap subscribed'
                           /\ old' = conn /\ conn \in open']_mvars
  BY <1>1
<1> QED
  BY ManagerInvariant, <1>2, PTL DEF Spec, ConnectionsSucceed

(* startJournalReader looks at stopping in the section that starts one.    *)
THEOREM NoLateReader == Spec => ReadersOnlyEnd
<1>1. ASSUME TypeOK, [Next]_mvars, stopping, NEW r \in Readers,
             reader'[r] = "running"
      PROVE  reader[r] = "running"
  <2>1. CASE \E s \in Readers : ReaderStep(s)
    BY <1>1, <2>1 DEF TypeOK, ReaderStep, StreamLogs, StreamLogsFails,
       StartJournalReader, CancelReader, ReaderExits
  <2>2. CASE reader' = reader
    BY <1>1, <2>2
  <2> QED
    BY <1>1, <2>1, <2>2 DEF Next, RegisterUnit, UnregisterUnit, Drop,
       LoopStep, ReconnectTick, ReconnectExit, DialFails, Dial, Subscribe, CloseOld,
       SwapConn, StopStep, StopCancels, StopJoins, StopRefuses, StopWaits,
       StopCloses, mvars, readVars
<1>2. MInv /\ [Next]_mvars =>
          [stopping => \A r \in Readers :
              reader'[r] = "running" => reader[r] = "running"]_mvars
  BY <1>1 DEF MInv
<1> QED
  BY ManagerInvariant, <1>2, PTL DEF Spec, ReadersOnlyEnd

(* RecordedInv is inductive: a reader is recorded as it starts, under the  *)
(* unit it streams, and streams another only once no entry records it.     *)
LEMMA NextRecorded ==
    ASSUME MInv, RecordedInv, [Next]_mvars
    PROVE  RecordedInv'
<1>1. ASSUME NEW u \in Units, RegisterUnit(u) PROVE RecordedInv'
  <2>1. PICK k \in Regs : /\ \A v \in Units : units[v] # k
                          /\ units' = [units EXCEPT ![u] = k]
                          /\ journal' = [journal EXCEPT ![k] = NoReader]
    BY <1>1 DEF RegisterUnit
  <2>2. units \in [Units -> Regs \cup {NoReg}] /\ journal \in [Regs -> Readers \cup {NoReader}]
        /\ unitOf' = unitOf /\ reader' = reader /\ cancelled' = cancelled
        /\ doomed' = doomed \cup Recorded(u)
    BY <1>1 DEF MInv, TypeOK, RegisterUnit, readVars
  <2> QED
    BY <2>1, <2>2 DEF RecordedInv, Recorded, Registered
<1>2. ASSUME NEW u \in Units, UnregisterUnit(u) PROVE RecordedInv'
  BY <1>2 DEF MInv, TypeOK, UnregisterUnit, readVars, RecordedInv, Recorded,
              Registered
<1>3. ASSUME NEW r \in Readers, NEW u \in Units, StreamLogs(r, u) PROVE RecordedInv'
  BY <1>3 DEF MInv, TypeOK, StreamLogs, unitVars, RecordedInv, Recorded, Registered
<1>4. ASSUME NEW r \in Readers, StartJournalReader(r) PROVE RecordedInv'
  <2>1. /\ unitOf[r] \in Units /\ units[unitOf[r]] \in Regs
        /\ \A u \in Units : units[u] = units[unitOf[r]] => u = unitOf[r]
    BY <1>4 DEF MInv, TypeOK, TableInv, Registered, StartJournalReader
  <2>2. /\ journal' = [journal EXCEPT ![units[unitOf[r]]] = r]
        /\ units' = units /\ unitOf' = unitOf /\ cancelled' = cancelled
        /\ reader' = [reader EXCEPT ![r] = "running"] /\ reader[r] = "open"
        /\ reader \in [Readers -> {"idle", "open", "running"}]
        /\ doomed' = doomed \cup Recorded(unitOf[r])
        /\ journal \in [Regs -> Readers \cup {NoReader}]
        /\ units \in [Units -> Regs \cup {NoReg}]
    BY <1>4 DEF StartJournalReader, MInv, TypeOK
  <2> QED
    BY <2>1, <2>2 DEF RecordedInv, Recorded, Registered
<1>5. CASE StopRefuses
  BY <1>5 DEF StopRefuses, readVars, RecordedInv, Recorded, Registered
<1>6. ASSUME NEW r \in Readers,
             CancelReader(r) \/ StreamLogsFails(r) \/ ReaderExits(r)
      PROVE  RecordedInv'
  BY <1>6 DEF CancelReader, StreamLogsFails, ReaderExits, unitVars, MInv, TypeOK,
              RecordedInv, Recorded, Registered
<1>7. CASE UNCHANGED <<unitVars, readVars>>
  BY <1>7 DEF unitVars, readVars, RecordedInv, Recorded, Registered
<1> QED
  BY <1>1, <1>2, <1>3, <1>4, <1>5, <1>6, <1>7 DEF Next, ReaderStep, Drop, LoopStep, ReconnectTick, ReconnectExit,
     DialFails, Dial, Subscribe, CloseOld, SwapConn, StopStep, StopCancels,
     StopJoins, StopWaits, StopCloses, mvars, unitVars, readVars

(* RegisterUnit, UnregisterUnit and StreamLogs of one unit leave the other *)
(* units' readers alone.                                                   *)
THEOREM StreamsKeptApart == Spec => StreamsApart
<1>1. Init => RecordedInv
  BY DEF Init, RecordedInv, Recorded, Registered
<1>2. Spec => []RecordedInv
  BY ManagerInvariant, <1>1, NextRecorded, PTL DEF Spec
<1>3. ASSUME MInv, RecordedInv, [Next]_mvars, NEW r \in Readers,
             Live(r), ~Live(r)', stop' = "up",
             units'[unitOf[r]] = units[unitOf[r]]
      PROVE  \E s \in Readers \ {r} : Live(s)' /\ unitOf'[s] = unitOf[r]
  <2>1. /\ unitOf[r] \in Units /\ r \in Recorded(unitOf[r])
        /\ stop = "up" /\ r \notin cancelled /\ reader[r] = "running"
        /\ r \notin doomed
    BY <1>3 DEF MInv, TableInv, NoOrphanReader, Live, Ending
  <2>2. \A u \in Units : r \in Recorded(u) => u = unitOf[r]
    BY <1>3 DEF RecordedInv
  <2>3. ASSUME NEW u \in Units, RegisterUnit(u) PROVE FALSE
    <3>1. units'[u] # units[u]
      BY <1>3, <2>3 DEF RegisterUnit, MInv, TypeOK
    <3>2. r \notin doomed'
      BY <1>3, <2>1, <2>2, <2>3, <3>1 DEF RegisterUnit
    <3> QED
      BY <1>3, <2>1, <2>3, <3>2 DEF RegisterUnit, Live, Ending, readVars
  <2>4. ASSUME NEW u \in Units, UnregisterUnit(u) PROVE FALSE
    <3>1. Recorded(u) # {} => units'[u] # units[u]
      BY <1>3, <2>4 DEF UnregisterUnit, MInv, TypeOK, Recorded, Registered
    <3>2. r \notin doomed'
      BY <1>3, <2>1, <2>2, <2>4, <3>1 DEF UnregisterUnit
    <3> QED
      BY <1>3, <2>1, <2>4, <3>2 DEF UnregisterUnit, Live, Ending, readVars
  <2>5. ASSUME NEW s \in Readers, StartJournalReader(s)
        PROVE  \E q \in Readers \ {r} : Live(q)' /\ unitOf'[q] = unitOf[r]
    <3>1. s # r /\ reader'[r] = "running" /\ unitOf[s] \in Units
      BY <1>3, <2>1, <2>5 DEF StartJournalReader, MInv, TypeOK, TableInv
    <3>2. unitOf[s] = unitOf[r]
      BY <1>3, <2>1, <2>2, <2>5, <3>1 DEF StartJournalReader, Live, Ending
    <3>3. /\ s \notin doomed \cup cancelled /\ s \notin Recorded(unitOf[s])
          /\ reader'[s] = "running"
      BY <1>3, <2>5, <3>1 DEF StartJournalReader, RecordedInv, MInv, TypeOK
    <3> QED
      BY <2>1, <2>5, <3>1, <3>2, <3>3 DEF StartJournalReader, Live, Ending, stopVars
  <2>6. ASSUME NEW s \in Readers,
               \/ \E u \in Units : StreamLogs(s, u)
               \/ StreamLogsFails(s) \/ CancelReader(s) \/ ReaderExits(s)
        PROVE  FALSE
    <3>1. s # r /\ doomed' \subseteq doomed
      BY <2>1, <2>6 DEF StreamLogs, StreamLogsFails, CancelReader, ReaderExits,
         unitVars, Ending
    <3>2. reader'[r] = "running" /\ r \notin cancelled'
      BY <1>3, <2>1, <2>6, <3>1 DEF StreamLogs, StreamLogsFails, CancelReader,
         ReaderExits, MInv, TypeOK
    <3> QED
      BY <1>3, <2>1, <3>1, <3>2 DEF Live, Ending
  <2>7. ~UNCHANGED <<doomed, readVars>>
    BY <1>3, <2>1 DEF readVars, Live, Ending
  <2> QED
    BY <1>3, <2>1, <2>3, <2>4, <2>5, <2>6, <2>7 DEF Next, ReaderStep, Drop, LoopStep,
     ReconnectTick, ReconnectExit, DialFails, Dial, Subscribe, CloseOld, SwapConn,
     StopStep, StopCancels, StopJoins, StopRefuses, StopWaits, StopCloses, mvars,
     unitVars
<1>4. MInv /\ RecordedInv /\ [Next]_mvars =>
          [\A r \in Readers : Live(r) /\ ~Live(r)' =>
              \/ stop' # "up"
              \/ units'[unitOf[r]] # units[unitOf[r]]
              \/ \E s \in Readers \ {r} : Live(s)' /\ unitOf'[s] = unitOf[r]]_mvars
  BY <1>3
<1> QED
  BY ManagerInvariant, <1>2, <1>4, PTL DEF Spec, StreamsApart
=============================================================================
