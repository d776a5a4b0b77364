--------------------------- MODULE SystemdManager ---------------------------
(***************************************************************************)
(* The Manager (pkg/systemd): the table of registered units, the journal   *)
(* readers StreamLogs starts for them, the loop that replaces a dropped    *)
(* DBus connection, and Stop, which ends all of it while calls on the      *)
(* Manager are still coming in.                                            *)
(*                                                                         *)
(* A step is a section under unitsLock or connLock, a DBus call, or the    *)
(* end of a goroutine.  A call that goes on to cancel a journal reader     *)
(* outside the lock is in no other way bound to what happens meanwhile, so *)
(* all that is kept of it is the reader.                                   *)
(***************************************************************************)
CONSTANTS Units,        \* unit names
          Regs,         \* entries of the table of units
          Readers,      \* StreamLogs calls and the reader goroutines they start
          Conns,        \* DBus connections
          NoReg, NoUnit, NoReader, NoConn

ASSUME NoneAssumption == /\ NoReg \notin Regs /\ NoUnit \notin Units
                         /\ NoReader \notin Readers /\ NoConn \notin Conns

VARIABLES
    units,      \* Manager.units: the entry of each unit, or NoReg
    journal,    \* unitState.cancelJournal of each entry: whose cancel it is
    reader,     \* program counter of each StreamLogs call and reader
    unitOf,     \* the unit it streams
    doomed,     \* readers a goroutine is about to cancel
    cancelled,  \* readers whose context was cancelled
    conn,       \* Manager.conn
    open,       \* connections not closed
    connected,  \* connections systemd has not dropped
    subscribed, \* connections that asked for signals, or were refused
    loop,       \* program counter of reconnectLoop
    fresh,      \* the connection it dialled and has not put in place
    old,        \* the connection it replaced and has not closed
    stop,       \* program counter of Manager.Stop
    stopping    \* Manager.stopping

unitVars == <<units, journal, doomed>>
readVars == <<reader, unitOf, cancelled>>
connVars == <<conn, open, connected, subscribed>>
loopVars == <<loop, fresh, old>>
stopVars == <<stop, stopping>>
mvars == <<unitVars, readVars, connVars, loopVars, stopVars>>

TypeOK == /\ units \in [Units -> Regs \cup {NoReg}]
          /\ journal \in [Regs -> Readers \cup {NoReader}]
          /\ reader \in [Readers -> {"idle", "open", "running"}]
          /\ unitOf \in [Readers -> Units \cup {NoUnit}]
          /\ doomed \subseteq Readers
          /\ cancelled \subseteq Readers
          /\ conn \in Conns
          /\ open \subseteq Conns
          /\ connected \subseteq Conns
          /\ subscribed \subseteq Conns
          /\ loop \in {"wait", "dial", "subscribe", "swap", "close", "done"}
          /\ fresh \in Conns \cup {NoConn}
          /\ old \in Conns \cup {NoConn}
          /\ stop \in {"up", "join", "refuse", "wait", "close", "stopped"}
          /\ stopping \in BOOLEAN

(* NewManager subscribes the connection it made; Start runs the loops.     *)
Init == /\ units = [u \in Units |-> NoReg]
        /\ journal = [k \in Regs |-> NoReader]
        /\ reader = [r \in Readers |-> "idle"]
        /\ unitOf = [r \in Readers |-> NoUnit]
        /\ doomed = {}
        /\ cancelled = {}
        /\ conn \in Conns
        /\ open = {conn}
        /\ connected = {conn}
        /\ subscribed = {conn}
        /\ loop = "wait"
        /\ fresh = NoConn
        /\ old = NoConn
        /\ stop = "up"
        /\ stopping = FALSE

-----------------------------------------------------------------------------
Registered(u) == units[u] # NoReg
Recorded(u) == IF Registered(u) THEN {journal[units[u]]} \ {NoReader} ELSE {}

(* Mutant: the previous entry's reader is left running.                    *)
RegisterUnitKeepsReader(u) ==
    /\ \E k \in Regs \ {units[v] : v \in Units} :
          /\ units' = [units EXCEPT ![u] = k]
          /\ journal' = [journal EXCEPT ![k] = NoReader]
    /\ UNCHANGED <<doomed, readVars, connVars, loopVars, stopVars>>

(* Registering again abandons the previous entry; its reader is cancelled  *)
(* once the lock is released.  The cached cgroup path, re-read on demand   *)
(* by ResourceStats, is not modelled.                                      *)
RegisterUnit(u) ==
    /\ \E k \in Regs \ {units[v] : v \in Units} :
          /\ units' = [units EXCEPT ![u] = k]
          /\ journal' = [journal EXCEPT ![k] = NoReader]
    /\ doomed' = doomed \cup Recorded(u)
    /\ UNCHANGED <<readVars, connVars, loopVars, stopVars>>

UnregisterUnit(u) ==
    /\ units' = [units EXCEPT ![u] = NoReg]
    /\ doomed' = doomed \cup Recorded(u)
    /\ UNCHANGED <<journal, readVars, connVars, loopVars, stopVars>>

CancelReader(r) ==
    /\ r \in doomed
    /\ doomed' = doomed \ {r}
    /\ cancelled' = cancelled \cup {r}
    /\ UNCHANGED <<units, journal, reader, unitOf, connVars, loopVars, stopVars>>

-----------------------------------------------------------------------------
(* StreamLogs: the pre-check, then - the journal opened - the section of   *)
(* startJournalReader.  A reader's identity is given out again only when   *)
(* nobody can cancel it any more.                                          *)
StreamLogs(r, u) ==
    /\ reader[r] = "idle"
    /\ r \notin doomed
    /\ \A v \in Units : r \notin Recorded(v)
    /\ Registered(u)
    /\ reader' = [reader EXCEPT ![r] = "open"]
    /\ unitOf' = [unitOf EXCEPT ![r] = u]
    /\ cancelled' = cancelled \ {r}
    /\ UNCHANGED <<unitVars, connVars, loopVars, stopVars>>

(* The journal cannot be opened or matched, the unit was unregistered, or  *)
(* the Manager is stopping.                                                *)
StreamLogsFails(r) ==
    /\ reader[r] = "open"
    /\ reader' = [reader EXCEPT ![r] = "idle"]
    /\ UNCHANGED <<unitVars, unitOf, cancelled, connVars, loopVars, stopVars>>

StartJournalReader(r) ==
    /\ reader[r] = "open"
    /\ ~stopping
    /\ Registered(unitOf[r])
    /\ reader' = [reader EXCEPT ![r] = "running"]
    /\ journal' = [journal EXCEPT ![units[unitOf[r]]] = r]
    /\ doomed' = doomed \cup Recorded(unitOf[r])
    /\ UNCHANGED <<units, unitOf, cancelled, connVars, loopVars, stopVars>>

(* A reader's context is a child of the Manager's, which Stop cancels.     *)
Ending(r) == r \in cancelled \/ stop # "up"

ReaderExits(r) ==
    /\ reader[r] = "running"
    /\ Ending(r)
    /\ reader' = [reader EXCEPT ![r] = "idle"]
    /\ UNCHANGED <<unitVars, unitOf, cancelled, connVars, loopVars, stopVars>>

-----------------------------------------------------------------------------
(* systemd drops a connection.                                             *)
Drop(c) ==
    /\ c \in connected
    /\ connected' = connected \ {c}
    /\ UNCHANGED <<unitVars, readVars, conn, open, subscribed, loopVars, stopVars>>

Healthy == conn \in connected \cap open

(* reconnectLoop: a tick that finds the connection unhealthy dials.        *)
ReconnectTick ==
    /\ loop = "wait"
    /\ ~Healthy
    /\ loop' = "dial"
    /\ UNCHANGED <<unitVars, readVars, connVars, fresh, old, stopVars>>

(* Mutant: a loop that is told to end repairs the connection first.        *)
ReconnectExitHealthy ==
    /\ loop = "wait"
    /\ stop # "up" /\ Healthy
    /\ loop' = "done"
    /\ UNCHANGED <<unitVars, readVars, connVars, fresh, old, stopVars>>

ReconnectExit ==
    /\ loop = "wait"
    /\ stop # "up"
    /\ loop' = "done"
    /\ UNCHANGED <<unitVars, readVars, connVars, fresh, old, stopVars>>

(* Mutant: the first failed dial ends the loop.                            *)
DialGivesUp ==
    /\ loop = "dial"
    /\ loop' = "done"
    /\ UNCHANGED <<unitVars, readVars, connVars, fresh, old, stopVars>>

DialFails ==
    /\ loop = "dial"
    /\ loop' = "wait"
    /\ UNCHANGED <<unitVars, readVars, connVars, fresh, old, stopVars>>

Dial ==
    /\ loop = "dial"
    /\ \E c \in Conns \ open :
          /\ fresh' = c
          /\ open' = open \cup {c}
          /\ connected' = connected \cup {c}
          /\ subscribed' = subscribed \ {c}
    /\ loop' = "subscribe"
    /\ UNCHANGED <<unitVars, readVars, conn, old, stopVars>>

Subscribe ==
    /\ loop = "subscribe"
    /\ subscribed' = subscribed \cup {fresh}
    /\ loop' = "swap"
    /\ UNCHANGED <<unitVars, readVars, conn, open, connected, fresh, old, stopVars>>

(* Mutant: setConn forgets the connection it replaced.                     *)
SwapConnForgets ==
    /\ loop = "swap"
    /\ conn' = fresh
    /\ fresh' = NoConn
    /\ loop' = "wait"
    /\ UNCHANGED <<unitVars, readVars, open, connected, subscribed, old, stopVars>>

(* Mutant: the connection is put in use before it is subscribed.           *)
SwapConnEarly ==
    /\ loop \in {"subscribe", "swap"}
    /\ conn' = fresh
    /\ old' = conn
    /\ fresh' = NoConn
    /\ loop' = "close"
    /\ UNCHANGED <<unitVars, readVars, open, connected, subscribed, stopVars>>

(* setConn: the swap, under connLock, and then the replaced connection's   *)
(* Close.                                                                  *)
SwapConn ==
    /\ loop = "swap"
    /\ conn' = fresh
    /\ old' = conn
    /\ fresh' = NoConn
    /\ loop' = "close"
    /\ UNCHANGED <<unitVars, readVars, open, connected, subscribed, stopVars>>

CloseOld ==
    /\ loop = "close"
    /\ open' = open \ {old}
    /\ old' = NoConn
    /\ loop' = "wait"
    /\ UNCHANGED <<unitVars, readVars, conn, connected, subscribed, fresh, stopVars>>

-----------------------------------------------------------------------------
(* Manager.Stop: cancel the Manager's context and join its loops; refuse   *)
(* further readers and empty the table; cancel the readers and wait for    *)
(* them; close the connection.                                             *)
StopCancels ==
    /\ stop = "up"
    /\ stop' = "join"
    /\ UNCHANGED <<unitVars, readVars, connVars, loopVars, stopping>>

StopJoins ==
    /\ stop = "join"
    /\ loop = "done"
    /\ stop' = "refuse"
    /\ UNCHANGED <<unitVars, readVars, connVars, loopVars, stopping>>

StopRefuses ==
    /\ stop = "refuse"
    /\ stopping' = TRUE
    /\ units' = [u \in Units |-> NoReg]
    /\ doomed' = doomed \cup UNION {Recorded(u) : u \in Units}
    /\ stop' = "wait"
    /\ UNCHANGED <<journal, readVars, connVars, loopVars>>

(* Mutant: Stop does not wait for the journal readers.                     *)
StopHurries ==
    /\ stop = "wait"
    /\ stop' = "close"
    /\ UNCHANGED <<unitVars, readVars, connVars, loopVars, stopping>>

StopWaits ==
    /\ stop = "wait"
    /\ \A r \in Readers : reader[r] # "running"
    /\ stop' = "close"
    /\ UNCHANGED <<unitVars, readVars, connVars, loopVars, stopping>>

StopCloses ==
    /\ stop = "close"
    /\ open' = open \ {conn}
    /\ stop' = "stopped"
    /\ UNCHANGED <<unitVars, readVars, conn, connected, subscribed, loopVars,
                   stopping>>

ReaderStep(r) == \/ \E u \in Units : StreamLogs(r, u)
                 \/ StreamLogsFails(r) \/ StartJournalReader(r)
                 \/ CancelReader(r) \/ ReaderExits(r)

LoopStep == \/ ReconnectTick \/ ReconnectExit \/ DialFails \/ Dial
            \/ Subscribe \/ SwapConn \/ CloseOld

StopStep == StopCancels \/ StopJoins \/ StopRefuses \/ StopWaits \/ StopCloses

Next == \/ \E u \in Units : RegisterUnit(u) \/ UnregisterUnit(u)
        \/ \E r \in Readers : ReaderStep(r)
        \/ \E c \in Conns : Drop(c)
        \/ LoopStep
        \/ StopStep

Spec == Init /\ [][Next]_mvars

(* Goroutines that can run do; a reader's waits are bounded and end with   *)
(* its context; a tick finds ctx.Done ready again and again once Stop has  *)
(* cancelled, and systemd's bus accepts a connection in the end.           *)
Fairness == /\ WF_mvars(ReconnectTick) /\ SF_mvars(ReconnectExit)
            /\ WF_mvars(DialFails \/ Dial) /\ SF_mvars(Dial)
            /\ WF_mvars(Subscribe) /\ WF_mvars(SwapConn) /\ WF_mvars(CloseOld)
            /\ WF_mvars(StopJoins) /\ WF_mvars(StopRefuses)
            /\ WF_mvars(StopWaits) /\ WF_mvars(StopCloses)
            /\ \A r \in Readers :
                  /\ WF_mvars(CancelReader(r))
                  /\ WF_mvars(ReaderExits(r))

FairSpec == Spec /\ Fairness

-----------------------------------------------------------------------------
(* No journal reader is orphaned: one that runs and is not about to end is *)
(* the reader its unit's current entry records, so unregistering the unit  *)
(* stops it - whatever registrations, replacements and shutdown it raced   *)
(* (RegisterUnit, UnregisterUnit, startJournalReader).  In particular a    *)
(* unit has at most one such reader, and its logs are streamed once.       *)
NoOrphanReader == \A r \in Readers :
    reader[r] = "running" /\ ~Ending(r) /\ r \notin doomed =>
        r \in Recorded(unitOf[r])

(* Once Stop has returned nothing the Manager owns is left: no reader, no  *)
(* loop and no connection, although StreamLogs and RegisterUnit calls may  *)
(* still come in and a reconnect may have been under way (Stop,            *)
(* startJournalReader, tryReconnect).                                      *)
StoppedIsClean ==
    stop = "stopped" => /\ \A r \in Readers : reader[r] # "running"
                        /\ loop = "done"
                        /\ open = {}

(* Every connection made is closed: only the current one, and the one that *)
(* takes its place or that it replaced, is open (setConn).                 *)
NoConnectionLeak == open \subseteq {conn, fresh, old}

(* No window in which the connection in use delivers no signals because it *)
(* was not subscribed yet (tryReconnect).                                  *)
NoDeafConnection == conn \in subscribed

(* Manager.Stop returns, however readers, calls and reconnects interleave. *)
StopReturns == stop # "up" ~> stop = "stopped"

(* A Manager whose connection drops re-establishes it on its own: unless   *)
(* systemd drops connections for ever, it is healthy from some point on.   *)
Reconnects ==
    [](stop = "up") /\ <>[][\A c \in Conns : ~Drop(c)]_mvars => <>[]Healthy

-----------------------------------------------------------------------------
(* Why the safety properties hold.  The loop is the only one to make and   *)
(* replace connections, and none it holds is the one in use.               *)
LoopInv ==
    /\ fresh # NoConn <=> loop \in {"subscribe", "swap"}
    /\ old # NoConn <=> loop = "close"
    /\ conn \notin {fresh, old}
    /\ fresh # NoConn => fresh \in open
    /\ loop = "swap" => fresh \in subscribed

(* How far Stop is, and what is gone by then.                              *)
StopInv ==
    /\ loop = "done" => stop # "up"
    /\ stop \notin {"up", "join"} => loop = "done"
    /\ stopping <=> stop \in {"wait", "close", "stopped"}
    /\ stop \in {"close", "stopped"} => \A r \in Readers : reader[r] # "running"
    /\ conn \in open <=> stop # "stopped"

(* Entries belong to one unit each, and readers to a unit.                 *)
TableInv ==
    /\ \A u, v \in Units : Registered(u) /\ units[u] = units[v] => u = v
    /\ \A r \in Readers : reader[r] # "idle" => unitOf[r] \in Units

(* The inductive invariant of a Manager.                                   *)
MInv == /\ TypeOK /\ LoopInv /\ StopInv /\ TableInv
        /\ NoOrphanReader /\ NoConnectionLeak /\ NoDeafConnection
=============================================================================
