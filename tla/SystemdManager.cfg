SPECIFICATION FairSpec
CONSTANTS
    Units = {u1, u2}
    Regs = {k1, k2}
    Readers = {r1, r2}
    Conns = {n1, n2}
    NoReg = NoReg
    NoUnit = NoUnit
    NoReader = NoReader
    NoConn = NoConn
INVARIANTS NoOrphanReader StoppedIsClean NoConnectionLeak 
PROPERTIES StopReturns Reconnects
