SPECIFICATION FSpec
CONSTANTS
    Calls = {c1, c2}
    Mgrs = {m1, m2}
    Tasks = {t1}
    Addrs = {a1}
    Units = {u1, u2}
    u1 = u1
    u2 = u2
    a1 = a1
    UnitOf <- MCUnitOf
    Configs <- MCConfigs
    NoMgr = NoMgr
    NoAddr = NoAddr
    NoPolicy = NoPolicy
INVARIANTS CurrentWorks NoManagerLost PprofListens ShutdownIsClean PermittedByPolicy
PROPERTIES ShutdownReturns ExitObservedUnlessReloaded StreamEnds HealthIsTold
CHECK_DEADLOCK FALSE
