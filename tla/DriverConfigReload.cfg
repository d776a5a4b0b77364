SPECIFICATION FairSpec
CONSTANTS
    Calls = {c1}
    Mgrs = {m1, m2}
    Tasks = {t1}
    Addrs = {a1}
    NoMgr = NoMgr
    NoAddr = NoAddr
PROPERTIES ExitObserved
CHECK_DEADLOCK FALSE
