SPECIFICATION FairSpec
CONSTANTS
    Putters = {p1, p2}
    Getters = {g1}
    Exiters = {x1}
    Removers = {r1}
    Data = {d1, d2, d3}
    NoOne = NoOne
    NoData = NoData
INVARIANTS TypeOK FifoOrder NoLostWakeup
PROPERTIES DataArrives ExitReleases ImplementsFairFifo
CHECK_DEADLOCK FALSE
