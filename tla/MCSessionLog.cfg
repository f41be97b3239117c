SPECIFICATION SessionSpec
CONSTANTS
    p1 = p1
    gA = gA
    c1 = c1  c2 = c2
    Pid = {p1}
    NoPid = NoPid
    Cgroup = {gA}
    ConnID = {c1, c2}
    NoConn = NoConn
    CgroupOf <- MCCgroupOf
    Group = {"queries_sql"}
    Session = {}
    NoSession = NoSession
    MaxEvents = 4
    RecentCap = 3
    Queries <- MCQueries
    HistoryLimit = 3
INVARIANTS
    SessionTypeOK
    LogAgreesWithTotals
    AtMostTwoLines
PROPERTIES
    LogCatchesUp
CHECK_DEADLOCK FALSE
