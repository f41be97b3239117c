SPECIFICATION Spec
CONSTANTS
    p1 = p1
    gA = gA  gB = gB
    c1 = c1  c2 = c2
    s1 = s1
    Pid = {p1}
    NoPid = NoPid
    Cgroup = {gA, gB}
    ConnID = {c1, c2}
    NoConn = NoConn
    CgroupOf <- MCCgroupOf
    Group = {"queries_sql", "wal_transmission"}
    Session = {s1}
    NoSession = NoSession
    MaxEvents = 3
    RecentCap = 2
SYMMETRY MCSymmetry
INVARIANTS
    TypeOK
    CountingIsExact
    ListIsTrue
    LastIsNewest
    NothingResolvableWaits
    SessionIsOwn
PROPERTIES
    NothingIsTakenBack
