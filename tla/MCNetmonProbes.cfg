SPECIFICATION Spec
CONSTANTS
    a1 = a1  a2 = a2
    s1 = s1  s2 = s2
    k1 = k1  k2 = k2
    e1 = e1  e2 = e2  e3 = e3
    Actor = {a1, a2}
    Socket = {s1, s2}
    Client = {s1}
    Key = {k1, k2, NoPort}
    NoPort = NoPort
    Keyings <- MCKeyings
    Other = Other
    Slot = {e1, e2, e3}
    NoSlot = NoSlot
    MaxTransfers = 2
SYMMETRY MCSymmetry
INVARIANTS
    TypeOK
    OnlyRacesLose
    EventsAreExact
    EntriesHaveSockets
    StateIsCurrent
CHECK_DEADLOCK FALSE
CONSTRAINTS Telling CalmLoading FewTransfers
