SPECIFICATION Spec
CONSTANTS
    Keys = 2
    Subscriber = {s1}
    Buffers = {0}
    DoneCap = 1
    EventCap = 2
    RingCap = 1
    Width = 16
    MaxOpens = 2
    MaxTransfers = 1
    MaxRetransmits = 1
    MaxSnapshots = 3
INVARIANTS TypeOK DeliveryIsExact ListIsFair
PROPERTIES RatesAreTransfers
CHECK_DEADLOCK FALSE
