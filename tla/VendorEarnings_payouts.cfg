SPECIFICATION FairSpec
CONSTANTS
    v1 = v1
    o1 = o1
    o2 = o2
    j1 = j1
    j2 = j2
    d1 = d1
    d2 = d2
    k1 = k1
    k2 = k2
    w1 = w1
    a1 = a1
    t1 = t1
    Vendor = {v1}
    Order = {o1}
    OrderVendor <- OrdersOfOne
    OrderAmount <- TwoAndOne
    Job = {j1, j2}
    Request = {d1, d2, k1, w1}
    Kind <- KindByName
    RequestVendor <- RequestsOfOne
    RequestAmount <- OneEach
    Transfer <- OneTransfer
    Admin = {a1}
    MaxFaults = 1
INVARIANTS OverdrawnOnlyByRace TransferBookedOnce
PROPERTIES EarningsAreBooked RequestsFitUnlessCrossed SettledInTheEnd
CHECK_DEADLOCK FALSE
