SPECIFICATION FairSpec
CONSTANTS
    o1 = o1
    o2 = o2
    c1 = c1
    c2 = c2
    k1 = k1
    k2 = k2
    v1 = v1
    m1 = m1
    a1 = a1
    q1 = q1
    w1 = w1
    p1 = p1
    Order = {o1, o2}
    CoinsUsed <- OneCoin
    FirstStatus <- Group
    Provider = {p1, q1}
    FirstProvider <- AllFirst
    NoProvider = NoProvider
    ConfirmCall = {c1}
    ConfirmOf <- ConfirmFirst
    CancelCall = {k1}
    VendorCall = {}
    MoveCall = {}
    AdminCall = {}
    PayCall = {q1}
    Target <- OnFirst
    Worker = {w1}
    AdminTargets = {"DELIVERED"}
    MaxMoves = 1
    MaxCrashes = 1
    MaxErrors = 0
INVARIANTS PaidMeansCaptured CompletedIsTrue
PROPERTY CaptureRecorded
CHECK_DEADLOCK FALSE
