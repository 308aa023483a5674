SPECIFICATION Spec
CONSTANTS
    o1 = o1
    o2 = o2
    c1 = c1
    c2 = c2
    k1 = k1
    k2 = k2
    v1 = v1
    m1 = m1
    a1 = a1
    q1 = q1
    w1 = w1
    p1 = p1
    Order = {o1}
    CoinsUsed <- OneCoin
    FirstStatus <- Single
    Provider = {p1}
    FirstProvider <- AllFirst
    NoProvider = NoProvider
    ConfirmCall = {c1, c2}
    ConfirmOf <- ConfirmFirst
    CancelCall = {k1, k2}
    VendorCall = {v1}
    MoveCall = {m1}
    AdminCall = {a1}
    PayCall = {}
    Target <- OnFirst
    Worker = {}
    AdminTargets = {"OUT_FOR_INSPECTION"}
    MaxMoves = 1
    MaxCrashes = 1
    MaxErrors = 1
SYMMETRY Alike
INVARIANTS DeductedOnce ChargedOnce CoinsBackTwiceOnlyByRace RestoredWasTakenUnlessLoose
CHECK_DEADLOCK FALSE
