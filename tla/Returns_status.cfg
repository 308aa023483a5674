SPECIFICATION Spec
CONSTANTS
    r1 = r1
    r2 = r2
    x = x
    y = y
    q1 = q1
    q2 = q2
    v1 = v1
    d1 = d1
    d2 = d2
    b1 = b1
    Return = {r1, r2}
    Product = {x, y}
    Variant = {y}
    Stock <- StockByName
    Items <- ItemsByName
    Call = {q1, q2, d1, d2, b1, v1}
    Kind <- KindByName
    Target <- TargetByName
    Asked <- AskedByName
    MaxFaults = 1
INVARIANTS  ServedOrUnderway UnitsTakenOnce RefundedTwiceOnlyByRace RestockedTwiceOnlyByRace
CHECK_DEADLOCK FALSE
