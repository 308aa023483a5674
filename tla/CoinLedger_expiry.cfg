SPECIFICATION FairSpec
CONSTANTS
    u1 = u1
    c1 = c1
    c2 = c2
    b1 = b1
    b2 = b2
    f1 = f1
    a1 = a1
    g1 = g1
    v1 = v1
    r1 = r1
    s1 = s1
    s2 = s2
    NoRow = NoRow
    User = {u1}
    Call = {c1, b1, f1, a1, v1, g1, r1}
    Kind <- Kind1
    CallUser <- OneUser
    Amount <- Amount1
    RefundOf <- RefundOfB1
    Sweep = {s1, s2}
    MaxFaults = 1
INVARIANTS NegativeOnlyByRace BalanceIsLedger
PROPERTY ExpiresInTheEnd
CHECK_DEADLOCK FALSE
