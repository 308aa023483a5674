SPECIFICATION Spec
CONSTANTS
    r1 = r1
    r2 = r2
    r3 = r3
    u1 = u1
    u2 = u2
    a = a
    b = b
    Request = {r1, r2}
    User = {u1, u2}
    SKU = {a, b}
    Owner <- OwnersApart
    Mode <- CodAndOnline
    Carts <- UnequalCarts
    InitialStock <- Stock2
    MaxConfirms = 2
    MaxEdits = 1
    MaxCrashes = 1
    MaxExpiries = 0
    MaxScans = 0
INVARIANTS StockNeverNegative UnitsConserved
PROPERTY SalesAreAtomic
CHECK_DEADLOCK FALSE
