SPECIFICATION FairSpec
CONSTANTS
    r1 = r1
    r2 = r2
    r3 = r3
    u1 = u1
    u2 = u2
    a = a
    b = b
    Request = {r1, r2}
    User = {u1, u2}
    SKU = {a, b}
    Owner <- OwnersApart
    Mode <- CodAndOnline
    Carts <- CrossedCarts
    InitialStock <- Stock2
    MaxConfirms = 1
    MaxEdits = 0
    MaxCrashes = 0
    MaxExpiries = 4
    MaxScans = 0
PROPERTIES CallsEnd CounterDrains
CHECK_DEADLOCK FALSE
