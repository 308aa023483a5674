SPECIFICATION Spec
CONSTANTS
    r1 = r1
    r2 = r2
    r3 = r3
    u1 = u1
    u2 = u2
    a = a
    b = b
    Request = {r1, r2, r3}
    User = {u1}
    SKU = {a}
    Owner <- OwnersAll1
    Mode <- TwoCodOneOnline
    Carts <- SmallCarts
    InitialStock <- Stock2
    MaxConfirms = 1
    MaxEdits = 0
    MaxCrashes = 1
    MaxExpiries = 1
    MaxScans = 1
INVARIANT CounterBounded
CHECK_DEADLOCK FALSE
