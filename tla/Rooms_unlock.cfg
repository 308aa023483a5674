\* A goal room that two orders unlock, linked and confirmed in every order.
SPECIFICATION FairSpec
CONSTANTS
    r1 = r1  r2 = r2  u1 = u1  u2 = u2  u3 = u3  c1 = c1  c2 = c2
    o1 = o1  o2 = o2  l1 = l1
    NoUser = NoUser  NoRoom = NoRoom
    Room = {r1}
    Discount = {}
    Size <- Places
    User = {u1, u2, u3}
    Host <- HostedByFirst
    Call = {}
    By <- Callers
    Order = {o1, o2}
    Customer <- OrderedByFirst
    Enough <- TwoOrSecond
    Cancels = {r1}
    Link = {l1, l2}
    LinkRoom <- LinkedRooms
    LinkOf <- LinkedOrders
    Expiry = {e1}
    MaxFaults = 1
INVARIANTS UnlockJustified UnlockedOrUnderway
PROPERTY UnlockedInTheEnd
