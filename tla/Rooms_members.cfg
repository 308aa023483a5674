\* A discount room and an administrator's goal room, and their racing members.
SPECIFICATION Spec
CONSTANTS
    r1 = r1  r2 = r2  u1 = u1  u2 = u2  u3 = u3  c1 = c1  c2 = c2
    o1 = o1  o2 = o2  l1 = l1
    NoUser = NoUser  NoRoom = NoRoom
    Room = {r1, r2}
    Discount = {r1}
    Size <- Places
    User = {u1, u2, u3}
    Host <- HostedByFirst
    Call = {c1, c2, c3, c4}
    By <- Callers
    Order = {}
    Customer <- OrderedByFirst
    Enough <- TwoOrSecond
    Cancels = {}
    Link = {}
    LinkRoom <- LinkedRooms
    LinkOf <- LinkedOrders
    Expiry = {}
    MaxFaults = 0
INVARIANTS MembersCounted FullRoomLocked
