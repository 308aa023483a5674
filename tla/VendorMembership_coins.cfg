SPECIFICATION Spec
CONSTANTS
    v1 = v1
    s1 = s1
    s2 = s2
    p1 = p1
    p2 = p2
    w1 = w1
    j1 = j1
    j2 = j2
    NoMember = NoMember
    Vendor = {v1}
    Tier = {0, 1, 2}
    Price <- OnePerTier
    Prorated <- ByDays
    Coins <- Two
    Call = {s1, s2, p1, p2, w1}
    Kind <- KindByName
    CallVendor <- CallsOfOne
    CallTier <- TierByName
    Job = {j1, j2}
    MaxFaults = 1
INVARIANTS CoinsNeverNegative LostOnlyByRace TiersAgree FreeOnlyIfSpent ChargedAgainOnlyByRace
PROPERTY TierFallsOnlyByRace
SYMMETRY Alike
CHECK_DEADLOCK FALSE
