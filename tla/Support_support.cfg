SPECIFICATION Spec
CHECK_DEADLOCK FALSE
CONSTANTS
    c1 = c1  c2 = c2  a1 = a1  a2 = a2  b1 = b1  b2 = b2  s1 = s1
    Session = {c1, c2}
    Admin = {a1, a2}
    Buyer = {b1, b2}
    SubOrder = {s1}
    BuyerOf <- BuyerOfOne
    Incident = {1, 2}
    Nobody = Nobody
    Limit = 1
    MaxRequests = 3
SYMMETRY SessionSymmetry
INVARIANTS
    TypeOK
    NoticesMatchIncidents
    ReadStampKept
    WalkSeesAll
PROPERTY
    ResolutionIsFinal
