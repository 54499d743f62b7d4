SPECIFICATION Spec
CHECK_DEADLOCK FALSE
CONSTANTS
    c1 = c1  c2 = c2  u1 = u1  n1 = n1
    Session = {c1, c2}
    User = {u1}
    SellersOf <- NoSeller
    AddressId = {1, 2, 3}
    NewAddress = NewAddress
    Nobody = Nobody
    Nif = {n1}
    NoNif = NoNif
SYMMETRY SessionSymmetry
INVARIANT BookHasDefault
