SPECIFICATION Spec
CHECK_DEADLOCK FALSE
CONSTANTS
    c1 = c1  c2 = c2  p1 = p1  f1 = f1  m1 = m1  s1 = s1  s2 = s2
    g1 = g1  b1 = b1  o1 = o1  k1 = k1  k2 = k2
    Session = {c1, c2}
    Product = {p1}
    Producer = {f1}
    OwnerOf <- Owner
    Category = {g1}
    Speciality = {s1, s2}
    Stock = {2}
    ProductPatch <- SomeProductPatches
    Key = {k1, k2}
    Position = {0}
    Keep = Keep
    NoKey = NoKey
    MaxRequests = 3
    Mode = {m1}
    ModeOwner <- OwnerOfMode
    ModePatch <- SomeModePatches
    Buyer = {b1}
    Order = {o1}
    Units = {1, 2}
SYMMETRY MCSymmetry
INVARIANTS
    TypeOK
    WithdrawnWithoutOrders
    ModesAreConsistent
    SpecialitiesAreChosen
    CartsWithinStock
PROPERTIES
    RemovalStands
    ImagesAreStored
