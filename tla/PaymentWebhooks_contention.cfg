SPECIFICATION FairSpec
CHECK_DEADLOCK FALSE
CONSTANTS
    c1 = c1  c2 = c2  i1 = i1  i2 = i2  u1 = u1  u2 = u2  u3 = u3
    r1 = r1   p1 = p1  a1 = a1  a2 = a2
    Inactive = Inactive
    Session = {c1, c2}
    Producer = {r1}
    Product = {p1}
    ProducerOf <- EveryProducerOf
    OwnerOf <- EveryOwnerOf
    InitialCost <- Cost0
    Intent = {i1, i2}
    User = {u1, u2, u3}
    Item = {a1, a2}
    BuyerOf <- TwoBuyerOf
    CartOf <- TwoCartOf
    ProductOf <- TwoProductOf
    UnitPrice <- TwoPrice
    InitialCart <- TwoCart
    InitialStock <- Stock1
    MaxQuantity = 1
    MaxEdits = 0
    Cost = {0}
INVARIANT
    TypeOK
PROPERTY
    HandlersFinish
