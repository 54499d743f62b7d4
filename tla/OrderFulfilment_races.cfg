SPECIFICATION FairSpec
CHECK_DEADLOCK FALSE
CONSTANTS
    c1 = c1  c2 = c2  o1 = o1  s1 = s1  s2 = s2
    m1 = m1  m2 = m2  l1 = l1  l2 = l2  p1 = p1  p2 = p2  t1 = t1  t2 = t2
    Session = {c1, c2}
    Order = {o1}
    SubOrder = {s1, s2}
    Line = {l1, l2}
    Product = {p1, p2}
    Mode = {m1, m2}
    Retypable = {m1}
    OrderOf <- OrderOfSubOrder
    ModeOf <- ModeOfSubOrder
    SubOrderOf <- SubOrderOfLine
    ProductOf <- ProductOfLine
    Quantity <- QuantityOfLine
    InitialStock <- StockLeft
    TrackingNumber = {t1, t2}
    NoTracking = NoTracking
INVARIANTS
    TypeOK
    RestockAtMostOnce
    StockConserved
    CancelledOrderStaysCancelled
PROPERTIES
    CancelSparesStartedOrders
    SentCarriesTracking
    ShipmentsKept
    RequestsFinish
