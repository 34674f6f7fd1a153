SPECIFICATION MCSpec
CONSTANTS
    Restaurants = {r1}
    Docs = {d1, d2, x1}
    Required = {d1, d2}
    Sessions = {s1, s2}
    MaxOrders = 1
    MaxFaults = 1
    MaxLateSends = 1
    Conns = {c1, c2, c3}
    NoConn = NoConn
    Orders = {o1, o2}
    Offers = {a1, a2}
    NoOffer = NoOffer
SYMMETRY Symmetry
CHECK_DEADLOCK FALSE
INVARIANTS
    UploadsSubmit
    ReviewStands
    
    FeedsAreCurrent

    
