SPECIFICATION Spec
CONSTANTS
    p1 = p1
    p2 = p2
    r1 = r1
    r2 = r2
    Partners = {p1, p2}
    Restaurant = Restaurant
    Orders = {o1, o2}
    Owner <- TwoPartners
    Pay <- MCPay
    Net <- MCNet
    PartialPay = 1
    Rules = {}
    Threshold <- ThresholdOne
    Bonus <- MCBonus
    MinPayout <- MCMinPayout
    Amounts = {2, 3}
    PayoutIds = {k1, k2}
    NoPayout = NoPayout
    Sessions = {s1, s2}
    MaxFaults = 0
PROPERTIES
    RestaurantCredited
