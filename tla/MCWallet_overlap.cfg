SPECIFICATION Spec
CONSTANTS
    p1 = p1
    p2 = p2
    r1 = r1
    r2 = r2
    Partners = {p1}
    Restaurant = Restaurant
    Orders = {o1, o2}
    Owner <- OnePartner
    Pay <- MCPay
    Net <- MCNet
    PartialPay = 1
    Rules = {r1, r2}
    Threshold <- ThresholdTwo
    Bonus <- MCBonus
    MinPayout <- MCMinPayout
    Amounts = {2}
    PayoutIds = {k1}
    NoPayout = NoPayout
    Sessions = {s1, s2}
    MaxFaults = 1
INVARIANTS
    
    AwardedOnce
PROPERTIES
    ThresholdRewarded
