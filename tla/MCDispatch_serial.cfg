SPECIFICATION Spec
CONSTANTS
    Orders = {o1, o2}
    Partners = {p1, p2}
    NoPartner = NoPartner
    Sessions = {s1}
    Webhook = FALSE
    MaxFaults = 1
SYMMETRY Symmetry
CHECK_DEADLOCK FALSE
INVARIANTS
    PartnerExclusive
    StatusAgreesWithAudit
    OrderFollowsDelivery
    DeliveryMovesTogether
    NoOrderIsLost
