SPECIFICATION FairSpec
CONSTANTS
    Orders = {o1}
    Partners = {p1}
    NoPartner = NoPartner
    Sessions = {s1, s2}
    Webhook = FALSE
    MaxFaults = 0
CHECK_DEADLOCK FALSE
PROPERTIES
    PlacedOrderIsAnswered
    OfferIsSettled
