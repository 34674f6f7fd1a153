SPECIFICATION Spec
CONSTANTS
    Orders = {o1}
    Partners = {p1, p2}
    NoPartner = NoPartner
    Sessions = {s1, s2}
    Webhook = TRUE
    MaxFaults = 1
SYMMETRY Symmetry
CHECK_DEADLOCK FALSE
INVARIANTS
    DispatchOnlyAfterResponse
    OfferIsWatched
    FinishedMeansPaid

    
