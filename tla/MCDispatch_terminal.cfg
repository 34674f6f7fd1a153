SPECIFICATION Spec
CONSTANTS
    Orders = {o1}
    Partners = {p1}
    NoPartner = NoPartner
    Sessions = {s1}
    Webhook = FALSE
    MaxFaults = 0
CHECK_DEADLOCK FALSE
PROPERTIES
    TerminalIsFinal
