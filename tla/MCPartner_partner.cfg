SPECIFICATION MCSpec
CONSTANTS
    Partners = {p1}
    Docs = {d1, d2}
    AppDocs = {d1}
    Sessions = {s1, s2}
    MaxShifts = 2
SYMMETRY Symmetry
INVARIANTS
    UploadsSubmit
    ReviewStands
    OnDutyWasApproved
    OneShiftOnDuty
PROPERTIES
    NotCutOff
