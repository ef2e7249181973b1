SPECIFICATION LiveSpec
CONSTANTS
    Ids = {c1, c2}
    Tags = {a, b}
    Dtgs = {"valid", "empty", "absent"}
    Sids = {TRUE, FALSE}
    HasDForms = {"boolean", "number"}
    Faults = {"loss", "redelivery", "silent", "restart", "edit", "other"}
    MaxFaults = 1
    MaxInFlight = 2
INVARIANTS HandshakeGoesOn ChildrenDistinct ListAgrees
PROPERTY StableSessionConnects
