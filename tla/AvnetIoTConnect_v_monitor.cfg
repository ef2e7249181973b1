SPECIFICATION MonitoredSpec
CONSTANTS
    Ids = {c1}
    Tags = {a}
    Dtgs = {"valid"}
    Sids = {TRUE}
    HasDForms = {"boolean"}
    Faults = {"loss"}
    MaxFaults = 1
    MaxInFlight = 3
PROPERTY ResendsHello
