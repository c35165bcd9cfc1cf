CONSTANTS
    k1 = k1
    r1 = r1
    h1 = h1
    h2 = h2
    permissive = permissive
    strict = strict
    Keys = {k1}
    RecordIds = {r1}
    Payloads = {h1, h2}
    Policies = {permissive, strict}
    defaultPolicy = permissive
    Services = {"relay"}
    MaxId = 3
    MaxEpoch = 0
    MaxPending = 2
    MaxEvents = 2
    MaxKills = 1
SPECIFICATION Spec
CHECK_DEADLOCK FALSE
INVARIANT
    WitnessNeverForks
