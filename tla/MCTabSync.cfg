SPECIFICATION Spec
CONSTANTS
    Devices = {d1, d2}
    Sessions = {"m", "a", "b"}
    Model <- MCModel
    Workers = {"m", "b"}
    Explicit = {"a", "b"}
    Shared = {"m", "a"}
    Limits <- MCLimits
    MaxEdits = 2
    Features = {"week", "run", "name"}
INVARIANTS TypeOK Converged DeletedStaysDeleted
PROPERTIES SyncKeepsLimits LabelsForward
CHECK_DEADLOCK FALSE
