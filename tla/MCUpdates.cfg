SPECIFICATION Spec
CONSTANTS
    Changes = {"x", "y"}
    MaxUpstream = 2
    MaxRequests = 3
    MaxRestarts = 1
    MaxFaults = 1
INVARIANTS
    RollbackRestores
\* Requests, commits and changes are bounded.
CHECK_DEADLOCK FALSE
