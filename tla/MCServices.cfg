SPECIFICATION Spec
CONSTANTS
    j1 = j1
    j2 = j2
INVARIANTS
    TypeOK
    JobsRunAsTold
    DataKept
    BridgeKeeps
    
    AccessKeeps
    VoiceKeeps
\* Requests, changes, faults, mails and the preview are bounded.
CHECK_DEADLOCK FALSE
