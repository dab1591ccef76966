SPECIFICATION Spec
CONSTANTS
    r1 = r1
    r2 = r2
    r3 = r3
    u1 = u1
    bodyA = bodyA
    bodyB = bodyB
    NoRow = NoRow
    Requests <- MCRequests
    Unkeyed <- MCUnkeyed
    Payloads <- MCPayloads
    Payload <- MCPayload
    Resuming <- MCNoneResumes
    TimelyOwners = TRUE
    ExclusiveReclaim = TRUE
    CleanFailures = TRUE
INVARIANTS
    TypeOK
    AtMostOnce
    OutcomesAgree
PROPERTIES
    MarkerIsPermanent
CHECK_DEADLOCK FALSE
