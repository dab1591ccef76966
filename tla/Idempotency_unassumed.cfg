SPECIFICATION FairSpec
CONSTANTS
    r1 = r1
    r2 = r2
    r3 = r3
    u1 = u1
    bodyA = bodyA
    bodyB = bodyB
    NoRow = NoRow
    Requests <- MCPair
    Unkeyed <- MCUnkeyed
    Payloads <- MCPayloads
    Payload <- MCPayloadPair
    Resuming <- MCResuming
    TimelyOwners = FALSE
    ExclusiveReclaim = FALSE
    CleanFailures = FALSE
INVARIANTS
    ProcessingNeverCommitted
PROPERTIES
    EveryRequestEnds
CHECK_DEADLOCK FALSE
