SPECIFICATION Spec
CONSTANTS
    Horizon = 3
    Today = 2
    Amounts <- MCAmounts
    Openings = {0, 1}
    Posters = {"p"}
    Lockable = {1}
    Starts = {1}
    Drafted = {1, 2}
    MaxEntries = 1
    MaxCloses = 2
    QuietClose = TRUE
INVARIANTS
    ReopenedYearCanBeClosed
