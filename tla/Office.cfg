SPECIFICATION OfficeSpec
CONSTANTS
    s1 = s1
    s2 = s2
    nut = nut
    bolt = bolt
    main = main
    annex = annex
    NoPlace = NoPlace
    Nobody = Nobody
    Products <- MCProducts
    Warehouses <- MCWarehouses
    Defaults <- MCDefaults
    Opening <- MCOpening
    Sessions <- MCSessions
    Docs <- MCDocs
    TypeOf <- MCTypeOf
    Lines <- MCLines
    Scenarios <- MCScenarios
    ExclusiveRequests = TRUE
INVARIANTS
    OfficeTypeOK
    OnHandIsLedger
    PlacesAgree
    PostedOnce
    ReversalKeepsPlace
    ImportsBook
    AccountsAgree
    ExpensesAgree
    MatchedOnce
PROPERTIES
    ImportedOnce
    MastersAgree
    EveryRequestEnds
CHECK_DEADLOCK FALSE
