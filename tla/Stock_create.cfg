SPECIFICATION Spec
CONSTANTS
    s1 = s1
    s2 = s2
    nut = nut
    bolt = bolt
    main = main
    annex = annex
    NoPlace = NoPlace
    Nobody = Nobody
    Products <- MCProducts
    Warehouses <- MCWarehouses
    Defaults <- MCDefaults
    Opening <- MCOpening
    Sessions <- MCSessions
    Docs <- MCDocs
    TypeOf <- MCTypeOf
    Lines <- MCLines
    Scenarios <- CreateScenarios
    ExclusiveRequests = FALSE
INVARIANTS
    OnHandIsLedger
CHECK_DEADLOCK FALSE
