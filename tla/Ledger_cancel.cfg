SPECIFICATION Spec
CONSTANTS
    s1 = s1
    s2 = s2
    customer = customer
    vendor = vendor
    sales = sales
    purchases = purchases
    gst = gst
    cash = cash
    rounding = rounding
    withheld = withheld
    Nobody = Nobody
    Docs <- MCDocs
    Accounts <- MCAccounts
    TypeOf <- MCTypeOf
    AccountOf <- MCAccountOf
    Opening <- MCOpening
    Scenarios <- OneInvoice
    Entered <- ShippedInvoices
    Imported <- MCImported
    Banked <- MCBanked
    Sessions <- MCSessions
    DraftsSerialised = TRUE
INVARIANTS
    CancellationReverses
CHECK_DEADLOCK FALSE
