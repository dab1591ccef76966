SPECIFICATION BooksSpec
CONSTANTS
    inv = inv  bill = bill  r1 = r1  r2 = r2  p1 = p1  p2 = p2  n1 = n1  n2 = n2
    both = both  s1 = s1  s2 = s2
    Nobody = Nobody
    Docs = {inv, bill}
    Payments = {r1, r2, p1, p2}
    Notes = {n1, n2}
    Contacts = {both}
    Sessions = {s1, s2}
    KindOf <- MCKindOf
    ContactOf <- MCContactOf
    Scenarios <- MCScenarios
    Payable <- MCPayable
    Imported <- MCImported
    Withheld <- MCWithheld
    Dated <- MCDated
    Due <- MCDue
    Tolerance = 1
    Portions = {1, 2}
    Advances = {0, 1}
    Today = 2
    UnlockedAlone = TRUE
    NotesFirst = TRUE
    Quotations = {"qt"}
    Orders <- MCOrders
    Challans = {"dc1", "dc2"}
    Purchases = {"po"}
    Templates = {"rt"}
    Requests <- MCSessions
    Situations <- MCSituations
    ByHand <- MCByHand
    Edited <- MCEdited
    Quantities = {1, 2}
    MaxOccurrences = 2
    OrderLines = {"po"}
    InvoiceLines = {"inv"}
    BillLines = {"bill"}
    Ordered <- MCOrdered
    NamedBy <- MCNamedBy
    Payloads <- MCPayloads
    Callers <- MCSessions
INVARIANTS
    BooksTypeOK
    DebtsAgree
    StatementsAgree
    ReturnsAgree
    PipelineInOrder
    DevicesAgree
PROPERTIES
    KeepsPromise
    FiledStands
CHECK_DEADLOCK FALSE
