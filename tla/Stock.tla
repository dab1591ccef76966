------------------------------- MODULE Stock -------------------------------
(***************************************************************************)
(* On-hand stock.  Every document that moves goods changes two things in   *)
(* one transaction: products.current_stock (the company-wide quantity) and *)
(* the append-only stock_ledger (one row per movement, with the warehouse  *)
(* and the running balance).                                               *)
(*                                                                         *)
(* A session is one HTTP request with its own SQLAlchemy session, opened   *)
(* by core/database.py with autoflush=False on PostgreSQL READ COMMITTED:  *)
(*   - SELECT ... FOR UPDATE waits for the row lock, which is held until   *)
(*     commit or rollback, but an object already in the session's identity *)
(*     map keeps the attributes it was first loaded with (no handler asks  *)
(*     for populate_existing);                                             *)
(*   - a SUM over stock_ledger sees committed rows and the session's own   *)
(*     flushed rows, and not the rows it has only added.                   *)
(* The handlers differ in which of these steps they take, in which order:  *)
(* each is a record of choices below, translated from its source.          *)
(***************************************************************************)
EXTENDS Integers, SequencesExt, Relation

CONSTANTS
    Products, Warehouses, NoPlace,  \* NoPlace: warehouse_id NULL
    Docs,
    Lines,       \* Docs -> sequence of [product, quantity, warehouse, into]
    TypeOf,      \* Docs -> the type of the document
    Scenarios,   \* the sets of documents that may exist together
    Opening,     \* Products -> opening stock, created with the product
    Defaults,    \* the default places the company may start with
    Sessions, Nobody,
    ExclusiveRequests  \* TRUE: a request whose handler skips a lock, or reads
                       \* products before it locks them, runs alone

VARIABLES
    current_stock,      \* products.current_stock, committed
    stock_ledger,       \* the committed rows, in commit order
    status,             \* document status, committed; ABSENT: not in this scenario
    default_warehouse,  \* what resolve_default_warehouse_id returns
    row_lock,           \* the session holding FOR UPDATE on a product or document
    session

vars == <<current_stock, stock_ledger, status, default_warehouse, row_lock, session>>

Places == Warehouses \cup {NoPlace}
Lockable == Products \cup Docs

-----------------------------------------------------------------------------
(* The handlers, as the choices that matter to stock.                      *)
(*  posts     TRUE: DRAFT -> POSTED; FALSE: POSTED -> CANCELLED            *)
(*  source    what it walks: its lines, their totals per product, both     *)
(*            legs of a transfer, or the ledger rows the document wrote    *)
(*  sign      what a line's quantity is multiplied by                      *)
(*  place     "default", "document" (the line's or the row's own) or       *)
(*            "original" (that of the movement being reversed)             *)
(*  checks    what must cover a decrease: stock at the place, on hand, both*)
(*  balance   whose running balance the row carries                        *)
(*  preloads  products in the identity map before they are locked          *)
(*  flushes   each movement is flushed before the next is computed         *)
Base == [posts |-> TRUE, source |-> "lines", sign |-> 1, place |-> "default",
         checks |-> "place", balance |-> "place", onHand |-> TRUE,
         locksDocument |-> TRUE, locksProduct |-> TRUE,
         preloads |-> "none", flushes |-> FALSE]

FinalizeInvoice == [Base EXCEPT !.sign = -1]
CreateInvoice == [FinalizeInvoice EXCEPT !.preloads = "last"]
CancelInvoice == [Base EXCEPT !.posts = FALSE, !.source = "rows", !.place = "original",
                              !.flushes = TRUE]
FinalizeBill == Base
CreateBill == [FinalizeBill EXCEPT !.preloads = "last"]
CancelBill == [Base EXCEPT !.posts = FALSE, !.sign = -1, !.place = "original"]
DirectDeleteBill == [Base EXCEPT !.posts = FALSE, !.source = "rows", !.place = "document",
                                 !.flushes = TRUE]
CreateSalesReturn == Base
CancelSalesReturn == [Base EXCEPT !.posts = FALSE, !.sign = -1, !.place = "original"]
CreatePurchaseReturn == [Base EXCEPT !.sign = -1]
CancelPurchaseReturn == [Base EXCEPT !.posts = FALSE, !.place = "original"]
FinalizeCreditNote == Base
CancelCreditNote == [Base EXCEPT !.posts = FALSE, !.source = "rows", !.place = "document",
                                 !.flushes = TRUE]
IssueChallan == [Base EXCEPT !.sign = -1, !.source = "totals", !.locksDocument = FALSE]
CancelChallan == [Base EXCEPT !.posts = FALSE, !.source = "rows", !.place = "document"]
ConfirmAdjustment == Base
CancelAdjustment == [Base EXCEPT !.posts = FALSE, !.sign = -1, !.place = "original"]
CompleteTransfer == [Base EXCEPT !.source = "legs", !.place = "document", !.onHand = FALSE]
ConfirmReceipt == [Base EXCEPT !.place = "document", !.balance = "onHand"]
CancelReceipt == [Base EXCEPT !.posts = FALSE, !.sign = -1, !.place = "document",
                              !.checks = "onHand", !.balance = "onHand", !.preloads = "all",
                              !.locksDocument = FALSE, !.locksProduct = FALSE]
UpdateOpeningStock == [Base EXCEPT !.checks = "both", !.preloads = "all",
                                   !.locksDocument = FALSE, !.locksProduct = FALSE]

Handler == [
    finalize_invoice |-> FinalizeInvoice, create_invoice |-> CreateInvoice,
    cancel_invoice |-> CancelInvoice, finalize_bill |-> FinalizeBill,
    create_bill |-> CreateBill, cancel_bill |-> CancelBill,
    direct_delete_bill |-> DirectDeleteBill,
    create_sales_return |-> CreateSalesReturn, cancel_sales_return |-> CancelSalesReturn,
    create_purchase_return |-> CreatePurchaseReturn,
    cancel_purchase_return |-> CancelPurchaseReturn,
    finalize_credit_note |-> FinalizeCreditNote, cancel_credit_note |-> CancelCreditNote,
    issue_challan |-> IssueChallan, cancel_challan |-> CancelChallan,
    confirm_adjustment |-> ConfirmAdjustment, cancel_adjustment |-> CancelAdjustment,
    complete_transfer |-> CompleteTransfer, confirm_receipt |-> ConfirmReceipt,
    cancel_receipt |-> CancelReceipt, update_opening_stock |-> UpdateOpeningStock]

\* The handlers that can be called for each type of document.
Workflow == [
    invoice |-> {"create_invoice", "finalize_invoice", "cancel_invoice"},
    bill |-> {"create_bill", "finalize_bill", "cancel_bill", "direct_delete_bill"},
    sales_return |-> {"create_sales_return", "cancel_sales_return"},
    purchase_return |-> {"create_purchase_return", "cancel_purchase_return"},
    credit_note |-> {"finalize_credit_note", "cancel_credit_note"},
    challan |-> {"issue_challan", "cancel_challan"},
    adjustment |-> {"confirm_adjustment", "cancel_adjustment"},
    transfer |-> {"complete_transfer"},
    receipt |-> {"confirm_receipt", "cancel_receipt"},
    opening |-> {"update_opening_stock"}]

\* A handler that takes every lock before it reads what the lock protects.
Locking(name) ==
    Handler[name].locksDocument /\ Handler[name].locksProduct /\ Handler[name].preloads = "none"

Line == [product : Products, quantity : Int, warehouse : Places, into : Places]

ASSUME WorkflowAssumption ==
    /\ \A d \in Docs : TypeOf[d] \in DOMAIN Workflow /\ Lines[d] \in Seq(Line)
    /\ Scenarios \subseteq SUBSET Docs /\ ExclusiveRequests \in BOOLEAN
    /\ Opening \in [Products -> Nat] /\ Defaults \subseteq Places
    /\ Nobody \notin Sessions \cup Docs /\ NoPlace \notin Warehouses /\ IsFiniteSet(Products)

-----------------------------------------------------------------------------
\* SUM(quantity) of some of the rows, or of the lines, given by their indices.
Total(rows, chosen) == SumFunctionOnSet([i \in chosen |-> rows[i].quantity], chosen)

OfProduct(rows, p) == {i \in DOMAIN rows : rows[i].product = p}
OfDocument(rows, d) == {i \in DOMAIN rows : rows[i].doc = d}

\* get_warehouse_stock: the rows the session can see at one place.
StockAt(rows, p, w) == Total(rows, {i \in DOMAIN rows : rows[i].product = p /\ rows[i].warehouse = w})

Idle == [handler |-> "idle", doc |-> Nobody, todo |-> <<>>, orm |-> <<>>,
         touched |-> {}, flushed |-> <<>>, added |-> <<>>]

Busy(s) == session[s].handler # "idle"
TraitsOf(s) == Handler[session[s].handler]
Visible(s) == stock_ledger \o session[s].flushed
VisibleAt(s, p, w) == StockAt(stock_ledger, p, w) + StockAt(session[s].flushed, p, w)

\* create_product: the opening quantity is a ledger row at the default place.
OpeningRow(p) == [product |-> p, doc |-> Nobody, warehouse |-> default_warehouse,
                  reversal |-> FALSE, quantity |-> Opening[p], balance |-> Opening[p]]

Init ==
    /\ default_warehouse \in Defaults
    /\ current_stock = Opening
    /\ stock_ledger = LET stocked == SetToSeq({p \in Products : Opening[p] > 0})
                      IN [i \in DOMAIN stocked |-> OpeningRow(stocked[i])]
    /\ \E scenario \in Scenarios :
           status = [d \in Docs |-> IF d \in scenario THEN "DRAFT" ELSE "ABSENT"]
    /\ row_lock = [x \in Lockable |-> Nobody]
    /\ session = [s \in Sessions |-> Idle]

-----------------------------------------------------------------------------
Item(p, q, w) == [product |-> p, quantity |-> q, warehouse |-> w]
Undone(row) == Item(row.product, -row.quantity, row.warehouse)
Transferred(line, out) ==
    IF out THEN Item(line.product, -line.quantity, line.warehouse)
           ELSE Item(line.product, line.quantity, line.into)

\* The movements a handler makes for a document, in an order it may make them in:
\* that of the lines or of the first line of each product, and for the rows of the
\* ledger, which the handlers query without ORDER BY, any.
Plans(h, d) ==
    LET lines == Lines[d]
        first == {i \in DOMAIN lines : \A j \in 1 .. i - 1 : lines[j].product # lines[i].product}
        rows == {i \in OfDocument(stock_ledger, d) : ~stock_ledger[i].reversal}
        total(p) == Total(lines, OfProduct(lines, p))
    IN  CASE h.source = "lines" ->
               {[i \in DOMAIN lines |->
                    Item(lines[i].product, h.sign * lines[i].quantity, lines[i].warehouse)]}
          [] h.source = "totals" ->
               {[i \in DOMAIN o |->
                    Item(lines[o[i]].product, h.sign * total(lines[o[i]].product), NoPlace)] :
                    o \in {f \in SetToSeqs(first) : \A i, j \in DOMAIN f : i < j => f[i] < f[j]}}
          [] h.source = "rows" ->
               {[i \in DOMAIN o |-> Undone(stock_ledger[o[i]])] : o \in SetToSeqs(rows)}
          [] h.source = "legs" ->
               {[i \in 1 .. 2 * Len(lines) |-> Transferred(lines[(i + 1) \div 2], i % 2 = 1)]}

Preloaded(h, d) ==
    LET lines == Lines[d]
        known == CASE h.preloads = "none" -> {}
                   [] h.preloads = "last" -> {Last(lines).product}
                   [] h.preloads = "all" -> {lines[i].product : i \in DOMAIN lines}
    IN  [p \in known |-> current_stock[p]]

\* The assumption ExclusiveRequests, which the code does not enforce.
Alone(name) ==
    ExclusiveRequests =>
        \A other \in Sessions :
            Busy(other) => Locking(name) /\ Locking(session[other].handler)

\* Mutant: the document is read without FOR UPDATE.
OpenUnlocked(s, d, name) ==
    /\ ~Busy(s)
    /\ Alone(name)
    /\ status[d] = IF Handler[name].posts THEN "DRAFT" ELSE "POSTED"
    /\ \E plan \in Plans(Handler[name], d) :
           session' = [session EXCEPT ![s] =
               [Idle EXCEPT !.handler = name, !.doc = d, !.todo = plan,
                            !.orm = Preloaded(Handler[name], d)]]
    /\ UNCHANGED <<current_stock, stock_ledger, status, default_warehouse, row_lock>>

\* The request reaches its document: status guard, document lock, the products
\* it reads before locking them.
Open(s, d, name) ==
    LET h == Handler[name]
    IN  /\ ~Busy(s)
        /\ Alone(name)
        /\ status[d] = IF h.posts THEN "DRAFT" ELSE "POSTED"
        /\ h.locksDocument => row_lock[d] = Nobody
        /\ row_lock' = IF h.locksDocument THEN [row_lock EXCEPT ![d] = s] ELSE row_lock
        /\ \E plan \in Plans(h, d) :
               session' = [session EXCEPT ![s] =
                   [Idle EXCEPT !.handler = name, !.doc = d, !.todo = plan,
                                !.orm = Preloaded(h, d)]]
        /\ UNCHANGED <<current_stock, stock_ledger, status, default_warehouse>>

\* Mutant: a reversal goes to the default warehouse of the day.
PlaceOfToday(s, item) ==
    IF TraitsOf(s).place = "document" THEN item.warehouse ELSE default_warehouse

\* resolve_default_warehouse_id and resolve_reversal_warehouse_id.
PlaceOf(s, item) ==
    LET h == TraitsOf(s)
        rows == Visible(s)
        written == {i \in OfDocument(rows, session[s].doc) \cap OfProduct(rows, item.product) :
                       ~rows[i].reversal}
    IN  CASE h.place = "document" -> item.warehouse
          [] h.place = "default" -> default_warehouse
          [] h.place = "original" ->
               IF item.warehouse # NoPlace THEN item.warehouse
               ELSE IF written # {} /\ rows[Max(written)].warehouse # NoPlace
                    THEN rows[Max(written)].warehouse
                    ELSE default_warehouse

OnHand(s, p) ==
    IF p \in DOMAIN session[s].orm THEN session[s].orm[p] ELSE current_stock[p]

\* The identity map once it has the product, with its new quantity.
Loaded(orm, p, q) == [x \in DOMAIN orm \cup {p} |-> IF x = p THEN q ELSE orm[x]]

\* Mutant: the product is read without FOR UPDATE.
NeverWaits(s, x) == TRUE

CanLock(s, x) == row_lock[x] \in {Nobody, s}

\* Mutant: the check compares with the company-wide quantity.
CoveredOnHand(s, item, w) ==
    item.quantity < 0 => OnHand(s, item.product) + item.quantity >= 0

Covered(s, item, w) ==
    LET h == TraitsOf(s)
        located == w # NoPlace /\ h.checks # "onHand"
    IN  item.quantity < 0 =>
            /\ located => VisibleAt(s, item.product, w) + item.quantity >= 0
            /\ (~located \/ h.checks = "both") => OnHand(s, item.product) + item.quantity >= 0

\* Mutant: the row carries the company-wide balance.
BalanceOnHand(s, item, w, onHandAfter) == onHandAfter

\* get_stock_balance_after.
BalanceAfter(s, item, w, onHandAfter) ==
    IF w = NoPlace \/ TraitsOf(s).balance = "onHand" THEN onHandAfter
    ELSE VisibleAt(s, item.product, w) + item.quantity

\* One movement of a handler: lock the product, check, change the ORM object, add the row.
Move(s) ==
    /\ Busy(s) /\ session[s].todo # <<>>
    /\ LET h == TraitsOf(s)
           item == Head(session[s].todo)
           p == item.product
           after == IF h.onHand THEN OnHand(s, p) + item.quantity ELSE OnHand(s, p)
       IN  /\ h.locksProduct => CanLock(s, p)
           /\ row_lock' = IF h.locksProduct THEN [row_lock EXCEPT ![p] = s] ELSE row_lock
           /\ \E w \in {PlaceOf(s, item)} :
                  LET row == [product |-> p, doc |-> session[s].doc, warehouse |-> w,
                              reversal |-> ~h.posts, quantity |-> item.quantity,
                              balance |-> BalanceAfter(s, item, w, after)]
                  IN  /\ Covered(s, item, w)
                      /\ session' = [session EXCEPT
                             ![s].todo = Tail(@),
                             ![s].orm = Loaded(@, p, after),
                             ![s].touched = IF h.onHand THEN @ \cup {p} ELSE @,
                             ![s].flushed = IF h.flushes THEN Append(@, row) ELSE @,
                             ![s].added = IF h.flushes THEN @ ELSE Append(@, row)]
    /\ UNCHANGED <<current_stock, stock_ledger, status, default_warehouse>>

Released(s) == [x \in Lockable |-> IF row_lock[x] = s THEN Nobody ELSE row_lock[x]]

\* flush and COMMIT.  An UPDATE of a product nobody locked first waits here.
Commit(s) ==
    /\ Busy(s) /\ session[s].todo = <<>>
    /\ \A p \in session[s].touched : CanLock(s, p)
    /\ current_stock' = [p \in Products |->
           IF p \in session[s].touched THEN session[s].orm[p] ELSE current_stock[p]]
    /\ stock_ledger' = stock_ledger \o session[s].flushed \o session[s].added
    /\ status' = [status EXCEPT ![session[s].doc] =
                      IF TraitsOf(s).posts THEN "POSTED" ELSE "CANCELLED"]
    /\ row_lock' = Released(s)
    /\ session' = [session EXCEPT ![s] = Idle]
    /\ UNCHANGED default_warehouse

\* Mutant: get_db_session does not close the session, whose locks stay.
RollbackKeepsLocks(s) ==
    /\ session' = [session EXCEPT ![s] = Idle]
    /\ UNCHANGED <<current_stock, stock_ledger, status, default_warehouse, row_lock>>

Rollback(s) ==
    /\ row_lock' = Released(s)
    /\ session' = [session EXCEPT ![s] = Idle]
    /\ UNCHANGED <<current_stock, stock_ledger, status, default_warehouse>>

\* "Insufficient stock": the handler raises and the session is rolled back.
Refuse(s) ==
    /\ Busy(s) /\ session[s].todo # <<>>
    /\ LET item == Head(session[s].todo)
       IN  /\ TraitsOf(s).locksProduct => CanLock(s, item.product)
           /\ \E w \in {PlaceOf(s, item)} : ~Covered(s, item, w)
    /\ Rollback(s)

\* The sessions whose locks the next statement of s waits for.
Blockers(s) ==
    LET wanted == IF session[s].todo # <<>>
                  THEN IF TraitsOf(s).locksProduct THEN {Head(session[s].todo).product} ELSE {}
                  ELSE session[s].touched
    IN  IF Busy(s) THEN {row_lock[p] : p \in wanted} \ {Nobody, s} ELSE {}

InCycle(s) ==
    LET waits == [p \in Sessions \X Sessions |-> p[2] \in Blockers(p[1])]
    IN  TransitiveClosure(waits, Sessions)[<<s, s>>]

\* PostgreSQL cancels one transaction of a lock cycle.
DeadlockVictim(s) == InCycle(s) /\ Rollback(s)

\* The process dies, or the request raises, before COMMIT.
Crash(s) == Busy(s) /\ Rollback(s)

\* An administrator configures another active default warehouse, or the first.
SwitchDefault(w) ==
    /\ default_warehouse' = w
    /\ UNCHANGED <<current_stock, stock_ledger, status, row_lock, session>>

Advance(s) == Move(s) \/ Commit(s) \/ Refuse(s) \/ DeadlockVictim(s)

Next ==
    \/ \E s \in Sessions : \/ \E d \in Docs : \E name \in Workflow[TypeOf[d]] : Open(s, d, name)
                           \/ Advance(s)
                           \/ Crash(s)
    \/ \E w \in Warehouses : SwitchDefault(w)

\* A worker that is not waiting goes on, and lock queues are served in order,
\* so a waiter whose lock becomes free again and again gets it.
Fairness == \A s \in Sessions : SF_vars(Advance(s))

Spec == Init /\ [][Next]_vars
FairSpec == Spec /\ Fairness

-----------------------------------------------------------------------------
\* Types, and the lock discipline: only a request in flight holds a row, and
\* its own document is among the rows if its handler locks the document.
TypeOK ==
    /\ current_stock \in [Products -> Int]
    /\ \A i \in DOMAIN stock_ledger :
           stock_ledger[i] \in [product : Products, doc : Docs \cup {Nobody}, warehouse : Places,
                                reversal : BOOLEAN, quantity : Int, balance : Int]
    /\ status \in [Docs -> {"ABSENT", "DRAFT", "POSTED", "CANCELLED"}]
    /\ default_warehouse \in Places
    /\ row_lock \in [Lockable -> Sessions \cup {Nobody}]
    /\ \A x \in Lockable : row_lock[x] # Nobody => Busy(row_lock[x])
    /\ \A s \in Sessions : Busy(s) /\ TraitsOf(s).locksDocument => row_lock[session[s].doc] = s

\* current_stock is the company-wide on-hand quantity
\* (domains/inventory/services.py:87): the sum of all movements, whatever the
\* interleaving of requests, refusals and crashes.
OnHandIsLedger ==
    \A p \in Products : current_stock[p] = Total(stock_ledger, OfProduct(stock_ledger, p))

\* No document takes out of a warehouse more than is there: the checks of the
\* handlers, made before commit by concurrent requests, are still true after.
\* (A receipt is cancelled on the company-wide check alone: see MCLines.)
NoOversell ==
    \A p \in Products :
        /\ current_stock[p] >= 0
        /\ \A w \in Warehouses : StockAt(stock_ledger, p, w) >= 0

\* A row with a warehouse carries that warehouse's running balance: the balance
\* computed before commit is the one a reader of the ledger would compute.
\* (The rows of goods receipts carry the company-wide quantity instead.)
RunningBalance ==
    \A i \in DOMAIN stock_ledger :
        LET row == stock_ledger[i]
            upTo == SubSeq(stock_ledger, 1, i)
            ofReceipt == row.doc \in Docs /\ TypeOf[row.doc] = "receipt"
        IN  row.warehouse # NoPlace /\ ~ofReceipt =>
                row.balance = StockAt(upTo, row.product, row.warehouse)

\* What is where: a place is never overdrawn, and each row tells what was there.
PlacesAgree == NoOversell /\ RunningBalance

\* What the posting of a document moves of a product: a transfer moves nothing.
Due(d, p) ==
    LET posting == CHOOSE name \in Workflow[TypeOf[d]] : Handler[name].posts
    IN  IF Handler[posting].onHand
        THEN Handler[posting].sign * Total(Lines[d], OfProduct(Lines[d], p)) ELSE 0

\* The net movement of a document is what its status says, product by product:
\* nothing for a draft, the planned quantity once posted, nothing after the
\* cancellation.  No request, retry or race moves a document's goods twice.
PostedOnce ==
    \A d \in Docs, p \in Products :
        Total(stock_ledger, OfDocument(stock_ledger, d) \cap OfProduct(stock_ledger, p))
            = IF status[d] = "POSTED" THEN Due(d, p) ELSE 0

\* A reversal goes back to the place of the original movement
\* (resolve_reversal_warehouse_id): a cancelled document leaves nothing anywhere.
ReversalKeepsPlace ==
    \A d \in Docs, p \in Products, w \in Places :
        status[d] = "CANCELLED" =>
            Total(stock_ledger, {i \in OfDocument(stock_ledger, d) :
                                     stock_ledger[i].product = p /\ stock_ledger[i].warehouse = w}) = 0

\* Every request ends: no pair of documents blocks each other for ever, in
\* whatever order their lines lock the products.
EveryRequestEnds == \A s \in Sessions : Busy(s) ~> ~Busy(s)
=============================================================================
