--------------------------------- MODULE Sync ---------------------------------
(***************************************************************************)
(* ApexBooks: devices that work offline queue events, push them in         *)
(* batches, and pull what the others pushed.                               *)
(*                                                                         *)
(* A push is one transaction.  Each event of the batch is looked up        *)
(* without a lock, inserted, and handled inside a savepoint, so that a     *)
(* refused event leaves its row and nothing else.  A device that hears no  *)
(* answer pushes again.  Numbers of documents made offline come from       *)
(* ranges allocated to the device under the lock of the numbering series   *)
(* that online documents count with.                                       *)
(*                                                                         *)
(* One product; its row is read when the first event of a transaction      *)
(* needs it, without a lock, and current_stock is written as an absolute   *)
(* value.                                                                  *)
(***************************************************************************)
EXTENDS Integers, Sequences, FiniteSets, FiniteSetsExt

CONSTANTS
    Sessions,   \* requests in progress
    Events, EventOf,   \* Events -> [type, id, key, qty, number, device, of, good]; key is the
                       \* master, of the source document, qty what moves, number 0 is none
    Scenarios,  \* [batches, pushes, masters, devices, online]: the batches, sequences of
                \* events, that are pushed, how many pushes there are, the masters made online
                \* before, the devices that ask for numbers, how many documents are made online
    Ordered,    \* quantity of a sales order
    BlockSize,  \* batch_size of an allocation
    Limit,      \* how many events a pull returns
    MaxBlocks   \* bound of the model

VARIABLES
    log,        \* sync_events, committed: event -> server_sequence and processed
    books,      \* what the events wrote, committed
    onhand,     \* current_stock, committed
    sequence,   \* the identity column: never rolled back
    session,
    heard,      \* the last acknowledgement a device got of an event
    next_number, blocks, online,   \* the series, its allocations, numbers given online
    cursor, pulled,   \* of a device that pulls
    scenario, pushes,
    clashed,    \* a handler answered a duplicate key with db.rollback()
    quiet       \* TRUE: no push overlaps another

vars == <<log, books, onhand, sequence, session, heard, next_number, blocks, online, cursor, pulled,
          scenario, pushes, clashed, quiet>>
numbering == <<next_number, blocks, online>>
pull == <<cursor, pulled>>

NoBlock == [device |-> "none", first |-> 0, last |-> 0, active |-> FALSE]

\* What a transaction adds: rows by table, stock ledger and quantity of the product.
Nothing == [masters |-> {}, docs |-> {}, numbers |-> {}, journal |-> {}, transfers |-> 0,
            opening |-> 0, ledger |-> 0, delivered |-> {}]
Together(b, f) ==
    [masters |-> b.masters \cup f.masters, docs |-> b.docs \cup f.docs,
     numbers |-> b.numbers \cup f.numbers, journal |-> b.journal \cup f.journal,
     transfers |-> b.transfers + f.transfers, opening |-> b.opening + f.opening,
     ledger |-> b.ledger + f.ledger, delivered |-> b.delivered \cup f.delivered]

Idle == [op |-> "idle", batch |-> <<>>, rows |-> {}, mine |-> Nothing, hand |-> 0,
         loaded |-> FALSE, wrote |-> FALSE, acks |-> {}, device |-> "none", first |-> 0]

Init ==
    /\ scenario \in Scenarios /\ pushes = 0
    /\ log = <<>> /\ books = [Nothing EXCEPT !.masters = scenario.masters]
    /\ onhand = 0 /\ sequence = 0
    /\ session = [s \in Sessions |-> Idle]
    /\ heard = [e \in Events |-> "none"]
    /\ next_number = 1 /\ blocks = {} /\ online = {}
    /\ cursor = 0 /\ pulled = {}
    /\ clashed = FALSE /\ quiet \in BOOLEAN

-----------------------------------------------------------------------------
(* The handlers: what an event adds to what the transaction sees.          *)

Refused == [ok |-> FALSE, clash |-> FALSE, adds |-> Nothing, moved |-> 0]
Clash == [Refused EXCEPT !.clash = TRUE]
Adding(adds, moved) == [ok |-> TRUE, clash |-> FALSE, adds |-> adds, moved |-> moved]

\* A document row and its entry in the journal; a primary key that exists is refused.
Document(v, e, moved) ==
    IF EventOf[e].id \in v.docs \/ ~EventOf[e].good THEN Refused
    ELSE Adding([Nothing EXCEPT !.docs = {EventOf[e].id}, !.journal = {EventOf[e].id},
                                !.ledger = moved], moved)
Has(v, master) == master \in v.masters

\* account.created, party.created, branch.created, warehouse.created, money_account.created
AccountCreated(v, e) ==
    IF ~EventOf[e].good THEN Refused
    ELSE IF EventOf[e].key \in v.masters THEN Clash
    ELSE Adding([Nothing EXCEPT !.masters = {EventOf[e].key}], 0)
PartyCreated(v, e) == AccountCreated(v, e)
BranchCreated(v, e) == AccountCreated(v, e)
WarehouseCreated(v, e) == AccountCreated(v, e)
MoneyAccountCreated(v, e) == AccountCreated(v, e)

\* item.created: current_stock starts at the opening quantity, without a movement.
ItemCreated(v, e) ==
    IF EventOf[e].key \in v.masters THEN Clash
    ELSE Adding([Nothing EXCEPT !.masters = {EventOf[e].key}, !.opening = EventOf[e].qty],
                EventOf[e].qty)

\* An invoice made offline keeps the number its device took from a block, active or not.
Number(e) == {EventOf[e].number} \ {0}
NumberValid(e) == \A n \in Number(e) :
    \E b \in blocks : b.device = EventOf[e].device /\ n \in b.first .. b.last
SaleInvoice(v, e) ==
    IF ~NumberValid(e) \/ Number(e) \cap (v.numbers \cup online) # {} \/ ~Has(v, "party") \/ ~Has(v, "item")
    THEN Refused
    ELSE LET h == Document(v, e, -EventOf[e].qty)
         IN  IF h.ok THEN [h EXCEPT !.adds.numbers = Number(e)] ELSE h

\* The bill of a party that does not exist cannot be posted; the item need not exist:
\* no item, no stock.  Payments inside the event get rows, but no entry in the journal.
PurchaseInvoice(v, e) ==
    IF Has(v, "party") THEN Document(v, e, IF Has(v, "item") THEN EventOf[e].qty ELSE 0) ELSE Refused

InvoicePosted(v, e) == IF EventOf[e].of = "sale" THEN SaleInvoice(v, e) ELSE PurchaseInvoice(v, e)

\* journal.posted and journal.reversed: one entry per source; a second one is
\* accepted and adds nothing.
JournalPosted(v, e) ==
    IF EventOf[e].of \in v.journal THEN Adding(Nothing, 0)
    ELSE IF ~EventOf[e].good THEN Refused
    ELSE Adding([Nothing EXCEPT !.journal = {EventOf[e].of}], 0)

\* journal.created, journal.updated: checked, and kept as an event only.
JournalDraft(v, e) ==
    IF EventOf[e].of \in v.journal \/ ~EventOf[e].good THEN Refused ELSE Adding(Nothing, 0)

\* A contra is an entry in the journal and no document, and names no party.
MoneyTransaction(v, e) ==
    IF ~EventOf[e].good \/ ~Has(v, "cash") THEN Refused
    ELSE IF EventOf[e].of = "contra" THEN Adding([Nothing EXCEPT !.journal = {EventOf[e].id}], 0)
    ELSE IF Has(v, "party") THEN Document(v, e, 0) ELSE Refused

\* Refused after the row of the adjustment was added, when the stock would be negative.
StockAdjusted(v, e, hand) ==
    IF ~Has(v, "item") \/ hand + EventOf[e].qty < 0 THEN Refused
    ELSE LET h == Document(v, e, EventOf[e].qty) IN [h EXCEPT !.adds.journal = {}]

\* A new identifier each time: nothing but the log keeps a transfer from being repeated.
StockTransferred(v, e) ==
    IF Has(v, "item") THEN Adding([Nothing EXCEPT !.transfers = 1], 0) ELSE Refused

SettingsUpdated(v, e) == Adding(Nothing, 0)

BankStatementImported(v, e) ==
    LET h == Document(v, e, 0)
    IN  IF ~Has(v, "bank") THEN Refused ELSE [h EXCEPT !.adds.journal = {}]

PurchaseReceiptPosted(v, e) ==
    IF Has(v, "party") /\ Has(v, "item") THEN Document(v, e, EventOf[e].qty) ELSE Refused

\* The order is DELIVERED once its challans cover it; the stock may become negative.
SalesDeliveryPosted(v, e) ==
    LET h == Document(v, e, -EventOf[e].qty)
        challans == {f \in Events : EventOf[f].type = EventOf[e].type /\ EventOf[f].of = EventOf[e].of
                                    /\ EventOf[f].id \in v.docs \cup {EventOf[e].id}}
        covered == MapThenSumSet(LAMBDA f : EventOf[f].qty, challans) >= Ordered
    IN  IF ~Has(v, "item") \/ ~h.ok THEN Refused
        ELSE [h EXCEPT !.adds.delivered = IF covered THEN {EventOf[e].of} ELSE {}]

\* What was returned before is not looked at.
SalesReturnPosted(v, e) ==
    IF EventOf[e].of \in v.docs /\ Has(v, "item") THEN Document(v, e, EventOf[e].qty) ELSE Refused
PurchaseReturnPosted(v, e) ==
    IF EventOf[e].of \in v.docs /\ Has(v, "item") THEN Document(v, e, -EventOf[e].qty) ELSE Refused

CreditNotePosted(v, e) == IF EventOf[e].of \in v.docs THEN Document(v, e, 0) ELSE Refused

\* The bill is stored where an invoice is referenced: neither a linked nor an
\* unlinked debit note is ever posted.
DebitNotePosted(v, e) == Refused

Handled(v, e, hand) ==
    LET type == EventOf[e].type
    IN  CASE type = "account.created" -> AccountCreated(v, e)
          [] type = "party.created" -> PartyCreated(v, e)
          [] type = "item.created" -> ItemCreated(v, e)
          [] type = "branch.created" -> BranchCreated(v, e)
          [] type = "warehouse.created" -> WarehouseCreated(v, e)
          [] type = "invoice.posted" -> InvoicePosted(v, e)
          [] type = "purchase_invoice.posted" -> PurchaseInvoice(v, e)
          [] type \in {"journal.created", "journal.updated"} -> JournalDraft(v, e)
          [] type \in {"journal.posted", "journal.reversed"} -> JournalPosted(v, e)
          [] type = "money_account.created" -> MoneyAccountCreated(v, e)
          [] type = "money_transaction.posted" -> MoneyTransaction(v, e)
          [] type = "stock.adjusted" -> StockAdjusted(v, e, hand)
          [] type = "stock.transferred" -> StockTransferred(v, e)
          [] type = "bank_statement.imported" -> BankStatementImported(v, e)
          [] type = "purchase_receipt.posted" -> PurchaseReceiptPosted(v, e)
          [] type = "company.settings.updated" -> SettingsUpdated(v, e)
          [] type = "sales_delivery.posted" -> SalesDeliveryPosted(v, e)
          [] type = "sales_return.posted" -> SalesReturnPosted(v, e)
          [] type = "purchase_return.posted" -> PurchaseReturnPosted(v, e)
          [] type = "credit_note.posted" -> CreditNotePosted(v, e)
          [] type = "debit_note.posted" -> DebitNotePosted(v, e)
          [] OTHER -> Refused

-----------------------------------------------------------------------------
(* A push.                                                                 *)

Own(s) == {row.event : row \in session[s].rows}
View(s) == Together(books, session[s].mine)
Hand(s) == IF session[s].loaded THEN session[s].hand ELSE onhand
Pushing(s) == session[s].op \in {"look", "apply"}

Push(s, batch) ==
    /\ session[s].op = "idle" /\ pushes < scenario.pushes
    /\ quiet => \A t \in Sessions : ~Pushing(t)
    /\ session' = [session EXCEPT ![s].op = "look", ![s].batch = batch]
    /\ pushes' = pushes + 1
    /\ UNCHANGED <<log, books, onhand, sequence, heard, numbering, pull, scenario, clashed, quiet>>

Stored(s, e) == IF e \in Own(s) THEN \E row \in session[s].rows : row.event = e /\ row.ok ELSE log[e].ok

\* The event is looked up; one that exists is acknowledged with its stored outcome.
Look(s) ==
    LET e == Head(session[s].batch)
        reads == EventOf[e].qty # 0 /\ Has(View(s), "item")
    IN  /\ session[s].op = "look" /\ session[s].batch # <<>>
        /\ session' = [session EXCEPT ![s] =
               IF e \in DOMAIN log \cup Own(s)
               THEN [@ EXCEPT !.batch = Tail(@), !.acks = @ \cup {[event |-> e, ok |-> Stored(s, e)]}]
               ELSE [@ EXCEPT !.op = "apply", !.hand = IF reads THEN Hand(s) ELSE @,
                              !.loaded = @ \/ reads]]
        /\ UNCHANGED <<log, books, onhand, sequence, heard, numbering, pull, scenario, pushes, clashed, quiet>>

\* An insert of a key that another transaction has inserted, and an update of the
\* product it has updated, wait for its end.
Waits(s, e, h) == \E t \in Sessions \ {s} :
    /\ Pushing(t)
    /\ \/ e \in Own(t)
       \/ \E table \in {"masters", "docs", "numbers", "journal"} :
              h.adds[table] \cap session[t].mine[table] # {}
       \/ h.moved # 0 /\ session[t].wrote

\* Mutant: no savepoint around the handler, the rows it added before it failed stay.
KeptAll(e, h) == IF h.ok THEN h.adds ELSE [Nothing EXCEPT !.docs = {EventOf[e].id}]
Kept(e, h) == h.adds

\* The row, the handler in its savepoint, and the acknowledgement.
Apply(s) ==
    LET e == Head(session[s].batch)
        q == session[s]
        h == Handled(View(s), e, Hand(s))
        row == [event |-> e, seq |-> sequence + 1, ok |-> h.ok]
    IN  /\ q.op = "apply" /\ ~Waits(s, e, h) /\ e \notin DOMAIN log /\ ~h.clash
        /\ sequence' = sequence + 1
        /\ session' = [session EXCEPT ![s] =
               [@ EXCEPT !.op = "look", !.batch = Tail(@), !.rows = @ \cup {row},
                         !.mine = Together(@, Kept(e, h)),
                         !.hand = IF h.moved = 0 THEN @ ELSE Hand(s) + h.moved,
                         !.loaded = @ \/ h.moved # 0, !.wrote = @ \/ h.moved # 0,
                         !.acks = @ \cup {[event |-> e, ok |-> h.ok]}]]
        /\ UNCHANGED <<log, books, onhand, heard, numbering, pull, scenario, pushes, clashed, quiet>>

\* A handler that answers a duplicate key with db.rollback() ends the transaction:
\* what the batch did so far is lost, and the rest goes on in a new one.
ApplyClash(s) ==
    LET e == Head(session[s].batch)
        h == Handled(View(s), e, Hand(s))
    IN  /\ session[s].op = "apply" /\ ~Waits(s, e, h) /\ e \notin DOMAIN log /\ h.clash
        /\ sequence' = sequence + 1 /\ clashed' = TRUE
        /\ session' = [session EXCEPT ![s] =
               [Idle EXCEPT !.op = "look", !.batch = Tail(session[s].batch),
                            !.acks = session[s].acks \cup {[event |-> e, ok |-> FALSE]}]]
        /\ UNCHANGED <<log, books, onhand, heard, numbering, pull, scenario, pushes, quiet>>

\* One commit for the batch; the answer may be lost.
Commit(s, arrives) ==
    LET q == session[s]
        acked == {a.event : a \in q.acks}
        outcome(e) == IF \E a \in q.acks : a.event = e /\ a.ok THEN "ok" ELSE "error"
        rowOf(e) == CHOOSE row \in q.rows : row.event = e
    IN  /\ q.op = "look" /\ q.batch = <<>>
        /\ log' = [e \in DOMAIN log \cup Own(s) |->
                      IF e \in Own(s) THEN [seq |-> rowOf(e).seq, ok |-> rowOf(e).ok] ELSE log[e]]
        /\ books' = Together(books, q.mine)
        /\ onhand' = IF q.wrote THEN q.hand ELSE onhand
        /\ heard' = [e \in Events |-> IF arrives /\ e \in acked THEN outcome(e) ELSE heard[e]]
        /\ session' = [session EXCEPT ![s] = Idle]
        /\ UNCHANGED <<sequence, numbering, pull, scenario, pushes, clashed, quiet>>

\* The connection is lost, the database ends a deadlock, the same event was inserted
\* by another push after it was looked up, or the batch names another company.
Abort(s) ==
    /\ session[s].op # "idle"
    /\ session' = [session EXCEPT ![s] = Idle]
    /\ UNCHANGED <<log, books, onhand, sequence, heard, numbering, pull, scenario, pushes, clashed, quiet>>

-----------------------------------------------------------------------------
(* Pull, and the numbers of documents.                                     *)

Visible == {e \in DOMAIN log : log[e].ok /\ log[e].seq > cursor}
Pull ==
    LET page == {e \in Visible : Cardinality({f \in Visible : log[f].seq < log[e].seq}) < Limit}
    IN  /\ Visible # {}
        /\ cursor' = Max({log[e].seq : e \in page})
        /\ pulled' = pulled \cup page
        /\ UNCHANGED <<log, books, onhand, sequence, session, heard, numbering, scenario, pushes,
                       clashed, quiet>>

\* A document being numbered holds the series until it is committed.
SeriesFree == \A t \in Sessions : session[t].op # "number"

\* allocate_offline_numbers: a device that has an active block is given it again, one
\* that hands a block in, active or not, gets another.
BeginAllocate(s, device, previous) ==
    /\ session[s].op = "idle" /\ Cardinality(blocks) < MaxBlocks
    /\ IF previous = NoBlock THEN \A b \in blocks : b.device = device => ~b.active
       ELSE previous \in blocks /\ previous.device = device
    /\ session' = [session EXCEPT ![s].op = "allocate", ![s].device = device, ![s].first = previous.first]
    /\ UNCHANGED <<log, books, onhand, sequence, heard, numbering, pull, scenario, pushes, clashed, quiet>>

CommitAllocate(s) ==
    LET last == next_number + BlockSize - 1
    IN  /\ session[s].op = "allocate" /\ SeriesFree
        /\ blocks' = {[b EXCEPT !.active = @ /\ b.first # session[s].first] : b \in blocks}
                     \cup {[device |-> session[s].device, first |-> next_number, last |-> last, active |-> TRUE]}
        /\ next_number' = last + 1
        /\ session' = [session EXCEPT ![s] = Idle]
        /\ UNCHANGED <<log, books, onhand, sequence, heard, online, pull, scenario, pushes, clashed, quiet>>

\* generate_next_number, in the transaction that creates the document.
BeginNumber(s) ==
    /\ session[s].op = "idle" /\ SeriesFree /\ Cardinality(online) < scenario.online
    /\ session' = [session EXCEPT ![s].op = "number", ![s].first = next_number]
    /\ UNCHANGED <<log, books, onhand, sequence, heard, numbering, pull, scenario, pushes, clashed, quiet>>

CommitNumber(s) ==
    /\ session[s].op = "number" /\ session[s].first \notin books.numbers
    /\ online' = online \cup {session[s].first}
    /\ next_number' = session[s].first + 1
    /\ session' = [session EXCEPT ![s] = Idle]
    /\ UNCHANGED <<log, books, onhand, sequence, heard, blocks, pull, scenario, pushes, clashed, quiet>>

Next ==
    \/ \E s \in Sessions :
        \/ \E batch \in scenario.batches : Push(s, batch)
        \/ Look(s) \/ Apply(s) \/ ApplyClash(s) \/ Abort(s)
        \/ \E arrives \in BOOLEAN : Commit(s, arrives)
        \/ \E device \in scenario.devices, previous \in blocks \cup {NoBlock} : BeginAllocate(s, device, previous)
        \/ CommitAllocate(s) \/ BeginNumber(s) \/ CommitNumber(s)
    \/ Pull

Spec == Init /\ [][Next]_vars

-----------------------------------------------------------------------------
(* Properties.                                                             *)

TypeOK ==
    /\ DOMAIN log \subseteq Events /\ \A e \in DOMAIN log : log[e].seq \in 1 .. sequence
    /\ books.masters \cup books.docs \cup books.journal \subseteq STRING /\ onhand \in Int
    /\ \A s \in Sessions : session[s].op \in {"idle", "look", "apply", "allocate", "number"}
    /\ heard \in [Events -> {"none", "ok", "error"}]
    /\ next_number \in Nat \ {0} /\ cursor \in 0 .. sequence /\ pulled \subseteq Events
    /\ pushes \in 0 .. scenario.pushes

Processed == {e \in DOMAIN log : log[e].ok}
Moves(e) ==
    LET type == EventOf[e].type
        sale == EventOf[e].of = "sale"
    IN  CASE type = "invoice.posted" -> IF sale THEN -EventOf[e].qty ELSE EventOf[e].qty
          [] type \in {"purchase_invoice.posted", "purchase_receipt.posted", "stock.adjusted",
                       "sales_return.posted"} -> EventOf[e].qty
          [] type \in {"sales_delivery.posted", "purchase_return.posted"} -> -EventOf[e].qty
          [] OTHER -> 0
Documents == {"invoice.posted", "purchase_invoice.posted", "money_transaction.posted", "stock.adjusted",
              "bank_statement.imported", "purchase_receipt.posted", "sales_delivery.posted",
              "sales_return.posted", "purchase_return.posted", "credit_note.posted"}

\* What the books hold is what the processed events add, each once, whatever was
\* pushed twice, refused, lost or rolled back; a refused event leaves nothing.
AppliedOnce ==
    /\ books.docs = {EventOf[e].id : e \in {f \in Processed : EventOf[f].type \in Documents /\ EventOf[f].of # "contra"}}
    /\ books.ledger = MapThenSumSet(Moves, Processed)
    /\ books.transfers = Cardinality({e \in Processed : EventOf[e].type = "stock.transferred"})

\* A device that heard of an event heard what is stored; a duplicate key, answered
\* with a rollback of the whole transaction, is the exception.
AcksAreTrue == ~clashed =>
    \A e \in Events : heard[e] # "none" => e \in DOMAIN log /\ (heard[e] = "ok") = log[e].ok

\* No two devices, and no device and an online document, are given one number.
NumbersApart ==
    LET range(b) == b.first .. b.last
    IN  /\ \A b, c \in blocks : b # c => range(b) \cap range(c) = {}
        /\ \A b \in blocks : range(b) \cap online = {} /\ b.last < next_number
        /\ \A n \in books.numbers : \E b \in blocks : n \in range(b)

\* Where no two pushes overlap, the cursor passes no event, and the quantity of
\* the product is its opening quantity and its movements.
NothingPassed == quiet =>
    /\ \A e \in Processed : log[e].seq <= cursor => e \in pulled
    /\ onhand = books.opening + books.ledger

\* What devices and server believe of one another is true.
DevicesAgree == AppliedOnce /\ AcksAreTrue /\ NumbersApart /\ NothingPassed
=============================================================================
