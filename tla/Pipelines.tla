------------------------------ MODULE Pipelines ------------------------------
(***************************************************************************)
(* Documents before the books: quotations (proforma invoices), sales       *)
(* orders, delivery challans, purchase orders and templates of recurring   *)
(* invoices, and the documents each of them is turned into.                *)
(*                                                                         *)
(* A request reads its document and writes a new status when it commits.   *)
(* Conversions, the cancellation of a challan and the generation of a      *)
(* recurring invoice read with FOR UPDATE; every other handler reads       *)
(* without a lock and overwrites whatever was committed in between.        *)
(***************************************************************************)
EXTENDS Integers, FiniteSets, Sequences

CONSTANTS Quotations, Orders, Challans, Purchases, Templates, Requests,
          Situations,      \* which documents there may be, in one behaviour
          ByHand, Edited, \* documents that may be created, and edited, by hand
          Quantities,     \* what an edit may set the quantity of a document to
          MaxOccurrences  \* max_occurrences of a template that ends AFTER_N

\* Every kind of document has a table of its own.
ASSUME PipelineAssumption ==
    /\ "none" \notin Requests \cup Quotations \cup Orders \cup Challans \cup Purchases \cup Templates
    /\ Quotations \cap (Orders \cup Challans \cup Purchases \cup Templates) = {}
    /\ Orders \cap (Challans \cup Purchases \cup Templates) = {}
    /\ Challans \cap (Purchases \cup Templates) = {} /\ Purchases \cap Templates = {}
    /\ Quantities \subseteq Nat /\ MaxOccurrences \in Nat

VARIABLES doc_status,    \* of every document; "none" before it is created, "unused" for one
                     \* that is not in the scenario
          quantity,  \* what is on its lines
          source,    \* source_proforma_id of an order, source_sales_order_id of a challan
          billed,    \* per document, the quantities of the invoices made from it
          moved, restored,   \* per challan: stock ledger DELIVERY_CHALLAN and its reversals
          occurrences,       \* occurrences_created
          doc_lock, request,
          quiet      \* TRUE: a request that reads without a lock runs alone

pipeline == <<doc_status, quantity, source, billed, moved, restored, occurrences, doc_lock, request, quiet>>

Documents == Quotations \cup Orders \cup Challans \cup Purchases \cup Templates
NoDoc == "none"
NoRequest == [op |-> "idle", doc |-> NoDoc, new |-> NoDoc, to |-> "none", q |-> 0, saw |-> 0]
Working(s) == request[s].op # "idle"

PipelineInit ==
    /\ \E scenario \in Situations :
           doc_status = [d \in Documents |-> IF d \in scenario THEN "none" ELSE "unused"]
    /\ quantity = [d \in Documents |-> 0]
    /\ source = [d \in Orders \cup Challans |-> NoDoc]
    /\ billed = [d \in Documents |-> <<>>]
    /\ moved = [c \in Challans |-> 0] /\ restored = [c \in Challans |-> 0]
    /\ occurrences = [t \in Templates |-> 0]
    /\ doc_lock = [d \in Documents |-> NoDoc] /\ request = [s \in Requests |-> NoRequest]
    /\ quiet \in BOOLEAN

-----------------------------------------------------------------------------
(* What the handlers allow.                                                *)

\* Statuses from which a handler that does nothing else gives a document the
\* status to: confirm, deliver, receive, issue, cancel, delete, and PUT on a
\* template, which may switch it on and off.
OrderFrom(to) ==
    CASE to = "CONFIRMED" -> {"DRAFT"}
      [] to \in {"DELIVERED", "CANCELLED"} -> {"DRAFT", "CONFIRMED"}
      [] OTHER -> {}

PurchaseFrom(to) ==
    CASE to = "CONFIRMED" -> {"DRAFT"}
      [] to \in {"RECEIVED", "CANCELLED"} -> {"DRAFT", "CONFIRMED"}
      [] OTHER -> {}

QuotationFrom(to) ==
    CASE to \in {"ISSUED", "DELETED"} -> {"DRAFT"}
      [] to = "CANCELLED" -> {"DRAFT", "ISSUED"}
      [] OTHER -> {}

Alive == {"ACTIVE", "INACTIVE"}
TemplateFrom(to) == IF to \in Alive \cup {"DELETED"} THEN Alive \ {to} ELSE {}

From(d, to) ==
    CASE d \in Orders -> OrderFrom(to)
      [] d \in Purchases -> PurchaseFrom(to)
      [] d \in Quotations -> QuotationFrom(to)
      [] d \in Templates -> TemplateFrom(to)
      [] OTHER -> {}

Targets == {"CONFIRMED", "DELIVERED", "RECEIVED", "CANCELLED", "ISSUED", "DELETED", "ACTIVE", "INACTIVE"}

OrdersOf(q) == {o \in Orders : source[o] = q}
ChallansOf(o) == {c \in Challans : source[c] = o}

\* The ids of new documents: one that a request is about to use is nobody else's.
New(kind) == {d \in kind : doc_status[d] = "none" /\ \A s \in Requests : request[s].new # d}

\* Mutant: FOR UPDATE is dropped.
FreeAlways(s, rows) == TRUE

\* An ISSUED quotation or challan with no document made from it: one that was
\* converted is answered with what it became.
Convertible(d) == doc_status[d] = "ISSUED" /\ billed[d] = <<>>
Free(s, rows) == \A d \in rows : doc_lock[d] \in {NoDoc, s}

\* A request on d that holds the lock of rows until it commits.  The assumption
\* quiet, which the code does not enforce, keeps the unlocked ones alone.
UnlockedOps == {"move", "edit", "ship"}
Handle(s, op, d, new, to, q, rows) ==
    /\ ~Working(s) /\ Free(s, rows)
    /\ quiet => /\ \A t \in Requests : request[t].op \notin UnlockedOps
                /\ op \in UnlockedOps => \A t \in Requests : ~Working(t)
    /\ request' = [request EXCEPT ![s] = [op |-> op, doc |-> d, new |-> new, to |-> to, q |-> q,
                                          saw |-> IF d \in Templates THEN occurrences[d] ELSE quantity[d]]]
    /\ doc_lock' = [d1 \in Documents |-> IF d1 \in rows THEN s ELSE doc_lock[d1]]
    /\ UNCHANGED <<doc_status, quantity, source, billed, moved, restored, occurrences, quiet>>

\* Handlers that read without a lock.
BeginMove(s, d, to) == doc_status[d] \in From(d, to) /\ Handle(s, "move", d, NoDoc, to, 0, {})
BeginEdit(s, d, q) == q # quantity[d] /\ Handle(s, "edit", d, NoDoc, doc_status[d], q, {})
EditQuotation(s, d, q) == doc_status[d] = "DRAFT" /\ BeginEdit(s, d, q)
EditOrder(s, d, q) == doc_status[d] = "DRAFT" /\ BeginEdit(s, d, q)
EditChallan(s, d, q) == doc_status[d] = "DRAFT" /\ BeginEdit(s, d, q)
EditPurchase(s, d, q) == doc_status[d] = "DRAFT" /\ BeginEdit(s, d, q)
EditTemplate(s, d, q) == doc_status[d] \in Alive /\ BeginEdit(s, d, q)
BeginShip(s, c) == doc_status[c] = "DRAFT" /\ Handle(s, "ship", c, NoDoc, "ISSUED", 0, {})

\* Handlers that lock the row they read.
BeginBill(s, d) == Convertible(d) /\ Handle(s, "bill", d, NoDoc, "CONVERTED", 0, {d})
BeginOrder(s, q, o) ==
    /\ OrdersOf(q) = {} /\ doc_status[q] = "ISSUED"
    /\ Handle(s, "order", q, o, "CONVERTED", 0, {q})
BeginDispatch(s, o, c) ==
    /\ ChallansOf(o) = {} /\ doc_status[o] = "CONFIRMED"
    /\ Handle(s, "dispatch", o, c, "CONFIRMED", 0, {o})
BeginRecall(s, c) ==
    /\ doc_status[c] \in {"DRAFT", "ISSUED"} /\ billed[c] = <<>>
    /\ Handle(s, "recall", c, NoDoc, "CANCELLED", 0, {c})
BeginGenerate(s, t) ==
    /\ doc_status[t] = "ACTIVE" /\ occurrences[t] < MaxOccurrences
    /\ Handle(s, "generate", t, NoDoc, "ACTIVE", 0, {t})

-----------------------------------------------------------------------------
(* Commits.                                                                *)

\* Mutant: the locks are kept.
FinishKeepingLocks(s) == request' = [request EXCEPT ![s] = NoRequest] /\ UNCHANGED doc_lock

Finish(s) ==
    /\ doc_lock' = [d \in Documents |-> IF doc_lock[d] = s THEN NoDoc ELSE doc_lock[d]]
    /\ request' = [request EXCEPT ![s] = NoRequest]

\* A document is created by hand, in one transaction.
Create(d, as) ==
    /\ d \in New(Documents)
    /\ doc_status' = [doc_status EXCEPT ![d] = as]
    /\ quantity' = [quantity EXCEPT ![d] = 1]
    /\ UNCHANGED <<source, billed, moved, restored, occurrences, doc_lock, request, quiet>>

CreateQuotation(d) == Create(d, "DRAFT")
CreateOrder(d) == Create(d, "DRAFT")
CreateChallan(d) == Create(d, "DRAFT")
CreatePurchase(d) == Create(d, "DRAFT")
CreateTemplate(d) == Create(d, "ACTIVE")

Move(s) ==
    LET r == request[s]
    IN  /\ r.op = "move" /\ Free(s, {r.doc})
        /\ doc_status' = [doc_status EXCEPT ![r.doc] = r.to]
        /\ Finish(s)
        /\ UNCHANGED <<quantity, source, billed, moved, restored, occurrences, quiet>>

Edit(s) ==
    LET r == request[s]
    IN  /\ r.op = "edit" /\ Free(s, {r.doc})
        /\ quantity' = [quantity EXCEPT ![r.doc] = r.q]
        /\ Finish(s)
        /\ UNCHANGED <<doc_status, source, billed, moved, restored, occurrences, quiet>>

\* issue_delivery_challan: the stock leaves, the order is DELIVERED whatever it was.
Ship(s) ==
    LET r == request[s]
        o == source[r.doc]
    IN  /\ r.op = "ship" /\ Free(s, {r.doc} \cup ({o} \ {NoDoc}))
        /\ moved' = [moved EXCEPT ![r.doc] = @ + r.saw]
        /\ doc_status' = [d \in Documents |-> IF d = r.doc THEN "ISSUED"
                                           ELSE IF d = o THEN "DELIVERED" ELSE doc_status[d]]
        /\ Finish(s)
        /\ UNCHANGED <<quantity, source, billed, restored, occurrences, quiet>>

\* convert_proforma_invoice; convert_delivery_challan_to_invoice, which leaves the
\* challan ISSUED.  uq_invoices_source_document allows one invoice per document.
Bill(s) ==
    LET r == request[s]
    IN  /\ r.op = "bill" /\ billed[r.doc] = <<>>
        /\ billed' = [billed EXCEPT ![r.doc] = Append(@, quantity[r.doc])]
        /\ doc_status' = [doc_status EXCEPT ![r.doc] = IF r.doc \in Quotations THEN "CONVERTED" ELSE @]
        /\ Finish(s)
        /\ UNCHANGED <<quantity, source, moved, restored, occurrences, quiet>>

\* convert_proforma_to_sales_order, create_delivery_challan_from_order: a DRAFT
\* with the lines of its source.
Derive(s) ==
    LET r == request[s]
    IN  /\ r.op \in {"order", "dispatch"}
        /\ doc_status' = [doc_status EXCEPT ![r.new] = "DRAFT",
                                                 ![r.doc] = IF r.op = "order" THEN "CONVERTED" ELSE @]
        /\ quantity' = [quantity EXCEPT ![r.new] = r.saw]
        /\ source' = [source EXCEPT ![r.new] = r.doc]
        /\ Finish(s)
        /\ UNCHANGED <<billed, moved, restored, occurrences, quiet>>

\* Mutant: what the lines say comes back, not what left.
RestoredByLines(c) == quantity[c]
Restored(c) == moved[c]

\* cancel_delivery_challan: every DELIVERY_CHALLAN movement is reversed; the order
\* stays as it is.
Recall(s) ==
    LET c == request[s].doc
    IN  /\ request[s].op = "recall"
        /\ restored' = [restored EXCEPT ![c] = @ + Restored(c)]
        /\ doc_status' = [doc_status EXCEPT ![c] = "CANCELLED"]
        /\ Finish(s)
        /\ UNCHANGED <<quantity, source, billed, moved, occurrences, quiet>>

\* generate_invoice_now
Generate(s) ==
    LET r == request[s]
    IN  /\ r.op = "generate"
        /\ billed' = [billed EXCEPT ![r.doc] = Append(@, quantity[r.doc])]
        /\ occurrences' = [occurrences EXCEPT ![r.doc] = r.saw + 1]
        /\ doc_status' = [doc_status EXCEPT ![r.doc] = IF r.saw + 1 >= MaxOccurrences THEN "INACTIVE" ELSE @]
        /\ Finish(s)
        /\ UNCHANGED <<quantity, source, moved, restored, quiet>>

\* Any exception, a constraint, too little stock for a challan.
Fail(s) ==
    /\ Working(s) /\ Finish(s)
    /\ UNCHANGED <<doc_status, quantity, source, billed, moved, restored, occurrences, quiet>>

PipelineNext ==
    \/ \E d \in ByHand \cap Quotations : CreateQuotation(d)
    \/ \E d \in ByHand \cap Orders : CreateOrder(d)
    \/ \E d \in ByHand \cap Challans : CreateChallan(d)
    \/ \E d \in ByHand \cap Purchases : CreatePurchase(d)
    \/ \E d \in ByHand \cap Templates : CreateTemplate(d)
    \/ \E s \in Requests :
        \/ \E d \in Documents, to \in Targets : BeginMove(s, d, to)
        \/ \E q \in Quantities :
            \/ \E d \in Edited \cap Quotations : EditQuotation(s, d, q)
            \/ \E d \in Edited \cap Orders : EditOrder(s, d, q)
            \/ \E d \in Edited \cap Challans : EditChallan(s, d, q)
            \/ \E d \in Edited \cap Purchases : EditPurchase(s, d, q)
            \/ \E d \in Edited \cap Templates : EditTemplate(s, d, q)
        \/ \E c \in Challans : BeginShip(s, c) \/ BeginRecall(s, c)
        \/ \E d \in Quotations \cup Challans : BeginBill(s, d)
        \/ \E q \in Quotations, o \in New(Orders) : BeginOrder(s, q, o)
        \/ \E o \in Orders, c \in New(Challans) : BeginDispatch(s, o, c)
        \/ \E t \in Templates : BeginGenerate(s, t)
        \/ Move(s) \/ Edit(s) \/ Ship(s) \/ Bill(s) \/ Derive(s) \/ Recall(s) \/ Generate(s) \/ Fail(s)

PipelineSpec == PipelineInit /\ [][PipelineNext]_pipeline

-----------------------------------------------------------------------------
DocStatuses == Targets \cup {"unused", "none", "DRAFT", "CONVERTED"}

PipelineTypeOK ==
    /\ doc_status \in [Documents -> DocStatuses] /\ quantity \in [Documents -> Nat]
    /\ billed \in [Documents -> Seq(Nat)]
    /\ moved \in [Challans -> Nat] /\ restored \in [Challans -> Nat]
    /\ occurrences \in [Templates -> 0 .. MaxOccurrences]
    /\ \A d \in Documents : doc_lock[d] \in Requests => request[doc_lock[d]].doc = d

\* A document is turned into the next one at most once, whoever asks at the same
\* time and whatever an unlocked request overwrites: one invoice and one order per
\* quotation, one challan per order, one invoice per challan; a challan with an
\* invoice is never cancelled, so its goods do not come back while it is billed;
\* and a template makes one invoice per occurrence, never more than its maximum.
OneOfEach ==
    /\ \A d \in Quotations \cup Challans : Len(billed[d]) <= 1
    /\ \A q \in Quotations : Cardinality(OrdersOf(q)) <= 1
    /\ \A o \in Orders : Cardinality(ChallansOf(o)) <= 1
    /\ \A c \in Challans : billed[c] # <<>> => doc_status[c] = "ISSUED"
    /\ \A t \in Templates : Len(billed[t]) = occurrences[t]

\* Where unlocked requests do not overlap others: the goods of an ISSUED challan
\* are out exactly once, as its lines say and as its invoice bills them, those of a
\* cancelled one are all back, and a quotation became an invoice or an order, not
\* both.  An overlapping edit or issue breaks each part.
GoodsMatchBill == quiet =>
    /\ \A c \in Challans :
        /\ moved[c] - restored[c] = IF doc_status[c] = "ISSUED" THEN quantity[c] ELSE 0
        /\ billed[c] # <<>> => billed[c][1] = moved[c]
    /\ \A q \in Quotations :
        /\ billed[q] = <<>> \/ OrdersOf(q) = {}
        /\ doc_status[q] = "CONVERTED" <=> (billed[q] # <<>> \/ OrdersOf(q) # {})
=============================================================================
