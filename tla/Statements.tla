----------------------------- MODULE Statements -----------------------------
(***************************************************************************)
(* What the program says of receivables and payables: the statement of a   *)
(* party, the outstanding and aging reports, the lists a payment is made   *)
(* from, and the figures of the dashboards.  Each is computed anew from    *)
(* the tables, some from the amount_paid of the documents and some from    *)
(* the receipts, disbursements and notes themselves.                       *)
(***************************************************************************)
EXTENDS Settlement

CONSTANTS
    Withheld,   \* Docs -> TDS of a bill, part of its total and never paid to the vendor
    Dated,      \* Docs -> the date of a document, Payments and Notes -> theirs
    Due,        \* Docs -> due date
    Today, Tolerance   \* OVERDUE_DUST_TOLERANCE

ASSUME StatementsAssumption ==
    /\ IsFiniteSet(Docs) /\ IsFiniteSet(Contacts)
    /\ Withheld \in [Docs -> Nat] /\ \A d \in Docs : KindOf[d] = "invoice" => Withheld[d] = 0
    /\ Dated \in [Docs \cup Ids -> Int] /\ Due \in [Docs -> Int]
    /\ Today \in Nat /\ Tolerance \in Nat

Sum(f(_), S) == SumFunctionOnSet([x \in S |-> f(x)], S)
Total(d) == Payable[d] + Withheld[d]
Of(c, kind) == {x \in Docs \cup Payments : ContactOf[x] = c /\ KindOf[x] = kind}
Issued(d) == status[d] # "CANCELLED"
Left(d) == Total(d) - paid[d]

-----------------------------------------------------------------------------
(* PartyStatementService.  Debit notes are not in Settlement.              *)

Amount(i) == Sum(LAMBDA d : portion[i][d], Docs) + advance[i]
InvoiceOf(n) == CHOOSE d \in Docs : portion[n][d] > 0

\* A row of the ledger: what happened, on which date, what it adds to the balance.
Voucher(kind, x, amount) == [type |-> kind, no |-> x, date |-> Dated[x], amount |-> amount]
Vouchers(c) ==
    LET active == {i \in Ids : stage[i] = "ACTIVE"}
    IN  {Voucher("Sales", d, Total(d)) : d \in {x \in Of(c, "invoice") \cap Docs : Issued(x)}}
        \cup {Voucher("Purchase", d, -Total(d)) : d \in {x \in Of(c, "bill") \cap Docs : Issued(x)}}
        \cup {Voucher("Receipt", i, -Amount(i)) : i \in Of(c, "invoice") \cap active}
        \cup {Voucher("Payment", i, Amount(i)) : i \in Of(c, "bill") \cap active}
        \cup {Voucher("Credit Note", n, -Amount(n)) :
                 n \in {x \in Notes \cap active : ContactOf[InvoiceOf(x)] = c}}

\* A statement is made of the vouchers of a contact.
\* Mutant: a voucher of the first day is in the opening balance, too.
OpeningTwice(vouchers, from) == Sum(LAMBDA v : v.amount, {v \in vouchers : v.date <= from})
Opening(vouchers, from) == Sum(LAMBDA v : v.amount, {v \in vouchers : v.date < from})

Lines(vouchers, from, to) == {v \in vouchers : v.date \in from .. to}
\* The balance after the last line, whatever the order of the lines before it.
Closing(vouchers, from, to) ==
    Opening(vouchers, from) + Sum(LAMBDA v : v.amount, Lines(vouchers, from, to))
Summary(vouchers, from, to) ==
    [type \in {"Sales", "Receipt", "Purchase", "Payment"} |->
        Sum(LAMBDA v : IF v.amount < 0 THEN -v.amount ELSE v.amount,
            {v \in Lines(vouchers, from, to) : v.type = type})]

-----------------------------------------------------------------------------
(* OutstandingService and AgingService: as of a date, of all documents.    *)

Outstanding(c, kind) ==
    {d \in Of(c, kind) \cap Docs : status[d] \notin {"CANCELLED", "PAID"} /\ Left(d) > 0}
Owed(c, kind) == Sum(Left, Outstanding(c, kind))

Overdue(d, day) == IF day > Due[d] THEN day - Due[d] ELSE 0
Bucket(days) ==
    IF days <= 30 THEN "0-30 days" ELSE IF days <= 60 THEN "31-60 days"
    ELSE IF days <= 90 THEN "61-90 days" ELSE "91+ days"
Aging(c, kind, day) ==
    [b \in {"0-30 days", "31-60 days", "61-90 days", "91+ days"} |->
        Sum(Left, {d \in Outstanding(c, kind) : Bucket(Overdue(d, day)) = b})]

\* list_customer_outstanding_invoices, list_vendor_outstanding_bills: what a payment
\* may be allocated to, for a bill without the tax that is withheld.
CustomerList(c) ==
    {d \in Of(c, "invoice") \cap Docs : status[d] \in Receivable(d) /\ paid[d] < Total(d)}
VendorList(c) ==
    {d \in Of(c, "bill") \cap Docs : status[d] \in Receivable(d) /\ Payable[d] - paid[d] > 0}

-----------------------------------------------------------------------------
(* The dashboards: all invoices of the company.                            *)

Invoices(statuses) == {d \in Docs : KindOf[d] = "invoice" /\ status[d] \in statuses}
Finalized == {"POSTED", "PARTIALLY_PAID", "PAID"}

\* dashboard_kpis (a financial year of invoices and receipts is in view), invoice_stats,
\* get_sales_summary, get_pending_invoices, get_overdue_alerts
Kpi == [invoiced |-> Sum(Total, {d \in Docs : KindOf[d] = "invoice" /\ Issued(d)}),
        collected |-> Sum(Amount, {i \in Payments : KindOf[i] = "invoice" /\ stage[i] = "ACTIVE"}),
        outstanding |-> Sum(Left, Invoices({"POSTED", "PARTIALLY_PAID"}))]
Stats == Sum(Left, Invoices(Finalized \cup {"SENT"}))
SalesOutstanding ==
    Sum(Total, Invoices(Finalized)) - Sum(LAMBDA d : paid[d], Invoices(Finalized))
Pending == {d \in Invoices({"POSTED", "PARTIALLY_PAID"}) : Left(d) > 0}
Alerts == {d \in Invoices({"POSTED", "PARTIALLY_PAID"}) : Due[d] < Today /\ Left(d) > Tolerance}

-----------------------------------------------------------------------------
\* The reports of one contact tell one story, whatever receipts, cancellations,
\* corrections and notes led here.  A statement opens where the one before closed.
\* Its balance, made of vouchers, is what the outstanding report, made of documents,
\* says: what the customer owes less what the vendor is owed, less the advances of
\* receipts, plus those of disbursements; amounts that an import brought as paid have
\* no voucher, and the tax withheld on a bill stays on the statement when the bill is
\* PAID.  The aging report splits the same debt, and a payment is offered exactly
\* those documents on which something remains.  The dashboards add up to the same, but
\* for the invoices an import left SENT, which only some of them count.  What is
\* committed does not depend on the requests in progress: states without any suffice.
StatementsAgree ==
    (\A s \in Sessions : ~Busy(s)) =>
    LET active == {i \in Ids : stage[i] = "ACTIVE"}
        brought(S) == Sum(LAMBDA d : Imported[d], {d \in S : Issued(d)})
        advances(S) == Sum(LAMBDA i : advance[i], S \cap active)
        sales == {x \in Docs \cup Payments : KindOf[x] = "invoice"}
        owed == Sum(LAMBDA c : Owed(c, "invoice"), Contacts)
        kpi == Kpi
    IN  /\ \A c \in Contacts :
            LET in == Of(c, "invoice") out == Of(c, "bill") vouchers == Vouchers(c)
            IN  /\ Closing(vouchers, 0, Today)
                       = Owed(c, "invoice") + brought(in \cap Docs) - advances(in \cap Payments)
                         - Owed(c, "bill") - brought(out \cap Docs) + advances(out \cap Payments)
                         - Sum(LAMBDA d : Withheld[d], {d \in out \cap Docs : status[d] = "PAID"})
                /\ \A day \in 0 .. Today : Closing(vouchers, day, day) = Opening(vouchers, day + 1)
                /\ \A kind \in {"invoice", "bill"} :
                       LET aging == Aging(c, kind, Today)
                       IN  Sum(LAMBDA b : aging[b], DOMAIN aging) = Owed(c, kind)
                /\ CustomerList(c) = Outstanding(c, "invoice")
                /\ VendorList(c) = {d \in Outstanding(c, "bill") : status[d] # "UNPAID"}
        /\ Stats = owed
        /\ kpi.outstanding = owed - Sum(Left, Invoices({"SENT"}))
        /\ SalesOutstanding = kpi.outstanding
        /\ Sum(Left, Pending) = kpi.outstanding
        /\ Alerts \subseteq Pending
        /\ kpi.invoiced - kpi.collected
              = owed + brought(sales \cap Docs) - advances(sales \cap Payments)
                + Sum(Amount, Notes \cap active)
=============================================================================
