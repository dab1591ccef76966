----------------------------- MODULE GstReturns -----------------------------
(***************************************************************************)
(* GST returns.  Two services compute the return of outward supplies, one  *)
(* exports it as a file and as a workbook, others compute the summary      *)
(* return and the return of inward supplies: all from the stored lines and *)
(* headers of the documents of a month.  A return that is recorded as      *)
(* filed locks the documents it reports.  Handlers check the lock before   *)
(* they commit and nothing makes them wait for each other: one request at  *)
(* a time is ASSUMED, each is one action.                                  *)
(***************************************************************************)
EXTENDS Taxation, FiniteSets

CONSTANTS
    Documents, Kind,     \* Documents -> "invoice", "bill", "credit", "debit" or "return"
    SourceOf,            \* of notes and returns: the invoice or the bill they are about
    Payloads, Terms,     \* names of requests, Payloads -> what they ask for
    Months,
    Units,               \* the quantity of every line of a bill
    Large, ServiceLarge, \* totals above which an inter-state sale is listed, by month; fixed
    Scenarios            \* [documents, payloads, months, filing]: what an initial state may use

VARIABLES
    status, doc,  \* of documents: what is stored of them
    month,        \* their issue dates
    filing,       \* gst_returns: <<type, month>> -> [status, filed_at]
    using         \* the scenario

vars == <<status, doc, month, filing, using>>

Types == {"GSTR1", "GSTR3B"}
Filings == {"COMPUTED", "READY_TO_FILE", "FILED", "ACKNOWLEDGED"}
Unfiled == [status |-> "none", filed_at |-> FALSE]
Blank == [subtotal |-> 0, discount |-> 0, freight |-> 0, taxed |-> 0, lines |-> <<>>,
          tax |-> [h \in Heads |-> 0], pos |-> Origin, taxed_in |-> Origin, rcm |-> FALSE,
          abroad |-> FALSE, gstin |-> FALSE, itc |-> FALSE, total |-> 0, units |-> 0]

Init ==
    /\ using \in Scenarios
    /\ status = [d \in Documents |-> "none"] /\ doc = [d \in Documents |-> Blank]
    /\ month = [d \in Documents |-> CHOOSE m \in Months : TRUE]
    /\ filing = [r \in Types \X Months |-> Unfiled]

-----------------------------------------------------------------------------
(* Documents.                                                              *)

\* ensure_gst_period_mutable
Locked(types, m) == \E t \in types : filing[t, m].status \in {"FILED", "ACKNOWLEDGED"}
Outward(d) == Kind[d] \in {"invoice", "credit", "debit"}
\* The returns whose filing locks a document against a cancellation: none for a debit
\* note.
LockedBy(d) ==
    IF Kind[d] = "debit" THEN {} ELSE IF Outward(d) THEN Types ELSE {"GSTR3B"}
\* Mutant: only the summary return locks.
MayChangeSummary(d) == ~Locked(LockedBy(d) \ {"GSTR1"}, month[d])
MayChange(d) == ~Locked(LockedBy(d), month[d])

Put(d, stored, m, next) ==
    /\ status' = [status EXCEPT ![d] = next] /\ doc' = [doc EXCEPT ![d] = stored]
    /\ month' = [month EXCEPT ![d] = m] /\ UNCHANGED <<filing, using>>

\* Units of a bill that went back, its line i with them.
Returns(b) == {r \in Documents : Kind[r] = "return" /\ SourceOf[r] = b /\ status[r] = "POSTED"}
Gone(b) == SumOver(Returns(b), LAMBDA r : doc[r].units)
\* Mutant: the last return is a share like the others.
ShareAlways(b, units, whole, prior) == Paisa * HalfEven((whole \div Paisa) * units, Units)
\* A share of the amounts of the line; the return that completes it takes what is left.
Share(b, units, whole, prior) ==
    IF Gone(b) + units = Units THEN whole - prior
    ELSE Paisa * HalfEven((whole \div Paisa) * units, Units)
ReturnOf(b, units) ==
    LET prior(i, c) == SumOver(Returns(b), LAMBDA r : IF c = "taxable" THEN doc[r].lines[i].taxable
                                                      ELSE doc[r].lines[i].tax[c])
        lines == [i \in DOMAIN doc[b].lines |->
                     [doc[b].lines[i] EXCEPT
                         !.taxable = Share(b, units, @, prior(i, "taxable")),
                         !.tax = [h \in Heads |-> Share(b, units, @[h], prior(i, h))]]]
    IN  [doc[b] EXCEPT !.units = units, !.lines = lines, !.discount = 0, !.freight = 0, !.taxed = 0,
             !.subtotal = SumOver(DOMAIN lines, LAMBDA i : lines[i].taxable),
             !.tax = [h \in Heads |-> SumOver(DOMAIN lines, LAMBDA i : lines[i].tax[h])]]

\* What is stored of a document; the supplier's state is the origin of a bill.
Draft(d, p) ==
    LET from == SourceOf[d]
    IN  CASE Kind[d] = "invoice" -> Stored(p, Origin, p.pos)
          [] Kind[d] \in {"credit", "debit"} ->
                 [Note(p, Origin, doc[from].pos) EXCEPT !.gstin = doc[from].gstin]
          [] Kind[d] = "bill" -> Stored([p EXCEPT !.rcm = FALSE, !.supply = "domestic"], p.pos, Origin)
          [] Kind[d] = "return" -> ReturnOf(from, p.units)

\* create_invoice, create_credit_note, create_debit_note, create_bill,
\* create_purchase_return; the last is posted at once.  The periods of inward documents
\* must not be filed, those of outward ones may be.
Create(d, p, m) ==
    /\ status[d] = "none" /\ d \in using.documents /\ p \in using.payloads /\ m \in using.months
    /\ ~Outward(d) => ~Locked({"GSTR3B"}, m)
    /\ Kind[d] = "credit" => status[SourceOf[d]] = "POSTED"
    /\ Kind[d] = "debit" => status[SourceOf[d]] # "none"
    /\ Kind[d] = "return" => status[SourceOf[d]] = "POSTED" /\ Gone(SourceOf[d]) + Terms[p].units <= Units
    /\ Put(d, Draft(d, Terms[p]), m, IF Kind[d] = "return" THEN "POSTED" ELSE "DRAFT")

\* update_invoice, update_bill, with lines.
Edit(d, p) ==
    /\ status[d] = "DRAFT" /\ Kind[d] \in {"invoice", "bill"} /\ p \in using.payloads
    /\ Kind[d] = "bill" => MayChange(d)
    /\ Put(d, Draft(d, Terms[p]), month[d], "DRAFT")

\* update_invoice without lines: the place of supply moves and the taxes stay.
EditPlace(d, pos) ==
    /\ status[d] = "DRAFT" /\ Kind[d] = "invoice"
    /\ Put(d, [doc[d] EXCEPT !.pos = pos], month[d], "DRAFT")

\* finalize_invoice, finalize_bill, finalize_credit_note, finalize_debit_note: none of
\* them looks at the returns.
Finalize(d) == status[d] = "DRAFT" /\ Put(d, doc[d], month[d], "POSTED")

\* cancel_invoice, cancel_bill_route, cancel_credit_note, cancel_debit_note,
\* cancel_purchase_return_route
Cancel(d) == status[d] = "POSTED" /\ MayChange(d) /\ Put(d, doc[d], month[d], "CANCELLED")

-----------------------------------------------------------------------------
(* The record of returns: create_gst_return_status, update_gst_return_status. *)

File(t, m, s) ==
    filing' = [filing EXCEPT ![t, m] = [status |-> s, filed_at |-> s = "FILED"]]
RecordReturn(t, m, s) ==
    /\ m \in using.filing /\ filing[t, m] = Unfiled /\ File(t, m, s)
    /\ UNCHANGED <<status, doc, month, using>>
UpdateReturn(t, m, s) ==
    /\ filing[t, m] # Unfiled /\ File(t, m, s)
    /\ UNCHANGED <<status, doc, month, using>>

Next ==
    \/ \E d \in Documents :
        \/ Finalize(d) \/ Cancel(d)
        \/ \E p \in Payloads : Edit(d, p) \/ \E m \in Months : Create(d, p, m)
        \/ \E p \in Payloads : EditPlace(d, Terms[p].pos)
    \/ \E t \in Types, m \in Months, s \in Filings : RecordReturn(t, m, s) \/ UpdateReturn(t, m, s)

Spec == Init /\ [][Next]_vars

-----------------------------------------------------------------------------
(* get_gstr1_report                                                        *)

Counted(kind, m) == {d \in Documents : status[d] = "POSTED" /\ Kind[d] = kind /\ month[d] = m}
Sales(m) == Counted("invoice", m)
LineSum(d) == SumOver(DOMAIN doc[d].lines, LAMBDA i : doc[d].lines[i].taxable)
Apart(a, b) == IF a > b THEN a - b ELSE b - a

\* Lines that do not add up to the header were stored with their discount and freight.
Allocated(d) == Apart(LineSum(d), doc[d].subtotal) > Paisa
Taxable(d) == IF Allocated(d) THEN LineSum(d) ELSE Reported(doc[d].subtotal - doc[d].discount)

\* Mutant: what rounding left is lost.
FixNothing(amounts, target) == amounts
\* _fix_residual: the largest amount takes what rounding left.
FixResidual(amounts, target) ==
    LET largest == CHOOSE i \in DOMAIN amounts : \A j \in DOMAIN amounts :
                       amounts[j] < amounts[i] \/ (amounts[j] = amounts[i] /\ i <= j)
    IN  [amounts EXCEPT ![largest] = @ + target - SumOver(DOMAIN amounts, LAMBDA i : amounts[i])]

Columns == Heads \cup {"taxable"}
Column(line, c) == IF c = "taxable" THEN line.taxable ELSE line.tax[c]
\* _discounted_lines: the amounts of the lines, by column.
Discounted(d) ==
    LET lines == doc[d].lines
        scaled(x) == IF Allocated(d) THEN x
                     ELSE Paisa * HalfUp((x \div Paisa) * (Taxable(d) \div Paisa), LineSum(d) \div Paisa)
        row(c) == [i \in DOMAIN lines |-> scaled(Column(lines[i], c))]
    IN  [c \in Columns |->
            IF c = "taxable" THEN FixResidual(row(c), Taxable(d))
            ELSE IF ~doc[d].rcm THEN FixResidual(row(c), doc[d].tax[c])
            ELSE IF Allocated(d) THEN row(c) ELSE [i \in DOMAIN lines |-> 0]]

\* Sections: invoices to registered customers, large ones to other states, and the rest
\* by place and rate.
B2b(m) == {d \in Sales(m) : doc[d].gstin}
B2cl(m) == {d \in Sales(m) \ B2b(m) : doc[d].pos # Origin /\ doc[d].total > Large[m]}
B2cs(m) == Sales(m) \ (B2b(m) \cup B2cl(m))
LinesOf(S) == {l \in S \X (1 .. 3) : l[2] \in DOMAIN doc[l[1]].lines}
Grouped(S, key(_), c) ==
    [k \in {key(l) : l \in LinesOf(S)} |->
        SumOver({l \in LinesOf(S) : key(l) = k}, LAMBDA l : Discounted(l[1])[c][l[2]])]
PlaceAndRate(l) == <<doc[l[1]].pos, doc[l[1]].lines[l[2]].rate>>
B2csGroups(m, c) == Grouped(B2cs(m), PlaceAndRate, c)
HsnGroups(m, c) == Grouped(Sales(m), LAMBDA l : doc[l[1]].lines[l[2]].hsn, c)
\* Notes by the customer of their invoice.
Cdnr(m) == {d \in Counted("credit", m) \cup Counted("debit", m) : doc[SourceOf[d]].gstin}
Cdnur(m) == (Counted("credit", m) \cup Counted("debit", m)) \ Cdnr(m)

\* What a large sale is listed with: its taxable value and IGST.
ListedTax(m, h) ==
    SumOver(B2b(m), LAMBDA d : doc[d].tax[h])
    + (IF h = "igst" THEN SumOver(B2cl(m), LAMBDA d : doc[d].tax.igst) ELSE 0)
    + SumOver(DOMAIN B2csGroups(m, h), LAMBDA k : B2csGroups(m, h)[k])
ListedTaxable(m) ==
    SumOver(B2b(m) \cup B2cl(m), Taxable)
    + SumOver(DOMAIN B2csGroups(m, "taxable"), LAMBDA k : B2csGroups(m, "taxable")[k])

\* export_gstr1_offline_json: refused for anything but domestic supplies; lines without
\* tax are left out of the invoices and one figure of the small sales.
FileRefused(m) == \E d \in Sales(m) : doc[d].abroad
Untaxed(S) == {l \in LinesOf(S) : doc[l[1]].lines[l[2]].rate = 0}
FileItems(m) ==
    LET values == [l \in LinesOf(Sales(m)) \ Untaxed(Sales(m)) |-> Discounted(l[1])["taxable"][l[2]]]
    IN  SumOver(DOMAIN values, LAMBDA l : values[l])
FileNil(m) == SumOver(Untaxed(B2cs(m)), LAMBDA l : Discounted(l[1])["taxable"][l[2]])

\* export_gstr1: refused for untaxed lines, too; the stored lines of registered customers
\* by rate, the groups of the small sales, and no sheet for the large ones.
BookRefused(m) == FileRefused(m) \/ Untaxed(Sales(m)) # {}
BookTaxable(m) ==
    SumOver(B2b(m), LineSum)
    + SumOver(DOMAIN B2csGroups(m, "taxable"), LAMBDA k : B2csGroups(m, "taxable")[k])

-----------------------------------------------------------------------------
(* GSTR1Service, GSTR3BService: the taxable value is that of the header,   *)
(* without freight, and the tax of union territories has no column.        *)

HeaderTaxable(d) == Reported(doc[d].subtotal) - Reported(doc[d].discount)
Known == Heads \ {"utgst"}
Exports(m) == {d \in Sales(m) : doc[d].abroad}
ReverseCharged(m) == {d \in Sales(m) \ Exports(m) : doc[d].rcm}
ServiceB2cl(m) ==
    {d \in Sales(m) \ (Exports(m) \cup ReverseCharged(m)) :
        ~doc[d].gstin /\ doc[d].pos # Origin /\ doc[d].total >= ServiceLarge}
ServiceB2cs(m) ==
    {d \in Sales(m) \ (Exports(m) \cup ReverseCharged(m)) : ~doc[d].gstin} \ ServiceB2cl(m)
ServiceTotals(m) ==
    [c \in Known \cup {"taxable"} |->
        SumOver(Sales(m) \ ReverseCharged(m),
                LAMBDA d : IF c = "taxable" THEN HeaderTaxable(d)
                           ELSE IF d \in Exports(m) /\ c # "igst" THEN 0 ELSE doc[d].tax[c])]
ServiceSections(m, c) ==
    SumOver(Sales(m) \ (ReverseCharged(m) \cup ServiceB2cs(m)),
            LAMBDA d : IF c = "taxable" THEN HeaderTaxable(d)
                       ELSE IF d \in Exports(m) \cup ServiceB2cl(m) /\ c # "igst" THEN 0
                       ELSE doc[d].tax[c])
    + SumOver(LinesOf(ServiceB2cs(m)), LAMBDA l : Column(doc[l[1]].lines[l[2]], c))

WithTax(m) == {d \in Sales(m) : SumOver(Known, LAMBDA h : doc[d].tax[h]) # 0}
Output(m, h) == SumOver(WithTax(m), LAMBDA d : doc[d].tax[h])
Credit(m, h) == SumOver({b \in Counted("bill", m) : doc[b].itc}, LAMBDA b : doc[b].tax[h])
Summary(m) ==
    [outward |-> SumOver(WithTax(m), HeaderTaxable), nil |-> SumOver(Sales(m) \ WithTax(m), HeaderTaxable),
     payable |-> [h \in Known |-> IF Output(m, h) > Credit(m, h) THEN Output(m, h) - Credit(m, h) ELSE 0]]

-----------------------------------------------------------------------------
(* get_gstr2_report, export_gstr2: bills by their headers, before the      *)
(* discount, and by HSN; the workbook computes the tax of a rate anew.     *)

InwardBills(m) == [registered |-> {b \in Counted("bill", m) : doc[b].gstin},
                   others |-> {b \in Counted("bill", m) : ~doc[b].gstin},
                   returned |-> Counted("return", m)]
InwardTax(S, h) == SumOver(S, LAMBDA b : doc[b].tax[h])
InwardHsn(m, c) == SumOver(LinesOf(Counted("bill", m)), LAMBDA l : Column(doc[l[1]].lines[l[2]], c))
Recomputed(b) ==
    SumOver(DOMAIN doc[b].lines, LAMBDA i : HalfUp(doc[b].lines[i].taxable * doc[b].lines[i].rate, 100))

-----------------------------------------------------------------------------
TypeOK ==
    /\ \A d \in Documents :
        /\ status[d] \in {"none", "DRAFT", "POSTED", "CANCELLED"} /\ month[d] \in Months
        /\ DOMAIN doc[d] = DOMAIN Blank
    /\ \A r \in DOMAIN filing : filing[r].status \in Filings \cup {"none"}
                                /\ (filing[r].filed_at <=> filing[r].status = "FILED")

-----------------------------------------------------------------------------
(* What the figures of a month have to do with each other.                 *)

OfSales(m, f(_)) == SumOver(Sales(m), f)
\* Tax a line keeps although the receiver pays it: the lines of such an invoice are
\* cleared only when they were not stored with a discount or freight.
Kept(m, h) ==
    SumOver(LinesOf({d \in Sales(m) : doc[d].rcm /\ Allocated(d)}), LAMBDA l : doc[l[1]].lines[l[2]].tax[h])
KeptSmall(m, h) ==
    SumOver(LinesOf({d \in B2cs(m) : doc[d].rcm /\ Allocated(d)}), LAMBDA l : doc[l[1]].lines[l[2]].tax[h])
\* Invoices whose place of supply was moved after they were taxed.
Moved(d) == doc[d].pos # doc[d].taxed_in
Near(a, b, lines) == Apart(a, b) <= Paisa * lines
LinesIn(S) == SumOver(S, LAMBDA d : Len(doc[d].lines))

\* The return of outward supplies and the books report one tax: every invoice of the
\* month is in one section, the sections and the HSN summary add up to the headers, and
\* so do the taxable values, to a paisa for a line.  Where they do not is known: freight
\* that equals the discount, to a paisa, makes the report take the lines for undiscounted
\* and lose it; reverse charge with a discount keeps tax in the lines; a large sale
\* shows its IGST only, which loses the tax of one whose place was moved.
OutwardAgrees(m) ==
    LET hsn(c) == SumOver(DOMAIN HsnGroups(m, c), LAMBDA k : HsnGroups(m, c)[k])
        base(d) == doc[d].subtotal - doc[d].discount + IF Allocated(d) THEN doc[d].taxed ELSE 0
    IN  /\ \A h \in Heads :
            LET tax == OfSales(m, LAMBDA d : doc[d].tax[h])
                hidden == SumOver({d \in B2cl(m) : h # "igst"}, LAMBDA d : doc[d].tax[h])
            IN  /\ hsn(h) = tax + Kept(m, h)
                /\ ListedTax(m, h) = tax + KeptSmall(m, h) - hidden
        /\ \A d \in B2cl(m) : ~Moved(d) => \A h \in Heads \ {"igst"} : doc[d].tax[h] = 0
        /\ hsn("taxable") = ListedTaxable(m)
        /\ Near(ListedTaxable(m), OfSales(m, base), LinesIn(Sales(m)))
        \* The exported file drops what is not taxed of the listed invoices, the workbook
        \* the large sales.
        /\ ~FileRefused(m) =>
               FileItems(m) + FileNil(m)
                   = hsn("taxable") - SumOver(Untaxed(B2b(m) \cup B2cl(m)),
                                              LAMBDA l : Discounted(l[1])["taxable"][l[2]])
        /\ ~BookRefused(m) =>
               Near(BookTaxable(m) + SumOver(B2cl(m), Taxable),
                    hsn("taxable") + SumOver({d \in B2b(m) : ~Allocated(d)}, LAMBDA d : doc[d].taxed),
                    2 * LinesIn(Sales(m)))

\* The second service and the summary return say the same of the tax they have columns
\* for, of what is not exported or paid by the receiver; the freight of small sales is
\* in their lines only.
SummaryAgrees(m) ==
    LET small == ServiceB2cs(m)
    IN  /\ \A h \in Known :
            ServiceSections(m, h) = ServiceTotals(m)[h] - SumOver({d \in ServiceB2cl(m) : h # "igst"},
                                                                 LAMBDA d : doc[d].tax[h])
        /\ Near(ServiceSections(m, "taxable"),
                ServiceTotals(m)["taxable"] + SumOver(small, LAMBDA d : doc[d].taxed), 2 * LinesIn(Sales(m)))
        /\ \A h \in Known : Output(m, h) = ServiceTotals(m)[h]
        /\ Summary(m).outward + Summary(m).nil
              = ServiceTotals(m)["taxable"] + SumOver(ReverseCharged(m), HeaderTaxable)
        /\ \A d \in WithTax(m) : ~doc[d].rcm

\* Inward: lines and headers say one tax, the workbook's is it to a paisa for a line
\* and share, and what was returned completely leaves nothing.
InwardAgrees(m) ==
    LET bills == Counted("bill", m)
    IN  /\ \A h \in Heads : InwardHsn(m, h) = InwardTax(InwardBills(m).registered \cup InwardBills(m).others, h)
        /\ \A b \in bills : Near(Recomputed(b), SumOver(Heads, LAMBDA h : doc[b].tax[h]), Len(doc[b].lines))
        /\ \A b \in bills : Gone(b) = Units =>
               \A h \in Heads : InwardTax(Returns(b), h) = doc[b].tax[h]

\* What a preview shows is what creation stores, but for exports without tax: the rate
\* the preview recomputes with is asked for without the kind of supply, and taxes them.
PreviewsAgree ==
    \A p \in using.payloads :
        LET q == Terms[p]
            bought == [q EXCEPT !.rcm = FALSE, !.supply = "domestic"]
        IN  /\ q.supply # "free" => Previewed(q, Origin, q.pos) = Stored(q, Origin, q.pos)
            /\ PreviewedBill(bought, q.pos, Origin) = Stored(bought, q.pos, Origin)
            /\ PreviewedNote(q, Origin, q.pos) = Note(q, Origin, q.pos)

ReturnsAgree == PreviewsAgree /\ \A m \in Months : OutwardAgrees(m) /\ SummaryAgrees(m) /\ InwardAgrees(m)

\* What a filed return reports stays as it was reported, while the return is filed:
\* invoices, credit notes, bills and purchase returns are neither changed nor cancelled.
\* Invoices may join it, and debit notes leave it.
FiledStands ==
    [][\A d \in Documents :
          status[d] = "POSTED" /\ Kind[d] # "debit" /\ Locked(IF Outward(d) THEN Types ELSE {"GSTR3B"}, month[d])
              => status'[d] = "POSTED" /\ doc'[d] = doc[d]]_vars
=============================================================================
