------------------------------ MODULE Taxation ------------------------------
(***************************************************************************)
(* What a document is worth and which tax it carries: the header discount  *)
(* and the freight are spread over its lines, and each line is taxed at    *)
(* its rate, for one state or between two.  Amounts are in hundredths of   *)
(* a paisa, the fourth decimal of the database; cess is always zero for    *)
(* these documents and is left out.                                        *)
(***************************************************************************)
EXTENDS Integers, Sequences, FiniteSetsExt

CONSTANTS UnionTerritories, Origin   \* the states with their own tax, the company's state

Paisa == 100
Heads == {"cgst", "sgst", "igst", "utgst"}
SumOver(S, f(_)) == MapThenSumSet(f, S)

\* Decimal.quantize of n / d, for amounts that are not negative.
HalfUp(n, d) == (2 * n + d) \div (2 * d)
HalfEven(n, d) ==
    LET up == HalfUp(n, d) IN IF 2 * n + d = 2 * d * up /\ up % 2 = 1 THEN up - 1 ELSE up
Reported(x) == Paisa * HalfUp(x, Paisa)

\* GSTEngine.calculate_tax: half of the tax, rounded, is the centre's; the state gets
\* what is left, so that the two are the tax of the line.
Half(tax) == Reported(tax \div 2)
StateShare(tax) == tax - Half(tax)
Split(origin, pos, forced, base, rate) ==
    LET tax == Reported(HalfUp(base * rate, 100))
        local == origin = pos /\ ~forced
        own == IF pos \in UnionTerritories THEN "utgst" ELSE "sgst"
    IN  [h \in Heads |-> IF h = "igst" THEN IF local THEN 0 ELSE tax
                         ELSE IF ~local THEN 0
                         ELSE IF h = "cgst" THEN Half(tax)
                         ELSE IF h = own THEN StateShare(tax) ELSE 0]

\* A payload names lines [amount, rate, hsn], a header discount in percent, freight,
\* the kind of supply ("domestic", "taxed" or "free" export), and whether prices include
\* the tax and the receiver pays it.
\* GSTEngine.resolve_gst_rate
Rate(p, i) == IF p.supply = "free" THEN 0 ELSE p.lines[i].rate
\* The price of a line before its tax, when the price includes it.
Net(p, i) ==
    IF p.inclusive THEN HalfUp(p.lines[i].amount * 100, 100 + Rate(p, i)) ELSE p.lines[i].amount

\* create_invoice, update_invoice and create_bill: the lines are stored as they are
\* taxed.  Freight is part of what is taxed unless prices include the tax.
Subtotal(p) == SumOver(DOMAIN p.lines, LAMBDA i : Net(p, i))
Discount(p) == HalfEven(Subtotal(p) * p.discount, 100)
Taxed(p) == IF p.inclusive THEN 0 ELSE p.freight
\* allocate_and_recompute_lines: shares in exact fractions, so that _fix_largest has
\* nothing to move.
Base(p, i) == HalfUp(Net(p, i) * (Subtotal(p) - Discount(p) + Taxed(p)), Subtotal(p))
Line(p, i, taxable, base, rate, forced, origin, pos) ==
    [taxable |-> taxable, rate |-> rate, hsn |-> p.lines[i].hsn,
     tax |-> Split(origin, pos, forced, base, rate)]
TaxedLines(p, origin, pos) ==
    [i \in DOMAIN p.lines |->
        Line(p, i, Reported(Base(p, i)), Base(p, i), Rate(p, i), p.supply # "domestic", origin, pos)]

\* The header: taxes are those of the lines, or none when the receiver pays them.
Header(p, lines, pos) ==
    LET tax == [h \in Heads |-> IF p.rcm THEN 0
                                ELSE SumOver(DOMAIN lines, LAMBDA i : lines[i].tax[h])]
    IN  [subtotal |-> Subtotal(p), discount |-> Discount(p), freight |-> p.freight,
         taxed |-> Taxed(p), lines |-> lines, tax |-> tax, pos |-> pos, taxed_in |-> pos,
         rcm |-> p.rcm, abroad |-> p.supply # "domestic", gstin |-> p.gstin, itc |-> p.itc, units |-> 0,
         total |-> Reported(Subtotal(p) - Discount(p) + p.freight + SumOver(Heads, LAMBDA h : tax[h]))]
Stored(p, origin, pos) == Header(p, TaxedLines(p, origin, pos), pos)

\* create_credit_note, create_debit_note: no discount and no freight, never forced to
\* IGST; what is taxed is not rounded.
NoteOf(p) == [p EXCEPT !.discount = 0, !.freight = 0, !.supply = "domestic", !.rcm = FALSE, !.inclusive = FALSE]
Note(p, origin, pos) ==
    LET q == NoteOf(p)
        lines == [i \in DOMAIN q.lines |-> Line(q, i, Net(q, i), Net(q, i), Rate(q, i), FALSE, origin, pos)]
    IN  Header(q, lines, pos)

\* preview_invoice: rates are asked for without the kind of supply, and whether IGST is
\* forced is read off the tax that a line alone would carry.
Forced(p, i, origin, pos) ==
    \/ Split(origin, pos, p.supply # "domestic", Net(p, i), Rate(p, i)).igst > 0
    \/ p.lines[i].rate = 0
Previewed(p, origin, pos) ==
    Header(p, [i \in DOMAIN p.lines |-> Line(p, i, Reported(Base(p, i)), Base(p, i), p.lines[i].rate,
                                             Forced(p, i, origin, pos), origin, pos)], pos)
\* preview_bill, preview_credit_note, preview_debit_note
PreviewedBill(p, origin, pos) ==
    Header(p, [i \in DOMAIN p.lines |-> Line(p, i, Reported(Base(p, i)), Base(p, i), p.lines[i].rate,
                                             FALSE, origin, pos)], pos)
PreviewedNote(p, origin, pos) ==
    LET q == NoteOf(p)
    IN  Header(q, [i \in DOMAIN q.lines |-> Line(q, i, Net(q, i), Net(q, i), q.lines[i].rate, FALSE, origin, pos)],
               pos)

\* create_expense and preview_expense: _compute_expense_totals.
Expense(amount, rate, origin, pos) ==
    LET tax == Split(origin, pos, FALSE, amount, rate)
        exact == amount + SumOver(Heads, LAMBDA h : tax[h])
    IN  [tax |-> tax, total |-> Reported(exact), round_off |-> Reported(exact) - exact]
=============================================================================
