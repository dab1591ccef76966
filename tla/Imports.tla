------------------------------ MODULE Imports ------------------------------
(***************************************************************************)
(* The importers: a Vyapar backup, a Tally file and a bundle of CSV files  *)
(* become documents and receipts, and get their journal entries with the   *)
(* helpers of backfill_posting, which also repair what an earlier release  *)
(* imported without any.  Each import is one transaction; no lock keeps    *)
(* two apart, and one at a time is ASSUMED.  Around them users draft,      *)
(* finalize, cancel and discard documents of their own.                    *)
(*                                                                         *)
(* Masters, lines and fields that no property tells apart are left out,    *)
(* and every voucher has a party and at least one line.                    *)
(***************************************************************************)
EXTENDS Integers, Sequences, FiniteSets, FiniteSetsExt, SequencesExt

CONSTANTS
    Files, SourceOf, Content,   \* Files -> "vyapar" | "tally" | "csv"; Files -> sequences of vouchers
    Legacies,                   \* the rows an earlier release may have left without entries
    MaxImports, MaxDrafts       \* bounds of the model

VARIABLES
    rows,       \* documents and payments, in the order of their creation
    series,     \* the last number of each numbering series
    imported    \* the files whose import committed, in order

vars == <<rows, series, imported>>

None == <<"none", 0, 0>>        \* numbers are <<prefix, number, suffix>>
Invoices == {"invoice", "bill"}
Payments == {"receipt", "disbursement"}
Kinds == Invoices \cup Payments \cup {"estimate", "expense"}

\* A voucher has the amounts of its lines, with their tax, or the amount of what is
\* not a document; its taxes; and what was paid in cash.
Row(kind, number, total, tax, paid, status, txn, of) ==
    [kind |-> kind, number |-> number, total |-> total, tax |-> tax, paid |-> paid,
     status |-> status, live |-> TRUE, ref |-> None, reversed |-> FALSE, txn |-> txn, of |-> of]

\* The series of invoices and of bills have prefixes of their own, those that an import
\* takes for receipts (PAYMENT) and for disbursements have the same.
SeriesNumber(kind, n) == <<"series", n, IF kind = "invoice" THEN 1 ELSE IF kind = "bill" THEN 2 ELSE 3>>

Live(r, kind, number) == \E i \in DOMAIN r : r[i].kind = kind /\ r[i].number = number /\ r[i].live
\* The unique indexes count deleted rows too.
Used(r, kind, number) == \E i \in DOMAIN r : r[i].kind = kind /\ r[i].number = number

Init ==
    /\ rows \in Legacies
    /\ series = [k \in Invoices \cup Payments |-> 0]
    /\ imported = <<>>

-----------------------------------------------------------------------------
(* Entries: the helpers of backfill_posting.                               *)

Entered(r) == {r[i].ref : i \in DOMAIN r} \ {None}

\* Mutant: the number of a document is its reference whatever other entry has it.
PlainReference(r, i) == r[i].number
\* The reference of an entry is the number of its document, made different when an
\* invoice or a bill finds it taken; payments and expenses do not look.
Reference(r, i) ==
    IF r[i].kind \in Invoices /\ r[i].number \in Entered(r)
    THEN <<r[i].number[1], r[i].number[2], 100 + i>> ELSE r[i].number

\* No amount, an entry already, or a reference that the unique index refuses.
Refuses(r, i) == r[i].total <= 0 \/ r[i].ref # None \/ Reference(r, i) \in Entered(r)
Post(r, i) == IF Refuses(r, i) THEN r ELSE [r EXCEPT ![i].ref = Reference(r, i)]

\* One loop for each kind.
InOrder(r, S) ==
    LET loop(kind) == SelectSeq([i \in DOMAIN r |-> i], LAMBDA i : i \in S /\ r[i].kind = kind)
    IN  loop("invoice") \o loop("bill") \o loop("receipt") \o loop("disbursement") \o loop("expense")
\* Each in a savepoint, and what one refuses is skipped.
PostEach(r, S) == FoldLeft(Post, r, InOrder(r, S))
OfKind(r, kinds) == {i \in DOMAIN r : r[i].live /\ r[i].kind \in kinds}

Counted == {"POSTED", "PARTIALLY_PAID", "PAID"}

-----------------------------------------------------------------------------
(* Vyapar: vouchers in the order of their dates.                           *)

\* A voucher without a number of its own gets the next one of this import.
Own(s, v) == IF v.number # None THEN v.number ELSE <<v.kind, s.count[v.kind] + 1, 0>>
Counts(s, v) ==
    [s EXCEPT !.count = [@ EXCEPT ![v.kind] = IF v.number = None THEN @ + 1 ELSE @]]

\* _split_gst: two equal halves, each rounded to the even hundredth.
Half(tax) == LET h == tax \div 2 IN IF tax % 2 = 0 THEN h ELSE h + (h % 2)
SplitGst(v) == IF v.igst > 0 THEN v.igst ELSE 2 * Half(v.cgst)

\* The sum of the lines; without any, what was paid and what is owed.
TotalOf(v) == IF v.lines = <<>> THEN v.cash + v.owed ELSE FoldLeft(+, 0, v.lines)
Paid(v) == IF v.cash > TotalOf(v) THEN TotalOf(v) ELSE v.cash
\* What its cash makes of a document that is worth something, or nothing.
Settled(v, otherwise) ==
    IF Paid(v) >= TotalOf(v) THEN "PAID" ELSE IF Paid(v) > 0 THEN "PARTIALLY_PAID" ELSE otherwise

Sale(s, v) == Row("invoice", Own(s, v), TotalOf(v), SplitGst(v), Paid(v), Settled(v, "POSTED"), v.txn, 0)
Purchase(s, v) == Row("bill", Own(s, v), TotalOf(v), SplitGst(v), Paid(v), Settled(v, "UNPAID"), v.txn, 0)
Estimate(s, v) == Row("estimate", Own(s, v), TotalOf(v), SplitGst(v), 0, "ISSUED", v.txn, 0)
Made(s, v) ==
    [Counts(s, v) EXCEPT
        !.rows = Append(@, IF v.kind = "invoice" THEN Sale(s, v)
                           ELSE IF v.kind = "bill" THEN Purchase(s, v) ELSE Estimate(s, v)),
        !.made = Append(@, <<Len(s.rows) + 1, v>>)]

\* Mutant: a document is imported whether or not one has its number.
AddVoucherAgain(s, v) == Made(s, v)
\* A number that a live document has skips the voucher; one that a deleted document
\* has fails the import.
AddVoucher(s, v) ==
    IF Live(s.rows, v.kind, Own(s, v)) THEN Counts(s, v)
    ELSE IF Used(s.rows, v.kind, Own(s, v)) THEN [s EXCEPT !.ok = FALSE]
    ELSE Made(s, v)

PaymentOf(kind) == IF kind = "invoice" THEN "receipt" ELSE "disbursement"
\* next_payment_number: a payment of the same amount with the number of this
\* transaction is taken for this one; any other makes it take a suffix.
Instalment(r, kind, txn, amount) ==
    LET number(k) == <<"VYP-PAY", txn, k>>
        known == \E i \in DOMAIN r : /\ r[i].kind = kind /\ r[i].number = number(1)
                                     /\ r[i].live /\ r[i].total = amount
    IN  IF known THEN None
        ELSE number(CHOOSE k \in 1 .. Len(r) + 1 :
                        /\ ~Live(r, kind, number(k)) /\ \A j \in 1 .. k - 1 : Live(r, kind, number(j)))
\* The mapped payments of a document that this import made.
Pay(r, made) ==
    LET kind == PaymentOf(made[2].kind)
        one(q, amount) ==
            LET number == Instalment(q, kind, made[2].txn, amount)
            IN  IF amount <= 0 \/ number = None THEN q
                ELSE Append(q, Row(kind, number, amount, 0, amount, "ACTIVE", made[2].txn, made[1]))
    IN  IF made[2].kind = "estimate" THEN r ELSE FoldLeft(one, r, made[2].pays)

\* An estimate that an invoice of this import came from.
Linked(r, made) ==
    [i \in DOMAIN r |->
        IF \E k, j \in DOMAIN made : /\ made[k] = <<i, made[k][2]>> /\ made[k][2].kind = "estimate"
                                     /\ made[j][2].kind = "invoice" /\ made[j][2].from = made[k][2].txn
        THEN [r[i] EXCEPT !.status = "CONVERTED"] ELSE r[i]]
\* An e-way bill without the distance that its table demands fails the import.
Carried(made) == \E k \in DOMAIN made : made[k][2].kind = "invoice" /\ made[k][2].eway

Vyapar(f) ==
    FoldLeft(AddVoucher,
             [rows |-> rows, count |-> [k \in Kinds |-> 0], made |-> <<>>, ok |-> TRUE], Content[f])
\* Mutant: an unpaid bill gets no entry.
PostedNowPaid(r) == r.status \in Counted
PostedNow(r) == r.status \in Counted \cup (IF r.kind = "bill" THEN {"UNPAID"} ELSE {})

\* Documents of this import are posted, then payments of the whole company.
ImportVyapar(f) ==
    /\ SourceOf[f] = "vyapar" /\ Vyapar(f).ok /\ ~Carried(Vyapar(f).made)
    /\ LET s == Vyapar(f)
           own == {s.made[k][1] : k \in DOMAIN s.made}
           posted == PostEach(s.rows, {i \in own : s.rows[i].kind \in Invoices /\ PostedNow(s.rows[i])})
           paid == FoldLeft(Pay, posted, s.made)
       IN  rows' = Linked(PostEach(paid, OfKind(paid, Payments)), s.made)
    /\ UNCHANGED series

-----------------------------------------------------------------------------
(* Tally.                                                                  *)

\* A sale is worth its lines and its taxes, whatever their kind; a purchase keeps of
\* the taxes only the integrated one when there is one, and is worth them all.
TallySale(number, v) ==
    Row("invoice", number, FoldLeft(+, 0, v.lines) + v.cgst + v.igst, v.cgst + v.igst, 0, "POSTED", v.txn, 0)
TallyPurchase(number, v) ==
    Row("bill", number, FoldLeft(+, 0, v.lines) + v.cgst + v.igst,
        IF v.igst > 0 THEN v.igst ELSE v.cgst, 0, "POSTED", v.txn, 0)
\* The amount of the first ledger that is neither cash nor bank.
TallyReceipt(number, v) == Row("receipt", number, v.cash, 0, v.cash, "ACTIVE", v.txn, 0)
TallyPayment(number, v) == Row("disbursement", number, v.cash, 0, v.cash, "ACTIVE", v.txn, 0)

\* Sales and purchases keep their numbers, receipts and payments take one of the
\* series; notes and journal vouchers, and documents without lines, are passed over.
AddTally(s, v) ==
    LET kind == v.kind
        numbered == kind \in Invoices /\ v.number # None
        number == IF numbered THEN v.number ELSE SeriesNumber(kind, s.series[kind] + 1)
        row == IF kind = "invoice" THEN TallySale(number, v) ELSE IF kind = "bill" THEN TallyPurchase(number, v)
               ELSE IF kind = "receipt" THEN TallyReceipt(number, v) ELSE TallyPayment(number, v)
        next == [s.series EXCEPT ![kind] = IF numbered THEN @ ELSE @ + 1]
    IN  IF kind \notin Invoices \cup Payments THEN s
        ELSE IF kind \in Invoices /\ v.lines = <<>> THEN [s EXCEPT !.series = next]
        ELSE IF kind \in Payments /\ v.cash <= 0 THEN s
        ELSE [s EXCEPT !.series = next, !.ok = @ /\ ~Used(s.rows, kind, number), !.rows = Append(@, row)]
Tally(f) == FoldLeft(AddTally, [rows |-> rows, series |-> series, ok |-> TRUE], Content[f])

\* Every document and payment of the company is posted, whatever its status.
ImportTally(f) ==
    /\ SourceOf[f] = "tally" /\ Tally(f).ok
    /\ rows' = PostEach(Tally(f).rows, OfKind(Tally(f).rows, Invoices \cup Payments))
    /\ series' = Tally(f).series

\* export_tally_xml: lines with their tax, and for a sale the tax once more.
Exported(r) ==
    [kind |-> r.kind, number |-> r.number, txn |-> r.txn, cash |-> 0, lines |-> <<r.total>>, igst |-> 0,
     cgst |-> IF r.kind = "invoice" THEN r.tax ELSE 0]
ExportedRows == SelectSeq(rows, LAMBDA r : r.kind \in Invoices /\ r.live /\ r.status # "CANCELLED")
\* What another company makes of an export of this one.
Reimported == FoldLeft(AddTally, [rows |-> <<>>, series |-> series, ok |-> TRUE],
                       [i \in DOMAIN ExportedRows |-> Exported(ExportedRows[i])]).rows

-----------------------------------------------------------------------------
(* CSV.                                                                    *)

\* A later row of a number replaces the earlier one.
Loaded(f) ==
    LET c == Content[f]
        last(i) == \A j \in i + 1 .. Len(c) : <<c[j].kind, c[j].number>> # <<c[i].kind, c[i].number>>
        kept == SelectSeq([i \in DOMAIN c |-> i], last)
    IN  [k \in DOMAIN kept |-> c[kept[k]]]

\* The amount paid fits the status; the total is the sum of the lines.
DocumentFits(v) ==
    /\ v.cash \in 0 .. v.owed
    /\ v.status = "PAID" => v.cash = v.owed
    /\ v.status = "PARTIALLY_PAID" => v.cash \notin {0, v.owed}
    /\ v.status = "POSTED" => v.cash = 0
    /\ v.lines # <<>> => FoldLeft(+, 0, v.lines) = v.owed
\* An active payment settles a document of the bundle, in full; a cancelled one none.
PaymentFits(c, v) ==
    /\ v.owed > 0 /\ (v.status = "ACTIVE") = (v.of # None)
    /\ v.of # None => \E j \in DOMAIN c : PaymentOf(c[j].kind) = v.kind /\ c[j].number = v.of
\* What is allocated to a document, if anything, is what it says was paid, or differs
\* by less than a rupee.
AllocationFits(c, v) ==
    LET allocated == FoldLeft(LAMBDA n, p : n + (IF p.kind = PaymentOf(v.kind) /\ p.of = v.number
                                                 THEN p.owed ELSE 0), 0, c)
    IN  allocated # 0 => allocated = v.cash
\* _validate: and no live document has the number.
Valid(c) == \A i \in DOMAIN c : LET v == c[i] IN
    /\ ~Live(rows, v.kind, v.number)
    /\ v.kind \in Invoices => DocumentFits(v) /\ AllocationFits(c, v)
    /\ v.kind \in Payments => PaymentFits(c, v)
    /\ v.kind = "expense" => v.owed > 0

\* The status is found anew from the amounts; an expense is posted.
CsvDocument(v) ==
    Row(v.kind, v.number, v.owed, v.cgst + v.igst, v.cash,
        IF v.cash >= v.owed THEN "PAID" ELSE IF v.cash > 0 THEN "PARTIALLY_PAID" ELSE v.status, v.txn, 0)
CsvPayment(v) == Row(v.kind, v.number, v.owed, 0, v.owed, v.status, v.txn, 0)
CsvExpense(v) == Row("expense", v.number, v.owed, v.cgst + v.igst, 0, "POSTED", v.txn, 0)
CsvEstimate(v) == Row("estimate", v.number, v.owed, 0, 0, v.status, v.txn, 0)
AddCsv(r, v) ==
    Append(r, IF v.kind \in Invoices THEN CsvDocument(v) ELSE IF v.kind \in Payments THEN CsvPayment(v)
              ELSE IF v.kind = "expense" THEN CsvExpense(v) ELSE CsvEstimate(v))
Csv(f) == FoldLeft(AddCsv, rows, Loaded(f))

\* Every counted document, and every payment and expense, whatever its status, of
\* the company: the first that is refused undoes the import.
ToPost(r) ==
    {i \in OfKind(r, Invoices) : PostedNow(r[i])} \cup OfKind(r, Payments \cup {"expense"})
ImportCsv(f) ==
    /\ SourceOf[f] = "csv" /\ Valid(Loaded(f))
    /\ \A i \in DOMAIN Loaded(f) : ~Used(rows, Loaded(f)[i].kind, Loaded(f)[i].number)
    /\ LET posting == FoldLeft(LAMBDA s, i : <<Post(s[1], i), s[2] /\ ~Refuses(s[1], i)>>,
                               <<Csv(f), TRUE>>, InOrder(Csv(f), ToPost(Csv(f))))
       IN  posting[2] /\ rows' = posting[1]
    /\ UNCHANGED series

-----------------------------------------------------------------------------
(* The repair, and what users do.                                          *)

\* backfill_postings
Backfill ==
    /\ rows' = PostEach(rows, {i \in OfKind(rows, Invoices) : rows[i].status \in Counted}
                              \cup {i \in OfKind(rows, Payments) : rows[i].status = "ACTIVE"})
    /\ UNCHANGED <<series, imported>>

\* create_invoice: a draft.
Draft ==
    /\ Cardinality({i \in DOMAIN rows : rows[i].number[1] = "series" /\ rows[i].kind = "invoice"}) < MaxDrafts
    /\ ~Used(rows, "invoice", SeriesNumber("invoice", series["invoice"] + 1))
    /\ series' = [series EXCEPT !["invoice"] = @ + 1]
    /\ rows' = Append(rows, Row("invoice", SeriesNumber("invoice", series["invoice"] + 1), 5, 0, 0, "DRAFT", 0, 0))
    /\ UNCHANGED imported

\* finalize_invoice: a draft that has an entry already, or whose number is the
\* reference of another, cannot be.
Finalize(i) ==
    /\ rows[i].status = "DRAFT" /\ rows[i].live /\ rows[i].ref = None /\ rows[i].number \notin Entered(rows)
    /\ rows' = [rows EXCEPT ![i].status = "POSTED", ![i].ref = rows[i].number]
    /\ UNCHANGED <<series, imported>>

\* cancel_invoice of an invoice that nothing paid: a reversal, whether or not there
\* is an entry for it to reverse.
Cancel(i) ==
    /\ rows[i].kind = "invoice" /\ rows[i].status = "POSTED" /\ rows[i].live /\ rows[i].paid = 0
    /\ rows' = [rows EXCEPT ![i].status = "CANCELLED", ![i].reversed = TRUE]
    /\ UNCHANGED <<series, imported>>

\* delete_invoice: drafts only.
Discard(i) ==
    /\ rows[i].kind = "invoice" /\ rows[i].status = "DRAFT" /\ rows[i].live
    /\ rows' = [rows EXCEPT ![i].live = FALSE]
    /\ UNCHANGED <<series, imported>>

Import(f) ==
    /\ Len(imported) < MaxImports
    /\ imported' = Append(imported, f)
    /\ ImportVyapar(f) \/ ImportTally(f) \/ ImportCsv(f)

Next ==
    \/ \E f \in Files : Import(f)
    \/ Backfill \/ Draft
    \/ \E i \in DOMAIN rows : Finalize(i) \/ Cancel(i) \/ Discard(i)

Spec == Init /\ [][Next]_vars

-----------------------------------------------------------------------------
(* Properties.                                                             *)

\* Rows are what their kinds allow, and one number is one row.
TypeOK ==
    /\ \A i \in DOMAIN rows : rows[i].kind \in Kinds /\ rows[i].of \in 0 .. i - 1
    /\ \A i, j \in DOMAIN rows : rows[i].kind = rows[j].kind /\ rows[i].number = rows[j].number => i = j
    /\ Len(imported) <= MaxImports

CommittedOf(sources) == \E k \in DOMAIN imported : SourceOf[imported[k]] \in sources
InTheBooks(r) == r.live /\ (r.status \in Counted \cup {"UNPAID", "ACTIVE"} \/ r.reversed)
Legacy == {r.number : r \in UNION {Range(l) : l \in Legacies}}

\* Whatever was imported, in whichever order: a document or payment that counts has an
\* entry, unless it has no amount, or it is a payment whose number another entry took
\* as its reference, or an earlier release left it so.  A document that does not count
\* has one only where a Tally import posted what it found, a payment only where some
\* import did (csv_import.py:1424, tally.py:625, vyapar_import.py:1151).
BooksComplete ==
    \A i \in DOMAIN rows : LET r == rows[i] IN
        /\ r.live /\ r.kind # "estimate" /\ r.status \in Counted \cup {"UNPAID", "ACTIVE"} /\ r.ref = None
             => \/ r.total <= 0
                \/ r.kind \in Payments /\ r.number \in Entered(rows)
                \/ r.number \in Legacy
        /\ r.ref # None /\ ~InTheBooks(r) =>
             CommittedOf(IF r.kind \in Payments THEN {"csv", "tally", "vyapar"} ELSE {"tally"})
        /\ r.reversed /\ r.ref = None => r.total <= 0 \/ r.number \in Legacy

\* A sale that one company exports is worth its tax more to the company that imports
\* it; a purchase is worth the same (tally.py:761, tally.py:378).
RoundTrip ==
    \A i \in DOMAIN ExportedRows :
        Reimported[i].total - ExportedRows[i].total =
            (IF ExportedRows[i].kind = "invoice" THEN ExportedRows[i].tax ELSE 0)

ImportsBook == BooksComplete /\ RoundTrip

Again(f) == f \in Range(imported)
Fresh(f, v) == v.number # None /\ ~Used(rows, v.kind, v.number)
FirstOfItsNumber(f, k) ==
    \A j \in 1 .. k - 1 : <<Content[f][j].kind, Content[f][j].number>> # <<Content[f][k].kind, Content[f][k].number>>
NewRows == Len(rows) + 1 .. Len(rows')
Total(S) == FoldSet(LAMBDA i, n : n + rows'[i].total, 0, S)
DistinctPays(v) == FoldLeft(LAMBDA n, a : n + (IF a = v.pays[1] THEN 0 ELSE a), 0, v.pays)
                   + (IF v.pays = <<>> THEN 0 ELSE v.pays[1])

\* An import changes no row that was there, except to give it the entry it lacked.  A
\* backup or a bundle that was imported adds nothing when it is again; a Tally file
\* adds only what it does not number.  Of a new backup each voucher with a number of
\* its own that is new becomes one row of its amount, and its instalments become
\* payments, all but those that equal the first (vyapar_import.py:563,
\* import_normalization.py:31).
ImportedOnce ==
    [][/\ imported' # imported =>
            \A i \in DOMAIN rows : /\ [rows'[i] EXCEPT !.ref = None] = [rows[i] EXCEPT !.ref = None]
                                   /\ rows[i].ref # None => rows'[i].ref = rows[i].ref
       /\ \A f \in Files : imported' = Append(imported, f) =>
            /\ Again(f) /\ SourceOf[f] = "vyapar" => NewRows = {}
            /\ SourceOf[f] = "csv" => ~Again(f)
            /\ Again(f) /\ SourceOf[f] = "tally" => \A i \in NewRows : rows'[i].number[1] = "series"
            /\ SourceOf[f] = "vyapar" => \A k \in DOMAIN Content[f] : LET v == Content[f][k] IN
                 Fresh(f, v) /\ FirstOfItsNumber(f, k) =>
                   \E i \in NewRows :
                     /\ rows'[i].kind = v.kind /\ rows'[i].number = v.number
                     /\ rows'[i].total = TotalOf(v)
                     /\ v.kind = "estimate" \/ Used(rows, PaymentOf(v.kind), <<"VYP-PAY", v.txn, 1>>)
                        \/ Total({j \in NewRows : rows'[j].of = i}) = DistinctPays(v)]_vars
=============================================================================
