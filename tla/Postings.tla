------------------------------ MODULE Postings ------------------------------
(***************************************************************************)
(* LedgerPostingEngine (domains/accounting/services.py): the journal lines *)
(* a document is posted with, and those that take it back.                 *)
(*                                                                         *)
(* The columns of documents keep four decimals and journal lines two, so   *)
(* amounts are whole numbers of hundredths of a paisa on a document and of *)
(* paise on a line.  A line is signed: a debit is positive, a credit is    *)
(* negative, and zero means that there is no such line.                    *)
(*                                                                         *)
(* The five tax heads are one amount here: the tax engine rounds each head *)
(* to whole paise before it adds them up (domains/taxation/services.py:    *)
(* 296), so that rounding the sum or each head is the same.                *)
(***************************************************************************)
EXTENDS Integers

Kinds == {"posting", "reversal"}

\* The lines an entry may have.  The party is the customer, the vendor or, for
\* an expense, the account it is paid from; nominal is revenue, purchases, the
\* expense head, or the money account of a receipt or a disbursement.
Roles == {"party", "nominal", "shipping", "tax", "tds", "tcs", "partyRoundOff", "roundOff"}

\* net is subtotal - discount_total, with the tax folded in where the input
\* credit cannot be claimed; tax is zero on a reverse-charge invoice.
Amounts == [net : Nat, shipping : Nat, tax : Nat, tds : Nat, tcs : Nat, roundOff : Int]

Total(a) == a.net + a.shipping + a.tax - a.tds + a.tcs

\* Decimal.quantize("0.01"): half to even.
Quantized(x) ==
    LET paise == x \div 100
        rest == x % 100
    IN  IF rest < 50 \/ (rest = 50 /\ paise % 2 = 0) THEN paise ELSE paise + 1

Paise(x) == IF x >= 0 THEN Quantized(x) ELSE -Quantized(-x)

\* An entry on one side of the books: side = 1 debits the party.  The round-off
\* is a pair of lines of its own; roundSide = 1 debits the party for a positive one.
Entry(side, roundSide, a) ==
    [party |-> side * Quantized(Total(a)),
     nominal |-> -side * Quantized(a.net),
     shipping |-> -side * Quantized(a.shipping),
     tax |-> -side * Quantized(a.tax),
     tds |-> side * Quantized(a.tds),
     tcs |-> -side * Quantized(a.tcs),
     partyRoundOff |-> roundSide * Paise(a.roundOff),
     roundOff |-> -roundSide * Paise(a.roundOff)]

\* No entry at all.
Nothing == [r \in Roles |-> 0]

\* Mutant: JournalEntryDraft.validate does not compare the sums.
Unchecked(e) == TRUE

\* JournalEntryDraft.validate: debits equal credits, to the paisa.
Balanced(e) ==
    e.party + e.nominal + e.shipping + e.tax + e.tds + e.tcs + e.partyRoundOff + e.roundOff = 0

\* A line that is wanted survives rounding: JournalLineDraft refuses amounts
\* that are not positive and the table those that became zero.
Survives(x) == x # 0 => Paise(x) # 0

\* The entry is accepted.  It does not depend on the side.
Accepted(a) ==
    /\ a.net > 0 /\ Total(a) > 0
    /\ Survives(a.net) /\ Survives(Total(a))
    /\ Survives(a.shipping) /\ Survives(a.tax) /\ Survives(a.tds) /\ Survives(a.tcs)
    /\ Survives(a.roundOff)
    /\ Balanced(Entry(1, 1, a))

-----------------------------------------------------------------------------
(* One builder per create_..._posting method.                              *)

InvoicePosting(a) == Entry(1, 1, a)
BillPosting(a) == Entry(-1, -1, a)
ExpensePosting(a) == Entry(-1, -1, a)
PaymentReceiptPosting(a) == Entry(-1, -1, a)
PaymentOutPosting(a) == Entry(1, 1, a)
CreditNotePosting(a) == Entry(-1, -1, a)
DebitNotePosting(a) == Entry(1, 1, a)
SalesReturnPosting(a) == Entry(-1, -1, a)
PurchaseReturnPosting(a) == Entry(1, -1, a)

InvoiceReversal(a) == Entry(-1, -1, a)
\* The round-off of a bill and of an expense is reversed in the direction it
\* was posted in.
BillReversal(a) == Entry(1, -1, a)
ExpenseReversal(a) == Entry(1, -1, a)
PaymentReceiptReversal(a) == Entry(1, 1, a)
PaymentOutReversal(a) == Entry(-1, -1, a)
CreditNoteReversal(a) == Entry(1, 1, a)
DebitNoteReversal(a) == Entry(-1, -1, a)
SalesReturnReversal(a) == Entry(1, 1, a)
PurchaseReturnReversal(a) == Entry(-1, 1, a)

Types == {"invoice", "bill", "expense", "receipt", "disbursement", "credit_note",
          "debit_note", "sales_return", "purchase_return"}

PostingOf(type, a) ==
    CASE type = "invoice" -> InvoicePosting(a)
      [] type = "bill" -> BillPosting(a)
      [] type = "expense" -> ExpensePosting(a)
      [] type = "receipt" -> PaymentReceiptPosting(a)
      [] type = "disbursement" -> PaymentOutPosting(a)
      [] type = "credit_note" -> CreditNotePosting(a)
      [] type = "debit_note" -> DebitNotePosting(a)
      [] type = "sales_return" -> SalesReturnPosting(a)
      [] type = "purchase_return" -> PurchaseReturnPosting(a)

ReversalOf(type, a) ==
    CASE type = "invoice" -> InvoiceReversal(a)
      [] type = "bill" -> BillReversal(a)
      [] type = "expense" -> ExpenseReversal(a)
      [] type = "receipt" -> PaymentReceiptReversal(a)
      [] type = "disbursement" -> PaymentOutReversal(a)
      [] type = "credit_note" -> CreditNoteReversal(a)
      [] type = "debit_note" -> DebitNoteReversal(a)
      [] type = "sales_return" -> SalesReturnReversal(a)
      [] type = "purchase_return" -> PurchaseReturnReversal(a)

\* A reversal takes back what its posting put in, line by line.
Negates(reversal, posting) == \A r \in Roles : reversal[r] = -posting[r]
=============================================================================
