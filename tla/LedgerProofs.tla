---------------------------- MODULE LedgerProofs ----------------------------
(***************************************************************************)
(* The general ledger, for every set of documents, accounts, amounts and   *)
(* concurrent requests, in three parts.                                    *)
(* 1. Entries: what the entry builders guarantee for every amount: which   *)
(*    documents balance, how far apart rounding can drive the two sides,   *)
(*    and which reversals take their posting back.                         *)
(* 2. Documents: the books say what the documents say.                     *)
(* 3. Balances: accounts.current_balance is the ledger, and the trial      *)
(*    balance does not move, but for the balances an account loaded before *)
(*    it was locked leaves unwritten.  This needs nothing of the           *)
(*    assumptions of the second part: an entry may be the wrong one, but   *)
(*    it is never half in the balances.                                    *)
(***************************************************************************)
EXTENDS Ledger, SumTheorems, TLAPS

-----------------------------------------------------------------------------
(* Part 1: entries.                                                        *)

Signs == {-1, 1}

-----------------------------------------------------------------------------
(* Rounding.                                                               *)

\* quantize is exact on whole paise.
LEMMA QuantizedExact == ASSUME NEW p \in Nat PROVE Quantized(100 * p) = p
  <1>1. (100 * p) \div 100 = p /\ (100 * p) % 100 = 0
    OBVIOUS
  <1> QED
    BY <1>1 DEF Quantized

\* quantize moves an amount by half a paisa at most.
LEMMA QuantizedNear ==
    ASSUME NEW x \in Nat
    PROVE  Quantized(x) \in Nat /\ 100 * Quantized(x) - x \in -50..50
  <1>1. x \div 100 \in Nat /\ x % 100 \in 0..99 /\ x = 100 * (x \div 100) + (x % 100)
    OBVIOUS
  <1>2. CASE Quantized(x) = x \div 100
    <2>1. x % 100 <= 50
      BY <1>1, <1>2 DEF Quantized
    <2> QED
      BY <1>1, <1>2, <2>1
  <1>3. CASE Quantized(x) # x \div 100
    <2>1. Quantized(x) = x \div 100 + 1 /\ x % 100 >= 50
      BY <1>1, <1>3 DEF Quantized
    <2> QED
      BY <1>1, <2>1
  <1> QED
    BY <1>2, <1>3

\* What is stored is a whole number of paise.
LEMMA PaiseInteger == ASSUME NEW x \in Int PROVE Paise(x) \in Int
  BY QuantizedNear DEF Paise

\* An amount of half a paisa or less disappears: it is a line of zero, which
\* the journal_lines table refuses.
LEMMA DustVanishes == ASSUME NEW x \in -50..50 PROVE Paise(x) = 0
  <1>1. ASSUME NEW y \in 0..50 PROVE Quantized(y) = 0
    <2>1. y \div 100 = 0 /\ y % 100 = y /\ 0 % 2 = 0
      OBVIOUS
    <2> QED
      BY <2>1 DEF Quantized
  <1>2. CASE x >= 0
    BY <1>1, <1>2 DEF Paise
  <1>3. CASE x < 0
    <2>1. -x \in 0..50
      BY <1>3
    <2> QED
      BY <1>1, <1>3, <2>1 DEF Paise
  <1> QED
    BY <1>2, <1>3

\* The six roundings of an entry.
LEMMA LinesInteger ==
    ASSUME NEW a \in Amounts, Total(a) \in Nat
    PROVE  /\ Quantized(Total(a)) \in Nat /\ Quantized(a.net) \in Nat
           /\ Quantized(a.shipping) \in Nat /\ Quantized(a.tax) \in Nat
           /\ Quantized(a.tds) \in Nat /\ Quantized(a.tcs) \in Nat
           /\ Paise(a.roundOff) \in Int
  BY QuantizedNear, PaiseInteger DEF Amounts

-----------------------------------------------------------------------------
(* Double entry.                                                           *)

\* The two sides of an entry differ by this much, in paise, on the party's side.
Gap(a) == Quantized(Total(a)) + Quantized(a.tds)
          - Quantized(a.net) - Quantized(a.shipping) - Quantized(a.tax) - Quantized(a.tcs)

\* An entry balances exactly when the roundings of its amounts leave no gap.
LEMMA BalancedIsNoGap ==
    ASSUME NEW a \in Amounts, Total(a) \in Nat, NEW side \in Signs, NEW roundSide \in Signs
    PROVE  Balanced(Entry(side, roundSide, a)) <=> Gap(a) = 0
  <1>1. CASE side = 1 /\ roundSide = 1
    BY <1>1, LinesInteger DEF Balanced, Entry, Gap
  <1>2. CASE side = 1 /\ roundSide = -1
    BY <1>2, LinesInteger DEF Balanced, Entry, Gap
  <1>3. CASE side = -1 /\ roundSide = 1
    BY <1>3, LinesInteger DEF Balanced, Entry, Gap
  <1>4. CASE side = -1 /\ roundSide = -1
    BY <1>4, LinesInteger DEF Balanced, Entry, Gap
  <1> QED
    BY <1>1, <1>2, <1>3, <1>4 DEF Signs

\* Every builder makes an entry on one side or the other.
Entries(a) == {Entry(side, roundSide, a) : side \in Signs, roundSide \in Signs}

\* Every builder of a posting or a reversal makes an entry of the one shape.
LEMMA BuildersMakeEntries ==
    ASSUME NEW type \in Types, NEW a
    PROVE  PostingOf(type, a) \in Entries(a) /\ ReversalOf(type, a) \in Entries(a)
  <1>1. CASE type \in {"invoice", "disbursement", "debit_note"}
    <2>1. PostingOf(type, a) = Entry(1, 1, a) /\ ReversalOf(type, a) = Entry(-1, -1, a)
      BY <1>1 DEF PostingOf, ReversalOf, InvoicePosting, InvoiceReversal, PaymentOutPosting,
                    PaymentOutReversal, DebitNotePosting, DebitNoteReversal
    <2> QED
      BY <2>1 DEF Entries, Signs
  <1>2. CASE type \in {"receipt", "credit_note", "sales_return"}
    <2>1. PostingOf(type, a) = Entry(-1, -1, a) /\ ReversalOf(type, a) = Entry(1, 1, a)
      BY <1>2 DEF PostingOf, ReversalOf, PaymentReceiptPosting, PaymentReceiptReversal,
                    CreditNotePosting, CreditNoteReversal, SalesReturnPosting, SalesReturnReversal
    <2> QED
      BY <2>1 DEF Entries, Signs
  <1>3. CASE type \in {"bill", "expense"}
    <2>1. PostingOf(type, a) = Entry(-1, -1, a) /\ ReversalOf(type, a) = Entry(1, -1, a)
      BY <1>3 DEF PostingOf, ReversalOf, BillPosting, BillReversal, ExpensePosting, ExpenseReversal
    <2> QED
      BY <2>1 DEF Entries, Signs
  <1>4. CASE type = "purchase_return"
    <2>1. PostingOf(type, a) = Entry(1, -1, a) /\ ReversalOf(type, a) = Entry(-1, 1, a)
      BY <1>4 DEF PostingOf, ReversalOf, PurchaseReturnPosting, PurchaseReturnReversal
    <2> QED
      BY <2>1 DEF Entries, Signs
  <1> QED
    BY <1>1, <1>2, <1>3, <1>4 DEF Types

\* An entry that is accepted leads to no refusal later: whatever
\* JournalEntryDraft.validate admitted as a posting it admits as the reversal of
\* the same amounts, and every entry of every type balances.
THEOREM AcceptedPostsAndReverses ==
    ASSUME NEW type \in Types, NEW a \in Amounts, Accepted(a)
    PROVE  Balanced(PostingOf(type, a)) /\ Balanced(ReversalOf(type, a))
  <1>1. Total(a) \in Nat
    BY DEF Accepted, Total, Amounts
  <1>2. Gap(a) = 0
    BY <1>1, BalancedIsNoGap DEF Accepted, Signs
  <1>3. \A e \in Entries(a) : Balanced(e)
    BY <1>1, <1>2, BalancedIsNoGap DEF Entries
  <1> QED
    BY <1>3, BuildersMakeEntries

\* A document whose amounts are whole paise always balances: rounding to the
\* journal's two decimals (JournalLineDraft) never refuses it.
THEOREM WholePaiseBalance ==
    ASSUME NEW n \in Nat, NEW h \in Nat, NEW t \in Nat, NEW d \in Nat, NEW c \in Nat, NEW r \in Int,
           NEW a, a = [net |-> 100 * n, shipping |-> 100 * h, tax |-> 100 * t,
                       tds |-> 100 * d, tcs |-> 100 * c, roundOff |-> r],
           Total(a) \in Nat, NEW type \in Types
    PROVE  Balanced(PostingOf(type, a)) /\ Balanced(ReversalOf(type, a))
  <1>1. a \in Amounts
    BY DEF Amounts
  <1>2. Total(a) = 100 * (n + h + t - d + c) /\ n + h + t - d + c \in Nat
    BY DEF Total
  <1>3. Quantized(Total(a)) = n + h + t - d + c
    BY <1>2, QuantizedExact
  <1>4. Gap(a) = 0
    <2>1. /\ Quantized(a.net) = n /\ Quantized(a.shipping) = h /\ Quantized(a.tax) = t
          /\ Quantized(a.tds) = d /\ Quantized(a.tcs) = c
      BY QuantizedExact
    <2> QED
      BY <1>3, <2>1 DEF Gap
  <1>5. \A e \in Entries(a) : Balanced(e)
    BY <1>1, <1>4, BalancedIsNoGap DEF Entries
  <1> QED
    BY <1>5, BuildersMakeEntries

\* Rounding every line on its own drives the two sides of an entry apart by
\* three paise at most, however many decimals the document keeps.
THEOREM GapBounded ==
    ASSUME NEW a \in Amounts, Total(a) \in Nat
    PROVE  Gap(a) \in -3..3
  <1> DEFINE Error(x) == 100 * Quantized(x) - x
  <1>1. a.net \in Nat /\ a.shipping \in Nat /\ a.tax \in Nat /\ a.tds \in Nat /\ a.tcs \in Nat
    BY DEF Amounts
  <1>2. /\ Error(Total(a)) \in -50..50 /\ Error(a.tds) \in -50..50 /\ Error(a.net) \in -50..50
        /\ Error(a.shipping) \in -50..50 /\ Error(a.tax) \in -50..50 /\ Error(a.tcs) \in -50..50
    BY <1>1, QuantizedNear
  <1>3. 100 * Gap(a) = Error(Total(a)) + Error(a.tds) - Error(a.net) - Error(a.shipping)
                       - Error(a.tax) - Error(a.tcs)
    BY <1>1, LinesInteger DEF Gap, Total
  <1>4. Gap(a) \in Int
    BY LinesInteger DEF Gap
  <1>5. ASSUME NEW g \in Int,
               NEW e1 \in -50..50, NEW e2 \in -50..50, NEW e3 \in -50..50,
               NEW e4 \in -50..50, NEW e5 \in -50..50, NEW e6 \in -50..50,
               100 * g = e1 + e2 - e3 - e4 - e5 - e6
        PROVE  g \in -3..3
    BY <1>5
  <1> HIDE DEF Error
  <1> QED
    BY <1>2, <1>3, <1>4, <1>5

\* Tax deducted that ends on half a paisa, on a document of whole paise: half to
\* even rounds it and the total the same way or apart, and the document is
\* refused exactly if it comes to an odd number of paise.
THEOREM HalfPaisaDeducted ==
    ASSUME NEW n \in Nat, NEW k \in Nat, k < n,
           NEW a, a = [net |-> 100 * n, shipping |-> 0, tax |-> 0, tds |-> 100 * k + 50,
                       tcs |-> 0, roundOff |-> 0]
    PROVE  Balanced(InvoicePosting(a)) <=> n % 2 = 0
  <1>1. a \in Amounts /\ Total(a) = 100 * (n - k - 1) + 50 /\ n - k - 1 \in Nat
    BY DEF Amounts, Total
  <1>2. ASSUME NEW m \in Nat
        PROVE  Quantized(100 * m + 50) = IF m % 2 = 0 THEN m ELSE m + 1
    <2>1. (100 * m + 50) \div 100 = m /\ (100 * m + 50) % 100 = 50
      OBVIOUS
    <2> QED
      BY <2>1 DEF Quantized
  <1>3. /\ Quantized(Total(a)) = IF (n - k - 1) % 2 = 0 THEN n - k - 1 ELSE n - k
        /\ Quantized(a.tds) = IF k % 2 = 0 THEN k ELSE k + 1
    <2>1. Quantized(100 * (n - k - 1) + 50) =
              IF (n - k - 1) % 2 = 0 THEN n - k - 1 ELSE (n - k - 1) + 1
      BY <1>1, <1>2
    <2>2. (n - k - 1) + 1 = n - k
      OBVIOUS
    <2>3. a.tds = 100 * k + 50
      OBVIOUS
    <2> QED
      BY <1>1, <1>2, <2>1, <2>2, <2>3
  <1>4. Quantized(a.net) = n /\ Quantized(0) = 0
    BY QuantizedExact, 100 * 0 = 0
  <1>5. Gap(a) = 0 <=> n % 2 = 0
    BY <1>1, <1>3, <1>4 DEF Gap
  <1>6. Total(a) \in Nat
    BY <1>1
  <1> QED
    BY <1>1, <1>5, <1>6, BalancedIsNoGap DEF InvoicePosting, Signs

-----------------------------------------------------------------------------
(* Reversal.                                                               *)

\* Swapping both sides negates every line.
LEMMA SwapNegates ==
    ASSUME NEW a \in Amounts, Total(a) \in Nat
    PROVE  /\ Negates(Entry(1, 1, a), Entry(-1, -1, a))
           /\ Negates(Entry(-1, -1, a), Entry(1, 1, a))
           /\ Negates(Entry(-1, 1, a), Entry(1, -1, a))
  BY LinesInteger DEF Negates, Entry, Roles

\* Cancelling takes back, line by line, what posting put in, for every type of
\* document but bills and expenses and for every amount.
THEOREM ReversalNegates ==
    ASSUME NEW type \in Types \ {"bill", "expense"}, NEW a \in Amounts, Total(a) \in Nat
    PROVE  Negates(ReversalOf(type, a), PostingOf(type, a))
  <1>1. CASE type \in {"invoice", "disbursement", "debit_note"}
    <2>1. PostingOf(type, a) = Entry(1, 1, a) /\ ReversalOf(type, a) = Entry(-1, -1, a)
      BY <1>1 DEF PostingOf, ReversalOf, InvoicePosting, InvoiceReversal, PaymentOutPosting,
                    PaymentOutReversal, DebitNotePosting, DebitNoteReversal
    <2> QED
      BY <2>1, SwapNegates
  <1>2. CASE type \in {"receipt", "credit_note", "sales_return"}
    <2>1. PostingOf(type, a) = Entry(-1, -1, a) /\ ReversalOf(type, a) = Entry(1, 1, a)
      BY <1>2 DEF PostingOf, ReversalOf, PaymentReceiptPosting, PaymentReceiptReversal,
                    CreditNotePosting, CreditNoteReversal, SalesReturnPosting, SalesReturnReversal
    <2> QED
      BY <2>1, SwapNegates
  <1>3. CASE type = "purchase_return"
    <2>1. PostingOf(type, a) = Entry(1, -1, a) /\ ReversalOf(type, a) = Entry(-1, 1, a)
      BY <1>3 DEF PostingOf, ReversalOf, PurchaseReturnPosting, PurchaseReturnReversal
    <2> QED
      BY <2>1, SwapNegates
  <1> QED
    BY <1>1, <1>2, <1>3 DEF Types

\* A cancelled bill or expense leaves twice its round-off between the party and
\* the round-off account, and nothing else: the books are back where they were
\* exactly if the round-off came to no line.
THEOREM RoundOffPostedTwice ==
    ASSUME NEW type \in {"bill", "expense"}, NEW a \in Amounts, Total(a) \in Nat,
           NEW r \in Roles
    PROVE  PostingOf(type, a)[r] + ReversalOf(type, a)[r] =
               CASE r = "partyRoundOff" -> -(2 * Paise(a.roundOff))
                 [] r = "roundOff" -> 2 * Paise(a.roundOff)
                 [] OTHER -> 0
  <1>1. PostingOf(type, a) = Entry(-1, -1, a) /\ ReversalOf(type, a) = Entry(1, -1, a)
    BY DEF PostingOf, ReversalOf, BillPosting, BillReversal, ExpensePosting, ExpenseReversal
  <1>2. Entry(-1, -1, a)[r] + Entry(1, -1, a)[r] =
            IF r = "partyRoundOff" THEN -(2 * Paise(a.roundOff))
            ELSE IF r = "roundOff" THEN 2 * Paise(a.roundOff) ELSE 0
    BY LinesInteger DEF Entry, Roles
  <1> QED
    BY <1>1, <1>2

\* So a bill or an expense is taken back by its reversal if and only if its
\* round-off is too small to be a line.
COROLLARY BillReversalNegates ==
    ASSUME NEW type \in {"bill", "expense"}, NEW a \in Amounts, Total(a) \in Nat
    PROVE  Negates(ReversalOf(type, a), PostingOf(type, a)) <=> Paise(a.roundOff) = 0
  <1>1. PostingOf(type, a) = Entry(-1, -1, a) /\ ReversalOf(type, a) = Entry(1, -1, a)
    BY DEF PostingOf, ReversalOf, BillPosting, BillReversal, ExpensePosting, ExpenseReversal
  <1>2. Negates(Entry(1, -1, a), Entry(-1, -1, a)) <=> Paise(a.roundOff) = 0
    BY LinesInteger DEF Negates, Entry, Roles
  <1> QED
    BY <1>1, <1>2

\* A round-off below a paisa makes the whole document impossible to post.
THEOREM DustRefused ==
    ASSUME NEW a \in Amounts, a.roundOff \in -50..50, a.roundOff # 0
    PROVE  ~Accepted(a)
  BY DustVanishes DEF Accepted, Survives

-----------------------------------------------------------------------------
(* Part 2: documents.                                                      *)

\* The amounts that the reversals of the code take back: an invoice entered here
\* has no shipping, which CancelInvoice forgets, and the round-off of bills and
\* expenses, which their reversals repeat, comes to no line.
ReversibleAmounts ==
    /\ \A a \in Entered["invoice"] : a.shipping = 0
    /\ \A type \in {"bill", "expense"} :
           \A a \in Entered[type] \cup Imported[type] : Paise(a.roundOff) = 0

Names == DOMAIN Handler

-----------------------------------------------------------------------------
(* The inductive invariant.                                                *)

Typed ==
    /\ status \in [Docs -> {"UNUSED", "ABSENT", "DRAFT", "IMPORTED", "POSTED", "CANCELLED"}]
    /\ deleted \in [Docs -> BOOLEAN] /\ amounts \in [Docs -> Amounts]
    /\ journal \in [Docs -> [Kinds -> [Roles -> Int]]] /\ DOMAIN balance = Accounts
    /\ skipped \subseteq Accounts
    /\ row_lock \in [Lockable -> Sessions \cup {Nobody}]
    /\ DOMAIN session = Sessions /\ \A s \in Sessions : DOMAIN session[s] = DOMAIN Idle

\* Only a request in flight holds a row.
HoldersBusy == \A x \in Lockable : row_lock[x] # Nobody => Busy(row_lock[x])

\* What a document's status says of its journal entries and amounts.
DocOK(d) ==
    LET type == TypeOf[d]
        posted == /\ ~deleted[d] /\ Accepted(amounts[d])
                  /\ journal[d].posting = PostingOf(type, amounts[d])
                  /\ journal[d].reversal = Nothing
    IN  CASE status[d] \in {"UNUSED", "ABSENT"} -> ~deleted[d] /\ journal[d] = NoEntries
          [] status[d] = "DRAFT" -> amounts[d] \in Entered[type] /\ journal[d] = NoEntries
          [] status[d] = "POSTED" -> amounts[d] \in Entered[type] /\ posted
          [] status[d] = "IMPORTED" -> amounts[d] \in Imported[type] /\ posted
          [] OTHER -> /\ journal[d].posting # Nothing /\ journal[d].reversal # Nothing
                      /\ Negates(journal[d].reversal, journal[d].posting)

OwnItem(s) ==
    Item(session[s].doc, TraitsOf(s).writes,
         IF TraitsOf(s).shipping THEN session[s].amounts
         ELSE [session[s].amounts EXCEPT !.shipping = 0])
SpareItem(s) == Item(session[s].spare, "posting", session[s].spareAmounts)

EntryOf(item) == [doc |-> item.doc, kind |-> item.kind, lines |-> LinesOf(item)]

\* A request has written the entries of its plan, in order, up to some point.
Progress(s) ==
    \/ /\ TraitsOf(s).writes = "nothing"
       /\ session[s].todo = <<>> /\ session[s].written = {}
    \/ /\ TraitsOf(s).writes # "nothing" /\ ~TraitsOf(s).replaces
       /\ \/ session[s].todo = <<OwnItem(s)>> /\ session[s].written = {}
          \/ /\ session[s].todo = <<>> /\ session[s].written = {EntryOf(OwnItem(s))}
             /\ Accepted(OwnItem(s).amounts)
    \/ /\ TraitsOf(s).replaces
       /\ \/ session[s].todo = <<OwnItem(s), SpareItem(s)>> /\ session[s].written = {}
          \/ /\ session[s].todo = <<SpareItem(s)>> /\ session[s].written = {EntryOf(OwnItem(s))}
             /\ Accepted(OwnItem(s).amounts)
          \/ /\ session[s].todo = <<>>
             /\ session[s].written = {EntryOf(OwnItem(s)), EntryOf(SpareItem(s))}
             /\ Accepted(OwnItem(s).amounts) /\ Accepted(SpareItem(s).amounts)

\* Its document, the row it locked and the row it created.
Target(s) ==
    /\ session[s].doc \in Docs /\ session[s].handler \in Workflow[TypeOf[session[s].doc]]
    /\ session[s].amounts \in Amounts /\ session[s].spareAmounts \in Amounts
    /\ TraitsOf(s).amends =>
           session[s].amounts \in AmountsFor(session[s].handler, TypeOf[session[s].doc])
    /\ TraitsOf(s).locks => row_lock[session[s].doc] = s

Spare(s) ==
    IF TraitsOf(s).replaces
    THEN /\ session[s].spare \in Docs \ {session[s].doc}
         /\ TypeOf[session[s].spare] = TypeOf[session[s].doc]
         /\ row_lock[session[s].spare] = s /\ status[session[s].spare] = "ABSENT"
         /\ session[s].spareAmounts \in Entered[TypeOf[session[s].doc]]
    ELSE session[s].spare = Nobody

\* What it read of its document is still so; or, if it did not lock it, another
\* request has written the entry it wants to write, and it will be refused; or
\* it is a bulk delete of what is still a draft.
Live(s) ==
    /\ status[session[s].doc] \in TraitsOf(s).from /\ ~deleted[session[s].doc]
    /\ ~TraitsOf(s).amends => session[s].amounts = amounts[session[s].doc]
Doomed(s) ==
    /\ ~TraitsOf(s).locks /\ TraitsOf(s).writes # "nothing" /\ session[s].written = {}
    /\ journal[session[s].doc][TraitsOf(s).writes] # Nothing
Sweeping(s) == session[s].handler = "bulk_delete" /\ status[session[s].doc] = "DRAFT"

Current(s) == Live(s) \/ Doomed(s) \/ Sweeping(s)

SessionOK(s) == Target(s) /\ Spare(s) /\ Current(s) /\ Progress(s)

\* The unique index on the source of an entry, over what is not yet committed.
UniqueSource ==
    \A s \in Sessions, t \in Sessions : s # t =>
        \A e \in session[s].written, f \in session[t].written :
            ~(e.doc = f.doc /\ e.kind = f.kind)
Fresh == \A s \in Sessions : \A e \in session[s].written : journal[e.doc][e.kind] = Nothing

\* The assumption on drafts.
Apart ==
    \A s \in Sessions, t \in Sessions :
        s # t /\ Busy(s) /\ Busy(t) /\ session[s].doc = session[t].doc
        => ~Overlaps(session[s].handler, session[t].handler)

IInv ==
    /\ Typed /\ HoldersBusy
    /\ \A d \in Docs : DocOK(d)
    /\ \A s \in Sessions : IF Busy(s) THEN SessionOK(s) ELSE session[s] = Idle
    /\ UniqueSource /\ Fresh /\ Apart
-----------------------------------------------------------------------------
(* The handlers.                                                           *)

Unlocked == {"bulk_delete", "post_expense", "cancel_expense"}
Creating == {"save_draft", "create", "import"}
Posting == {"create", "import", "finalize", "post_expense"}
Cancelling == {"cancel", "cancel_invoice", "cancel_expense"}
Reversing == Cancelling \cup {"delete", "replace"}

\* What each handler accepts, locks, writes and stores.
LEMMA Traits ==
    ASSUME NEW name \in Names
    PROVE  /\ Handler[name].locks <=> name \notin Unlocked
           /\ Handler[name].replaces <=> name = "replace"
           /\ Handler[name].shipping <=> name # "cancel_invoice"
           /\ Handler[name].amends <=> name \in Creating \cup {"edit_draft"}
           /\ Handler[name].deletes <=> name \in {"delete_draft", "bulk_delete", "delete", "replace"}
           /\ Handler[name].writes = (IF name \in Posting THEN "posting"
                                      ELSE IF name \in Reversing THEN "reversal" ELSE "nothing")
           /\ Handler[name].from = (IF name \in Creating THEN {"ABSENT"}
                                    ELSE IF name \in Cancelling THEN {"POSTED"}
                                    ELSE IF name \in Reversing THEN {"POSTED", "IMPORTED"}
                                    ELSE {"DRAFT"})
           /\ Handler[name].to = (IF name = "save_draft" THEN "DRAFT"
                                  ELSE IF name = "import" THEN "IMPORTED"
                                  ELSE IF name \in Posting THEN "POSTED"
                                  ELSE IF name \in Reversing THEN "CANCELLED" ELSE "same")
  <1> USE DEF Handler, Base, Unlocked, Creating, Posting, Cancelling, Reversing
  <1>1. CASE name = "save_draft"
    BY <1>1 DEF SaveDraft
  <1>2. CASE name = "create"
    BY <1>2 DEF SaveDraft, Create
  <1>3. CASE name = "import"
    BY <1>3 DEF SaveDraft, Create, Import
  <1>4. CASE name = "edit_draft"
    BY <1>4 DEF EditDraft
  <1>5. CASE name = "finalize"
    BY <1>5 DEF Finalize
  <1>6. CASE name = "post_expense"
    BY <1>6 DEF Finalize, PostExpense
  <1>7. CASE name = "delete_draft"
    BY <1>7 DEF DeleteDraft
  <1>8. CASE name = "bulk_delete"
    BY <1>8 DEF DeleteDraft, BulkDelete
  <1>9. CASE name = "cancel"
    BY <1>9 DEF Cancel
  <1>10. CASE name = "cancel_invoice"
    BY <1>10 DEF Cancel, CancelInvoice
  <1>11. CASE name = "cancel_expense"
    BY <1>11 DEF Cancel, CancelExpense
  <1>12. CASE name = "delete"
    BY <1>12 DEF Cancel, Delete
  <1>13. CASE name = "replace"
    BY <1>13 DEF Cancel, Delete, Replace
  <1> QED
    BY <1>1, <1>2, <1>3, <1>4, <1>5, <1>6, <1>7, <1>8, <1>9, <1>10, <1>11, <1>12, <1>13 DEF Names

\* Which handlers there are, and that only invoices are cancelled as invoices.
LEMMA Workflows ==
    ASSUME NEW type \in Types, NEW name \in Workflow[type]
    PROVE  /\ name \in Names /\ name # "idle"
           /\ name = "cancel_invoice" => type = "invoice"
  <1>1. name \in {"save_draft", "create", "import", "edit_draft", "finalize", "post_expense",
                  "delete_draft", "bulk_delete", "cancel", "cancel_invoice", "cancel_expense",
                  "delete", "replace"}
    BY DEF Types, Workflow, Drafting, Correcting
  <1>2. name = "cancel_invoice" => type = "invoice"
    BY DEF Types, Workflow, Drafting, Correcting
  <1> QED
    BY <1>1, <1>2 DEF Names, Handler

-----------------------------------------------------------------------------
(* Entries.                                                                *)

\* The amounts of a document that has none yet are amounts.
LEMMA NoAmountsTyped == NoAmounts \in Amounts
  BY DEF NoAmounts, Amounts

\* The lines of an accepted entry are whole paise.
LEMMA LinesTyped ==
    ASSUME NEW type \in Types, NEW a \in Amounts, Accepted(a)
    PROVE  PostingOf(type, a) \in [Roles -> Int] /\ ReversalOf(type, a) \in [Roles -> Int]
  <1>1. Total(a) \in Nat
    BY DEF Accepted, Total, Amounts
  <1>2. \A side \in Signs, roundSide \in Signs : Entry(side, roundSide, a) \in [Roles -> Int]
    BY <1>1, LinesInteger DEF Entry, Roles, Signs
  <1> QED
    BY <1>2, BuildersMakeEntries DEF Entries

\* An entry that is accepted has a nominal line.
LEMMA EntryIsSomething ==
    ASSUME NEW type \in Types, NEW a \in Amounts, Accepted(a)
    PROVE  PostingOf(type, a) # Nothing /\ ReversalOf(type, a) # Nothing
  <1>1. Total(a) \in Nat /\ a.net \in Nat /\ a.net > 0
    BY DEF Accepted, Total, Amounts
  <1>2. Quantized(a.net) \in Nat /\ Quantized(a.net) # 0
    BY <1>1, LinesInteger DEF Accepted, Survives, Paise
  <1>3. \A side \in Signs, roundSide \in Signs : Entry(side, roundSide, a).nominal # 0
    BY <1>2 DEF Entry, Signs
  <1>4. Nothing.nominal = 0
    BY DEF Nothing, Roles
  <1>5. \A side \in Signs, roundSide \in Signs : Entry(side, roundSide, a) # Nothing
    BY <1>3, <1>4
  <1> QED
    BY <1>5, BuildersMakeEntries DEF Entries

\* With the amounts assumed, every reversal takes its posting back.
LEMMA TakesBack ==
    ASSUME NEW type \in Types, NEW a \in Amounts, Accepted(a),
           type \in {"bill", "expense"} => Paise(a.roundOff) = 0
    PROVE  Negates(ReversalOf(type, a), PostingOf(type, a))
  <1>1. Total(a) \in Nat
    BY DEF Accepted, Total, Amounts
  <1>2. CASE type \in {"bill", "expense"}
    BY <1>1, <1>2, BillReversalNegates
  <1>3. CASE type \notin {"bill", "expense"}
    BY <1>1, <1>3, ReversalNegates
  <1> QED
    BY <1>2, <1>3

-----------------------------------------------------------------------------
(* What a step leaves alone.                                               *)

\* The request of t is where it was.
SameRequest(t) ==
    /\ session'[t].handler = session[t].handler /\ session'[t].doc = session[t].doc
    /\ session'[t].amounts = session[t].amounts /\ session'[t].spare = session[t].spare
    /\ session'[t].spareAmounts = session[t].spareAmounts
    /\ session'[t].todo = session[t].todo /\ session'[t].written = session[t].written

\* A request stays in order while its documents and its locks stay.
LEMMA RequestFrame ==
    ASSUME NEW t \in Sessions, SessionOK(t), SameRequest(t),
           UNCHANGED <<status, deleted, amounts, journal>>,
           \A d \in Docs : row_lock[d] = t => row_lock'[d] = t
    PROVE  SessionOK(t)'
  <1>1. TraitsOf(t)' = TraitsOf(t)
    BY DEF TraitsOf, SameRequest
  <1>2. Target(t)'
    BY <1>1 DEF SessionOK, Target, SameRequest
  <1>3. Spare(t)'
    BY <1>1 DEF SessionOK, Spare, SameRequest
  <1>4. Current(t)'
    BY <1>1 DEF SessionOK, Current, Live, Doomed, Sweeping, SameRequest
  <1>5. OwnItem(t)' = OwnItem(t) /\ SpareItem(t)' = SpareItem(t)
    BY <1>1 DEF OwnItem, SpareItem, SameRequest
  <1>6. Progress(t)'
    BY <1>1, <1>5 DEF SessionOK, Progress, SameRequest
  <1> QED
    BY <1>2, <1>3, <1>4, <1>6 DEF SessionOK

\* A step that keeps or gives up requests, and changes no document.
LEMMA QuietStep ==
    ASSUME IInv, UNCHANGED <<status, deleted, amounts, journal, balance, skipped>>,
           row_lock' \in [Lockable -> Sessions \cup {Nobody}], HoldersBusy',
           DOMAIN session' = Sessions,
           \A t \in Sessions :
               \/ session'[t] = Idle
               \/ /\ SameRequest(t) /\ DOMAIN session'[t] = DOMAIN Idle
                  /\ ~Busy(t) => session'[t] = session[t]
                  /\ \A d \in Docs : row_lock[d] = t => row_lock'[d] = t
    PROVE  IInv'
  <1>1. ASSUME NEW t \in Sessions, session'[t] # Idle
        PROVE  SameRequest(t) /\ Busy(t) /\ Busy(t)'
    BY <1>1 DEF IInv, Busy, SameRequest
  <1>2. \A t \in Sessions : session'[t] = Idle => ~Busy(t)' /\ session'[t].written = {}
    BY DEF Busy, Idle
  <1>3. Typed'
    BY DEF IInv, Typed
  <1>4. \A d \in Docs : DocOK(d)'
    BY DEF IInv, DocOK
  <1>5. ASSUME NEW t \in Sessions
        PROVE  (IF Busy(t) THEN SessionOK(t) ELSE session[t] = Idle)'
    BY <1>1, <1>2, RequestFrame DEF IInv
  <1>6. UniqueSource' /\ Fresh'
    BY <1>1, <1>2 DEF IInv, UniqueSource, Fresh, SameRequest
  <1>7. Apart'
    BY <1>1, <1>2 DEF IInv, Apart, SameRequest
  <1> QED
    BY <1>3, <1>4, <1>5, <1>6, <1>7 DEF IInv

\* Locking an account touches no document.
LEMMA LockAccountStep ==
    ASSUME IInv, NEW s \in Sessions, NEW x \in Accounts, LockAccount(s, x)
    PROVE  IInv'
  <1>1. Busy(s)
    BY DEF LockAccount, IInv, Idle
  <1>2. row_lock' \in [Lockable -> Sessions \cup {Nobody}] /\ HoldersBusy'
    BY <1>1 DEF LockAccount, IInv, Typed, HoldersBusy, Busy, Lockable
  <1>3. \A d \in Docs : row_lock'[d] = row_lock[d]
    BY LedgerAssumption DEF LockAccount, IInv, Typed, Lockable
  <1> QED
    BY <1>2, <1>3, QuietStep DEF LockAccount, IInv, Typed, SameRequest

\* Neither does recomputing balances.
LEMMA RecomputeStep ==
    ASSUME IInv, NEW s \in Sessions, Recompute(s)
    PROVE  IInv'
  <1> DEFINE changed(c, u, l) ==
                 [session EXCEPT ![s].computed = c, ![s].unwritten = u, ![s].loaded = l,
                                 ![s].locking = {}]
  <1>0. /\ \E c, u, l : session' = changed(c, u, l)
        /\ session[s].locking # {}
    BY DEF Recompute
  <1>1. Busy(s)
    BY <1>0 DEF IInv, Idle
  <1>2. /\ DOMAIN session' = Sessions
        /\ \A t \in Sessions : SameRequest(t) /\ DOMAIN session'[t] = DOMAIN Idle
        /\ \A t \in Sessions : t # s => session'[t] = session[t]
    <2> PICK c, u, l : session' = changed(c, u, l)
      BY <1>0
    <2> QED BY DEF IInv, Typed, Idle, SameRequest
  <1>f. UNCHANGED <<status, deleted, amounts, journal, balance, skipped, row_lock>>
    BY DEF Recompute
  <1> HIDE DEF changed
  <1>3. HoldersBusy'
    BY ONLY <1>2, <1>f, IInv DEF IInv, Typed, HoldersBusy, Busy, SameRequest
  <1> QED
    BY ONLY <1>1, <1>2, <1>3, <1>f, s \in Sessions, IInv, QuietStep DEF IInv, Typed

\* A request that is refused, is chosen as a deadlock victim or dies leaves
\* everything but its own locks.
LEMMA RollbackStep ==
    ASSUME IInv, NEW s \in Sessions, Rollback(s)
    PROVE  IInv'
  <1>1. /\ DOMAIN session' = Sessions /\ session'[s] = Idle
        /\ \A t \in Sessions : t # s => session'[t] = session[t]
    BY DEF Rollback, IInv, Typed
  <1>2. /\ row_lock' \in [Lockable -> Sessions \cup {Nobody}]
        /\ \A x \in Lockable : row_lock'[x] = IF row_lock[x] = s THEN Nobody ELSE row_lock[x]
    BY DEF Rollback, Released, IInv, Typed
  <1>3. HoldersBusy'
    BY <1>1, <1>2 DEF IInv, Typed, HoldersBusy, Busy
  <1> QED
    BY <1>1, <1>2, <1>3, QuietStep DEF Rollback, IInv, Typed, SameRequest, Lockable

-----------------------------------------------------------------------------
(* A request arrives.                                                      *)

\* What a handler may store is an amount.
LEMMA EnteredTyped ==
    ASSUME NEW type \in Types, NEW name
    PROVE  AmountsFor(name, type) \subseteq Amounts
  BY LedgerAssumption DEF AmountsFor

\* A request starts on a document whose status its handler accepts.
LEMMA OpenStep ==
    ASSUME DraftsSerialised, IInv, NEW s \in Sessions, NEW d \in Docs,
           NEW name \in Workflow[TypeOf[d]], Open(s, d, name)
    PROVE  IInv'
  <1> DEFINE h == Handler[name]
             request(a, b, spare) ==
                 [Idle EXCEPT !.handler = name, !.doc = d, !.amounts = a, !.spare = spare,
                              !.spareAmounts = b, !.todo = Plan(h, d, a, spare, b),
                              !.loaded = [x \in Selects(name, Plan(h, d, a, spare, b)) |-> balance[x]]]
  <1>1. PICK spare \in Spares(d, name),
             a \in (IF h.amends THEN AmountsFor(name, TypeOf[d]) ELSE {amounts[d]}),
             b \in (IF h.replaces THEN AmountsFor(name, TypeOf[d]) ELSE {NoAmounts}) :
                 /\ session' = [session EXCEPT ![s] = request(a, b, spare)]
                 /\ row_lock' = [x \in Lockable |->
                        IF x = spare \/ (x = d /\ h.locks) THEN s ELSE row_lock[x]]
    BY DEF Open
  <1>2. /\ UNCHANGED <<status, deleted, amounts, journal, balance, skipped>>
        /\ ~Busy(s) /\ status[d] \in h.from /\ ~deleted[d]
        /\ h.locks => row_lock[d] = Nobody
        /\ Serialised(d, name)
    BY DEF Open, CanOpen
  <1>3. TypeOf[d] \in Types /\ name \in Names /\ name # "idle"
    BY Workflows, LedgerAssumption
  <1>4. /\ session'[s].handler = name /\ session'[s].doc = d /\ session'[s].amounts = a
        /\ session'[s].spare = spare /\ session'[s].spareAmounts = b
        /\ session'[s].todo = Plan(h, d, a, spare, b) /\ session'[s].written = {}
        /\ DOMAIN session' = Sessions /\ DOMAIN session'[s] = DOMAIN Idle
        /\ \A t \in Sessions : t # s => session'[t] = session[t]
    BY <1>1 DEF IInv, Typed, Idle
  <1>5. Busy(s)' /\ TraitsOf(s)' = h
    BY <1>3, <1>4 DEF Busy, TraitsOf
  <1>6. spare \in Docs => row_lock[spare] = Nobody
    BY LedgerAssumption DEF Spares
  <1>7. \A x \in Lockable : row_lock'[x] \in {row_lock[x], s}
    BY <1>1
  <1>8. \A e \in Docs : row_lock'[e] # row_lock[e] => row_lock[e] = Nobody
    BY <1>1, <1>2, <1>6 DEF Lockable
  <1>9. Typed' /\ HoldersBusy'
    <2>1. Typed'
      BY <1>1, <1>2, <1>4 DEF IInv, Typed
    <2>2. ASSUME NEW x \in Lockable, row_lock'[x] # Nobody
          PROVE  session'[row_lock'[x]].handler # "idle"
      <3>1. CASE row_lock'[x] = s
        BY <1>5, <3>1 DEF Busy
      <3>2. CASE row_lock'[x] # s
        BY <1>4, <1>7, <2>2, <3>2 DEF IInv, Typed, HoldersBusy, Busy
      <3> QED
        BY <3>1, <3>2
    <2> QED
      BY <2>1, <2>2 DEF HoldersBusy, Busy
  <1>10. \A e \in Docs : DocOK(e)'
    BY <1>2 DEF IInv, DocOK
  <1>11. ASSUME NEW t \in Sessions, t # s
         PROVE  (IF Busy(t) THEN SessionOK(t) ELSE session[t] = Idle)'
    <2>1. SameRequest(t) /\ Busy(t)' = Busy(t)
      BY <1>4, <1>11 DEF SameRequest, Busy
    <2>2. \A e \in Docs : row_lock[e] = t => row_lock'[e] = t
      BY <1>8, <1>11, LedgerAssumption
    <2> QED
      BY <1>2, <1>4, <1>11, <2>1, <2>2, RequestFrame DEF IInv
  <1>12. SessionOK(s)'
    <2>1. Target(s)'
      <3>1. a \in Amounts /\ b \in Amounts
        BY <1>3, EnteredTyped, NoAmountsTyped DEF IInv, Typed
      <3>2. h.locks => row_lock'[d] = s
        BY <1>1 DEF Lockable
      <3> QED
        BY <1>3, <1>4, <1>5, <3>1, <3>2 DEF Target
    <2>2. Spare(s)'
      <3>1. CASE h.replaces
        <4>1. name = "replace"
          BY <1>3, <3>1, Traits
        <4>2. spare \in Docs \ {d} /\ TypeOf[spare] = TypeOf[d] /\ status[spare] = "ABSENT"
          BY <3>1 DEF Spares
        <4>3. row_lock'[spare] = s
          BY <1>1, <4>2 DEF Lockable
        <4>4. b \in Entered[TypeOf[d]]
          BY <3>1, <4>1 DEF AmountsFor
        <4> QED
          BY <1>2, <1>4, <1>5, <3>1, <4>2, <4>3, <4>4 DEF Spare
      <3>2. CASE ~h.replaces
        BY <1>4, <1>5, <3>2 DEF Spare, Spares
      <3> QED
        BY <3>1, <3>2
    <2>3. Current(s)'
      BY <1>2, <1>4, <1>5 DEF Current, Live
    <2>4. Progress(s)'
      <3>1. h.replaces => h.writes = "reversal"
        BY <1>3, Traits DEF Posting, Reversing
      <3>2. /\ OwnItem(s)' = Item(d, h.writes, IF h.shipping THEN a ELSE [a EXCEPT !.shipping = 0])
            /\ SpareItem(s)' = Item(spare, "posting", b)
        BY <1>4, <1>5 DEF OwnItem, SpareItem
      <3>3. session'[s].todo =
                IF h.writes = "nothing" THEN <<>>
                ELSE IF ~h.replaces THEN <<OwnItem(s)'>> ELSE <<OwnItem(s)', SpareItem(s)'>>
        BY <1>4, <3>1, <3>2 DEF Plan
      <3> QED
        BY <1>4, <1>5, <3>1, <3>3 DEF Progress
    <2> QED
      BY <2>1, <2>2, <2>3, <2>4 DEF SessionOK
  <1>13. UniqueSource' /\ Fresh'
    BY <1>2, <1>4 DEF IInv, UniqueSource, Fresh
  <1>14. Apart'
    <2>1. \A t \in Sessions : t # s /\ Busy(t) /\ session[t].doc = d
              => ~Overlaps(name, session[t].handler) /\ ~Overlaps(session[t].handler, name)
      BY <1>2 DEF Serialised, Overlaps
    <2> QED
      BY <1>4, <2>1 DEF IInv, Apart, Busy
  <1> QED
    BY <1>5, <1>9, <1>10, <1>11, <1>12, <1>13, <1>14 DEF IInv

-----------------------------------------------------------------------------
(* An entry is inserted.                                                   *)

\* The traits of the handler of a request in flight.
LEMMA RequestTraits ==
    ASSUME NEW s \in Sessions, SessionOK(s)
    PROVE  /\ session[s].handler \in Names /\ session[s].doc \in Docs
           /\ TypeOf[session[s].doc] \in Types
           /\ TraitsOf(s).locks <=> session[s].handler \notin Unlocked
           /\ TraitsOf(s).replaces <=> session[s].handler = "replace"
           /\ TraitsOf(s).writes = (IF session[s].handler \in Posting THEN "posting"
                                    ELSE IF session[s].handler \in Reversing THEN "reversal"
                                    ELSE "nothing")
  <1>1. session[s].doc \in Docs /\ session[s].handler \in Workflow[TypeOf[session[s].doc]]
    BY DEF SessionOK, Target
  <1>2. TypeOf[session[s].doc] \in Types
    BY <1>1, LedgerAssumption
  <1>3. session[s].handler \in Names
    BY <1>1, <1>2, Workflows
  <1> QED
    BY <1>1, <1>2, <1>3, Traits DEF TraitsOf

\* A plan of one or two entries is worked off from its head.
LEMMA OneByOne ==
    ASSUME NEW a, NEW b
    PROVE  /\ Head(<<a>>) = a /\ Tail(<<a>>) = <<>> /\ <<a>> # <<>>
           /\ Head(<<a, b>>) = a /\ Tail(<<a, b>>) = <<b>> /\ <<a, b>> # <<>>
  OBVIOUS

\* An entry is inserted only by a request whose document is still what it read:
\* the unique index refuses the others.
LEMMA InsertStep ==
    ASSUME IInv, NEW s \in Sessions, Insert(s)
    PROVE  IInv'
  <1> DEFINE item == Head(session[s].todo)
  <1>1. /\ Busy(s) /\ session[s].todo # <<>> /\ Rivals(s, item) = {} /\ ~AlreadyPosted(item)
        /\ Accepted(item.amounts)
        /\ UNCHANGED <<status, deleted, amounts, journal, balance, skipped, row_lock>>
    BY DEF Insert
  <1>2. SessionOK(s)
    BY <1>1 DEF IInv
  <1>3. /\ session'[s].handler = session[s].handler /\ session'[s].doc = session[s].doc
        /\ session'[s].amounts = session[s].amounts /\ session'[s].spare = session[s].spare
        /\ session'[s].spareAmounts = session[s].spareAmounts
        /\ session'[s].todo = Tail(session[s].todo)
        /\ session'[s].written = session[s].written \cup {EntryOf(item)}
        /\ DOMAIN session' = Sessions /\ DOMAIN session'[s] = DOMAIN Idle
        /\ \A t \in Sessions : t # s => session'[t] = session[t]
    BY DEF Insert, IInv, Typed, Idle, EntryOf
  <1>4. /\ TraitsOf(s)' = TraitsOf(s) /\ OwnItem(s)' = OwnItem(s) /\ SpareItem(s)' = SpareItem(s)
    BY <1>3 DEF TraitsOf, OwnItem, SpareItem
  <1>5. Progress(s)'
    <2>1. CASE ~TraitsOf(s).replaces
      <3>1. /\ TraitsOf(s).writes # "nothing"
            /\ session[s].todo = <<OwnItem(s)>> /\ session[s].written = {}
        BY <1>1, <1>2, <2>1 DEF SessionOK, Progress
      <3>2. item = OwnItem(s) /\ session'[s].todo = <<>> /\ session'[s].written = {EntryOf(item)}
        BY <1>3, <3>1, OneByOne
      <3> QED
        BY <1>1, <1>4, <2>1, <3>1, <3>2 DEF Progress
    <2>2. CASE TraitsOf(s).replaces /\ session[s].written = {}
      <3>1. session[s].todo = <<OwnItem(s), SpareItem(s)>>
        BY <1>1, <1>2, <2>2 DEF SessionOK, Progress
      <3>2. /\ item = OwnItem(s) /\ session'[s].todo = <<SpareItem(s)>>
            /\ session'[s].written = {EntryOf(item)}
        BY <1>3, <2>2, <3>1, OneByOne
      <3> QED
        BY <1>1, <1>4, <2>2, <3>2 DEF Progress
    <2>3. CASE TraitsOf(s).replaces /\ session[s].written # {}
      <3>1. /\ session[s].todo = <<SpareItem(s)>> /\ Accepted(OwnItem(s).amounts)
            /\ session[s].written = {EntryOf(OwnItem(s))}
        BY <1>1, <1>2, <2>3 DEF SessionOK, Progress
      <3>2. /\ item = SpareItem(s) /\ session'[s].todo = <<>>
            /\ session'[s].written = {EntryOf(OwnItem(s)), EntryOf(item)}
        BY <1>3, <3>1, OneByOne
      <3> QED
        BY <1>1, <1>4, <2>3, <3>1, <3>2 DEF Progress
    <2> QED
      BY <2>1, <2>2, <2>3
  <1>6. Live(s)
    <2>1. ~Doomed(s)
      <3>1. SUFFICES ASSUME Doomed(s) PROVE FALSE
        OBVIOUS
      <3>2. TraitsOf(s).writes # "nothing" /\ ~TraitsOf(s).replaces /\ session[s].written = {}
        BY <1>2, <3>1, RequestTraits DEF Doomed, Unlocked
      <3>3. item = OwnItem(s)
        BY <1>1, <1>2, <3>2, OneByOne DEF SessionOK, Progress
      <3> QED
        BY <1>1, <3>1, <3>3 DEF AlreadyPosted, Doomed, OwnItem, Item
    <2>2. ~Sweeping(s)
      BY <1>1, <1>2, RequestTraits DEF SessionOK, Progress, Sweeping, Posting, Reversing, Cancelling
    <2> QED
      BY <1>2, <2>1, <2>2 DEF SessionOK, Current
  <1>7. SessionOK(s)'
    <2>1. Target(s)'
      BY <1>1, <1>2, <1>3, <1>4 DEF SessionOK, Target
    <2>2. Spare(s)'
      BY <1>1, <1>2, <1>3, <1>4 DEF SessionOK, Spare
    <2>3. Current(s)'
      BY <1>1, <1>3, <1>4, <1>6 DEF Current, Live
    <2> QED
      BY <1>5, <2>1, <2>2, <2>3 DEF SessionOK
  <1>8. ASSUME NEW t \in Sessions, t # s
        PROVE  (IF Busy(t) THEN SessionOK(t) ELSE session[t] = Idle)'
    <2>1. SameRequest(t) /\ Busy(t)' = Busy(t)
      BY <1>3, <1>8 DEF SameRequest, Busy
    <2> QED
      BY <1>1, <1>3, <1>8, <2>1, RequestFrame DEF IInv
  <1>9. Typed' /\ HoldersBusy' /\ \A d \in Docs : DocOK(d)'
    <2>1. Typed'
      BY <1>1, <1>3 DEF IInv, Typed
    <2>2. HoldersBusy'
      BY <1>1, <1>3 DEF IInv, Typed, HoldersBusy, Busy
    <2> QED
      BY <1>1, <2>1, <2>2 DEF IInv, DocOK
  <1>10. UniqueSource'
    <2>1. EntryOf(item).doc = item.doc /\ EntryOf(item).kind = item.kind
      BY DEF EntryOf
    <2>2. \A t \in Sessions \ {s} : \A e \in session[t].written : ~(e.doc = item.doc /\ e.kind = item.kind)
      BY <1>1 DEF Rivals
    <2> QED
      BY <1>3, <2>1, <2>2 DEF IInv, UniqueSource
  <1>11. Fresh'
    BY <1>1, <1>3 DEF IInv, Fresh, AlreadyPosted, EntryOf
  <1>12. Apart'
    BY <1>3 DEF IInv, Apart, Busy
  <1> QED
    BY <1>1, <1>3, <1>7, <1>8, <1>9, <1>10, <1>11, <1>12 DEF IInv, Busy

-----------------------------------------------------------------------------
(* A request commits.                                                      *)

\* The committer has written what it planned, on what its document still is.
LEMMA Committer ==
    ASSUME IInv, NEW s \in Sessions, Commit(s)
    PROVE  /\ Busy(s) /\ SessionOK(s) /\ (Live(s) \/ Sweeping(s))
           /\ row_lock[session[s].doc] \in {Nobody, s}
           /\ session[s].written =
                  IF TraitsOf(s).writes = "nothing" THEN {}
                  ELSE IF ~TraitsOf(s).replaces THEN {EntryOf(OwnItem(s))}
                  ELSE {EntryOf(OwnItem(s)), EntryOf(SpareItem(s))}
           /\ TraitsOf(s).writes # "nothing" => Accepted(OwnItem(s).amounts)
           /\ TraitsOf(s).replaces => Accepted(SpareItem(s).amounts)
  <1>1. Busy(s) /\ session[s].todo = <<>> /\ row_lock[session[s].doc] \in {Nobody, s}
    BY DEF Commit
  <1>2. SessionOK(s)
    BY <1>1 DEF IInv
  <1>3. TraitsOf(s).replaces => TraitsOf(s).writes # "nothing"
    BY <1>2, RequestTraits DEF Posting, Reversing
  <1>4. /\ session[s].todo # <<OwnItem(s)>> /\ session[s].todo # <<SpareItem(s)>>
        /\ session[s].todo # <<OwnItem(s), SpareItem(s)>>
    BY <1>1, OneByOne
  <1>5. /\ TraitsOf(s).writes = "nothing" => session[s].written = {}
        /\ TraitsOf(s).writes # "nothing" /\ ~TraitsOf(s).replaces =>
               session[s].written = {EntryOf(OwnItem(s))} /\ Accepted(OwnItem(s).amounts)
        /\ TraitsOf(s).replaces =>
               /\ session[s].written = {EntryOf(OwnItem(s)), EntryOf(SpareItem(s))}
               /\ Accepted(OwnItem(s).amounts) /\ Accepted(SpareItem(s).amounts)
    BY <1>2, <1>3, <1>4 DEF SessionOK, Progress
  <1>6. ~Doomed(s)
    BY <1>5 DEF Doomed
  <1> QED
    BY <1>1, <1>2, <1>3, <1>5, <1>6 DEF SessionOK, Current

\* Forgetting the shipping charges of an invoice that has none forgets nothing.
LEMMA OwnAmounts ==
    ASSUME ReversibleAmounts, IInv, NEW s \in Sessions, SessionOK(s), Live(s)
    PROVE  OwnItem(s).amounts = session[s].amounts
  <1>1. TypeOf[session[s].doc] \in Types /\ session[s].handler \in Names /\ session[s].doc \in Docs
    BY RequestTraits
  <1>2. CASE session[s].handler # "cancel_invoice"
    BY <1>1, <1>2, Traits DEF OwnItem, Item, TraitsOf
  <1>3. CASE session[s].handler = "cancel_invoice"
    <2>1. TypeOf[session[s].doc] = "invoice"
      BY <1>1, <1>3, Workflows DEF SessionOK, Target
    <2>2. status[session[s].doc] = "POSTED" /\ session[s].amounts = amounts[session[s].doc]
      BY <1>1, <1>3, Traits DEF Live, TraitsOf, Creating, Cancelling
    <2>3. amounts[session[s].doc] \in Entered["invoice"] /\ amounts[session[s].doc] \in Amounts
      BY <1>1, <2>1, <2>2 DEF IInv, DocOK, Typed
    <2>4. session[s].amounts.shipping = 0
      BY <2>2, <2>3 DEF ReversibleAmounts
    <2>5. [session[s].amounts EXCEPT !.shipping = 0] = session[s].amounts
      BY <2>2, <2>3, <2>4 DEF Amounts
    <2> QED
      BY <2>5 DEF OwnItem, Item
  <1> QED
    BY <1>2, <1>3

\* What a COMMIT adds to the journal.
LEMMA JournalAfter ==
    ASSUME ReversibleAmounts, IInv, NEW s \in Sessions, Commit(s)
    PROVE  /\ journal' \in [Docs -> [Kinds -> [Roles -> Int]]]
           /\ \A e \in session[s].written :
                  /\ e.lines # Nothing /\ journal[e.doc][e.kind] = Nothing
                  /\ e.doc \in {session[s].doc, session[s].spare}
                  /\ journal'[e.doc][e.kind] = e.lines
           /\ \A d \in Docs, k \in Kinds :
                  (\A e \in session[s].written : ~(e.doc = d /\ e.kind = k))
                  => journal'[d][k] = journal[d][k]
           /\ \A d \in Docs :
                  (\A e \in session[s].written : e.doc # d) => journal'[d] = journal[d]
  <1> DEFINE D == session[s].doc
             P == session[s].spare
             W == session[s].written
  <1>1. /\ SessionOK(s) /\ (Live(s) \/ Sweeping(s))
        /\ W = IF TraitsOf(s).writes = "nothing" THEN {}
               ELSE IF ~TraitsOf(s).replaces THEN {EntryOf(OwnItem(s))}
               ELSE {EntryOf(OwnItem(s)), EntryOf(SpareItem(s))}
        /\ TraitsOf(s).writes # "nothing" => Accepted(OwnItem(s).amounts)
        /\ TraitsOf(s).replaces => Accepted(SpareItem(s).amounts)
    BY Committer
  <1>2. /\ D \in Docs /\ TypeOf[D] \in Types
        /\ TraitsOf(s).writes # "nothing" => TraitsOf(s).writes \in Kinds
    BY <1>1, RequestTraits DEF Kinds
  <1>3. ASSUME TraitsOf(s).writes # "nothing"
        PROVE  LET e == EntryOf(OwnItem(s))
               IN  /\ e.lines # Nothing /\ e.lines \in [Roles -> Int]
                   /\ e.doc = D /\ e.kind = TraitsOf(s).writes
    <2>1. ~Sweeping(s)
      BY <1>1, <1>3, RequestTraits DEF Sweeping, Posting, Reversing, Cancelling
    <2>2. OwnItem(s).amounts = session[s].amounts
      BY <1>1, <2>1, OwnAmounts
    <2>3. OwnItem(s).amounts \in Amounts
      BY <1>1, <2>2 DEF SessionOK, Target
    <2>4. OwnItem(s).doc = D /\ OwnItem(s).kind = TraitsOf(s).writes
      BY DEF OwnItem, Item
    <2>5. LinesOf(OwnItem(s)) # Nothing /\ LinesOf(OwnItem(s)) \in [Roles -> Int]
      BY <1>1, <1>2, <1>3, <2>3, <2>4, LinesTyped, EntryIsSomething DEF LinesOf
    <2> QED
      BY <2>4, <2>5 DEF EntryOf
  <1>4. ASSUME TraitsOf(s).replaces
        PROVE  LET e == EntryOf(SpareItem(s))
               IN  /\ e.lines # Nothing /\ e.lines \in [Roles -> Int]
                   /\ e.doc = P /\ e.kind = "posting" /\ P # D
    <2>1. P \in Docs \ {D} /\ TypeOf[P] = TypeOf[D] /\ session[s].spareAmounts \in Amounts
      BY <1>1, <1>4 DEF SessionOK, Spare, Target
    <2>2. /\ SpareItem(s).doc = P /\ SpareItem(s).kind = "posting"
          /\ SpareItem(s).amounts = session[s].spareAmounts
      BY DEF SpareItem, Item
    <2>3. LinesOf(SpareItem(s)) # Nothing /\ LinesOf(SpareItem(s)) \in [Roles -> Int]
      BY <1>1, <1>2, <1>4, <2>1, <2>2, LinesTyped, EntryIsSomething DEF LinesOf
    <2> QED
      BY <2>1, <2>2, <2>3 DEF EntryOf
  <1>5. \A e \in W : /\ e.lines # Nothing /\ e.lines \in [Roles -> Int] /\ e.doc \in {D, P}
                     /\ e.kind \in Kinds
    BY <1>1, <1>2, <1>3, <1>4 DEF Kinds
  <1>6. \A e \in W, f \in W : e.doc = f.doc => e = f
    BY <1>1, <1>3, <1>4
  <1>7. \A e \in W : e.doc \in Docs
    BY <1>1, <1>2, <1>3, <1>4 DEF SessionOK, Spare
  <1>8. \A d \in Docs, k \in Kinds : journal'[d][k] = EntryAfter(s, d, k)
    BY DEF Commit
  <1>9. ASSUME NEW e \in W PROVE EntryAfter(s, e.doc, e.kind) = e.lines
    <2>1. {f \in W : f.doc = e.doc /\ f.kind = e.kind} = {e}
      BY <1>6, <1>9
    <2>2. (CHOOSE f \in {e} : TRUE) = e
      OBVIOUS
    <2> QED
      BY <2>1, <2>2 DEF EntryAfter
  <1>10. ASSUME NEW d \in Docs, NEW k \in Kinds, \A e \in W : ~(e.doc = d /\ e.kind = k)
         PROVE  EntryAfter(s, d, k) = journal[d][k]
    <2>1. {f \in W : f.doc = d /\ f.kind = k} = {}
      BY <1>10
    <2> QED
      BY <2>1 DEF EntryAfter
  <1>11. \A d \in Docs, k \in Kinds : EntryAfter(s, d, k) \in [Roles -> Int]
    <2> TAKE d \in Docs, k \in Kinds
    <2>1. CASE \E e \in W : e.doc = d /\ e.kind = k
      BY <1>5, <1>9, <2>1
    <2>2. CASE \A e \in W : ~(e.doc = d /\ e.kind = k)
      BY <1>10, <2>2 DEF IInv, Typed
    <2> QED
      BY <2>1, <2>2
  <1>12. journal' = [d \in Docs |-> [k \in Kinds |-> EntryAfter(s, d, k)]]
    BY DEF Commit
  <1>13. journal' \in [Docs -> [Kinds -> [Roles -> Int]]]
    BY <1>11, <1>12
  <1>14. ASSUME NEW d \in Docs, \A e \in W : e.doc # d
         PROVE  journal'[d] = journal[d]
    <2>1. \A k \in Kinds : journal'[d][k] = journal[d][k]
      BY <1>8, <1>10, <1>14
    <2> QED
      BY <1>13, <2>1 DEF IInv, Typed
  <1> QED
    BY <1>5, <1>7, <1>8, <1>9, <1>10, <1>13, <1>14 DEF IInv, Fresh

\* The document of the committer.
LEMMA CommittedDocument ==
    ASSUME ReversibleAmounts, IInv, NEW s \in Sessions, Commit(s),
           NEW D \in Docs, D = session[s].doc
    PROVE  DocOK(D)'
  <1> DEFINE A == session[s].amounts
             name == session[s].handler
             h == Handler[name]
             type == TypeOf[D]
  <1>1. SessionOK(s) /\ D \in Docs /\ type \in Types /\ name \in Names /\ TraitsOf(s) = h
    BY Committer, RequestTraits DEF TraitsOf
  <1>2. /\ Live(s) \/ Sweeping(s)
        /\ session[s].written =
               IF h.writes = "nothing" THEN {}
               ELSE IF ~h.replaces THEN {EntryOf(OwnItem(s))}
               ELSE {EntryOf(OwnItem(s)), EntryOf(SpareItem(s))}
        /\ h.writes # "nothing" => Accepted(OwnItem(s).amounts)
    BY Committer DEF TraitsOf
  <1>3. session[s].spare # D
    BY <1>1, LedgerAssumption DEF SessionOK, Spare
  <1>4. /\ status'[D] = IF h.to # "same" THEN h.to ELSE status[D]
        /\ deleted'[D] = (deleted[D] \/ h.deletes)
        /\ amounts'[D] = IF h.amends THEN A ELSE amounts[D]
    BY <1>1, <1>3 DEF Commit, StatusAfter, AmountsAfter
  <1>5. ~h.amends => A = amounts[D] \/ Sweeping(s)
    BY <1>1, <1>2 DEF Live
  <1>6. DocOK(D)
    BY <1>1 DEF IInv
  <1>7. h.amends => A \in AmountsFor(name, type)
    BY <1>1 DEF SessionOK, Target
  <1>8. CASE h.writes = "nothing"
    <2>1. journal'[D] = journal[D]
      BY <1>1, <1>8, <1>2, JournalAfter
    <2>2. name \in {"save_draft", "edit_draft", "delete_draft", "bulk_delete"}
      BY <1>1, <1>8, Traits DEF Names, Handler, Posting, Reversing, Cancelling
    <2>3. CASE name = "save_draft"
      <3>1. status[D] = "ABSENT"
        BY <1>1, <2>3, <1>2, Traits DEF Live, Sweeping, Creating
      <3>2. status'[D] = "DRAFT" /\ amounts'[D] \in Entered[type]
        BY <1>1, <1>4, <1>7, <2>3, Traits DEF AmountsFor, Creating
      <3> QED
        BY <1>6, <2>1, <3>1, <3>2 DEF DocOK
    <2>4. CASE name # "save_draft"
      <3>1. status[D] = "DRAFT"
        <4>1. h.from = {"DRAFT"}
          BY <1>1, <2>2, <2>4, Traits DEF Creating, Cancelling, Reversing
        <4> QED
          BY <1>1, <1>2, <4>1 DEF Live, Sweeping
      <3>2. status'[D] = "DRAFT"
        BY <1>1, <1>4, <2>2, <2>4, <3>1, Traits DEF Posting, Reversing, Cancelling
      <3>3. amounts'[D] \in Entered[type]
        BY <1>1, <1>4, <1>6, <1>7, <2>2, <2>4, <3>1, Traits DEF DocOK, AmountsFor, Creating
      <3> QED
        BY <1>6, <2>1, <3>1, <3>2, <3>3 DEF DocOK
    <2> QED
      BY <2>3, <2>4
  <1>9. ASSUME h.writes # "nothing"
        PROVE  /\ Live(s) /\ OwnItem(s).amounts = A /\ A \in Amounts /\ Accepted(A)
               /\ EntryOf(OwnItem(s)) \in session[s].written
               /\ EntryOf(OwnItem(s)).doc = D /\ EntryOf(OwnItem(s)).kind = h.writes
               /\ EntryOf(OwnItem(s)).lines =
                      IF h.writes = "posting" THEN PostingOf(type, A) ELSE ReversalOf(type, A)
               /\ \A k \in Kinds : k # h.writes => journal'[D][k] = journal[D][k]
    <2>1. Live(s)
      BY <1>1, <1>9, <1>2, RequestTraits DEF Sweeping, Posting, Reversing, Cancelling
    <2>2. OwnItem(s).amounts = A /\ A \in Amounts /\ Accepted(A)
      BY <1>1, <1>9, <2>1, OwnAmounts, <1>2 DEF SessionOK, Target
    <2>3. EntryOf(OwnItem(s)) \in session[s].written
      BY <1>1, <1>9, <1>2
    <2>4. /\ EntryOf(OwnItem(s)).doc = D /\ EntryOf(OwnItem(s)).kind = h.writes
          /\ EntryOf(OwnItem(s)).lines =
                 IF h.writes = "posting" THEN PostingOf(type, A) ELSE ReversalOf(type, A)
      BY <1>1, <2>2 DEF EntryOf, OwnItem, Item, LinesOf
    <2>5. EntryOf(SpareItem(s)).doc = session[s].spare
      BY DEF EntryOf, SpareItem, Item
    <2>6. \A e \in session[s].written : e.doc = D => e.kind = h.writes
      BY <1>1, <1>3, <1>9, <2>4, <2>5, <1>2
    <2>7. \A k \in Kinds :
              (\A e \in session[s].written : ~(e.doc = D /\ e.kind = k))
              => journal'[D][k] = journal[D][k]
      BY JournalAfter
    <2>8. \A k \in Kinds : k # h.writes => journal'[D][k] = journal[D][k]
      BY <2>6, <2>7
    <2> QED
      BY <2>1, <2>2, <2>3, <2>4, <2>8
  <1>10. CASE h.writes = "posting"
    <2>1. name \in Posting
      BY <1>1, <1>10, Traits
    <2>2. status[D] \in {"ABSENT", "DRAFT"} /\ ~deleted[D]
      BY <1>1, <1>9, <1>10, <2>1, Traits DEF Live, Posting, Reversing, Cancelling
    <2>3. journal[D] = NoEntries
      BY <1>6, <2>2 DEF DocOK
    <2>4. journal'[D].posting = PostingOf(type, A) /\ journal'[D].reversal = Nothing
      BY <1>9, <1>10, <2>3, JournalAfter DEF Kinds, NoEntries
    <2>5. /\ ~deleted'[D] /\ amounts'[D] = A
          /\ name = "import" => status'[D] = "IMPORTED" /\ A \in Imported[type]
          /\ name # "import" => status'[D] = "POSTED" /\ A \in Entered[type]
      <3>1. ~h.deletes
        BY <1>1, <2>1, Traits DEF Posting
      <3>2. h.to = IF name = "import" THEN "IMPORTED" ELSE "POSTED"
        BY <1>1, <2>1, Traits DEF Posting
      <3>3. ~h.amends => name # "import" /\ A = amounts[D] /\ status[D] = "DRAFT"
        BY <1>1, <1>9, <1>10, <2>1, Traits DEF Live, Posting, Creating, Reversing, Cancelling
      <3>4. amounts'[D] = A
        BY <1>4, <3>3
      <3>5. A \in IF name = "import" THEN Imported[type] ELSE Entered[type]
        BY <1>6, <1>7, <3>3 DEF AmountsFor, DocOK
      <3> QED
        BY <1>4, <2>2, <3>1, <3>2, <3>4, <3>5
    <2> QED
      BY <1>9, <1>10, <2>4, <2>5 DEF DocOK
  <1>11. CASE h.writes \notin {"nothing", "posting"}
    <2>1. name \in Reversing /\ h.writes = "reversal" /\ h.to = "CANCELLED" /\ ~h.amends
      BY <1>1, <1>11, Traits DEF Reversing, Cancelling, Posting, Creating
    <2>2. status[D] \in {"POSTED", "IMPORTED"} /\ A = amounts[D]
      BY <1>1, <1>9, <1>11, <2>1, Traits DEF Live, Reversing, Cancelling, Creating
    <2>3. /\ journal[D].posting = PostingOf(type, A)
          /\ A \in Entered[type] \cup Imported[type]
      BY <1>6, <2>2 DEF DocOK
    <2>4. journal'[D].posting = PostingOf(type, A) /\ journal'[D].reversal = ReversalOf(type, A)
      BY <1>9, <1>11, <2>1, <2>3, JournalAfter DEF Kinds
    <2>5. Negates(ReversalOf(type, A), PostingOf(type, A))
      BY <1>1, <1>9, <1>11, <2>3, TakesBack DEF ReversibleAmounts
    <2>6. status'[D] = "CANCELLED"
      BY <1>4, <2>1
    <2> QED
      BY <1>1, <1>9, <1>11, <2>4, <2>5, <2>6, EntryIsSomething DEF DocOK
  <1> QED
    BY <1>8, <1>10, <1>11

\* The replacement that the committer created.
LEMMA CommittedSpare ==
    ASSUME ReversibleAmounts, IInv, NEW s \in Sessions, Commit(s),
           TraitsOf(s).replaces, NEW P \in Docs, P = session[s].spare
    PROVE  DocOK(P)'
  <1> DEFINE B == session[s].spareAmounts
  <1>1. /\ SessionOK(s) /\ P \in Docs /\ P # session[s].doc /\ status[P] = "ABSENT"
        /\ TypeOf[P] = TypeOf[session[s].doc] /\ B \in Entered[TypeOf[P]]
    BY Committer DEF SessionOK, Spare
  <1>2. ~deleted[P] /\ journal[P] = NoEntries
    BY <1>1 DEF IInv, DocOK
  <1>3. status'[P] = "POSTED" /\ ~deleted'[P] /\ amounts'[P] = B
    BY <1>1, <1>2 DEF Commit, StatusAfter, AmountsAfter
  <1>4. TraitsOf(s).writes # "nothing"
    BY <1>1, RequestTraits DEF Posting, Reversing
  <1>5. /\ session[s].written = {EntryOf(OwnItem(s)), EntryOf(SpareItem(s))}
        /\ Accepted(B)
    <2>1. /\ session[s].written =
                 IF TraitsOf(s).writes = "nothing" THEN {}
                 ELSE IF ~TraitsOf(s).replaces THEN {EntryOf(OwnItem(s))}
                 ELSE {EntryOf(OwnItem(s)), EntryOf(SpareItem(s))}
          /\ TraitsOf(s).replaces => Accepted(SpareItem(s).amounts)
      BY Committer
    <2> QED
      BY <1>4, <2>1 DEF SpareItem, Item
  <1>6. /\ EntryOf(SpareItem(s)).doc = P /\ EntryOf(SpareItem(s)).kind = "posting"
        /\ EntryOf(SpareItem(s)).lines = PostingOf(TypeOf[P], B)
        /\ EntryOf(OwnItem(s)).doc = session[s].doc
    BY DEF EntryOf, SpareItem, OwnItem, Item, LinesOf
  <1>7. \A e \in session[s].written : e.doc = P => e.kind = "posting"
    BY <1>1, <1>5, <1>6
  <1>8. journal'[P].posting = PostingOf(TypeOf[P], B)
    <2>1. \A e \in session[s].written : journal'[e.doc][e.kind] = e.lines
      BY JournalAfter
    <2> QED
      BY <1>5, <1>6, <2>1
  <1>9. journal'[P].reversal = Nothing
    <2>1. (\A e \in session[s].written : ~(e.doc = P /\ e.kind = "reversal"))
          => journal'[P].reversal = journal[P].reversal
      BY JournalAfter DEF Kinds
    <2> QED
      BY <1>2, <1>7, <2>1 DEF NoEntries, Kinds
  <1> QED
    BY <1>1, <1>3, <1>5, <1>8, <1>9 DEF DocOK

\* What a COMMIT leaves of the other requests and of the other documents.
LEMMA CommitFrame ==
    ASSUME ReversibleAmounts, IInv, NEW s \in Sessions, Commit(s)
    PROVE  /\ session'[s] = Idle /\ DOMAIN session' = Sessions
           /\ \A t \in Sessions : t # s => session'[t] = session[t]
           /\ row_lock' \in [Lockable -> Sessions \cup {Nobody}]
           /\ \A x \in Lockable : row_lock'[x] = IF row_lock[x] = s THEN Nobody ELSE row_lock[x]
           /\ \A d \in Docs : d \notin {session[s].doc, session[s].spare} =>
                  /\ status'[d] = status[d] /\ deleted'[d] = deleted[d]
                  /\ amounts'[d] = amounts[d] /\ journal'[d] = journal[d]
  <1>1. session'[s] = Idle /\ DOMAIN session' = Sessions
        /\ \A t \in Sessions : t # s => session'[t] = session[t]
    BY DEF Commit, IInv, Typed
  <1>2. /\ row_lock' \in [Lockable -> Sessions \cup {Nobody}]
        /\ \A x \in Lockable : row_lock'[x] = IF row_lock[x] = s THEN Nobody ELSE row_lock[x]
    BY DEF Commit, Released, IInv, Typed
  <1>3. ASSUME NEW d \in Docs, d \notin {session[s].doc, session[s].spare}
        PROVE  /\ status'[d] = status[d] /\ deleted'[d] = deleted[d] /\ amounts'[d] = amounts[d]
               /\ journal'[d] = journal[d]
    <2>1. status'[d] = status[d] /\ deleted'[d] = deleted[d] /\ amounts'[d] = amounts[d]
      BY <1>3 DEF Commit, StatusAfter, AmountsAfter, IInv, Typed
    <2>2. \A e \in session[s].written : e.doc \in {session[s].doc, session[s].spare}
      BY JournalAfter
    <2>3. (\A e \in session[s].written : e.doc # d) => journal'[d] = journal[d]
      BY JournalAfter
    <2> QED
      BY <1>3, <2>1, <2>2, <2>3
  <1> QED
    BY <1>1, <1>2, <1>3

\* The other requests on the same document either hold no lock on it and are
\* then refused, or are bulk deletes of a draft that another one deleted.
LEMMA OthersAfterCommit ==
    ASSUME ReversibleAmounts, IInv, NEW s \in Sessions, Commit(s),
           NEW t \in Sessions, t # s, Busy(t)
    PROVE  SessionOK(t)'
  <1> DEFINE D == session[s].doc
             P == session[s].spare
             T == session[t].doc
  <1>1. SessionOK(t) /\ session'[t] = session[t] /\ t # Nobody
    BY CommitFrame, LedgerAssumption DEF IInv
  <1>2. TraitsOf(t)' = TraitsOf(t) /\ OwnItem(t)' = OwnItem(t) /\ SpareItem(t)' = SpareItem(t)
    BY <1>1 DEF TraitsOf, OwnItem, SpareItem
  <1>3. /\ SessionOK(s) /\ (Live(s) \/ Sweeping(s)) /\ row_lock[D] \in {Nobody, s}
        /\ session[s].written =
               IF TraitsOf(s).writes = "nothing" THEN {}
               ELSE IF ~TraitsOf(s).replaces THEN {EntryOf(OwnItem(s))}
               ELSE {EntryOf(OwnItem(s)), EntryOf(SpareItem(s))}
    BY Committer
  <1>4. /\ D \in Docs /\ T \in Docs
        /\ P \in Docs => row_lock[P] = s /\ status[P] = "ABSENT"
    BY <1>1, <1>3, LedgerAssumption DEF SessionOK, Target, Spare
  <1>5. \A d \in Docs : row_lock[d] = t => d \notin {D, P} /\ row_lock'[d] = t
    BY <1>1, <1>3, <1>4, CommitFrame DEF Lockable
  <1>6. Target(t)'
    BY <1>1, <1>2, <1>5 DEF SessionOK, Target
  <1>7. Spare(t)'
    <2>1. \A d \in Docs : row_lock[d] = t => status'[d] = status[d]
      BY <1>5, CommitFrame
    <2> QED
      BY <1>1, <1>2, <1>5, <2>1 DEF SessionOK, Spare
  <1>8. Progress(t)'
    BY <1>1, <1>2 DEF SessionOK, Progress
  <1>9. Current(t)'
    <2>1. CASE T \notin {D, P}
      <3>1. /\ status'[T] = status[T] /\ deleted'[T] = deleted[T]
            /\ amounts'[T] = amounts[T] /\ journal'[T] = journal[T]
        BY <1>4, <2>1, CommitFrame
      <3> QED
        BY <1>1, <1>2, <3>1 DEF SessionOK, Current, Live, Doomed, Sweeping
    <2>2. CASE Doomed(t)
      <3>1. TraitsOf(t).writes \in Kinds
        BY <1>1, <2>2, RequestTraits DEF Doomed, Kinds
      <3>2. \A e \in session[s].written : journal[e.doc][e.kind] = Nothing
        BY JournalAfter
      <3>3. \A e \in session[s].written : ~(e.doc = T /\ e.kind = TraitsOf(t).writes)
        BY <2>2, <3>2 DEF Doomed
      <3>4. \A d \in Docs, k \in Kinds :
                (\A e \in session[s].written : ~(e.doc = d /\ e.kind = k))
                => journal'[d][k] = journal[d][k]
        BY JournalAfter
      <3>5. journal'[T][TraitsOf(t).writes] = journal[T][TraitsOf(t).writes]
        BY <1>4, <3>1, <3>3, <3>4
      <3> QED
        BY <1>1, <1>2, <2>2, <3>5 DEF Current, Doomed
    <2>3. CASE T = P /\ ~Doomed(t)
      <3>1. status[T] = "ABSENT" /\ row_lock[T] = s
        BY <1>4, <2>3
      <3>2. "ABSENT" \in TraitsOf(t).from
        BY <1>1, <2>3, <3>1 DEF SessionOK, Current, Live, Sweeping
      <3>3. session[t].handler \in Creating
        BY <1>1, <3>2, RequestTraits, Traits DEF TraitsOf
      <3>4. TraitsOf(t).locks
        BY <1>1, <3>3, RequestTraits DEF Creating, Unlocked
      <3> QED
        BY <1>1, <3>1, <3>4 DEF SessionOK, Target
    <2>4. CASE T = D /\ T # P /\ ~Doomed(t)
      <3>1. session[t].handler \in Unlocked /\ ~TraitsOf(t).locks
        BY <1>1, <1>3, <1>4, <1>5, <2>4, RequestTraits DEF SessionOK, Target
      <3>2. Live(t) \/ Sweeping(t)
        BY <1>1, <2>4 DEF SessionOK, Current
      <3>3. Live(s) => status[T] \in TraitsOf(s).from
        BY <2>4 DEF Live
      <3>4. /\ TraitsOf(s) = Handler[session[s].handler] /\ session[s].handler \in Names
            /\ TraitsOf(t) = Handler[session[t].handler] /\ session[t].handler \in Names
        BY <1>1, <1>3, RequestTraits DEF TraitsOf
      <3>5. "DRAFT" \in TraitsOf(s).from /\ "DRAFT" \in TraitsOf(t).from
            => session[s].handler = session[t].handler
        <4>1. Busy(s)
          BY Committer
        <4>2. ~Overlaps(session[s].handler, session[t].handler)
          BY <2>4, <4>1 DEF IInv, Apart
        <4> QED
          BY <3>1, <3>4, <4>2 DEF Overlaps
      <3>6. ASSUME TraitsOf(s).writes = TraitsOf(t).writes, TraitsOf(t).writes # "nothing"
            PROVE  Current(t)'
        <4>1. EntryOf(OwnItem(s)) \in session[s].written
          BY <1>3, <3>6
        <4>2. EntryOf(OwnItem(s)).doc = T /\ EntryOf(OwnItem(s)).kind = TraitsOf(t).writes
          BY <2>4, <3>6 DEF EntryOf, OwnItem, Item
        <4>3. \A e \in session[s].written : e.lines # Nothing /\ journal'[e.doc][e.kind] = e.lines
          BY JournalAfter
        <4>4. journal'[T][TraitsOf(t).writes] # Nothing
          BY <4>1, <4>2, <4>3
        <4>5. EntryOf(OwnItem(t)).doc = T /\ EntryOf(OwnItem(t)).kind = TraitsOf(t).writes
          BY DEF EntryOf, OwnItem, Item
        <4>6. EntryOf(OwnItem(t)) \notin session[t].written
          BY <4>1, <4>2, <4>5 DEF IInv, UniqueSource
        <4>7. session[t].written = {}
          BY <1>1, <4>6 DEF SessionOK, Progress
        <4> QED
          BY <1>1, <1>2, <3>1, <3>6, <4>4, <4>7 DEF Current, Doomed
      <3>7. CASE session[t].handler = "bulk_delete"
        <4>1. TraitsOf(t).from = {"DRAFT"}
          BY <3>4, <3>7, Traits DEF Creating, Reversing, Cancelling
        <4>2. status[T] = "DRAFT"
          BY <3>2, <4>1 DEF Live, Sweeping
        <4>3. session[s].handler = "bulk_delete"
          <5>1. CASE Live(s)
            BY <3>3, <3>5, <3>7, <4>1, <4>2, <5>1
          <5>2. CASE Sweeping(s)
            BY <5>2 DEF Sweeping
          <5> QED
            BY <1>3, <5>1, <5>2
        <4>4. TraitsOf(s).to = "same"
          BY <3>4, <4>3, Traits DEF Posting, Reversing, Cancelling
        <4>5. status'[T] = status[T]
          BY <1>4, <2>4, <4>4 DEF Commit, StatusAfter
        <4> QED
          BY <1>1, <3>7, <4>2, <4>5 DEF Current, Sweeping
      <3>8. CASE session[t].handler = "post_expense"
        <4>1. TraitsOf(t).from = {"DRAFT"} /\ TraitsOf(t).writes = "posting"
          BY <3>4, <3>8, Traits DEF Creating, Reversing, Cancelling, Posting
        <4>2. status[T] = "DRAFT"
          BY <3>2, <3>8, <4>1 DEF Live, Sweeping
        <4>3. "DRAFT" \in TraitsOf(s).from
          <5>1. CASE Live(s)
            BY <3>3, <4>2, <5>1
          <5>2. CASE Sweeping(s)
            BY <3>4, <5>2, Traits DEF Sweeping, Creating, Reversing, Cancelling
          <5> QED
            BY <1>3, <5>1, <5>2
        <4>4. session[s].handler = session[t].handler
          BY <3>5, <4>1, <4>3
        <4> QED
          BY <3>4, <3>6, <4>1, <4>4
      <3>9. CASE session[t].handler = "cancel_expense"
        <4>1. TraitsOf(t).from = {"POSTED"} /\ TraitsOf(t).writes = "reversal"
          BY <3>4, <3>9, Traits DEF Creating, Reversing, Cancelling, Posting
        <4>2. status[T] = "POSTED"
          BY <3>2, <3>9, <4>1 DEF Live, Sweeping
        <4>3. "POSTED" \in TraitsOf(s).from
          BY <1>3, <2>4, <3>3, <4>2 DEF Sweeping
        <4>4. session[s].handler \in Reversing
          BY <3>4, <4>3, Traits DEF Reversing
        <4>5. TraitsOf(s).writes = "reversal"
          BY <3>4, <4>4, Traits DEF Reversing, Cancelling, Posting
        <4> QED
          BY <3>6, <4>1, <4>5
      <3> QED
        BY <3>1, <3>7, <3>8, <3>9 DEF Unlocked
    <2> QED
      BY <2>1, <2>2, <2>3, <2>4
  <1> QED
    BY <1>6, <1>7, <1>8, <1>9 DEF SessionOK

\* A COMMIT takes every document to a status that its journal entries agree with.
LEMMA CommitStep ==
    ASSUME ReversibleAmounts, IInv, NEW s \in Sessions, Commit(s)
    PROVE  IInv'
  <1>1. SessionOK(s) /\ session[s].doc \in Docs /\ session[s].handler \in Names
    BY Committer, RequestTraits
  <1>2. Typed'
    <2>1. TraitsOf(s).to \in {"same", "DRAFT", "IMPORTED", "POSTED", "CANCELLED"}
      BY <1>1, Traits DEF TraitsOf
    <2>2. status' \in [Docs -> {"UNUSED", "ABSENT", "DRAFT", "IMPORTED", "POSTED", "CANCELLED"}]
      BY <2>1 DEF Commit, StatusAfter, IInv, Typed
    <2>3. deleted' \in [Docs -> BOOLEAN]
      <3>1. \A d \in Docs : (deleted[d] \/ (d = session[s].doc /\ TraitsOf(s).deletes)) \in BOOLEAN
        OBVIOUS
      <3> QED
        BY <3>1 DEF Commit
    <2>4. amounts' \in [Docs -> Amounts]
      BY <1>1 DEF Commit, AmountsAfter, IInv, Typed, SessionOK, Target
    <2>5. DOMAIN balance' = Accounts /\ skipped' \subseteq Accounts
      BY DEF Commit
    <2>6. \A t \in Sessions : DOMAIN session'[t] = DOMAIN Idle
      BY CommitFrame DEF IInv, Typed
    <2> QED
      BY <2>2, <2>3, <2>4, <2>5, <2>6, CommitFrame, JournalAfter DEF Typed
  <1>3. HoldersBusy'
    <2>1. ASSUME NEW x \in Lockable, row_lock'[x] # Nobody
          PROVE  session'[row_lock'[x]].handler # "idle"
      <3>1. row_lock'[x] = row_lock[x] /\ row_lock[x] # s /\ row_lock[x] \in Sessions
        BY <2>1, CommitFrame DEF IInv, Typed
      <3>2. session'[row_lock[x]] = session[row_lock[x]]
        BY <3>1, CommitFrame
      <3> QED
        BY <2>1, <3>1, <3>2 DEF IInv, HoldersBusy, Busy
    <2> QED
      BY <2>1 DEF HoldersBusy, Busy
  <1>4. ASSUME NEW d \in Docs
        PROVE  DocOK(d)'
    <2>1. CASE d = session[s].doc
      BY <2>1, CommittedDocument
    <2>2. CASE d = session[s].spare
      <3>1. TraitsOf(s).replaces
        BY <1>1, <2>2, LedgerAssumption DEF SessionOK, Spare
      <3> QED
        BY <2>2, <3>1, CommittedSpare
    <2>3. CASE d \notin {session[s].doc, session[s].spare}
      <3>1. /\ status'[d] = status[d] /\ deleted'[d] = deleted[d]
            /\ amounts'[d] = amounts[d] /\ journal'[d] = journal[d]
        BY <2>3, CommitFrame
      <3> QED
        BY <3>1 DEF IInv, DocOK
    <2> QED
      BY <2>1, <2>2, <2>3
  <1>5. ASSUME NEW t \in Sessions
        PROVE  (IF Busy(t) THEN SessionOK(t) ELSE session[t] = Idle)'
    <2>1. CASE t = s
      <3>1. session'[t] = Idle
        BY <2>1, CommitFrame
      <3>2. session'[t].handler = "idle"
        BY <3>1 DEF Idle
      <3> QED
        BY <3>1, <3>2 DEF Busy
    <2>2. CASE t # s
      <3>1. session'[t] = session[t]
        BY <2>2, CommitFrame
      <3>2. CASE Busy(t)
        <4>1. SessionOK(t)'
          BY <2>2, <3>2, OthersAfterCommit
        <4> QED
          BY <3>1, <3>2, <4>1 DEF Busy
      <3>3. CASE ~Busy(t)
        BY <3>1, <3>3 DEF IInv, Busy
      <3> QED
        BY <3>2, <3>3
    <2> QED
      BY <2>1, <2>2
  <1>6. session'[s].written = {} /\ ~Busy(s)'
    BY CommitFrame DEF Busy, Idle
  <1>7. \A t \in Sessions : t # s => session'[t] = session[t]
    BY CommitFrame
  <1>8. UniqueSource'
    BY <1>6, <1>7 DEF IInv, UniqueSource
  <1>9. Fresh'
    <2>1. ASSUME NEW t \in Sessions, t # s, NEW e \in session[t].written
          PROVE  journal'[e.doc][e.kind] = Nothing
      <3>1. SessionOK(t)
        BY <2>1 DEF IInv, Idle
      <3>2. e.doc \in Docs /\ e.kind \in Kinds
        <4>1. e = EntryOf(OwnItem(t)) \/ (TraitsOf(t).replaces /\ e = EntryOf(SpareItem(t)))
          BY <2>1, <3>1 DEF SessionOK, Progress
        <4>2. TraitsOf(t).writes # "nothing" /\ TraitsOf(t).writes \in Kinds
          BY <2>1, <3>1, RequestTraits DEF SessionOK, Progress, Kinds, Posting, Reversing
        <4> QED
          BY <3>1, <4>1, <4>2 DEF SessionOK, Target, Spare, EntryOf, OwnItem, SpareItem, Item, Kinds
      <3>3. \A f \in session[s].written : ~(f.doc = e.doc /\ f.kind = e.kind)
        BY <2>1 DEF IInv, UniqueSource
      <3>4. \A d \in Docs, k \in Kinds :
                (\A f \in session[s].written : ~(f.doc = d /\ f.kind = k))
                => journal'[d][k] = journal[d][k]
        BY JournalAfter
      <3>5. journal'[e.doc][e.kind] = journal[e.doc][e.kind]
        BY <3>2, <3>3, <3>4
      <3> QED
        BY <2>1, <3>5 DEF IInv, Fresh
    <2> QED
      BY <1>6, <1>7, <2>1 DEF Fresh
  <1>10. Apart'
    BY <1>6, <1>7 DEF IInv, Apart, Busy
  <1> QED
    BY <1>2, <1>3, <1>4, <1>5, <1>8, <1>9, <1>10 DEF IInv

-----------------------------------------------------------------------------
(* The theorems.                                                           *)

\* It holds before the first request.
LEMMA Initially ==
    ASSUME Init
    PROVE  IInv
  <1>1. Typed
    <2>1. journal \in [Docs -> [Kinds -> [Roles -> Int]]]
      BY DEF Init, NoEntries, Nothing
    <2>2. amounts \in [Docs -> Amounts]
      BY NoAmountsTyped DEF Init
    <2>3. status \in [Docs -> {"UNUSED", "ABSENT", "DRAFT", "IMPORTED", "POSTED", "CANCELLED"}]
      BY DEF Init
    <2> QED
      BY <2>1, <2>2, <2>3, LedgerAssumption DEF Init, Typed
  <1>2. \A d \in Docs : DocOK(d)
    BY DEF Init, DocOK
  <1>3. \A s \in Sessions : session[s] = Idle /\ ~Busy(s) /\ session[s].written = {}
    BY DEF Init, Idle, Busy
  <1>4. HoldersBusy
    BY DEF Init, HoldersBusy
  <1> QED
    BY <1>1, <1>2, <1>3, <1>4 DEF IInv, UniqueSource, Fresh, Apart

\* Every step keeps it.
LEMMA Stepwise ==
    ASSUME DraftsSerialised, ReversibleAmounts, IInv, [Next]_vars
    PROVE  IInv'
  <1>1. ASSUME NEW s \in Sessions, NEW d \in Docs, NEW name \in Workflow[TypeOf[d]], Open(s, d, name)
        PROVE  IInv'
    BY <1>1, OpenStep
  <1>2. ASSUME NEW s \in Sessions, Advance(s)
        PROVE  IInv'
    <2>1. CASE Insert(s)
      BY <2>1, InsertStep
    <2>2. CASE \E x \in Accounts : LockAccount(s, x)
      BY <2>2, LockAccountStep
    <2>3. CASE Recompute(s)
      BY <2>3, RecomputeStep
    <2>4. CASE Commit(s)
      BY <2>4, CommitStep
    <2>5. CASE Refuse(s) \/ DeadlockVictim(s)
      BY <2>5, RollbackStep DEF Refuse, DeadlockVictim
    <2> QED
      BY <1>2, <2>1, <2>2, <2>3, <2>4, <2>5 DEF Advance
  <1>3. ASSUME NEW s \in Sessions, Crash(s)
        PROVE  IInv'
    BY <1>3, RollbackStep DEF Crash
  <1>4. CASE UNCHANGED vars
    BY <1>4, QuietStep DEF vars, IInv, Typed, HoldersBusy, Busy, SameRequest
  <1> QED
    BY <1>1, <1>2, <1>3, <1>4 DEF Next

\* The inductive invariant holds in every state.
THEOREM Invariance ==
    ASSUME DraftsSerialised, ReversibleAmounts
    PROVE  Spec => []IInv
  <1>1. Init => IInv
    BY Initially, LedgerAssumption
  <1>2. IInv /\ [Next]_vars => IInv'
    BY Stepwise, LedgerAssumption
  <1> QED
    BY <1>1, <1>2, PTL DEF Spec

\* A transaction holds what it locked until it ends (SELECT ... FOR UPDATE),
\* and what it stores has the types of the columns.
THEOREM TypeCorrect ==
    ASSUME DraftsSerialised, ReversibleAmounts
    PROVE  Spec => []TypeOK
  <1>1. IInv => TypeOK
    <2> SUFFICES ASSUME IInv PROVE TypeOK
      OBVIOUS
    <2>1. ASSUME NEW s \in Sessions, Busy(s)
          PROVE  /\ TraitsOf(s).locks => row_lock[session[s].doc] = s
                 /\ session[s].spare # Nobody => row_lock[session[s].spare] = s
      BY <2>1 DEF IInv, SessionOK, Target, Spare
    <2> QED
      BY <2>1 DEF TypeOK, IInv, Typed, HoldersBusy
  <1> QED
    BY <1>1, Invariance, PTL

\* The entries of a document come to nothing unless it counts.
LEMMA NetOfDocument ==
    ASSUME IInv, NEW d \in Docs, NEW r \in Roles
    PROVE  Net(d, r) = IF Counts(d) THEN PostingOf(TypeOf[d], amounts[d])[r] ELSE 0
  <1>1. /\ journal[d].posting[r] \in Int /\ journal[d].reversal[r] \in Int
        /\ status[d] \in {"UNUSED", "ABSENT", "DRAFT", "IMPORTED", "POSTED", "CANCELLED"}
    BY DEF IInv, Typed, Kinds
  <1>2. DocOK(d)
    BY DEF IInv
  <1>3. CASE status[d] \in {"UNUSED", "ABSENT", "DRAFT"}
    <2>1. journal[d] = NoEntries
      BY <1>2, <1>3 DEF DocOK
    <2> QED
      BY <1>3, <2>1 DEF Net, Counts, NoEntries, Nothing, Kinds
  <1>4. CASE status[d] \in {"POSTED", "IMPORTED"}
    <2>1. /\ ~deleted[d] /\ journal[d].posting = PostingOf(TypeOf[d], amounts[d])
          /\ journal[d].reversal = Nothing
      BY <1>2, <1>4 DEF DocOK
    <2>2. journal[d].reversal[r] = 0
      BY <2>1 DEF Nothing
    <2> QED
      BY <1>1, <1>4, <2>1, <2>2 DEF Net, Counts
  <1>5. CASE status[d] = "CANCELLED"
    <2>1. Negates(journal[d].reversal, journal[d].posting)
      BY <1>2, <1>5 DEF DocOK
    <2>2. journal[d].reversal[r] = -journal[d].posting[r]
      BY <2>1 DEF Negates
    <2> QED
      BY <1>1, <1>5, <2>2 DEF Net, Counts
  <1> QED
    BY <1>1, <1>3, <1>4, <1>5

\* The books say what the documents say, for any number of documents, accounts
\* and concurrent requests and for all amounts, on two assumptions that the code
\* does not enforce: unlocked drafts have one kind of handler at a time, and
\* what is reversed has no shipping that CancelInvoice forgets and no round-off
\* that the reversal of a bill or an expense repeats.
THEOREM BooksMatchDocuments ==
    ASSUME DraftsSerialised, ReversibleAmounts
    PROVE  Spec => []LedgerMatchesDocument
  <1>1. IInv => LedgerMatchesDocument
    BY NetOfDocument, LedgerAssumption DEF LedgerMatchesDocument
  <1> QED
    BY <1>1, Invariance, PTL

\* On the same assumptions nothing is left in the books of what was cancelled
\* or deleted, and no posted document is deleted without its reversal: the
\* three findings of the runs have these two causes and no other.
THEOREM NothingLeftBehind ==
    ASSUME DraftsSerialised, ReversibleAmounts
    PROVE  Spec => [](CancellationReverses /\ DeletionReverses /\ OnlyDraftsBulkDeleted)
  <1>1. IInv => CancellationReverses
    BY NetOfDocument, LedgerAssumption DEF CancellationReverses, Counts
  <1>2. IInv => DeletionReverses
    BY NetOfDocument, LedgerAssumption DEF DeletionReverses, Counts
  <1>3. IInv => OnlyDraftsBulkDeleted
    <2> SUFFICES ASSUME IInv, NEW d \in Docs, deleted[d], journal[d].posting # Nothing
                 PROVE  journal[d].reversal # Nothing
      BY DEF OnlyDraftsBulkDeleted
    <2>1. DocOK(d)
      BY DEF IInv
    <2>2. NoEntries.posting = Nothing
      BY DEF NoEntries, Kinds
    <2> QED
      BY <2>1, <2>2 DEF DocOK
  <1> QED
    BY <1>1, <1>2, <1>3, Invariance, PTL

-----------------------------------------------------------------------------
(* Part 3: balances.                                                       *)

Items == [doc : Docs, kind : Kinds, amounts : Amounts]

\* What an entry of a document comes to on an account, over the documents.
OnAccount(d, x) == LinesOn(d, journal[d].posting, x) + LinesOn(d, journal[d].reversal, x)
Pending(s, x) == LET written == session[s].written
                 IN  SumFunctionOnSet([e \in written |-> LinesOn(e.doc, e.lines, x)], written)

-----------------------------------------------------------------------------
\* An entry has finitely many lines.
LEMMA RolesFinite == IsFiniteSet(Roles)
<1>1. IsFiniteSet({"party"}) /\ IsFiniteSet({"nominal"}) /\ IsFiniteSet({"shipping"}) /\ IsFiniteSet({"tax"})
  BY FS_Singleton
<1>2. IsFiniteSet({"tds"}) /\ IsFiniteSet({"tcs"}) /\ IsFiniteSet({"partyRoundOff"}) /\ IsFiniteSet({"roundOff"})
  BY FS_Singleton
<1>3. IsFiniteSet({"party"} \cup {"nominal"}) /\ IsFiniteSet({"shipping"} \cup {"tax"})
  BY <1>1, FS_Union
<1>4. IsFiniteSet({"tds"} \cup {"tcs"}) /\ IsFiniteSet({"partyRoundOff"} \cup {"roundOff"})
  BY <1>2, FS_Union
<1>5. IsFiniteSet(({"party"} \cup {"nominal"}) \cup ({"shipping"} \cup {"tax"}))
      /\ IsFiniteSet(({"tds"} \cup {"tcs"}) \cup ({"partyRoundOff"} \cup {"roundOff"}))
  BY <1>3, <1>4, FS_Union
<1>6. Roles = (({"party"} \cup {"nominal"}) \cup ({"shipping"} \cup {"tax"}))
                 \cup (({"tds"} \cup {"tcs"}) \cup ({"partyRoundOff"} \cup {"roundOff"}))
  BY DEF Roles
<1> QED BY <1>5, <1>6, FS_Union

\* What an entry writes on an account is an integer, and 0 where it has no line.
LEMMA LinesOnTyped ==
    ASSUME NEW d \in Docs, NEW lines \in [Roles -> Int], NEW x
    PROVE  /\ LinesOn(d, lines, x) \in Int
           /\ x \notin AccountsOf(d, lines) => LinesOn(d, lines, x) = 0
<1> DEFINE R == {r \in Roles : AccountOf[d][r] = x}
<1>1. IsFiniteSet(R) /\ \A r \in R : lines[r] \in Int
  BY RolesFinite, FS_Subset
<1>2. x \notin AccountsOf(d, lines) => \A r \in R : lines[r] = 0
  BY DEF AccountsOf
<1> HIDE DEF R
<1>3. SumFunctionOnSet(lines, R) \in Int
  BY <1>1, SumType
<1>4. (\A r \in R : lines[r] = 0) => SumFunctionOnSet(lines, R) = 0
  BY <1>1, SumZero
<1> QED BY <1>2, <1>3, <1>4 DEF LinesOn, R

\* The lines of an entry over all roles, and over all accounts: nothing, as it balances.
LEMMA SumOverRoles ==
    ASSUME NEW e \in [Roles -> Int], Balanced(e)
    PROVE  SumFunctionOnSet(e, Roles) = 0
<1> DEFINE R1 == Roles \ {"party"}
           R2 == R1 \ {"nominal"}
           R3 == R2 \ {"shipping"}
           R4 == R3 \ {"tax"}
           R5 == R4 \ {"tds"}
           R6 == R5 \ {"tcs"}
           R7 == R6 \ {"partyRoundOff"}
           R8 == R7 \ {"roundOff"}
<1>1. IsFiniteSet(Roles) /\ IsFiniteSet(R1) /\ IsFiniteSet(R2) /\ IsFiniteSet(R3) /\ IsFiniteSet(R4)
      /\ IsFiniteSet(R5) /\ IsFiniteSet(R6) /\ IsFiniteSet(R7)
  BY RolesFinite, FS_Subset
<1>2. /\ "party" \in Roles /\ "nominal" \in R1 /\ "shipping" \in R2 /\ "tax" \in R3 /\ "tds" \in R4
      /\ "tcs" \in R5 /\ "partyRoundOff" \in R6 /\ "roundOff" \in R7 /\ R8 = {}
  BY DEF Roles
<1>3. \A r \in Roles : e[r] \in Int
  OBVIOUS
<1>4. R1 \subseteq Roles /\ R2 \subseteq R1 /\ R3 \subseteq R2 /\ R4 \subseteq R3 /\ R5 \subseteq R4
      /\ R6 \subseteq R5 /\ R7 \subseteq R6
  OBVIOUS
<1>5. SumFunctionOnSet(e, Roles) = e.party + SumFunctionOnSet(e, R1)
  BY <1>1, <1>2, <1>3, SumRest
<1>6. SumFunctionOnSet(e, R1) = e.nominal + SumFunctionOnSet(e, R2)
  BY <1>1, <1>2, <1>3, <1>4, SumRest
<1>7. SumFunctionOnSet(e, R2) = e.shipping + SumFunctionOnSet(e, R3)
  BY <1>1, <1>2, <1>3, <1>4, SumRest
<1>8. SumFunctionOnSet(e, R3) = e.tax + SumFunctionOnSet(e, R4)
  BY <1>1, <1>2, <1>3, <1>4, SumRest
<1>9. SumFunctionOnSet(e, R4) = e.tds + SumFunctionOnSet(e, R5)
  BY <1>1, <1>2, <1>3, <1>4, SumRest
<1>10. SumFunctionOnSet(e, R5) = e.tcs + SumFunctionOnSet(e, R6)
  BY <1>1, <1>2, <1>3, <1>4, SumRest
<1>11. SumFunctionOnSet(e, R6) = e.partyRoundOff + SumFunctionOnSet(e, R7)
  BY <1>1, <1>2, <1>3, <1>4, SumRest
<1>12. SumFunctionOnSet(e, R7) = e.roundOff + 0
  <2>1. SumFunctionOnSet(e, R7) = e.roundOff + SumFunctionOnSet(e, R8)
    BY <1>1, <1>2, <1>3, <1>4, SumRest
  <2>2. SumFunctionOnSet(e, R8) = 0
    BY <1>2, SumEmpty
  <2> QED BY <2>1, <2>2
<1>13. /\ e.party \in Int /\ e.nominal \in Int /\ e.shipping \in Int /\ e.tax \in Int /\ e.tds \in Int
       /\ e.tcs \in Int /\ e.partyRoundOff \in Int /\ e.roundOff \in Int
  BY DEF Roles
<1> HIDE DEF R1, R2, R3, R4, R5, R6, R7, R8
<1> QED BY <1>5, <1>6, <1>7, <1>8, <1>9, <1>10, <1>11, <1>12, <1>13 DEF Balanced

\* Debit equals credit: over all accounts a balanced entry writes nothing.
LEMMA LinesCancel ==
    ASSUME NEW d \in Docs, NEW e \in [Roles -> Int], Balanced(e)
    PROVE  SumFunctionOnSet([x \in Accounts |-> LinesOn(d, e, x)], Accounts) = 0
<1>1. /\ IsFiniteSet(Roles) /\ IsFiniteSet(Accounts)
      /\ \A r \in Roles : AccountOf[d][r] \in Accounts
      /\ \A r \in Roles : e[r] \in Int
  BY RolesFinite, LedgerAssumption
<1>2. SumFunctionOnSet([x \in Accounts |-> SumFunctionOnSet(e, {r \in Roles : AccountOf[d][r] = x})], Accounts)
          = SumFunctionOnSet(e, Roles)
  <2> PICK a : a = AccountOf[d]
    OBVIOUS
  <2>1. \A r \in Roles : a[r] \in Accounts
    BY <1>1
  <2>2. SumFunctionOnSet([x \in Accounts |-> SumFunctionOnSet(e, {r \in Roles : a[r] = x})], Accounts)
            = SumFunctionOnSet(e, Roles)
    BY ONLY <1>1, <2>1, SumPartition
  <2> QED BY <2>2
<1> QED BY <1>2, SumOverRoles DEF LinesOn

\* What is booked on an account, summed over all documents.
LEMMA BookedOverAll ==
    ASSUME journal \in [Docs -> [Kinds -> [Roles -> Int]]], NEW x
    PROVE  /\ Booked(x) = SumFunctionOnSet([d \in Docs |-> OnAccount(d, x)], Docs)
           /\ Booked(x) \in Int
           /\ \A d \in Docs : OnAccount(d, x) \in Int
<1> DEFINE f == [d \in Docs |-> OnAccount(d, x)]
           R == {d \in Docs : journal[d] # NoEntries}
<1>1. ASSUME NEW d \in Docs
      PROVE  /\ LinesOn(d, journal[d].posting, x) \in Int /\ LinesOn(d, journal[d].reversal, x) \in Int
             /\ journal[d] = NoEntries => OnAccount(d, x) = 0
  <2>1. journal[d].posting \in [Roles -> Int] /\ journal[d].reversal \in [Roles -> Int]
    BY DEF Kinds
  <2>2. Nothing \in [Roles -> Int] /\ x \notin AccountsOf(d, Nothing)
    BY DEF Nothing, AccountsOf
  <2>3. LinesOn(d, Nothing, x) = 0
    BY <2>2, LinesOnTyped
  <2>4. NoEntries.posting = Nothing /\ NoEntries.reversal = Nothing
    BY DEF NoEntries, Kinds
  <2>5. LinesOn(d, journal[d].posting, x) \in Int /\ LinesOn(d, journal[d].reversal, x) \in Int
    BY <2>1, LinesOnTyped
  <2>6. journal[d] = NoEntries => journal[d].posting = Nothing /\ journal[d].reversal = Nothing
    BY <2>4
  <2>7. journal[d] = NoEntries => OnAccount(d, x) = 0
    BY <2>3, <2>6 DEF OnAccount
  <2> QED BY <2>5, <2>7
<1>2. /\ IsFiniteSet(Docs) /\ R \in SUBSET Docs
      /\ \A d \in Docs : f[d] \in Int
      /\ \A d \in Docs \ R : f[d] = 0
  BY <1>1, LedgerAssumption DEF OnAccount
<1>3. f = [d \in Docs |-> LinesOn(d, journal[d].posting, x) + LinesOn(d, journal[d].reversal, x)]
  BY DEF OnAccount
<1>4. Booked(x) = SumFunctionOnSet(f, R)
  BY <1>3 DEF Booked
<1> HIDE DEF f, R
<1>5. SumFunctionOnSet(f, Docs) = SumFunctionOnSet(f, R) /\ SumFunctionOnSet(f, Docs) \in Int
  BY <1>2, SumSubset, SumType
<1> QED BY <1>1, <1>4, <1>5 DEF f, OnAccount

\* BookedOverAll, of the next state.
LEMMA BookedOverAllNext ==
    journal' \in [Docs -> [Kinds -> [Roles -> Int]]]
        => \A x : Booked(x)' = SumFunctionOnSet([d \in Docs |-> OnAccount(d, x)'], Docs)
<1>1. journal \in [Docs -> [Kinds -> [Roles -> Int]]]
          => \A x : Booked(x) = SumFunctionOnSet([d \in Docs |-> OnAccount(d, x)], Docs)
  BY BookedOverAll
<1>2. (journal \in [Docs -> [Kinds -> [Roles -> Int]]]
          => \A x : Booked(x) = SumFunctionOnSet([d \in Docs |-> OnAccount(d, x)], Docs))'
  BY <1>1, PTL
<1> QED BY <1>2

-----------------------------------------------------------------------------
(* The inductive invariant.                                                *)

Tables ==
    /\ journal \in [Docs -> [Kinds -> [Roles -> Int]]] /\ amounts \in [Docs -> Amounts]
    /\ \A d \in Docs, k \in Kinds : Balanced(journal[d][k])
    /\ balance \in [Accounts -> Int]
    /\ row_lock \in [Lockable -> Sessions \cup {Nobody}]
    /\ DOMAIN session = Sessions
    /\ \A s \in Sessions : /\ DOMAIN session[s] = DOMAIN Idle
                            /\ session[s].amounts \in Amounts /\ session[s].spareAmounts \in Amounts

\* The entries still to be written, one for each document.
Planned(s) ==
    LET todo == session[s].todo
    IN  /\ todo \in Seq(Items)
        /\ \A i, j \in 1 .. Len(todo) : i # j => todo[i].doc # todo[j].doc

\* The entries written, each balanced, and not another for a document still to come.
Noted(s) ==
    LET todo == session[s].todo
        written == session[s].written
    IN  /\ IsFiniteSet(written)
        /\ \A e \in written : /\ e.doc \in Docs /\ e.kind \in Kinds
                              /\ e.lines \in [Roles -> Int] /\ Balanced(e.lines)
                              /\ \A f \in written : e # f => e.doc # f.doc
                              /\ \A i \in 1 .. Len(todo) : todo[i].doc # e.doc

\* The accounts of what is written are locked until the end or being locked; on those
\* that are not waiting, the balance to be stored is that of the ledger, but for the
\* accounts it is not written to.
Tallied(s) ==
    LET done == DOMAIN session[s].computed
        locking == session[s].locking
    IN  /\ \A x \in done : session[s].computed[x] \in Int
        /\ done \subseteq Accounts /\ locking \subseteq Accounts
        /\ \A x \in done : row_lock[x] = s
        /\ \A e \in session[s].written : AccountsOf(e.doc, e.lines) \subseteq done \cup locking
        /\ \A x \in done \ locking :
               session[s].computed[x] = Opening[x] + Booked(x) + Pending(s, x)
               <=> x \notin session[s].unwritten

BInv ==
    /\ Tables
    /\ \A s \in Sessions : Planned(s) /\ Noted(s) /\ Tallied(s)
    /\ Fresh /\ UniqueSource
    /\ BalanceIsLedger

-----------------------------------------------------------------------------
\* What the invariant says of one request.
Sound(s) == Planned(s) /\ Noted(s) /\ Tallied(s)

\* A session without a request satisfies its part of the invariant.
LEMMA IdleIsSound == \A s \in Sessions : session[s] = Idle => Sound(s)
<1> SUFFICES ASSUME NEW s \in Sessions, session[s] = Idle PROVE Planned(s) /\ Noted(s) /\ Tallied(s)
  BY DEF Sound
<1> session[s].todo = <<>> /\ session[s].written = {} /\ session[s].locking = {} /\ session[s].computed = <<>>
    /\ session[s].unwritten = {}
  BY DEF Idle
<1>1. DOMAIN session[s].computed = {}
  OBVIOUS
<1>2. Len(<<>>) = 0 /\ <<>> \in Seq(Items) /\ 1 .. 0 = {}
  OBVIOUS
<1>3. Planned(s)
  BY <1>2 DEF Planned
<1>4. Noted(s)
  BY FS_EmptySet DEF Noted
<1>5. Tallied(s)
  BY <1>1 DEF Tallied
<1> QED BY <1>3, <1>4, <1>5

\* IdleIsSound, of the next state.
LEMMA IdleStaysSound == \A s \in Sessions : session'[s] = Idle => Sound(s)'
<1>1. (\A s \in Sessions : session[s] = Idle => Sound(s))'
  BY IdleIsSound, PTL
<1> QED BY <1>1

\* The books open with no entry, and every balance is the opening balance.
LEMMA InitBInv == ASSUME Init PROVE BInv
<1>1. /\ journal = [d \in Docs |-> NoEntries] /\ NoEntries \in [Kinds -> [Roles -> Int]]
      /\ \A d \in Docs, k \in Kinds : journal[d][k] = Nothing
  BY DEF Init, NoEntries, Nothing
<1>2. Balanced(Nothing)
  BY DEF Balanced, Nothing, Roles
<1>3. Tables
  BY <1>1, <1>2, NoAmountsTyped, LedgerAssumption DEF Init, Tables, Lockable, Idle
<1>4. \A s \in Sessions : session[s] = Idle
  BY DEF Init
<1>5. \A s \in Sessions : Planned(s) /\ Noted(s) /\ Tallied(s)
  BY <1>4, IdleIsSound DEF Sound
<1>6. Fresh /\ UniqueSource
  BY <1>4 DEF Fresh, UniqueSource, Idle
<1>7. ASSUME NEW x \in Accounts PROVE balance[x] = Opening[x] + Booked(x) /\ skipped = {}
  <2>1. {d \in Docs : journal[d] # NoEntries} = {}
    BY <1>1
  <2>2. Booked(x) = 0
    BY <2>1, SumEmpty DEF Booked
  <2> QED BY <2>2, LedgerAssumption DEF Init
<1> QED BY <1>3, <1>5, <1>6, <1>7 DEF BInv, BalanceIsLedger

\* The invariant is about the journal and the balances, and about what each request has
\* planned, written and locked.
SameBooks(t) ==
    /\ session'[t].todo = session[t].todo /\ session'[t].written = session[t].written
    /\ session'[t].locking = session[t].locking /\ session'[t].computed = session[t].computed
    /\ session'[t].unwritten = session[t].unwritten

\* A request another session leaves alone, on accounts it leaves alone.
LEMMA RequestStays ==
    ASSUME NEW t \in Sessions, Planned(t), Noted(t), Tallied(t), SameBooks(t),
           \A x \in DOMAIN session[t].computed : row_lock'[x] = t /\ Booked(x)' = Booked(x)
    PROVE  Planned(t)' /\ Noted(t)' /\ Tallied(t)'
<1>1. Planned(t)'
  BY DEF Planned, SameBooks
<1>2. Noted(t)'
  BY DEF Noted, SameBooks
<1>3. \A x : Pending(t, x)' = Pending(t, x)
  BY DEF Pending, SameBooks, LinesOn
<1>4. Tallied(t)'
  BY <1>3 DEF Tallied, SameBooks
<1> QED BY <1>1, <1>2, <1>4

\* Where no entry is stored the ledger of an account stands still.
LEMMA BookedStays == ASSUME journal' = journal, NEW x PROVE Booked(x)' = Booked(x)
  BY DEF Booked, LinesOn

\* What is booked on an account is an amount.
LEMMA BookedTyped == ASSUME Tables, NEW x PROVE Booked(x) \in Int
BY BookedOverAll DEF Tables

\* And so is what a request has written to it.
LEMMA PendingTyped == ASSUME NEW s \in Sessions, Noted(s), NEW x PROVE Pending(s, x) \in Int
<1> DEFINE W == session[s].written
           l == [e \in W |-> LinesOn(e.doc, e.lines, x)]
<1>1. IsFiniteSet(W) /\ \A e \in W : l[e] \in Int
  BY LinesOnTyped DEF Noted
<1>2. Pending(s, x) = SumFunctionOnSet(l, W)
  BY DEF Pending
<1> HIDE DEF W, l
<1> QED BY <1>1, <1>2, SumType

\* A request that ends without a commit.
LEMMA RollbackSound ==
    ASSUME BInv, NEW s \in Sessions, Rollback(s)
    PROVE  BInv'
<1>1. /\ row_lock' = Released(s) /\ session' = [session EXCEPT ![s] = Idle]
      /\ UNCHANGED <<status, deleted, amounts, journal, balance, skipped>>
  BY DEF Rollback
<1>2. /\ DOMAIN session' = Sessions /\ session'[s] = Idle
      /\ \A t \in Sessions : t # s => session'[t] = session[t]
  BY <1>1 DEF BInv, Tables
<1>3. Tables'
  BY <1>1, <1>2, NoAmountsTyped DEF BInv, Tables, Released, Idle
<1>4. Planned(s)' /\ Noted(s)' /\ Tallied(s)'
  BY <1>2, IdleStaysSound DEF Sound
<1>5. ASSUME NEW t \in Sessions, t # s PROVE Planned(t)' /\ Noted(t)' /\ Tallied(t)'
  <2>1. \A x \in DOMAIN session[t].computed : row_lock'[x] = t
    BY <1>1, <1>5 DEF BInv, Tallied, Released, Lockable
  <2> QED BY <1>1, <1>2, <1>5, <2>1, BookedStays, RequestStays DEF BInv, SameBooks
<1>6. Fresh' /\ UniqueSource'
  BY <1>1, <1>2 DEF BInv, Fresh, UniqueSource, Idle
<1>7. BalanceIsLedger'
  BY <1>1, BookedStays DEF BInv, BalanceIsLedger
<1> QED BY <1>3, <1>4, <1>5, <1>6, <1>7 DEF BInv

\* SELECT ... FOR UPDATE of one account.
LEMMA LockAccountSound ==
    ASSUME BInv, NEW s \in Sessions, NEW y \in Accounts, LockAccount(s, y)
    PROVE  BInv'
<1>1. /\ row_lock[y] = Nobody /\ row_lock' = [row_lock EXCEPT ![y] = s]
      /\ UNCHANGED <<status, deleted, amounts, journal, balance, skipped, session>>
  BY DEF LockAccount
<1>2. Tables'
  BY <1>1 DEF BInv, Tables, Lockable
<1>3. ASSUME NEW t \in Sessions PROVE Planned(t)' /\ Noted(t)' /\ Tallied(t)'
  <2>1. \A x \in DOMAIN session[t].computed : row_lock'[x] = t
    BY <1>1, LedgerAssumption DEF BInv, Tables, Tallied, Lockable
  <2> QED BY <1>1, <2>1, BookedStays, RequestStays DEF BInv, SameBooks
<1>4. Fresh' /\ UniqueSource' /\ BalanceIsLedger'
  BY <1>1, BookedStays DEF BInv, Fresh, UniqueSource, BalanceIsLedger
<1> QED BY <1>2, <1>3, <1>4 DEF BInv

\* The flush that recomputes the balances of the accounts it has locked.
LEMMA RecomputeSound ==
    ASSUME BInv, NEW s \in Sessions, Recompute(s)
    PROVE  BInv'
<1> DEFINE q == session[s]
           tally == [x \in DOMAIN q.computed \cup q.locking |->
                        IF x \in q.locking /\ ~Unchanged(s, x) THEN Recomputed(s, x) ELSE Stored(s, x)]
           missed == (q.unwritten \ q.locking)
                       \cup {x \in q.locking : Unchanged(s, x) /\ Stored(s, x) # q.loaded[x]}
           fetched == [x \in Selects(q.handler, q.todo) |->
                          IF x \in DOMAIN tally THEN tally[x] ELSE balance[x]]
<1>1. /\ HoldsAccounts(s)
      /\ session' = [session EXCEPT ![s].computed = tally, ![s].unwritten = missed,
                                    ![s].loaded = fetched, ![s].locking = {}]
      /\ UNCHANGED <<status, deleted, amounts, journal, balance, skipped, row_lock>>
  BY DEF Recompute
<1> HIDE DEF fetched
<1>2. /\ DOMAIN session' = Sessions
      /\ \A t \in Sessions : /\ t # s => session'[t] = session[t]
                             /\ DOMAIN session'[t] = DOMAIN Idle
                             /\ session'[t].amounts = session[t].amounts
                             /\ session'[t].spareAmounts = session[t].spareAmounts
                             /\ session'[t].written = session[t].written /\ session'[t].todo = session[t].todo
  BY <1>1 DEF BInv, Tables, Idle
<1>3. session'[s].computed = tally /\ session'[s].locking = {} /\ session'[s].unwritten = missed
  BY <1>1 DEF BInv, Tables, Idle
<1>4. Tables'
  BY <1>1, <1>2 DEF BInv, Tables
<1>5. ASSUME NEW t \in Sessions, t # s PROVE Planned(t)' /\ Noted(t)' /\ Tallied(t)'
  <2>1. \A x \in DOMAIN session[t].computed : row_lock'[x] = t /\ Booked(x)' = Booked(x)
    BY <1>1, BookedStays DEF BInv, Tallied
  <2>2. SameBooks(t)
    BY <1>2, <1>5 DEF SameBooks
  <2>3. Planned(t) /\ Noted(t) /\ Tallied(t)
    BY DEF BInv
  <2> QED BY ONLY <2>1, <2>2, <2>3, t \in Sessions, RequestStays
<1>6. Planned(s)' /\ Noted(s)'
  <2>1. Planned(s) /\ Noted(s)
    BY DEF BInv
  <2>2. session'[s].written = session[s].written /\ session'[s].todo = session[s].todo
    BY <1>2
  <2>3. Planned(s)'
    BY ONLY <2>1, <2>2 DEF Planned
  <2>4. Noted(s)'
    BY ONLY <2>1, <2>2 DEF Noted
  <2> QED BY <2>3, <2>4
<1>7. Tallied(s)'
  <2>1. \A x : Pending(s, x)' = Pending(s, x) /\ Booked(x)' = Booked(x)
    BY <1>1, <1>2, BookedStays DEF Pending, LinesOn
  <2>2. ASSUME NEW x \in q.locking
        PROVE  /\ tally[x] \in Int
               /\ tally[x] = Opening[x] + Booked(x) + Pending(s, x) <=> x \notin missed
    <3>1. Recomputed(s, x) = Opening[x] + Booked(x) + Pending(s, x)
      BY DEF Recomputed, Pending
    <3>2. x \in Accounts /\ Recomputed(s, x) \in Int
      BY <3>1, BookedTyped, PendingTyped, LedgerAssumption DEF BInv, Tallied, Tables
    <3>3. Stored(s, x) \in Int
      BY <3>2 DEF Stored, BInv, Tallied, Tables
    <3>4. CASE Unchanged(s, x)
      BY <3>1, <3>3, <3>4 DEF Unchanged
    <3>5. CASE ~Unchanged(s, x)
      BY <3>1, <3>2, <3>5
    <3> QED BY <3>4, <3>5
  <2>3. ASSUME NEW x \in DOMAIN q.computed \ q.locking
        PROVE  /\ tally[x] \in Int
               /\ tally[x] = Opening[x] + Booked(x) + Pending(s, x) <=> x \notin missed
    BY DEF BInv, Tallied, Stored
  <2>4. /\ DOMAIN tally = DOMAIN q.computed \cup q.locking
        /\ DOMAIN tally \subseteq Accounts
        /\ \A x \in DOMAIN tally : row_lock[x] = s
        /\ \A e \in q.written : AccountsOf(e.doc, e.lines) \subseteq DOMAIN tally
    BY <1>1 DEF BInv, Tallied, HoldsAccounts
  <2> HIDE DEF tally, missed
  <2> QED BY <1>1, <1>2, <1>3, <2>1, <2>2, <2>3, <2>4 DEF Tallied
<1>8. Fresh' /\ UniqueSource'
  <2>1. \A t \in Sessions : session'[t].written = session[t].written
    BY <1>2
  <2>2. journal' = journal
    BY <1>1
  <2>3. Fresh'
    BY <2>1, <2>2 DEF BInv, Fresh
  <2>4. UniqueSource'
    BY <2>1 DEF BInv, UniqueSource
  <2> QED BY <2>3, <2>4
<1>9. BalanceIsLedger'
  BY <1>1, BookedStays DEF BInv, BalanceIsLedger
<1> QED BY <1>4, <1>5, <1>6, <1>7, <1>8, <1>9 DEF BInv

\* A list of entries to write, each of a document of its own.
WellPlanned(todo) ==
    /\ todo \in Seq(Items)
    /\ \A i, j \in 1 .. Len(todo) : i # j => todo[i].doc # todo[j].doc

\* A plan has an entry for the document, and perhaps one for its replacement.
LEMMA PlanTyped ==
    ASSUME NEW d \in Docs, NEW name \in Workflow[TypeOf[d]], NEW a \in Amounts, NEW b \in Amounts,
           NEW spare, Handler[name].replaces => spare \in Docs \ {d}
    PROVE  WellPlanned(Plan(Handler[name], d, a, spare, b))
<1> DEFINE h == Handler[name]
           todo == Plan(h, d, a, spare, b)
           own == Item(d, h.writes, IF h.shipping THEN a ELSE [a EXCEPT !.shipping = 0])
           new == Item(spare, "posting", b)
<1>1. name \in Names /\ TypeOf[d] \in Types
  BY Workflows, LedgerAssumption
<1>2. h.writes \in Kinds \cup {"nothing"}
  BY <1>1, Traits DEF Kinds
<1>3. h.writes # "nothing" => own \in Items
  BY <1>2 DEF Items, Item, Amounts
<1>4. h.replaces => new \in Items /\ new.doc # own.doc
  BY DEF Items, Item, Kinds
<1>5. todo = IF h.writes = "nothing" THEN <<>> ELSE IF ~h.replaces THEN <<own>> ELSE <<own, new>>
  BY DEF Plan
<1> HIDE DEF own, new, h, todo
<1>6. /\ <<>> \in Seq(Items) /\ Len(<<>>) = 0
      /\ h.writes # "nothing" => <<own>> \in Seq(Items) /\ Len(<<own>>) = 1
      /\ h.writes # "nothing" /\ h.replaces => <<own, new>> \in Seq(Items) /\ Len(<<own, new>>) = 2
  BY <1>3, <1>4
<1>7. ASSUME h.writes = "nothing" PROVE WellPlanned(todo)
  BY <1>5, <1>6, <1>7 DEF WellPlanned
<1>8. ASSUME h.writes # "nothing" /\ ~h.replaces PROVE WellPlanned(todo)
  BY <1>5, <1>6, <1>8 DEF WellPlanned
<1>9. ASSUME h.writes # "nothing" /\ h.replaces PROVE WellPlanned(todo)
  BY <1>4, <1>5, <1>6, <1>9 DEF WellPlanned
<1>10. WellPlanned(todo)
  BY <1>7, <1>8, <1>9
<1> QED BY <1>10 DEF todo, h

\* A request that locks its document and plans its entries.
LEMMA OpenSound ==
    ASSUME BInv, NEW s \in Sessions, NEW d \in Docs, NEW name \in Workflow[TypeOf[d]], Open(s, d, name)
    PROVE  BInv'
<1> DEFINE h == Handler[name]
<1>1. PICK spare \in Spares(d, name),
           a \in (IF h.amends THEN AmountsFor(name, TypeOf[d]) ELSE {amounts[d]}),
           b \in (IF h.replaces THEN AmountsFor(name, TypeOf[d]) ELSE {NoAmounts}) :
               /\ session' = [session EXCEPT ![s] =
                      [Idle EXCEPT !.handler = name, !.doc = d, !.amounts = a, !.spare = spare,
                                   !.spareAmounts = b, !.todo = Plan(h, d, a, spare, b),
                                   !.loaded = [x \in Selects(name, Plan(h, d, a, spare, b)) |-> balance[x]]]]
               /\ row_lock' = [x \in Lockable |->
                      IF x = spare \/ (x = d /\ h.locks) THEN s ELSE row_lock[x]]
  BY DEF Open
<1>2. UNCHANGED <<status, deleted, amounts, journal, balance, skipped>>
  BY DEF Open
<1>3. TypeOf[d] \in Types /\ a \in Amounts /\ b \in Amounts
  BY <1>1, EnteredTyped, NoAmountsTyped, LedgerAssumption DEF BInv, Tables
<1>4. (h.replaces => spare \in Docs \ {d}) /\ spare \in Docs \cup {Nobody}
  BY DEF Spares
<1>5. \A x \in Accounts : row_lock'[x] = row_lock[x]
  BY <1>1, <1>4, LedgerAssumption DEF Lockable
<1>6. /\ DOMAIN session' = Sessions /\ DOMAIN session'[s] = DOMAIN Idle
      /\ session'[s].amounts = a /\ session'[s].spareAmounts = b
      /\ \A t \in Sessions : t # s => session'[t] = session[t]
      /\ session'[s].todo = Plan(h, d, a, spare, b) /\ session'[s].written = {}
      /\ session'[s].locking = {} /\ session'[s].computed = <<>> /\ session'[s].unwritten = {}
  BY <1>1 DEF BInv, Tables, Idle
<1>7. Tables'
  <2>1. row_lock' \in [Lockable -> Sessions \cup {Nobody}]
    BY <1>1 DEF BInv, Tables
  <2> QED BY <1>2, <1>3, <1>6, <2>1 DEF BInv, Tables
<1>8. Planned(s)'
  <2>1. WellPlanned(Plan(Handler[name], d, a, spare, b))
    BY <1>3, <1>4, PlanTyped
  <2>2. WellPlanned(session'[s].todo)
    BY ONLY <1>6, <2>1
  <2> QED BY ONLY <2>2 DEF Planned, WellPlanned
<1>9. Noted(s)'
  BY <1>6, FS_EmptySet DEF Noted
<1>10. Tallied(s)'
  <2>1. DOMAIN <<>> = {}
    OBVIOUS
  <2> QED BY <1>6, <2>1 DEF Tallied
<1>11. ASSUME NEW t \in Sessions, t # s PROVE Planned(t)' /\ Noted(t)' /\ Tallied(t)'
  <2>1. \A x \in DOMAIN session[t].computed : row_lock'[x] = t /\ Booked(x)' = Booked(x)
    BY <1>2, <1>5, BookedStays DEF BInv, Tallied
  <2>2. SameBooks(t)
    BY <1>6, <1>11 DEF SameBooks
  <2>3. Planned(t) /\ Noted(t) /\ Tallied(t)
    BY DEF BInv
  <2> QED BY ONLY <2>1, <2>2, <2>3, t \in Sessions, RequestStays
<1>12. Fresh' /\ UniqueSource'
  BY <1>2, <1>6 DEF BInv, Fresh, UniqueSource
<1>13. BalanceIsLedger'
  BY <1>2, BookedStays DEF BInv, BalanceIsLedger
<1> QED BY <1>7, <1>8, <1>9, <1>10, <1>11, <1>12, <1>13 DEF BInv

\* The sum of what is written, one entry later.
LEMMA PendingGrows ==
    ASSUME NEW W, IsFiniteSet(W), NEW e, e \notin W, NEW l, l \in [W \cup {e} -> Int]
    PROVE  SumFunctionOnSet(l, W \cup {e}) = SumFunctionOnSet(l, W) + l[e]
<1>1. IsFiniteSet(W \cup {e}) /\ (W \cup {e}) \ {e} = W /\ e \in W \cup {e} /\ \A x \in W \cup {e} : l[x] \in Int
  BY FS_AddElement
<1>2. SumFunctionOnSet(l, W \cup {e}) = l[e] + SumFunctionOnSet(l, (W \cup {e}) \ {e})
  BY <1>1, SumRest
<1>3. SumFunctionOnSet(l, W) \in Int /\ l[e] \in Int
  BY SumType
<1>4. SumFunctionOnSet(l, (W \cup {e}) \ {e}) = SumFunctionOnSet(l, W)
  BY <1>1
<1> QED BY <1>2, <1>3, <1>4

\* One entry is flushed: its accounts wait to be locked again, which is what
\* makes the balances computed before it stale without harm.
LEMMA InsertSound ==
    ASSUME BInv, NEW s \in Sessions, Insert(s)
    PROVE  BInv'
<1> DEFINE q == session[s]
           item == Head(q.todo)
           entry == [doc |-> item.doc, kind |-> item.kind, lines |-> LinesOf(item)]
<1>1. /\ q.todo # <<>> /\ q.locking = {} /\ Rivals(s, item) = {} /\ ~AlreadyPosted(item)
      /\ Accepted(item.amounts)
      /\ session' = [session EXCEPT ![s].todo = Tail(@), ![s].written = @ \cup {entry},
                                    ![s].locking = AccountsOf(item.doc, LinesOf(item))]
      /\ UNCHANGED <<status, deleted, amounts, journal, balance, skipped, row_lock>>
  BY DEF Insert
<1>2. Planned(s) /\ Noted(s) /\ Tallied(s)
  BY DEF BInv
<1>3. /\ q.todo \in Seq(Items) /\ Len(q.todo) \in Nat /\ Len(q.todo) > 0 /\ item = q.todo[1] /\ item \in Items
      /\ Tail(q.todo) \in Seq(Items) /\ Len(Tail(q.todo)) = Len(q.todo) - 1
      /\ \A i \in 1 .. Len(Tail(q.todo)) : Tail(q.todo)[i] = q.todo[i + 1] /\ i + 1 \in 1 .. Len(q.todo)
  BY <1>1, <1>2 DEF Planned
<1>4. /\ item.doc \in Docs /\ item.kind \in Kinds /\ entry.doc = item.doc /\ entry.kind = item.kind
      /\ entry.lines \in [Roles -> Int] /\ Balanced(entry.lines)
  <2>1. item.doc \in Docs /\ item.kind \in Kinds /\ item.amounts \in Amounts
    BY <1>3 DEF Items
  <2>2. TypeOf[item.doc] \in Types
    BY <2>1, LedgerAssumption
  <2>3. LinesOf(item) \in [Roles -> Int] /\ Balanced(LinesOf(item))
    BY <1>1, <2>1, <2>2, LinesTyped, AcceptedPostsAndReverses DEF LinesOf
  <2> QED BY <2>1, <2>3
<1> HIDE DEF item, entry
<1>5. /\ DOMAIN session' = Sessions
      /\ \A t \in Sessions : /\ DOMAIN session'[t] = DOMAIN Idle
                             /\ session'[t].amounts = session[t].amounts
                             /\ session'[t].spareAmounts = session[t].spareAmounts
      /\ \A t \in Sessions : t # s => session'[t] = session[t]
      /\ session'[s].todo = Tail(q.todo) /\ session'[s].written = q.written \cup {entry}
      /\ session'[s].locking = AccountsOf(item.doc, entry.lines) /\ session'[s].computed = q.computed
      /\ session'[s].unwritten = q.unwritten
  <2>1. entry.lines = LinesOf(item)
    BY DEF entry
  <2> QED BY <1>1, <2>1 DEF BInv, Tables, Idle
<1>6. Tables'
  BY <1>1, <1>5 DEF BInv, Tables
<1>7. Planned(s)'
  <2>1. \A i, j \in 1 .. Len(Tail(q.todo)) : i # j => Tail(q.todo)[i].doc # Tail(q.todo)[j].doc
    BY <1>2, <1>3 DEF Planned
  <2>2. Tail(q.todo) \in Seq(Items)
    BY <1>3
  <2> QED BY ONLY <1>5, <2>1, <2>2 DEF Planned
<1>8. /\ \A e \in q.written : e.doc # entry.doc
      /\ \A i \in 1 .. Len(Tail(q.todo)) : Tail(q.todo)[i].doc # entry.doc
  <2>1. 1 \in 1 .. Len(q.todo)
    BY <1>3
  <2>2. \A e \in q.written : e.doc # q.todo[1].doc
    BY <1>2, <2>1 DEF Noted
  <2>3. \A i \in 2 .. Len(q.todo) : q.todo[i].doc # q.todo[1].doc
    BY <1>2, <2>1 DEF Planned
  <2>4. \A i \in 1 .. Len(Tail(q.todo)) : Tail(q.todo)[i] = q.todo[i + 1] /\ i + 1 \in 2 .. Len(q.todo)
    BY <1>3
  <2> QED BY <1>3, <1>4, <2>2, <2>3, <2>4
<1>9. Noted(s)'
  <2>1. IsFiniteSet(q.written \cup {entry})
    BY <1>2, FS_AddElement DEF Noted
  <2>2. ASSUME NEW e \in q.written, NEW i \in 1 .. Len(Tail(q.todo))
        PROVE  Tail(q.todo)[i].doc # e.doc
    BY <1>2, <1>3 DEF Noted
  <2> QED BY <1>2, <1>4, <1>5, <1>8, <2>1, <2>2 DEF Noted
<1>10. Tallied(s)'
  <2>1. AccountsOf(item.doc, entry.lines) \subseteq Accounts
    BY <1>4, LedgerAssumption DEF AccountsOf
  <2>2. \A e \in q.written \cup {entry} :
            AccountsOf(e.doc, e.lines) \subseteq DOMAIN q.computed \cup AccountsOf(item.doc, entry.lines)
    BY <1>1, <1>2, <1>4 DEF Tallied
  <2>3. ASSUME NEW x \in Accounts, x \notin AccountsOf(item.doc, entry.lines)
        PROVE  Pending(s, x)' = Pending(s, x)
    <3> DEFINE W == q.written
               l == [e \in W \cup {entry} |-> LinesOn(e.doc, e.lines, x)]
               m == [e \in W |-> LinesOn(e.doc, e.lines, x)]
    <3>1. \A e \in W \cup {entry} : LinesOn(e.doc, e.lines, x) \in Int
      BY <1>2, <1>4, LinesOnTyped DEF Noted
    <3>2. l[entry] = 0
      BY <1>4, <2>3, LinesOnTyped
    <3>3. l \in [W \cup {entry} -> Int] /\ IsFiniteSet(W) /\ entry \notin W
      BY <1>2, <1>8, <3>1 DEF Noted
    <3>4. (\A e \in W : l[e] = m[e]) /\ \A e \in W : l[e] \in Int
      BY <3>1
    <3>5. Pending(s, x)' = SumFunctionOnSet(l, W \cup {entry}) /\ Pending(s, x) = SumFunctionOnSet(m, W)
      BY <1>5 DEF Pending, LinesOn
    <3> HIDE DEF l, m, W
    <3>6. SumFunctionOnSet(l, W \cup {entry}) = SumFunctionOnSet(l, W) + l[entry]
      BY <3>3, PendingGrows
    <3>7. SumFunctionOnSet(l, W) = SumFunctionOnSet(m, W) /\ SumFunctionOnSet(l, W) \in Int
      BY <3>3, <3>4, SumEqual, SumType
    <3> QED BY <3>2, <3>5, <3>6, <3>7
  <2>4. \A x : Booked(x)' = Booked(x)
    BY <1>1, BookedStays
  <2>5. \A x \in DOMAIN q.computed : x \in Accounts /\ row_lock[x] = s
    BY <1>2 DEF Tallied
  <2>6. \A x \in DOMAIN q.computed :
            /\ q.computed[x] \in Int
            /\ q.computed[x] = Opening[x] + Booked(x) + Pending(s, x) <=> x \notin q.unwritten
    BY <1>1, <1>2 DEF Tallied
  <2> QED BY <1>1, <1>5, <2>1, <2>2, <2>3, <2>4, <2>5, <2>6 DEF Tallied
<1>11. ASSUME NEW t \in Sessions, t # s PROVE Planned(t)' /\ Noted(t)' /\ Tallied(t)'
  <2>1. \A x \in DOMAIN session[t].computed : row_lock'[x] = t /\ Booked(x)' = Booked(x)
    BY <1>1, BookedStays DEF BInv, Tallied
  <2>2. SameBooks(t)
    BY <1>5, <1>11 DEF SameBooks
  <2>3. Planned(t) /\ Noted(t) /\ Tallied(t)
    BY DEF BInv
  <2> QED BY ONLY <2>1, <2>2, <2>3, t \in Sessions, RequestStays
<1>12. Fresh'
  BY <1>1, <1>4, <1>5 DEF BInv, Fresh, AlreadyPosted
<1>13. UniqueSource'
  <2>1. \A t \in Sessions \ {s} : \A e \in session[t].written : ~(e.doc = entry.doc /\ e.kind = entry.kind)
    BY <1>1, <1>4 DEF Rivals
  <2>2. UniqueSource
    BY DEF BInv
  <2>3. SUFFICES ASSUME NEW t \in Sessions, NEW u \in Sessions, t # u,
                        NEW e \in session'[t].written, NEW f \in session'[u].written
                 PROVE  ~(e.doc = f.doc /\ e.kind = f.kind)
    BY DEF UniqueSource
  <2>4. CASE t # s /\ u # s
    BY <1>5, <2>2, <2>3, <2>4 DEF UniqueSource
  <2>5. CASE t = s
    <3>1. f \in session[u].written /\ e \in q.written \cup {entry}
      BY <1>5, <2>3, <2>5
    <3>2. e \in q.written => ~(e.doc = f.doc /\ e.kind = f.kind)
      BY <2>2, <2>3, <2>5, <3>1 DEF UniqueSource
    <3> QED BY <2>1, <2>3, <2>5, <3>1, <3>2
  <2>6. CASE u = s
    <3>1. e \in session[t].written /\ f \in q.written \cup {entry}
      BY <1>5, <2>3, <2>6
    <3>2. f \in q.written => ~(e.doc = f.doc /\ e.kind = f.kind)
      BY <2>2, <2>3, <2>6, <3>1 DEF UniqueSource
    <3> QED BY <2>1, <2>3, <2>6, <3>1, <3>2
  <2> QED BY <2>4, <2>5, <2>6
<1>14. BalanceIsLedger'
  BY <1>1, BookedStays DEF BInv, BalanceIsLedger
<1> QED BY <1>6, <1>7, <1>9, <1>10, <1>11, <1>12, <1>13, <1>14 DEF BInv

-----------------------------------------------------------------------------
(* A commit.                                                               *)

\* The entry of a source after the commit is the one written, or the earlier one.
LEMMA EntriesAfter ==
    ASSUME BInv, NEW s \in Sessions, Commit(s)
    PROVE  /\ \A d \in Docs, k \in Kinds :
                  (\A e \in session[s].written : ~(e.doc = d /\ e.kind = k)) => journal'[d][k] = journal[d][k]
           /\ \A e \in session[s].written : journal'[e.doc][e.kind] = e.lines /\ journal[e.doc][e.kind] = Nothing
           /\ journal' \in [Docs -> [Kinds -> [Roles -> Int]]]
           /\ \A d \in Docs, k \in Kinds : Balanced(journal'[d][k])
<1> DEFINE W == session[s].written
<1>1. journal' = [d \in Docs |-> [k \in Kinds |-> EntryAfter(s, d, k)]]
  BY DEF Commit
<1>2. Noted(s) /\ Tables /\ Fresh
  BY DEF BInv
<1>3. ASSUME NEW d \in Docs, NEW k \in Kinds, \A e \in W : ~(e.doc = d /\ e.kind = k)
      PROVE  journal'[d][k] = journal[d][k]
  <2>1. {e \in W : e.doc = d /\ e.kind = k} = {}
    BY <1>3
  <2> QED BY <1>1, <2>1 DEF EntryAfter
<1>4. ASSUME NEW e \in W
      PROVE  journal'[e.doc][e.kind] = e.lines /\ journal[e.doc][e.kind] = Nothing
  <2>1. {f \in W : f.doc = e.doc /\ f.kind = e.kind} = {e}
    BY <1>2 DEF Noted
  <2>2. (CHOOSE f \in {e} : TRUE) = e
    OBVIOUS
  <2>3. e.doc \in Docs /\ e.kind \in Kinds
    BY <1>2 DEF Noted
  <2>4. EntryAfter(s, e.doc, e.kind) = e.lines
    BY <2>1, <2>2 DEF EntryAfter
  <2> QED BY <1>1, <1>2, <2>3, <2>4 DEF Fresh
<1>5. ASSUME NEW d \in Docs, NEW k \in Kinds
      PROVE  journal'[d][k] \in [Roles -> Int] /\ Balanced(journal'[d][k])
  <2>1. CASE \A e \in W : ~(e.doc = d /\ e.kind = k)
    BY <1>2, <1>3, <2>1 DEF Tables
  <2>2. CASE \E e \in W : e.doc = d /\ e.kind = k
    BY <1>2, <1>4, <2>2 DEF Noted
  <2> QED BY <2>1, <2>2
<1>6. journal' \in [Docs -> [Kinds -> [Roles -> Int]]]
  BY <1>1, <1>5
<1> QED BY <1>3, <1>4, <1>5, <1>6

\* One document gains what was written for it.
LEMMA DocumentGains ==
    ASSUME BInv, NEW s \in Sessions, Commit(s), NEW d \in Docs, NEW x, NEW l,
           l = [e \in session[s].written |-> LinesOn(e.doc, e.lines, x)]
    PROVE  LET mine == {e \in session[s].written : e.doc = d}
           IN  /\ SumFunctionOnSet(l, mine) \in Int
               /\ OnAccount(d, x)' = OnAccount(d, x) + SumFunctionOnSet(l, mine)
<1> DEFINE W == session[s].written
           mine == {e \in W : e.doc = d}
<1>1. Noted(s) /\ Tables
  BY DEF BInv
<1>2. \A k \in Kinds : journal[d][k] \in [Roles -> Int] /\ journal'[d][k] \in [Roles -> Int]
  BY <1>1, EntriesAfter DEF Tables
<1>3. OnAccount(d, x)' = LinesOn(d, journal'[d].posting, x) + LinesOn(d, journal'[d].reversal, x)
  BY DEF OnAccount, LinesOn
<1>4. /\ LinesOn(d, journal[d].posting, x) \in Int /\ LinesOn(d, journal[d].reversal, x) \in Int
      /\ LinesOn(d, Nothing, x) = 0
  <2>1. Nothing \in [Roles -> Int] /\ x \notin AccountsOf(d, Nothing)
    BY DEF Nothing, AccountsOf
  <2>2. journal[d].posting \in [Roles -> Int] /\ journal[d].reversal \in [Roles -> Int]
    BY <1>2 DEF Kinds
  <2> QED BY <2>1, <2>2, LinesOnTyped
<1>5. CASE mine = {}
  <2>1. journal'[d].posting = journal[d].posting /\ journal'[d].reversal = journal[d].reversal
    BY <1>5, EntriesAfter DEF Kinds
  <2>2. OnAccount(d, x)' = OnAccount(d, x)
    BY <1>3, <2>1 DEF OnAccount
  <2>3. SumFunctionOnSet(l, mine) = 0
    BY <1>5, SumEmpty
  <2> QED BY <1>4, <2>2, <2>3 DEF OnAccount
<1>6. CASE mine # {}
  <2>1. PICK e \in W : e.doc = d
    BY <1>6
  <2>2. mine = {e}
    BY <1>1, <2>1 DEF Noted
  <2>3. l[e] = LinesOn(d, e.lines, x) /\ l[e] \in Int
    BY <1>1, <2>1, LinesOnTyped DEF Noted
  <2>4. SumFunctionOnSet(l, mine) = l[e]
    <3>1. IsFiniteSet({e}) /\ (\A y \in {e} : l[y] \in Int) /\ {e} \ {e} = {}
      BY <2>3, FS_Singleton
    <3>2. SumFunctionOnSet(l, {e}) = l[e] + SumFunctionOnSet(l, {e} \ {e})
      BY <3>1, SumRest
    <3>3. SumFunctionOnSet(l, {e} \ {e}) = 0
      BY <3>1, SumEmpty
    <3>4. SumFunctionOnSet(l, mine) = SumFunctionOnSet(l, {e})
      BY <2>2
    <3> HIDE DEF mine
    <3> QED BY <2>3, <3>2, <3>3, <3>4
  <2>5. e.kind \in Kinds /\ journal'[d][e.kind] = e.lines /\ journal[d][e.kind] = Nothing
    BY <1>1, <2>1, EntriesAfter DEF Noted
  <2>6. \A k \in Kinds : k # e.kind => journal'[d][k] = journal[d][k]
    BY <2>1, <2>2, EntriesAfter
  <2>7. CASE e.kind = "posting"
    <3>1. /\ journal'[d].posting = e.lines /\ journal[d].posting = Nothing
          /\ journal'[d].reversal = journal[d].reversal
      BY <2>5, <2>6, <2>7 DEF Kinds
    <3>2. OnAccount(d, x)' = LinesOn(d, e.lines, x) + LinesOn(d, journal[d].reversal, x)
          /\ OnAccount(d, x) = LinesOn(d, Nothing, x) + LinesOn(d, journal[d].reversal, x)
      BY <1>3, <3>1 DEF OnAccount
    <3> QED BY <1>4, <2>3, <2>4, <3>2
  <2>8. CASE e.kind = "reversal"
    <3>1. /\ journal'[d].reversal = e.lines /\ journal[d].reversal = Nothing
          /\ journal'[d].posting = journal[d].posting
      BY <2>5, <2>6, <2>8 DEF Kinds
    <3>2. OnAccount(d, x)' = LinesOn(d, journal[d].posting, x) + LinesOn(d, e.lines, x)
          /\ OnAccount(d, x) = LinesOn(d, journal[d].posting, x) + LinesOn(d, Nothing, x)
      BY <1>3, <3>1 DEF OnAccount
    <3> QED BY <1>4, <2>3, <2>4, <3>2
  <2> QED BY <2>5, <2>7, <2>8 DEF Kinds
<1> QED BY <1>5, <1>6

\* What is booked on an account grows by what was written for it.
LEMMA BookedGains ==
    ASSUME BInv, NEW s \in Sessions, Commit(s), NEW x
    PROVE  Pending(s, x) \in Int /\ Booked(x)' = Booked(x) + Pending(s, x) /\ Booked(x) \in Int
<1> DEFINE W == session[s].written
           l == [e \in W |-> LinesOn(e.doc, e.lines, x)]
           g == [d \in Docs |-> SumFunctionOnSet(l, {e \in W : e.doc = d})]
           f == [d \in Docs |-> OnAccount(d, x)]
           h == [d \in Docs |-> OnAccount(d, x)']
           a == [e \in W |-> e.doc]
<1>1. Noted(s) /\ Tables
  BY DEF BInv
<1>2. IsFiniteSet(W) /\ IsFiniteSet(Docs) /\ (\A e \in W : a[e] \in Docs) /\ (\A e \in W : l[e] \in Int)
  BY <1>1, LinesOnTyped, LedgerAssumption DEF Noted
<1>3. Booked(x) = SumFunctionOnSet(f, Docs) /\ Booked(x) \in Int /\ \A d \in Docs : f[d] \in Int
  BY <1>1, BookedOverAll DEF Tables
<1>4. Booked(x)' = SumFunctionOnSet(h, Docs)
  BY BookedOverAllNext, EntriesAfter
<1>5. ASSUME NEW d \in Docs
      PROVE  g[d] \in Int /\ h[d] = f[d] + g[d]
  <2> PICK m : m = l
    OBVIOUS
  <2>1. /\ SumFunctionOnSet(m, {e \in W : e.doc = d}) \in Int
        /\ OnAccount(d, x)' = OnAccount(d, x) + SumFunctionOnSet(m, {e \in W : e.doc = d})
    BY DocumentGains
  <2> QED BY <2>1
<1>6. \A d \in Docs : f[d] \in Int /\ g[d] \in Int /\ h[d] = f[d] + g[d]
  BY <1>3, <1>5
<1>7. g = [d \in Docs |-> SumFunctionOnSet(l, {e \in W : a[e] = d})]
  <2>1. \A d \in Docs : {e \in W : e.doc = d} = {e \in W : a[e] = d}
    OBVIOUS
  <2> QED BY <2>1
<1>8. Pending(s, x) = SumFunctionOnSet(l, W)
  BY DEF Pending
<1> HIDE DEF W, l, g, f, h, a
<1>9. SumFunctionOnSet(h, Docs) = SumFunctionOnSet(f, Docs) + SumFunctionOnSet(g, Docs)
  BY ONLY <1>2, <1>6, SumPlus
<1>10. SumFunctionOnSet(g, Docs) = SumFunctionOnSet(l, W)
  BY ONLY <1>2, <1>7, SumPartition
<1>11. SumFunctionOnSet(l, W) \in Int
  BY ONLY <1>2, SumType
<1> QED BY <1>3, <1>4, <1>8, <1>9, <1>10, <1>11

\* A commit stores, for the accounts of its entries, the balances of the ledger as it
\* is after the commit; the others have no line of it.
LEMMA CommitSound ==
    ASSUME BInv, NEW s \in Sessions, Commit(s)
    PROVE  BInv'
<1> DEFINE q == session[s]
<1>1. /\ q.todo = <<>> /\ q.locking = {}
      /\ amounts' = [d \in Docs |-> AmountsAfter(s, d)]
      /\ balance' = [x \in Accounts |-> IF x \in DOMAIN q.computed THEN q.computed[x] ELSE balance[x]]
      /\ skipped' = {x \in Accounts : IF x \in DOMAIN q.computed THEN x \in q.unwritten ELSE x \in skipped}
      /\ row_lock' = Released(s)
      /\ session' = [session EXCEPT ![s] = Idle]
  BY DEF Commit
<1>2. Planned(s) /\ Noted(s) /\ Tallied(s) /\ Tables /\ Fresh /\ UniqueSource /\ BalanceIsLedger
  BY DEF BInv
<1>3. /\ DOMAIN session' = Sessions /\ session'[s] = Idle
      /\ \A t \in Sessions : t # s => session'[t] = session[t]
  BY <1>1, <1>2 DEF Tables
<1>4. ASSUME NEW x \in Accounts, x \notin DOMAIN q.computed
      PROVE  Pending(s, x) = 0
  <2> DEFINE W == q.written
             l == [e \in W |-> LinesOn(e.doc, e.lines, x)]
  <2>1. \A e \in W : l[e] = 0
    BY <1>1, <1>2, <1>4, LinesOnTyped DEF Noted, Tallied
  <2>2. IsFiniteSet(W)
    BY <1>2 DEF Noted
  <2>3. Pending(s, x) = SumFunctionOnSet(l, W)
    BY DEF Pending
  <2> HIDE DEF W, l
  <2> QED BY <2>1, <2>2, <2>3, SumZero
<1>5. BalanceIsLedger'
  <2> SUFFICES ASSUME NEW x \in Accounts
               PROVE  balance'[x] = Opening[x] + Booked(x)' <=> x \notin skipped'
    BY DEF BalanceIsLedger
  <2>1. Pending(s, x) \in Int /\ Booked(x)' = Booked(x) + Pending(s, x) /\ Booked(x) \in Int
    BY BookedGains
  <2>2. Opening[x] \in Int
    BY LedgerAssumption
  <2>3. CASE x \in DOMAIN q.computed
    <3>1. balance'[x] = Opening[x] + Booked(x) + Pending(s, x) <=> x \notin q.unwritten
      BY <1>1, <1>2, <2>3 DEF Tallied
    <3>2. x \in skipped' <=> x \in q.unwritten
      BY <1>1, <2>3
    <3> QED BY <2>1, <2>2, <3>1, <3>2
  <2>4. CASE x \notin DOMAIN q.computed
    <3>1. balance'[x] = Opening[x] + Booked(x) <=> x \notin skipped
      BY <1>1, <1>2, <2>4 DEF BalanceIsLedger
    <3>2. Pending(s, x) = 0 /\ (x \in skipped' <=> x \in skipped)
      BY <1>1, <1>4, <2>4
    <3> QED BY <2>1, <2>2, <3>1, <3>2
  <2> QED BY <2>3, <2>4
<1>6. Tables'
  <2>1. amounts' \in [Docs -> Amounts]
    BY <1>1, <1>2 DEF Tables, AmountsAfter
  <2>2. balance' \in [Accounts -> Int]
    <3>1. \A x \in Accounts : q.computed[x] \in Int \/ x \notin DOMAIN q.computed
      <4> SUFFICES ASSUME NEW x \in Accounts, x \in DOMAIN q.computed PROVE q.computed[x] \in Int
        OBVIOUS
      <4> QED BY <1>2 DEF Tallied
    <3> QED BY <1>1, <1>2, <3>1 DEF Tables
  <2>3. row_lock' \in [Lockable -> Sessions \cup {Nobody}]
    BY <1>1, <1>2 DEF Tables, Released
  <2>4. \A t \in Sessions : /\ DOMAIN session'[t] = DOMAIN Idle
                             /\ session'[t].amounts \in Amounts /\ session'[t].spareAmounts \in Amounts
    BY <1>2, <1>3, NoAmountsTyped DEF Tables, Idle
  <2> QED BY <1>3, <2>1, <2>2, <2>3, <2>4, EntriesAfter DEF Tables
<1>7. Planned(s)' /\ Noted(s)' /\ Tallied(s)'
  BY <1>3, IdleStaysSound DEF Sound
<1>8. ASSUME NEW t \in Sessions, t # s PROVE Planned(t)' /\ Noted(t)' /\ Tallied(t)'
  <2>1. ASSUME NEW x \in DOMAIN session[t].computed PROVE row_lock'[x] = t /\ Booked(x)' = Booked(x)
    <3>1. x \in Accounts /\ row_lock[x] = t
      BY DEF BInv, Tallied
    <3>2. row_lock'[x] = t
      BY <1>1, <1>8, <3>1 DEF Released, Lockable
    <3>3. x \notin DOMAIN q.computed
      BY <1>2, <1>8, <3>1 DEF Tallied
    <3>4. Booked(x)' = Booked(x) + Pending(s, x) /\ Booked(x) \in Int /\ Pending(s, x) = 0
      BY <1>4, <3>1, <3>3, BookedGains
    <3> QED BY <3>2, <3>4
  <2>2. SameBooks(t)
    BY <1>3, <1>8 DEF SameBooks
  <2>3. Planned(t) /\ Noted(t) /\ Tallied(t)
    BY DEF BInv
  <2> QED BY ONLY <2>1, <2>2, <2>3, t \in Sessions, RequestStays
<1>9. UniqueSource'
  BY <1>2, <1>3 DEF UniqueSource, Idle
<1>10. Fresh'
  <2> SUFFICES ASSUME NEW t \in Sessions, NEW e \in session'[t].written
               PROVE  journal'[e.doc][e.kind] = Nothing
    BY DEF Fresh
  <2>1. t # s /\ e \in session[t].written
    BY <1>3 DEF Idle
  <2>2. \A f \in q.written : ~(f.doc = e.doc /\ f.kind = e.kind)
    BY <1>2, <2>1 DEF UniqueSource
  <2>3. e.doc \in Docs /\ e.kind \in Kinds /\ journal[e.doc][e.kind] = Nothing
    BY <1>2, <2>1 DEF BInv, Noted, Fresh
  <2> QED BY <2>2, <2>3, EntriesAfter
<1> QED BY <1>5, <1>6, <1>7, <1>8, <1>9, <1>10 DEF BInv

\* Every step keeps the invariant.
LEMMA NextSound ==
    ASSUME BInv, [Next]_vars
    PROVE  BInv'
<1>1. ASSUME NEW s \in Sessions, Advance(s) PROVE BInv'
  BY <1>1, InsertSound, LockAccountSound, RecomputeSound, CommitSound, RollbackSound
     DEF Advance, Refuse, DeadlockVictim
<1>2. ASSUME NEW s \in Sessions, Crash(s) PROVE BInv'
  BY <1>2, RollbackSound DEF Crash
<1>3. ASSUME UNCHANGED vars PROVE BInv'
  <2>1. UNCHANGED <<amounts, journal, balance, skipped, row_lock, session>>
    BY <1>3 DEF vars
  <2>2. Tables' /\ Fresh' /\ UniqueSource'
    BY <2>1 DEF BInv, Tables, Fresh, UniqueSource
  <2>3. BalanceIsLedger'
    BY <2>1, BookedStays DEF BInv, BalanceIsLedger
  <2>4. ASSUME NEW t \in Sessions PROVE Planned(t)' /\ Noted(t)' /\ Tallied(t)'
    <3>1. \A x \in DOMAIN session[t].computed : row_lock'[x] = t /\ Booked(x)' = Booked(x)
      BY <2>1, BookedStays DEF BInv, Tallied
    <3>2. SameBooks(t) /\ Planned(t) /\ Noted(t) /\ Tallied(t)
      BY <2>1 DEF BInv, SameBooks
    <3> QED BY ONLY <3>1, <3>2, t \in Sessions, RequestStays
  <2> QED BY <2>2, <2>3, <2>4 DEF BInv
<1> QED BY <1>1, <1>2, <1>3, OpenSound DEF Next

-----------------------------------------------------------------------------
(* The theorems.                                                           *)

\* update_account_balances: the stored current_balance of an account is its opening
\* balance and the sum of its journal lines, whatever entries the requests post and in
\* whatever order they lock accounts, unless the last of them had loaded the account
\* before it locked it and came to the balance it had loaded; and then it never is.
THEOREM BalancesAreTheLedger == Spec => []BalanceIsLedger
<1>1. Init => BInv
  BY InitBInv
<1>2. BInv /\ [Next]_vars => BInv'
  BY NextSound
<1>3. BInv => BalanceIsLedger
  BY DEF BInv
<1> QED BY <1>1, <1>2, <1>3, PTL DEF Spec

\* The entries of a document come to nothing over the accounts.
LEMMA DocumentBalances ==
    ASSUME Tables, NEW d \in Docs
    PROVE  SumFunctionOnSet([x \in Accounts |-> OnAccount(d, x)], Accounts) = 0
<1> DEFINE p == [x \in Accounts |-> LinesOn(d, journal[d].posting, x)]
           r == [x \in Accounts |-> LinesOn(d, journal[d].reversal, x)]
           h == [x \in Accounts |-> OnAccount(d, x)]
<1>1. /\ journal[d].posting \in [Roles -> Int] /\ Balanced(journal[d].posting)
      /\ journal[d].reversal \in [Roles -> Int] /\ Balanced(journal[d].reversal)
  BY DEF Tables, Kinds
<1>2. \A x \in Accounts : p[x] \in Int /\ r[x] \in Int /\ h[x] = p[x] + r[x]
  BY <1>1, LinesOnTyped DEF OnAccount
<1>3. SumFunctionOnSet(p, Accounts) = 0
  BY <1>1, LinesCancel
<1>4. SumFunctionOnSet(r, Accounts) = 0
  BY <1>1, LinesCancel
<1>5. IsFiniteSet(Accounts)
  BY LedgerAssumption
<1> HIDE DEF p, r, h
<1>6. SumFunctionOnSet(h, Accounts) = SumFunctionOnSet(p, Accounts) + SumFunctionOnSet(r, Accounts)
  BY ONLY <1>2, <1>5, SumPlus
<1> QED BY <1>3, <1>4, <1>6 DEF h

\* The trial balance read from accounts.current_balance sums to what it summed to when
\* the books were opened while no balance is left unwritten: no interleaving stores half
\* of an entry, and what was missing is there again once the account is written again.
THEOREM TrialBalanceStays == Spec => []TrialBalance
<1>1. ASSUME BInv, skipped = {}
      PROVE  SumFunctionOnSet(balance, Accounts) = SumFunctionOnSet(Opening, Accounts)
  <2> DEFINE booked == [x \in Accounts |-> Booked(x)]
             m == [d \in Docs |-> [x \in Accounts |-> OnAccount(d, x)]]
             columns == [x \in Accounts |-> SumFunctionOnSet([d \in Docs |-> m[d][x]], Docs)]
             rows == [d \in Docs |-> SumFunctionOnSet([x \in Accounts |-> m[d][x]], Accounts)]
  <2>1. Tables /\ BalanceIsLedger /\ IsFiniteSet(Docs) /\ IsFiniteSet(Accounts)
    BY <1>1, LedgerAssumption DEF BInv
  <2>2. /\ \A d \in Docs, x \in Accounts : m[d][x] \in Int
        /\ \A x \in Accounts : Booked(x) \in Int
    BY <2>1, BookedOverAll DEF Tables
  <2>3. \A x \in Accounts : booked[x] = columns[x]
    <3> SUFFICES ASSUME NEW x \in Accounts PROVE Booked(x) = SumFunctionOnSet([d \in Docs |-> m[d][x]], Docs)
      OBVIOUS
    <3>1. [d \in Docs |-> m[d][x]] = [d \in Docs |-> OnAccount(d, x)]
      OBVIOUS
    <3> HIDE DEF m
    <3> QED BY <2>1, <3>1, BookedOverAll DEF Tables
  <2>4. \A d \in Docs : rows[d] = 0
    <3> SUFFICES ASSUME NEW d \in Docs PROVE SumFunctionOnSet([x \in Accounts |-> m[d][x]], Accounts) = 0
      OBVIOUS
    <3>1. [x \in Accounts |-> m[d][x]] = [x \in Accounts |-> OnAccount(d, x)]
      OBVIOUS
    <3> HIDE DEF m
    <3> QED BY <2>1, <3>1, DocumentBalances
  <2>5. \A x \in Accounts : Opening[x] \in Int /\ booked[x] \in Int /\ balance[x] = Opening[x] + booked[x]
    BY <1>1, <2>1, <2>2, LedgerAssumption DEF BalanceIsLedger
  <2> HIDE DEF m
  <2>6. SumFunctionOnSet(columns, Accounts) = SumFunctionOnSet(rows, Docs)
    BY ONLY <2>1, <2>2, SumSwap
  <2> HIDE DEF rows, columns, booked
  <2>7. SumFunctionOnSet(booked, Accounts) = SumFunctionOnSet(columns, Accounts)
    BY ONLY <2>1, <2>3, SumEqual
  <2>8. SumFunctionOnSet(rows, Docs) = 0
    BY ONLY <2>1, <2>4, SumZero
  <2>9. SumFunctionOnSet(balance, Accounts) = SumFunctionOnSet(Opening, Accounts) + SumFunctionOnSet(booked, Accounts)
    BY ONLY <2>1, <2>5, SumPlus
  <2>10. SumFunctionOnSet(Opening, Accounts) \in Int
    BY ONLY <2>1, <2>5, SumType
  <2> QED BY <2>6, <2>7, <2>8, <2>9, <2>10
<1>2. Init => BInv
  BY InitBInv
<1>3. BInv /\ [Next]_vars => BInv'
  BY NextSound
<1>4. BInv => TrialBalance
  BY <1>1 DEF TrialBalance
<1> QED BY <1>2, <1>3, <1>4, PTL DEF Spec
=============================================================================
