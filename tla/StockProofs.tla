---------------------------- MODULE StockProofs ----------------------------
(***************************************************************************)
(* current_stock is the stock ledger, a document's goods are moved once,   *)
(* no warehouse is overdrawn and a cancelled document leaves nothing in    *)
(* any of them, for all products, documents, lines and requests.  The      *)
(* hypothesis of all of it is ExclusiveRequests, which the code does not   *)
(* enforce: the run stock_create shows what happens without it.            *)
(***************************************************************************)
EXTENDS Stock, SumTheorems

Items == [product : Products, quantity : Int, warehouse : Places]
Entries == [product : Products, doc : Docs \cup {Nobody}, warehouse : Places,
            reversal : BOOLEAN, quantity : Int, balance : Int]

\* What rows, lines or movements come to for a product, and of a document.
Moved(rows, p) == Total(rows, OfProduct(rows, p))
MovedBy(rows, d, p) == Total(rows, OfDocument(rows, d) \cap OfProduct(rows, p))

\* What a request has to move of a product, what it has still to move, and what is in
\* the rows that it has not committed.
Goal(name, d, p) == IF Handler[name].posts THEN Due(d, p) ELSE -Due(d, p)
Pending(s, p) == Moved(session[s].flushed, p) + Moved(session[s].added, p)

-----------------------------------------------------------------------------
(* The inductive invariant.                                                *)

Tables ==
    /\ current_stock \in [Products -> Int] /\ stock_ledger \in Seq(Entries)
    /\ status \in [Docs -> {"ABSENT", "DRAFT", "POSTED", "CANCELLED"}]
    /\ default_warehouse \in Places
    /\ row_lock \in [Lockable -> Sessions \cup {Nobody}]
    /\ DOMAIN session = Sessions
    /\ \A s \in Sessions : DOMAIN session[s] = DOMAIN Idle

\* A row says that its document was posted, and a reversal that it was cancelled.
RowsTell ==
    \A i \in DOMAIN stock_ledger :
        LET d == stock_ledger[i].doc
        IN  d \in Docs => /\ status[d] \in {"POSTED", "CANCELLED"}
                          /\ stock_ledger[i].reversal => status[d] = "CANCELLED"

\* A request that skips a lock has no rival; one that does not holds its document.
Protected(s) ==
    LET q == session[s]
    IN  /\ q.doc \in Docs /\ q.handler \in Workflow[TypeOf[q.doc]]
        /\ status[q.doc] = IF TraitsOf(s).posts THEN "DRAFT" ELSE "POSTED"
        /\ TraitsOf(s).locksDocument => row_lock[q.doc] = s
        /\ Locking(q.handler) \/ \A t \in Sessions \ {s} : ~Busy(t)
        /\ Locking(q.handler) => \A p \in DOMAIN q.orm \cap Products : row_lock[p] = s

\* The rows of a request are its document's, about products it has read.
Written(s, rows) ==
    LET q == session[s]
    IN  /\ rows \in Seq(Entries)
        /\ \A i \in DOMAIN rows : /\ rows[i].doc = q.doc
                                  /\ rows[i].reversal = ~TraitsOf(s).posts
                                  /\ rows[i].product \in DOMAIN q.orm
                                  /\ TraitsOf(s).onHand => rows[i].product \in q.touched

\* A request moves what it has to, and the quantity it will store is what it read and
\* what it has moved.
Tallied(s) ==
    LET q == session[s]
    IN  /\ q.todo \in Seq(Items) /\ Written(s, q.flushed) /\ Written(s, q.added)
        /\ q.touched \subseteq Products \cap DOMAIN q.orm /\ (~TraitsOf(s).onHand => q.touched = {})
        /\ \A p \in Products : Pending(s, p) + Moved(q.todo, p) = Goal(q.handler, q.doc, p)
        /\ \A p \in DOMAIN q.orm \cap Products :
               q.orm[p] = current_stock[p] + IF TraitsOf(s).onHand THEN Pending(s, p) ELSE 0

SInv ==
    /\ Tables
    /\ RowsTell
    /\ \A s \in Sessions : Busy(s) => Protected(s) /\ Tallied(s)
    /\ OnHandIsLedger
    /\ PostedOnce

-----------------------------------------------------------------------------
(* Sums over sequences of rows.                                            *)

\* Some of the rows come to an integer, and nothing to 0.
LEMMA TotalTyped ==
    ASSUME NEW T, \A r \in T : r.quantity \in Int, NEW rows \in Seq(T), NEW I \in SUBSET DOMAIN rows
    PROVE  Total(rows, I) \in Int /\ (I = {} => Total(rows, I) = 0) /\ IsFiniteSet(I)
<1>1. DOMAIN rows = 1 .. Len(rows) /\ Len(rows) \in Nat
  OBVIOUS
<1>2. IsFiniteSet(I)
  <2>1. IsFiniteSet(DOMAIN rows)
    BY <1>1, FS_Interval
  <2> QED BY <2>1, FS_Subset
<1>3. \A i \in I : rows[i].quantity \in Int
  OBVIOUS
<1> DEFINE f == [i \in I |-> rows[i].quantity]
<1>4. \A i \in I : f[i] \in Int
  BY <1>3
<1> HIDE DEF f
<1>5. SumFunctionOnSet(f, I) \in Int
  BY <1>2, <1>4, SumType
<1>6. SumFunctionOnSet(f, {}) = 0
  BY SumEmpty
<1> QED BY <1>2, <1>5, <1>6 DEF Total, f

\* Rows after rows: what those of the first come to and what those of the second do.
LEMMA TotalConcat ==
    ASSUME NEW T, \A r \in T : r.quantity \in Int, NEW a \in Seq(T), NEW b \in Seq(T),
           NEW I \in SUBSET DOMAIN (a \o b)
    PROVE  Total(a \o b, I) = Total(a, {i \in DOMAIN a : i \in I})
                              + Total(b, {j \in DOMAIN b : Len(a) + j \in I})
<1> DEFINE c == a \o b
           A == {i \in DOMAIN a : i \in I}
           B == {j \in DOMAIN b : Len(a) + j \in I}
           f == [i \in I |-> c[i].quantity]
           fa == [i \in A |-> a[i].quantity]
           fb == [j \in B |-> b[j].quantity]
           o == [j \in B |-> Len(a) + j]
<1>1. /\ Len(a) \in Nat /\ Len(b) \in Nat /\ Len(c) = Len(a) + Len(b) /\ c \in Seq(T)
      /\ DOMAIN a = 1 .. Len(a) /\ DOMAIN b = 1 .. Len(b) /\ DOMAIN c = 1 .. Len(a) + Len(b)
      /\ \A i \in 1 .. Len(a) : c[i] = a[i]
      /\ \A j \in 1 .. Len(b) : c[Len(a) + j] = b[j]
  OBVIOUS
<1>2. IsFiniteSet(I) /\ A \in SUBSET I /\ IsFiniteSet(A) /\ IsFiniteSet(B) /\ IsFiniteSet(I \ A)
  <2>1. IsFiniteSet(DOMAIN a) /\ IsFiniteSet(DOMAIN b) /\ IsFiniteSet(DOMAIN c)
    BY <1>1, FS_Interval
  <2>2. IsFiniteSet(I) /\ IsFiniteSet(A) /\ IsFiniteSet(B) /\ A \in SUBSET I
    BY <2>1, FS_Subset
  <2> QED BY <2>2, FS_Subset
<1>3. \A i \in I : f[i] \in Int
  <2>1. \A i \in DOMAIN c : c[i] \in T
    BY <1>1
  <2> QED BY <2>1
<1>4. \A i \in A : f[i] = fa[i]
  BY <1>1
<1>5. /\ \A j \in B : o[j] \in I \ A
      /\ \A j, k \in B : o[j] = o[k] => j = k
      /\ \A i \in I \ A : \E j \in B : o[j] = i
  <2>1. ASSUME NEW i \in I \ A PROVE i - Len(a) \in B /\ o[i - Len(a)] = i
    BY <1>1
  <2>2. \A i \in I \ A : \E j \in B : o[j] = i
    BY <2>1
  <2> QED BY <1>1, <2>2
<1>6. \A j \in B : fb[j] = f[o[j]]
  BY <1>1
<1> HIDE DEF f, fa, fb, o, A, B
<1>7. SumFunctionOnSet(f, I) = SumFunctionOnSet(f, A) + SumFunctionOnSet(f, I \ A)
  BY <1>2, <1>3, SumUnion
<1>8. SumFunctionOnSet(f, A) = SumFunctionOnSet(fa, A)
  BY <1>2, <1>4, SumEqual
<1>9. SumFunctionOnSet(fb, B) = SumFunctionOnSet(f, I \ A)
  <2> DEFINE X == I \ A
  <2>1. \A i \in X : f[i] \in Int
    BY <1>3
  <2>2. \A j \in B : o[j] \in X
    BY <1>5
  <2>3. \A j, k \in B : o[j] = o[k] => j = k
    BY <1>5
  <2>4. \A i \in X : \E j \in B : o[j] = i
    BY <1>5
  <2>5. IsFiniteSet(B) /\ IsFiniteSet(X)
    BY <1>2
  <2> HIDE DEF X
  <2>6. SumFunctionOnSet(fb, B) = SumFunctionOnSet(f, X)
    BY ONLY <1>6, <2>1, <2>2, <2>3, <2>4, <2>5, SumReindex, SMTT(20), ZenonT(60)
  <2> QED BY <2>6 DEF X
<1> QED BY <1>7, <1>8, <1>9 DEF Total, f, fa, fb, A, B

\* Two choices of rows, and one that agrees with both, in rows after rows.
LEMMA ChosenConcat ==
    ASSUME NEW T, \A r \in T : r.quantity \in Int, NEW a \in Seq(T), NEW b \in Seq(T),
           NEW I \in SUBSET DOMAIN (a \o b), NEW A \in SUBSET DOMAIN a, NEW B \in SUBSET DOMAIN b,
           \A i \in DOMAIN a : i \in I <=> i \in A,
           \A j \in DOMAIN b : Len(a) + j \in I <=> j \in B
    PROVE  Total(a \o b, I) = Total(a, A) + Total(b, B)
<1>1. A = {i \in DOMAIN a : i \in I} /\ B = {j \in DOMAIN b : Len(a) + j \in I}
  OBVIOUS
<1> QED BY <1>1, TotalConcat

\* The rows of a product in rows after rows.
LEMMA MovedConcat ==
    ASSUME NEW T, \A r \in T : r.quantity \in Int, NEW a \in Seq(T), NEW b \in Seq(T), NEW p
    PROVE  /\ Moved(a \o b, p) = Moved(a, p) + Moved(b, p)
           /\ Moved(a, p) \in Int /\ Moved(b, p) \in Int
<1> DEFINE c == a \o b
<1>1. /\ Len(a) \in Nat /\ Len(b) \in Nat /\ c \in Seq(T)
      /\ DOMAIN a = 1 .. Len(a) /\ DOMAIN b = 1 .. Len(b) /\ DOMAIN c = 1 .. Len(a) + Len(b)
      /\ \A i \in 1 .. Len(a) : c[i] = a[i]
      /\ \A j \in 1 .. Len(b) : c[Len(a) + j] = b[j]
  OBVIOUS
<1>2. /\ OfProduct(c, p) \in SUBSET DOMAIN c /\ OfProduct(a, p) \in SUBSET DOMAIN a
      /\ OfProduct(b, p) \in SUBSET DOMAIN b
      /\ \A i \in DOMAIN a : i \in OfProduct(c, p) <=> i \in OfProduct(a, p)
      /\ \A j \in DOMAIN b : Len(a) + j \in OfProduct(c, p) <=> j \in OfProduct(b, p)
  BY <1>1 DEF OfProduct
<1>3. Total(c, OfProduct(c, p)) = Total(a, OfProduct(a, p)) + Total(b, OfProduct(b, p))
  BY <1>2, ChosenConcat
<1>4. Total(a, OfProduct(a, p)) \in Int /\ Total(b, OfProduct(b, p)) \in Int
  BY <1>2, TotalTyped
<1> QED BY <1>3, <1>4 DEF Moved

\* The rows of a product and of a document in rows after rows.
LEMMA MovedByConcat ==
    ASSUME NEW T, \A r \in T : r.quantity \in Int, NEW a \in Seq(T), NEW b \in Seq(T), NEW d, NEW p
    PROVE  /\ MovedBy(a \o b, d, p) = MovedBy(a, d, p) + MovedBy(b, d, p)
           /\ MovedBy(a, d, p) \in Int /\ MovedBy(b, d, p) \in Int
<1> DEFINE c == a \o b
           chosen(rows) == OfDocument(rows, d) \cap OfProduct(rows, p)
<1>1. /\ Len(a) \in Nat /\ Len(b) \in Nat /\ c \in Seq(T)
      /\ DOMAIN a = 1 .. Len(a) /\ DOMAIN b = 1 .. Len(b) /\ DOMAIN c = 1 .. Len(a) + Len(b)
      /\ \A i \in 1 .. Len(a) : c[i] = a[i]
      /\ \A j \in 1 .. Len(b) : c[Len(a) + j] = b[j]
  OBVIOUS
<1>2. /\ chosen(c) \in SUBSET DOMAIN c /\ chosen(a) \in SUBSET DOMAIN a
      /\ chosen(b) \in SUBSET DOMAIN b
      /\ \A i \in DOMAIN a : i \in chosen(c) <=> i \in chosen(a)
      /\ \A j \in DOMAIN b : Len(a) + j \in chosen(c) <=> j \in chosen(b)
  BY <1>1 DEF OfProduct, OfDocument
<1> HIDE DEF chosen
<1>3. Total(c, chosen(c)) = Total(a, chosen(a)) + Total(b, chosen(b))
  BY <1>2, ChosenConcat
<1>4. Total(a, chosen(a)) \in Int /\ Total(b, chosen(b)) \in Int
  BY <1>2, TotalTyped
<1> QED BY <1>3, <1>4 DEF MovedBy, chosen

\* The same of the rows of the ledger.
LEMMA EntriesConcat ==
    ASSUME NEW a \in Seq(Entries), NEW b \in Seq(Entries), NEW p, NEW d
    PROVE  /\ Moved(a \o b, p) = Moved(a, p) + Moved(b, p)
           /\ MovedBy(a \o b, d, p) = MovedBy(a, d, p) + MovedBy(b, d, p)
           /\ Moved(a, p) \in Int /\ MovedBy(a, d, p) \in Int
<1>1. \A r \in Entries : r.quantity \in Int
  BY DEF Entries
<1>2. Moved(a \o b, p) = Moved(a, p) + Moved(b, p) /\ Moved(a, p) \in Int
  BY <1>1, MovedConcat
<1>3. MovedBy(a \o b, d, p) = MovedBy(a, d, p) + MovedBy(b, d, p) /\ MovedBy(a, d, p) \in Int
  BY <1>1, MovedByConcat
<1> QED BY <1>2, <1>3

\* No rows.
LEMMA MovedNothing == ASSUME NEW p PROVE Moved(<<>>, p) = 0
<1>1. OfProduct(<<>>, p) = {}
  BY DEF OfProduct
<1>2. \A f : SumFunctionOnSet(f, {}) = 0
  BY SumEmpty
<1> QED BY <1>1, <1>2 DEF Moved, Total

\* One more row.
LEMMA MovedAppend ==
    ASSUME NEW T, \A r \in T : r.quantity \in Int, NEW rows \in Seq(T), NEW row \in T, NEW p
    PROVE  Moved(Append(rows, row), p) = Moved(rows, p) + IF row.product = p THEN row.quantity ELSE 0
<1>1. <<row>> \in Seq(T) /\ Append(rows, row) = rows \o <<row>> /\ DOMAIN <<row>> = {1}
  OBVIOUS
<1>2. Moved(<<row>>, p) = IF row.product = p THEN row.quantity ELSE 0
  <2>1. CASE row.product = p
    <3> DEFINE f == [i \in {1} |-> row.quantity]
    <3>1. OfProduct(<<row>>, p) = {1} /\ f[1] \in Int /\ f[1] = row.quantity
      BY <1>1, <2>1 DEF OfProduct
    <3>2. [i \in {1} |-> <<row>>[i].quantity] = f
      OBVIOUS
    <3> HIDE DEF f
    <3>3. SumFunctionOnSet(f, {1}) = f[1]
      BY <3>1, SumSingle
    <3> QED BY <2>1, <3>1, <3>2, <3>3 DEF Moved, Total
  <2>2. CASE row.product # p
    <3>1. OfProduct(<<row>>, p) = {}
      BY <1>1, <2>2 DEF OfProduct
    <3>2. {} \in SUBSET DOMAIN <<row>>
      OBVIOUS
    <3>3. Total(<<row>>, {}) = 0
      BY <1>1, <3>2, TotalTyped
    <3> QED BY <2>2, <3>1, <3>3 DEF Moved
  <2> QED BY <2>1, <2>2
<1>3. Moved(rows \o <<row>>, p) = Moved(rows, p) + Moved(<<row>>, p)
  BY <1>1, MovedConcat
<1> QED BY <1>1, <1>2, <1>3

\* One movement less to make.
LEMMA MovedTail ==
    ASSUME NEW T, \A r \in T : r.quantity \in Int, NEW rows \in Seq(T), rows # <<>>, NEW p
    PROVE  /\ Moved(rows, p) = Moved(Tail(rows), p)
                                + IF Head(rows).product = p THEN Head(rows).quantity ELSE 0
           /\ Moved(Tail(rows), p) \in Int
<1>0. PICK h, t : h = Head(rows) /\ t = Tail(rows)
  OBVIOUS
<1>1. h \in T /\ t \in Seq(T) /\ <<h>> \in Seq(T) /\ <<>> \in Seq(T)
  BY <1>0
<1>2. rows = <<h>> \o t /\ <<h>> = Append(<<>>, h)
  BY <1>0
<1>3. /\ Moved(<<h>> \o t, p) = Moved(<<h>>, p) + Moved(t, p)
      /\ Moved(t, p) \in Int /\ Moved(<<h>>, p) \in Int
  BY ONLY \A r \in T : r.quantity \in Int, <1>1, MovedConcat
<1>4. Moved(Append(<<>>, h), p) = Moved(<<>>, p) + IF h.product = p THEN h.quantity ELSE 0
  BY ONLY \A r \in T : r.quantity \in Int, <1>1, MovedAppend
<1>5. Moved(<<>>, p) = 0
  BY MovedNothing
<1>6. h.quantity \in Int
  BY <1>1
<1>7. Moved(rows, p) = Moved(<<h>>, p) + Moved(t, p)
  BY <1>2, <1>3
<1>8. Moved(<<h>>, p) = IF h.product = p THEN h.quantity ELSE 0
  BY <1>2, <1>4, <1>5, <1>6
<1>9. Moved(rows, p) = Moved(t, p) + IF h.product = p THEN h.quantity ELSE 0
  BY <1>3, <1>6, <1>7, <1>8
<1> QED BY <1>0, <1>3, <1>9

-----------------------------------------------------------------------------
(* The handlers.                                                           *)

\* What a handler is: whether it posts, what it walks, its sign, what it stores.
Is(name, posts, source, sign) ==
    LET h == Handler[name]
    IN  /\ h.posts = posts /\ h.source = source /\ h.sign = sign
        /\ h.onHand = (source # "legs") /\ h.preloads \in {"none", "last", "all"}
        /\ h.locksDocument \in BOOLEAN /\ h.locksProduct \in BOOLEAN /\ h.flushes \in BOOLEAN
        /\ h.place \in {"default", "document", "original"} /\ name # "idle"

\* The handlers, type by type.
LEMMA Traits ==
    /\ Is("create_invoice", TRUE, "lines", -1)
    /\ Is("finalize_invoice", TRUE, "lines", -1)
    /\ Is("cancel_invoice", FALSE, "rows", 1)
    /\ Is("create_bill", TRUE, "lines", 1)
    /\ Is("finalize_bill", TRUE, "lines", 1)
    /\ Is("cancel_bill", FALSE, "lines", -1)
    /\ Is("direct_delete_bill", FALSE, "rows", 1)
    /\ Is("create_sales_return", TRUE, "lines", 1)
    /\ Is("cancel_sales_return", FALSE, "lines", -1)
    /\ Is("create_purchase_return", TRUE, "lines", -1)
    /\ Is("cancel_purchase_return", FALSE, "lines", 1)
    /\ Is("finalize_credit_note", TRUE, "lines", 1)
    /\ Is("cancel_credit_note", FALSE, "rows", 1)
    /\ Is("issue_challan", TRUE, "totals", -1)
    /\ Is("cancel_challan", FALSE, "rows", 1)
    /\ Is("confirm_adjustment", TRUE, "lines", 1)
    /\ Is("cancel_adjustment", FALSE, "lines", -1)
    /\ Is("complete_transfer", TRUE, "legs", 1)
    /\ Is("confirm_receipt", TRUE, "lines", 1)
    /\ Is("cancel_receipt", FALSE, "lines", -1)
    /\ Is("update_opening_stock", TRUE, "lines", 1)
<1>1. Is("create_invoice", TRUE, "lines", -1)
  BY DEF Is, Handler, CreateInvoice, FinalizeInvoice, Base
<1>2. Is("finalize_invoice", TRUE, "lines", -1)
  BY DEF Is, Handler, FinalizeInvoice, Base
<1>3. Is("cancel_invoice", FALSE, "rows", 1)
  BY DEF Is, Handler, CancelInvoice, Base
<1>4. Is("create_bill", TRUE, "lines", 1)
  BY DEF Is, Handler, CreateBill, FinalizeBill, Base
<1>5. Is("finalize_bill", TRUE, "lines", 1)
  BY DEF Is, Handler, FinalizeBill, Base
<1>6. Is("cancel_bill", FALSE, "lines", -1)
  BY DEF Is, Handler, CancelBill, Base
<1>7. Is("direct_delete_bill", FALSE, "rows", 1)
  BY DEF Is, Handler, DirectDeleteBill, Base
<1>8. Is("create_sales_return", TRUE, "lines", 1)
  BY DEF Is, Handler, CreateSalesReturn, Base
<1>9. Is("cancel_sales_return", FALSE, "lines", -1)
  BY DEF Is, Handler, CancelSalesReturn, Base
<1>10. Is("create_purchase_return", TRUE, "lines", -1)
  BY DEF Is, Handler, CreatePurchaseReturn, Base
<1>11. Is("cancel_purchase_return", FALSE, "lines", 1)
  BY DEF Is, Handler, CancelPurchaseReturn, Base
<1>12. Is("finalize_credit_note", TRUE, "lines", 1)
  BY DEF Is, Handler, FinalizeCreditNote, Base
<1>13. Is("cancel_credit_note", FALSE, "rows", 1)
  BY DEF Is, Handler, CancelCreditNote, Base
<1>14. Is("issue_challan", TRUE, "totals", -1)
  BY DEF Is, Handler, IssueChallan, Base
<1>15. Is("cancel_challan", FALSE, "rows", 1)
  BY DEF Is, Handler, CancelChallan, Base
<1>16. Is("confirm_adjustment", TRUE, "lines", 1)
  BY DEF Is, Handler, ConfirmAdjustment, Base
<1>17. Is("cancel_adjustment", FALSE, "lines", -1)
  BY DEF Is, Handler, CancelAdjustment, Base
<1>18. Is("complete_transfer", TRUE, "legs", 1)
  BY DEF Is, Handler, CompleteTransfer, Base
<1>19. Is("confirm_receipt", TRUE, "lines", 1)
  BY DEF Is, Handler, ConfirmReceipt, Base
<1>20. Is("cancel_receipt", FALSE, "lines", -1)
  BY DEF Is, Handler, CancelReceipt, Base
<1>21. Is("update_opening_stock", TRUE, "lines", 1)
  BY DEF Is, Handler, UpdateOpeningStock, Base
<1> QED BY <1>1, <1>2, <1>3, <1>4, <1>5, <1>6, <1>7, <1>8, <1>9, <1>10, <1>11, <1>12, <1>13, <1>14, <1>15, <1>16, <1>17, <1>18, <1>19, <1>20, <1>21

\* A handler takes from the document's lines, or from its rows, what Due says.
Fits(name, d, p) ==
    LET h == Handler[name]
    IN  /\ \E posts \in BOOLEAN, source \in {"lines", "totals", "rows", "legs"}, sign \in {1, -1} :
               Is(name, posts, source, sign)
        /\ h.source \in {"lines", "totals"} => Goal(name, d, p) = h.sign * Moved(Lines[d], p)
        /\ h.source = "rows" => ~h.posts
        /\ h.source = "legs" => Goal(name, d, p) = 0 /\ h.posts
        /\ Due(d, p) \in Int /\ Moved(Lines[d], p) \in Int

\* The handlers of a type agree: those that post all walk the same lines with the same
\* sign, and those that cancel walk them with the other sign, or walk the rows.
LEMMA FitsFromTraits ==
    ASSUME NEW d \in Docs, NEW p, NEW source \in {"lines", "totals", "legs"}, NEW sign \in {1, -1},
           NEW back \in {1, -1}, sign + back = 0,
           NEW x \in Workflow[TypeOf[d]], Is(x, TRUE, source, sign),
           \A y \in Workflow[TypeOf[d]] :
               \/ Is(y, TRUE, source, sign)
               \/ source # "legs" /\ (Is(y, FALSE, "lines", back) \/ Is(y, FALSE, "rows", 1))
    PROVE  \A name \in Workflow[TypeOf[d]] : Fits(name, d, p)
<1>1. PICK m : m = Moved(Lines[d], p)
  OBVIOUS
<1>2. m \in Int
  <2>1. Lines[d] \in Seq(Line) /\ \A r \in Line : r.quantity \in Int
    BY WorkflowAssumption DEF Line
  <2> QED BY <1>1, <2>1, MovedConcat
<1>3. PICK y : y = CHOOSE z \in Workflow[TypeOf[d]] : Handler[z].posts
  OBVIOUS
<1>4. y \in Workflow[TypeOf[d]] /\ Handler[y].posts
  BY <1>3 DEF Is
<1>5. Is(y, TRUE, source, sign)
  BY <1>4 DEF Is
<1>6. Due(d, p) = IF source # "legs" THEN sign * m ELSE 0
  <2>1. Due(d, p) = IF Handler[y].onHand THEN Handler[y].sign * m ELSE 0
    BY <1>1, <1>3 DEF Due, Moved
  <2>2. Handler[y].onHand = (source # "legs") /\ Handler[y].sign = sign
    BY <1>5 DEF Is
  <2> QED BY <2>1, <2>2
<1>7. PICK due : due = Due(d, p)
  OBVIOUS
<1>8. ASSUME NEW name \in Workflow[TypeOf[d]] PROVE Fits(name, d, p)
  <2>1. CASE Is(name, TRUE, source, sign)
    <3>1. Handler[name].posts = TRUE /\ Handler[name].source = source /\ Handler[name].sign = sign
      BY <2>1 DEF Is
    <3>2. Goal(name, d, p) = due
      BY <1>7, <3>1 DEF Goal
    <3>3. \E posts \in BOOLEAN, src \in {"lines", "totals", "rows", "legs"}, sg \in {1, -1} :
              Is(name, posts, src, sg)
      BY <2>1
    <3>4. /\ source # "legs" => due = sign * m
          /\ source = "legs" => due = 0
          /\ due \in Int
      BY <1>2, <1>6, <1>7
    <3> QED BY <1>1, <1>2, <1>7, <3>1, <3>2, <3>3, <3>4 DEF Fits
  <2>2. CASE source # "legs" /\ Is(name, FALSE, "lines", back)
    <3>1. Handler[name].posts = FALSE /\ Handler[name].source = "lines" /\ Handler[name].sign = back
      BY <2>2 DEF Is
    <3>2. Goal(name, d, p) = -due
      BY <1>7, <3>1 DEF Goal
    <3>3. due = sign * m /\ -due = back * m /\ due \in Int
      BY <1>2, <1>6, <1>7, <2>2
    <3>4. \E posts \in BOOLEAN, src \in {"lines", "totals", "rows", "legs"}, sg \in {1, -1} :
              Is(name, posts, src, sg)
      BY <2>2
    <3> QED BY <1>1, <1>2, <1>7, <2>2, <3>1, <3>2, <3>3, <3>4 DEF Fits
  <2>3. CASE source # "legs" /\ Is(name, FALSE, "rows", 1)
    <3>1. Handler[name].posts = FALSE /\ Handler[name].source = "rows"
      BY <2>3 DEF Is
    <3>2. \E posts \in BOOLEAN, src \in {"lines", "totals", "rows", "legs"}, sg \in {1, -1} :
              Is(name, posts, src, sg)
      BY <2>3
    <3>3. due \in Int
      BY <1>2, <1>6, <1>7
    <3> QED BY <1>1, <1>2, <1>7, <3>1, <3>2, <3>3 DEF Fits
  <2> QED BY <2>1, <2>2, <2>3
<1> QED BY <1>8

\* Every handler that a document can reach moves what the document's posting is due.
LEMMA GoalOfHandler ==
    ASSUME NEW d \in Docs, NEW p
    PROVE  \A name \in Workflow[TypeOf[d]] : Fits(name, d, p)
<1>0. TypeOf[d] \in DOMAIN Workflow
  BY WorkflowAssumption
<1>1. CASE TypeOf[d] = "invoice"
  <2>1. Workflow[TypeOf[d]] = {"create_invoice", "finalize_invoice", "cancel_invoice"}
    BY <1>1 DEF Workflow
  <2>2. -1 \in {1, -1} /\ 1 \in {1, -1} /\ -1 + 1 = 0
    OBVIOUS
  <2>3. /\ Is("finalize_invoice", TRUE, "lines", -1)
        /\ \A y \in Workflow[TypeOf[d]] :
               \/ Is(y, TRUE, "lines", -1)
               \/ "lines" # "legs" /\ (Is(y, FALSE, "lines", 1) \/ Is(y, FALSE, "rows", 1))
    BY <2>1, Traits
  <2> QED BY <2>1, <2>2, <2>3, FitsFromTraits
<1>2. CASE TypeOf[d] = "bill"
  <2>1. Workflow[TypeOf[d]] = {"create_bill", "finalize_bill", "cancel_bill", "direct_delete_bill"}
    BY <1>2 DEF Workflow
  <2>2. 1 \in {1, -1} /\ -1 \in {1, -1} /\ 1 + -1 = 0
    OBVIOUS
  <2>3. /\ Is("finalize_bill", TRUE, "lines", 1)
        /\ \A y \in Workflow[TypeOf[d]] :
               \/ Is(y, TRUE, "lines", 1)
               \/ "lines" # "legs" /\ (Is(y, FALSE, "lines", -1) \/ Is(y, FALSE, "rows", 1))
    BY <2>1, Traits
  <2> QED BY <2>1, <2>2, <2>3, FitsFromTraits
<1>3. CASE TypeOf[d] = "sales_return"
  <2>1. Workflow[TypeOf[d]] = {"create_sales_return", "cancel_sales_return"}
    BY <1>3 DEF Workflow
  <2>2. 1 \in {1, -1} /\ -1 \in {1, -1} /\ 1 + -1 = 0
    OBVIOUS
  <2>3. /\ Is("create_sales_return", TRUE, "lines", 1)
        /\ \A y \in Workflow[TypeOf[d]] :
               \/ Is(y, TRUE, "lines", 1)
               \/ "lines" # "legs" /\ (Is(y, FALSE, "lines", -1) \/ Is(y, FALSE, "rows", 1))
    BY <2>1, Traits
  <2> QED BY <2>1, <2>2, <2>3, FitsFromTraits
<1>4. CASE TypeOf[d] = "purchase_return"
  <2>1. Workflow[TypeOf[d]] = {"create_purchase_return", "cancel_purchase_return"}
    BY <1>4 DEF Workflow
  <2>2. -1 \in {1, -1} /\ 1 \in {1, -1} /\ -1 + 1 = 0
    OBVIOUS
  <2>3. /\ Is("create_purchase_return", TRUE, "lines", -1)
        /\ \A y \in Workflow[TypeOf[d]] :
               \/ Is(y, TRUE, "lines", -1)
               \/ "lines" # "legs" /\ (Is(y, FALSE, "lines", 1) \/ Is(y, FALSE, "rows", 1))
    BY <2>1, Traits
  <2> QED BY <2>1, <2>2, <2>3, FitsFromTraits
<1>5. CASE TypeOf[d] = "credit_note"
  <2>1. Workflow[TypeOf[d]] = {"finalize_credit_note", "cancel_credit_note"}
    BY <1>5 DEF Workflow
  <2>2. 1 \in {1, -1} /\ -1 \in {1, -1} /\ 1 + -1 = 0
    OBVIOUS
  <2>3. /\ Is("finalize_credit_note", TRUE, "lines", 1)
        /\ \A y \in Workflow[TypeOf[d]] :
               \/ Is(y, TRUE, "lines", 1)
               \/ "lines" # "legs" /\ (Is(y, FALSE, "lines", -1) \/ Is(y, FALSE, "rows", 1))
    BY <2>1, Traits
  <2> QED BY <2>1, <2>2, <2>3, FitsFromTraits
<1>6. CASE TypeOf[d] = "challan"
  <2>1. Workflow[TypeOf[d]] = {"issue_challan", "cancel_challan"}
    BY <1>6 DEF Workflow
  <2>2. -1 \in {1, -1} /\ 1 \in {1, -1} /\ -1 + 1 = 0
    OBVIOUS
  <2>3. /\ Is("issue_challan", TRUE, "totals", -1)
        /\ \A y \in Workflow[TypeOf[d]] :
               \/ Is(y, TRUE, "totals", -1)
               \/ "totals" # "legs" /\ (Is(y, FALSE, "lines", 1) \/ Is(y, FALSE, "rows", 1))
    BY <2>1, Traits
  <2> QED BY <2>1, <2>2, <2>3, FitsFromTraits
<1>7. CASE TypeOf[d] = "adjustment"
  <2>1. Workflow[TypeOf[d]] = {"confirm_adjustment", "cancel_adjustment"}
    BY <1>7 DEF Workflow
  <2>2. 1 \in {1, -1} /\ -1 \in {1, -1} /\ 1 + -1 = 0
    OBVIOUS
  <2>3. /\ Is("confirm_adjustment", TRUE, "lines", 1)
        /\ \A y \in Workflow[TypeOf[d]] :
               \/ Is(y, TRUE, "lines", 1)
               \/ "lines" # "legs" /\ (Is(y, FALSE, "lines", -1) \/ Is(y, FALSE, "rows", 1))
    BY <2>1, Traits
  <2> QED BY <2>1, <2>2, <2>3, FitsFromTraits
<1>8. CASE TypeOf[d] = "transfer"
  <2>1. Workflow[TypeOf[d]] = {"complete_transfer"}
    BY <1>8 DEF Workflow
  <2>2. 1 \in {1, -1} /\ -1 \in {1, -1} /\ 1 + -1 = 0
    OBVIOUS
  <2>3. /\ Is("complete_transfer", TRUE, "legs", 1)
        /\ \A y \in Workflow[TypeOf[d]] :
               \/ Is(y, TRUE, "legs", 1)
               \/ "legs" # "legs" /\ (Is(y, FALSE, "lines", -1) \/ Is(y, FALSE, "rows", 1))
    BY <2>1, Traits
  <2> QED BY <2>1, <2>2, <2>3, FitsFromTraits
<1>9. CASE TypeOf[d] = "receipt"
  <2>1. Workflow[TypeOf[d]] = {"confirm_receipt", "cancel_receipt"}
    BY <1>9 DEF Workflow
  <2>2. 1 \in {1, -1} /\ -1 \in {1, -1} /\ 1 + -1 = 0
    OBVIOUS
  <2>3. /\ Is("confirm_receipt", TRUE, "lines", 1)
        /\ \A y \in Workflow[TypeOf[d]] :
               \/ Is(y, TRUE, "lines", 1)
               \/ "lines" # "legs" /\ (Is(y, FALSE, "lines", -1) \/ Is(y, FALSE, "rows", 1))
    BY <2>1, Traits
  <2> QED BY <2>1, <2>2, <2>3, FitsFromTraits
<1>10. CASE TypeOf[d] = "opening"
  <2>1. Workflow[TypeOf[d]] = {"update_opening_stock"}
    BY <1>10 DEF Workflow
  <2>2. 1 \in {1, -1} /\ -1 \in {1, -1} /\ 1 + -1 = 0
    OBVIOUS
  <2>3. /\ Is("update_opening_stock", TRUE, "lines", 1)
        /\ \A y \in Workflow[TypeOf[d]] :
               \/ Is(y, TRUE, "lines", 1)
               \/ "lines" # "legs" /\ (Is(y, FALSE, "lines", -1) \/ Is(y, FALSE, "rows", 1))
    BY <2>1, Traits
  <2> QED BY <2>1, <2>2, <2>3, FitsFromTraits
<1> QED BY <1>0, <1>1, <1>2, <1>3, <1>4, <1>5, <1>6, <1>7, <1>8, <1>9, <1>10 DEF Workflow

-----------------------------------------------------------------------------
(* What the movements of a plan come to.                                   *)

\* An ordering of a finite set takes each of its members once.
LEMMA OrderTakesAll ==
    ASSUME NEW S, IsFiniteSet(S), NEW o \in SetToSeqs(S)
    PROVE  /\ Cardinality(S) \in Nat /\ DOMAIN o = 1 .. Cardinality(S) /\ IsFiniteSet(DOMAIN o)
           /\ \A i \in DOMAIN o : o[i] \in S
           /\ \A i, j \in DOMAIN o : o[i] = o[j] => i = j
           /\ \A x \in S : \E i \in DOMAIN o : o[i] = x
<1>1. PICK n : n = Cardinality(S)
  OBVIOUS
<1>2. n \in Nat
  BY <1>1, FS_CardinalityType
<1>3. IsFiniteSet(1 .. n) /\ Cardinality(1 .. n) = n
  BY <1>2, FS_Interval
<1>4. o \in [1 .. n -> S] /\ \A i, j \in 1 .. n : i # j => o[i] # o[j]
  BY <1>1 DEF SetToSeqs
<1>5. o \in Injection(1 .. n, S)
  BY <1>4 DEF Injection, IsInjective
<1>6. o \in Surjection(1 .. n, S)
  BY <1>1, <1>3, <1>5, FS_Injection
<1> QED BY <1>1, <1>2, <1>3, <1>4, <1>6 DEF Surjection

\* The plan of a handler that walks the lines moves the lines, with its sign.
LEMMA LinesMoved ==
    ASSUME NEW lines \in Seq(Line), NEW sign \in {1, -1}, NEW plan, NEW p,
           plan = [i \in DOMAIN lines |->
                      Item(lines[i].product, sign * lines[i].quantity, lines[i].warehouse)]
    PROVE  plan \in Seq(Items) /\ Moved(plan, p) = sign * Moved(lines, p)
<1>1. /\ DOMAIN lines = 1 .. Len(lines) /\ Len(lines) \in Nat
      /\ \A i \in DOMAIN lines : lines[i] \in Line
  OBVIOUS
<1>2. \A r \in Line : r.product \in Products /\ r.quantity \in Int /\ r.warehouse \in Places
  BY DEF Line
<1>3. \A q \in Int : sign * q = (IF sign = 1 THEN q ELSE -q) /\ sign * q \in Int
  OBVIOUS
<1>4. \A i \in DOMAIN lines :
          /\ plan[i] \in Items
          /\ plan[i].product = lines[i].product /\ plan[i].quantity = sign * lines[i].quantity
  BY <1>1, <1>2, <1>3 DEF Item, Items
<1>5. DOMAIN plan = DOMAIN lines /\ plan = [i \in DOMAIN lines |-> plan[i]]
  OBVIOUS
<1>6. plan \in Seq(Items)
  BY <1>1, <1>4, <1>5
<1> DEFINE S == OfProduct(lines, p)
           f == [i \in S |-> lines[i].quantity]
           g == [i \in S |-> plan[i].quantity]
<1>7. OfProduct(plan, p) = S
  BY <1>4, <1>5 DEF OfProduct
<1>8. IsFiniteSet(S)
  <2>1. IsFiniteSet(DOMAIN lines) /\ S \in SUBSET DOMAIN lines
    BY <1>1, FS_Interval DEF OfProduct
  <2> QED BY <2>1, FS_Subset
<1>9. \A i \in S : f[i] \in Int /\ g[i] = sign * f[i]
  BY <1>1, <1>2, <1>4 DEF OfProduct
<1> HIDE DEF S, f, g
<1>10. SumFunctionOnSet(f, S) \in Int
  BY <1>8, <1>9, SumType
<1>11. SumFunctionOnSet(g, S) = sign * SumFunctionOnSet(f, S)
  <2>1. CASE sign = 1
    <3>1. \A i \in S : g[i] = f[i]
      BY <1>9, <2>1
    <3>2. SumFunctionOnSet(g, S) = SumFunctionOnSet(f, S)
      BY <1>8, <3>1, SumEqual
    <3> QED BY <1>10, <2>1, <3>2
  <2>2. CASE sign = -1
    <3>1. \A i \in S : f[i] \in Int /\ g[i] = -f[i]
      BY <1>3, <1>9, <2>2
    <3>2. SumFunctionOnSet(g, S) = -SumFunctionOnSet(f, S)
      BY <1>8, <3>1, SumOpposite
    <3> QED BY <1>10, <2>2, <3>2
  <2> QED BY <2>1, <2>2
<1> QED BY <1>6, <1>7, <1>11 DEF Moved, Total, S, f, g

\* The first line of each product.
Firsts(lines) == {i \in DOMAIN lines : \A j \in 1 .. i - 1 : lines[j].product # lines[i].product}

\* One movement for the first line of each product, of all that the lines say of it.
LEMMA TotalsMoved ==
    ASSUME NEW lines \in Seq(Line), NEW sign \in {1, -1}, NEW plan, NEW p,
           NEW o \in SetToSeqs(Firsts(lines)),
           plan = [i \in DOMAIN o |->
                      Item(lines[o[i]].product, sign * Moved(lines, lines[o[i]].product), NoPlace)]
    PROVE  plan \in Seq(Items) /\ Moved(plan, p) = sign * Moved(lines, p)
<1> DEFINE first == Firsts(lines)
<1>1. /\ DOMAIN lines = 1 .. Len(lines) /\ Len(lines) \in Nat
      /\ \A i \in DOMAIN lines : lines[i] \in Line
  OBVIOUS
<1>2. \A r \in Line : r.product \in Products /\ r.quantity \in Int
  BY DEF Line
<1>3. IsFiniteSet(DOMAIN lines) /\ first \in SUBSET DOMAIN lines /\ IsFiniteSet(first)
  <2>1. IsFiniteSet(DOMAIN lines) /\ first \in SUBSET DOMAIN lines
    BY <1>1, FS_Interval DEF Firsts
  <2> QED BY <2>1, FS_Subset
<1>4. PICK n \in Nat : /\ DOMAIN o = 1 .. n
                       /\ \A i \in 1 .. n : o[i] \in first
                       /\ \A i, j \in 1 .. n : o[i] = o[j] => i = j
                       /\ \A x \in first : \E i \in 1 .. n : o[i] = x
  BY <1>3, OrderTakesAll
<1>5. \A q : Moved(lines, q) \in Int
  BY <1>2, MovedConcat
<1>6. \A i \in 1 .. n : sign * Moved(lines, lines[o[i]].product) \in Int
  BY <1>5
<1>7. \A i \in 1 .. n : /\ plan[i] \in Items /\ plan[i].product = lines[o[i]].product
                        /\ plan[i].quantity = sign * Moved(lines, lines[o[i]].product)
  <2>1. \A i \in 1 .. n : lines[o[i]].product \in Products
    BY <1>1, <1>2, <1>3, <1>4
  <2> QED BY <1>4, <1>6, <2>1 DEF Item, Items, Places
<1>8. DOMAIN plan = 1 .. n /\ plan = [i \in 1 .. n |-> plan[i]]
  BY <1>4
<1>9. plan \in Seq(Items)
  BY <1>7, <1>8
<1>10. CASE OfProduct(lines, p) = {}
  <2>1. OfProduct(plan, p) = {}
    BY <1>3, <1>4, <1>7, <1>8, <1>10 DEF OfProduct
  <2>2. Moved(plan, p) = 0 /\ Moved(lines, p) = 0
    BY <1>10, <2>1, SumEmpty DEF Moved, Total
  <2> QED BY <1>9, <2>2
<1>11. CASE OfProduct(lines, p) # {}
  <2>1. PICK x \in OfProduct(lines, p) : \A y \in OfProduct(lines, p) : x <= y
    <3>1. OfProduct(lines, p) \in SUBSET DOMAIN lines
      BY DEF OfProduct
    <3>2. IsFiniteSet(OfProduct(lines, p)) /\ OfProduct(lines, p) \in SUBSET Int
      BY <1>1, <1>3, <3>1, FS_Subset
    <3> QED BY <1>11, <3>2, Extremes
  <2>2. x \in DOMAIN lines /\ lines[x].product = p
    BY DEF OfProduct
  <2>3. x \in first
    <3>1. ASSUME NEW j \in 1 .. x - 1 PROVE lines[j].product # lines[x].product
      <4>1. j \in DOMAIN lines /\ ~(x <= j)
        BY <1>1, <2>2
      <4> QED BY <2>1, <2>2, <4>1 DEF OfProduct
    <3> QED BY <2>2, <3>1 DEF Firsts
  <2>4. PICK k \in 1 .. n : o[k] = x
    BY <1>4, <2>3
  <2>5. ASSUME NEW i \in 1 .. n, lines[o[i]].product = p PROVE i = k
    <3>1. o[i] \in first /\ o[i] \in DOMAIN lines
      BY <1>3, <1>4
    <3>2. x <= o[i]
      BY <2>1, <2>5, <3>1 DEF OfProduct
    <3>3. ~(x < o[i])
      <4>1. x < o[i] => x \in 1 .. o[i] - 1
        BY <1>1, <2>2, <3>1
      <4> QED BY <2>2, <2>5, <3>1, <4>1 DEF Firsts
    <3>4. o[i] = x
      BY <1>1, <2>2, <3>1, <3>2, <3>3
    <3> QED BY <1>4, <2>4, <3>4
  <2>6. OfProduct(plan, p) = {k}
    BY <1>7, <1>8, <2>2, <2>4, <2>5 DEF OfProduct
  <2>7. plan[k].quantity = sign * Moved(lines, p) /\ plan[k].quantity \in Int
    BY <1>6, <1>7, <2>2, <2>4
  <2> DEFINE f == [i \in {k} |-> plan[i].quantity]
  <2>8. f[k] = plan[k].quantity /\ f[k] \in Int
    BY <2>7
  <2>9. SumFunctionOnSet(f, {k}) = f[k]
    BY <2>8, SumSingle
  <2> QED BY <1>9, <2>6, <2>7, <2>8, <2>9 DEF Moved, Total
<1> QED BY <1>10, <1>11

\* Undoing the rows that a document wrote, in any order, moves them back.
LEMMA RowsMoved ==
    ASSUME NEW T, \A r \in T : /\ r.product \in Products /\ r.quantity \in Int
                               /\ r.warehouse \in Places,
           NEW ledger \in Seq(T), NEW rows \in SUBSET DOMAIN ledger, NEW o \in SetToSeqs(rows),
           NEW plan, plan = [i \in DOMAIN o |-> Undone(ledger[o[i]])], NEW p
    PROVE  /\ plan \in Seq(Items)
           /\ Moved(plan, p) = -Total(ledger, rows \cap OfProduct(ledger, p))
<1>1. /\ DOMAIN ledger = 1 .. Len(ledger) /\ Len(ledger) \in Nat
      /\ \A i \in DOMAIN ledger : ledger[i] \in T
  OBVIOUS
<1>2. IsFiniteSet(DOMAIN ledger) /\ IsFiniteSet(rows)
  <2>1. IsFiniteSet(DOMAIN ledger)
    BY <1>1, FS_Interval
  <2> QED BY <2>1, FS_Subset
<1>3. PICK n \in Nat : /\ DOMAIN o = 1 .. n
                       /\ \A i \in 1 .. n : o[i] \in rows
                       /\ \A i, j \in 1 .. n : o[i] = o[j] => i = j
                       /\ \A x \in rows : \E i \in 1 .. n : o[i] = x
  BY <1>2, OrderTakesAll
<1>4. \A i \in 1 .. n : /\ plan[i] \in Items /\ plan[i].product = ledger[o[i]].product
                        /\ plan[i].quantity = -ledger[o[i]].quantity
                        /\ ledger[o[i]].quantity \in Int
  <2>1. \A i \in 1 .. n : ledger[o[i]] \in T
    BY <1>1, <1>3
  <2> QED BY <1>3, <2>1 DEF Undone, Item, Items
<1>5. DOMAIN plan = 1 .. n /\ plan = [i \in 1 .. n |-> plan[i]]
  BY <1>3
<1>6. plan \in Seq(Items)
  BY <1>4, <1>5
<1> DEFINE X == rows \cap OfProduct(ledger, p)
           R == OfProduct(plan, p)
           f == [x \in X |-> ledger[x].quantity]
           g == [x \in X |-> -ledger[x].quantity]
           l == [i \in R |-> plan[i].quantity]
<1>7. R \in SUBSET (1 .. n) /\ IsFiniteSet(R) /\ IsFiniteSet(X)
  <2>1. R \in SUBSET (1 .. n) /\ IsFiniteSet(1 .. n) /\ X \in SUBSET rows
    BY <1>5, FS_Interval DEF OfProduct
  <2> QED BY <1>2, <2>1, FS_Subset
<1>8. \A x \in X : f[x] \in Int /\ g[x] = -f[x] /\ g[x] \in Int
  BY <1>1
<1>9. \A i \in R : o[i] \in X /\ l[i] = g[o[i]]
  <2>1. \A i \in R : i \in 1 .. n /\ plan[i].product = p
    BY <1>5 DEF OfProduct
  <2>2. \A i \in R : o[i] \in X
    BY <1>3, <1>4, <2>1 DEF OfProduct
  <2> QED BY <1>4, <2>1, <2>2
<1>10. \A x \in X : \E i \in R : o[i] = x
  <2>1. ASSUME NEW x \in X PROVE \E i \in R : o[i] = x
    <3>1. PICK i \in 1 .. n : o[i] = x
      BY <1>3
    <3>2. plan[i].product = p
      BY <1>4, <3>1 DEF OfProduct
    <3>3. i \in R
      BY <1>5, <3>2 DEF OfProduct
    <3> QED BY <3>1, <3>3
  <2> QED BY <2>1
<1>11. \A i, j \in R : o[i] = o[j] => i = j
  BY <1>3, <1>7
<1> HIDE DEF X, R, f, g, l
<1>12. SumFunctionOnSet(l, R) = SumFunctionOnSet(g, X)
  <2>1. \A i \in R : o[i] \in X
    BY <1>9
  <2>2. \A i \in R : l[i] = g[o[i]]
    BY <1>9
  <2>3. \A x \in X : g[x] \in Int
    BY <1>8
  <2>4. IsFiniteSet(R) /\ IsFiniteSet(X)
    BY <1>7
  <2> QED BY ONLY <2>4, <1>10, <1>11, <2>1, <2>2, <2>3, SumReindex
<1>13. SumFunctionOnSet(g, X) = -SumFunctionOnSet(f, X)
  BY <1>7, <1>8, SumOpposite
<1> QED BY <1>6, <1>12, <1>13 DEF Moved, Total, X, R, f, l

\* The legs of line k are the movements 2k - 1 and 2k.
LEMMA Halves ==
    ASSUME NEW i \in Int
    PROVE  /\ (i + 1) \div 2 \in Int
           /\ i % 2 = 1 => i = 2 * ((i + 1) \div 2) - 1
           /\ i % 2 # 1 => i = 2 * ((i + 1) \div 2)
  BY SMTT(30)

\* The two legs of a transfer come to nothing.
LEMMA LegsMoved ==
    ASSUME NEW lines \in Seq(Line), NEW plan, NEW p,
           plan = [i \in 1 .. 2 * Len(lines) |-> Transferred(lines[(i + 1) \div 2], i % 2 = 1)]
    PROVE  plan \in Seq(Items) /\ Moved(plan, p) = 0
<1>1. PICK n \in Nat : n = Len(lines)
  OBVIOUS
<1>2. DOMAIN lines = 1 .. n /\ \A k \in 1 .. n : lines[k] \in Line
  BY <1>1
<1>3. ASSUME NEW i \in 1 .. 2 * n
      PROVE  /\ (i + 1) \div 2 \in 1 .. n
             /\ i % 2 = 1 => i = 2 * ((i + 1) \div 2) - 1
             /\ i % 2 # 1 => i = 2 * ((i + 1) \div 2)
  <2>1. i \in Int /\ 1 <= i /\ i <= 2 * n
    OBVIOUS
  <2>2. /\ (i + 1) \div 2 \in Int
        /\ i % 2 = 1 => i = 2 * ((i + 1) \div 2) - 1
        /\ i % 2 # 1 => i = 2 * ((i + 1) \div 2)
    BY <2>1, Halves
  <2>3. (i + 1) \div 2 \in 1 .. n
    BY <2>1, <2>2
  <2> QED BY <2>2, <2>3
<1>4. \A k \in 1 .. n : /\ 2 * k - 1 \in 1 .. 2 * n /\ 2 * k \in 1 .. 2 * n
                        /\ (2 * k) \div 2 = k /\ (2 * k + 1) \div 2 = k
                        /\ (2 * k - 1) % 2 = 1 /\ (2 * k) % 2 # 1
  OBVIOUS
<1> DEFINE at == [i \in 1 .. 2 * n |-> (i + 1) \div 2]
           odd(i) == i % 2 = 1
<1>5. \A i \in 1 .. 2 * n : /\ at[i] \in 1 .. n
                            /\ odd(i) => i = 2 * at[i] - 1
                            /\ ~odd(i) => i = 2 * at[i]
  BY <1>3
<1>6. \A k \in 1 .. n : /\ 2 * k - 1 \in 1 .. 2 * n /\ 2 * k \in 1 .. 2 * n
                        /\ at[2 * k - 1] = k /\ at[2 * k] = k /\ odd(2 * k - 1) /\ ~odd(2 * k)
  <2>1. ASSUME NEW k \in 1 .. n
        PROVE  /\ 2 * k - 1 \in 1 .. 2 * n /\ 2 * k \in 1 .. 2 * n
               /\ at[2 * k - 1] = k /\ at[2 * k] = k /\ odd(2 * k - 1) /\ ~odd(2 * k)
    <3>1. at[2 * k - 1] = (2 * k - 1 + 1) \div 2 /\ 2 * k - 1 + 1 = 2 * k
      BY <1>4
    <3>2. at[2 * k] = (2 * k + 1) \div 2
      BY <1>4
    <3> QED BY <1>4, <3>1, <3>2
  <2> QED BY <2>1
<1>7. plan = [i \in 1 .. 2 * n |-> Transferred(lines[at[i]], odd(i))]
  BY <1>1
<1> HIDE DEF at, odd
<1>8. \A i \in 1 .. 2 * n :
          /\ plan[i] \in Items /\ plan[i].product = lines[at[i]].product
          /\ odd(i) => plan[i].quantity = -lines[at[i]].quantity
          /\ ~odd(i) => plan[i].quantity = lines[at[i]].quantity
  <2>1. ASSUME NEW i \in 1 .. 2 * n
        PROVE  /\ plan[i] \in Items /\ plan[i].product = lines[at[i]].product
               /\ odd(i) => plan[i].quantity = -lines[at[i]].quantity
               /\ ~odd(i) => plan[i].quantity = lines[at[i]].quantity
    <3>1. PICK line : line = lines[at[i]]
      OBVIOUS
    <3>2. /\ line \in Line /\ plan[i] = Transferred(line, odd(i))
          /\ line.product \in Products /\ line.quantity \in Int /\ -line.quantity \in Int
          /\ line.warehouse \in Places /\ line.into \in Places
      BY <1>2, <1>5, <1>7, <3>1 DEF Line
    <3>3. CASE odd(i)
      <4>1. plan[i] = Item(line.product, -line.quantity, line.warehouse)
        BY <3>2, <3>3 DEF Transferred
      <4> QED BY <3>1, <3>2, <3>3, <4>1 DEF Item, Items
    <3>4. CASE ~odd(i)
      <4>1. plan[i] = Item(line.product, line.quantity, line.into)
        BY <3>2, <3>4 DEF Transferred
      <4> QED BY <3>1, <3>2, <3>4, <4>1 DEF Item, Items
    <3> QED BY <3>3, <3>4
  <2> QED BY <2>1
<1>9. DOMAIN plan = 1 .. 2 * n /\ plan = [i \in 1 .. 2 * n |-> plan[i]]
  BY <1>7
<1>10. plan \in Seq(Items)
  <2>1. PICK m \in Nat : m = 2 * n
    OBVIOUS
  <2>2. plan \in [1 .. m -> Items]
    BY <1>8, <1>9, <2>1
  <2> QED BY <2>2
<1> DEFINE X == OfProduct(lines, p)
           R == OfProduct(plan, p)
           A == {i \in R : odd(i)}
           B == R \ A
           f == [x \in X |-> lines[x].quantity]
           g == [x \in X |-> -lines[x].quantity]
           l == [i \in R |-> plan[i].quantity]
<1>11. IsFiniteSet(R) /\ IsFiniteSet(A) /\ IsFiniteSet(B) /\ IsFiniteSet(X) /\ A \in SUBSET R
  <2>1. R \in SUBSET (1 .. 2 * n) /\ X \in SUBSET (1 .. n)
    BY <1>2, <1>9 DEF OfProduct
  <2>2. IsFiniteSet(1 .. 2 * n) /\ IsFiniteSet(1 .. n)
    <3>1. 1 \in Int /\ n \in Int /\ 2 * n \in Int
      OBVIOUS
    <3> QED BY <3>1, FS_Interval
  <2>3. IsFiniteSet(R) /\ IsFiniteSet(X)
    BY <2>1, <2>2, FS_Subset
  <2> QED BY <2>3, FS_Subset
<1>12. \A i \in R : /\ i \in 1 .. 2 * n /\ at[i] \in X
                    /\ odd(i) => l[i] = g[at[i]]
                    /\ ~odd(i) => l[i] = f[at[i]]
  BY <1>2, <1>5, <1>8, <1>9 DEF OfProduct
<1>13. \A x \in X : f[x] \in Int /\ g[x] \in Int /\ g[x] = -f[x]
  BY <1>2 DEF OfProduct, Line
<1>14. ASSUME NEW x \in X PROVE x \in 1 .. n /\ 2 * x - 1 \in A /\ 2 * x \in B
  <2>1. x \in 1 .. n /\ lines[x].product = p
    BY <1>2 DEF OfProduct
  <2>2. PICK a, b : a = 2 * x - 1 /\ b = 2 * x
    OBVIOUS
  <2>3. /\ a \in 1 .. 2 * n /\ b \in 1 .. 2 * n
        /\ at[a] = x /\ at[b] = x /\ odd(a) /\ ~odd(b)
    BY <1>6, <2>1, <2>2
  <2>4. a \in R /\ b \in R
    <3>1. plan[a].product = p /\ plan[b].product = p /\ a \in DOMAIN plan /\ b \in DOMAIN plan
      BY <1>8, <1>9, <2>1, <2>3, ZenonT(60)
    <3> QED BY <3>1 DEF OfProduct
  <2> HIDE DEF R
  <2> QED BY <2>1, <2>2, <2>3, <2>4
<1>15. \A i \in R : l[i] \in Int
  BY <1>12, <1>13
<1>16. /\ \A i \in A : at[i] \in X /\ l[i] = g[at[i]]
       /\ \A i, j \in A : at[i] = at[j] => i = j
       /\ \A x \in X : \E i \in A : at[i] = x
  <2>1. \A i \in A : at[i] \in X /\ l[i] = g[at[i]] /\ i = 2 * at[i] - 1
    BY <1>5, <1>12
  <2>2. \A x \in X : at[2 * x - 1] = x /\ 2 * x - 1 \in A
    BY <1>6, <1>14
  <2> HIDE DEF A, B, X, R, f, g, l
  <2>3. \A i, j \in A : at[i] = at[j] => i = j
    BY <2>1
  <2> QED BY <2>1, <2>2, <2>3
<1>17. /\ \A i \in B : at[i] \in X /\ l[i] = f[at[i]]
       /\ \A i, j \in B : at[i] = at[j] => i = j
       /\ \A x \in X : \E i \in B : at[i] = x
  <2>1. \A i \in B : at[i] \in X /\ l[i] = f[at[i]] /\ i = 2 * at[i]
    BY <1>5, <1>12
  <2>2. \A x \in X : at[2 * x] = x /\ 2 * x \in B
    BY <1>6, <1>14
  <2> HIDE DEF A, B, X, R, f, g, l
  <2>3. \A i, j \in B : at[i] = at[j] => i = j
    BY <2>1
  <2> QED BY <2>1, <2>2, <2>3
<1>18. B = R \ A
  OBVIOUS
<1> HIDE DEF X, R, A, B, f, g, l
<1>19. SumFunctionOnSet(l, A) = SumFunctionOnSet(g, X)
  <2>1. IsFiniteSet(A) /\ IsFiniteSet(X)
    BY <1>11
  <2>2. (\A i \in A : at[i] \in X) /\ (\A i \in A : l[i] = g[at[i]]) /\ (\A x \in X : g[x] \in Int)
    BY <1>13, <1>16
  <2> QED BY ONLY <1>16, <2>1, <2>2, SumReindex
<1>20. SumFunctionOnSet(l, B) = SumFunctionOnSet(f, X)
  <2>1. IsFiniteSet(B) /\ IsFiniteSet(X)
    BY <1>11
  <2>2. (\A i \in B : at[i] \in X) /\ (\A i \in B : l[i] = f[at[i]]) /\ (\A x \in X : f[x] \in Int)
    BY <1>13, <1>17
  <2> QED BY ONLY <1>17, <2>1, <2>2, SumReindex
<1>21. SumFunctionOnSet(g, X) = -SumFunctionOnSet(f, X) /\ SumFunctionOnSet(f, X) \in Int
  BY <1>11, <1>13, SumOpposite, SumType
<1>22. SumFunctionOnSet(l, R) = SumFunctionOnSet(l, A) + SumFunctionOnSet(l, B)
  BY <1>11, <1>15, <1>18, SumUnion
<1>23. SumFunctionOnSet(l, R) = 0
  BY <1>19, <1>20, <1>21, <1>22
<1> QED BY <1>10, <1>23 DEF Moved, Total, R, l

\* What a handler finds, type by type, as facts about its record.
LEMMA HandlerFacts ==
    ASSUME NEW d \in Docs, NEW name \in Workflow[TypeOf[d]]
    PROVE  /\ Handler[name].source \in {"lines", "totals", "rows", "legs"}
           /\ Handler[name].sign \in {1, -1}
           /\ Handler[name].posts \in BOOLEAN /\ Handler[name].onHand \in BOOLEAN
           /\ Handler[name].onHand = (Handler[name].source # "legs")
           /\ Handler[name].place \in {"default", "document", "original"}
           /\ Handler[name].preloads \in {"none", "last", "all"}
           /\ Handler[name].locksDocument \in BOOLEAN /\ Handler[name].locksProduct \in BOOLEAN
           /\ Handler[name].flushes \in BOOLEAN /\ name # "idle"
<1>1. PICK posts \in BOOLEAN, source \in {"lines", "totals", "rows", "legs"}, sign \in {1, -1} :
          Is(name, posts, source, sign)
  BY GoalOfHandler DEF Fits
<1> QED BY <1>1 DEF Is

\* A request plans to move what it has to: the lines if it posts, what the posting
\* moved if it cancels.
LEMMA PlanMoves ==
    ASSUME Tables, RowsTell, PostedOnce,
           NEW d \in Docs, NEW name \in Workflow[TypeOf[d]],
           status[d] = IF Handler[name].posts THEN "DRAFT" ELSE "POSTED",
           NEW plan \in Plans(Handler[name], d), NEW p
    PROVE  /\ plan \in Seq(Items)
           /\ p \in Products => Moved(plan, p) = Goal(name, d, p)
<1> DEFINE h == Handler[name]
           lines == Lines[d]
           rows == {i \in OfDocument(stock_ledger, d) : ~stock_ledger[i].reversal}
<1>1. lines \in Seq(Line)
  BY WorkflowAssumption
<1>2. Fits(name, d, p)
  BY GoalOfHandler
<1>3. h.source \in {"lines", "totals", "rows", "legs"} /\ h.sign \in {1, -1} /\ h.posts \in BOOLEAN
  BY HandlerFacts
<1>4. CASE h.source = "lines"
  <2>1. plan = [i \in DOMAIN lines |->
                   Item(lines[i].product, h.sign * lines[i].quantity, lines[i].warehouse)]
    BY <1>4 DEF Plans
  <2>2. plan \in Seq(Items) /\ Moved(plan, p) = h.sign * Moved(lines, p)
    <3> HIDE DEF lines, h
    <3> QED BY ONLY <1>1, <1>3, <2>1, LinesMoved, SMTT(20), ZenonT(60)
  <2>3. Goal(name, d, p) = h.sign * Moved(lines, p)
    BY <1>2, <1>4 DEF Fits
  <2> QED BY <2>2, <2>3
<1>5. CASE h.source = "totals"
  <2>1. PICK o \in SetToSeqs(Firsts(lines)) :
            plan = [i \in DOMAIN o |->
                       Item(lines[o[i]].product,
                            h.sign * Total(lines, OfProduct(lines, lines[o[i]].product)), NoPlace)]
    BY <1>5 DEF Plans, Firsts
  <2>2. plan = [i \in DOMAIN o |->
                   Item(lines[o[i]].product, h.sign * Moved(lines, lines[o[i]].product), NoPlace)]
    BY <2>1 DEF Moved
  <2>3. plan \in Seq(Items) /\ Moved(plan, p) = h.sign * Moved(lines, p)
    <3>1. h.sign \in {1, -1} /\ o \in SetToSeqs(Firsts(lines))
      BY <1>3
    <3> HIDE DEF lines, h
    <3>2. PICK sign \in {1, -1} : sign = h.sign
      BY <3>1
    <3>3. plan = [i \in DOMAIN o |->
                     Item(lines[o[i]].product, sign * Moved(lines, lines[o[i]].product), NoPlace)]
      BY <2>2, <3>2
    <3>4. plan \in Seq(Items) /\ Moved(plan, p) = sign * Moved(lines, p)
      BY ONLY <1>1, <3>1, sign \in {1, -1}, <3>3, TotalsMoved
    <3> QED BY <3>2, <3>4
  <2>4. Goal(name, d, p) = h.sign * Moved(lines, p)
    BY <1>2, <1>5 DEF Fits
  <2> QED BY <2>3, <2>4
<1>6. CASE h.source = "rows"
  <2>1. PICK o \in SetToSeqs(rows) : plan = [i \in DOMAIN o |-> Undone(stock_ledger[o[i]])]
    BY <1>6 DEF Plans
  <2>2. stock_ledger \in Seq(Entries) /\ rows \in SUBSET DOMAIN stock_ledger
    BY DEF Tables, OfDocument
  <2>3. \A r \in Entries : r.product \in Products /\ r.quantity \in Int /\ r.warehouse \in Places
    BY DEF Entries
  <2>4. plan \in Seq(Items)
        /\ Moved(plan, p) = -Total(stock_ledger, rows \cap OfProduct(stock_ledger, p))
    <3> HIDE DEF rows
    <3> QED BY <2>1, <2>2, <2>3, RowsMoved
  <2>5. ~h.posts /\ status[d] = "POSTED"
    BY <1>2, <1>6 DEF Fits
  <2>6. rows = OfDocument(stock_ledger, d)
    BY <2>5 DEF RowsTell, OfDocument
  <2>7. ASSUME p \in Products PROVE Moved(plan, p) = Goal(name, d, p)
    <3>1. Total(stock_ledger, OfDocument(stock_ledger, d) \cap OfProduct(stock_ledger, p)) = Due(d, p)
      BY <2>5, <2>7 DEF PostedOnce
    <3>2. Goal(name, d, p) = -Due(d, p)
      BY <2>5 DEF Goal
    <3> HIDE DEF rows
    <3> QED BY <2>4, <2>6, <3>1, <3>2
  <2> QED BY <2>4, <2>7
<1>7. CASE h.source = "legs"
  <2>1. plan = [i \in 1 .. 2 * Len(lines) |-> Transferred(lines[(i + 1) \div 2], i % 2 = 1)]
    BY <1>7 DEF Plans
  <2>2. plan \in Seq(Items) /\ Moved(plan, p) = 0
    <3> HIDE DEF lines
    <3> QED BY ONLY <1>1, <2>1, LegsMoved
  <2>3. Goal(name, d, p) = 0
    BY <1>2, <1>7 DEF Fits
  <2> QED BY <2>2, <2>3
<1> QED BY <1>3, <1>4, <1>5, <1>6, <1>7

\* A movement goes to a warehouse, or to none.
LEMMA PlaceTyped ==
    ASSUME Tables, NEW s \in Sessions, Protected(s), Written(s, session[s].flushed), NEW item \in Items
    PROVE  PlaceOf(s, item) \in Places
<1> DEFINE rows == Visible(s)
           written == {i \in OfDocument(rows, session[s].doc) \cap OfProduct(rows, item.product) :
                          ~rows[i].reversal}
<1>1. rows \in Seq(Entries) /\ written \in SUBSET DOMAIN rows
  BY DEF Visible, Written, Tables, OfProduct
<1>2. \A i \in DOMAIN rows : rows[i].warehouse \in Places
  <2>1. \A i \in DOMAIN rows : rows[i] \in Entries
    BY <1>1
  <2> QED BY <2>1 DEF Entries
<1>3. item.warehouse \in Places /\ default_warehouse \in Places
  BY DEF Items, Tables
<1>4. TraitsOf(s).place \in {"default", "document", "original"}
  BY HandlerFacts DEF Protected, TraitsOf
<1>5. ASSUME written # {} PROVE Max(written) \in DOMAIN rows
  <2>1. PICK n \in Nat : DOMAIN rows = 1 .. n
    BY <1>1
  <2>2. IsFiniteSet(1 .. n) /\ written \in SUBSET (1 .. n)
    BY <1>1, <2>1, FS_Interval
  <2>3. IsFiniteSet(written) /\ written \in SUBSET Int
    BY <2>2, FS_Subset
  <2> HIDE DEF written
  <2>4. \E x \in written : \A y \in written : x >= y
    BY <1>5, <2>3, Extremes
  <2>5. Max(written) \in written
    BY <2>4 DEF Max
  <2> QED BY <1>1, <2>5
<1>6. PlaceOf(s, item) =
          CASE TraitsOf(s).place = "document" -> item.warehouse
            [] TraitsOf(s).place = "default" -> default_warehouse
            [] TraitsOf(s).place = "original" ->
                 IF item.warehouse # NoPlace THEN item.warehouse
                 ELSE IF written # {} /\ rows[Max(written)].warehouse # NoPlace
                      THEN rows[Max(written)].warehouse
                      ELSE default_warehouse
  BY DEF PlaceOf
<1> HIDE DEF rows, written
<1> QED BY <1>2, <1>3, <1>4, <1>5, <1>6

-----------------------------------------------------------------------------
(* The steps of a request.                                                 *)

\* What a request keeps while another takes a step: it has its own locks, its document
\* and the products it has read have not changed.
LEMMA OthersKeep ==
    ASSUME NEW t \in Sessions, Busy(t), Protected(t), Tallied(t), session'[t] = session[t],
           status'[session[t].doc] = status[session[t].doc],
           \A x \in Lockable : row_lock[x] = t => row_lock'[x] = t,
           Locking(session[t].handler) \/ \A u \in Sessions \ {t} : ~Busy(u)',
           \A p \in DOMAIN session[t].orm \cap Products : current_stock'[p] = current_stock[p]
    PROVE  Busy(t)' /\ Protected(t)' /\ Tallied(t)'
<1>1. PICK q : q = session[t]
  OBVIOUS
<1>2. session'[t] = q
  BY <1>1
<1>3. Busy(t)'
  BY <1>1, <1>2 DEF Busy
<1>4. TraitsOf(t)' = TraitsOf(t)
  BY <1>1, <1>2 DEF TraitsOf
<1>5. Protected(t)'
  <2>1. q.doc \in Docs /\ q.doc \in Lockable
    BY <1>1 DEF Protected, Lockable
  <2>2. TraitsOf(t).locksDocument => row_lock'[q.doc] = t
    BY <1>1, <2>1 DEF Protected
  <2>3. Locking(q.handler) => \A p \in DOMAIN q.orm \cap Products : row_lock'[p] = t
    BY <1>1 DEF Protected, Lockable
  <2>4. status'[q.doc] = IF TraitsOf(t).posts THEN "DRAFT" ELSE "POSTED"
    BY <1>1 DEF Protected
  <2>5. q.handler \in Workflow[TypeOf[q.doc]]
    BY <1>1 DEF Protected
  <2>6. Locking(q.handler) \/ \A u \in Sessions \ {t} : ~Busy(u)'
    BY <1>1
  <2> QED BY <1>2, <1>4, <2>1, <2>2, <2>3, <2>4, <2>5, <2>6 DEF Protected
<1>6. \A p : Pending(t, p)' = Pending(t, p)
  BY <1>1, <1>2 DEF Pending
<1>7. Written(t, q.flushed)' /\ Written(t, q.added)'
  BY <1>1, <1>2, <1>4 DEF Tallied, Written
<1>8. Tallied(t)'
  <2>1. /\ q.todo \in Seq(Items) /\ q.touched \subseteq Products \cap DOMAIN q.orm
        /\ ~TraitsOf(t).onHand => q.touched = {}
        /\ \A p \in Products : Pending(t, p) + Moved(q.todo, p) = Goal(q.handler, q.doc, p)
        /\ \A p \in DOMAIN q.orm \cap Products :
               q.orm[p] = current_stock[p] + IF TraitsOf(t).onHand THEN Pending(t, p) ELSE 0
    BY <1>1 DEF Tallied
  <2>2. \A p \in DOMAIN q.orm \cap Products :
            q.orm[p] = current_stock'[p] + IF TraitsOf(t).onHand THEN Pending(t, p) ELSE 0
    BY <1>1, <2>1
  <2>3. Written(t, session[t].flushed)' /\ Written(t, session[t].added)'
    BY <1>2, <1>7 DEF Written, TraitsOf
  <2> QED BY <1>2, <1>4, <1>6, <2>1, <2>2, <2>3 DEF Tallied
<1> QED BY <1>3, <1>5, <1>8

\* Two requests in flight both take every lock first, and have different documents.
LEMMA NoRival ==
    ASSUME NEW s \in Sessions, NEW t \in Sessions, s # t, Busy(s), Busy(t), Protected(s), Protected(t)
    PROVE  /\ Locking(session[s].handler) /\ Locking(session[t].handler)
           /\ session[s].doc # session[t].doc
           /\ \A p \in Products : p \in DOMAIN session[s].orm => p \notin DOMAIN session[t].orm
<1>1. Locking(session[s].handler) /\ Locking(session[t].handler)
  BY DEF Protected
<1>2. row_lock[session[s].doc] = s /\ row_lock[session[t].doc] = t
  BY <1>1 DEF Protected, Locking, TraitsOf
<1>3. /\ \A p \in DOMAIN session[s].orm \cap Products : row_lock[p] = s
      /\ \A p \in DOMAIN session[t].orm \cap Products : row_lock[p] = t
  BY <1>1 DEF Protected
<1> QED BY <1>1, <1>2, <1>3

\* The tables alone, when no row, stock or status changes.
LEMMA TablesKeep ==
    ASSUME SInv, UNCHANGED <<current_stock, stock_ledger, status>>
    PROVE  RowsTell' /\ OnHandIsLedger' /\ PostedOnce'
<1>1. RowsTell'
  BY DEF SInv, RowsTell
<1>2. OnHandIsLedger'
  BY DEF SInv, OnHandIsLedger
<1>3. PostedOnce'
  BY DEF SInv, PostedOnce
<1> QED BY <1>1, <1>2, <1>3

\* A request that goes away releases its locks and no other.
LEMMA RollbackKeeps ==
    ASSUME SInv, NEW s \in Sessions, Rollback(s)
    PROVE  SInv'
<1>1. /\ row_lock' = [x \in Lockable |-> IF row_lock[x] = s THEN Nobody ELSE row_lock[x]]
      /\ session' = [session EXCEPT ![s] = Idle]
      /\ UNCHANGED <<current_stock, stock_ledger, status, default_warehouse>>
  BY DEF Rollback, Released
<1>2. Tables /\ \A t \in Sessions : Busy(t) => Protected(t) /\ Tallied(t)
  BY DEF SInv
<1>3. DOMAIN session = Sessions /\ session'[s] = Idle
      /\ \A t \in Sessions \ {s} : session'[t] = session[t]
  BY <1>1, <1>2 DEF Tables
<1>4. Tables'
  BY <1>1, <1>2, <1>3 DEF Tables
<1>5. ~Busy(s)'
  BY <1>3 DEF Busy, Idle
<1>6. \A u \in Sessions : Busy(u)' => Busy(u) /\ u # s
  BY <1>3, <1>5 DEF Busy
<1>7. ASSUME NEW t \in Sessions, Busy(t)'
      PROVE  Protected(t)' /\ Tallied(t)'
  <2>1. t # s /\ Busy(t) /\ Protected(t) /\ Tallied(t)
    BY <1>2, <1>6, <1>7
  <2>2. session'[t] = session[t] /\ status'[session[t].doc] = status[session[t].doc]
    BY <1>1, <1>3, <2>1
  <2>3. \A x \in Lockable : row_lock[x] = t => row_lock'[x] = t
    BY <1>1, <2>1
  <2>4. Locking(session[t].handler) \/ \A u \in Sessions \ {t} : ~Busy(u)'
    BY <1>6, <2>1 DEF Protected
  <2>5. \A p \in DOMAIN session[t].orm \cap Products : current_stock'[p] = current_stock[p]
    BY <1>1
  <2> QED BY <2>1, <2>2, <2>3, <2>4, <2>5, OthersKeep
<1>8. RowsTell' /\ OnHandIsLedger' /\ PostedOnce'
  BY <1>1, TablesKeep
<1> QED BY <1>4, <1>7, <1>8 DEF SInv

\* What is known of the quantities that a request read before it locked them.
LEMMA PreloadedReads ==
    ASSUME NEW h, NEW d, h.preloads \in {"none", "last", "all"}
    PROVE  /\ h.preloads = "none" => DOMAIN Preloaded(h, d) = {}
           /\ \A p \in DOMAIN Preloaded(h, d) : Preloaded(h, d)[p] = current_stock[p]
  BY DEF Preloaded

\* A request begins: it holds its document if it locks it, has everything to move and
\* has written nothing.
LEMMA OpenKeeps ==
    ASSUME SInv, ExclusiveRequests, NEW s \in Sessions, NEW d \in Docs,
           NEW name \in Workflow[TypeOf[d]], Open(s, d, name)
    PROVE  SInv'
<1> DEFINE h == Handler[name]
<1>1. PICK plan \in Plans(h, d) :
          session' = [session EXCEPT ![s] =
              [Idle EXCEPT !.handler = name, !.doc = d, !.todo = plan, !.orm = Preloaded(h, d)]]
  BY DEF Open
<1>2. /\ ~Busy(s) /\ Alone(name)
      /\ status[d] = IF h.posts THEN "DRAFT" ELSE "POSTED"
      /\ h.locksDocument => row_lock[d] = Nobody
      /\ row_lock' = IF h.locksDocument THEN [row_lock EXCEPT ![d] = s] ELSE row_lock
      /\ UNCHANGED <<current_stock, stock_ledger, status, default_warehouse>>
  BY DEF Open
<1>3. Tables /\ RowsTell /\ PostedOnce /\ \A t \in Sessions : Busy(t) => Protected(t) /\ Tallied(t)
  BY DEF SInv
<1>4. PICK orm : orm = Preloaded(h, d)
  OBVIOUS
<1>5. /\ h.locksDocument \in BOOLEAN /\ h.locksProduct \in BOOLEAN
      /\ h.preloads \in {"none", "last", "all"} /\ name # "idle"
  BY HandlerFacts
<1>6. /\ h.preloads = "none" => DOMAIN orm = {}
      /\ \A p \in DOMAIN orm : orm[p] = current_stock[p]
  BY <1>4, <1>5, PreloadedReads
<1>7. PICK q : q = [handler |-> name, doc |-> d, todo |-> plan, orm |-> orm,
                    touched |-> {}, flushed |-> <<>>, added |-> <<>>]
  OBVIOUS
<1>8. /\ session'[s] = q /\ DOMAIN session' = Sessions /\ DOMAIN q = DOMAIN Idle
      /\ \A t \in Sessions \ {s} : session'[t] = session[t]
  BY <1>1, <1>3, <1>4, <1>7 DEF Tables, Idle
<1>9. d \in Lockable /\ Nobody \notin Sessions
  BY WorkflowAssumption DEF Lockable
<1>10. /\ row_lock' \in [Lockable -> Sessions \cup {Nobody}]
       /\ h.locksDocument => row_lock'[d] = s
       /\ \A x \in Lockable : x # d \/ ~h.locksDocument => row_lock'[x] = row_lock[x]
  BY <1>2, <1>3, <1>5, <1>9 DEF Tables
<1>11. Tables'
  <2>1. \A t \in Sessions : DOMAIN session'[t] = DOMAIN Idle
    BY <1>3, <1>8 DEF Tables
  <2> QED BY <1>2, <1>3, <1>8, <1>10, <2>1 DEF Tables
<1>12. TraitsOf(s)' = h /\ Busy(s)'
  BY <1>5, <1>7, <1>8 DEF TraitsOf, Busy
<1>13. \A t \in Sessions \ {s} : Busy(t)' = Busy(t)
  BY <1>8 DEF Busy
<1>14. \A t \in Sessions : Busy(t) => Locking(name) /\ Locking(session[t].handler)
  BY <1>2, ExclusiveRequests DEF Alone
<1>15. Protected(s)'
  <2>1. Locking(name) \/ \A t \in Sessions \ {s} : ~Busy(t)'
    BY <1>13, <1>14
  <2>2. Locking(name) => DOMAIN orm = {}
    BY <1>6 DEF Locking
  <2>3. /\ q.doc = d /\ q.handler = name /\ q.orm = orm
    BY <1>7
  <2>4. /\ d \in Docs /\ name \in Workflow[TypeOf[d]]
        /\ status'[d] = IF h.posts THEN "DRAFT" ELSE "POSTED"
        /\ h.locksDocument => row_lock'[d] = s
    BY <1>2, <1>10
  <2> QED BY <1>8, <1>12, <2>1, <2>2, <2>3, <2>4 DEF Protected
<1>16. Tallied(s)'
  <2>1. /\ plan \in Seq(Items) /\ \A p \in Products : Moved(plan, p) = Goal(name, d, p)
    BY <1>2, <1>3, PlanMoves
  <2>2. <<>> \in Seq(Entries) /\ DOMAIN <<>> = {} /\ \A p : Moved(<<>>, p) = 0
    BY MovedNothing
  <2>3. q.todo = plan /\ q.orm = orm /\ q.touched = {} /\ q.flushed = <<>> /\ q.added = <<>>
        /\ q.handler = name /\ q.doc = d
    BY <1>7
  <2>4. Written(s, session[s].flushed)' /\ Written(s, session[s].added)'
    BY <1>8, <2>2, <2>3 DEF Written
  <2>5. \A p \in Products : Pending(s, p)' = 0
    BY <1>8, <2>2, <2>3 DEF Pending
  <2>6. \A p \in Products : 0 + Moved(plan, p) = Goal(name, d, p)
    <3>1. \A r \in Items : r.quantity \in Int
      BY DEF Items
    <3>2. \A p : Moved(plan, p) \in Int
      BY <2>1, <3>1, MovedConcat
    <3> QED BY <2>1, <3>2
  <2>7. \A p \in DOMAIN orm \cap Products :
            orm[p] = current_stock'[p] + IF TraitsOf(s)'.onHand THEN 0 ELSE 0
    BY <1>2, <1>3, <1>6 DEF Tables
  <2> QED BY <1>8, <2>1, <2>3, <2>4, <2>5, <2>6, <2>7 DEF Tallied
<1>17. ASSUME NEW t \in Sessions, Busy(t)'
       PROVE  Protected(t)' /\ Tallied(t)'
  <2>1. CASE t = s
    BY <1>15, <1>16, <2>1
  <2>2. CASE t # s
    <3>1. Busy(t) /\ Protected(t) /\ Tallied(t)
      BY <1>3, <1>13, <1>17, <2>2
    <3>2. session'[t] = session[t] /\ status'[session[t].doc] = status[session[t].doc]
      BY <1>2, <1>8, <2>2
    <3>3. \A x \in Lockable : row_lock[x] = t => row_lock'[x] = t
      BY <1>2, <1>9, <1>10
    <3>4. Locking(session[t].handler)
      BY <1>14, <3>1
    <3>5. \A p \in DOMAIN session[t].orm \cap Products : current_stock'[p] = current_stock[p]
      BY <1>2
    <3> QED BY <3>1, <3>2, <3>3, <3>4, <3>5, OthersKeep
  <2> QED BY <2>1, <2>2
<1>18. RowsTell' /\ OnHandIsLedger' /\ PostedOnce'
  BY <1>2, TablesKeep
<1> QED BY <1>11, <1>17, <1>18 DEF SInv

\* What the rows of a request say of a product that it has not read is nothing, and what
\* they say of the others is an integer.
LEMMA PendingTyped ==
    ASSUME NEW s \in Sessions, Written(s, session[s].flushed), Written(s, session[s].added), NEW p
    PROVE  /\ Moved(session[s].flushed, p) \in Int /\ Moved(session[s].added, p) \in Int
           /\ Pending(s, p) \in Int
           /\ p \notin DOMAIN session[s].orm => Pending(s, p) = 0
           /\ TraitsOf(s).onHand /\ p \notin session[s].touched => Pending(s, p) = 0
<1>1. \A r \in Entries : r.quantity \in Int
  BY DEF Entries
<1>2. ASSUME NEW rows, Written(s, rows)
      PROVE  /\ Moved(rows, p) \in Int
             /\ p \notin DOMAIN session[s].orm => Moved(rows, p) = 0
             /\ TraitsOf(s).onHand /\ p \notin session[s].touched => Moved(rows, p) = 0
  <2>1. rows \in Seq(Entries)
    BY <1>2 DEF Written
  <2>2. Moved(rows, p) \in Int
    BY <1>1, <2>1, MovedConcat
  <2>3. OfProduct(rows, p) = {} => Moved(rows, p) = 0
    BY SumEmpty DEF Moved, Total
  <2>4. p \notin DOMAIN session[s].orm => OfProduct(rows, p) = {}
    BY <1>2 DEF Written, OfProduct
  <2>5. TraitsOf(s).onHand /\ p \notin session[s].touched => OfProduct(rows, p) = {}
    BY <1>2 DEF Written, OfProduct
  <2> QED BY <2>2, <2>3, <2>4, <2>5
<1>3. /\ Moved(session[s].flushed, p) \in Int /\ Moved(session[s].added, p) \in Int
      /\ p \notin DOMAIN session[s].orm =>
             Moved(session[s].flushed, p) = 0 /\ Moved(session[s].added, p) = 0
      /\ TraitsOf(s).onHand /\ p \notin session[s].touched =>
             Moved(session[s].flushed, p) = 0 /\ Moved(session[s].added, p) = 0
  BY <1>2
<1> QED BY <1>3 DEF Pending

\* Rows at a place come to an integer, and so does the balance that a row carries.
LEMMA BalanceTyped ==
    ASSUME Tables, NEW s \in Sessions, Written(s, session[s].flushed), NEW item \in Items, NEW w,
           NEW after \in Int
    PROVE  BalanceAfter(s, item, w, after) \in Int
<1>1. \A r \in Entries : r.quantity \in Int
  BY DEF Entries
<1>2. ASSUME NEW rows \in Seq(Entries), NEW p PROVE StockAt(rows, p, w) \in Int
  <2>1. {i \in DOMAIN rows : rows[i].product = p /\ rows[i].warehouse = w} \in SUBSET DOMAIN rows
    OBVIOUS
  <2> QED BY <1>1, <2>1, TotalTyped DEF StockAt
<1>3. VisibleAt(s, item.product, w) \in Int
  BY <1>2 DEF VisibleAt, Tables, Written
<1>4. item.quantity \in Int
  BY DEF Items
<1> QED BY <1>3, <1>4 DEF BalanceAfter

\* A movement: the product is locked, read and changed in the session alone.
LEMMA MoveKeeps ==
    ASSUME SInv, NEW s \in Sessions, Move(s)
    PROVE  SInv'
<1> DEFINE h == TraitsOf(s)
<1>1. PICK q : q = session[s]
  OBVIOUS
<1>2. PICK item, p, w : item = Head(q.todo) /\ p = item.product /\ w = PlaceOf(s, item)
  OBVIOUS
<1>3. PICK after : after = IF h.onHand THEN OnHand(s, p) + item.quantity ELSE OnHand(s, p)
  OBVIOUS
<1>4. PICK row : row = [product |-> p, doc |-> q.doc, warehouse |-> w, reversal |-> ~h.posts,
                        quantity |-> item.quantity, balance |-> BalanceAfter(s, item, w, after)]
  OBVIOUS
<1>5. /\ Busy(s) /\ q.todo # <<>> /\ (h.locksProduct => CanLock(s, p))
      /\ row_lock' = IF h.locksProduct THEN [row_lock EXCEPT ![p] = s] ELSE row_lock
      /\ UNCHANGED <<current_stock, stock_ledger, status, default_warehouse>>
  BY <1>1, <1>2 DEF Move
<1>6. session' = [session EXCEPT
                     ![s].todo = Tail(@),
                     ![s].orm = Loaded(@, p, after),
                     ![s].touched = IF h.onHand THEN @ \cup {p} ELSE @,
                     ![s].flushed = IF h.flushes THEN Append(@, row) ELSE @,
                     ![s].added = IF h.flushes THEN @ ELSE Append(@, row)]
  BY <1>1, <1>2, <1>3, <1>4 DEF Move
<1>7. Tables /\ Protected(s) /\ Tallied(s) /\ \A t \in Sessions : Busy(t) => Protected(t) /\ Tallied(t)
  BY <1>5 DEF SInv
<1>8. PICK orm, flushed, added, touched :
          /\ orm = Loaded(q.orm, p, after)
          /\ touched = IF h.onHand THEN q.touched \cup {p} ELSE q.touched
          /\ flushed = IF h.flushes THEN Append(q.flushed, row) ELSE q.flushed
          /\ added = IF h.flushes THEN q.added ELSE Append(q.added, row)
  OBVIOUS
<1>9. /\ DOMAIN session' = Sessions /\ DOMAIN session'[s] = DOMAIN Idle
      /\ session'[s].handler = q.handler /\ session'[s].doc = q.doc /\ session'[s].todo = Tail(q.todo)
      /\ session'[s].orm = orm /\ session'[s].touched = touched
      /\ session'[s].flushed = flushed /\ session'[s].added = added
      /\ \A t \in Sessions \ {s} : session'[t] = session[t]
  <2>1. DOMAIN session = Sessions /\ DOMAIN q = DOMAIN Idle
    BY <1>1, <1>7 DEF Tables
  <2>2. {"handler", "doc", "todo", "orm", "touched", "flushed", "added"} = DOMAIN Idle
    BY DEF Idle
  <2> HIDE DEF h
  <2> QED BY <1>1, <1>6, <1>8, <2>1, <2>2
<1>10. item \in Items /\ Tail(q.todo) \in Seq(Items) /\ item.product = p /\ item.quantity \in Int
       /\ p \in Products
  <2>1. q.todo \in Seq(Items)
    BY <1>1, <1>7 DEF Tallied
  <2>2. item \in Items /\ Tail(q.todo) \in Seq(Items)
    BY <1>2, <1>5, <2>1
  <2> QED BY <1>2, <2>2 DEF Items
<1>11. /\ h.onHand \in BOOLEAN /\ h.posts \in BOOLEAN /\ h.flushes \in BOOLEAN
       /\ h.locksProduct \in BOOLEAN
  BY <1>7, HandlerFacts DEF Protected, TraitsOf
<1>12. /\ DOMAIN orm = DOMAIN q.orm \cup {p} /\ orm[p] = after
       /\ \A x \in DOMAIN q.orm : x # p => orm[x] = q.orm[x]
  BY <1>8 DEF Loaded
<1>13. p \in Lockable /\ s # Nobody /\ Nobody \notin Sessions
  BY <1>10, WorkflowAssumption DEF Lockable
<1>14. /\ row_lock' \in [Lockable -> Sessions \cup {Nobody}]
       /\ \A x \in Lockable : row_lock[x] \notin {Nobody, s} => row_lock'[x] = row_lock[x]
       /\ \A x \in Lockable : row_lock[x] = s => row_lock'[x] = s
       /\ h.locksProduct => row_lock'[p] = s
  BY <1>5, <1>7, <1>11, <1>13 DEF Tables, CanLock
<1>15. Tables'
  <2>1. \A t \in Sessions : DOMAIN session'[t] = DOMAIN Idle
    BY <1>7, <1>9 DEF Tables
  <2> QED BY <1>5, <1>7, <1>9, <1>14, <2>1 DEF Tables
<1>16. TraitsOf(s)' = h /\ \A t \in Sessions : Busy(t)' = Busy(t)
  <2>1. \A t \in Sessions : session'[t].handler = session[t].handler
    BY <1>1, <1>9
  <2> QED BY <2>1 DEF TraitsOf, Busy
<1>17. Protected(s)'
  <2>1. /\ q.doc \in Docs /\ q.doc \in Lockable /\ q.handler \in Workflow[TypeOf[q.doc]]
        /\ status'[q.doc] = IF h.posts THEN "DRAFT" ELSE "POSTED"
    BY <1>1, <1>5, <1>7 DEF Protected, Lockable
  <2>2. h.locksDocument => row_lock'[q.doc] = s
    BY <1>1, <1>7, <1>14, <2>1 DEF Protected
  <2>3. Locking(q.handler) \/ \A t \in Sessions \ {s} : ~Busy(t)'
    BY <1>1, <1>7, <1>16 DEF Protected
  <2>4. Locking(q.handler) => \A x \in DOMAIN orm \cap Products : row_lock'[x] = s
    <3>1. Locking(q.handler) => h.locksProduct
      BY <1>1 DEF Locking, TraitsOf
    <3>2. Locking(q.handler) => \A x \in DOMAIN q.orm \cap Products : row_lock[x] = s
      BY <1>1, <1>7 DEF Protected
    <3> QED BY <1>12, <1>14, <3>1, <3>2 DEF Lockable
  <2> QED BY <1>9, <1>16, <2>1, <2>2, <2>3, <2>4 DEF Protected
<1>18. /\ \A x : Moved(q.flushed, x) \in Int /\ Moved(q.added, x) \in Int /\ Pending(s, x) \in Int
       /\ \A x : Pending(s, x) = Moved(q.flushed, x) + Moved(q.added, x)
       /\ \A x : x \notin DOMAIN q.orm => Pending(s, x) = 0
  BY <1>1, <1>7, PendingTyped DEF Tallied, Pending
<1>19. OnHand(s, p) \in Int
       /\ OnHand(s, p) = current_stock[p] + IF h.onHand THEN Pending(s, p) ELSE 0
  <2>1. current_stock[p] \in Int
    BY <1>7, <1>10 DEF Tables
  <2>2. CASE p \in DOMAIN q.orm
    <3>1. OnHand(s, p) = q.orm[p]
      BY <1>1, <2>2 DEF OnHand
    <3>2. q.orm[p] = current_stock[p] + IF h.onHand THEN Pending(s, p) ELSE 0
      BY <1>1, <1>7, <1>10, <2>2 DEF Tallied
    <3> QED BY <1>18, <2>1, <3>1, <3>2
  <2>3. CASE p \notin DOMAIN q.orm
    <3>1. OnHand(s, p) = current_stock[p] /\ Pending(s, p) = 0
      BY <1>1, <1>18, <2>3 DEF OnHand
    <3> QED BY <2>1, <3>1
  <2> QED BY <2>2, <2>3
<1>20. row \in Entries /\ row.product = p /\ row.quantity = item.quantity /\ row.doc = q.doc
       /\ row.reversal = ~h.posts
  <2>1. after \in Int
    BY <1>3, <1>10, <1>19
  <2>2. w \in Places /\ BalanceAfter(s, item, w, after) \in Int
    BY <1>1, <1>2, <1>7, <1>10, <2>1, PlaceTyped, BalanceTyped DEF Tallied
  <2>3. q.doc \in Docs
    BY <1>1, <1>7 DEF Protected
  <2> HIDE DEF h
  <2> QED BY <1>4, <1>10, <1>11, <2>2, <2>3 DEF Entries
<1>21. /\ q.flushed \in Seq(Entries) /\ q.added \in Seq(Entries)
       /\ flushed \in Seq(Entries) /\ added \in Seq(Entries)
  BY <1>1, <1>7, <1>8, <1>20 DEF Tallied, Written
<1>22. \A x : /\ Moved(flushed, x) \in Int /\ Moved(added, x) \in Int
              /\ Moved(flushed, x) + Moved(added, x)
                     = Pending(s, x) + IF x = p THEN item.quantity ELSE 0
  <2>1. \A r \in Entries : r.quantity \in Int
    BY DEF Entries
  <2>2. ASSUME NEW x PROVE /\ Moved(flushed, x) \in Int /\ Moved(added, x) \in Int
                           /\ Moved(flushed, x) + Moved(added, x)
                                  = Pending(s, x) + IF x = p THEN item.quantity ELSE 0
    <3>1. Moved(flushed, x) \in Int /\ Moved(added, x) \in Int
      BY <1>21, <2>1, MovedConcat
    <3>2. CASE h.flushes
      <4>1. Moved(Append(q.flushed, row), x)
                = Moved(q.flushed, x) + IF row.product = x THEN row.quantity ELSE 0
        BY <1>20, <1>21, <2>1, MovedAppend, SMTT(30)
      <4>2. flushed = Append(q.flushed, row) /\ added = q.added
        BY <1>8, <3>2
      <4> QED BY <1>10, <1>18, <1>20, <3>1, <4>1, <4>2
    <3>3. CASE ~h.flushes
      <4>1. Moved(Append(q.added, row), x)
                = Moved(q.added, x) + IF row.product = x THEN row.quantity ELSE 0
        BY <1>20, <1>21, <2>1, MovedAppend
      <4>2. flushed = q.flushed /\ added = Append(q.added, row)
        BY <1>8, <3>3
      <4> QED BY <1>10, <1>18, <1>20, <3>1, <4>1, <4>2
    <3> QED BY <3>1, <3>2, <3>3
  <2> QED BY <2>2
<1>23. \A x : Pending(s, x)' = Pending(s, x) + IF x = p THEN item.quantity ELSE 0
  BY <1>9, <1>22 DEF Pending
<1>24. Tallied(s)'
  <2>1. /\ q.touched \subseteq Products \cap DOMAIN q.orm /\ (~h.onHand => q.touched = {})
    BY <1>1, <1>7 DEF Tallied
  <2>2. touched \subseteq Products \cap DOMAIN orm /\ (~h.onHand => touched = {})
        /\ q.touched \subseteq touched /\ (h.onHand => p \in touched)
    BY <1>8, <1>10, <1>12, <2>1
  <2>3. ASSUME NEW rows, Written(s, rows),
               NEW more, more = rows \/ more = Append(rows, row), more \in Seq(Entries)
        PROVE  Written(s, more)'
    <3>1. /\ rows \in Seq(Entries)
          /\ \A i \in DOMAIN rows : /\ rows[i].doc = q.doc /\ rows[i].reversal = ~h.posts
                                    /\ rows[i].product \in DOMAIN q.orm
                                    /\ h.onHand => rows[i].product \in q.touched
      BY <1>1, <2>3 DEF Written
    <3>2. \A i \in DOMAIN more : more[i] = row \/ (i \in DOMAIN rows /\ more[i] = rows[i])
      BY <2>3, <3>1
    <3>3. \A i \in DOMAIN more : /\ more[i].doc = q.doc /\ more[i].reversal = ~h.posts
                                 /\ more[i].product \in DOMAIN orm
                                 /\ h.onHand => more[i].product \in touched
      <4> HIDE DEF h
      <4> QED BY <1>12, <1>20, <2>2, <3>1, <3>2
    <3> HIDE DEF h
    <3> QED BY <1>9, <1>16, <2>3, <3>3 DEF Written
  <2>4. Written(s, flushed)' /\ Written(s, added)'
    <3>1. Written(s, q.flushed) /\ Written(s, q.added)
      BY <1>1, <1>7 DEF Tallied
    <3>2. flushed = q.flushed \/ flushed = Append(q.flushed, row)
      BY <1>8
    <3>3. added = q.added \/ added = Append(q.added, row)
      BY <1>8
    <3> QED BY <1>21, <2>3, <3>1, <3>2, <3>3
  <2>5. Written(s, session[s].flushed)' /\ Written(s, session[s].added)'
    BY <1>9, <2>4 DEF Written
  <2>6. ASSUME NEW x \in Products
        PROVE  Pending(s, x)' + Moved(Tail(q.todo), x) = Goal(q.handler, q.doc, x)
    <3>1. Pending(s, x) + Moved(q.todo, x) = Goal(q.handler, q.doc, x) /\ q.todo \in Seq(Items)
      BY <1>1, <1>7 DEF Tallied
    <3>2. \A r \in Items : r.quantity \in Int
      BY DEF Items
    <3>3. /\ Moved(q.todo, x) = Moved(Tail(q.todo), x)
                                    + IF Head(q.todo).product = x THEN Head(q.todo).quantity ELSE 0
          /\ Moved(Tail(q.todo), x) \in Int
      BY <1>5, <3>1, <3>2, MovedTail
    <3>4. Pending(s, x)' = Pending(s, x) + IF x = p THEN item.quantity ELSE 0
      BY <1>23
    <3> QED BY <1>2, <1>10, <1>18, <3>1, <3>3, <3>4
  <2>7. ASSUME NEW x \in DOMAIN orm \cap Products
        PROVE  orm[x] = current_stock'[x] + IF h.onHand THEN Pending(s, x)' ELSE 0
    <3>1. current_stock[x] \in Int /\ current_stock' = current_stock
      BY <1>5, <1>7 DEF Tables
    <3>2. Pending(s, x)' = Pending(s, x) + IF x = p THEN item.quantity ELSE 0
      BY <1>23
    <3>3. CASE x = p
      <4>1. orm[x] = after
        BY <1>12, <3>3
      <4>2. Pending(s, x) \in Int /\ item.quantity \in Int
        BY <1>10, <1>18
      <4>3. OnHand(s, x) = current_stock[x] + IF h.onHand THEN Pending(s, x) ELSE 0
        BY <1>19, <3>3
      <4>4. Pending(s, x)' = Pending(s, x) + item.quantity
        BY <3>2, <3>3
      <4>5. after = IF h.onHand THEN OnHand(s, x) + item.quantity ELSE OnHand(s, x)
        BY <1>3, <3>3
      <4> HIDE DEF h
      <4>6. CASE h.onHand
        BY <3>1, <4>1, <4>2, <4>3, <4>4, <4>5, <4>6
      <4>7. CASE ~h.onHand
        BY <3>1, <4>1, <4>2, <4>3, <4>4, <4>5, <4>7
      <4> QED BY <4>6, <4>7
    <3>4. CASE x # p
      <4>1. x \in DOMAIN q.orm /\ orm[x] = q.orm[x]
        BY <1>12, <3>4
      <4>2. q.orm[x] = current_stock[x] + IF h.onHand THEN Pending(s, x) ELSE 0
        BY <1>1, <1>7, <4>1 DEF Tallied
      <4> HIDE DEF h
      <4> QED BY <1>18, <3>1, <3>2, <3>4, <4>1, <4>2
    <3> QED BY <3>3, <3>4
  <2> HIDE DEF h
  <2> QED BY <1>9, <1>10, <1>16, <2>2, <2>5, <2>6, <2>7 DEF Tallied
<1>25. ASSUME NEW t \in Sessions, Busy(t)'
       PROVE  Protected(t)' /\ Tallied(t)'
  <2>1. CASE t = s
    BY <1>17, <1>24, <2>1
  <2>2. CASE t # s
    <3>1. Busy(t) /\ Protected(t) /\ Tallied(t)
      BY <1>7, <1>16, <1>25
    <3>2. session'[t] = session[t] /\ status'[session[t].doc] = status[session[t].doc]
      BY <1>5, <1>9, <2>2
    <3>3. \A x \in Lockable : row_lock[x] = t => row_lock'[x] = t
      BY <1>13, <1>14, <2>2
    <3>4. Locking(session[t].handler) \/ \A u \in Sessions \ {t} : ~Busy(u)'
      BY <1>16, <3>1 DEF Protected
    <3>5. \A x \in DOMAIN session[t].orm \cap Products : current_stock'[x] = current_stock[x]
      BY <1>5
    <3> QED BY <3>1, <3>2, <3>3, <3>4, <3>5, OthersKeep
  <2> QED BY <2>1, <2>2
<1>26. RowsTell' /\ OnHandIsLedger' /\ PostedOnce'
  BY <1>5, TablesKeep
<1> QED BY <1>15, <1>25, <1>26 DEF SInv

\* The rows of a request are all of its own document.
LEMMA OneDocument ==
    ASSUME NEW s \in Sessions, NEW rows, Written(s, rows), NEW d, NEW p
    PROVE  MovedBy(rows, d, p) = IF d = session[s].doc THEN Moved(rows, p) ELSE 0
<1>1. CASE d = session[s].doc
  <2>1. OfDocument(rows, d) \cap OfProduct(rows, p) = OfProduct(rows, p)
    BY <1>1 DEF Written, OfDocument, OfProduct
  <2> QED BY <1>1, <2>1 DEF MovedBy, Moved
<1>2. CASE d # session[s].doc
  <2>1. OfDocument(rows, d) \cap OfProduct(rows, p) = {}
    BY <1>2 DEF Written, OfDocument, OfProduct
  <2> QED BY <1>2, <2>1, SumEmpty DEF MovedBy, Total
<1> QED BY <1>1, <1>2

\* The commit: the quantities that the request read and changed, its rows, the status.
LEMMA CommitKeeps ==
    ASSUME SInv, NEW s \in Sessions, Commit(s)
    PROVE  SInv'
<1> DEFINE h == TraitsOf(s)
<1>1. PICK q : q = session[s]
  OBVIOUS
<1>2. /\ Busy(s) /\ q.todo = <<>>
      /\ current_stock' = [p \in Products |->
             IF p \in q.touched THEN q.orm[p] ELSE current_stock[p]]
      /\ stock_ledger' = stock_ledger \o q.flushed \o q.added
      /\ status' = [status EXCEPT ![q.doc] = IF h.posts THEN "POSTED" ELSE "CANCELLED"]
      /\ row_lock' = [x \in Lockable |-> IF row_lock[x] = s THEN Nobody ELSE row_lock[x]]
      /\ session' = [session EXCEPT ![s] = Idle]
      /\ UNCHANGED default_warehouse
  BY <1>1 DEF Commit, Released
<1>3. Tables /\ Protected(s) /\ Tallied(s) /\ \A t \in Sessions : Busy(t) => Protected(t) /\ Tallied(t)
  BY <1>2 DEF SInv
<1>4. /\ q.doc \in Docs /\ q.handler \in Workflow[TypeOf[q.doc]]
      /\ status[q.doc] = (IF h.posts THEN "DRAFT" ELSE "POSTED")
      /\ h.onHand \in BOOLEAN /\ h.posts \in BOOLEAN
  <2>1. q.doc \in Docs /\ q.handler \in Workflow[TypeOf[q.doc]]
        /\ status[q.doc] = (IF h.posts THEN "DRAFT" ELSE "POSTED")
    BY <1>1, <1>3 DEF Protected
  <2>2. h = Handler[q.handler]
    BY <1>1 DEF TraitsOf
  <2> QED BY <2>1, <2>2, HandlerFacts
<1>5. /\ Written(s, q.flushed) /\ Written(s, q.added)
      /\ q.flushed \in Seq(Entries) /\ q.added \in Seq(Entries) /\ stock_ledger \in Seq(Entries)
      /\ q.touched \subseteq Products \cap DOMAIN q.orm /\ (~h.onHand => q.touched = {})
  BY <1>1, <1>3 DEF Tallied, Written, Tables
<1>6. /\ \A x : Moved(q.flushed, x) \in Int /\ Moved(q.added, x) \in Int /\ Pending(s, x) \in Int
      /\ \A x : Pending(s, x) = Moved(q.flushed, x) + Moved(q.added, x)
      /\ \A x : h.onHand /\ x \notin q.touched => Pending(s, x) = 0
  BY <1>1, <1>5, PendingTyped DEF Pending
<1>7. \A x \in Products : Pending(s, x) = Goal(q.handler, q.doc, x)
  <2>1. \A x \in Products : Pending(s, x) + Moved(q.todo, x) = Goal(q.handler, q.doc, x)
    BY <1>1, <1>3 DEF Tallied
  <2>2. \A x \in Products : Pending(s, x) + 0 = Goal(q.handler, q.doc, x)
    BY <1>2, <2>1, MovedNothing
  <2> QED BY <1>6, <2>2
<1>8. \A x \in Products : current_stock[x] \in Int
  BY <1>3 DEF Tables
<1>9. ASSUME NEW x \in Products
      PROVE  current_stock'[x] = current_stock[x] + Pending(s, x)
  <2>1. CASE x \in q.touched
    <3>1. h.onHand
      BY <1>5, <2>1
    <3>2. q.orm[x] = current_stock[x] + IF h.onHand THEN Pending(s, x) ELSE 0
      BY <1>1, <1>3, <1>5, <2>1 DEF Tallied
    <3> QED BY <1>2, <2>1, <3>1, <3>2
  <2>2. CASE x \notin q.touched
    <3>1. Pending(s, x) = 0
      <4>1. CASE h.onHand
        BY <1>6, <2>2, <4>1
      <4>2. CASE ~h.onHand
        <5>1. Handler[q.handler].source = "legs"
          BY <1>1, <1>4, <4>2, HandlerFacts DEF TraitsOf
        <5>2. Goal(q.handler, q.doc, x) = 0
          BY <1>4, <5>1, GoalOfHandler DEF Fits
        <5> QED BY <1>7, <5>2
      <4> QED BY <4>1, <4>2
    <3> QED BY <1>2, <1>8, <2>2, <3>1
  <2> QED BY <2>1, <2>2
<1>10. \A r \in Entries : r.quantity \in Int
  BY DEF Entries
<1>11. PICK both : both = stock_ledger \o q.flushed
  OBVIOUS
<1>12. both \in Seq(Entries) /\ stock_ledger' = both \o q.added /\ stock_ledger' \in Seq(Entries)
  BY <1>2, <1>5, <1>11
<1>13. ASSUME NEW x
       PROVE  /\ Moved(stock_ledger', x) = Moved(stock_ledger, x) + Pending(s, x)
              /\ Moved(stock_ledger, x) \in Int
              /\ \A d : /\ MovedBy(stock_ledger', d, x)
                               = MovedBy(stock_ledger, d, x)
                                     + IF d = q.doc THEN Pending(s, x) ELSE 0
                        /\ MovedBy(stock_ledger, d, x) \in Int
  <2>1. /\ Moved(both, x) = Moved(stock_ledger, x) + Moved(q.flushed, x)
        /\ Moved(stock_ledger, x) \in Int
        /\ \A d : MovedBy(both, d, x) = MovedBy(stock_ledger, d, x) + MovedBy(q.flushed, d, x)
        /\ \A d : MovedBy(stock_ledger, d, x) \in Int
    BY <1>5, <1>11, EntriesConcat
  <2>2. /\ Moved(both \o q.added, x) = Moved(both, x) + Moved(q.added, x)
        /\ \A d : MovedBy(both \o q.added, d, x) = MovedBy(both, d, x) + MovedBy(q.added, d, x)
    BY <1>5, <1>12, EntriesConcat
  <2>3. /\ \A d : MovedBy(q.flushed, d, x) = IF d = q.doc THEN Moved(q.flushed, x) ELSE 0
        /\ \A d : MovedBy(q.added, d, x) = IF d = q.doc THEN Moved(q.added, x) ELSE 0
    BY <1>1, <1>5, OneDocument
  <2>4. Moved(stock_ledger', x) = Moved(stock_ledger, x) + Pending(s, x)
    BY <1>6, <1>12, <2>1, <2>2
  <2>5. ASSUME NEW d
        PROVE  MovedBy(stock_ledger', d, x)
                   = MovedBy(stock_ledger, d, x) + IF d = q.doc THEN Pending(s, x) ELSE 0
    <3>1. MovedBy(stock_ledger', d, x)
              = MovedBy(stock_ledger, d, x) + MovedBy(q.flushed, d, x) + MovedBy(q.added, d, x)
      BY <1>12, <2>1, <2>2
    <3> QED BY <1>6, <2>1, <2>3, <3>1
  <2> QED BY <2>1, <2>4, <2>5
<1>14. OnHandIsLedger'
  <2>1. ASSUME NEW x \in Products PROVE current_stock'[x] = Moved(stock_ledger', x)
    <3>1. current_stock[x] = Moved(stock_ledger, x)
      BY DEF SInv, OnHandIsLedger, Moved
    <3> QED BY <1>9, <1>13, <3>1
  <2> QED BY <2>1 DEF OnHandIsLedger, Moved
<1>15. status' \in [Docs -> {"ABSENT", "DRAFT", "POSTED", "CANCELLED"}]
       /\ status'[q.doc] = (IF h.posts THEN "POSTED" ELSE "CANCELLED")
       /\ \A d \in Docs : d # q.doc => status'[d] = status[d]
  BY <1>2, <1>3, <1>4 DEF Tables
<1>16. PostedOnce'
  <2>1. ASSUME NEW d \in Docs, NEW x \in Products
        PROVE  MovedBy(stock_ledger', d, x) = IF status'[d] = "POSTED" THEN Due(d, x) ELSE 0
    <3>1. MovedBy(stock_ledger, d, x) = IF status[d] = "POSTED" THEN Due(d, x) ELSE 0
      BY DEF SInv, PostedOnce, MovedBy
    <3>2. /\ MovedBy(stock_ledger', d, x)
                 = MovedBy(stock_ledger, d, x) + IF d = q.doc THEN Pending(s, x) ELSE 0
          /\ MovedBy(stock_ledger, d, x) \in Int
      BY <1>13
    <3>3. CASE d # q.doc
      BY <1>15, <3>1, <3>2, <3>3
    <3>4. CASE d = q.doc
      <4>1. Due(d, x) \in Int
        <5>1. Fits(q.handler, d, x)
          BY <1>4, <3>4, GoalOfHandler
        <5> QED BY <5>1 DEF Fits
      <4>2. Pending(s, x) = IF h.posts THEN Due(d, x) ELSE -Due(d, x)
        BY <1>1, <1>7, <3>4 DEF Goal, TraitsOf
      <4> HIDE DEF h
      <4> QED BY <1>4, <1>15, <3>1, <3>2, <3>4, <4>1, <4>2
    <3> QED BY <3>3, <3>4
  <2> QED BY <2>1 DEF PostedOnce, MovedBy
<1>17. RowsTell'
  <2>1. \A i \in DOMAIN stock_ledger' :
            \/ i \in DOMAIN stock_ledger /\ stock_ledger'[i] = stock_ledger[i]
            \/ stock_ledger'[i].doc = q.doc /\ stock_ledger'[i].reversal = ~h.posts
    <3>1. \A i \in DOMAIN both :
              \/ i \in DOMAIN stock_ledger /\ both[i] = stock_ledger[i]
              \/ \E j \in DOMAIN q.flushed : both[i] = q.flushed[j]
      BY <1>5, <1>11
    <3>2. \A i \in DOMAIN stock_ledger' :
              \/ i \in DOMAIN both /\ stock_ledger'[i] = both[i]
              \/ \E j \in DOMAIN q.added : stock_ledger'[i] = q.added[j]
      BY <1>5, <1>12
    <3>3. /\ \A j \in DOMAIN q.flushed : q.flushed[j].doc = q.doc /\ q.flushed[j].reversal = ~h.posts
          /\ \A j \in DOMAIN q.added : q.added[j].doc = q.doc /\ q.added[j].reversal = ~h.posts
      BY <1>1, <1>5 DEF Written
    <3> HIDE DEF h
    <3> QED BY <3>1, <3>2, <3>3
  <2>2. ASSUME NEW i \in DOMAIN stock_ledger', stock_ledger'[i].doc \in Docs
        PROVE  /\ status'[stock_ledger'[i].doc] \in {"POSTED", "CANCELLED"}
               /\ stock_ledger'[i].reversal => status'[stock_ledger'[i].doc] = "CANCELLED"
    <3>1. CASE i \in DOMAIN stock_ledger /\ stock_ledger'[i] = stock_ledger[i]
      <4>1. PICK d : d = stock_ledger[i].doc
        OBVIOUS
      <4>2. /\ d \in Docs /\ status[d] \in {"POSTED", "CANCELLED"}
            /\ stock_ledger[i].reversal => status[d] = "CANCELLED"
        BY <2>2, <3>1, <4>1 DEF SInv, RowsTell
      <4> HIDE DEF h
      <4> QED BY <1>4, <1>15, <3>1, <4>1, <4>2
    <3>2. CASE stock_ledger'[i].doc = q.doc /\ stock_ledger'[i].reversal = ~h.posts
      BY <1>15, <3>2
    <3> QED BY <2>1, <3>1, <3>2
  <2> QED BY <2>2 DEF RowsTell
<1>18. DOMAIN session = Sessions /\ session'[s] = Idle
       /\ \A t \in Sessions \ {s} : session'[t] = session[t]
  BY <1>2, <1>3 DEF Tables
<1>19. Tables'
  <2>1. row_lock' \in [Lockable -> Sessions \cup {Nobody}]
    BY <1>2, <1>3 DEF Tables
  <2>2. DOMAIN session' = Sessions /\ \A t \in Sessions : DOMAIN session'[t] = DOMAIN Idle
    BY <1>2, <1>3, <1>18 DEF Tables
  <2>3. current_stock' \in [Products -> Int]
    <3>1. \A x \in Products : current_stock'[x] \in Int
      BY <1>6, <1>8, <1>9
    <3> QED BY <1>2, <3>1
  <2>4. default_warehouse' \in Places
    BY <1>2, <1>3 DEF Tables
  <2> QED BY <1>12, <1>15, <2>1, <2>2, <2>3, <2>4 DEF Tables
<1>20. \A u \in Sessions : Busy(u)' => Busy(u) /\ u # s
  BY <1>18 DEF Busy, Idle
<1>21. ASSUME NEW t \in Sessions, Busy(t)'
       PROVE  Protected(t)' /\ Tallied(t)'
  <2>1. t # s /\ Busy(t) /\ Protected(t) /\ Tallied(t)
    BY <1>3, <1>20, <1>21
  <2>2. /\ session[s].doc # session[t].doc
        /\ \A p \in Products : p \in DOMAIN session[s].orm => p \notin DOMAIN session[t].orm
    BY <1>2, <1>3, <2>1, NoRival
  <2>3. session'[t] = session[t]
    BY <1>18, <2>1
  <2>4. status'[session[t].doc] = status[session[t].doc]
    BY <1>1, <1>15, <2>1, <2>2 DEF Protected
  <2>5. \A x \in Lockable : row_lock[x] = t => row_lock'[x] = t
    BY <1>2, <2>1
  <2>6. Locking(session[t].handler) \/ \A u \in Sessions \ {t} : ~Busy(u)'
    BY <1>20, <2>1 DEF Protected
  <2>7. \A p \in DOMAIN session[t].orm \cap Products : current_stock'[p] = current_stock[p]
    BY <1>1, <1>2, <1>5, <2>2
  <2> QED BY <2>1, <2>3, <2>4, <2>5, <2>6, <2>7, OthersKeep
<1> QED BY <1>14, <1>16, <1>17, <1>19, <1>21 DEF SInv

-----------------------------------------------------------------------------
(* The theorems.                                                           *)

\* A finite set has an ordering, and SetToSeq is one.
LEMMA SomeOrder ==
    ASSUME NEW S, IsFiniteSet(S)
    PROVE  SetToSeq(S) \in SetToSeqs(S)
<1>1. PICK n \in Nat : n = Cardinality(S) /\ ExistsBijection(1 .. n, S)
  BY FS_CardinalityType
<1>2. \E f \in [1 .. n -> S] : IsInjective(f)
  BY <1>1 DEF ExistsBijection, Bijection, Injection
<1>3. SetToSeq(S) \in [1 .. n -> S] /\ IsInjective(SetToSeq(S))
  BY <1>1, <1>2 DEF SetToSeq
<1> QED BY <1>1, <1>3 DEF SetToSeqs, IsInjective

\* The first rows are the opening quantities, one for each product that has one.
LEMMA OpeningRows ==
    ASSUME NEW S \in SUBSET Products, \A p \in Products : p \in S <=> Opening[p] > 0,
           NEW stocked \in SetToSeqs(S), NEW ledger, ledger = [i \in DOMAIN stocked |-> ledger[i]],
           \A i \in DOMAIN stocked : /\ ledger[i] \in Entries /\ ledger[i].product = stocked[i]
                                      /\ ledger[i].quantity = Opening[stocked[i]]
    PROVE  /\ ledger \in Seq(Entries) /\ \A p \in Products : Moved(ledger, p) = Opening[p]
<1>1. IsFiniteSet(S) /\ Opening \in [Products -> Nat]
  <2>1. IsFiniteSet(Products) /\ Opening \in [Products -> Nat]
    BY WorkflowAssumption
  <2> QED BY <2>1, FS_Subset
<1>2. PICK n \in Nat : /\ DOMAIN stocked = 1 .. n
                       /\ \A i \in 1 .. n : stocked[i] \in S
                       /\ \A i, j \in 1 .. n : stocked[i] = stocked[j] => i = j
                       /\ \A x \in S : \E i \in 1 .. n : stocked[i] = x
  <2>1. IsFiniteSet(S) /\ stocked \in SetToSeqs(S)
    BY <1>1
  <2> QED BY ONLY <2>1, OrderTakesAll
<1>3. DOMAIN ledger = 1 .. n /\ \A i \in 1 .. n : ledger[i] \in Entries /\ ledger[i].product = stocked[i]
  <2>1. DOMAIN ledger = DOMAIN stocked
    OBVIOUS
  <2> QED BY <1>2, <2>1
<1>4. ledger \in Seq(Entries)
  <2>1. ledger \in [1 .. n -> Entries]
    BY <1>2, <1>3
  <2> QED BY <2>1
<1>5. ASSUME NEW p \in Products PROVE Moved(ledger, p) = Opening[p]
  <2>1. CASE p \in S
    <3>1. PICK k \in 1 .. n : stocked[k] = p
      BY <1>2, <2>1
    <3>2. \A i \in 1 .. n : ledger[i].product = p <=> i = k
      BY <1>2, <1>3, <3>1
    <3>3. OfProduct(ledger, p) = {k}
      BY <1>3, <3>2 DEF OfProduct
    <3> DEFINE f == [i \in {k} |-> ledger[i].quantity]
    <3>4. f[k] = Opening[p] /\ f[k] \in Int
      BY <1>1, <1>2, <3>1
    <3>5. Moved(ledger, p) = SumFunctionOnSet(f, {k})
      BY <3>3 DEF Moved, Total
    <3> HIDE DEF f
    <3>6. SumFunctionOnSet(f, {k}) = f[k]
      BY <3>4, SumSingle
    <3> QED BY <3>4, <3>5, <3>6
  <2>2. CASE p \notin S
    <3>1. \A i \in 1 .. n : ledger[i].product # p
      BY <1>2, <1>3, <2>2
    <3>2. OfProduct(ledger, p) = {}
      BY <1>3, <3>1 DEF OfProduct
    <3>3. Opening[p] = 0
      BY <1>1, <2>2
    <3>4. \A f : SumFunctionOnSet(f, {}) = 0
      BY SumEmpty
    <3> QED BY <3>2, <3>3, <3>4 DEF Moved, Total
  <2> QED BY <2>1, <2>2
<1> QED BY <1>4, <1>5

\* The company opens with its opening stock, drafts, and no request in flight.
LEMMA InitSInv == Init => SInv
<1>1. SUFFICES ASSUME Init PROVE SInv
  OBVIOUS
<1>2. /\ default_warehouse \in Places /\ current_stock = Opening /\ Opening \in [Products -> Nat]
      /\ row_lock = [x \in Lockable |-> Nobody] /\ session = [s \in Sessions |-> Idle]
  <2>1. /\ default_warehouse \in Defaults /\ current_stock = Opening
        /\ row_lock = [x \in Lockable |-> Nobody] /\ session = [s \in Sessions |-> Idle]
    BY <1>1 DEF Init
  <2> QED BY <2>1, WorkflowAssumption
<1>3. PICK scenario : status = [d \in Docs |-> IF d \in scenario THEN "DRAFT" ELSE "ABSENT"]
  BY <1>1 DEF Init
<1>4. /\ stock_ledger \in Seq(Entries)
      /\ \A i \in DOMAIN stock_ledger : stock_ledger[i].doc = Nobody
      /\ \A p \in Products : Moved(stock_ledger, p) = Opening[p]
  <2>1. PICK S, stocked : S = {p \in Products : Opening[p] > 0} /\ stocked = SetToSeq(S)
    OBVIOUS
  <2>2. stock_ledger = [i \in DOMAIN stocked |-> OpeningRow(stocked[i])]
    BY <1>1, <2>1 DEF Init
  <2>3. S \in SUBSET Products /\ (\A p \in Products : p \in S <=> Opening[p] > 0)
    BY <2>1
  <2>4. IsFiniteSet(S)
    BY <2>3, WorkflowAssumption, FS_Subset
  <2>5. stocked \in SetToSeqs(S)
    BY <2>1, <2>4, SomeOrder
  <2>6. \A i \in DOMAIN stocked : stocked[i] \in Products
    BY <2>3, <2>5 DEF SetToSeqs
  <2>7. \A p \in Products : /\ OpeningRow(p) \in Entries /\ OpeningRow(p).doc = Nobody
                             /\ OpeningRow(p).product = p /\ OpeningRow(p).quantity = Opening[p]
    <3>1. \A p \in Products : Opening[p] \in Int
      BY <1>2
    <3> QED BY <1>2, <3>1 DEF OpeningRow, Entries
  <2>8. PICK ledger : ledger = stock_ledger
    OBVIOUS
  <2>9. /\ ledger = [i \in DOMAIN stocked |-> ledger[i]] /\ DOMAIN ledger = DOMAIN stocked
        /\ \A i \in DOMAIN stocked : ledger[i] = OpeningRow(stocked[i])
    BY <2>2, <2>8
  <2>10. \A i \in DOMAIN stocked : /\ ledger[i] \in Entries /\ ledger[i].product = stocked[i]
                                    /\ ledger[i].quantity = Opening[stocked[i]]
    BY <2>6, <2>7, <2>9
  <2>11. ledger \in Seq(Entries) /\ \A p \in Products : Moved(ledger, p) = Opening[p]
    BY <2>3, <2>5, <2>9, <2>10, OpeningRows
  <2>12. \A i \in DOMAIN ledger : ledger[i].doc = Nobody
    BY <2>6, <2>7, <2>9
  <2> QED BY <2>8, <2>11, <2>12
<1>5. Nobody \notin Docs
  BY WorkflowAssumption
<1>6. Tables
  <2>1. \A s \in Sessions : session[s] = Idle
    BY <1>2
  <2> QED BY <1>2, <1>3, <1>4, <2>1 DEF Tables
<1>7. RowsTell
  BY <1>4, <1>5 DEF RowsTell
<1>8. \A s \in Sessions : ~Busy(s)
  BY <1>2 DEF Busy, Idle
<1>9. OnHandIsLedger
  BY <1>2, <1>4 DEF OnHandIsLedger, Moved
<1>10. PostedOnce
  <2>1. ASSUME NEW d \in Docs, NEW p \in Products
        PROVE  Total(stock_ledger, OfDocument(stock_ledger, d) \cap OfProduct(stock_ledger, p)) = 0
    <3>1. OfDocument(stock_ledger, d) \cap OfProduct(stock_ledger, p) = {}
      BY <1>4, <1>5 DEF OfDocument
    <3>2. \A f : SumFunctionOnSet(f, {}) = 0
      BY SumEmpty
    <3> QED BY <3>1, <3>2 DEF Total
  <2>2. \A d \in Docs : status[d] # "POSTED"
    BY <1>3
  <2> QED BY <2>1, <2>2 DEF PostedOnce
<1> QED BY <1>6, <1>7, <1>8, <1>9, <1>10 DEF SInv

\* Every step keeps the invariant: a request's, another default warehouse, and none.
LEMMA NextKeeps == ExclusiveRequests /\ SInv /\ [Next]_vars => SInv'
<1>1. SUFFICES ASSUME ExclusiveRequests, SInv, [Next]_vars PROVE SInv'
  OBVIOUS
<1>2. ASSUME NEW s \in Sessions, NEW d \in Docs, NEW name \in Workflow[TypeOf[d]], Open(s, d, name)
      PROVE  SInv'
  BY <1>1, <1>2, OpenKeeps
<1>3. ASSUME NEW s \in Sessions, Advance(s)
      PROVE  SInv'
  BY <1>1, <1>3, MoveKeeps, CommitKeeps, RollbackKeeps DEF Advance, Refuse, DeadlockVictim
<1>4. ASSUME NEW s \in Sessions, Crash(s)
      PROVE  SInv'
  BY <1>1, <1>4, RollbackKeeps DEF Crash
<1>5. ASSUME UNCHANGED <<current_stock, stock_ledger, status, row_lock, session>>,
             default_warehouse' \in Places
      PROVE  SInv'
  <2>1. RowsTell' /\ OnHandIsLedger' /\ PostedOnce'
    BY <1>1, <1>5, TablesKeep
  <2>2. Tables'
    BY <1>1, <1>5 DEF SInv, Tables
  <2>3. ASSUME NEW t \in Sessions, Busy(t)'
        PROVE  Protected(t)' /\ Tallied(t)'
    <3>1. \A u \in Sessions : Busy(u)' = Busy(u)
      BY <1>5 DEF Busy
    <3>2. Busy(t) /\ Protected(t) /\ Tallied(t)
      BY <1>1, <2>3, <3>1 DEF SInv
    <3>3. Locking(session[t].handler) \/ \A u \in Sessions \ {t} : ~Busy(u)'
      BY <3>1, <3>2 DEF Protected
    <3> QED BY <1>5, <3>2, <3>3, OthersKeep
  <2> QED BY <2>1, <2>2, <2>3 DEF SInv
<1>6. ASSUME NEW w \in Warehouses, SwitchDefault(w)
      PROVE  SInv'
  <2>1. default_warehouse' \in Places
    BY <1>6 DEF SwitchDefault, Places
  <2> QED BY <1>5, <1>6, <2>1 DEF SwitchDefault
<1>7. CASE UNCHANGED vars
  <2>1. default_warehouse' \in Places
    BY <1>1, <1>7 DEF vars, SInv, Tables
  <2> QED BY <1>5, <1>7, <2>1 DEF vars
<1> QED BY <1>1, <1>2, <1>3, <1>4, <1>6, <1>7 DEF Next

\* If the requests that skip a lock run alone, the invariant always holds.
THEOREM StockInvariance == ExclusiveRequests => (Spec => []SInv)
<1> SUFFICES ASSUME ExclusiveRequests PROVE Spec => []SInv
  OBVIOUS
<1>1. SInv /\ [Next]_vars => SInv'
  BY NextKeeps
<1>2. Init => SInv
  BY InitSInv
<1> QED BY <1>1, <1>2, PTL DEF Spec

\* products.current_stock is the sum of the ledger, whatever the documents, their lines
\* and the order of the requests: the company-wide quantity of
\* domains/inventory/services.py:87.
THEOREM OnHandAlwaysTheLedger == ExclusiveRequests => (Spec => []OnHandIsLedger)
<1>1. SInv => OnHandIsLedger
  BY DEF SInv
<1> QED BY <1>1, StockInvariance, PTL

\* A document's goods move when it is posted and come back when it is cancelled, once,
\* although a cancellation reads what to undo from its lines in some handlers and from
\* the rows of the ledger in others.
THEOREM GoodsMoveOnce == ExclusiveRequests => (Spec => []PostedOnce)
<1>1. SInv => PostedOnce
  BY DEF SInv
<1> QED BY <1>1, StockInvariance, PTL

-----------------------------------------------------------------------------
(* Places: what the ledger has of a product in each warehouse.             *)

\* The documents whose goods have a place: only a transfer and a receipt name
\* warehouses, the others go to the default one, and the company has one.
LinesPlaced ==
    /\ Defaults \subseteq Warehouses
    /\ \A d \in Docs : \A i \in DOMAIN Lines[d] :
           LET line == Lines[d][i]
           IN  /\ TypeOf[d] = "transfer" => /\ line.warehouse \in Warehouses
                                            /\ line.into \in Warehouses \ {line.warehouse}
               /\ TypeOf[d] = "receipt" => line.warehouse \in Warehouses
               /\ TypeOf[d] \notin {"transfer", "receipt"} => line.warehouse = NoPlace

\* No document has two lines for one product, but for challans, whose handler adds the
\* lines up.
OneLineEach ==
    \A d \in Docs : TypeOf[d] # "challan" =>
        \A i, j \in DOMAIN Lines[d] : Lines[d][i].product = Lines[d][j].product => i = j

NoReceipts == \A d \in Docs : TypeOf[d] # "receipt"

\* Two movements of a document that do not meet: another product, or another end of a
\* transfer.
Differ(d, x, y) ==
    x.product # y.product \/ (TypeOf[d] = "transfer" /\ x.warehouse # y.warehouse)

\* The rows that a request has written and the movements that it has still to make do
\* not meet.
Apart(d, rows, todo) ==
    /\ \A i, j \in DOMAIN rows : i # j => Differ(d, rows[i], rows[j])
    /\ \A i, j \in DOMAIN todo : i # j => Differ(d, todo[i], todo[j])
    /\ \A i \in DOMAIN rows, j \in DOMAIN todo : Differ(d, rows[i], todo[j])

\* A request that makes a movement writes its row and is left with the other movements.
OneMade(rows, row, more, todo, rest) ==
    /\ \A i \in DOMAIN more : more[i] = row \/ \E j \in DOMAIN rows : more[i] = rows[j]
    /\ \A j \in DOMAIN rest : \E i \in DOMAIN todo : rest[j] = todo[i]

\* What a receipt moves is where its line says.
AsReceived(d, x) ==
    TypeOf[d] = "receipt" =>
        \A i \in DOMAIN Lines[d] : Lines[d][i].product = x.product => Lines[d][i].warehouse = x.warehouse

\* The rows that document d has written of a product are at w.
At(d, p, w) ==
    TypeOf[d] # "transfer" =>
        \A k \in DOMAIN stock_ledger :
            stock_ledger[k].doc = d /\ stock_ledger[k].product = p => stock_ledger[k].warehouse = w

\* The rows of a request that it has not committed.
RowsOf(s) == IF TraitsOf(s).flushes THEN session[s].flushed ELSE session[s].added

\* What is still to be moved has a place if its handler takes it from the movement.
Aimed(name, d, item) ==
    LET h == Handler[name]
    IN  /\ h.place = "document" => item.warehouse \in Warehouses /\ AsReceived(d, item)
        /\ ~h.posts /\ item.warehouse # NoPlace => At(d, item.product, item.warehouse)

\* A row that is not committed is at a warehouse, the one of what it reverses, and its
\* balance is what the place holds with it.
Fresh(name, d, row) ==
    /\ row.warehouse \in Warehouses /\ AsReceived(d, row)
    /\ ~Handler[name].posts => At(d, row.product, row.warehouse)
    /\ TypeOf[d] # "receipt" =>
           /\ row.balance = StockAt(stock_ledger, row.product, row.warehouse) + row.quantity
           /\ row.quantity < 0 => row.balance >= 0

\* The movements of a request do not meet, and no two of them are computed from the
\* same quantity.
Placed(s) ==
    LET q == session[s]
        rows == RowsOf(s)
    IN  /\ IF TraitsOf(s).flushes THEN q.added = <<>> ELSE q.flushed = <<>>
        /\ \A i \in DOMAIN rows : Fresh(q.handler, q.doc, rows[i])
        /\ \A i \in DOMAIN q.todo : Aimed(q.handler, q.doc, q.todo[i])
        /\ Apart(q.doc, rows, q.todo)

\* The rows of a document for one product are at one place, one of them its posting and
\* one its reversal; but a transfer has two, and is not cancelled.
RowsPlaced ==
    /\ default_warehouse \in Warehouses
    /\ \A d \in Docs : TypeOf[d] = "transfer" => status[d] # "CANCELLED"
    /\ \A i \in DOMAIN stock_ledger : stock_ledger[i].warehouse \in Warehouses
    /\ \A i, j \in DOMAIN stock_ledger :
           LET x == stock_ledger[i]
               y == stock_ledger[j]
           IN  x.doc \in Docs /\ y.doc = x.doc /\ TypeOf[x.doc] # "transfer" /\ x.product = y.product =>
                   x.warehouse = y.warehouse /\ (x.reversal = y.reversal => i = j)
    /\ \A i \in DOMAIN stock_ledger :
           stock_ledger[i].doc \in Docs => AsReceived(stock_ledger[i].doc, stock_ledger[i])

NotOverdrawn == \A p \in Products, w \in Warehouses : StockAt(stock_ledger, p, w) >= 0

PlacesHold ==
    /\ RowsPlaced
    /\ \A s \in Sessions : Busy(s) => Placed(s)
    /\ RunningBalance
    /\ NoReceipts => NotOverdrawn

-----------------------------------------------------------------------------
(* What the ledger tells of a place.                                       *)

\* The rows of a product at a place, and what they come to in rows after rows.
LEMMA StockConcat ==
    ASSUME NEW a \in Seq(Entries), NEW b \in Seq(Entries), NEW p, NEW w
    PROVE  /\ StockAt(a \o b, p, w) = StockAt(a, p, w) + StockAt(b, p, w)
           /\ StockAt(a, p, w) \in Int /\ StockAt(b, p, w) \in Int
<1> DEFINE c == a \o b
           chosen(rows) == {i \in DOMAIN rows : rows[i].product = p /\ rows[i].warehouse = w}
<1>1. /\ Len(a) \in Nat /\ Len(b) \in Nat /\ c \in Seq(Entries)
      /\ DOMAIN a = 1 .. Len(a) /\ DOMAIN b = 1 .. Len(b) /\ DOMAIN c = 1 .. Len(a) + Len(b)
      /\ \A i \in 1 .. Len(a) : c[i] = a[i]
      /\ \A j \in 1 .. Len(b) : c[Len(a) + j] = b[j]
  OBVIOUS
<1>2. /\ chosen(c) \in SUBSET DOMAIN c /\ chosen(a) \in SUBSET DOMAIN a
      /\ chosen(b) \in SUBSET DOMAIN b
      /\ \A i \in DOMAIN a : i \in chosen(c) <=> i \in chosen(a)
      /\ \A j \in DOMAIN b : Len(a) + j \in chosen(c) <=> j \in chosen(b)
  BY <1>1
<1>3. \A r \in Entries : r.quantity \in Int
  BY DEF Entries
<1> HIDE DEF chosen
<1>4. Total(c, chosen(c)) = Total(a, chosen(a)) + Total(b, chosen(b))
  BY <1>2, <1>3, ChosenConcat
<1>5. Total(a, chosen(a)) \in Int /\ Total(b, chosen(b)) \in Int
  BY <1>2, <1>3, TotalTyped
<1> QED BY <1>4, <1>5 DEF StockAt, chosen

\* No rows at a place.
LEMMA StockNone ==
    ASSUME NEW rows, NEW p, NEW w,
           \A i \in DOMAIN rows : ~(rows[i].product = p /\ rows[i].warehouse = w)
    PROVE  StockAt(rows, p, w) = 0
<1>1. {i \in DOMAIN rows : rows[i].product = p /\ rows[i].warehouse = w} = {}
  OBVIOUS
<1> QED BY <1>1, SumEmpty DEF StockAt, Total

\* One row at a place.
LEMMA StockOne ==
    ASSUME NEW rows \in Seq(Entries), NEW k \in DOMAIN rows, NEW p, NEW w,
           \A i \in DOMAIN rows : (rows[i].product = p /\ rows[i].warehouse = w) <=> i = k
    PROVE  StockAt(rows, p, w) = rows[k].quantity /\ rows[k].quantity \in Int
<1>1. {i \in DOMAIN rows : rows[i].product = p /\ rows[i].warehouse = w} = {k}
  OBVIOUS
<1> DEFINE f == [i \in {k} |-> rows[i].quantity]
<1>2. rows[k] \in Entries
  OBVIOUS
<1>3. f[k] = rows[k].quantity /\ f[k] \in Int
  BY <1>2 DEF Entries
<1>4. StockAt(rows, p, w) = SumFunctionOnSet(f, {k})
  BY <1>1 DEF StockAt, Total
<1> HIDE DEF f
<1>5. SumFunctionOnSet(f, {k}) = f[k]
  BY <1>3, SumSingle
<1> QED BY <1>3, <1>4, <1>5

\* A row of a ledger tells what was at its place with it.
BalanceHolds(rows, i) ==
    LET ofReceipt == rows[i].doc \in Docs /\ TypeOf[rows[i].doc] = "receipt"
    IN  rows[i].warehouse # NoPlace /\ ~ofReceipt =>
            rows[i].balance = StockAt(SubSeq(rows, 1, i), rows[i].product, rows[i].warehouse)

\* Rows that do not meet, after rows that tell what was there: each was computed from
\* the rows before, and none from another.
LEMMA BalancesConcat ==
    ASSUME NEW a \in Seq(Entries), \A i \in DOMAIN a : BalanceHolds(a, i),
           NEW b \in Seq(Entries),
           \A i, j \in DOMAIN b :
               i # j => b[i].product # b[j].product \/ b[i].warehouse # b[j].warehouse,
           \A k \in DOMAIN b :
               ~(b[k].doc \in Docs /\ TypeOf[b[k].doc] = "receipt") =>
                   b[k].balance = StockAt(a, b[k].product, b[k].warehouse) + b[k].quantity
    PROVE  \A i \in DOMAIN (a \o b) : BalanceHolds(a \o b, i)
<1> DEFINE c == a \o b
<1>1. /\ Len(a) \in Nat /\ Len(b) \in Nat /\ c \in Seq(Entries) /\ Len(c) = Len(a) + Len(b)
      /\ DOMAIN a = 1 .. Len(a) /\ DOMAIN b = 1 .. Len(b) /\ DOMAIN c = 1 .. Len(a) + Len(b)
      /\ \A i \in 1 .. Len(a) : c[i] = a[i]
      /\ \A j \in 1 .. Len(b) : c[Len(a) + j] = b[j]
  OBVIOUS
<1>2. ASSUME NEW i \in DOMAIN a
      PROVE  BalanceHolds(c, i)
  <2>1. SubSeq(c, 1, i) = SubSeq(a, 1, i)
    BY <1>1
  <2>2. c[i] = a[i] /\ BalanceHolds(a, i)
    BY <1>1
  <2> HIDE DEF c
  <2> QED BY <2>1, <2>2 DEF BalanceHolds
<1>3. ASSUME NEW k \in DOMAIN b
      PROVE  BalanceHolds(c, Len(a) + k)
  <2>1. PICK row : row = b[k]
    OBVIOUS
  <2>2. PICK front : front = SubSeq(b, 1, k)
    OBVIOUS
  <2>3. /\ front \in Seq(Entries) /\ DOMAIN front = 1 .. k
        /\ \A i \in 1 .. k : front[i] = b[i]
    BY <1>1, <2>2
  <2>4. SubSeq(c, 1, Len(a) + k) = a \o front
    BY <1>1, <2>2, SMTT(30)
  <2>5. k \in DOMAIN front /\ front[k] = row
    BY <1>1, <2>1, <2>3
  <2>6. \A i \in DOMAIN front :
            (front[i].product = row.product /\ front[i].warehouse = row.warehouse) <=> i = k
    BY <1>1, <2>1, <2>3
  <2>7. StockAt(front, row.product, row.warehouse) = row.quantity
    <3>1. PICK p, w : p = row.product /\ w = row.warehouse
      OBVIOUS
    <3>2. \A i \in DOMAIN front : (front[i].product = p /\ front[i].warehouse = w) <=> i = k
      BY <2>6, <3>1
    <3>3. front \in Seq(Entries) /\ k \in DOMAIN front
      BY <2>3, <2>5
    <3>4. StockAt(front, p, w) = front[k].quantity
      BY ONLY <3>2, <3>3, StockOne
    <3> QED BY <2>5, <3>1, <3>4
  <2>8. StockAt(a \o front, row.product, row.warehouse)
            = StockAt(a, row.product, row.warehouse) + row.quantity
    BY <2>3, <2>7, StockConcat
  <2>9. c[Len(a) + k] = row
    BY <1>1, <2>1
  <2>10. ~(row.doc \in Docs /\ TypeOf[row.doc] = "receipt") =>
             row.balance = StockAt(a, row.product, row.warehouse) + row.quantity
    BY <2>1
  <2> HIDE DEF c
  <2> QED BY <2>4, <2>8, <2>9, <2>10 DEF BalanceHolds
<1>4. ASSUME NEW i \in DOMAIN c
      PROVE  BalanceHolds(c, i)
  <2>1. i \in DOMAIN a \/ \E k \in DOMAIN b : i = Len(a) + k
    <3>1. CASE i <= Len(a)
      BY <1>1, <3>1
    <3>2. CASE ~(i <= Len(a))
      <4>1. i - Len(a) \in DOMAIN b /\ i = Len(a) + (i - Len(a))
        BY <1>1, <3>2
      <4> QED BY <4>1
    <3> QED BY <3>1, <3>2
  <2> HIDE DEF c
  <2> QED BY <1>2, <1>3, <2>1
<1> QED BY <1>4

-----------------------------------------------------------------------------
(* Where a handler goes.                                                   *)

\* What a handler of a type walks, where it puts what it moves, and what it looks at.
Goes(name, type) ==
    LET h == Handler[name]
    IN  /\ h.source = "legs" => type = "transfer"
        /\ type = "transfer" => h.source = "legs" /\ h.posts /\ h.place = "document"
        /\ type = "receipt" => h.source = "lines" /\ h.place = "document"
        /\ h.source = "totals" => h.posts /\ h.place = "default"
        /\ type = "challan" => h.source \in {"totals", "rows"}
        /\ h.source = "rows" => ~h.posts /\ h.place # "default" /\ type \notin {"transfer", "receipt"}
        /\ h.source = "lines" /\ type # "receipt" =>
               h.place = IF h.posts THEN "default" ELSE "original"
        /\ type # "receipt" => h.checks \in {"place", "both"} /\ h.balance = "place"

\* Where a handler puts what it walks; those of receipts look at the company's quantity.
Puts(name, posts, source, place) ==
    LET h == Handler[name]
    IN  /\ h.posts = posts /\ h.source = source /\ h.place = place
        /\ name \notin {"confirm_receipt", "cancel_receipt"} =>
               h.checks \in {"place", "both"} /\ h.balance = "place"

\* The handlers, one by one.
LEMMA Putting ==
    /\ Puts("create_invoice", TRUE, "lines", "default")
    /\ Puts("finalize_invoice", TRUE, "lines", "default")
    /\ Puts("cancel_invoice", FALSE, "rows", "original")
    /\ Puts("create_bill", TRUE, "lines", "default")
    /\ Puts("finalize_bill", TRUE, "lines", "default")
    /\ Puts("cancel_bill", FALSE, "lines", "original")
    /\ Puts("direct_delete_bill", FALSE, "rows", "document")
    /\ Puts("create_sales_return", TRUE, "lines", "default")
    /\ Puts("cancel_sales_return", FALSE, "lines", "original")
    /\ Puts("create_purchase_return", TRUE, "lines", "default")
    /\ Puts("cancel_purchase_return", FALSE, "lines", "original")
    /\ Puts("finalize_credit_note", TRUE, "lines", "default")
    /\ Puts("cancel_credit_note", FALSE, "rows", "document")
    /\ Puts("issue_challan", TRUE, "totals", "default")
    /\ Puts("cancel_challan", FALSE, "rows", "document")
    /\ Puts("confirm_adjustment", TRUE, "lines", "default")
    /\ Puts("cancel_adjustment", FALSE, "lines", "original")
    /\ Puts("complete_transfer", TRUE, "legs", "document")
    /\ Puts("confirm_receipt", TRUE, "lines", "document")
    /\ Puts("cancel_receipt", FALSE, "lines", "document")
    /\ Puts("update_opening_stock", TRUE, "lines", "default")
<1>1. Puts("create_invoice", TRUE, "lines", "default")
  BY DEF Puts, Handler, CreateInvoice, FinalizeInvoice, Base
<1>2. Puts("finalize_invoice", TRUE, "lines", "default")
  BY DEF Puts, Handler, FinalizeInvoice, Base
<1>3. Puts("cancel_invoice", FALSE, "rows", "original")
  BY DEF Puts, Handler, CancelInvoice, Base
<1>4. Puts("create_bill", TRUE, "lines", "default")
  BY DEF Puts, Handler, CreateBill, FinalizeBill, Base
<1>5. Puts("finalize_bill", TRUE, "lines", "default")
  BY DEF Puts, Handler, FinalizeBill, Base
<1>6. Puts("cancel_bill", FALSE, "lines", "original")
  BY DEF Puts, Handler, CancelBill, Base
<1>7. Puts("direct_delete_bill", FALSE, "rows", "document")
  BY DEF Puts, Handler, DirectDeleteBill, Base
<1>8. Puts("create_sales_return", TRUE, "lines", "default")
  BY DEF Puts, Handler, CreateSalesReturn, Base
<1>9. Puts("cancel_sales_return", FALSE, "lines", "original")
  BY DEF Puts, Handler, CancelSalesReturn, Base
<1>10. Puts("create_purchase_return", TRUE, "lines", "default")
  BY DEF Puts, Handler, CreatePurchaseReturn, Base
<1>11. Puts("cancel_purchase_return", FALSE, "lines", "original")
  BY DEF Puts, Handler, CancelPurchaseReturn, Base
<1>12. Puts("finalize_credit_note", TRUE, "lines", "default")
  BY DEF Puts, Handler, FinalizeCreditNote, Base
<1>13. Puts("cancel_credit_note", FALSE, "rows", "document")
  BY DEF Puts, Handler, CancelCreditNote, Base
<1>14. Puts("issue_challan", TRUE, "totals", "default")
  BY DEF Puts, Handler, IssueChallan, Base
<1>15. Puts("cancel_challan", FALSE, "rows", "document")
  BY DEF Puts, Handler, CancelChallan, Base
<1>16. Puts("confirm_adjustment", TRUE, "lines", "default")
  BY DEF Puts, Handler, ConfirmAdjustment, Base
<1>17. Puts("cancel_adjustment", FALSE, "lines", "original")
  BY DEF Puts, Handler, CancelAdjustment, Base
<1>18. Puts("complete_transfer", TRUE, "legs", "document")
  BY DEF Puts, Handler, CompleteTransfer, Base
<1>19. Puts("confirm_receipt", TRUE, "lines", "document")
  BY DEF Puts, Handler, ConfirmReceipt, Base
<1>20. Puts("cancel_receipt", FALSE, "lines", "document")
  BY DEF Puts, Handler, CancelReceipt, Base
<1>21. Puts("update_opening_stock", TRUE, "lines", "default")
  BY DEF Puts, Handler, UpdateOpeningStock, Base
<1> QED BY <1>1, <1>2, <1>3, <1>4, <1>5, <1>6, <1>7, <1>8, <1>9, <1>10, <1>11,
           <1>12, <1>13, <1>14, <1>15, <1>16, <1>17, <1>18, <1>19, <1>20, <1>21

\* Every handler goes where its type does.
LEMMA HandlerGoes ==
    ASSUME NEW d \in Docs, NEW name \in Workflow[TypeOf[d]]
    PROVE  Goes(name, TypeOf[d])
<1>0. TypeOf[d] \in DOMAIN Workflow
  BY WorkflowAssumption
<1>1. CASE TypeOf[d] = "invoice"
  <2>1. name \in {"create_invoice", "finalize_invoice", "cancel_invoice"}
    BY <1>1 DEF Workflow
  <2>2. /\ Puts("create_invoice", TRUE, "lines", "default")
        /\ Puts("finalize_invoice", TRUE, "lines", "default")
        /\ Puts("cancel_invoice", FALSE, "rows", "original")
    BY Putting
  <2> QED BY <1>1, <2>1, <2>2 DEF Goes, Puts
<1>2. CASE TypeOf[d] = "bill"
  <2>1. name \in {"create_bill", "finalize_bill", "cancel_bill", "direct_delete_bill"}
    BY <1>2 DEF Workflow
  <2>2. /\ Puts("create_bill", TRUE, "lines", "default")
        /\ Puts("finalize_bill", TRUE, "lines", "default")
        /\ Puts("cancel_bill", FALSE, "lines", "original")
        /\ Puts("direct_delete_bill", FALSE, "rows", "document")
    BY Putting
  <2> QED BY <1>2, <2>1, <2>2 DEF Goes, Puts
<1>3. CASE TypeOf[d] = "sales_return"
  <2>1. name \in {"create_sales_return", "cancel_sales_return"}
    BY <1>3 DEF Workflow
  <2>2. /\ Puts("create_sales_return", TRUE, "lines", "default")
        /\ Puts("cancel_sales_return", FALSE, "lines", "original")
    BY Putting
  <2> QED BY <1>3, <2>1, <2>2 DEF Goes, Puts
<1>4. CASE TypeOf[d] = "purchase_return"
  <2>1. name \in {"create_purchase_return", "cancel_purchase_return"}
    BY <1>4 DEF Workflow
  <2>2. /\ Puts("create_purchase_return", TRUE, "lines", "default")
        /\ Puts("cancel_purchase_return", FALSE, "lines", "original")
    BY Putting
  <2> QED BY <1>4, <2>1, <2>2 DEF Goes, Puts
<1>5. CASE TypeOf[d] = "credit_note"
  <2>1. name \in {"finalize_credit_note", "cancel_credit_note"}
    BY <1>5 DEF Workflow
  <2>2. /\ Puts("finalize_credit_note", TRUE, "lines", "default")
        /\ Puts("cancel_credit_note", FALSE, "rows", "document")
    BY Putting
  <2> QED BY <1>5, <2>1, <2>2 DEF Goes, Puts
<1>6. CASE TypeOf[d] = "challan"
  <2>1. name \in {"issue_challan", "cancel_challan"}
    BY <1>6 DEF Workflow
  <2>2. /\ Puts("issue_challan", TRUE, "totals", "default")
        /\ Puts("cancel_challan", FALSE, "rows", "document")
    BY Putting
  <2> QED BY <1>6, <2>1, <2>2 DEF Goes, Puts
<1>7. CASE TypeOf[d] = "adjustment"
  <2>1. name \in {"confirm_adjustment", "cancel_adjustment"}
    BY <1>7 DEF Workflow
  <2>2. /\ Puts("confirm_adjustment", TRUE, "lines", "default")
        /\ Puts("cancel_adjustment", FALSE, "lines", "original")
    BY Putting
  <2> QED BY <1>7, <2>1, <2>2 DEF Goes, Puts
<1>8. CASE TypeOf[d] = "transfer"
  <2>1. name \in {"complete_transfer"}
    BY <1>8 DEF Workflow
  <2>2. /\ Puts("complete_transfer", TRUE, "legs", "document")
    BY Putting
  <2> QED BY <1>8, <2>1, <2>2 DEF Goes, Puts
<1>9. CASE TypeOf[d] = "receipt"
  <2>1. name \in {"confirm_receipt", "cancel_receipt"}
    BY <1>9 DEF Workflow
  <2>2. /\ Puts("confirm_receipt", TRUE, "lines", "document")
        /\ Puts("cancel_receipt", FALSE, "lines", "document")
    BY Putting
  <2> QED BY <1>9, <2>1, <2>2 DEF Goes, Puts
<1>10. CASE TypeOf[d] = "opening"
  <2>1. name \in {"update_opening_stock"}
    BY <1>10 DEF Workflow
  <2>2. /\ Puts("update_opening_stock", TRUE, "lines", "default")
    BY Putting
  <2> QED BY <1>10, <2>1, <2>2 DEF Goes, Puts
<1> QED BY <1>0, <1>1, <1>2, <1>3, <1>4, <1>5, <1>6, <1>7, <1>8, <1>9, <1>10 DEF Workflow

\* What a handler is to move does not meet, and has a place where it needs one: of a
\* line's, of the row that it undoes.
LEMMA PlanPlaced ==
    ASSUME LinesPlaced, OneLineEach, Tables, RowsTell, RowsPlaced,
           NEW d \in Docs, NEW name \in Workflow[TypeOf[d]],
           status[d] = IF Handler[name].posts THEN "DRAFT" ELSE "POSTED",
           NEW plan \in Plans(Handler[name], d)
    PROVE  /\ \A i, j \in DOMAIN plan : i # j => Differ(d, plan[i], plan[j])
           /\ \A i \in DOMAIN plan : Aimed(name, d, plan[i])
<1> DEFINE h == Handler[name]
           lines == Lines[d]
           type == TypeOf[d]
           rows == {i \in OfDocument(stock_ledger, d) : ~stock_ledger[i].reversal}
<1>1. /\ lines \in Seq(Line) /\ DOMAIN lines = 1 .. Len(lines) /\ Len(lines) \in Nat
      /\ \A i \in DOMAIN lines : lines[i] \in Line
  BY WorkflowAssumption
<1>2. Goes(name, type) /\ h.source \in {"lines", "totals", "rows", "legs"} /\ h.posts \in BOOLEAN
      /\ h.place \in {"default", "document", "original"}
  BY HandlerGoes, HandlerFacts
<1>3. /\ \A i \in DOMAIN lines :
             /\ type = "transfer" => /\ lines[i].warehouse \in Warehouses
                                     /\ lines[i].into \in Warehouses \ {lines[i].warehouse}
             /\ type = "receipt" => lines[i].warehouse \in Warehouses
             /\ type \notin {"transfer", "receipt"} => lines[i].warehouse = NoPlace
      /\ type # "challan" =>
             \A i, j \in DOMAIN lines : lines[i].product = lines[j].product => i = j
  BY DEF LinesPlaced, OneLineEach
<1>4. CASE h.source = "lines"
  <2>1. plan = [i \in DOMAIN lines |->
                   Item(lines[i].product, h.sign * lines[i].quantity, lines[i].warehouse)]
    BY <1>4 DEF Plans
  <2>2. /\ DOMAIN plan = DOMAIN lines
        /\ \A i \in DOMAIN plan : /\ plan[i].product = lines[i].product
                                  /\ plan[i].warehouse = lines[i].warehouse
    BY <2>1 DEF Item
  <2>3. type \notin {"challan", "transfer"}
        /\ (type # "receipt" => h.place # "document" /\ \A i \in DOMAIN lines : lines[i].warehouse = NoPlace)
    BY <1>2, <1>3, <1>4 DEF Goes
  <2> HIDE DEF h, lines, type
  <2>4. \A i, j \in DOMAIN plan : i # j => plan[i].product # plan[j].product
    BY <1>3, <2>2, <2>3
  <2>5. ASSUME NEW i \in DOMAIN plan PROVE Aimed(name, d, plan[i])
    <3>1. AsReceived(d, plan[i])
      BY <1>3, <2>2, <2>3, <2>5 DEF AsReceived, lines, type
    <3>2. h.place = "document" => plan[i].warehouse \in Warehouses
      BY <1>3, <2>2, <2>3, <2>5
    <3>3. ~h.posts /\ plan[i].warehouse # NoPlace => At(d, plan[i].product, plan[i].warehouse)
      <4>1. SUFFICES ASSUME ~h.posts, plan[i].warehouse # NoPlace
                     PROVE  At(d, plan[i].product, plan[i].warehouse)
        OBVIOUS
      <4>2. type = "receipt"
        BY <2>2, <2>3, <4>1
      <4>3. ASSUME NEW k \in DOMAIN stock_ledger, stock_ledger[k].doc = d,
                   stock_ledger[k].product = plan[i].product
            PROVE  stock_ledger[k].warehouse = plan[i].warehouse
        <5>1. AsReceived(d, stock_ledger[k])
          BY <4>3 DEF RowsPlaced
        <5> QED BY <2>2, <4>2, <4>3, <5>1 DEF AsReceived, lines, type
      <4> QED BY <4>3 DEF At
    <3> QED BY <3>1, <3>2, <3>3 DEF Aimed, h
  <2> QED BY <2>4, <2>5 DEF Differ
<1>5. CASE h.source = "totals"
  <2>1. PICK o \in SetToSeqs(Firsts(lines)) :
            plan = [i \in DOMAIN o |->
                       Item(lines[o[i]].product,
                            h.sign * Total(lines, OfProduct(lines, lines[o[i]].product)), NoPlace)]
    BY <1>5 DEF Plans, Firsts
  <2>2. IsFiniteSet(Firsts(lines))
    <3>1. IsFiniteSet(DOMAIN lines) /\ Firsts(lines) \in SUBSET DOMAIN lines
      BY <1>1, FS_Interval DEF Firsts
    <3> QED BY <3>1, FS_Subset
  <2>3. /\ \A i \in DOMAIN o : o[i] \in Firsts(lines)
        /\ \A i, j \in DOMAIN o : o[i] = o[j] => i = j
    BY <2>2, OrderTakesAll
  <2>4. \A m, n \in Firsts(lines) : lines[m].product = lines[n].product => m = n
    BY <1>1 DEF Firsts
  <2>5. /\ DOMAIN plan = DOMAIN o
        /\ \A i \in DOMAIN plan : plan[i].product = lines[o[i]].product /\ plan[i].warehouse = NoPlace
    BY <2>1 DEF Item
  <2>6. h.posts /\ h.place = "default"
    BY <1>2, <1>5 DEF Goes
  <2>7. \A i, j \in DOMAIN plan : i # j => plan[i].product # plan[j].product
    <3> HIDE DEF lines
    <3> QED BY <2>3, <2>4, <2>5
  <2> QED BY <2>6, <2>7 DEF Differ, Aimed
<1>6. CASE h.source = "rows"
  <2>1. PICK o \in SetToSeqs(rows) : plan = [i \in DOMAIN o |-> Undone(stock_ledger[o[i]])]
    BY <1>6 DEF Plans
  <2>2. stock_ledger \in Seq(Entries) /\ rows \in SUBSET DOMAIN stock_ledger
    BY DEF Tables, OfDocument
  <2>3. IsFiniteSet(rows)
    <3>1. Len(stock_ledger) \in Nat /\ DOMAIN stock_ledger = 1 .. Len(stock_ledger)
      BY <2>2
    <3>2. IsFiniteSet(DOMAIN stock_ledger)
      BY <3>1, FS_Interval
    <3> QED BY <2>2, <3>2, FS_Subset
  <2>4. /\ \A i \in DOMAIN o : o[i] \in rows
        /\ \A i, j \in DOMAIN o : o[i] = o[j] => i = j
    <3> HIDE DEF rows
    <3> QED BY <2>3, OrderTakesAll
  <2>5. /\ DOMAIN plan = DOMAIN o
        /\ \A i \in DOMAIN plan : /\ plan[i].product = stock_ledger[o[i]].product
                                  /\ plan[i].warehouse = stock_ledger[o[i]].warehouse
    BY <2>1 DEF Undone, Item
  <2>6. \A m \in rows : /\ m \in DOMAIN stock_ledger /\ stock_ledger[m].doc = d
                        /\ stock_ledger[m].reversal = FALSE /\ stock_ledger[m].warehouse \in Warehouses
    <3>1. \A m \in rows : m \in DOMAIN stock_ledger /\ stock_ledger[m].doc = d /\ ~stock_ledger[m].reversal
      BY DEF OfDocument
    <3>2. \A r \in Entries : r.reversal \in BOOLEAN
      BY DEF Entries
    <3>3. \A m \in DOMAIN stock_ledger : stock_ledger[m] \in Entries
      BY <2>2
    <3> HIDE DEF rows
    <3> QED BY <3>1, <3>2, <3>3 DEF RowsPlaced
  <2>7. ~h.posts /\ type \notin {"transfer", "receipt"}
    BY <1>2, <1>6 DEF Goes
  <2>8. \A m, n \in DOMAIN stock_ledger :
            stock_ledger[m].doc = d /\ stock_ledger[n].doc = d
            /\ stock_ledger[m].product = stock_ledger[n].product =>
                /\ stock_ledger[m].warehouse = stock_ledger[n].warehouse
                /\ stock_ledger[m].reversal = stock_ledger[n].reversal => m = n
    BY <2>7 DEF RowsPlaced
  <2> HIDE DEF rows
  <2>9. ASSUME NEW m \in rows, NEW n \in rows, stock_ledger[m].product = stock_ledger[n].product
        PROVE  m = n
    <3>1. /\ m \in DOMAIN stock_ledger /\ n \in DOMAIN stock_ledger
          /\ stock_ledger[m].doc = d /\ stock_ledger[n].doc = d
          /\ stock_ledger[m].reversal = stock_ledger[n].reversal
      BY <2>6
    <3> QED BY <2>8, <2>9, <3>1
  <2>10. \A i, j \in DOMAIN plan : i # j => plan[i].product # plan[j].product
    BY <2>4, <2>5, <2>9
  <2>11. ASSUME NEW i \in DOMAIN plan PROVE Aimed(name, d, plan[i])
    <3>1. o[i] \in rows /\ plan[i].product = stock_ledger[o[i]].product
          /\ plan[i].warehouse = stock_ledger[o[i]].warehouse
      BY <2>4, <2>5
    <3>2. plan[i].warehouse \in Warehouses
      BY <2>6, <3>1
    <3>3. At(d, plan[i].product, plan[i].warehouse)
      BY <2>6, <2>8, <3>1 DEF At
    <3>4. AsReceived(d, plan[i])
      BY <2>7 DEF AsReceived
    <3> QED BY <3>2, <3>3, <3>4 DEF Aimed
  <2> QED BY <2>10, <2>11 DEF Differ
<1>7. CASE h.source = "legs"
  <2>1. plan = [i \in 1 .. 2 * Len(lines) |-> Transferred(lines[(i + 1) \div 2], i % 2 = 1)]
    BY <1>7 DEF Plans
  <2>2. type = "transfer" /\ h.posts
    BY <1>2, <1>7 DEF Goes
  <2>3. PICK n \in Nat : n = Len(lines)
    BY <1>1
  <2>4. ASSUME NEW i \in 1 .. 2 * n
        PROVE  /\ (i + 1) \div 2 \in 1 .. n
               /\ i % 2 = 1 => i = 2 * ((i + 1) \div 2) - 1
               /\ i % 2 # 1 => i = 2 * ((i + 1) \div 2)
    <3>1. i \in Int /\ 1 <= i /\ i <= 2 * n
      OBVIOUS
    <3>2. /\ (i + 1) \div 2 \in Int
          /\ i % 2 = 1 => i = 2 * ((i + 1) \div 2) - 1
          /\ i % 2 # 1 => i = 2 * ((i + 1) \div 2)
      BY <3>1, Halves
    <3>3. PICK m \in Int : m = (i + 1) \div 2
      BY <3>2
    <3> QED BY <3>1, <3>2, <3>3
  <2> DEFINE at(i) == (i + 1) \div 2
             odd(i) == i % 2 = 1
  <2>5. \A i, j \in 1 .. 2 * n : at(i) = at(j) /\ (odd(i) <=> odd(j)) => i = j
    <3>1. ASSUME NEW i \in 1 .. 2 * n, NEW j \in 1 .. 2 * n, at(i) = at(j), odd(i) <=> odd(j)
          PROVE  i = j
      BY <2>4, <3>1
    <3> QED BY <3>1
  <2>6. \A i \in 1 .. 2 * n : at(i) \in DOMAIN lines
    BY <1>1, <2>3, <2>4
  <2>7. plan = [i \in 1 .. 2 * n |-> Transferred(lines[at(i)], odd(i))]
    BY <2>1, <2>3
  <2> HIDE DEF at, odd, lines, h, type
  <2>8. DOMAIN plan = 1 .. 2 * n
    BY <2>7
  <2>9. \A i \in 1 .. 2 * n :
            /\ plan[i].product = lines[at(i)].product
            /\ odd(i) => plan[i].warehouse = lines[at(i)].warehouse
            /\ ~odd(i) => plan[i].warehouse = lines[at(i)].into
    BY <2>7 DEF Transferred, Item
  <2>10. ASSUME NEW i \in DOMAIN plan, NEW j \in DOMAIN plan, i # j
         PROVE  plan[i].product # plan[j].product \/ plan[i].warehouse # plan[j].warehouse
    <3>1. CASE at(i) # at(j)
      BY <1>3, <2>2, <2>6, <2>8, <2>9, <3>1
    <3>2. CASE at(i) = at(j)
      <4>1. ~(odd(i) <=> odd(j))
        BY <2>5, <2>8, <2>10, <3>2
      <4> QED BY <1>3, <2>2, <2>6, <2>8, <2>9, <3>2, <4>1
    <3> QED BY <3>1, <3>2
  <2>11. \A i \in DOMAIN plan : plan[i].warehouse \in Warehouses
    BY <1>3, <2>2, <2>6, <2>8, <2>9
  <2> QED BY <2>2, <2>10, <2>11 DEF Differ, Aimed, AsReceived, type, h
<1> QED BY <1>2, <1>4, <1>5, <1>6, <1>7

-----------------------------------------------------------------------------
(* A movement finds its place.                                             *)

\* The place of a movement is a warehouse, that of its line in a transfer or a receipt,
\* and that of the rows that it reverses.
LEMMA PlaceFound ==
    ASSUME Tables, RowsTell, RowsPlaced, NEW s \in Sessions, Protected(s), Tallied(s),
           NEW item \in Items, Aimed(session[s].handler, session[s].doc, item),
           NEW w, w = PlaceOf(s, item)
    PROVE  /\ w \in Warehouses
           /\ TypeOf[session[s].doc] \in {"transfer", "receipt"} => w = item.warehouse
           /\ ~TraitsOf(s).posts => At(session[s].doc, item.product, w)
<1>1. PICK q, h, d, p : /\ q = session[s] /\ h = TraitsOf(s) /\ h = Handler[q.handler]
                        /\ d = q.doc /\ p = item.product
  BY DEF TraitsOf
<1>2. /\ d \in Docs /\ q.handler \in Workflow[TypeOf[d]]
      /\ status[d] = IF h.posts THEN "DRAFT" ELSE "POSTED"
  BY <1>1 DEF Protected
<1>3. /\ h.place \in {"default", "document", "original"} /\ h.posts \in BOOLEAN
      /\ Goes(q.handler, TypeOf[d])
  BY <1>1, <1>2, HandlerFacts, HandlerGoes
<1>4. /\ h.place = "document" => item.warehouse \in Warehouses
      /\ ~h.posts /\ item.warehouse # NoPlace => At(d, p, item.warehouse)
  BY <1>1 DEF Aimed
<1>5. TypeOf[d] \in {"transfer", "receipt"} => h.place = "document"
  BY <1>1, <1>3 DEF Goes
<1>6. CASE h.place = "document"
  <2>1. w = item.warehouse
    BY <1>1, <1>6 DEF PlaceOf
  <2>2. w # NoPlace
    BY <1>4, <1>6, <2>1, WorkflowAssumption
  <2> QED BY <1>1, <1>4, <1>6, <2>1, <2>2
<1>7. CASE h.place = "default"
  <2>1. w = default_warehouse
    BY <1>1, <1>7 DEF PlaceOf
  <2>2. h.posts
    BY <1>1, <1>3, <1>7, HandlerFacts, <1>2 DEF Goes
  <2> QED BY <1>1, <1>5, <1>7, <2>1, <2>2 DEF RowsPlaced
<1>8. CASE h.place = "original" /\ item.warehouse # NoPlace
  <2>1. w = item.warehouse
    BY <1>1, <1>8 DEF PlaceOf
  <2>2. w \in Warehouses
    BY <1>8, <2>1 DEF Items, Places
  <2> QED BY <1>1, <1>4, <1>5, <1>8, <2>1, <2>2
<1>9. CASE h.place = "original" /\ item.warehouse = NoPlace
  <2>1. ~h.posts /\ TypeOf[d] \notin {"transfer", "receipt"}
    <3>1. h.source \in {"lines", "totals", "rows", "legs"}
      BY <1>1, <1>2, HandlerFacts
    <3> QED BY <1>1, <1>3, <1>9, <3>1 DEF Goes
  <2>2. PICK rows : rows = Visible(s)
    OBVIOUS
  <2>3. PICK written : written = {i \in OfDocument(rows, d) \cap OfProduct(rows, p) : ~rows[i].reversal}
    OBVIOUS
  <2>4. w = IF written # {} /\ rows[Max(written)].warehouse # NoPlace
            THEN rows[Max(written)].warehouse ELSE default_warehouse
    BY <1>1, <1>9, <2>2, <2>3 DEF PlaceOf
  <2>5. /\ stock_ledger \in Seq(Entries) /\ q.flushed \in Seq(Entries)
        /\ rows = stock_ledger \o q.flushed
        /\ \A j \in DOMAIN q.flushed : q.flushed[j].doc = d /\ q.flushed[j].reversal = ~h.posts
    BY <1>1, <2>2 DEF Tables, Tallied, Written, Visible
  <2>6. /\ Len(stock_ledger) \in Nat /\ DOMAIN stock_ledger = 1 .. Len(stock_ledger)
        /\ \A i \in DOMAIN stock_ledger : i \in DOMAIN rows /\ rows[i] = stock_ledger[i]
        /\ \A i \in DOMAIN rows : i \in DOMAIN stock_ledger \/ \E j \in DOMAIN q.flushed : rows[i] = q.flushed[j]
        /\ DOMAIN rows \subseteq Int
    BY <2>5
  <2>7. \A i \in written : i \in DOMAIN stock_ledger /\ stock_ledger[i].doc = d
                           /\ stock_ledger[i].product = p
    BY <2>1, <2>3, <2>5, <2>6 DEF OfDocument, OfProduct
  <2>8. \A k \in DOMAIN stock_ledger :
            stock_ledger[k].doc = d /\ stock_ledger[k].product = p => k \in written
    <3>1. ASSUME NEW k \in DOMAIN stock_ledger, stock_ledger[k].doc = d, stock_ledger[k].product = p
          PROVE  k \in written
      <4>1. ~stock_ledger[k].reversal
        BY <1>2, <2>1, <3>1 DEF RowsTell
      <4> QED BY <2>3, <2>6, <3>1, <4>1 DEF OfDocument, OfProduct
    <3> QED BY <3>1
  <2>9. CASE written = {}
    <3>1. w \in Warehouses
      BY <2>4, <2>9 DEF RowsPlaced
    <3>2. At(d, p, w)
      BY <2>8, <2>9 DEF At
    <3> QED BY <1>1, <2>1, <3>1, <3>2
  <2>10. CASE written # {}
    <3>1. PICK m : m = Max(written)
      OBVIOUS
    <3>2. m \in written
      <4>1. IsFiniteSet(written) /\ written \in SUBSET Int
        <5>1. IsFiniteSet(DOMAIN stock_ledger)
          BY <2>6, FS_Interval
        <5>2. written \in SUBSET DOMAIN stock_ledger
          BY <2>7
        <5> QED BY <2>6, <5>1, <5>2, FS_Subset
      <4>2. \E x \in written : \A y \in written : x >= y
        BY <2>10, <4>1, Extremes
      <4> QED BY <3>1, <4>2 DEF Max
    <3>3. /\ m \in DOMAIN stock_ledger /\ stock_ledger[m].doc = d /\ stock_ledger[m].product = p
          /\ rows[m] = stock_ledger[m]
      BY <2>6, <2>7, <3>2
    <3>4. stock_ledger[m].warehouse \in Warehouses /\ stock_ledger[m].warehouse # NoPlace
      BY <3>3, WorkflowAssumption DEF RowsPlaced
    <3>5. w = stock_ledger[m].warehouse
      BY <2>4, <2>10, <3>1, <3>3, <3>4
    <3>6. At(d, p, w)
      <4>1. ASSUME NEW k \in DOMAIN stock_ledger, stock_ledger[k].doc = d, stock_ledger[k].product = p
            PROVE  stock_ledger[k].warehouse = w
        BY <1>2, <2>1, <3>3, <3>5, <4>1 DEF RowsPlaced
      <4> QED BY <4>1 DEF At
    <3> QED BY <1>1, <2>1, <3>4, <3>5, <3>6
  <2> QED BY <2>9, <2>10
<1> QED BY <1>3, <1>6, <1>7, <1>8, <1>9

\* A movement becomes a row, and still nothing meets.
LEMMA MoveApart ==
    ASSUME NEW d, NEW rows \in Seq(Entries), NEW todo \in Seq(Items), todo # <<>>,
           NEW row \in Entries, row.product = Head(todo).product,
           TypeOf[d] = "transfer" => row.warehouse = Head(todo).warehouse,
           Apart(d, rows, todo), NEW more, more = Append(rows, row), NEW rest, rest = Tail(todo)
    PROVE  Apart(d, more, rest) /\ OneMade(rows, row, more, todo, rest)
<1>0. /\ \A i, j \in DOMAIN rows : i # j => Differ(d, rows[i], rows[j])
      /\ \A i, j \in DOMAIN todo : i # j => Differ(d, todo[i], todo[j])
      /\ \A i \in DOMAIN rows, j \in DOMAIN todo : Differ(d, rows[i], todo[j])
  BY DEF Apart
<1>1. PICK n \in Nat : n = Len(rows)
  OBVIOUS
<1>2. /\ DOMAIN rows = 1 .. n /\ DOMAIN more = 1 .. n + 1 /\ more[n + 1] = row
      /\ \A i \in 1 .. n : more[i] = rows[i]
  BY <1>1
<1>3. PICK m \in Nat : m = Len(rest)
  <2>1. rest \in Seq(Items)
    OBVIOUS
  <2>2. Len(rest) \in Nat
    BY ONLY <2>1
  <2> QED BY <2>2
<1>4. /\ DOMAIN todo = 1 .. m + 1 /\ DOMAIN rest = 1 .. m /\ todo[1] = Head(todo)
      /\ \A j \in 1 .. m : rest[j] = todo[j + 1]
  BY <1>3
<1>5. \A i \in 1 .. n : Differ(d, rows[i], row) /\ Differ(d, row, rows[i])
  <2>0. 1 \in DOMAIN todo
    BY <1>4
  <2>1. \A i \in 1 .. n : Differ(d, rows[i], Head(todo))
    BY <1>0, <1>2, <1>4, <2>0
  <2> QED BY <2>1 DEF Differ
<1>6. \A j \in 1 .. m : Differ(d, row, rest[j])
  <2>1. ASSUME NEW j \in 1 .. m PROVE Differ(d, Head(todo), rest[j])
    <3>1. 1 \in DOMAIN todo /\ j + 1 \in DOMAIN todo /\ 1 # j + 1
      BY <1>4
    <3>2. Differ(d, todo[1], todo[j + 1])
      BY <1>0, <3>1
    <3> QED BY <1>4, <3>2
  <2> QED BY <2>1 DEF Differ
<1>7. \A i \in 1 .. n + 1 : i = n + 1 \/ i \in 1 .. n
  OBVIOUS
<1>8. \A i \in DOMAIN more :
          (i \in 1 .. n /\ more[i] = rows[i]) \/ (i = n + 1 /\ more[i] = row)
  BY <1>2, <1>7
<1>9. \A i, j \in DOMAIN more : i # j => Differ(d, more[i], more[j])
  BY <1>0, <1>2, <1>5, <1>8
<1>10. \A j \in 1 .. m : j + 1 \in DOMAIN todo
  BY <1>4
<1>11. \A i, j \in DOMAIN rest : i # j => Differ(d, rest[i], rest[j])
  BY <1>0, <1>4, <1>10
<1>12. \A i \in DOMAIN more, j \in DOMAIN rest : Differ(d, more[i], rest[j])
  BY <1>0, <1>2, <1>4, <1>6, <1>8, <1>10
<1>13. Apart(d, more, rest)
  BY <1>9, <1>11, <1>12 DEF Apart
<1>14. OneMade(rows, row, more, todo, rest)
  BY <1>2, <1>4, <1>8, <1>10 DEF OneMade
<1> QED BY <1>13, <1>14

\* Rows of which none is at the place of a movement.
LEMMA NothingThere ==
    ASSUME NEW d, NEW rows, NEW item, NEW w, TypeOf[d] = "transfer" => w = item.warehouse,
           \A i \in DOMAIN rows : Differ(d, rows[i], item)
    PROVE  StockAt(rows, item.product, w) = 0
<1>1. \A i \in DOMAIN rows : ~(rows[i].product = item.product /\ rows[i].warehouse = w)
  BY DEF Differ
<1> QED BY <1>1, StockNone

-----------------------------------------------------------------------------
(* The steps.                                                              *)

\* A request whose products and document are left alone stays as well placed as it was.
LEMMA OthersPlaced ==
    ASSUME NEW t \in Sessions, Tallied(t), Placed(t), session'[t] = session[t],
           \A p \in DOMAIN session[t].orm, w \in Warehouses :
               StockAt(stock_ledger', p, w) = StockAt(stock_ledger, p, w),
           \A k \in DOMAIN stock_ledger' :
               stock_ledger'[k].doc = session[t].doc =>
                   \E j \in DOMAIN stock_ledger : stock_ledger'[k] = stock_ledger[j]
    PROVE  Placed(t)'
<1>1. PICK q : q = session[t]
  OBVIOUS
<1>2. PICK h, rows : h = Handler[q.handler] /\ rows = RowsOf(t)
  OBVIOUS
<1>3. /\ session'[t] = q /\ TraitsOf(t) = h /\ TraitsOf(t)' = h
      /\ rows = (IF h.flushes THEN q.flushed ELSE q.added) /\ RowsOf(t)' = rows
  BY <1>1, <1>2 DEF TraitsOf, RowsOf
<1>4. \A i \in DOMAIN rows : rows[i].product \in DOMAIN q.orm
  BY <1>1, <1>3 DEF Tallied, Written
<1>5. \A p, w : At(q.doc, p, w) => At(q.doc, p, w)'
  BY <1>1 DEF At
<1>6. \A x : AsReceived(q.doc, x)' = AsReceived(q.doc, x)
  BY DEF AsReceived
<1>7. ASSUME NEW i \in DOMAIN rows PROVE Fresh(q.handler, q.doc, rows[i])'
  <2>1. Fresh(q.handler, q.doc, rows[i])
    BY <1>1, <1>2 DEF Placed
  <2>2. PICK row : row = rows[i]
    OBVIOUS
  <2>3. row.warehouse \in Warehouses /\ row.product \in DOMAIN q.orm
    BY <1>4, <2>1, <2>2 DEF Fresh
  <2>4. StockAt(stock_ledger', row.product, row.warehouse)
            = StockAt(stock_ledger, row.product, row.warehouse)
    BY <1>1, <2>3
  <2>5. Fresh(q.handler, q.doc, row)'
    BY <1>5, <1>6, <2>1, <2>2, <2>4 DEF Fresh
  <2> QED BY <2>2, <2>5
<1>8. ASSUME NEW i \in DOMAIN q.todo PROVE Aimed(q.handler, q.doc, q.todo[i])'
  <2>1. Aimed(q.handler, q.doc, q.todo[i])
    BY <1>1 DEF Placed
  <2> QED BY <1>5, <1>6, <2>1 DEF Aimed
<1>9. /\ IF h.flushes THEN q.added = <<>> ELSE q.flushed = <<>>
      /\ Apart(q.doc, rows, q.todo)
  BY <1>1, <1>2, <1>3 DEF Placed
<1> QED BY <1>3, <1>7, <1>8, <1>9 DEF Placed

\* The ledger alone, when no row, status or default place changes.
LEMMA LedgerStays ==
    ASSUME PlacesHold, UNCHANGED <<stock_ledger, status>>, default_warehouse' \in Warehouses
    PROVE  /\ RowsPlaced' /\ RunningBalance' /\ (NoReceipts => NotOverdrawn)'
           /\ \A t \in Sessions : Tallied(t) /\ Placed(t) /\ session'[t] = session[t] => Placed(t)'
<1>1. RowsPlaced'
  BY DEF PlacesHold, RowsPlaced, AsReceived
<1>2. RunningBalance'
  BY DEF PlacesHold, RunningBalance
<1>3. (NoReceipts => NotOverdrawn)'
  BY DEF PlacesHold, NoReceipts, NotOverdrawn
<1>4. ASSUME NEW t \in Sessions, Tallied(t), Placed(t), session'[t] = session[t]
      PROVE  Placed(t)'
  <2>1. /\ \A p \in DOMAIN session[t].orm, w \in Warehouses :
               StockAt(stock_ledger', p, w) = StockAt(stock_ledger, p, w)
        /\ \A k \in DOMAIN stock_ledger' :
               stock_ledger'[k].doc = session[t].doc =>
                   \E j \in DOMAIN stock_ledger : stock_ledger'[k] = stock_ledger[j]
    OBVIOUS
  <2> QED BY <1>4, <2>1, OthersPlaced
<1> QED BY <1>1, <1>2, <1>3, <1>4

\* A request begins with movements that do not meet.
LEMMA OpenPlaces ==
    ASSUME LinesPlaced, OneLineEach, SInv, PlacesHold, NEW s \in Sessions, NEW d \in Docs,
           NEW name \in Workflow[TypeOf[d]], Open(s, d, name)
    PROVE  PlacesHold'
<1> DEFINE h == Handler[name]
<1>1. PICK plan \in Plans(h, d) :
          session' = [session EXCEPT ![s] =
              [Idle EXCEPT !.handler = name, !.doc = d, !.todo = plan, !.orm = Preloaded(h, d)]]
  BY DEF Open
<1>2. /\ status[d] = IF h.posts THEN "DRAFT" ELSE "POSTED"
      /\ UNCHANGED <<current_stock, stock_ledger, status, default_warehouse>>
  BY DEF Open
<1>3. Tables /\ RowsTell /\ DOMAIN session = Sessions /\ default_warehouse \in Warehouses
      /\ \A t \in Sessions : Busy(t) => Tallied(t) /\ Placed(t)
  BY DEF SInv, Tables, PlacesHold, RowsPlaced
<1>4. /\ \A i, j \in DOMAIN plan : i # j => Differ(d, plan[i], plan[j])
      /\ \A i \in DOMAIN plan : Aimed(name, d, plan[i])
  BY <1>2, <1>3, PlanPlaced DEF PlacesHold
<1>5. PICK q : q = [handler |-> name, doc |-> d, todo |-> plan, orm |-> Preloaded(h, d),
                    touched |-> {}, flushed |-> <<>>, added |-> <<>>]
  OBVIOUS
<1>6. session'[s] = q /\ \A t \in Sessions \ {s} : session'[t] = session[t]
  BY <1>1, <1>3, <1>5 DEF Idle
<1>7. Placed(s)'
  <2>1. \A i \in DOMAIN plan : Aimed(name, d, plan[i])'
    BY <1>2, <1>4 DEF Aimed, At, AsReceived
  <2>2. RowsOf(s)' = <<>> /\ DOMAIN <<>> = {}
    BY <1>5, <1>6 DEF RowsOf
  <2>3. q.handler = name /\ q.doc = d /\ q.todo = plan /\ q.flushed = <<>> /\ q.added = <<>>
    BY <1>5
  <2> QED BY <1>4, <1>6, <2>1, <2>2, <2>3 DEF Placed, Apart
<1>8. ASSUME NEW t \in Sessions, Busy(t)' PROVE Placed(t)'
  <2>1. CASE t = s
    BY <1>7, <2>1
  <2>2. CASE t # s
    <3>1. session'[t] = session[t] /\ Busy(t)
      BY <1>6, <1>8, <2>2 DEF Busy
    <3> QED BY <1>2, <1>3, <3>1, LedgerStays
  <2> QED BY <2>1, <2>2
<1>9. RowsPlaced' /\ RunningBalance' /\ (NoReceipts => NotOverdrawn)'
  BY <1>2, <1>3, LedgerStays
<1> QED BY <1>8, <1>9 DEF PlacesHold

\* A request goes away, and another default place: nothing is moved.
LEMMA RollbackPlaces ==
    ASSUME SInv, PlacesHold, NEW s \in Sessions, Rollback(s)
    PROVE  PlacesHold'
<1>1. /\ session' = [session EXCEPT ![s] = Idle] /\ DOMAIN session = Sessions
      /\ UNCHANGED <<current_stock, stock_ledger, status, default_warehouse>>
      /\ default_warehouse \in Warehouses
      /\ \A t \in Sessions : Busy(t) => Tallied(t) /\ Placed(t)
  BY DEF Rollback, SInv, Tables, PlacesHold, RowsPlaced
<1>2. ASSUME NEW t \in Sessions, Busy(t)' PROVE Placed(t)'
  <2>1. t # s
    BY <1>1, <1>2 DEF Busy, Idle
  <2>2. session'[t] = session[t] /\ Busy(t)
    BY <1>1, <1>2, <2>1 DEF Busy
  <2> QED BY <1>1, <2>2, LedgerStays
<1>3. RowsPlaced' /\ RunningBalance' /\ (NoReceipts => NotOverdrawn)'
  BY <1>1, LedgerStays
<1> QED BY <1>2, <1>3 DEF PlacesHold

\* Nothing moves in the sessions.
LEMMA QuietPlaces ==
    ASSUME SInv, PlacesHold, UNCHANGED <<stock_ledger, status, session>>,
           default_warehouse' \in Warehouses
    PROVE  PlacesHold'
<1>1. \A t \in Sessions : Busy(t) => Tallied(t) /\ Placed(t)
  BY DEF SInv, PlacesHold
<1>2. ASSUME NEW t \in Sessions, Busy(t)' PROVE Placed(t)'
  <2>1. session'[t] = session[t] /\ Busy(t)
    BY <1>2 DEF Busy
  <2> QED BY <1>1, <2>1, LedgerStays
<1>3. RowsPlaced' /\ RunningBalance' /\ (NoReceipts => NotOverdrawn)'
  BY LedgerStays
<1> QED BY <1>2, <1>3 DEF PlacesHold

\* A movement: its row is at the place that it found, and was computed from what is
\* there, since no other row of the request is.
LEMMA MovePlaces ==
    ASSUME SInv, PlacesHold, NEW s \in Sessions, Move(s), SInv'
    PROVE  PlacesHold'
<1>1. PICK q, h, d : q = session[s] /\ h = Handler[q.handler] /\ d = q.doc
  OBVIOUS
<1>2. h = TraitsOf(s)
  BY <1>1 DEF TraitsOf
<1>3. PICK item, p, w : item = Head(q.todo) /\ p = item.product /\ w = PlaceOf(s, item)
  OBVIOUS
<1>4. PICK after : after = IF h.onHand THEN OnHand(s, p) + item.quantity ELSE OnHand(s, p)
  OBVIOUS
<1>5. PICK row : row = [product |-> p, doc |-> d, warehouse |-> w, reversal |-> ~h.posts,
                        quantity |-> item.quantity, balance |-> BalanceAfter(s, item, w, after)]
  OBVIOUS
<1>6. /\ Busy(s) /\ q.todo # <<>> /\ Covered(s, item, w)
      /\ UNCHANGED <<current_stock, stock_ledger, status, default_warehouse>>
      /\ session' = [session EXCEPT
                        ![s].todo = Tail(@),
                        ![s].orm = Loaded(@, p, after),
                        ![s].touched = IF h.onHand THEN @ \cup {p} ELSE @,
                        ![s].flushed = IF h.flushes THEN Append(@, row) ELSE @,
                        ![s].added = IF h.flushes THEN @ ELSE Append(@, row)]
  BY <1>1, <1>2, <1>3, <1>4, <1>5, ZenonT(30) DEF Move
<1>7. Tables /\ RowsTell /\ RowsPlaced /\ Protected(s) /\ Tallied(s) /\ Placed(s)
      /\ (\A t \in Sessions : Busy(t) => Tallied(t) /\ Placed(t))
  BY <1>6 DEF SInv, PlacesHold
<1>8. PICK flushed, added :
          /\ flushed = IF h.flushes THEN Append(q.flushed, row) ELSE q.flushed
          /\ added = IF h.flushes THEN q.added ELSE Append(q.added, row)
  OBVIOUS
<1>9. /\ session'[s].handler = q.handler /\ session'[s].doc = d /\ session'[s].todo = Tail(q.todo)
      /\ session'[s].flushed = flushed /\ session'[s].added = added
      /\ \A t \in Sessions \ {s} : session'[t] = session[t]
  <2>1. DOMAIN session = Sessions /\ DOMAIN q = DOMAIN Idle
    BY <1>1, <1>7 DEF Tables
  <2>2. {"handler", "doc", "todo", "orm", "touched", "flushed", "added"} = DOMAIN Idle
    BY DEF Idle
  <2> QED BY <1>1, <1>6, <1>8, <2>1, <2>2
<1>10. /\ d \in Docs /\ q.handler \in Workflow[TypeOf[d]] /\ q.todo \in Seq(Items)
       /\ q.flushed \in Seq(Entries) /\ q.added \in Seq(Entries) /\ stock_ledger \in Seq(Entries)
  BY <1>1, <1>7 DEF Protected, Tallied, Written, Tables
<1>11. /\ item \in Items /\ item.quantity \in Int /\ Tail(q.todo) \in Seq(Items)
       /\ 1 \in DOMAIN q.todo /\ item = q.todo[1]
  <2>1. item \in Items /\ Tail(q.todo) \in Seq(Items) /\ 1 \in DOMAIN q.todo /\ item = q.todo[1]
    BY <1>3, <1>6, <1>10
  <2> QED BY <2>1 DEF Items
<1>12. h.posts \in BOOLEAN /\ h.flushes \in BOOLEAN /\ Goes(q.handler, TypeOf[d])
  BY <1>1, <1>10, HandlerFacts, HandlerGoes
<1>13. PICK rows : rows = RowsOf(s)
  OBVIOUS
<1>14. /\ rows = (IF h.flushes THEN q.flushed ELSE q.added)
       /\ IF h.flushes THEN q.added = <<>> ELSE q.flushed = <<>>
       /\ \A i \in DOMAIN rows : Fresh(q.handler, d, rows[i])
       /\ \A i \in DOMAIN q.todo : Aimed(q.handler, d, q.todo[i])
       /\ Apart(d, rows, q.todo)
  BY <1>1, <1>2, <1>7, <1>13 DEF Placed, RowsOf
<1>15. /\ w \in Warehouses /\ w # NoPlace
       /\ TypeOf[d] \in {"transfer", "receipt"} => w = item.warehouse
       /\ ~h.posts => At(d, p, w)
  <2>1. Aimed(q.handler, d, item)
    BY <1>11, <1>14
  <2>2. /\ w \in Warehouses
        /\ TypeOf[d] \in {"transfer", "receipt"} => w = item.warehouse
        /\ ~h.posts => At(d, p, w)
    BY <1>1, <1>2, <1>3, <1>7, <1>11, <2>1, PlaceFound
  <2> QED BY <2>2, WorkflowAssumption
<1>16. StockAt(stock_ledger, p, w) \in Int /\ VisibleAt(s, p, w) = StockAt(stock_ledger, p, w)
  <2>1. \A i \in DOMAIN q.flushed : Differ(d, q.flushed[i], item)
    <3>1. CASE h.flushes
      BY <1>11, <1>14, <3>1 DEF Apart
    <3>2. CASE ~h.flushes
      BY <1>14, <3>2
    <3> QED BY <3>1, <3>2
  <2>2. StockAt(q.flushed, p, w) = 0
    <3>1. TypeOf[d] = "transfer" => w = item.warehouse
      BY <1>15
    <3> QED BY <1>3, <2>1, <3>1, NothingThere
  <2>3. StockAt(stock_ledger, p, w) \in Int
    BY <1>10, StockConcat
  <2> QED BY <1>1, <2>2, <2>3 DEF VisibleAt
<1>17. /\ row.product = p /\ row.warehouse = w /\ row.quantity = item.quantity
       /\ row.balance = BalanceAfter(s, item, w, after) /\ row.doc = d
  BY <1>5
<1>18. TypeOf[d] # "receipt" =>
           /\ row.balance = StockAt(stock_ledger, row.product, row.warehouse) + row.quantity
           /\ row.quantity < 0 => row.balance >= 0
  <2>1. SUFFICES ASSUME TypeOf[d] # "receipt"
                 PROVE  /\ row.balance = StockAt(stock_ledger, p, w) + item.quantity
                        /\ item.quantity < 0 => row.balance >= 0
    BY <1>17
  <2>2. h.checks # "onHand" /\ h.balance = "place"
    BY <1>1, <1>12, <2>1 DEF Goes
  <2>3. row.balance = VisibleAt(s, p, w) + item.quantity
    BY <1>2, <1>3, <1>15, <1>17, <2>2 DEF BalanceAfter
  <2>4. item.quantity < 0 => VisibleAt(s, p, w) + item.quantity >= 0
    BY <1>2, <1>3, <1>6, <1>15, <2>2 DEF Covered
  <2> QED BY <1>11, <1>16, <2>3, <2>4
<1>19. Fresh(q.handler, d, row)
  <2>1. AsReceived(d, row)
    <3>1. SUFFICES ASSUME TypeOf[d] = "receipt" PROVE AsReceived(d, row)
      BY DEF AsReceived
    <3>2. AsReceived(d, item)
      BY <1>1, <1>11, <1>12, <1>14, <3>1 DEF Aimed, Goes
    <3> QED BY <1>3, <1>15, <1>17, <3>1, <3>2 DEF AsReceived
  <2>2. ~h.posts => At(d, row.product, row.warehouse)
    BY <1>15, <1>17
  <2> QED BY <1>1, <1>15, <1>17, <1>18, <2>1, <2>2 DEF Fresh
<1>20. row \in Entries /\ rows \in Seq(Entries)
  <2>1. flushed \in Seq(Entries) /\ added \in Seq(Entries)
    <3>1. Busy(s)'
      BY <1>1, <1>6, <1>9 DEF Busy
    <3>2. Tallied(s)'
      BY <3>1 DEF SInv
    <3> QED BY <1>9, <3>2 DEF Tallied, Written
  <2>2. ASSUME NEW x \in Seq(Entries), Append(x, row) \in Seq(Entries) PROVE row \in Entries
    <3>1. Len(x) + 1 \in DOMAIN Append(x, row) /\ Append(x, row)[Len(x) + 1] = row
      OBVIOUS
    <3> QED BY <2>2, <3>1
  <2> QED BY <1>8, <1>10, <1>14, <2>1, <2>2
<1>21. PICK more, rest : more = Append(rows, row) /\ rest = Tail(q.todo)
  OBVIOUS
<1>22. /\ Apart(d, more, rest)
       /\ \A i \in DOMAIN more : more[i] = row \/ \E j \in DOMAIN rows : more[i] = rows[j]
       /\ \A j \in DOMAIN rest : \E i \in DOMAIN q.todo : rest[j] = q.todo[i]
  <2>1. row.product = Head(q.todo).product
        /\ (TypeOf[d] = "transfer" => row.warehouse = Head(q.todo).warehouse)
    BY <1>3, <1>15, <1>17
  <2>2. PICK todo : todo = q.todo
    OBVIOUS
  <2>3. /\ todo \in Seq(Items) /\ todo # <<>> /\ rest = Tail(todo) /\ more = Append(rows, row)
        /\ row.product = Head(todo).product /\ Apart(d, rows, todo)
        /\ (TypeOf[d] = "transfer" => row.warehouse = Head(todo).warehouse)
    BY <1>6, <1>10, <1>14, <1>21, <2>1, <2>2
  <2>4. Apart(d, more, rest) /\ OneMade(rows, row, more, todo, rest)
    BY ONLY <1>20, <2>3, MoveApart
  <2> QED BY <2>2, <2>4 DEF OneMade
<1>23. Placed(s)'
  <2>1. TraitsOf(s)' = h /\ RowsOf(s)' = more
    BY <1>1, <1>8, <1>9, <1>12, <1>14, <1>21 DEF TraitsOf, RowsOf
  <2>2. IF h.flushes THEN added = <<>> ELSE flushed = <<>>
    BY <1>8, <1>14
  <2>3. ASSUME NEW i \in DOMAIN more PROVE Fresh(q.handler, d, more[i])'
    <3>1. Fresh(q.handler, d, more[i])
      BY <1>14, <1>19, <1>22
    <3> QED BY <1>6, <3>1 DEF Fresh, At, AsReceived
  <2>4. ASSUME NEW i \in DOMAIN rest PROVE Aimed(q.handler, d, rest[i])'
    <3>1. Aimed(q.handler, d, rest[i])
      BY <1>14, <1>22
    <3> QED BY <1>6, <3>1 DEF Aimed, At, AsReceived
  <2> QED BY <1>9, <1>21, <1>22, <2>1, <2>2, <2>3, <2>4 DEF Placed
<1>24. ASSUME NEW t \in Sessions, Busy(t)' PROVE Placed(t)'
  <2>1. CASE t = s
    BY <1>23, <2>1
  <2>2. CASE t # s
    <3>1. session'[t] = session[t] /\ Busy(t)
      BY <1>9, <1>24, <2>2 DEF Busy
    <3>2. default_warehouse' \in Warehouses
      BY <1>6, <1>7 DEF RowsPlaced
    <3> QED BY <1>6, <1>7, <3>1, <3>2, LedgerStays
  <2> QED BY <2>1, <2>2
<1>25. RowsPlaced' /\ RunningBalance' /\ (NoReceipts => NotOverdrawn)'
  <2>1. default_warehouse' \in Warehouses
    BY <1>6, <1>7 DEF RowsPlaced
  <2> QED BY <1>6, <2>1, LedgerStays
<1> QED BY <1>24, <1>25 DEF PlacesHold

\* The rows of a commit, after those that are there: the ledger stays placed.
LEMMA RowsPlacedGrows ==
    ASSUME RowsPlaced, RowsTell, stock_ledger \in Seq(Entries), NEW rows \in Seq(Entries),
           NEW d \in Docs, NEW posts \in BOOLEAN,
           status[d] = IF posts THEN "DRAFT" ELSE "POSTED",
           stock_ledger' = stock_ledger \o rows, default_warehouse' = default_warehouse,
           \A e \in Docs : status'[e] = "CANCELLED" => TypeOf[e] # "transfer",
           \A i \in DOMAIN rows : /\ rows[i].doc = d /\ rows[i].reversal = ~posts
                                  /\ rows[i].warehouse \in Warehouses /\ AsReceived(d, rows[i])
                                  /\ ~posts => At(d, rows[i].product, rows[i].warehouse),
           \A i, j \in DOMAIN rows : i # j => Differ(d, rows[i], rows[j])
    PROVE  RowsPlaced'
<1>1. PICK a : a = stock_ledger
  OBVIOUS
<1>2. PICK n \in Nat : n = Len(a)
  BY <1>1
<1>3. PICK c : c = a \o rows /\ c = stock_ledger'
  BY <1>1
<1>4. /\ DOMAIN a = 1 .. n /\ \A i \in DOMAIN a : i \in DOMAIN c /\ c[i] = a[i]
      /\ \A i \in DOMAIN c : i \in DOMAIN a \/ (i - n \in DOMAIN rows /\ c[i] = rows[i - n])
      /\ DOMAIN c \subseteq Int
  BY <1>1, <1>2, <1>3
<1>5. \A i \in DOMAIN a : a[i].doc = d => ~posts /\ ~a[i].reversal
  BY <1>1 DEF RowsTell
<1>6. \A r \in Entries : r.reversal \in BOOLEAN
  BY DEF Entries
<1>7. \A i \in DOMAIN a : a[i].reversal \in BOOLEAN
  BY <1>1, <1>6
<1>8. ASSUME NEW i \in DOMAIN c, NEW j \in DOMAIN c,
             c[i].doc \in Docs, c[j].doc = c[i].doc, TypeOf[c[i].doc] # "transfer",
             c[i].product = c[j].product
      PROVE  c[i].warehouse = c[j].warehouse /\ (c[i].reversal = c[j].reversal => i = j)
  <2>1. CASE i \in DOMAIN a /\ j \in DOMAIN a
    <3>1. c[i] = a[i] /\ c[j] = a[j]
      BY <1>4, <2>1
    <3> QED BY <1>1, <1>8, <2>1, <3>1 DEF RowsPlaced
  <2>2. ASSUME NEW k \in DOMAIN a, NEW m \in DOMAIN rows, a[k].doc = d, a[k].product = rows[m].product,
               TypeOf[d] # "transfer"
        PROVE  a[k].warehouse = rows[m].warehouse /\ a[k].reversal # rows[m].reversal
    <3>1. ~posts /\ ~a[k].reversal /\ a[k].reversal \in BOOLEAN
      BY <1>5, <1>7, <2>2
    <3>2. At(d, rows[m].product, rows[m].warehouse) /\ rows[m].reversal = ~posts
      BY <2>2, <3>1
    <3> QED BY <1>1, <2>2, <3>1, <3>2 DEF At
  <2>3. CASE i \in DOMAIN a /\ j \notin DOMAIN a
    <3>1. c[i] = a[i] /\ j - n \in DOMAIN rows /\ c[j] = rows[j - n]
      BY <1>4, <2>3
    <3>2. a[i].doc = d
      BY <1>8, <3>1
    <3> QED BY <1>8, <2>2, <2>3, <3>1, <3>2
  <2>4. CASE i \notin DOMAIN a /\ j \in DOMAIN a
    <3>1. c[j] = a[j] /\ i - n \in DOMAIN rows /\ c[i] = rows[i - n]
      BY <1>4, <2>4
    <3>2. a[j].doc = d
      BY <1>8, <3>1
    <3> QED BY <1>8, <2>2, <2>4, <3>1, <3>2
  <2>5. CASE i \notin DOMAIN a /\ j \notin DOMAIN a
    <3>1. /\ i - n \in DOMAIN rows /\ c[i] = rows[i - n] /\ j - n \in DOMAIN rows
          /\ c[j] = rows[j - n] /\ i \in Int /\ j \in Int
      BY <1>4, <2>5
    <3>2. c[i].doc = d
      BY <3>1
    <3>3. i - n = j - n
      BY <1>8, <3>1, <3>2 DEF Differ
    <3>4. i = j
      BY <1>2, <3>1, <3>3
    <3> QED BY <3>4
  <2> QED BY <2>1, <2>3, <2>4, <2>5
<1>9. \A i \in DOMAIN c : c[i].warehouse \in Warehouses
  <2>1. \A i \in DOMAIN a : a[i].warehouse \in Warehouses
    BY <1>1 DEF RowsPlaced
  <2> QED BY <1>4, <2>1
<1>10. ASSUME NEW i \in DOMAIN c, c[i].doc \in Docs PROVE AsReceived(c[i].doc, c[i])
  <2>1. CASE i \in DOMAIN a
    BY <1>1, <1>4, <1>10, <2>1 DEF RowsPlaced
  <2>2. CASE i \notin DOMAIN a
    <3>1. i - n \in DOMAIN rows /\ c[i] = rows[i - n]
      BY <1>4, <2>2
    <3>2. c[i].doc = d /\ AsReceived(d, rows[i - n])
      BY <3>1
    <3> QED BY <3>1, <3>2
  <2> QED BY <2>1, <2>2
<1>11. default_warehouse' \in Warehouses
       /\ \A e \in Docs : TypeOf[e] = "transfer" => status'[e] # "CANCELLED"
  BY DEF RowsPlaced
<1>12. c = stock_ledger'
  BY <1>3
<1>13. /\ \A i \in DOMAIN stock_ledger' : stock_ledger'[i].warehouse \in Warehouses
       /\ \A i \in DOMAIN stock_ledger' :
              stock_ledger'[i].doc \in Docs => AsReceived(stock_ledger'[i].doc, stock_ledger'[i])
  BY <1>9, <1>10, <1>12
<1>14. \A i, j \in DOMAIN c :
           LET x == c[i]
               y == c[j]
           IN  x.doc \in Docs /\ y.doc = x.doc /\ TypeOf[x.doc] # "transfer" /\ x.product = y.product =>
                   x.warehouse = y.warehouse /\ (x.reversal = y.reversal => i = j)
  BY <1>8
<1>15. \A i, j \in DOMAIN stock_ledger' :
           LET x == stock_ledger'[i]
               y == stock_ledger'[j]
           IN  x.doc \in Docs /\ y.doc = x.doc /\ TypeOf[x.doc] # "transfer" /\ x.product = y.product =>
                   x.warehouse = y.warehouse /\ (x.reversal = y.reversal => i = j)
  BY ONLY <1>12, <1>14
<1> QED BY <1>11, <1>13, <1>15 DEF RowsPlaced

\* What a commit adds to a place is one row, or nothing: it holds enough.
LEMMA GrowsAtAPlace ==
    ASSUME NEW a \in Seq(Entries), NEW rows \in Seq(Entries), NEW p, NEW w,
           \A i, j \in DOMAIN rows :
               i # j => rows[i].product # rows[j].product \/ rows[i].warehouse # rows[j].warehouse,
           StockAt(a, p, w) >= 0,
           \A i \in DOMAIN rows :
               rows[i].product = p /\ rows[i].warehouse = w /\ rows[i].quantity < 0 =>
                   StockAt(a, p, w) + rows[i].quantity >= 0
    PROVE  StockAt(a \o rows, p, w) >= 0
<1>1. StockAt(a \o rows, p, w) = StockAt(a, p, w) + StockAt(rows, p, w)
      /\ StockAt(a, p, w) \in Int
  BY StockConcat
<1>2. CASE \E k \in DOMAIN rows : rows[k].product = p /\ rows[k].warehouse = w
  <2>1. PICK k \in DOMAIN rows : rows[k].product = p /\ rows[k].warehouse = w
    BY <1>2
  <2>2. \A i \in DOMAIN rows : (rows[i].product = p /\ rows[i].warehouse = w) <=> i = k
    BY <2>1
  <2>3. StockAt(rows, p, w) = rows[k].quantity /\ rows[k].quantity \in Int
    BY <2>2, StockOne
  <2>4. rows[k].quantity < 0 => StockAt(a, p, w) + rows[k].quantity >= 0
    BY <2>1
  <2> QED BY <1>1, <2>3, <2>4
<1>3. CASE ~ \E k \in DOMAIN rows : rows[k].product = p /\ rows[k].warehouse = w
  <2>1. StockAt(rows, p, w) = 0
    BY <1>3, StockNone
  <2> QED BY <1>1, <2>1
<1> QED BY <1>2, <1>3

\* The commit: the rows go to the ledger, where each tells what is at its place.
LEMMA CommitPlaces ==
    ASSUME SInv, PlacesHold, NEW s \in Sessions, Commit(s)
    PROVE  PlacesHold'
<1>1. PICK q, h, d : q = session[s] /\ h = Handler[q.handler] /\ d = q.doc
  OBVIOUS
<1>2. PICK rows : rows = RowsOf(s)
  OBVIOUS
<1>3. h = TraitsOf(s) /\ rows = (IF h.flushes THEN q.flushed ELSE q.added)
  BY <1>1, <1>2 DEF TraitsOf, RowsOf
<1>4. /\ Busy(s) /\ stock_ledger' = stock_ledger \o q.flushed \o q.added
      /\ status' = [status EXCEPT ![d] = IF h.posts THEN "POSTED" ELSE "CANCELLED"]
      /\ session' = [session EXCEPT ![s] = Idle] /\ default_warehouse' = default_warehouse
  BY <1>1, <1>3 DEF Commit
<1>5. /\ Tables /\ RowsTell /\ RowsPlaced /\ Protected(s) /\ Tallied(s) /\ Placed(s)
      /\ \A t \in Sessions : Busy(t) => Protected(t) /\ Tallied(t) /\ Placed(t)
  BY <1>4 DEF SInv, PlacesHold
<1>6. /\ d \in Docs /\ q.handler \in Workflow[TypeOf[d]]
      /\ status[d] = IF h.posts THEN "DRAFT" ELSE "POSTED"
  BY <1>1, <1>3, <1>5 DEF Protected
<1>7. h.posts \in BOOLEAN /\ h.flushes \in BOOLEAN /\ Goes(q.handler, TypeOf[d])
  BY <1>1, <1>6, HandlerFacts, HandlerGoes
<1>8. /\ stock_ledger \in Seq(Entries) /\ q.flushed \in Seq(Entries) /\ q.added \in Seq(Entries)
      /\ IF h.flushes THEN q.added = <<>> ELSE q.flushed = <<>>
  BY <1>1, <1>3, <1>5 DEF Tables, Tallied, Written, Placed
<1>9. /\ rows \in Seq(Entries) /\ stock_ledger' = stock_ledger \o rows
      /\ \A i \in DOMAIN rows : /\ rows[i].doc = d /\ rows[i].reversal = ~h.posts
                                /\ rows[i].product \in DOMAIN q.orm
  <2>1. Written(s, q.flushed) /\ Written(s, q.added)
    BY <1>1, <1>5 DEF Tallied
  <2>2. PICK both : both = stock_ledger \o q.flushed
    OBVIOUS
  <2>3. both \in Seq(Entries) /\ both \o <<>> = both /\ stock_ledger \o <<>> = stock_ledger
    BY <1>8, <2>2
  <2>4. stock_ledger' = stock_ledger \o rows
    <3>1. CASE h.flushes
      BY <1>3, <1>4, <1>8, <2>2, <2>3, <3>1
    <3>2. CASE ~h.flushes
      BY <1>3, <1>4, <1>8, <2>2, <2>3, <3>2
    <3> QED BY <3>1, <3>2
  <2>5. Written(s, rows)
    BY <1>3, <2>1
  <2> QED BY <1>1, <1>3, <2>4, <2>5 DEF Written
<1>10. /\ \A i \in DOMAIN rows : Fresh(q.handler, d, rows[i])
       /\ \A i, j \in DOMAIN rows : i # j => Differ(d, rows[i], rows[j])
  BY <1>1, <1>2, <1>5 DEF Placed, Apart
<1>11. \A i \in DOMAIN rows :
           /\ rows[i].warehouse \in Warehouses /\ AsReceived(d, rows[i])
           /\ ~h.posts => At(d, rows[i].product, rows[i].warehouse)
           /\ TypeOf[d] # "receipt" =>
                  /\ rows[i].balance
                         = StockAt(stock_ledger, rows[i].product, rows[i].warehouse) + rows[i].quantity
                  /\ rows[i].quantity < 0 => rows[i].balance >= 0
  BY <1>1, <1>10 DEF Fresh
<1>12. \A i, j \in DOMAIN rows :
           i # j => rows[i].product # rows[j].product \/ rows[i].warehouse # rows[j].warehouse
  BY <1>10 DEF Differ
<1>13. \A e \in Docs : status'[e] = "CANCELLED" => TypeOf[e] # "transfer"
  <2>1. TypeOf[d] = "transfer" => h.posts
    BY <1>1, <1>7 DEF Goes
  <2>2. \A e \in Docs : TypeOf[e] = "transfer" => status[e] # "CANCELLED"
    BY <1>5 DEF RowsPlaced
  <2>3. DOMAIN status = Docs
    BY <1>5 DEF Tables
  <2> QED BY <1>4, <1>6, <2>1, <2>2, <2>3
<1>14. RowsPlaced'
  <2>1. \A i \in DOMAIN rows : /\ rows[i].doc = d /\ rows[i].reversal = ~h.posts
                               /\ rows[i].warehouse \in Warehouses /\ AsReceived(d, rows[i])
                               /\ ~h.posts => At(d, rows[i].product, rows[i].warehouse)
    BY <1>9, <1>11
  <2>2. PICK posts \in BOOLEAN : posts = h.posts
    BY <1>7
  <2> QED BY <1>4, <1>5, <1>6, <1>8, <1>9, <1>10, <1>13, <2>1, <2>2, RowsPlacedGrows
<1>15. RunningBalance'
  <2>1. PICK a : a = stock_ledger
    OBVIOUS
  <2>2. a \in Seq(Entries) /\ \A i \in DOMAIN a : BalanceHolds(a, i)
    BY <1>8, <2>1 DEF PlacesHold, RunningBalance, BalanceHolds
  <2>3. \A k \in DOMAIN rows :
            ~(rows[k].doc \in Docs /\ TypeOf[rows[k].doc] = "receipt") =>
                rows[k].balance = StockAt(a, rows[k].product, rows[k].warehouse) + rows[k].quantity
    BY <1>6, <1>9, <1>11, <2>1
  <2>4. \A i \in DOMAIN (a \o rows) : BalanceHolds(a \o rows, i)
    BY ONLY <1>9, <1>12, <2>2, <2>3, BalancesConcat
  <2> QED BY <1>9, <2>1, <2>4 DEF RunningBalance, BalanceHolds
<1>16. (NoReceipts => NotOverdrawn)'
  <2>1. ASSUME NoReceipts, NEW p \in Products, NEW w \in Warehouses
        PROVE  StockAt(stock_ledger \o rows, p, w) >= 0
    <3>1. StockAt(stock_ledger, p, w) >= 0
      BY <2>1 DEF PlacesHold, NotOverdrawn
    <3>2. TypeOf[d] # "receipt"
      BY <1>6, <2>1 DEF NoReceipts
    <3>3. \A i \in DOMAIN rows :
              rows[i].product = p /\ rows[i].warehouse = w /\ rows[i].quantity < 0 =>
                  StockAt(stock_ledger, p, w) + rows[i].quantity >= 0
      BY <1>11, <3>2
    <3>4. PICK a : a = stock_ledger
      OBVIOUS
    <3>5. StockAt(a \o rows, p, w) >= 0
      BY <1>8, <1>9, <1>12, <3>1, <3>3, <3>4, GrowsAtAPlace
    <3> QED BY <3>4, <3>5
  <2> QED BY <1>9, <2>1 DEF NoReceipts, NotOverdrawn
<1>17. ASSUME NEW t \in Sessions, Busy(t)' PROVE Placed(t)'
  <2>1. DOMAIN session = Sessions
    BY <1>5 DEF Tables
  <2>2. t # s
    BY <1>4, <1>17, <2>1 DEF Busy, Idle
  <2>3. session'[t] = session[t] /\ Busy(t)
    BY <1>4, <1>17, <2>1, <2>2 DEF Busy
  <2>4. /\ session[t].doc # d
        /\ \A p \in Products : p \in DOMAIN session[t].orm => p \notin DOMAIN q.orm
    BY <1>1, <1>4, <1>5, <2>2, <2>3, NoRival
  <2>5. \A i \in DOMAIN rows : rows[i].product \in Products
    <3>1. \A i \in DOMAIN rows : rows[i] \in Entries
      BY <1>9
    <3> QED BY <3>1 DEF Entries
  <2>6. ASSUME NEW p \in DOMAIN session[t].orm, NEW w \in Warehouses
        PROVE  StockAt(stock_ledger', p, w) = StockAt(stock_ledger, p, w)
    <3>1. \A i \in DOMAIN rows : rows[i].product # p
      BY <1>9, <2>4, <2>5, <2>6
    <3>2. StockAt(rows, p, w) = 0
      BY <3>1, StockNone
    <3>3. StockAt(stock_ledger \o rows, p, w) = StockAt(stock_ledger, p, w) + StockAt(rows, p, w)
          /\ StockAt(stock_ledger, p, w) \in Int
      BY <1>8, <1>9, StockConcat
    <3> QED BY <1>9, <3>2, <3>3
  <2>7. \A k \in DOMAIN stock_ledger' :
            stock_ledger'[k].doc = session[t].doc =>
                \E j \in DOMAIN stock_ledger : stock_ledger'[k] = stock_ledger[j]
    <3>1. \A k \in DOMAIN stock_ledger' :
              \/ k \in DOMAIN stock_ledger /\ stock_ledger'[k] = stock_ledger[k]
              \/ \E i \in DOMAIN rows : stock_ledger'[k] = rows[i]
      BY <1>8, <1>9
    <3> QED BY <1>9, <2>4, <3>1
  <2>8. Tallied(t) /\ Placed(t)
    BY <1>5, <2>3
  <2> QED BY <2>3, <2>6, <2>7, <2>8, OthersPlaced
<1> QED BY <1>14, <1>15, <1>16, <1>17 DEF PlacesHold

\* Every step keeps the places.
LEMMA NextPlaces ==
    LinesPlaced /\ OneLineEach /\ SInv /\ PlacesHold /\ [Next]_vars /\ SInv' => PlacesHold'
<1>1. SUFFICES ASSUME LinesPlaced, OneLineEach, SInv, PlacesHold, [Next]_vars, SInv'
               PROVE  PlacesHold'
  OBVIOUS
<1>2. ASSUME NEW s \in Sessions, NEW d \in Docs, NEW name \in Workflow[TypeOf[d]], Open(s, d, name)
      PROVE  PlacesHold'
  BY <1>1, <1>2, OpenPlaces
<1>3. ASSUME NEW s \in Sessions, Advance(s)
      PROVE  PlacesHold'
  BY <1>1, <1>3, MovePlaces, CommitPlaces, RollbackPlaces DEF Advance, Refuse, DeadlockVictim
<1>4. ASSUME NEW s \in Sessions, Crash(s)
      PROVE  PlacesHold'
  BY <1>1, <1>4, RollbackPlaces DEF Crash
<1>5. ASSUME NEW w \in Warehouses, SwitchDefault(w)
      PROVE  PlacesHold'
  BY <1>1, <1>5, QuietPlaces DEF SwitchDefault
<1>6. CASE UNCHANGED vars
  <2>1. default_warehouse' \in Warehouses
    BY <1>1, <1>6 DEF vars, PlacesHold, RowsPlaced
  <2> QED BY <1>1, <1>6, <2>1, QuietPlaces DEF vars
<1> QED BY <1>1, <1>2, <1>3, <1>4, <1>5, <1>6 DEF Next

\* The company opens with one row for each product that has stock, at the default place.
LEMMA InitPlaces == LinesPlaced /\ Init /\ SInv => PlacesHold
<1>1. SUFFICES ASSUME LinesPlaced, Init, SInv PROVE PlacesHold
  OBVIOUS
<1>2. /\ default_warehouse \in Warehouses /\ session = [s \in Sessions |-> Idle]
      /\ Opening \in [Products -> Nat] /\ Nobody \notin Docs /\ NoPlace \notin Warehouses
  BY <1>1, WorkflowAssumption DEF Init, LinesPlaced
<1>3. PICK scenario : status = [d \in Docs |-> IF d \in scenario THEN "DRAFT" ELSE "ABSENT"]
  BY <1>1 DEF Init
<1>4. PICK S, stocked : S = {p \in Products : Opening[p] > 0} /\ stocked = SetToSeq(S)
  OBVIOUS
<1>5. PICK ledger : ledger = stock_ledger
  OBVIOUS
<1>6. ledger = [i \in DOMAIN stocked |-> OpeningRow(stocked[i])]
  BY <1>1, <1>4, <1>5 DEF Init
<1>7. S \in SUBSET Products /\ IsFiniteSet(S)
  <2>1. S \in SUBSET Products
    BY <1>4
  <2> QED BY <2>1, WorkflowAssumption, FS_Subset
<1>8. stocked \in SetToSeqs(S)
  BY <1>4, <1>7, SomeOrder
<1>9. /\ \A i \in DOMAIN stocked : stocked[i] \in S
      /\ \A i, j \in DOMAIN stocked : stocked[i] = stocked[j] => i = j
  BY <1>7, <1>8, OrderTakesAll
<1>10. DOMAIN ledger = DOMAIN stocked /\ ledger \in Seq(Entries)
  BY <1>1, <1>5, <1>6 DEF SInv, Tables
<1>11. ASSUME NEW i \in DOMAIN ledger
       PROVE  /\ ledger[i].product = stocked[i] /\ ledger[i].doc = Nobody
              /\ ledger[i].warehouse \in Warehouses
              /\ ledger[i].quantity \in Nat /\ ledger[i].balance = ledger[i].quantity
  <2>1. ledger[i] = OpeningRow(stocked[i])
    BY <1>6, <1>10
  <2>2. stocked[i] \in Products /\ Opening[stocked[i]] \in Nat
    BY <1>2, <1>7, <1>9, <1>10
  <2> QED BY <1>2, <2>1, <2>2 DEF OpeningRow
<1>12. RowsPlaced
  <2>1. \A i \in DOMAIN ledger : ledger[i].doc \notin Docs /\ ledger[i].warehouse \in Warehouses
    BY <1>2, <1>11
  <2>2. \A d \in Docs : status[d] # "CANCELLED"
    BY <1>3
  <2> QED BY <1>2, <1>5, <2>1, <2>2 DEF RowsPlaced
<1>13. \A i, j \in DOMAIN ledger :
           i # j => ledger[i].product # ledger[j].product \/ ledger[i].warehouse # ledger[j].warehouse
  BY <1>9, <1>10, <1>11
<1>14. \A p, w : StockAt(<<>>, p, w) = 0
  BY StockNone
<1>15. <<>> \in Seq(Entries) /\ <<>> \o ledger = ledger /\ DOMAIN <<>> = {}
  BY <1>10
<1>16. RunningBalance
  <2>1. PICK none : none = <<>>
    OBVIOUS
  <2>2. none \in Seq(Entries) /\ \A i \in DOMAIN none : BalanceHolds(none, i)
    BY <1>15, <2>1
  <2>3. \A k \in DOMAIN ledger :
            ~(ledger[k].doc \in Docs /\ TypeOf[ledger[k].doc] = "receipt") =>
                ledger[k].balance = StockAt(none, ledger[k].product, ledger[k].warehouse) + ledger[k].quantity
    BY <1>11, <1>14, <2>1
  <2>4. \A i \in DOMAIN (none \o ledger) : BalanceHolds(none \o ledger, i)
    BY ONLY <1>10, <1>13, <2>2, <2>3, BalancesConcat
  <2> QED BY <1>5, <1>15, <2>1, <2>4 DEF RunningBalance, BalanceHolds
<1>17. NotOverdrawn
  <2>1. ASSUME NEW p \in Products, NEW w \in Warehouses PROVE StockAt(ledger, p, w) >= 0
    <3>1. PICK none : none = <<>>
      OBVIOUS
    <3>2. none \in Seq(Entries) /\ StockAt(none, p, w) >= 0 /\ none \o ledger = ledger
      BY <1>14, <1>15, <3>1
    <3>3. \A i \in DOMAIN ledger :
              ledger[i].product = p /\ ledger[i].warehouse = w /\ ledger[i].quantity < 0 =>
                  StockAt(none, p, w) + ledger[i].quantity >= 0
      BY <1>11
    <3>4. StockAt(none \o ledger, p, w) >= 0
      BY ONLY <1>10, <1>13, <3>2, <3>3, GrowsAtAPlace
    <3> QED BY <3>2, <3>4
  <2> QED BY <1>5, <2>1 DEF NotOverdrawn
<1>18. \A s \in Sessions : ~Busy(s)
  BY <1>2 DEF Busy, Idle
<1> QED BY <1>12, <1>16, <1>17, <1>18 DEF PlacesHold

-----------------------------------------------------------------------------
(* What the places say.                                                    *)

\* If all goods are in warehouses, and none is overdrawn, there are goods.
LEMMA PlacesMakeStock ==
    ASSUME SInv, PlacesHold, NotOverdrawn, NEW p \in Products
    PROVE  current_stock[p] >= 0
<1>1. PICK a : a = stock_ledger
  OBVIOUS
<1>2. PICK R : R = OfProduct(a, p)
  OBVIOUS
<1>3. PICK l : l = [i \in R |-> a[i].quantity]
  OBVIOUS
<1>4. PICK at : at = [i \in R |-> a[i].warehouse]
  OBVIOUS
<1>5. PICK X : X = {at[i] : i \in R}
  OBVIOUS
<1>6. a \in Seq(Entries) /\ R \in SUBSET DOMAIN a /\ \A i \in R : a[i] \in Entries /\ a[i].product = p
  BY <1>1, <1>2 DEF SInv, Tables, OfProduct
<1>7. IsFiniteSet(R)
  <2>1. Len(a) \in Nat /\ DOMAIN a = 1 .. Len(a)
    BY <1>6
  <2>2. IsFiniteSet(DOMAIN a)
    BY <2>1, FS_Interval
  <2> QED BY <1>6, <2>2, FS_Subset
<1>8. (\A i \in R : l[i] \in Int) /\ (\A i \in R : at[i] \in X) /\ X \in SUBSET Warehouses
  <2>1. \A i \in R : l[i] \in Int
    BY <1>3, <1>6 DEF Entries
  <2>2. \A i \in R : at[i] \in Warehouses
    BY <1>1, <1>4, <1>6 DEF PlacesHold, RowsPlaced
  <2> QED BY <1>5, <2>1, <2>2
<1>9. IsFiniteSet(X)
  <2>1. at \in Surjection(R, X)
    BY <1>4, <1>5 DEF Surjection
  <2> QED BY <1>7, <2>1, FS_Surjection
<1>10. ASSUME NEW x \in X
       PROVE  /\ StockAt(a, p, x) = SumFunctionOnSet(l, {i \in R : at[i] = x})
              /\ StockAt(a, p, x) \in Nat
  <2>1. PICK G : G = {i \in R : at[i] = x}
    OBVIOUS
  <2>2. {i \in DOMAIN a : a[i].product = p /\ a[i].warehouse = x} = G
    BY <1>2, <1>4, <1>6, <2>1 DEF OfProduct
  <2>3. IsFiniteSet(G) /\ G \in SUBSET R
    <3>1. G \in SUBSET R
      BY <2>1
    <3> QED BY <1>7, <3>1, FS_Subset
  <2>4. PICK g : g = [i \in G |-> a[i].quantity]
    OBVIOUS
  <2>5. \A i \in G : g[i] = l[i]
    BY <1>3, <2>3, <2>4
  <2>6. SumFunctionOnSet(g, G) = SumFunctionOnSet(l, G)
    BY <2>3, <2>5, SumEqual
  <2>7. StockAt(a, p, x) = SumFunctionOnSet(g, G)
    BY <2>2, <2>4 DEF StockAt, Total
  <2>8. StockAt(a, p, x) >= 0 /\ StockAt(a, p, x) \in Int
    <3>1. StockAt(a, p, x) \in Int
      BY <1>6, StockConcat
    <3> QED BY <1>1, <1>8, <3>1 DEF NotOverdrawn
  <2> QED BY <2>1, <2>6, <2>7, <2>8
<1>11. PICK m : m = [x \in X |-> SumFunctionOnSet(l, {i \in R : at[i] = x})]
  OBVIOUS
<1>12. \A x \in X : m[x] \in Nat
  BY <1>10, <1>11
<1>13. SumFunctionOnSet(m, X) = SumFunctionOnSet(l, R)
  BY <1>7, <1>8, <1>9, <1>11, SumPartition
<1>14. SumFunctionOnSet(m, X) \in Nat
  BY <1>9, <1>12, SumNatType
<1>15. current_stock[p] = SumFunctionOnSet(l, R)
  BY <1>1, <1>2, <1>3 DEF SInv, OnHandIsLedger, Total
<1> QED BY <1>13, <1>14, <1>15

\* All goods of a cancelled document of one product are at one place, where they come
\* to nothing.
LEMMA PlacesReverse ==
    ASSUME SInv, PlacesHold
    PROVE  ReversalKeepsPlace
<1>1. SUFFICES ASSUME NEW d \in Docs, NEW p \in Products, NEW w \in Places, status[d] = "CANCELLED"
               PROVE  Total(stock_ledger, {i \in OfDocument(stock_ledger, d) :
                                stock_ledger[i].product = p /\ stock_ledger[i].warehouse = w}) = 0
  BY DEF ReversalKeepsPlace
<1>2. PICK G : G = {i \in OfDocument(stock_ledger, d) :
                       stock_ledger[i].product = p /\ stock_ledger[i].warehouse = w}
  OBVIOUS
<1>3. CASE G = {}
  BY <1>2, <1>3, SumEmpty DEF Total
<1>4. CASE G # {}
  <2>1. PICK k \in G : TRUE
    BY <1>4
  <2>2. TypeOf[d] # "transfer"
    BY <1>1 DEF PlacesHold, RowsPlaced
  <2>3. /\ k \in DOMAIN stock_ledger /\ stock_ledger[k].doc = d /\ stock_ledger[k].product = p
        /\ stock_ledger[k].warehouse = w
    BY <1>2, <2>1 DEF OfDocument
  <2>4. \A i \in DOMAIN stock_ledger :
            stock_ledger[i].doc = d /\ stock_ledger[i].product = p => stock_ledger[i].warehouse = w
    BY <2>2, <2>3 DEF PlacesHold, RowsPlaced
  <2>5. G = OfDocument(stock_ledger, d) \cap OfProduct(stock_ledger, p)
    BY <1>2, <2>4 DEF OfDocument, OfProduct
  <2>6. Total(stock_ledger, OfDocument(stock_ledger, d) \cap OfProduct(stock_ledger, p)) = 0
    BY <1>1 DEF SInv, PostedOnce
  <2> QED BY <1>2, <2>5, <2>6
<1> QED BY <1>3, <1>4

\* If the documents have places and no two lines for a product, the places always hold.
THEOREM PlacesInvariance ==
    ExclusiveRequests /\ LinesPlaced /\ OneLineEach => (Spec => []PlacesHold)
<1> SUFFICES ASSUME ExclusiveRequests, LinesPlaced, OneLineEach PROVE Spec => []PlacesHold
  OBVIOUS
<1>1. SInv /\ PlacesHold /\ [Next]_vars /\ SInv' => PlacesHold'
  BY NextPlaces
<1>2. Init /\ SInv => PlacesHold
  BY InitPlaces
<1> QED BY <1>1, <1>2, StockInvariance, PTL DEF Spec

\* No place is ever overdrawn and each row tells what its place holds with it, for all
\* documents but goods receipts, whose cancellation looks at the company's quantity
\* alone: the checks of get_warehouse_stock, made before the commit, hold after it.
THEOREM PlacesAlwaysAgree ==
    ExclusiveRequests /\ LinesPlaced /\ OneLineEach /\ NoReceipts => (Spec => []PlacesAgree)
<1> SUFFICES ASSUME ExclusiveRequests, LinesPlaced, OneLineEach, NoReceipts
             PROVE  Spec => []PlacesAgree
  OBVIOUS
<1>1. SInv /\ PlacesHold => PlacesAgree
  <2>1. SUFFICES ASSUME SInv, PlacesHold PROVE PlacesAgree
    OBVIOUS
  <2>2. NotOverdrawn /\ RunningBalance
    BY <2>1 DEF PlacesHold
  <2>3. \A p \in Products : current_stock[p] >= 0
    BY <2>1, <2>2, PlacesMakeStock
  <2> QED BY <2>2, <2>3 DEF PlacesAgree, NoOversell, NotOverdrawn
<1> QED BY <1>1, StockInvariance, PlacesInvariance, PTL

\* Each row tells what its place holds with it although receipts are confirmed and
\* cancelled in between (get_stock_balance_after).
THEOREM BalanceAlwaysRuns ==
    ExclusiveRequests /\ LinesPlaced /\ OneLineEach => (Spec => []RunningBalance)
<1> SUFFICES ASSUME ExclusiveRequests, LinesPlaced, OneLineEach PROVE Spec => []RunningBalance
  OBVIOUS
<1>1. PlacesHold => RunningBalance
  BY DEF PlacesHold
<1> QED BY <1>1, PlacesInvariance, PTL

\* A cancelled document leaves nothing anywhere, although the default warehouse may have
\* changed since it was posted (resolve_reversal_warehouse_id).
THEOREM ReversalsKeepTheirPlace ==
    ExclusiveRequests /\ LinesPlaced /\ OneLineEach => (Spec => []ReversalKeepsPlace)
<1> SUFFICES ASSUME ExclusiveRequests, LinesPlaced, OneLineEach PROVE Spec => []ReversalKeepsPlace
  OBVIOUS
<1>1. SInv /\ PlacesHold => ReversalKeepsPlace
  BY PlacesReverse
<1> QED BY <1>1, StockInvariance, PlacesInvariance, PTL
=============================================================================
