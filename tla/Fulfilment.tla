----------------------------- MODULE Fulfilment -----------------------------
(***************************************************************************)
(* Goods received against purchase order lines, and goods returned against *)
(* invoice and bill lines: every handler compares a new quantity with what *)
(* remains of its source line.  A receipt is a DRAFT that is confirmed or  *)
(* cancelled later; a return is posted when it is created.  The source is  *)
(* locked (the order line, the invoice, the bill) while it is compared; a  *)
(* receipt is cancelled without any lock.                                  *)
(***************************************************************************)
EXTENDS Integers, Sequences, FiniteSets, Functions

CONSTANTS OrderLines, InvoiceLines, BillLines,   \* the source lines
          Ordered,   \* SourceLines -> quantity on the line
          NamedBy,   \* SourceLines -> the receipts or returns that may name the line
          Payloads,  \* what a request may list for one line: sequences of quantities
          Callers    \* requests

VARIABLES line_status,   \* of receipts and returns; "unused": the document names a line that
                         \* is not the one of this behaviour
          lines,         \* their quantities
          goods,         \* what the stock ledger took in, net, for a receipt
          line_lock, line_request,
          alone          \* TRUE: no request overlaps the cancellation of a receipt

fulfilment == <<line_status, lines, goods, line_lock, line_request, alone>>

SourceLines == OrderLines \cup InvoiceLines \cup BillLines
Naming(from) == UNION {NamedBy[l] : l \in from}
Receipts == Naming(OrderLines)
SalesReturns == Naming(InvoiceLines)
PurchaseReturns == Naming(BillLines)
Slips == Naming(SourceLines)
LineOf(d) == CHOOSE l \in SourceLines : d \in NamedBy[l]
None == "none"
NoCall == [op |-> "idle", doc |-> None, lines |-> <<>>, saw |-> None]

\* A line has an id and a kind of its own, and a receipt or return names one line.
ASSUME FulfilmentAssumption ==
    /\ OrderLines \cap InvoiceLines = {} /\ OrderLines \cap BillLines = {}
    /\ InvoiceLines \cap BillLines = {} /\ SourceLines \cap Slips = {} /\ IsFiniteSet(Slips)
    /\ \A l, k \in SourceLines : l # k => NamedBy[l] \cap NamedBy[k] = {}
    /\ \A l \in SourceLines : Ordered[l] \in Nat
    /\ Payloads \subseteq Seq(Nat) /\ None \notin Callers \cup Slips

FulfilmentInit ==
    /\ \E line \in SourceLines :
           line_status = [d \in Slips |-> IF d \in NamedBy[line] THEN None ELSE "unused"]
    /\ lines = [d \in Slips |-> <<>>]
    /\ goods = [d \in Receipts |-> 0]
    /\ line_lock = [r \in SourceLines \cup Slips |-> None]
    /\ line_request = [s \in Callers |-> NoCall]
    /\ alone \in BOOLEAN

-----------------------------------------------------------------------------
SumOf(q) == SumFunctionOnSet(q, DOMAIN q)

\* What some receipts or returns list.
Listed(slips) == SumFunctionOnSet([d \in slips |-> SumOf(lines[d])], slips)

\* Receipts count while they are DRAFT or CONFIRMED, returns while POSTED.
Counts(d) == line_status[d] \in IF d \in Receipts THEN {"DRAFT", "CONFIRMED"} ELSE {"POSTED"}

\* Mutant: drafts are not counted.
AlreadyConfirmed(l, own) ==
    Listed({d \in Slips \ {own} : LineOf(d) = l /\ line_status[d] \in {"CONFIRMED", "POSTED"}})

\* _received_qty_for_po_line without the receipt itself; prior quantities of returns
Already(l, own) == Listed({d \in Slips \ {own} : LineOf(d) = l /\ Counts(d)})

\* Each line of the request is compared alone with what remains.
Fits(d, q) == \A i \in DOMAIN q : q[i] <= Ordered[LineOf(d)] - Already(LineOf(d), d)

Take(s, op, d, q, rows) ==
    /\ line_request[s].op = "idle" /\ \A r \in rows : line_lock[r] = None
    /\ alone => \A t \in Callers :
           line_request[t].op # "cancel" /\ (op = "cancel" => line_request[t].op = "idle")
    /\ line_lock' = [r \in SourceLines \cup Slips |-> IF r \in rows THEN s ELSE line_lock[r]]
    /\ line_request' = [line_request EXCEPT
                           ![s] = [op |-> op, doc |-> d, lines |-> q, saw |-> line_status[d]]]
    /\ UNCHANGED <<line_status, lines, goods, alone>>

BeginCreate(s, d, q) ==
    /\ line_status[d] = None /\ \A t \in Callers : line_request[t].doc # d
    /\ Fits(d, q)
    /\ Take(s, "create", d, q, {LineOf(d)})

CreateReceipt(s, d, q) == d \in Receipts /\ BeginCreate(s, d, q)
CreateSalesReturn(s, d, q) == d \in SalesReturns /\ BeginCreate(s, d, q)
CreatePurchaseReturn(s, d, q) == d \in PurchaseReturns /\ BeginCreate(s, d, q)

\* confirm_goods_receipt compares again.
BeginConfirm(s, d) ==
    /\ line_status[d] = "DRAFT" /\ Fits(d, lines[d])
    /\ Take(s, "confirm", d, <<>>, {d, LineOf(d)})

\* cancel_goods_receipt
BeginCancel(s, d) == line_status[d] \in {"DRAFT", "CONFIRMED"} /\ Take(s, "cancel", d, <<>>, {})

BeginUndo(s, d) == line_status[d] = "POSTED" /\ Take(s, "undo", d, <<>>, {d})
UndoSalesReturn(s, d) == d \in SalesReturns /\ BeginUndo(s, d)
UndoPurchaseReturn(s, d) == d \in PurchaseReturns /\ BeginUndo(s, d)

LetGo(s) ==
    /\ line_lock' = [r \in SourceLines \cup Slips |-> IF line_lock[r] = s THEN None ELSE line_lock[r]]
    /\ line_request' = [line_request EXCEPT ![s] = NoCall]

CommitCreate(s) ==
    LET d == line_request[s].doc
    IN  /\ line_request[s].op = "create"
        /\ line_status' = [line_status EXCEPT ![d] = IF d \in Receipts THEN "DRAFT" ELSE "POSTED"]
        /\ lines' = [lines EXCEPT ![d] = line_request[s].lines]
        /\ LetGo(s) /\ UNCHANGED <<goods, alone>>

CommitConfirm(s) ==
    LET d == line_request[s].doc
    IN  /\ line_request[s].op = "confirm"
        /\ line_status' = [line_status EXCEPT ![d] = "CONFIRMED"]
        /\ goods' = [goods EXCEPT ![d] = @ + SumOf(lines[d])]
        /\ LetGo(s) /\ UNCHANGED <<lines, alone>>

\* The stock of a receipt that was read as CONFIRMED goes out again.
CommitCancel(s) ==
    LET d == line_request[s].doc
    IN  /\ line_request[s].op = "cancel" /\ line_lock[d] = None
        /\ line_status' = [line_status EXCEPT ![d] = "CANCELLED"]
        /\ goods' = [goods EXCEPT
                        ![d] = IF line_request[s].saw = "CONFIRMED" THEN @ - SumOf(lines[d]) ELSE @]
        /\ LetGo(s) /\ UNCHANGED <<lines, alone>>

CommitUndo(s) ==
    /\ line_request[s].op = "undo"
    /\ line_status' = [line_status EXCEPT ![line_request[s].doc] = "CANCELLED"]
    /\ LetGo(s) /\ UNCHANGED <<lines, goods, alone>>

\* Any exception: a locked period, consumed stock, a filed return.
Abandon(s) == line_request[s].op # "idle" /\ LetGo(s) /\ UNCHANGED <<line_status, lines, goods, alone>>

FulfilmentNext == \E s \in Callers :
    \/ \E d \in Slips, q \in Payloads :
        CreateReceipt(s, d, q) \/ CreateSalesReturn(s, d, q) \/ CreatePurchaseReturn(s, d, q)
    \/ \E d \in Receipts : BeginConfirm(s, d) \/ BeginCancel(s, d)
    \/ \E d \in Slips : UndoSalesReturn(s, d) \/ UndoPurchaseReturn(s, d)
    \/ CommitCreate(s) \/ CommitConfirm(s) \/ CommitCancel(s) \/ CommitUndo(s) \/ Abandon(s)

FulfilmentSpec == FulfilmentInit /\ [][FulfilmentNext]_fulfilment

-----------------------------------------------------------------------------
FulfilmentTypeOK ==
    /\ line_status \in [Slips -> {None, "unused", "DRAFT", "CONFIRMED", "POSTED", "CANCELLED"}]
    /\ lines \in [Slips -> Seq(Nat)] /\ goods \in [Receipts -> Int]
    /\ \A r \in SourceLines \cup Slips : line_lock[r] # None => line_request[line_lock[r]].op # "idle"

\* What is received against an order line never exceeds the order, and what is
\* returned never exceeds what was sold or bought, however requests interleave;
\* where no cancellation overlaps another request, neither do the goods in stock.
\* A request that lists one source line twice is not covered (Payloads).
WithinSource == \A l \in SourceLines :
    /\ Listed({d \in Slips : LineOf(d) = l /\ Counts(d)}) <= Ordered[l]
    /\ alone => \A d \in NamedBy[l] \cap Receipts :
           goods[d] = IF line_status[d] = "CONFIRMED" THEN SumOf(lines[d]) ELSE 0
=============================================================================
