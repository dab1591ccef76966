------------------------------- MODULE Banking -------------------------------
(***************************************************************************)
(* Bank statements and their reconciliation.  A file becomes a statement   *)
(* of transactions; a transaction is matched with a receipt or a           *)
(* disbursement by hand, in bulk or by score, and a match may be undone.   *)
(* No handler locks what it reads and no index backs its checks, so one    *)
(* request at a time is ASSUMED: each is one action.                       *)
(***************************************************************************)
EXTENDS Integers, Sequences, FiniteSets, FiniteSetsExt, SequencesExt

CONSTANTS
    Files, RowsOf,   \* Files -> sequences of [dated, on, debit, credit]; columns of one side
    Sided,           \* only, without the other, make a file unreadable: Files -> BOOLEAN
    Payments, PaymentOf,   \* Payments -> [amount, on]: receipts, then disbursements
    MaxUploads, MaxMatches   \* bounds of the model: statements at once, matches ever made

VARIABLES
    statement,  \* the file of a statement; "none" before its upload and after its deletion
    status,     \* of transactions: <<statement, line>>
    rows,       \* bank_reconciliations: [id, tx, payment, auto]
    matches,    \* how many were made, the next id
    active      \* payments that are not cancelled

vars == <<statement, status, rows, matches, active>>

None == "none"
Statements == 1 .. MaxUploads

\* A line of a spreadsheet or of a csv file; deposits are positive.
Line(r) == [on |-> r.on, dated |-> r.dated, amount |-> r.credit - r.debit,
            blank |-> r.credit = 0 /\ r.debit = 0]
\* parse_csv_statement, parse_excel_statement: lines without a date or an amount are
\* skipped, and so is every line when only one of the two sides has a column.
Parsed(f) ==
    IF Sided[f] THEN <<>>
    ELSE SelectSeq([i \in DOMAIN RowsOf[f] |-> Line(RowsOf[f][i])], LAMBDA r : r.dated /\ ~r.blank)
StatementDate(f) == Min({Parsed(f)[i].on : i \in DOMAIN Parsed(f)})

Distance(a, b) == IF a > b THEN a - b ELSE b - a
Tx == {t \in Statements \X (1 .. Max({Len(RowsOf[f]) : f \in Files})) : status[t] # None}
Of(t) == Parsed(statement[t[1]])[t[2]]

Init ==
    /\ statement = [n \in Statements |-> None]
    /\ status = [t \in Statements \X (1 .. Max({Len(RowsOf[f]) : f \in Files})) |-> None]
    /\ rows = {} /\ matches = 0 /\ active = [p \in Payments |-> TRUE]

-----------------------------------------------------------------------------
(* Statements.                                                             *)

\* upload_bank_statement: one statement for a date.
Upload(n, f) ==
    /\ statement[n] = None /\ \A m \in 1 .. n - 1 : statement[m] # None
    /\ Parsed(f) # <<>>
    /\ \A m \in Statements : statement[m] # None => StatementDate(statement[m]) # StatementDate(f)
    /\ statement' = [statement EXCEPT ![n] = f]
    /\ status' = [t \in DOMAIN status |->
                     IF t[1] = n /\ t[2] <= Len(Parsed(f)) THEN "PENDING" ELSE status[t]]
    /\ UNCHANGED <<rows, matches, active>>

\* delete_bank_statement, with its transactions.
Delete(n) ==
    /\ statement[n] # None /\ \A t \in Tx : t[1] = n => status[t] # "RECONCILED"
    /\ statement' = [statement EXCEPT ![n] = None]
    /\ status' = [t \in DOMAIN status |-> IF t[1] = n THEN None ELSE status[t]]
    /\ UNCHANGED <<rows, matches, active>>

\* get_statement_stats: transactions counted by status, amounts summed by sign.
Stats(n) ==
    LET own == {t \in Tx : t[1] = n}
        reconciled == Cardinality({t \in own : status[t] = "RECONCILED"})
        sum(S) == FoldSet(LAMBDA t, total : total + Distance(Of(t).amount, 0), 0, S)
    IN  [total |-> Cardinality(own), reconciled |-> reconciled,
         pending |-> Cardinality(own) - reconciled,
         credits |-> sum({t \in own : Of(t).amount > 0}),
         debits |-> sum({t \in own : Of(t).amount < 0})]

-----------------------------------------------------------------------------
(* Matches.                                                                *)

\* 40, 30 or 20 for the amount, whichever way the money went, 30, 25, 15 or 5 for the
\* date; references are left out.  Amounts are in hundredths.
Score(t, p) ==
    LET away == Distance(Distance(Of(t).amount, 0), PaymentOf[p].amount)
        days == Distance(Of(t).on, PaymentOf[p].on)
    IN  (IF away < 1 THEN 40 ELSE IF away < 100 THEN 30
         ELSE IF away * 100 < 5 * Max({PaymentOf[p].amount, 100}) THEN 20 ELSE 0)
        + (IF days <= 1 THEN 30 ELSE IF days <= 3 THEN 25 ELSE IF days <= 7 THEN 15
           ELSE IF days <= 14 THEN 5 ELSE 0)

\* Mutant: payments that are matched already are candidates again.
CandidateAgain(p) == active[p]
Candidate(p) == active[p] /\ \A r \in rows : r.payment # p

\* The best candidate of at least 60 points that is not taken yet.
Best(t, taken) == {p \in Payments \ taken :
    /\ Candidate(p) /\ Score(t, p) >= 60
    /\ \A q \in Payments \ taken : Candidate(q) => Score(t, q) <= Score(t, p)}
Greedy(n) ==
    LET pending == SetToSortSeq({t \in Tx : t[1] = n /\ status[t] = "PENDING"},
                                LAMBDA t, u : Of(t).on < Of(u).on \/ (Of(t).on = Of(u).on /\ t[2] < u[2]))
        taken(pairs) == {pairs[i].payment : i \in DOMAIN pairs}
    IN  FoldLeft(LAMBDA pairs, t :
                     IF Best(t, taken(pairs)) = {} THEN pairs
                     ELSE Append(pairs, [tx |-> t, payment |-> CHOOSE p \in Best(t, taken(pairs)) : TRUE]),
                 <<>>, pending)

Matched(pairs, auto) ==
    /\ pairs # <<>> /\ matches + Len(pairs) <= MaxMatches
    /\ rows' = rows \cup {[id |-> matches + i, tx |-> pairs[i].tx, payment |-> pairs[i].payment,
                           auto |-> auto] : i \in DOMAIN pairs}
    /\ matches' = matches + Len(pairs)
    /\ status' = [t \in DOMAIN status |->
                     IF \E i \in DOMAIN pairs : pairs[i].tx = t THEN "RECONCILED" ELSE status[t]]
    /\ UNCHANGED <<statement, active>>

\* auto_match_transactions
AutoMatch(n) == statement[n] # None /\ Matched(Greedy(n), TRUE)

\* get_match_suggestions: up to three payments of 40 points or more, whether they are
\* matched already or not.
Suggested(t, p) ==
    /\ status[t] = "PENDING" /\ active[p] /\ Score(t, p) >= 40
    /\ Cardinality({q \in Payments : active[q] /\ Score(t, q) > Score(t, p)}) < 3

\* Mutant: a transaction that is matched already may be matched again.
OpenAny(t) == t \in Tx
Open(t) == t \in Tx /\ status[t] = "PENDING" /\ \A r \in rows : r.tx # t

\* reconcile_bank_transaction: with any payment, matched or cancelled as it may be.
Reconcile(t, p) == Open(t) /\ Matched(<<[tx |-> t, payment |-> p]>>, FALSE)

\* bulk_reconcile: the items that can be matched, in one transaction.  An item that
\* names no payment makes the commit fail for all of them.
BulkReconcile(t, u, p, q) ==
    t # u /\ Matched(SelectSeq(<<[tx |-> t, payment |-> p], [tx |-> u, payment |-> q]>>,
                              LAMBDA i : Open(i.tx)), FALSE)

\* undo_bank_reconciliation
Undo(r) ==
    /\ rows' = rows \ {r}
    /\ status' = [status EXCEPT ![r.tx] = "PENDING"]
    /\ UNCHANGED <<statement, matches, active>>

\* A payment is cancelled without a look at what it was matched with.
CancelPayment(p) ==
    /\ active[p] /\ active' = [active EXCEPT ![p] = FALSE]
    /\ UNCHANGED <<statement, status, rows, matches>>

Next ==
    \/ \E n \in Statements : Delete(n) \/ AutoMatch(n) \/ \E f \in Files : Upload(n, f)
    \/ \E t \in Tx, p \in Payments :
        Reconcile(t, p) \/ \E u \in Tx, q \in Payments : BulkReconcile(t, u, p, q)
    \/ \E r \in rows : Undo(r)
    \/ \E p \in Payments : CancelPayment(p)

Spec == Init /\ [][Next]_vars

-----------------------------------------------------------------------------
TypeOK ==
    /\ statement \in [Statements -> Files \cup {None}]
    /\ \A t \in DOMAIN status : status[t] \in {None, "PENDING", "RECONCILED"}
    /\ \A r \in rows : r.id \in 1 .. matches /\ r.payment \in Payments

\* A match never outlives its transaction, and a transaction is RECONCILED exactly
\* while it has a match, and then one, so that a statement's figures add up: what the
\* statistics call pending is what may still be matched.  No two statements have one
\* date.  A payment that a score has matched was not matched before, by anyone.
MatchedOnce ==
    /\ \A r \in rows : r.tx \in Tx
    /\ \A t \in Tx : Cardinality({r \in rows : r.tx = t}) = IF status[t] = "RECONCILED" THEN 1 ELSE 0
    /\ \A n \in Statements :
        /\ Stats(n).pending = Cardinality({t \in Tx : t[1] = n /\ Open(t)})
        /\ Stats(n).reconciled = Cardinality({r \in rows : r.tx[1] = n})
    /\ \A m, n \in Statements : m # n /\ statement[m] # None /\ statement[n] # None
           => StatementDate(statement[m]) # StatementDate(statement[n])
    /\ \A r, o \in rows : r.auto /\ r # o /\ r.payment = o.payment => o.id > r.id /\ ~o.auto
    /\ \A r \in rows : r.auto => Score(r.tx, r.payment) >= 60
=============================================================================
