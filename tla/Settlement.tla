----------------------------- MODULE Settlement -----------------------------
(***************************************************************************)
(* Receivables and payables: invoices and bills (Docs), the receipts and   *)
(* disbursements that settle them (Payments), credit notes (Notes), and    *)
(* the advances kept in contacts.credit_balance.                           *)
(*                                                                         *)
(* amount_paid is a running total: every handler reads it into the ORM,    *)
(* adds or subtracts, and writes an absolute value back when it commits.   *)
(* Receipts and disbursements lock the documents they settle; credit notes *)
(* lock neither the invoice nor anything else of the customer, and a       *)
(* disbursement does not lock its contact.  A request is one transaction:  *)
(* Open takes the locks, checks and reads, Commit writes.  PUT and DELETE  *)
(* of a receipt or a note run cancel and create in one transaction.        *)
(***************************************************************************)
EXTENDS Integers, FiniteSetsExt

CONSTANTS
    Docs, Payments, Notes, Contacts, Sessions, Nobody,
    KindOf,      \* Docs and Payments -> "invoice" (sales side) or "bill"
    ContactOf,   \* Docs and Payments -> Contacts
    Payable,     \* Docs -> total, for a bill less the TDS withheld
    Imported,    \* Docs -> amount_paid that an import brought along
    Scenarios,   \* what may exist together: payments and notes, and the documents
                 \* that an importer left SENT or UNPAID
    Portions,    \* the amounts a user may allocate
    Advances,    \* the amounts a user may leave unallocated
    UnlockedAlone, \* TRUE: a request that writes what it read unlocked runs alone
    NotesFirst     \* TRUE: POST /invoices/{id}/cancel is not used while a credit
                   \* note is active

VARIABLES
    paid,      \* amount_paid, committed
    status,    \* status of a document, committed
    stage,     \* payments and notes: ABSENT, ACTIVE, CANCELLED, or UNUSED in this run
    portion,   \* payment_allocations, or the total of a note on its invoice
    advance,   \* the unallocated part of a payment
    credit,    \* contacts.credit_balance, committed
    row_lock,
    session

vars == <<paid, status, stage, portion, advance, credit, row_lock, session>>

Ids == Payments \cup Notes
Rows == Docs \cup Ids \cup Contacts
NoPortion == [d \in Docs |-> 0]

ASSUME SettlementAssumption ==
    /\ KindOf \in [Docs \cup Payments -> {"invoice", "bill"}]
    /\ ContactOf \in [Docs \cup Payments -> Contacts]
    /\ Payable \in [Docs -> Nat \ {0}] /\ Imported \in [Docs -> Nat]
    /\ \A d \in Docs : Imported[d] <= Payable[d]
    /\ Scenarios \subseteq [ids : SUBSET Ids, sent : SUBSET Docs]
    /\ Portions \subseteq Nat \ {0} /\ Advances \subseteq Nat
    /\ Nobody \notin Rows \cup Sessions
    /\ Docs \cap Ids = {} /\ Docs \cap Contacts = {} /\ Ids \cap Contacts = {}
    /\ Payments \cap Notes = {} /\ IsFiniteSet(Payments) /\ IsFiniteSet(Notes)
    /\ UnlockedAlone \in BOOLEAN /\ NotesFirst \in BOOLEAN

\* The statuses in which a document takes a payment.
Receivable(d) == IF KindOf[d] = "invoice" THEN {"POSTED", "SENT", "PARTIALLY_PAID"}
                 ELSE {"POSTED", "PARTIALLY_PAID"}

\* The status after an addition to amount_paid.
StatusUp(d, amount) == IF amount >= Payable[d] THEN "PAID" ELSE "PARTIALLY_PAID"

\* The amount and the status after a subtraction.
Floor(x) == IF x <= 0 THEN 0 ELSE x
StatusDownPosted(amount) == "POSTED"
StatusDown(amount) == IF amount <= 0 THEN "POSTED" ELSE "PARTIALLY_PAID"

Idle == [op |-> "idle", gone |-> Nobody, new |-> Nobody, doc |-> Nobody, alloc |-> NoPortion,
         extra |-> 0, saw |-> NoPortion, seen |-> [c \in Contacts |-> 0]]

Busy(s) == session[s].op # "idle"

Init ==
    /\ paid = Imported
    /\ \E scenario \in Scenarios :
           /\ stage = [i \in Ids |-> IF i \in scenario.ids THEN "ABSENT" ELSE "UNUSED"]
           /\ status = [d \in Docs |->
                  IF Imported[d] > 0 THEN StatusUp(d, Imported[d])
                  ELSE IF d \notin scenario.sent THEN "POSTED"
                  ELSE IF KindOf[d] = "invoice" THEN "SENT" ELSE "UNPAID"]
    /\ portion = [i \in Ids |-> NoPortion]
    /\ advance = [i \in Ids |-> 0]
    /\ credit = [c \in Contacts |-> 0]
    /\ row_lock = [r \in Rows |-> Nobody]
    /\ session = [s \in Sessions |-> Idle]

-----------------------------------------------------------------------------
Touches(p) == {d \in Docs : p[d] > 0}

\* amount_paid of d once settlement i is taken back; i may be Nobody.
Without(amounts, i) ==
    [d \in Docs |-> IF i \in Ids /\ portion[i][d] > 0 THEN Floor(amounts[d] - portion[i][d])
                    ELSE amounts[d]]

StatusWithout(amounts, i) ==
    [d \in Docs |-> IF i \in Ids /\ portion[i][d] > 0
                    THEN StatusDown(amounts[d] - portion[i][d]) ELSE status[d]]

\* Requests that write what they have read without a lock: credit notes (the
\* invoice) and new disbursements (the contact).
Unlocked(i, j) ==
    \/ i \in Notes \/ j \in Notes
    \/ /\ j \in Payments /\ KindOf[j] = "bill"
       /\ i \in Payments => ContactOf[i] # ContactOf[j]

UnlockedSession(s) == Busy(s) /\ Unlocked(session[s].gone, session[s].new)

\* The assumption UnlockedAlone, which the code does not enforce.
Alone(i, j) ==
    UnlockedAlone => /\ Unlocked(i, j) => \A t \in Sessions : ~Busy(t)
                     /\ \A t \in Sessions : ~UnlockedSession(t)

\* Mutants of Begin: the contact, or the documents, are read but not locked.
BeginContactsUnlocked(s, op, i, j, d, p, extra, locks) ==
    /\ ~Busy(s) /\ Alone(i, j)
    /\ \A r \in locks \ Contacts : row_lock[r] = Nobody
    /\ row_lock' = [r \in Rows |-> IF r \in locks \ Contacts THEN s ELSE row_lock[r]]
    /\ session' = [session EXCEPT ![s] = [op |-> op, gone |-> i, new |-> j, doc |-> d, alloc |-> p,
                                          extra |-> extra, saw |-> paid, seen |-> credit]]
    /\ UNCHANGED <<paid, status, stage, portion, advance, credit>>
BeginDocsUnlocked(s, op, i, j, d, p, extra, locks) ==
    /\ ~Busy(s) /\ Alone(i, j)
    /\ \A r \in locks \ Docs : row_lock[r] = Nobody
    /\ row_lock' = [r \in Rows |-> IF r \in locks \ Docs THEN s ELSE row_lock[r]]
    /\ session' = [session EXCEPT ![s] = [op |-> op, gone |-> i, new |-> j, doc |-> d, alloc |-> p,
                                          extra |-> extra, saw |-> paid, seen |-> credit]]
    /\ UNCHANGED <<paid, status, stage, portion, advance, credit>>

\* The request s takes its locks, reads, and keeps what it is going to do.
Begin(s, op, i, j, d, p, extra, locks) ==
    /\ ~Busy(s) /\ Alone(i, j)
    /\ \A r \in locks : row_lock[r] = Nobody
    /\ row_lock' = [r \in Rows |-> IF r \in locks THEN s ELSE row_lock[r]]
    /\ session' = [session EXCEPT ![s] = [op |-> op, gone |-> i, new |-> j, doc |-> d, alloc |-> p,
                                          extra |-> extra, saw |-> paid, seen |-> credit]]
    /\ UNCHANGED <<paid, status, stage, portion, advance, credit>>

\* A payment may be allocated to documents of its side and contact ...
Allocations == [j \in Payments |->
    {p \in [Docs -> Portions \cup {0}] :
        \A d \in Docs : p[d] > 0 => KindOf[d] = KindOf[j] /\ ContactOf[d] = ContactOf[j]}]

\* ... in a status that takes payments, up to what remains on each.
Allocates(p, amounts, statuses) ==
    \A d \in Touches(p) :
        /\ statuses[d] \in Receivable(d)
        /\ p[d] <= Payable[d] - amounts[d]

\* create_payment_receipt, create_vendor_payment
OpenMake(s, j, p, extra) ==
    /\ stage[j] = "ABSENT" /\ j \in Payments
    /\ extra > 0 \/ Touches(p) # {}
    /\ Allocates(p, paid, status)
    /\ Begin(s, "make", Nobody, j, Nobody, p, extra,
             Touches(p) \cup (IF KindOf[j] = "invoice" THEN {ContactOf[j]} ELSE {}))

\* An advance that is no longer in the credit balance cannot be taken back.
AdvanceLeft(i) == advance[i] > 0 => credit[ContactOf[i]] >= advance[i]

\* cancel_payment_receipt, cancel_vendor_payment, and DELETE, which calls them
OpenCancel(s, i) ==
    /\ i \in Payments /\ stage[i] = "ACTIVE"
    /\ AdvanceLeft(i)
    /\ Begin(s, "cancel", i, Nobody, Nobody, NoPortion, 0,
             {i, ContactOf[i]} \cup Touches(portion[i]))

\* PUT /payments/receipts/{id}, PUT /payments/disbursements/{id}
OpenReplace(s, i, j, p, extra) ==
    /\ {i, j} \subseteq Payments /\ KindOf[i] = KindOf[j]
    /\ stage[i] = "ACTIVE" /\ stage[j] = "ABSENT"
    /\ AdvanceLeft(i)
    /\ extra > 0 \/ Touches(p) # {}
    /\ Allocates(p, Without(paid, i), StatusWithout(paid, i))
    /\ Begin(s, "replace", i, j, Nobody, p, extra,
             {i, ContactOf[i]} \cup Touches(portion[i]) \cup Touches(p)
                 \cup (IF KindOf[j] = "invoice" THEN {ContactOf[j]} ELSE {}))

\* direct_create_credit_note: the invoice is read, not locked; the total of a
\* note is not compared with what remains.
OpenNote(s, j, d, x) ==
    /\ j \in Notes /\ stage[j] = "ABSENT"
    /\ KindOf[d] = "invoice" /\ status[d] # "CANCELLED"
    /\ Begin(s, "make", Nobody, j, Nobody, [NoPortion EXCEPT ![d] = x], 0, {})

\* direct_delete_credit_note
OpenCancelNote(s, i) ==
    /\ i \in Notes /\ stage[i] = "ACTIVE"
    /\ Begin(s, "cancel", i, Nobody, Nobody, NoPortion, 0, {i})

\* direct_update_credit_note: cancelled first, so the guard of the new note sees
\* the status that leaves.
OpenReplaceNote(s, i, j, d, x) ==
    /\ {i, j} \subseteq Notes /\ stage[i] = "ACTIVE" /\ stage[j] = "ABSENT"
    /\ KindOf[d] = "invoice" /\ StatusWithout(paid, i)[d] # "CANCELLED"
    /\ Begin(s, "replace", i, j, Nobody, [NoPortion EXCEPT ![d] = x], 0, {i})

\* POST /invoices/{id}/cancel and /bills/{id}/cancel: no allocation, even of a
\* cancelled payment; credit notes are not looked at.
OpenVoid(s, d) ==
    /\ status[d] \in {"POSTED", "PARTIALLY_PAID"}
    /\ \A i \in Payments : portion[i][d] = 0
    /\ NotesFirst => \A n \in Notes : stage[n] = "ACTIVE" => portion[n][d] = 0
    /\ Begin(s, "void", Nobody, Nobody, d, NoPortion, 0, {d})

\* PUT and DELETE of a document: nothing live may depend on it.
OpenCorrect(s, d) ==
    /\ status[d] \in {"POSTED", "SENT", "UNPAID", "PARTIALLY_PAID"}
    /\ \A i \in Ids : stage[i] = "ACTIVE" => portion[i][d] = 0
    /\ Begin(s, "correct", Nobody, Nobody, d, NoPortion, 0, {d})

Open(s) ==
    \/ \E j \in Payments : \E p \in Allocations[j], extra \in Advances :
           \/ OpenMake(s, j, p, extra)
           \/ \E i \in Payments : OpenReplace(s, i, j, p, extra)
    \/ \E i \in Ids : OpenCancel(s, i) \/ OpenCancelNote(s, i)
    \/ \E j \in Notes, d \in Docs, x \in Portions :
           OpenNote(s, j, d, x) \/ \E i \in Notes : OpenReplaceNote(s, i, j, d, x)
    \/ \E d \in Docs : OpenVoid(s, d) \/ OpenCorrect(s, d)

-----------------------------------------------------------------------------
ReleaseKeepingLocks(s) == session' = [session EXCEPT ![s] = Idle] /\ UNCHANGED row_lock

Release(s) ==
    /\ row_lock' = [r \in Rows |-> IF row_lock[r] = s THEN Nobody ELSE row_lock[r]]
    /\ session' = [session EXCEPT ![s] = Idle]

\* An UPDATE waits for the row.
Writable(s, rows) == \A r \in rows : row_lock[r] \in {Nobody, s}

TakenFrom(i) == IF i \in Ids THEN Touches(portion[i]) ELSE {}
AdvanceOf(i, c) == IF i \in Payments THEN (IF ContactOf[i] = c THEN advance[i] ELSE 0) ELSE 0

\* The credit balance that s writes, from what it read.
Credited(s, c) ==
    LET q == session[s]
    IN  IF AdvanceOf(q.gone, c) > 0 \/ (q.new \in Payments /\ q.extra > 0 /\ ContactOf[q.new] = c)
        THEN q.seen[c] - AdvanceOf(q.gone, c)
             + (IF q.new \in Payments /\ ContactOf[q.new] = c THEN q.extra ELSE 0)
        ELSE credit[c]

\* amount_paid and status that s writes, from what it read.
Settled(s, d) ==
    LET q == session[s]
    IN  IF d \in TakenFrom(q.gone) \cup Touches(q.alloc)
        THEN Without(q.saw, q.gone)[d] + q.alloc[d] ELSE paid[d]

StatusSettled(s, d) ==
    LET q == session[s]
    IN  IF q.alloc[d] > 0 THEN StatusUp(d, Settled(s, d)) ELSE StatusWithout(q.saw, q.gone)[d]

\* Commit of a request that makes, takes back or replaces a settlement.  The CHECK
\* constraints of the tables refuse more than the total.
CommitSettlement(s) ==
    LET q == session[s]
    IN  /\ Busy(s) /\ q.doc = Nobody
        /\ Writable(s, TakenFrom(q.gone) \cup Touches(q.alloc))
        /\ Writable(s, {c \in Contacts : Credited(s, c) # credit[c]})
        /\ \A d \in Docs : 0 <= Settled(s, d) /\ Settled(s, d) <= Payable[d]
        /\ paid' = [d \in Docs |-> Settled(s, d)]
        /\ status' = [d \in Docs |-> StatusSettled(s, d)]
        /\ credit' = [c \in Contacts |-> Credited(s, c)]
        /\ stage' = [i \in Ids |-> IF i = q.gone THEN "CANCELLED"
                                   ELSE IF i = q.new THEN "ACTIVE" ELSE stage[i]]
        /\ portion' = [i \in Ids |-> IF i = q.new THEN q.alloc ELSE portion[i]]
        /\ advance' = [i \in Ids |-> IF i = q.new THEN q.extra ELSE advance[i]]
        /\ Release(s)

\* Commit of a request that cancels or corrects a document.
CommitVoid(s) ==
    LET d == session[s].doc
    IN  /\ Busy(s) /\ d # Nobody
        /\ paid' = [paid EXCEPT ![d] = 0]
        /\ status' = [status EXCEPT ![d] = "CANCELLED"]
        /\ Release(s)
        /\ UNCHANGED <<stage, portion, advance, credit>>

\* A request fails: any exception, a CHECK constraint, a deadlock the database ends.
Rollback(s) ==
    /\ Busy(s)
    /\ Release(s)
    /\ UNCHANGED <<paid, status, stage, portion, advance, credit>>

Next == \E s \in Sessions : Open(s) \/ CommitSettlement(s) \/ CommitVoid(s) \/ Rollback(s)

Spec == Init /\ [][Next]_vars
-----------------------------------------------------------------------------
Statuses == {"POSTED", "SENT", "UNPAID", "PARTIALLY_PAID", "PAID", "CANCELLED"}

\* Every variable keeps its shape; a lock is held only by a busy request.
TypeOK ==
    /\ paid \in [Docs -> Nat] /\ status \in [Docs -> Statuses]
    /\ stage \in [Ids -> {"UNUSED", "ABSENT", "ACTIVE", "CANCELLED"}]
    /\ portion \in [Ids -> [Docs -> Nat]] /\ advance \in [Ids -> Nat]
    /\ credit \in [Contacts -> Int]
    /\ row_lock \in [Rows -> Sessions \cup {Nobody}]
    /\ \A r \in Rows : row_lock[r] # Nobody => Busy(row_lock[r])
    /\ session \in [Sessions ->
          [op : {"idle", "make", "cancel", "replace", "void", "correct"},
           gone : Ids \cup {Nobody}, new : Ids \cup {Nobody}, doc : Docs \cup {Nobody},
           alloc : [Docs -> Nat], extra : Nat, saw : [Docs -> Nat], seen : [Contacts -> Int]]]

\* What is owed on a document follows, step by step, from the settlements made and
\* taken back and from nothing else: no update is lost, no amount is clamped away,
\* nothing is settled on a cancelled document, and a cancelled document stays so.
Promise == INSTANCE Claims WITH
    Claim <- Docs, Ids <- Ids, Amounts <- Portions \cup {0},
    Start <- [d \in Docs |-> Payable[d] - Imported[d]],
    owed <- [d \in Docs |-> IF status[d] = "CANCELLED" THEN 0 ELSE Payable[d] - paid[d]],
    portions <- [i \in Ids |-> IF stage[i] = "ACTIVE" THEN portion[i] ELSE NoPortion],
    open <- [d \in Docs |-> status[d] # "CANCELLED"]

KeepsPromise == Promise!Spec

\* A document on which something remains can be paid, and one that is settled is
\* PAID: the status never hides a debt from the outstanding lists
\* (list_customer_outstanding_invoices, list_vendor_outstanding_bills), whatever the
\* order of receipts, cancellations and notes.  Bills that an importer left UNPAID
\* are the exception: create_vendor_payment does not take them.
StatusTellsDebt ==
    \A d \in Docs :
        /\ status[d] \in Receivable(d) <=> status[d] \notin {"PAID", "CANCELLED", "UNPAID"}
        /\ status[d] \in Receivable(d) => paid[d] < Payable[d]
        /\ status[d] = "PAID" => paid[d] = Payable[d]
        /\ status[d] \in {"POSTED", "SENT", "UNPAID", "CANCELLED"} => paid[d] = 0

\* The credit balance of a contact is the sum of the advances of its active receipts
\* and disbursements: none is lost, doubled, or taken back twice, although the two
\* sides of a contact share one balance.
CreditIsAdvances ==
    \A c \in Contacts :
        credit[c] = SumFunctionOnSet([i \in Payments |-> AdvanceOf(i, c)],
                                     {i \in Payments : stage[i] = "ACTIVE"})

\* A status says how much of a document is paid, and a contact's credit is what its
\* payments left unallocated.
DebtsAgree == StatusTellsDebt /\ CreditIsAdvances
=============================================================================
