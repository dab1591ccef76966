------------------------------- MODULE Ledger -------------------------------
(***************************************************************************)
(* Documents and the general ledger.  A document that counts has one       *)
(* journal entry; taking it back writes a second, reversing entry.  Every  *)
(* entry is inserted, and the balances of its accounts recomputed under    *)
(* row locks, in the transaction that changes the document                 *)
(* (domains/accounting/services.py: commit_ledger_draft).                  *)
(*                                                                         *)
(* A session is one HTTP request and one transaction, on PostgreSQL READ   *)
(* COMMITTED.  The handlers differ in the statuses they accept, whether    *)
(* they lock the document, the entries they write and what they store in   *)
(* the document: each is a record of choices below, from its source.  The  *)
(* corrections (PUT and DELETE) compose several handlers on a session      *)
(* whose commit() only flushes (api/v1/direct_posting_contract.py:         *)
(* DeferredCommitSession), so they are one transaction too.                *)
(***************************************************************************)
EXTENDS Postings, Sequences, FiniteSetsExt, Relation

CONSTANTS
    Docs, Accounts,
    TypeOf,        \* Docs -> Types
    AccountOf,     \* Docs -> Roles -> Accounts
    Opening,       \* Accounts -> opening balance, debit positive, in paise
    Scenarios,     \* the sets of documents that may exist together
    Entered,       \* Types -> the amounts a user may enter
    Imported,      \* Types -> the amounts an importer may bring
    Banked,        \* the documents whose request loads the money account it names
    Sessions, Nobody,
    DraftsSerialised  \* TRUE: a handler that does not lock its draft never
                      \* overlaps a different handler of the same draft

VARIABLES
    status,    \* document status, committed
    deleted,   \* deleted_at is set, committed
    amounts,   \* the stored amounts, committed
    journal,   \* Docs -> Kinds -> the committed entry, or Nothing
    balance,   \* accounts.current_balance, debit positive, committed
    skipped,   \* history: the accounts whose balance the last request that changed
               \* their ledger left unwritten
    row_lock,  \* the session holding a document or an account
    session

vars == <<status, deleted, amounts, journal, balance, skipped, row_lock, session>>

Lockable == Docs \cup Accounts

NoEntries == [k \in Kinds |-> Nothing]

NoAmounts == [net |-> 0, shipping |-> 0, tax |-> 0, tds |-> 0, tcs |-> 0, roundOff |-> 0]

-----------------------------------------------------------------------------
(* The handlers, as the choices that matter to the ledger.                 *)
(*  from      the statuses it accepts; ABSENT: it creates the document.    *)
(*            IMPORTED stands for SENT and UNPAID, which only importers    *)
(*            set, with the entry already posted                           *)
(*  locks     it selects the document FOR UPDATE                           *)
(*  writes    the kind of entry it writes for the document, or "nothing"   *)
(*  to        the status it stores, or "same"                              *)
(*  amends    it stores new amounts                                        *)
(*  deletes   it sets deleted_at                                           *)
(*  replaces  it creates and posts a replacement in the same transaction   *)
(*  shipping  it passes shipping_charges on to the entry builder           *)
Base == [from |-> {"DRAFT"}, locks |-> TRUE, writes |-> "nothing", to |-> "same", amends |-> FALSE,
         deletes |-> FALSE, replaces |-> FALSE, shipping |-> TRUE]

SaveDraft == [Base EXCEPT !.from = {"ABSENT"}, !.to = "DRAFT", !.amends = TRUE]
Create == [SaveDraft EXCEPT !.to = "POSTED", !.writes = "posting"]
Import == [Create EXCEPT !.to = "IMPORTED"]
EditDraft == [Base EXCEPT !.amends = TRUE]
Finalize == [Base EXCEPT !.writes = "posting", !.to = "POSTED"]
PostExpense == [Finalize EXCEPT !.locks = FALSE]
DeleteDraft == [Base EXCEPT !.deletes = TRUE]
BulkDelete == [DeleteDraft EXCEPT !.locks = FALSE]
Cancel == [Base EXCEPT !.from = {"POSTED"}, !.writes = "reversal", !.to = "CANCELLED"]
CancelInvoice == [Cancel EXCEPT !.shipping = FALSE]
CancelExpense == [Cancel EXCEPT !.locks = FALSE]
Delete == [Cancel EXCEPT !.from = {"POSTED", "IMPORTED"}, !.deletes = TRUE]
Replace == [Delete EXCEPT !.replaces = TRUE]

Handler == [
    save_draft |-> SaveDraft, create |-> Create, import |-> Import,
    edit_draft |-> EditDraft, finalize |-> Finalize, post_expense |-> PostExpense,
    delete_draft |-> DeleteDraft, bulk_delete |-> BulkDelete,
    cancel |-> Cancel, cancel_invoice |-> CancelInvoice, cancel_expense |-> CancelExpense,
    delete |-> Delete, replace |-> Replace]

Drafting == {"save_draft", "edit_draft", "delete_draft"}
Correcting == {"create", "delete", "replace"}

\* The handlers that can be called for each type of document.
Workflow == [
    invoice |-> Drafting \cup Correcting \cup {"import", "finalize", "bulk_delete", "cancel_invoice"},
    bill |-> Drafting \cup Correcting \cup {"import", "finalize", "bulk_delete", "cancel"},
    expense |-> Drafting \cup Correcting \cup {"post_expense", "cancel_expense"},
    receipt |-> Correcting \cup {"cancel"},
    disbursement |-> Correcting \cup {"cancel"},
    credit_note |-> Correcting,
    debit_note |-> Correcting,
    sales_return |-> Correcting \cup {"cancel"},
    purchase_return |-> Correcting \cup {"cancel"}]

\* The handlers that load the money account of the request before they insert anything,
\* not FOR UPDATE and in a variable that keeps the object in the session, by the line
\* they will write on it: create_expense with a bank account, and the payments pushed by
\* a device.
Loading ==
    [expense |-> [role |-> "party", handlers |-> {"create", "replace"}],
     receipt |-> [role |-> "nominal", handlers |-> {"create"}],
     disbursement |-> [role |-> "nominal", handlers |-> {"create"}]]

ASSUME LedgerAssumption ==
    /\ TypeOf \in [Docs -> Types] /\ AccountOf \in [Docs -> [Roles -> Accounts]]
    /\ Opening \in [Accounts -> Int] /\ Scenarios \subseteq SUBSET Docs
    /\ \A type \in Types : Entered[type] \subseteq Amounts /\ Imported[type] \subseteq Amounts
    /\ Nobody \notin Sessions \cup Docs \cup Accounts /\ Docs \cap Accounts = {}
    /\ Banked \subseteq {d \in Docs : TypeOf[d] \in DOMAIN Loading}
    /\ DraftsSerialised \in BOOLEAN /\ IsFiniteSet(Docs) /\ IsFiniteSet(Accounts)

-----------------------------------------------------------------------------
Item(d, kind, a) == [doc |-> d, kind |-> kind, amounts |-> a]

LinesOf(item) == IF item.kind = "posting" THEN PostingOf(TypeOf[item.doc], item.amounts)
                 ELSE ReversalOf(TypeOf[item.doc], item.amounts)

\* The accounts an entry has a line on.
AccountsOf(d, lines) == {AccountOf[d][r] : r \in {r \in Roles : lines[r] # 0}}

Idle == [handler |-> "idle", doc |-> Nobody, amounts |-> NoAmounts, spare |-> Nobody,
         spareAmounts |-> NoAmounts, todo |-> <<>>, written |-> {}, locking |-> {},
         computed |-> <<>>, loaded |-> <<>>, unwritten |-> {}]

Busy(s) == session[s].handler # "idle"
TraitsOf(s) == Handler[session[s].handler]

Init ==
    /\ \E scenario \in Scenarios :
           status = [d \in Docs |-> IF d \in scenario THEN "ABSENT" ELSE "UNUSED"]
    /\ deleted = [d \in Docs |-> FALSE]
    /\ amounts = [d \in Docs |-> NoAmounts]
    /\ journal = [d \in Docs |-> NoEntries]
    /\ balance = Opening /\ skipped = {}
    /\ row_lock = [x \in Lockable |-> Nobody]
    /\ session = [s \in Sessions |-> Idle]

-----------------------------------------------------------------------------
\* The entries a handler writes, in order.
Plan(h, d, a, spare, b) ==
    LET own == Item(d, h.writes, IF h.shipping THEN a ELSE [a EXCEPT !.shipping = 0])
    IN  CASE h.writes = "nothing" -> <<>>
          [] h.writes # "nothing" /\ ~h.replaces -> <<own>>
          [] OTHER -> <<own, Item(spare, "posting", b)>>

\* The amounts a handler may store in a document of a type.
AmountsFor(name, type) == IF name = "import" THEN Imported[type] ELSE Entered[type]

\* The assumption DraftsSerialised, which the code does not enforce.
Overlaps(name, other) ==
    /\ "DRAFT" \in Handler[name].from /\ "DRAFT" \in Handler[other].from
    /\ name # other
    /\ ~(Handler[name].locks /\ Handler[other].locks)

Serialised(d, name) ==
    DraftsSerialised =>
        \A other \in Sessions :
            Busy(other) /\ session[other].doc = d => ~Overlaps(name, session[other].handler)

\* Mutant: the document is read without FOR UPDATE.
CanOpenUnlocked(s, d, name) ==
    ~Busy(s) /\ Serialised(d, name) /\ status[d] \in Handler[name].from /\ ~deleted[d]

\* The request finds its document: lock, status guard.
CanOpen(s, d, name) ==
    LET h == Handler[name]
    IN  /\ ~Busy(s) /\ Serialised(d, name)
        /\ status[d] \in h.from /\ ~deleted[d]
        /\ h.locks => row_lock[d] = Nobody

\* The documents a correction may create: a new row, which nobody else sees.
Spares(d, name) ==
    IF Handler[name].replaces
    THEN {r \in Docs \ {d} : /\ TypeOf[r] = TypeOf[d]
                             /\ status[r] = "ABSENT" /\ row_lock[r] = Nobody}
    ELSE {Nobody}

\* The account a request has loaded when it comes to the first entry of todo.
Selects(name, todo) ==
    IF todo = <<>> THEN {}
    ELSE {AccountOf[item.doc][Loading[TypeOf[item.doc]].role] :
              item \in {i \in {Head(todo)} : /\ i.kind = "posting" /\ i.doc \in Banked
                                            /\ name \in Loading[TypeOf[i.doc]].handlers}}

Open(s, d, name) ==
    LET h == Handler[name]
        type == TypeOf[d]
        choices == AmountsFor(name, type)
    IN  /\ CanOpen(s, d, name)
        /\ \E spare \in Spares(d, name) :
           \E a \in (IF h.amends THEN choices ELSE {amounts[d]}) :
           \E b \in (IF h.replaces THEN choices ELSE {NoAmounts}) :
               /\ LET plan == Plan(h, d, a, spare, b) IN
                  session' = [session EXCEPT ![s] =
                      [Idle EXCEPT !.handler = name, !.doc = d, !.amounts = a,
                                   !.spare = spare, !.spareAmounts = b, !.todo = plan,
                                   !.loaded = [x \in Selects(name, plan) |-> balance[x]]]]
               /\ row_lock' = [x \in Lockable |->
                      IF x = spare \/ (x = d /\ h.locks) THEN s ELSE row_lock[x]]
        /\ UNCHANGED <<status, deleted, amounts, journal, balance, skipped>>

-----------------------------------------------------------------------------
\* Mutant: neither the query nor the unique index looks for an earlier entry.
NeverPosted(item) == FALSE

\* _check_no_existing_posting, or the unique index on (tenant, source type, source).
AlreadyPosted(item) == journal[item.doc][item.kind] # Nothing

\* The sessions whose uncommitted entry has the same source: the unique index
\* makes the insert wait for them.
Rivals(s, item) ==
    {other \in Sessions \ {s} :
        \E e \in session[other].written : e.doc = item.doc /\ e.kind = item.kind}

\* commit_ledger_draft up to the flush: the entry is validated and inserted.
Insert(s) ==
    /\ Busy(s) /\ session[s].todo # <<>> /\ session[s].locking = {}
    /\ LET item == Head(session[s].todo)
           lines == LinesOf(item)
       IN  /\ Rivals(s, item) = {}
           /\ ~AlreadyPosted(item)
           /\ Accepted(item.amounts)
           /\ session' = [session EXCEPT
                  ![s].todo = Tail(@),
                  ![s].written = @ \cup {[doc |-> item.doc, kind |-> item.kind, lines |-> lines]},
                  ![s].locking = AccountsOf(item.doc, lines)]
    /\ UNCHANGED <<status, deleted, amounts, journal, balance, skipped, row_lock>>

\* update_account_balances: SELECT ... FOR UPDATE meets the rows in any order.
LockAccount(s, x) ==
    /\ x \in session[s].locking /\ row_lock[x] = Nobody
    /\ row_lock' = [row_lock EXCEPT ![x] = s]
    /\ UNCHANGED <<status, deleted, amounts, journal, balance, skipped, session>>

LinesOn(d, lines, x) ==
    SumFunctionOnSet(lines, {r \in Roles : AccountOf[d][r] = x})

\* What the committed entries come to on an account.
Booked(x) ==
    SumFunctionOnSet([d \in Docs |-> LinesOn(d, journal[d].posting, x) + LinesOn(d, journal[d].reversal, x)],
                     {d \in Docs : journal[d] # NoEntries})

\* The SUMs of update_account_balances: committed lines and the session's own.
Recomputed(s, x) ==
    LET written == session[s].written
    IN  Opening[x] + Booked(x) + SumFunctionOnSet([e \in written |-> LinesOn(e.doc, e.lines, x)], written)

\* Mutant: the sums are read before the accounts are locked.
HoldsNone(s) == TRUE

HoldsAccounts(s) == \A x \in session[s].locking : row_lock[x] = s

\* What the row of an account holds in the transaction of s.
Stored(s, x) == IF x \in DOMAIN session[s].computed THEN session[s].computed[x] ELSE balance[x]

\* An account loaded before keeps the balance it was loaded with: the query that locks
\* it does not refresh the object (no populate_existing).  An attribute set to the value
\* it has is no change, and no UPDATE is emitted.
Unchanged(s, x) ==
    x \in DOMAIN session[s].loaded /\ session[s].loaded[x] = Recomputed(s, x)

\* With the accounts locked, their balances are recomputed from the lines and written,
\* unless that changes nothing in the session.  A replacement is created next.
Recompute(s) ==
    LET q == session[s]
        written == [x \in DOMAIN q.computed \cup q.locking |->
                       IF x \in q.locking /\ ~Unchanged(s, x) THEN Recomputed(s, x) ELSE Stored(s, x)]
    IN  /\ q.locking # {} /\ HoldsAccounts(s)
        /\ session' = [session EXCEPT
               ![s].computed = written,
               ![s].unwritten = (@ \ q.locking)
                   \cup {x \in q.locking : Unchanged(s, x) /\ Stored(s, x) # q.loaded[x]},
               ![s].loaded = [x \in Selects(q.handler, q.todo) |->
                                 IF x \in DOMAIN written THEN written[x] ELSE balance[x]],
               ![s].locking = {}]
        /\ UNCHANGED <<status, deleted, amounts, journal, balance, skipped, row_lock>>

Released(s) == [x \in Lockable |-> IF row_lock[x] = s THEN Nobody ELSE row_lock[x]]

\* The committed entry of a source after s commits.
EntryAfter(s, d, k) ==
    LET mine == {e \in session[s].written : e.doc = d /\ e.kind = k}
    IN  IF mine = {} THEN journal[d][k] ELSE (CHOOSE e \in mine : TRUE).lines

StatusAfter(s, d) ==
    IF d = session[s].spare THEN "POSTED"
    ELSE IF d = session[s].doc /\ TraitsOf(s).to # "same" THEN TraitsOf(s).to ELSE status[d]

AmountsAfter(s, d) ==
    IF d = session[s].spare THEN session[s].spareAmounts
    ELSE IF d = session[s].doc /\ TraitsOf(s).amends THEN session[s].amounts ELSE amounts[d]

\* flush and COMMIT.  An UPDATE of a document the handler did not lock waits here.
Commit(s) ==
    /\ Busy(s) /\ session[s].todo = <<>> /\ session[s].locking = {}
    /\ row_lock[session[s].doc] \in {Nobody, s}
    /\ status' = [d \in Docs |-> StatusAfter(s, d)]
    /\ deleted' = [d \in Docs |-> deleted[d] \/ (d = session[s].doc /\ TraitsOf(s).deletes)]
    /\ amounts' = [d \in Docs |-> AmountsAfter(s, d)]
    /\ journal' = [d \in Docs |-> [k \in Kinds |-> EntryAfter(s, d, k)]]
    /\ balance' = [x \in Accounts |-> IF x \in DOMAIN session[s].computed
                                      THEN session[s].computed[x] ELSE balance[x]]
    /\ skipped' = {x \in Accounts : IF x \in DOMAIN session[s].computed
                                    THEN x \in session[s].unwritten ELSE x \in skipped}
    /\ row_lock' = Released(s)
    /\ session' = [session EXCEPT ![s] = Idle]

\* Mutant: get_db_session does not close the session, whose locks stay.
RollbackKeepsLocks(s) ==
    /\ session' = [session EXCEPT ![s] = Idle]
    /\ UNCHANGED <<status, deleted, amounts, journal, balance, skipped, row_lock>>

Rollback(s) ==
    /\ row_lock' = Released(s)
    /\ session' = [session EXCEPT ![s] = Idle]
    /\ UNCHANGED <<status, deleted, amounts, journal, balance, skipped>>

\* "Duplicate posting blocked", an entry that does not balance, or the table's
\* constraints: the whole request is rolled back.
Refuse(s) ==
    /\ Busy(s) /\ session[s].todo # <<>> /\ session[s].locking = {}
    /\ LET item == Head(session[s].todo)
       IN  /\ Rivals(s, item) = {}
           /\ AlreadyPosted(item) \/ ~Accepted(item.amounts)
    /\ Rollback(s)

\* The sessions that the next statement of s waits for.
Blockers(s) ==
    LET waiting == session[s].locking
        held == {row_lock[x] : x \in waiting} \ {s}
    IN  CASE ~Busy(s) -> {}
          [] Busy(s) /\ waiting # {} -> IF Nobody \in held THEN {} ELSE held
          [] Busy(s) /\ waiting = {} /\ session[s].todo # <<>> -> Rivals(s, Head(session[s].todo))
          [] OTHER -> {row_lock[session[s].doc]} \ {Nobody, s}

InCycle(s) ==
    LET waits == [p \in Sessions \X Sessions |-> p[2] \in Blockers(p[1])]
    IN  TransitiveClosure(waits, Sessions)[<<s, s>>]

\* PostgreSQL cancels one transaction of a lock cycle.
DeadlockVictim(s) == InCycle(s) /\ Rollback(s)

\* The process dies, or the request raises, before COMMIT.
Crash(s) == Busy(s) /\ Rollback(s)

Advance(s) ==
    \/ Insert(s)
    \/ \E x \in Accounts : LockAccount(s, x)
    \/ Recompute(s)
    \/ Commit(s)
    \/ Refuse(s)
    \/ DeadlockVictim(s)

Next ==
    \E s \in Sessions : \/ \E d \in Docs : \E name \in Workflow[TypeOf[d]] : Open(s, d, name)
                        \/ Advance(s)
                        \/ Crash(s)

\* A worker that is not waiting goes on, and lock queues are served in order,
\* so a waiter whose lock becomes free again and again gets it.
Fairness == \A s \in Sessions : SF_vars(Advance(s))

Spec == Init /\ [][Next]_vars
FairSpec == Spec /\ Fairness

-----------------------------------------------------------------------------
\* Types, and the lock discipline: only a request in flight holds a row, a
\* request whose handler locks its document holds it until it ends, and so
\* does one that creates a replacement.
TypeOK ==
    /\ status \in [Docs -> {"UNUSED", "ABSENT", "DRAFT", "IMPORTED", "POSTED", "CANCELLED"}]
    /\ deleted \in [Docs -> BOOLEAN] /\ amounts \in [Docs -> Amounts]
    /\ journal \in [Docs -> [Kinds -> [Roles -> Int]]] /\ DOMAIN balance = Accounts
    /\ skipped \subseteq Accounts
    /\ row_lock \in [Lockable -> Sessions \cup {Nobody}]
    /\ \A x \in Lockable : row_lock[x] # Nobody => Busy(row_lock[x])
    /\ \A s \in Sessions :
           Busy(s) => /\ TraitsOf(s).locks => row_lock[session[s].doc] = s
                      /\ session[s].spare # Nobody => row_lock[session[s].spare] = s

\* A document counts in the books from posting to cancellation or deletion.
Counts(d) == status[d] \in {"POSTED", "IMPORTED"} /\ ~deleted[d]

Net(d, r) == journal[d].posting[r] + journal[d].reversal[r]

\* The books say what the documents say: the entries of a document come, line
\* by line, to the posting of the amounts it shows if it counts, and to nothing
\* otherwise - whatever was edited, posted, reversed, replaced, refused,
\* retried or interrupted, and by however many requests at once.
LedgerMatchesDocument ==
    \A d \in Docs, r \in Roles :
        Net(d, r) = IF Counts(d) THEN PostingOf(TypeOf[d], amounts[d])[r] ELSE 0

\* accounts.current_balance is the opening balance and the journal lines of the
\* account (update_account_balances), though several requests recompute it.  It is
\* off exactly while the last request to post to the account was one that had loaded
\* it before it locked it and came to the balance it had loaded.
BalanceIsLedger ==
    \A x \in Accounts : balance[x] = Opening[x] + Booked(x) <=> x \notin skipped

\* The trial balance does not move: every committed change of balances adds up
\* to zero over the accounts, whatever the rounding of the amounts, as long as no
\* balance is left unwritten; once it is written again the two sides meet again.
TrialBalance ==
    skipped = {} => SumFunctionOnSet(balance, Accounts) = SumFunctionOnSet(Opening, Accounts)

\* Every request ends: accounts locked in any order, entries waiting for the
\* unique index and documents locked last never block each other for ever.
EveryRequestEnds == \A s \in Sessions : Busy(s) ~> ~Busy(s)

-----------------------------------------------------------------------------
(* What the documentation says of the code, for the runs that refute it.   *)

\* "Cancellation creates a reversing JournalEntry"
\* (docs/accounting_direct_posting_redesign.md:114): an invoice cancelled through
\* POST /invoices/{id}/cancel leaves nothing in the books.
CancellationReverses ==
    \A d \in Docs, r \in Roles :
        status[d] = "CANCELLED" /\ ~deleted[d] => Net(d, r) = 0

\* A bill deleted after it was imported leaves nothing in the books, not even
\* its round-off.
DeletionReverses ==
    \A d \in Docs, r \in Roles : deleted[d] => Net(d, r) = 0

\* "Only draft invoices can be deleted": no deleted document was ever posted,
\* unless its posting was reversed.
OnlyDraftsBulkDeleted ==
    \A d \in Docs :
        deleted[d] /\ journal[d].posting # Nothing => journal[d].reversal # Nothing
=============================================================================
