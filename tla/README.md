# Verification of the Bookkeeping backend

TLA+ models of the accounting backend under `src/backend/src`, model-checked
with TLC, and theorems about them proved with TLAPS. The program is a FastAPI
service over PostgreSQL: every HTTP request runs in a worker thread with a
SQLAlchemy session of its own (`core/database.py`: READ COMMITTED,
`autoflush=False`), and all the state that matters is in the database. What can
go wrong is therefore what several transactions do to the same rows, in which
order they lock them, what they read before a lock and use after it, and what a
retry, a crash or a refused step leaves behind; and, where one request suffices,
what a long sequence of legal requests makes of totals that are kept in two
places.

## 1. Inventory

| Component | State | Operations | Talks to | Modelled in |
|---|---|---|---|---|
| Idempotency (`api/idempotency_middleware.py`, `core/idempotency.py`) | one `idempotency_keys` row per key, tenant, method and path | claim, answer from the row, reclaim, mark in the business transaction, store the outcome, clean up | wraps every financial handler; its hook writes inside the handler's transaction | `Idempotency` |
| Posting engine (`domains/accounting/services.py`) | none | build the entry of a document, build its reversal, validate, quantize | called by `auto_post` | `Postings` |
| Documents and the general ledger (`api/v1/*.py`, `domains/accounting/auto_post.py`) | status, `deleted_at` and amounts of a document; `journal_entries`, `journal_lines`; `accounts.current_balance` | draft, create, import, edit, finalize, cancel, delete, replace, bulk delete | posting engine, stock, tax engine | `Ledger` |
| Stock (`domains/inventory`, `auto_post`, returns, challans, receipts, transfers, adjustments) | `products.current_stock`, `stock_ledger`, warehouses | every document that moves goods, its cancellation, opening stock | the same transactions as the ledger | `Stock` |
| Receivables and payables (`payments.py`, notes, direct corrections) | `amount_paid`, allocations, `contacts.credit_balance`, PAID and PARTIALLY_PAID | receipt, disbursement, advance, credit note; take back, correct | ledger | `Claims`, `Settlement` |
| Reports on parties, dashboards | none | statement of a party, outstanding, aging, pickers, figures | reads documents and vouchers | `Statements` |
| Financial years (`financial_years.py`, `roll_forward.py`, `period_lock.py`) | year status, closing entry, openings, period locks | create, switch, prepare, close, roll forward, reopen, lock a month | every posting asks it | `FinancialYears` |
| Journals and chart of accounts (`accounting.py`, `masters.py`, `AccountResolver`, `report_services.py`) | `accounts`, `journal_entries` | journal, contra, reversal; make, change, delete, merge accounts; registers, trial balance, sheets, cash flow | every posting resolves accounts | `Accounts` |
| Expenses (`expenses.py`, categories) | expenses, their numbers, categories, the tax mode | create, clone, post, cancel, change, correct, delete | ledger | `Expenses` |
| Bank reconciliation | statements, their lines, matches | upload, match by hand, in bulk, by score, undo, delete | reads payments | `Banking` |
| Tax engine, GST returns (`domains/taxation`, `gst.py`, `report_services.py`) | filed returns; taxes of documents | compute a document; GSTR-1 in two ways, its file and workbook, GSTR-3B, GSTR-2; file | locks the documents of a filed month | `Taxation`, `GstReturns` |
| Sales and purchase pipelines, recurring invoices | status and quantities of quotations, orders, challans, templates | issue, convert, cancel, edit, generate | make invoices, move stock | `Pipelines` |
| Goods receipts and returns | quantities against a source line | draft, confirm, cancel; return | stock | `Fulfilment` |
| Inbound events (`integrations/core`, `integrations/cartunez`) | replay cache, orders, reservations, payments, mappings | claim, apply, answer a duplicate | documents, stock, the queue | `Inbound` |
| Outbound delivery (`integrations/cartunez/outbound.py`) | event status, attempts, dead letters | enqueue, dispatch, deliver, retry, give up | an HTTP peer | `Outbound` |
| ApexBooks synchronisation, number ranges | event log, blocks of numbers | push, pull, allocate | every kind of document | `Sync` |
| Importers and repair (`vyapar_import.py`, `tally.py`, `csv_import.py`, `backfill*.py`) | documents, payments, entries, links | import, export, repair | posting engine | `Imports` |
| Parties and products (`masters.py` and the importers) | contacts, products, opening stock | make, change, delete; match what a file names | everything | `Masters` |
| E-invoice, companies and users, tenant isolation, mail, PDF and scan workers, audit log | | | | no, see section 8 |

What makes each one hard, and what makes it correct:

- **Idempotency.** A delivery may be retried while the first one still runs,
  after it died, or after its answer was lost; several statements match the row
  by its key alone. Correct: work is executed at most once per key, a replay
  tells the truth, the record of executed work is never erased, nobody waits for
  ever.
- **Posting engine and ledger.** Lines are rounded one by one; handlers share
  rows, lock them in different orders or not at all; corrections compose two
  postings. Correct: an accepted entry balances and its reversal takes it back;
  the entries of a document say what its status says; balances are sums.
- **Stock.** Two stores of the same quantity, checks made before commit, stale
  objects in the identity map, reversals that must find the original's
  warehouse. Correct: the stores agree, nothing is oversold or moved twice.
- **Receivables.** `amount_paid` is a running total that handlers read,
  change and write back as an absolute value. Correct: it follows the
  settlements one by one, statuses tell what is owed, advances are not lost.
- **Financial years.** Closing moves balances while postings go on, and can be
  undone. Correct: profit moves once, the sheet balances, a locked year stays.
- **Chart of accounts.** Handlers change accounts on what they read without a
  lock while postings recompute them. Correct: balances follow lines, codes stay
  unique, the chart is a forest, all reports agree.
- **Tax and returns.** One figure computed by several services from headers or
  from lines, each with its own rounding. Correct: they report one tax, and
  what was filed stands.
- **Pipelines, receipts, returns.** Guards read without a lock; a quotation can
  become two things. Correct: each becomes one, goods match bills, quantities
  stay within their source.
- **Integrations.** Messages are duplicated, late, reordered, or cut by a crash.
  Correct: effects are what the log records, retries hear the first outcome,
  every event is delivered or given up with a dead letter, devices and server
  believe the same.
- **Imports and masters.** Files overlap, clash and come back. Correct: what is
  in the books is posted, a second import adds nothing, no party is taken for
  another.

The hazards found while reading are listed, with their lines, in
`PROJECT.json`.

## 2. Modules

All of the modules use the same picture of the database. A variable holds the
*committed* value; what a transaction has written is in its session record and
becomes visible in one step; `SELECT ... FOR UPDATE` is a guard on a lock and a
write to it; `Rollback` gives the locks up and leaves the rest. A statement that
waits is an action that is not enabled. Where no handler of a component locks
anything and nothing but luck keeps two requests apart, the module says that one
request at a time is ASSUMED, and each is one action.

### Idempotency

`row` is the row of one key (or none), `rowLock` the request whose open
transaction has updated it, `pc` the place of each delivery in `dispatch()`,
`executed` the requests whose business transaction committed, `reply` what each
was answered. Claims of different keys never meet, so one row is enough. Each
SQL statement or commit of `dispatch()` and of the `after_flush` hook is one
action: `Claim` and `Conflict` are the INSERT with row count one and zero,
`InspectStale` and `InspectAnswer` the SELECT, `Reclaim` the DELETE and the
nested call, `Mark` the hook's UPDATE, `StoreResponse`, `DropOn5xx` and
`CleanupOnRaise` the second half. `GrowStale` is the passing of
`IDEMPOTENCY_STALE_SECONDS`; the age itself is abstracted to a flag.

`Resume` is the hazard of a hook that marks once per session: its flag survives
`db.rollback()`. A handler that rolls back in mid-request and goes on, as those
of `sync_push` do over a record the books already have (`apexbooks_sync.py:1101`),
loses the marking and commits later (`CommitResumed`) without another. `Resuming`
is the set of bodies whose handler may do so.

The safety properties need four assumptions that the code does not enforce,
and each is a constant, so that a run can drop it: `TimelyOwners` (a claim
becomes stale only when its owner is dead), `ExclusiveReclaim` (one retry at a
time deletes a stale claim: two that read the same stale row both delete, and
the second deletes the first one's fresh claim) and `CleanFailures` (no handler
commits and then answers an error: the row that records the commit would be
deleted by `DropOn5xx`, or overwritten with a 4xx) and `Resuming = {}`.
`ProcessingNeverCommitted` needs none of them; it excepts exactly the claims of
`Resuming`, which the code leaves PROCESSING over the commit.

### Stock

Twenty-one handlers move goods. They take the same steps in different order, so
each is a record of the choices that matter (`Handler`), translated from its
source: whether it locks the document and the product, whether it has loaded
products before it locks them, which check it makes, which warehouse it uses,
which balance it writes into the row, whether it flushes between movements.
`Open` is the request up to its guard and document lock, `Move` one movement
(lock, check, change, row), `Commit` the flush. `orm` holds the attributes of
products in the identity map; `flushed` and `added` separate the rows that a SUM
can see from those only added to the session.

Assumption `ExclusiveRequests`: a handler that skips a lock, or reads a product
before locking it, runs alone. Without it the properties fail (run
`stock_create`; issuing the same challan twice and cancelling the same receipt
twice are two more ways). Other limits of the instance that the code does not
guarantee: only the challan repeats a product in its lines (another document
would oversell, as the second line does not see the first); the receipt brings
goods to the warehouse that holds the rest (its cancellation checks the company
total only); a default warehouse exists from the start (a movement made before
the first one was configured is reversed into the warehouse of the day).

### Postings and Ledger

`Postings` has one operator per entry builder. Amounts are hundredths of a
paisa, lines are paise, positive for debit; `Quantized` is `Decimal.quantize`,
half to even. The five tax heads are one amount: the tax engine rounds each to
paise before it adds them, so rounding the sum is the same. An entry that does
not balance after rounding, or that has a line that rounds to zero, is refused
(`Accepted`).

`Ledger` has the documents of nine types with their status, amounts and
deletion mark, at most one posting and one reversal each (the unique index on
tenant, source type and source), the balances and the locks. Thirteen handlers
differ in the statuses they accept, whether they lock, what they write and what
they store; PUT and DELETE of a posted document (`replace`, `delete`) run the
cancelling and the creating handler on a session whose `commit()` only flushes,
so they are one transaction with up to two entries. `Insert` is
`commit_ledger_draft` up to the flush, including the wait on the unique index
for another session's uncommitted entry; `LockAccount` locks the accounts in any
order, as the SELECT gives none; `Recompute` reads the sums afterwards.

The SELECT that locks does not refresh an object the session has: a request that
loaded the account before (`Selects`: `create_expense` with a bank account,
`expenses.py:190`, and the payments that devices push, `apexbooks_sync.py:1879`;
`Banked` is the set of documents made so) compares with the balance it loaded, and
when its recomputation comes to that same balance, because an opposite posting
committed in between, SQLAlchemy emits no UPDATE (`Unchanged`). The balance then
stays off the ledger until the account is posted to again. `skipped` is a history
variable of where this happened, and `BalanceIsLedger` says that a balance is the
sum of its lines if and only if its account is not in it.

`IMPORTED` stands for SENT and UNPAID, which only importers set on posted
documents. PARTIALLY_PAID and PAID belong to `Settlement`, the period lock to
`FinancialYears`, and stock to `Stock`: the transactions are the same ones, but
the properties of either side do not read the other's state.

Assumption `DraftsSerialised`: a handler that does not lock its draft
(`bulk_delete`, `post_expense`, `cancel_expense`) does not overlap a different
handler of the same draft. Two more limits concern amounts and are findings of
their own: invoices entered here have no shipping charges (their cancellation
forgets them) and imported bills no round-off (their reversal repeats it).

### Claims, Settlement and Statements

`Claims` is an abstract specification: claims, settlements with a portion on
each claim, what is owed; a settlement lowers it by its portions and raises it
by the same when it is taken back; no request, lock or database. `Settlement` is
the code: receipts, disbursements and credit notes, each opened (locks, checks,
reads into the session) and committed (absolute values written), taken back, or
corrected by cancel and create in one transaction. `Settlement` implements
`Claims` under the refinement mapping `Promise` (what is owed is what is payable
less `amount_paid`; the portions are those of the settlements that are active):
`KeepsPromise` is checked as a property, so a lost update, a doubled or clamped
allocation, or a settlement of a closed document is a step `Claims` does not
have. `Statements` computes what the program tells of all this: the statement of
a party, outstanding and aging reports, lists and dashboards, some from
`amount_paid` and some from vouchers; `StatementsAgree` says that they agree. The
closing balance of a statement is its opening balance and the sum of its lines,
whatever their order within a day. `StatementsAssumption` says what the code takes
for granted of the data: finite tables, dates, tax deducted from bills only.

Assumptions: `UnlockedAlone` (a request that writes what it read without a lock
runs alone: a credit note does so with its invoice, a disbursement with its
contact) and `NotesFirst` (an invoice is not cancelled while a credit note on it
is active: cancelling the note afterwards would bring the cancelled invoice back,
`invoices.py:1133`). An imported UNPAID bill cannot be paid (`payments.py:403`):
the exception is in `StatusTellsDebt`.

### FinancialYears, Accounts and Expenses

`FinancialYears` takes the year as its unit of time, with one month that may be
locked in each. A posting is `Draft` (the period is checked) and `Post` (the
entry is inserted); a close is `BeginClose` (checks, movements read) and
`CommitClose` (closing entry, roll forward, lock, next year). Assumption
`QuietClose`: nothing is posted while a year is being closed; the close flushes
its flag and locks only the tenant's row, which no posting waits for, so without
the assumption `LockHolds` fails. `Ready` and `PreparedProfit` are what
`prepare_year_end` answers, related to what the close then does. It counts from
`fy_start`, the start of the year in the tenant's row, and answers 400 for a year
before it; `Switch`, `CommitClose` and `UpdateCompany` move it, `Create` and
`Reopen` do not. `PreparedCloses` says what is announced then: the profit of the
year and, if the row names an earlier one, exactly what the closes since then kept.

`Accounts` has the chart and the journal. Users make accounts; postings resolve
them by key, by code or by making them (`Resolved`), and may find the identity
or the code held by a deleted row (`Resolves`); an edit is checked
(`BeginEdit`) and written later (`CommitEdit`) with nothing held in between;
accounts of one name merge (`Dedupe`). `torn` marks accounts whose balance was
overwritten by what an editor or a bundle had read (they heal at the next
posting), `crossed` that an account was moved or deleted on an outdated
reading. Over them are the reports: pages of a ledger, both trial balances and
both balance sheets, profit, the cash and bank books, the cash flow and the day
book. The stated differences between them are part of `Reports`: the services'
sheet counts lines after its day, the cash flow ignores reversals of journals
and the openings of cash accounts of the user's own.

`Expenses` has expenses of a month, the numbers they take (which compare as
text), categories with their linked accounts and the tax mode. Creating,
cloning, posting and cancelling read without a lock and write later; correction
and deletion hold the row. An expense changed between the two is `crossed`, the
exception of `Booked`. Amounts are whole paise: rounding is the subject of
`Postings` and `Taxation`.

### Banking, Taxation and GstReturns

`Banking` has statements as uploaded and parsed, the score of a match, greedy
automatic matching, manual and bulk matching, undo. `Taxation` is the arithmetic
of a document in hundredths of a paisa: discount and freight spread over lines,
tax split by state, residuals put on one head, the preview of each document.
`GstReturns` stores documents of two months with it and computes each return the
way each service does; `ReturnsAgree` relates the two computations of the
outward return, its file, its workbook, the summary and the inward return, with
the exceptions it states, up to the paise that rounding line by line may cost
(`Known` are the heads that the services know of: union territory tax is left out
of some; previews of exports without tax show one). `FiledStands` is an action property: what a
filed return reports does not change.

### Pipelines, Fulfilment, Inbound, Outbound and Sync

`Pipelines` has the documents before the books. `quiet` is a variable chosen at
first, TRUE in behaviours where requests that read without a lock run alone:
properties that need it say so, the others hold without it (`Sync` has one of the
same name). `Fulfilment` has receipts and returns; the source line is locked while
a quantity is compared, and `alone` is TRUE in behaviours where nothing overlaps
the cancellation of a receipt, which locks nothing. `Conversions` puts the two
side by side; its `PipelineInOrder` says that each document becomes the next one
once (`OneOfEach`), that what left is what is billed (`GoodsMatchBill`) and that
no source line is listed beyond its quantity (`WithinSource`).

`Inbound` receives fifteen events, duplicated, late or cut short by a crash, each
claimed in the replay cache in the transaction that applies it. The canonical key
of an event is its name and source (`auth.py:153`): a second update of one order,
whose source must be the order, is refused as a conflict, while the handlers of
master data compare the path with the body only, so that a second stock message
from another source is applied, as the repository's tests do. A stock message
replaces the levels with the quantities it brings, the reserved one included
(`ReplaceInventory`), whatever orders hold; `told` is a history variable of the
last one and of what orders held and had sold when it came, from which
`OrdersHoldStock` accounts for every quantity since. `Outbound` has the rows as
the database holds them and as each run of the task has them in its session; the
peer may accept an event whose answer is lost. `Sync` has all 23 event handlers
of a push as the rows they add and the quantity they move, with savepoints, the
rollback that some handlers answer a duplicate key with (`clashed`), pull
cursors, and number ranges shared with online documents.

### Imports and Masters

`Imports` has documents with number, amounts, status and posting, and three
importers with their matching rules, the postings they make, the instalments
of payments, links between documents, the export of Tally and its re-import, and
the repair (`Backfill`) of what an earlier release left without entries.
`Masters` has parties and products with registration, code and opening stock, and
what the importers match them by. One import at a time is assumed.

### Composition

Modules that share no row and no lock are checked in one run: `MCBooks`
(`Settlement` with `Statements`, `GstReturns`, `Pipelines` and `Fulfilment` in
`Conversions`, `Sync`), `MCTrade` (`FinancialYears`, `Inbound`, `Outbound`) and
`MCOffice` (`Stock`, `Imports`, `Masters`, `Accounts`, `Expenses`, `Banking`). A
variable `part`, chosen at first, says which of them moves, so that the run
explores the sum of the state spaces; the parts that rest keep their initial
values, and a type invariant looks at the part that moves. What has theorems is
brought in by EXTENDS and the rest by INSTANCE, so that the run checks the very
definitions that the theorems are about. Modules that do interact are composed
by EXTENDS or INSTANCE and move together: `Ledger` over `Postings`, `Statements`
over `Settlement`, `GstReturns` and `Expenses` over `Taxation`, `Settlement`
mapped to `Claims`.

## 3. Runs

| Run | Instance | Distinct states | Shows |
|---|---|---|---|
| `idempotency` | three deliveries, two of them with the same body, and one without the header; the four assumptions | 13,174 | at most one execution, truthful replays and stored outcomes, a permanent marker |
| `idempotency_unassumed` | two deliveries, no assumption, one body whose handler may roll back and go on, fairness | 5,200 | a PROCESSING row never belongs to committed work but that of such a handler, and every delivery ends |
| `idempotency_slow_owner` | as the first, without `TimelyOwners` | violated | a slow handler and the retry that reclaimed its claim both commit |
| `ledger` | two concurrent requests, nine scenarios of two documents of all nine types, eight accounts, amounts that balance and amounts that do not, an expense and a receipt whose request loads its money account | 58,602 | books say what documents say, balances are sums of lines but where an UPDATE is left out, the trial balance stands still, every request ends |
| `ledger_cancel` | one invoice with shipping charges | violated | its cancellation leaves the shipping in the books |
| `ledger_delete_bill` | one imported bill with a round-off | violated | its reversal posts the round-off again |
| `ledger_race` | one invoice, without `DraftsSerialised` | violated | bulk delete removes a document that `finalize` posts meanwhile |
| `stock` | `MCOffice`: two concurrent requests over two products and two warehouses, six scenarios of documents of all ten types; seven files of three programs, up to three imports; two parties and two products; up to three accounts, two entries and two steps; three expenses and four steps; two uploads of a bank statement | 180,612 | stock and ledger agree, nothing is oversold or moved twice; imports post once; nobody is taken for another; the chart, the journal and the reports agree; expenses are booked as they stand; a match is made once |
| `stock_create` | an invoice and a bill created at once, without `ExclusiveRequests` | violated | the second commit overwrites `current_stock` from a stale object |
| `Books` | `MCBooks`: an invoice and a bill of a contact that is both customer and vendor with three settlements at a time; documents of two months; five scenarios of documents, eight receipts and returns, pushes of seventeen events in five scenarios | 196,889 | `Settlement` implements `Claims`, statuses and credits follow, reports agree; all returns report one tax and filed ones stand; each document becomes one thing; quantities stay within their source; devices and server agree |
| `YearEnd_reclose` | one year, closed, reopened and closed again | violated | the reversal of the first closing entry is counted as profit, and the second does not balance |
| `Trade` | `MCTrade`: three years, one entry, one draft, each year closed and reopened once, the company's row set back to the first, months locked in behaviours without drafts and opening balances; fifteen shop events, two stock messages among them, with up to five deliveries; queued events in two overlapping runs | 166,112 | profit moves once, a prepared close is the one announced and locked years stand; effects are what the log records; retries hear the first outcome; every event ends |

Why the bounds are enough to be of interest. Two sessions are what every race of
this code needs: a row lock has one holder and a queue, and the handlers never
act on the number of those waiting. Two products whose lines are locked in
opposite orders, and documents that share accounts, give lock cycles; opening
stock of two and one is enough for one document to use up what another had
checked; a spare document lets a correction create its replacement. Two
settlements of a claim that is worth two portions reach PARTIALLY_PAID, PAID and
back, and meet on the last portion. Three years are the one being closed, its
successor, and one that has not come yet; the row of the company may name the
first again after the second became current, a draft may stay behind in the first,
and one month, of the second year, may be locked (in behaviours of their own, as
months meet drafts and opening balances only in guards of one step). Of two stock messages one reserves nothing and the other, in one
warehouse, more than it says is there. A month with two numbers of four digits, a
contact whose name another has, a bundle whose numbers clash: each bound is
chosen so that its boundary is crossed. Amounts are chosen at the edges: whole
paise, two halves that round apart, a round-off below a paisa, a discount that
equals the freight, tax that does not split evenly. `CHECK_DEADLOCK FALSE` is set
because the system really stops: when every document is cancelled and every
bound used up nothing is left to request.

Every property of a passing run has a mutant: one definition replaced as a
plausible bug would change it (a lock not taken, a check dropped, a wrong
warehouse, sums read before the lock, a reversal on the same side, an event
applied without its claim, a rollback that keeps its locks), with which TLC
finds the property violated. A property of several conjuncts has more than one.

## 4. Fairness

Idempotency: weak fairness of `Serve(r)` for each delivery, as each has a worker
thread; no failure or crash is assumed to happen or not to happen.

Stock and Ledger: strong fairness of `Advance(s)` for each session. A worker
that is not waiting goes on. A worker that waits for a row is enabled again and
again, whenever the row is free, and PostgreSQL serves the queue of a lock in
order, so that it gets the row; this is what strong fairness says. A cycle of
waiting sessions is broken by PostgreSQL's deadlock detector, whose choice of a
victim is part of `Advance`; without it `EveryRequestEnds` would fail, since
products and accounts are locked in no fixed order. `Crash` is not in
`Advance`: no request ends only because its process dies. In `Idempotency` a
delivery that dies counts as ended.

Outbound: weak fairness of each run's own steps, as the scheduler starts the task
every 30 seconds and a started task goes on; strong fairness of `Lock`, for the
same reason as above; weak fairness of `BecomeDue`, as time passes. Nothing is
assumed of the peer, and at most `MaxCrashes` runs die. The other parts state no
liveness: a request there is one or two steps that wait for nobody.

## 5. Proofs

Everything proved holds for every value of the constants that satisfies the
named assumptions: any number of deliveries, documents, products, years,
accounts, amounts and concurrent requests. Eight modules hold the theorems;
`PROJECT.json` lists those to know of. An assumption that the code does not
enforce is written into the statement of the theorem that needs it, and what
happens without it is said in section 2 or shown by a run. Every inductive
invariant was an invariant of a TLC run before it was proved.

| Theorem | Property | Hypotheses |
|---|---|---|
| `IdempotencyProofs!ExecutedAtMostOnce`, `OutcomesAlwaysAgree`, `MarkerStays` | `AtMostOnce`, `OutcomesAgree`, `MarkerIsPermanent` | `TimelyOwners`, `ExclusiveReclaim`, `CleanFailures`, `Resuming = {}` |
| `IdempotencyProofs!ProcessingIsUncommitted` | `ProcessingNeverCommitted` | none |
| `LedgerProofs!BooksMatchDocuments` | `LedgerMatchesDocument` | `DraftsSerialised`, `ReversibleAmounts` |
| `LedgerProofs!BalancesAreTheLedger`, `TrialBalanceStays` | `BalanceIsLedger`, `TrialBalance` | none |
| `SettlementProofs!DebtsAlwaysAgree`, `SettlementKeepsPromise` | `DebtsAgree`, `KeepsPromise` | `UnlockedAlone`, `NotesFirst` |
| `SettlementProofs!ReportsAlwaysAgree` | `StatementsAgree` | `UnlockedAlone`, `NotesFirst`, `NothingAhead` |
| `StockProofs!OnHandAlwaysTheLedger`, `GoodsMoveOnce` | `OnHandIsLedger`, `PostedOnce` | `ExclusiveRequests` |
| `StockProofs!PlacesAlwaysAgree` | `PlacesAgree` | `ExclusiveRequests`, `LinesPlaced`, `OneLineEach`, `NoReceipts` |
| `StockProofs!ReversalsKeepTheirPlace`, `BalanceAlwaysRuns` | `ReversalKeepsPlace` | `ExclusiveRequests`, `LinesPlaced`, `OneLineEach` |
| `ConversionProofs!AlwaysInOrder` | `PipelineInOrder` | `OncePerRequest` |
| `ExchangeProofs!QueueLosesNothing` | `SentOrRecorded` | none |
| `ExchangeProofs!EffectsAlwaysMatchEvents`, `OrdersAlwaysHoldStock`, `RetriesAlwaysHear` | `EffectsMatchEvents`, `OrdersHoldStock`, `RetriesHearTheOutcome` | none |
| `YearsProofs!YearsAlwaysBalance`, `LockAlwaysHolds` | `YearsBalance`, `LockHolds` | `QuietClose` |
| `YearsProofs!OpenYearsTakePostings` | `OpenYearTakesPostings` | none |

**`IdempotencyProofs`.** `TypeCorrect` and `ProcessingIsUncommitted` need no
assumption on the environment. `ExecutedAtMostOnce` does; its property,
`AtMostOnce`, is not inductive: it needs that work in progress still
owns the row (`OwnerHoldsRow`), that a row about to be reclaimed belongs to a
dead request and to one reclaimer (`ReclaimIsSafe`), and that committed work is
on record (`ExecutedIsRecorded`); their conjunction `IInv` is inductive under the
four assumptions. `ProcessingIsUncommitted` holds of every body outside
`Resuming`; a request that went on after a rollback has such a body
(`ResumedMayGoOn`). `OutcomesAlwaysAgree` needs that invariant and the one before:
statements match the row by its key alone, so that the response stored is the
owner's rests on `OwnerHoldsRow` for an error and on `AtMostOnce` for a success.
`MarkerStays` is the action property of the same invariant, with one case per
statement that could take the row away.

**`LedgerProofs`** has three parts. *Entries.* For every amount: an accepted
document balances as a posting and as a reversal of every type
(`AcceptedPostsAndReverses`), documents of whole paise are never refused for
rounding (`WholePaiseBalance`), rounding separates the sides by at most three
paise (`GapBounded`), and tax deducted that ends on half a paisa makes half of all
documents impossible to post (`HalfPaisaDeducted`). `ReversalNegates`,
`RoundOffPostedTwice` and `BillReversalNegates` say exactly which reversals take
their posting back.

*Documents.* `BooksMatchDocuments`: `LedgerMatchesDocument` is an
invariant for any documents, accounts, amounts and sessions, if drafts are
serialised and the reversed amounts are ones that the reversals take back
(`ReversibleAmounts`). The property says nothing of requests in flight, so it is
not inductive. `IInv` adds:

- for every document, what its status says of its entries and its amounts
  (`DocOK`), of which the property is a consequence through `TakesBack`;
- for every request in flight, that it has written the entries of its plan up to
  some point (`Progress`), holds the rows it locked (`Target`, `Spare`), and that
  what it read of its document is *current*: still so (`Live`); or another
  request has written the entry it wants to write, and the unique index will
  refuse it (`Doomed`); or it is a bulk delete of what is still a draft
  (`Sweeping`). This case split is the heart of the argument: it is how handlers
  that do not lock their document are nevertheless harmless;
- that no two requests have written an entry of the same source
  (`UniqueSource`) and no written entry repeats a committed one (`Fresh`).

The hard step is a COMMIT seen by another request on the same document
(`OthersAfterCommit`): that request holds no lock, so it is one of three
handlers; the assumption on drafts leaves only a rival of the same kind, whose
commit dooms it. `TypeCorrect` is the type invariant with the lock discipline.
`NothingLeftBehind` shows that under the two assumptions the properties of the
three refuting runs hold: those findings have these causes and no other.

*Balances.* `BalanceIsLedger` says that a balance is the sum of its lines,
although `Recompute` writes it from sums read after the account was locked, in a
commit that other sessions' entries may precede or follow. The invariant (`BInv`)
says of every session in its commit phase that what it will store for an account
it has recomputed is the opening balance, what the books hold and what its own
rows add (`Tallied`, `Pending`), or else that it left this UPDATE out, and then
that what it stores differs; that the lock on that account keeps others off it
until the end, and that every account of a row it wrote is recomputed or still to
be. No hypothesis is needed, because the statement itself names the accounts
whose balance is off (`skipped`): an entry may be the wrong one, but it is never
half in the balances unless an UPDATE was left out. `TrialBalanceStays`, for states
where none is, adds that an entry that was accepted balances
(from the first part) and swaps the sum over accounts with that over documents.

**`SumTheorems`.** Totals of amounts are written with `SumFunctionOnSet`, a
recursive function that its definition finds by CHOOSE. The module proves what it
computes: one term and the rest, that only the terms on the set count, sums of
sums and differences, one term changed, subsets, unions, groups, two orders of
summation, another index. Induction over finite sets is done without an operator
parameter: a claim that fails somewhere fails on a smallest subset
(`SubsetInduction`), and that subset without one element gives the contradiction.

**`SettlementProofs`.** A handler writes `amount_paid` as an absolute value
computed from what it read. The invariant (`IInv`) says that while a request is
in flight what it read is still so (`Current`), because it holds the locks of the
rows it will write or has no rival (`Guards`), and that `amount_paid` is what was
imported and the sum of what the settlements in force take (`PaidIsSettled`): so
nothing is ever clamped at zero. `DebtsAlwaysAgree` is a part of it.
`SettlementKeepsPromise` is the refinement: under the mapping `Promise` every
commit meets, gives back or closes claims in one step of `Claims` and every other
step is a stutter. The two hypotheses are the two ways in which the code can do
otherwise.

`ReportsAlwaysAgree` needs two facts more: a settlement takes only from documents
of its own side and contact, and a note from one invoice (`Aimed`), and an
invoice is never UNPAID (`Sided`). With them what a report adds up over documents
from `amount_paid` is what another adds up over vouchers: the two orders of
summation are swapped (`Joined`), the vouchers are counted by what they are made
of (`VouchersSum`), the lines of a statement close on all vouchers up to the day
(`Closes`), and the buckets of the aging report and the contacts of the
dashboards are partitions (`AgingTells`, `DashboardsTell`). `NothingAhead` says
that nothing is dated after the day of the reports: the outstanding reports and
the lists do not look at dates, the statement does.

**`StockProofs`.** The invariant (`SInv`) relates a request in flight to what it
will have done: the quantity it will store is what it read and what it has moved
(`Tallied`), which is still what the row holds because of the lock or because it
has no rival (`Protected`); what it has written and what it has still to move come
to what its handler must move of its document (`Goal`). So at its commit the
stored quantity and the ledger change by the same amount (`OnHandAlwaysTheLedger`)
and a document moves what its status says, no matter whether its cancellation
reads lines or the rows of the ledger (`GoodsMoveOnce`). All 21 handlers go
through the same lemmas, one per step of a request.

*Places.* The second invariant (`PlacesHold`) is about warehouses: where the
rows of a document lie (`RowsPlaced`), what a request in flight has written of
its movements (`Placed`), that the balance written into each row runs with the
ledger (`RunningBalance`), and that no place is overdrawn (`NotOverdrawn`). The
movements of one request do not meet: each is of another product or at the other
end of a transfer, so the balance it writes is what the committed ledger holds
and its quantity, although the row before it is not flushed. The hypotheses name
what the code takes for granted: only transfers and receipts name warehouses and
there is a default one for the rest (`LinesPlaced`); one line per product, but
for challans, which add their lines up (`OneLineEach`); and for the quantities of
each place no receipts (`NoReceipts`), as `cancel_receipt` checks what the
company has and not what the warehouse has. The run allows receipts that go where
the rest is.

**`ConversionProofs`.** `PInv` says of each request that it holds the locks of
what it will write and no two hold the same one (`Apart`), that what it has read
under a lock is still so (`ReadSo`) and, in behaviours that are `quiet`, also what
it has read without one (`AsRead`). So a document is claimed once by a request
that holds it (`OnceEach` needs nothing), and the goods that left follow the
bills. `FInv` says of receipts and returns that a request that is creating one
holds its source line, so that what it compared still fits (`CallSo`), that what
is listed of a source line is at most what was ordered, and, in behaviours that
are `alone`, that a receipt has brought in what it lists while it is confirmed and
nothing otherwise (`GoodsTaken`). `StaysWithinSource` needs `OncePerRequest`: the
lines of one request are compared one by one, so that naming a source line twice
exceeds it (`goods_receipts.py:164`, `returns.py:86`).

**`ExchangeProofs`.** *The queue.* A run of the delivery task that sends an event
has read its row and holds it (`SenderHolds`), so nobody else writes the outcome;
with this `NothingLostSilently` is inductive: an event is delivered only if the
peer had it and given up only with a dead letter, whatever the peer answers and
whenever a run dies (`QueueLosesNothing`). *The shop.* `ShopInv` says that a
claimed event is not completed and collides with no other claim (`ClaimsApart`),
that the effects are what the replay cache records (`EffectsMatchEvents`), what
the status of an order says of what it holds (`OrdersOK`), and, counted from the
last stock message, that reserved and available quantities have changed by what
the drafts hold and the invoices took (`ReservedIsHeld`, `SoldOnce`). Stock
messages are any, with any quantities, so that nothing is said of levels that
does not refer to the last one; a release or a sale for which the levels no
longer suffice is refused and changes nothing. The hard step is a sale or an
update whose quantity is spread greedily over the warehouses. `RetriesAlwaysHear` is an action
property of the same invariant. No assumption is made on the order, number or
timing of deliveries.

**`YearsProofs`.** `TInv` keeps what goes with the types: the session that closes
a year finds its year and the next still open when it commits (`CloseHeld`), and
the period follows its year (`PeriodFollows`), which is `OpenYearTakesPostings`.
For `YearsBalance` `IInv` adds that each kind of entry of a year is even, its
assets less its equity being its profit (`EntriesTell`); that the closing entry
and the reversals come to the entry that stands, which is nothing in an open year
(`ClosesTell`); and that what a close has read is still so when it commits
(`CloseFits`), for which nothing may be posted meanwhile. From it follow the
profit moved (`ProfitMoves`), the sheet, whose earlier years cancel out in the sum
(`SheetFollows`), and the close that was announced (`PreparedFollows`).

Only model-checked:

- liveness (`EveryRequestEnds`, `EveryEventEnds`), as fairness and ENABLED are out
  of the prover's reach;
- `ReturnsAgree` (`GstReturns`), `ImportsBook` and `ImportedOnce` (`Imports`) and the
  reports in `AccountsAgree` (`Accounts`): the returns, the importers and the reports
  compute with folds over sequences and recursive functions, and what those yield
  for every input needs induction over data, which the provers cannot do;
- `DevicesAgree` (`Sync`): a push is a fold of 23 handlers over its events;
- `ExpensesAgree` (numbers compared as text), `MastersAgree` and `MatchedOnce`
  (matching by score and by name, in an order), `FiledStands` (over the same folds
  as `ReturnsAgree`); their arguments are within a request and the bounded inputs
  cover its branches;
- the type invariants of the three composed runs (`OfficeTypeOK`, `BooksTypeOK`,
  `TradeTypeOK`): what the proofs need of types is in the inductive invariants of
  the components.

## 6. Findings

Six runs refute what a document, a comment or a message of the repository says
of the program; each is quoted with its line in `PROJECT.json`: a stale claim is
reclaimed from a request that is still running; creating a document writes stock
from a stale object; cancelling an invoice forgets its shipping; the reversal of
a bill repeats its round-off; bulk deletion races with posting; a year that was
reopened with a profit can never be closed again.

Met while reading, and kept in the models as the code has it:

- two retries that read the same stale claim both delete, and the nested
  `dispatch()` answers 503 "NOT executed" for work that was committed;
- `cancel_receipt` and the issue of a challan take no lock, so they can happen
  twice; an issue that races a conversion makes one quotation both an invoice and
  an order (`proforma_invoices.py:429`), one that races a cancellation sets a
  cancelled order DELIVERED (`delivery_challans.py:370`);
- a request that names one source line twice receives or returns more than there
  is (`goods_receipts.py:164`, `returns.py:86`);
- a purchase return posts a positive round-off against the vendor in the
  direction opposite to the rest of the entry (its reversal is consistent); a
  document whose round-off is half a paisa or less can never be posted;
- `prepare_year_end` counts from the start of the year in the tenant's row
  (`accounting.py:897`), which a switch (`financial_years.py:247`), a close (`:603`)
  and the company's form (`companies.py:127`) move and creating or reopening a year
  does not: it may announce the profit of several years as that of one, and it
  refuses an earlier year that was reopened until the user switches to it;
  roll-forward wipes openings that
  have no entry (`roll_forward.py:132`); income and cost accounts stay stale after
  a reopening (`financial_years.py:754`); reopening may open a month that a user
  had locked (`:768`);
- the trial balance and balance sheet services take a day that excludes no line
  (`report_services.py:77`, `:171`); an account deleted, or merged away, keeps its
  identity and code, and postings that need it fail from then on
  (`services.py:1347`, `masters.py:645`);
- receipts and disbursements number with one prefix, so their entries clash
  (`company/services.py:54`, `:57`); the second Vyapar bill with another vendor's
  number is skipped (`vyapar_import.py:988`); the CSV bundle leaves SENT invoices
  without an entry (`csv_import.py:1444`) and cannot be imported beside posted
  documents (`:1424`); the repair skips UNPAID bills (`backfill.py:51`);
- a second update of one order is an idempotency conflict for ever
  (`integrations/core/auth.py:153`), for which the tests of master data use a new
  source each time; a stock message deletes levels that hold reservations of live
  orders and writes its own (`master_service.py:226`, `:238`), after which an order
  made before may be neither released nor sold, or released out of the
  reservations of others; the product in the books keeps the stock it was made
  with, whatever later messages say (`payment_service.py:383`);
- a handler that rolls back in mid-request and then commits leaves its claim
  PROCESSING, and a retry may execute it again once it is stale
  (`core/idempotency.py:51`);
- an UPDATE of a balance is left out when a request had loaded the account before
  another one posted to it and comes back to the balance it had loaded
  (`services.py:1407` after `expenses.py:190` or `apexbooks_sync.py:1879`);
- a push handler that answers a duplicate with
  `db.rollback()` loses the events of its batch (`apexbooks_sync.py:1101`); the
  pull cursor passes an event that commits late (`:1033`); a failed second
  delivery marks a delivered event FAILED (`outbound.py:97`);
- a cancelled expense is reversed through today's category and tax mode
  (`expenses.py:551`), a clone forgets its place of supply (`:611`), and after 9999
  expenses a month takes no more (`:111`).

## 7. Plan

Done, in this order: the idempotency protocol; stock; postings and ledger with
their proofs; receivables with their abstract specification and refinement;
financial years; the integrations; pipelines and fulfilment; synchronisation;
bank; taxes and returns; imports, masters, accounts and expenses; proofs of
balances, settlement, stock and financial years; proofs of places in the stock
ledger, of the exchange with the shop, of conversions and of the reports on
parties.

What would come next:

1. Proofs of more components: that a statement line and a payment are matched once
   (`Banking`), that what a filed return reports does not change (`GstReturns`), and
   that a party is not taken for another (`Masters`).
2. The composition of `Ledger`, `Stock` and `Settlement` on one transaction,
   which would show that a refused movement also undoes the entry.
3. The discount and shipping that a corrected document inherits
   (`direct_posting_contract_ext.py`), and the notes' sheets of the GST workbooks.
4. Seeding of a numbering series (`company/services.py:96`).

## 8. Limits

Abstractions common to all modules. The identity map, and with it SQLAlchemy's
suppression of UPDATEs of unchanged columns, is modelled where a request loads an
object before it locks it: products in `Stock`, where a movement always changes
the quantity, and money accounts in `Ledger`. The contra and journal entries that
a device pushes, which load their accounts too (`apexbooks_sync.py:1814`), are not
documents of `Ledger`; in `Accounts` and `FinancialYears` a recomputation of
balances is one step with its reading, also where a close or a merge has loaded
the accounts before. Two handlers (the confirmation of a goods receipt, the
generation from a template) lock over a joined load, which PostgreSQL refuses and
the tests' SQLite ignores; they are modelled as a lock on the row, as is intended.
Companies and permissions are fixed: one tenant. `allow_negative_stock`, which
only the ApexBooks push sets, is off. Adjustments and returns of `Stock` post
through the same `commit_ledger_draft` but their entries are not documents of
`Ledger`.

Assumptions on concurrency, each a constant, a variable or a word in the head of
its module: `TimelyOwners`, `ExclusiveReclaim`, `CleanFailures`,
`Resuming = {}` (`Idempotency`), `ExclusiveRequests` (`Stock`), `DraftsSerialised` (`Ledger`),
`UnlockedAlone` and `NotesFirst` (`Settlement`), `QuietClose`
(`FinancialYears`), `quiet` (`Pipelines`, `Sync`), `alone` (`Fulfilment`), one
request at a time (`Banking`, `GstReturns`, `Imports`, `Masters`). Hypotheses on data
that the code does not check: `ReversibleAmounts` (`LedgerProofs`), `LinesPlaced`,
`OneLineEach` and `NoReceipts` (`StockProofs`), `OncePerRequest`
(`ConversionProofs`), `NothingAhead` (`SettlementProofs`). Exceptions written into
properties, as the code does not keep them: `Resuming` (`Idempotency`), `skipped`
(`Ledger`), `clashed` (`Sync`), `torn` and `crossed` (`Accounts`), `crossed`
(`Expenses`).

Not modelled:

- the database schema and its migrations (declarations; the models rely on the
  unique indexes, keys and columns they name), row-level security and triggers
  (SQL; the constraint that an entry balances is relied on);
- scanning, rendering and mail (`invoice_scanner.py`, `invoice_pdf.py`, the other
  workers): text recognition, layout, input and output;
- e-invoice and e-way bill submission: the gateways' behaviour on retry is not in
  the repository;
- companies, users, sessions, subscriptions and permissions: access control around
  every endpoint; audit log: written and never read;
- sales and purchase analytics, stock registers and tax deducted at source
  reports, printing payloads, price lists, batches and tax templates: reads or
  records that no modelled property relates to another; the endpoint that
  recalculates balances never commits (`accounting.py:764`), so it changes nothing;
- clones of invoices and bills and the conversion helpers around them, which
  create a draft as `create` does.
