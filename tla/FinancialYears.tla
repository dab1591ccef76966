--------------------------- MODULE FinancialYears ---------------------------
(***************************************************************************)
(* Financial years: created, switched, closed (year-end entry, roll        *)
(* forward) and reopened, while documents and manual journals are posted   *)
(* and months are locked.                                                  *)
(*                                                                         *)
(* The four writers of financial_years hold the tenant's row; a posting    *)
(* holds nothing that they wait for.  validate_period_open is a read, and  *)
(* the entry is inserted later in the transaction: Draft is the first part *)
(* of a posting, Post the second.  Closing reads the movements of the     *)
(* year (BeginClose) and commits later (CommitClose).                      *)
(***************************************************************************)
EXTENDS Integers, FiniteSets, Functions

CONSTANTS
    Horizon,      \* years are 1 .. Horizon
    Today,        \* the year today is in; later dates are refused
    Amounts,      \* what an entry adds to the profit
    Openings,     \* opening balances an accountant may enter
    Posters,      \* sessions that post
    Lockable,     \* years with a month that may be locked
    Starts,       \* starts of the year that the company's form may name
    Drafted,      \* years with a document that may be saved as a draft
    MaxEntries, MaxCloses,  \* bounds of the model
    QuietClose    \* TRUE: nothing is posted while a year is being closed

Years == 1 .. Horizon
Nominal == {"sales", "rent"}
Permanent == {"cash", "bank", "capital", "retained"}
Accounts == Nominal \cup Permanent
Kinds == {"DOCUMENT", "JOURNAL_REVERSAL", "YEAR_END", "YEAR_END_REVERSAL"}
Places == {"month", "rest"}        \* the month that is locked, and the rest of a year

VARIABLES
    exists,      \* the rows of financial_years
    status,      \* CURRENT or LOCKED; READY_TO_CLOSE is never committed
    current,     \* the year with is_current
    fy_start,    \* tenants.financial_year_start: what prepare_year_end counts from
    whole_period, month_period,  \* accounting_periods of a year: none, open, closed
    journal,     \* entries by year of entry_date and kind, summed by account
    year_entry,  \* financial_years.journal_entry_id: the lines of the closing entry
    opening, balance,            \* accounts.opening_balance, current_balance
    drafts,      \* years with a DRAFT document
    posting,     \* the entry each session is about to insert
    closing,     \* what the session that closes a year has read
    closes       \* closes of each year so far

\* A company has a first year, and amounts are whole paise.
Setting ==
    /\ Horizon \in Nat \ {0} /\ Today \in Int /\ Amounts \subseteq Int /\ Openings \subseteq Int
    /\ MaxCloses \in Nat /\ QuietClose \in BOOLEAN

vars == <<exists, status, current, fy_start, whole_period, month_period, journal, year_entry, opening,
          balance, drafts, posting, closing, closes>>
periods == <<whole_period, month_period>>

Zero == [a \in Accounts |-> 0]
NoEntry == [lines |-> Zero, some |-> FALSE]
NoPosting == [year |-> 0, kind |-> "DOCUMENT", lines |-> Zero, draft |-> FALSE]
NoClosing == [year |-> 0, lines |-> Zero, some |-> FALSE]

Init ==
    /\ exists = {1} /\ status = [y \in Years |-> "CURRENT"] /\ current = 1
    /\ fy_start = 1
    /\ whole_period = [y \in Years |-> "none"] /\ month_period = [y \in Years |-> "none"]
    /\ journal = [y \in Years |-> [k \in Kinds |-> Zero]]
    /\ year_entry = [y \in Years |-> NoEntry]
    /\ opening = Zero /\ balance = Zero
    /\ drafts = {}
    /\ posting = [s \in Posters |-> NoPosting]
    /\ closing = NoClosing
    /\ closes = [y \in Years |-> 0]

-----------------------------------------------------------------------------
FromTo(m, n, f(_)) == SumFunctionOnSet([y \in m .. n |-> f(y)], m .. n)
OverYears(n, f(_)) == FromTo(1, n, f)
OverNominal(f(_)) == f("sales") + f("rent")
Documents(j, y, a) == j[y]["DOCUMENT"][a] + j[y]["JOURNAL_REVERSAL"][a]
Lines(j, y, a) == Documents(j, y, a) + j[y]["YEAR_END"][a] + j[y]["YEAR_END_REVERSAL"][a]

\* The ledger balance of an account; every account is signed towards the profit.
LedgerOf(j, o, a) == o[a] + OverYears(Horizon, LAMBDA y : Lines(j, y, a))
RecomputedFromLines(accounts, j, o) ==
    [a \in Accounts |-> IF a \in accounts THEN LedgerOf(j, Zero, a) ELSE balance[a]]
Recomputed(accounts, j, o) ==
    [a \in Accounts |-> IF a \in accounts THEN LedgerOf(j, o, a) ELSE balance[a]]
Touched(lines) == {a \in Accounts : lines[a] # 0}
Added(y, k, lines) ==
    [journal EXCEPT ![y][k] = [a \in Accounts |-> journal[y][k][a] + lines[a]]]

\* Movements of a year, all entries; and its profit and loss, without YEAR_END.
Movement(y, a) == Lines(journal, y, a)
ProfitLoss(y) ==
    OverNominal(LAMBDA a : Movement(y, a) - journal[y]["YEAR_END"][a])

\* The trial balance at the end of y.  An account drops out, with its opening
\* balance, when all its lines are later.
LinesBy(y, a) == \E z \in 1 .. y, k \in Kinds : journal[z][k][a] # 0
TrialBalanced(y) ==
    LET shown == {a \in Accounts : LinesBy(y, a) \/ ~LinesBy(Horizon, a)}
        signed(a) == IF a = "capital" THEN -opening[a] ELSE opening[a]
    IN  SumFunctionOnSet([a \in shown |-> signed(a)], shown) = 0

\* prepare_year_end for the end of y: it counts from the year the tenant's row names,
\* whichever year y is, and refuses a date before it.  From there on nothing is a
\* draft, the trial balance, which shows every account, balances; and the profit it
\* announces is that of all these years.
Ready(y) ==
    LET signed(a) == IF a = "capital" THEN -opening[a] ELSE opening[a]
    IN  /\ fy_start <= y /\ drafts \cap fy_start .. y = {}
        /\ SumFunctionOnSet([a \in Accounts |-> signed(a)], Accounts) = 0
AnnouncedOfAllYears(y) == OverYears(y, ProfitLoss)
PreparedProfit(y) == FromTo(fy_start, y, ProfitLoss)

\* The balance sheet at the end of y: what the assets exceed equity by.  The earnings
\* of the year count until a closing entry exists; opening balances are not read.
EarningsAlways(y) == ProfitLoss(y)
Earnings(y) == IF journal[y]["YEAR_END"] # Zero THEN 0 ELSE ProfitLoss(y)
SheetGap(y) ==
    LET by(a) == OverYears(y, LAMBDA z : Movement(z, a))
    IN  by("cash") + by("bank") - by("capital") - by("retained") - Earnings(y)

\* validate_period_open
PeriodOpenUnlocked(y, place) ==
    /\ y <= Today /\ y \in exists
    /\ whole_period[y] # "closed"
    /\ place = "month" => month_period[y] # "closed"

PeriodOpen(y, place) ==
    /\ y <= Today
    /\ y \in exists /\ status[y] # "LOCKED"
    /\ whole_period[y] # "closed"
    /\ place = "month" => month_period[y] # "closed"

Idle == \A s \in Posters : posting[s] = NoPosting

-----------------------------------------------------------------------------
Size(x) == IF x < 0 THEN -x ELSE x
EntriesSoFar ==
    LET size(y, a) == Size(journal[y]["DOCUMENT"][a])
    IN  OverYears(Horizon, LAMBDA y : size(y, "sales") + size(y, "rent") + size(y, "bank"))

\* The first part of a posting dated y: the period is checked, the entry drafted.
Draft(s, y, place, kind, lines, draft) ==
    /\ posting[s] = NoPosting
    /\ QuietClose => closing = NoClosing
    /\ PeriodOpen(y, place)
    /\ posting' = [posting EXCEPT ![s] = [year |-> y, kind |-> kind, lines |-> lines, draft |-> draft]]
    /\ UNCHANGED <<exists, status, current, fy_start, periods, journal, year_entry, opening, balance,
                   drafts, closing, closes>>

\* A document or a manual journal: income or cost against cash.
DraftEntry(s, y, place, a, x, draft) ==
    /\ EntriesSoFar < MaxEntries
    /\ draft => y \in drafts
    /\ Draft(s, y, place, "DOCUMENT", [Zero EXCEPT ![a] = x, !["cash"] = x], draft)

\* create_contra_entry: between accounts of the Cash & Bank group.
DraftContra(s, y, place, x) ==
    /\ EntriesSoFar < MaxEntries
    /\ Draft(s, y, place, "DOCUMENT", [Zero EXCEPT !["bank"] = x, !["cash"] = -x], FALSE)

\* reverse_manual_journal_entry: an entry that is not reversed yet, on any open date.
Standing(a) ==
    OverYears(Horizon, LAMBDA z : Documents(journal, z, a))
DraftReversal(s, y, place, a, x) ==
    /\ Standing(a) >= x /\ \A t \in Posters : posting[t].kind # "JOURNAL_REVERSAL"
    /\ Draft(s, y, place, "JOURNAL_REVERSAL",
             [Zero EXCEPT ![a] = -x, !["cash"] = IF a = "bank" THEN x ELSE -x], FALSE)

\* commit_ledger_draft and the commit of the request
Post(s) ==
    LET p == posting[s]
        after == Added(p.year, p.kind, p.lines)
    IN  /\ p # NoPosting
        /\ journal' = after
        /\ balance' = Recomputed(Touched(p.lines), after, opening)
        /\ drafts' = IF p.draft THEN drafts \ {p.year} ELSE drafts
        /\ posting' = [posting EXCEPT ![s] = NoPosting]
        /\ UNCHANGED <<exists, status, current, fy_start, periods, year_entry, opening, closing, closes>>

SaveDraft(y) ==
    /\ PeriodOpen(y, "rest") /\ y \in Drafted \ drafts
    /\ drafts' = drafts \cup {y}
    /\ UNCHANGED <<exists, status, current, fy_start, periods, journal, year_entry, opening, balance,
                   posting, closing, closes>>

\* update_opening_balances: any account, the others are not looked at.
SetOpening(a, x) ==
    /\ \E place \in Places : PeriodOpen(Today, place)
    /\ opening' = [opening EXCEPT ![a] = x]
    /\ balance' = [balance EXCEPT ![a] = @ + x - opening[a]]
    /\ UNCHANGED <<exists, status, current, fy_start, periods, journal, year_entry, drafts, posting,
                   closing, closes>>

-----------------------------------------------------------------------------
\* lock_accounting_period, unlock_accounting_period
LockMonth(y) ==
    /\ y <= Today /\ y \in Lockable
    /\ month_period' = [month_period EXCEPT ![y] = "closed"]
    /\ UNCHANGED <<exists, status, current, fy_start, whole_period, journal, year_entry, opening, balance,
                   drafts, posting, closing, closes>>

UnlockMonth(y) ==
    /\ y \in exists => status[y] # "LOCKED"
    /\ month_period[y] # "none"
    /\ month_period' = [month_period EXCEPT ![y] = "open"]
    /\ UNCHANGED <<exists, status, current, fy_start, whole_period, journal, year_entry, opening, balance,
                   drafts, posting, closing, closes>>

\* create_financial_year, switch_financial_year; the tenant's row must be free.  Both
\* make the year current, the second alone moves the start of the tenant's year.
Create(y) ==
    /\ closing = NoClosing /\ y \notin exists
    /\ exists' = exists \cup {y} /\ current' = y
    /\ UNCHANGED <<status, fy_start, periods, journal, year_entry, opening, balance, drafts, posting,
                   closing, closes>>

SwitchAnyYear(y) ==
    /\ closing = NoClosing /\ y \in exists
    /\ current' = y /\ fy_start' = y
    /\ UNCHANGED <<exists, status, periods, journal, year_entry, opening, balance, drafts,
                   posting, closing, closes>>
Switch(y) ==
    /\ closing = NoClosing /\ y \in exists /\ status[y] # "LOCKED"
    /\ current' = y /\ fy_start' = y
    /\ UNCHANGED <<exists, status, periods, journal, year_entry, opening, balance, drafts,
                   posting, closing, closes>>

\* update_company
UpdateCompany(y) ==
    /\ closing = NoClosing /\ y \in Starts
    /\ fy_start' = y
    /\ UNCHANGED <<exists, status, current, periods, journal, year_entry, opening, balance,
                   drafts, posting, closing, closes>>

\* The closing entry moves every nominal account to retained earnings.
ClosingLines(y) ==
    [a \in Accounts |-> IF a \in Nominal THEN -Movement(y, a)
                        ELSE IF a = "retained" THEN ProfitLoss(y) ELSE 0]
ClosingBalances(y) ==
    Cardinality(Touched(ClosingLines(y))) >= 2 =>
        OverNominal(LAMBDA a : Movement(y, a)) = ProfitLoss(y)

\* A year is closed by name, or (close_year_end) by a date in it: a year that is not
\* there is made as a second current one, which the index refuses.
Closable(y) == y \in exists

\* close_financial_year up to the closing entry; READY_TO_CLOSE is flushed, not
\* committed, so no other session sees it.
BeginClose(y) ==
    /\ closing = NoClosing /\ y < Horizon /\ closes[y] < MaxCloses
    /\ QuietClose => Idle
    /\ Closable(y) /\ status[y] # "LOCKED"
    /\ y \notin drafts /\ TrialBalanced(y)
    /\ ClosingBalances(y)
    /\ y + 1 \in exists => status[y + 1] # "LOCKED"
    /\ LET some == Cardinality(Touched(ClosingLines(y))) >= 2
       IN  closing' = [year |-> y, some |-> some,
                       lines |-> IF some THEN ClosingLines(y) ELSE Zero]
    /\ UNCHANGED <<exists, status, current, fy_start, periods, journal, year_entry, opening, balance,
                   drafts, posting, closes>>

SetPeriodClosed(y, state) ==
    whole_period' = [whole_period EXCEPT ![y] = "closed"] /\ UNCHANGED month_period

\* One accounting period that overlaps the year, whichever the query returns first.
SetPeriod(y, state) ==
    \/ /\ whole_period[y] # "none"
       /\ whole_period' = [whole_period EXCEPT ![y] = state] /\ UNCHANGED month_period
    \/ /\ month_period[y] # "none"
       /\ month_period' = [month_period EXCEPT ![y] = state] /\ UNCHANGED whole_period
    \/ /\ whole_period[y] = "none" /\ month_period[y] = "none"
       /\ whole_period' = [whole_period EXCEPT ![y] = IF state = "closed" THEN state ELSE @]
       /\ UNCHANGED month_period

WithoutOpenings == [a \in Accounts |-> IF a \in Permanent THEN 0 ELSE opening[a]]

\* The rest of close_financial_year, carry_forward_balances and the commit.
CommitClose ==
    LET y == closing.year
        after == Added(y, "YEAR_END", closing.lines)
    IN  /\ closing # NoClosing
        /\ journal' = after
        /\ year_entry' = [year_entry EXCEPT ![y] = [lines |-> closing.lines, some |-> closing.some]]
        /\ opening' = WithoutOpenings
        /\ balance' = Recomputed(Permanent \cup Touched(closing.lines), after, WithoutOpenings)
        /\ status' = [status EXCEPT ![y] = "LOCKED"]
        /\ SetPeriod(y, "closed")
        /\ exists' = exists \cup {y + 1} /\ current' = y + 1 /\ fy_start' = y + 1
        /\ closing' = NoClosing
        /\ closes' = [closes EXCEPT ![y] = @ + 1]
        /\ UNCHANGED <<drafts, posting>>

\* _reverse_journal_entry: every line on the other side.
SameSide(lines) == lines
OtherSide(lines) == [a \in Accounts |-> -lines[a]]

\* reopen_financial_year: the closing entry is reversed, balances of permanent
\* accounts are recomputed.
Reopen(y) ==
    LET after == Added(y, "YEAR_END_REVERSAL", OtherSide(year_entry[y].lines))
    IN  /\ closing = NoClosing
        /\ y \in exists /\ status[y] = "LOCKED"
        /\ journal' = after
        /\ opening' = WithoutOpenings
        /\ balance' = Recomputed(Permanent, after, WithoutOpenings)
        /\ status' = [status EXCEPT ![y] = "CURRENT"]
        /\ year_entry' = [year_entry EXCEPT ![y] = NoEntry]
        /\ SetPeriod(y, "open")
        /\ UNCHANGED <<exists, current, fy_start, drafts, posting, closing, closes>>

Next ==
    \/ \E s \in Posters :
           \/ \E y \in Years, place \in Places, x \in Amounts :
                  \/ \E a \in Nominal, draft \in BOOLEAN : DraftEntry(s, y, place, a, x, draft)
                  \/ DraftContra(s, y, place, x)
                  \/ \E a \in Nominal \cup {"bank"} : DraftReversal(s, y, place, a, x)
           \/ Post(s)
    \/ \E a \in {"cash", "capital"}, x \in Openings : SetOpening(a, x)
    \/ \E y \in Years : \/ SaveDraft(y) \/ LockMonth(y) \/ UnlockMonth(y)
                        \/ Create(y) \/ Switch(y) \/ UpdateCompany(y) \/ BeginClose(y) \/ Reopen(y)
    \/ CommitClose

Spec == Init /\ [][Next]_vars
-----------------------------------------------------------------------------
Entries == [Accounts -> Int]
States == {"none", "open", "closed"}

TypeOK ==
    /\ exists \subseteq Years /\ current \in exists /\ fy_start \in Years
    /\ status \in [Years -> {"CURRENT", "LOCKED"}] /\ status[current] # "LOCKED"
    /\ whole_period \in [Years -> States] /\ month_period \in [Years -> States]
    /\ journal \in [Years -> [Kinds -> Entries]]
    /\ year_entry \in [Years -> [lines : Entries, some : BOOLEAN]]
    /\ opening \in Entries /\ balance \in Entries /\ drafts \subseteq exists
    /\ posting \in [Posters -> [year : Years \cup {0}, kind : Kinds, lines : Entries, draft : BOOLEAN]]
    /\ closing \in [year : Years \cup {0}, lines : Entries, some : BOOLEAN]
    /\ closes \in [Years -> 0 .. MaxCloses]

Reopened(y) == closes[y] > IF status[y] = "LOCKED" THEN 1 ELSE 0

\* The year-end entry moves the profit of the year, all of it and once: the income
\* and cost accounts of a locked year come to zero and retained earnings hold its
\* profit, and an open year has moved nothing, however often it was reopened.  A
\* year that was closed a second time is not covered (see ReopenedYearCanBeClosed).
YearEndMovesProfit ==
    \A y \in Years :
        LET kept == Movement(y, "retained")
        IN  /\ status[y] = "CURRENT" => kept = 0
            /\ status[y] = "LOCKED" /\ ~Reopened(y) =>
                   /\ \A a \in Nominal : Movement(y, a) = 0
                   /\ kept = OverNominal(LAMBDA a : Documents(journal, y, a))

\* The balance sheet balances at the end of every year whose predecessors are
\* locked, before and after the year is closed: profit is counted as earnings or as
\* retained earnings, never as both or neither.  A reopened year is excepted: its
\* closing entry still exists and hides the earnings.
SheetBalances ==
    \A y \in Years :
        (\A z \in 1 .. y : ~Reopened(z) /\ (z < y => status[z] = "LOCKED")) => SheetGap(y) = 0

\* What prepare_year_end calls ready closes.  It announces the profit of all years from
\* the start in the tenant's row (accounting.py:897), which switching, closing and the
\* company's form move and creating a year does not: beyond the profit that the close
\* moves, exactly what earlier closes kept from there on.  The years from there to the
\* one before y are locked, and no account with an opening balance has only later lines.
PreparedCloses ==
    \A y \in exists :
        /\ Ready(y)
        /\ \A z \in fy_start .. y : ~Reopened(z) /\ (status[z] = "LOCKED" <=> z < y)
        /\ \A a \in Accounts : opening[a] = 0 \/ LinesBy(y, a) \/ ~LinesBy(Horizon, a)
        => /\ TrialBalanced(y) /\ ClosingBalances(y)
           /\ PreparedProfit(y)
                = ProfitLoss(y) + FromTo(fy_start, y - 1, LAMBDA z : Movement(z, "retained"))

\* accounts.current_balance is the opening balance plus every line of the ledger;
\* only income and cost accounts may be stale, and only after a reopening.
BalancesAreLedger ==
    \A a \in Accounts :
        balance[a] = LedgerOf(journal, opening, a) \/ (a \in Nominal /\ \E y \in Years : Reopened(y))

\* What the year-end moves, what the balances and the sheet say of it, and what was
\* announced before it.
YearsBalance == YearEndMovesProfit /\ BalancesAreLedger /\ SheetBalances /\ PreparedCloses

\* No document is posted into a locked year: the period lock holds from the close
\* to the reopening, although it is checked before and not while the entry is
\* inserted (assumption QuietClose).
LockHolds ==
    [][\A y \in Years, k \in {"DOCUMENT", "JOURNAL_REVERSAL"} :
           status[y] = "LOCKED" => journal'[y][k] = journal[y][k]]_vars

\* A year that is not locked takes postings, in every month nobody locked: the
\* period that the close created is opened again with the year.
OpenYearTakesPostings ==
    \A y \in exists :
        y <= Today /\ status[y] = "CURRENT" /\ month_period[y] = "none" => PeriodOpen(y, "rest")

\* A year that was reopened can be closed again: its closing entry balances
\* (api/v1/financial_years.py:717 speaks of "a re-close after an earlier reopen").
ReopenedYearCanBeClosed ==
    \A y \in exists : status[y] = "CURRENT" /\ Reopened(y) => ClosingBalances(y)
=============================================================================
