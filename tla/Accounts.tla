------------------------------ MODULE Accounts ------------------------------
(***************************************************************************)
(* The chart of accounts and the journal: accounts that users make, change *)
(* and delete, that a CSV bundle sets, and that postings make when they    *)
(* need them; journals entered by hand and reversed; and what the reports  *)
(* over them say.                                                          *)
(*                                                                         *)
(* A posting locks the accounts of its lines and computes their balances   *)
(* from all lines.  The handlers that change or delete an account lock     *)
(* nothing: they read it (BeginEdit) and write what they found necessary   *)
(* later (CommitEdit).  Narrations and paging are left out; days are those *)
(* of one financial year.                                                  *)
(***************************************************************************)
EXTENDS Integers, Sequences, FiniteSets, FiniteSetsExt, SequencesExt

CONSTANTS
    Standard,       \* key -> [code, name, type, group]: accounts that postings resolve
    Seeded,         \* the standard accounts that exist at first
    Customers,      \* contact -> its name
    Wanted,         \* [code, name, type, group, opening]: accounts that users make; codes are <<class, n>>
    Files,          \* bundles: sequences of [code, name, type, opening]
    Editors, Days,
    MaxAccounts, MaxEntries, MaxSteps   \* bounds of the model: a step is an entry, an edit or a bundle

VARIABLES
    accounts,   \* the rows of the table
    entries,    \* [day, source, of, lines]; a line is <<account, amount debited>>
    edits,      \* the change each editor has checked and not written
    made,       \* edits and bundles so far
    torn,       \* accounts whose balance was written over: not recomputed since
    crossed     \* an account was moved or deleted by someone who had not seen it change

vars == <<accounts, entries, edits, made, torn, crossed>>

Idle == [at |-> 0, what |-> "none", value |-> 0, saw |-> <<<<>>, <<>>, {}>>]
Account(key, code, name, type, group, parent, opening) ==
    [key |-> key, code |-> code, name |-> name, type |-> type, group |-> group, parent |-> parent,
     opening |-> opening, current |-> opening, active |-> TRUE, live |-> TRUE]

LiveOf(a) == {i \in DOMAIN a : a[i].live}
HasCode(a, code) == {i \in LiveOf(a) : a[i].code = code}
\* The unique index counts deleted rows too.
CodeTaken(a, code) == \E i \in DOMAIN a : a[i].code = code

Sign(type) == IF type \in {"ASSET", "EXPENSE"} THEN 1 ELSE -1
NetOf(e, i) == FoldLeft(LAMBDA n, l : IF l[1] = i THEN n + l[2] ELSE n, 0, e.lines)
Net(es, i) == FoldLeft(LAMBDA n, e : n + NetOf(e, i), 0, es)
Closing(a, es, i) == a[i].opening + Sign(a[i].type) * Net(es, i)
Touched(e) == {e.lines[k][1] : k \in DOMAIN e.lines}

Init ==
    /\ accounts = [k \in DOMAIN Seeded |-> LET d == Standard[Seeded[k]] IN
                     Account(Seeded[k], d.code, d.name, d.type, d.group, 0, 0)]
    /\ entries = <<>> /\ made = 0
    /\ edits = [e \in Editors |-> Idle]
    /\ torn = {} /\ crossed = FALSE

-----------------------------------------------------------------------------
(* Postings.                                                               *)

\* Mutant: the balance is the sum of the lines.
RecomputedFromLines(a, es, S) ==
    [i \in DOMAIN a |-> IF i \in S /\ a[i].live
                        THEN [a[i] EXCEPT !.current = Sign(a[i].type) * Net(es, i)] ELSE a[i]]
\* update_account_balances
Recomputed(a, es, S) ==
    [i \in DOMAIN a |-> IF i \in S /\ a[i].live THEN [a[i] EXCEPT !.current = Closing(a, es, i)] ELSE a[i]]

\* commit_ledger_draft
Commit(a, e) ==
    /\ Len(entries) < MaxEntries /\ Len(entries) + made < MaxSteps /\ Len(a) <= MaxAccounts
    /\ entries' = Append(entries, e)
    /\ accounts' = Recomputed(a, Append(entries, e), Touched(e))
    /\ torn' = torn \ Touched(e)
    /\ UNCHANGED <<edits, made, crossed>>
Entry(day, source, of, lines) == [day |-> day, source |-> source, of |-> of, lines |-> lines]

\* AccountResolver: the account made for the key; for a standard one, whatever has its
\* code; else a new row, whose identity or code a deleted row may hold.
Definition(key) ==
    IF key \in DOMAIN Standard THEN Standard[key]
    ELSE [code |-> <<"AR", key>>, name |-> Customers[key], type |-> "ASSET", group |-> "none"]
Found(a, key) ==
    LET own == {i \in LiveOf(a) : a[i].key = key}
    IN  IF own # {} \/ key \notin DOMAIN Standard THEN own ELSE HasCode(a, Definition(key).code)
Resolves(a, key) ==
    Found(a, key) # {} \/ ~\E i \in DOMAIN a : a[i].key = key \/ a[i].code = Definition(key).code
Resolved(a, key) ==
    LET d == Definition(key)
    IN  IF Found(a, key) # {} THEN a ELSE Append(a, Account(key, d.code, d.name, d.type, d.group, 0, 0))
At(a, key) == Min(Found(a, key))

\* A document between the accounts of two keys.
Document(day, source, debit, credit) ==
    LET a == Resolved(Resolved(accounts, debit), credit)
    IN  /\ Resolves(accounts, debit) /\ Resolves(Resolved(accounts, debit), credit)
        /\ Commit(a, Entry(day, source, 0, <<<<At(a, debit), 1>>, <<At(a, credit), -1>>>>))
Invoice(day, c) == Document(day, "INVOICE", c, "sales")
Receipt(day, c) == Document(day, "PAYMENT", "cash", c)

SeedDefaults ==
    LET one(a, key) == IF Resolves(a, key) THEN Resolved(a, key) ELSE a
    IN  /\ accounts' = FoldLeft(one, accounts, SetToSeq(DOMAIN Standard))
        /\ accounts' # accounts /\ Len(accounts') <= MaxAccounts
        /\ UNCHANGED <<entries, edits, made, torn, crossed>>

\* create_manual_journal_entry, create_contra_entry
Usable(i) == accounts[i].live /\ accounts[i].active
Journal(day, i, j) ==
    /\ Usable(i) /\ Usable(j)
    /\ Commit(accounts, Entry(day, "MANUAL", 0, <<<<i, 1>>, <<j, -1>>>>))
Contra(day, i, j) ==
    /\ Usable(i) /\ Usable(j) /\ i # j
    /\ accounts[i].group = "cash" /\ accounts[j].group = "cash"
    /\ Commit(accounts, Entry(day, "CONTRA", 0, <<<<i, 1>>, <<j, -1>>>>))
\* Mutant: a reversal repeats the lines.
SameSide(e) == e.lines
Opposite(e) == [k \in DOMAIN e.lines |-> <<e.lines[k][1], -e.lines[k][2]>>]
\* reverse_manual_journal_entry holds the row of the entry.
ReverseJournal(day, k) ==
    /\ entries[k].source \in {"MANUAL", "CONTRA"}
    /\ ~\E r \in DOMAIN entries : entries[r].source = "JOURNAL_REVERSAL" /\ entries[r].of = k
    /\ Commit(accounts, Entry(day, "JOURNAL_REVERSAL", k, Opposite(entries[k])))

-----------------------------------------------------------------------------
(* The chart.                                                              *)

ParentFits(a, parent, type) ==
    parent = 0 \/ (parent \in LiveOf(a) /\ a[parent].active /\ a[parent].type = type)
CreateAccount(w, parent) ==
    /\ ParentFits(accounts, parent, w.type) /\ ~CodeTaken(accounts, w.code) /\ Len(accounts) < MaxAccounts
    /\ accounts' = Append(accounts, Account("none", w.code, w.name, w.type, w.group, parent, w.opening))
    /\ UNCHANGED <<entries, edits, made, torn, crossed>>

\* The parents of an account, its own among them when there is a cycle.
Above(a, i) ==
    LET up[n \in 0 .. Len(a)] ==
            IF n = 0 THEN {a[i].parent} \ {0} ELSE up[n - 1] \cup ({a[j].parent : j \in up[n - 1]} \ {0})
    IN  up[Len(a)]
HasLines(es, i) == \E k \in DOMAIN es : i \in Touched(es[k])

\* What update_account and delete_account check.
MayEdit(i, what, value) ==
    /\ accounts[i].live
    /\ what = "parent" => /\ value # 0 /\ value # i /\ ParentFits(accounts, value, accounts[i].type)
                          /\ i \notin Above(accounts, value)
    /\ what = "code" => HasCode(accounts, value) \subseteq {i}
    /\ what = "delete" => /\ ~\E j \in LiveOf(accounts) : accounts[j].parent = i
                          /\ ~HasLines(entries, i) /\ accounts[i].opening = 0 /\ accounts[i].current = 0
BeginEdit(e, i, what, value) ==
    /\ edits[e] = Idle /\ Len(entries) + made < MaxSteps /\ made' = made + 1
    /\ MayEdit(i, what, value)
    /\ edits' = [edits EXCEPT ![e] = [at |-> i, what |-> what, value |-> value, saw |-> <<accounts, entries, torn>>]]
    /\ UNCHANGED <<accounts, entries, torn, crossed>>

\* The columns that the handler set: a change of the opening balance moves the balance
\* it read by as much.
Edited(edit) ==
    LET a == accounts[edit.at]
        read == edit.saw[1][edit.at]
    IN  CASE edit.what = "parent" -> [a EXCEPT !.parent = edit.value]
          [] edit.what = "code" -> [a EXCEPT !.code = edit.value]
          [] edit.what = "active" -> [a EXCEPT !.active = edit.value]
          [] edit.what = "delete" -> [a EXCEPT !.live = FALSE]
          [] OTHER -> IF edit.value = read.opening THEN a
                      ELSE [a EXCEPT !.opening = edit.value, !.current = read.current + edit.value - read.opening]
CommitEdit(e) ==
    LET edit == edits[e]
        i == edit.at
    IN  /\ edit # Idle
        /\ edits' = [edits EXCEPT ![e] = Idle]
        /\ IF edit.what = "code" /\ \E j \in DOMAIN accounts \ {i} : accounts[j].code = edit.value
           THEN UNCHANGED <<accounts, torn, crossed>>
           ELSE /\ accounts' = [accounts EXCEPT ![i] = Edited(edit)]
                /\ torn' = torn \cup (IF edit.what = "opening" /\ (Net(entries, i) # Net(edit.saw[2], i) \/ i \in edit.saw[3])
                                      THEN {i} ELSE {})
                /\ crossed' = (crossed \/ (edit.what \in {"parent", "delete"} /\ edit.saw # <<accounts, entries, torn>>))
        /\ UNCHANGED <<entries, made>>

\* CSV: the openings of a bundle balance, and its accounts have the types they have here.
ImportAccounts(f) ==
    LET at(v) == HasCode(accounts, v.code)
        one(a, v) == IF at(v) = {} THEN Append(a, Account("none", v.code, v.name, v.type, "none", 0, v.opening))
                     ELSE [a EXCEPT ![Min(at(v))] = [@ EXCEPT !.name = v.name, !.opening = v.opening,
                                                              !.current = v.opening]]
        known == UNION {at(f[k]) : k \in DOMAIN f}
    IN  /\ FoldLeft(LAMBDA n, v : n + Sign(v.type) * v.opening, 0, f) = 0
        /\ \A k \in DOMAIN f : /\ \A i \in at(f[k]) : accounts[i].type = f[k].type
                               /\ at(f[k]) = {} => ~CodeTaken(accounts, f[k].code)
        /\ Len(entries) + made < MaxSteps /\ made' = made + 1
        /\ accounts' = FoldLeft(one, accounts, f) /\ Len(accounts') <= MaxAccounts
        /\ torn' = (torn \ known) \cup {i \in known : Net(entries, i) # 0}
        /\ UNCHANGED <<entries, edits, crossed>>

\* dedupe_contact_accounts: the first account of a name with a balance, or else the
\* first, takes the lines and the openings of the others, which are deleted.
Dedupe ==
    LET auto == {i \in LiveOf(accounts) : accounts[i].code[1] = "AR"}
        alike(i) == {j \in auto : accounts[j].type = accounts[i].type /\ accounts[j].name = accounts[i].name}
        funded(i) == {j \in alike(i) : accounts[j].current # 0}
        primary(i) == Min(IF funded(i) # {} THEN funded(i) ELSE alike(i))
        gone == {i \in auto : primary(i) # i}
        moved == [k \in DOMAIN entries |-> [entries[k] EXCEPT !.lines =
                     [l \in DOMAIN @ |-> <<IF @[l][1] \in gone THEN primary(@[l][1]) ELSE @[l][1], @[l][2]>>]]]
        opened(i) == FoldSet(LAMBDA j, n : n + accounts[j].opening, 0, alike(i))
        merged == [i \in DOMAIN accounts |->
            IF i \in gone THEN [accounts[i] EXCEPT !.opening = 0, !.current = 0, !.active = FALSE, !.live = FALSE]
            ELSE IF i \in auto /\ Cardinality(alike(i)) > 1 THEN [accounts[i] EXCEPT !.opening = opened(i)]
            ELSE accounts[i]]
        affected == {primary(i) : i \in gone}
    IN  /\ gone # {}
        /\ entries' = moved /\ accounts' = Recomputed(merged, moved, affected)
        /\ torn' = torn \ (affected \cup gone)
        /\ crossed' = (crossed \/ \E i \in LiveOf(accounts) : accounts[i].parent \in gone)
        /\ UNCHANGED <<edits, made>>

-----------------------------------------------------------------------------
(* Reports, over the entries up to a day and the openings.                 *)

Until(d) == SelectSeq(entries, LAMBDA e : e.day <= d)
Between(d1, d2) == SelectSeq(entries, LAMBDA e : e.day \in d1 .. d2)
OfTypes(types) == {i \in LiveOf(accounts) : accounts[i].type \in types}
SumOver(S, f(_)) == FoldSet(LAMBDA i, n : n + f(i), 0, S)
LastDay == Max(Days)

\* get_ledger_statement: a page starts from the opening and the lines of the pages before.
LinesOf(i) ==
    LET sorted == FoldLeft(LAMBDA s, d : s \o Between(d, d), <<>>, SetToSortSeq(Days, <))
        mine == SelectSeq(sorted, LAMBDA e : i \in Touched(e))
    IN  [k \in DOMAIN mine |-> Sign(accounts[i].type) * NetOf(mine[k], i)]
Page(i, n) ==
    LET sum(s) == FoldLeft(+, 0, s)
        before == SubSeq(LinesOf(i), 1, n)
        rest == SubSeq(LinesOf(i), n + 1, Len(LinesOf(i)))
    IN  [opening |-> accounts[i].opening + sum(before), closing |-> accounts[i].opening + sum(before) + sum(rest)]

\* The trial balances: the day they are asked for is a condition of an outer join and
\* leaves no line out.
TrialBalance ==
    LET closing(i) == Sign(accounts[i].type) * Closing(accounts, entries, i)
    IN  [debits |-> SumOver(LiveOf(accounts), LAMBDA i : Max({closing(i), 0})),
         credits |-> SumOver(LiveOf(accounts), LAMBDA i : Max({-closing(i), 0}))]
OpeningGap(types) == SumOver(OfTypes(types), LAMBDA i : Sign(accounts[i].type) * accounts[i].opening)

Profit(es) == -SumOver(OfTypes({"REVENUE", "EXPENSE"}), LAMBDA i : Net(es, i))
\* What the assets exceed the liabilities and the equity by.
Excess(es, profit) ==
    SumOver(OfTypes({"ASSET", "LIABILITY", "EQUITY"}),
            LAMBDA i : Sign(accounts[i].type) * accounts[i].opening + Net(es, i)) - profit
\* Of the two balance sheets one counts the lines up to the day, the other all of them
\* with the profit up to the day.
SheetGap(d) == Excess(Until(d), Profit(Until(d)))
NetProfit(d) == Profit(Until(d))
ServiceGap(d) == Excess(entries, NetProfit(d))

\* The cash book and the bank book.
Tills ==
    {i \in LiveOf(accounts) : \/ accounts[i].code[1] = "CASH"
                              \/ accounts[i].group = "cash" /\ accounts[i].name # "bank"}
Banks ==
    {i \in LiveOf(accounts) : \/ accounts[i].code[1] = "BANK"
                              \/ accounts[i].group = "cash" /\ accounts[i].name = "bank"}
Register(S, d1, d2) ==
    LET moved(es, side) == SumOver(S, LAMBDA i : FoldLeft(LAMBDA n, e :
                               n + FoldLeft(LAMBDA m, l : m + (IF l[1] = i /\ side * l[2] > 0 THEN side * l[2] ELSE 0),
                                            0, e.lines), 0, es))
        opening == SumOver(S, LAMBDA i : accounts[i].opening + Net(Until(d1 - 1), i))
        inflow == moved(Between(d1, d2), 1)
        outflow == moved(Between(d1, d2), -1)
    IN  [opening |-> opening, inflow |-> inflow, outflow |-> outflow, closing |-> opening + inflow - outflow]
\* get_cash_bank_balances
CashBalances == {i \in OfTypes({"ASSET"}) : accounts[i].code \in {<<"CASH", 0>>, <<"BANK", 0>>}}

\* The cash flow: profit, what documents were not collected, and of the entries made by
\* hand the lines of assets that are not cash, of liabilities and of equity.
CashFlow ==
    LET documents(source) == Cardinality({k \in DOMAIN entries : entries[k].source = source})
        manual == SelectSeq(entries, LAMBDA e : e.source = "MANUAL")
        other == {i \in OfTypes({"ASSET"}) : accounts[i].code[1] \notin {"CASH", "BANK"}}
                 \cup OfTypes({"LIABILITY", "EQUITY"})
    IN  SumOver(CashBalances, LAMBDA i : accounts[i].opening)
        + Profit(entries) + documents("PAYMENT") - documents("INVOICE") - SumOver(other, LAMBDA i : Net(manual, i))

\* get_day_book
DayBook(d1, d2) ==
    LET total(side) == FoldLeft(LAMBDA n, e : n + FoldLeft(LAMBDA m, l :
                           m + (IF side * l[2] > 0 THEN side * l[2] ELSE 0), 0, e.lines), 0, Between(d1, d2))
    IN  [debit |-> total(1), credit |-> total(-1)]

-----------------------------------------------------------------------------

\* Documents are of the first day, what is entered by hand of the last.
Post ==
    \/ \E c \in DOMAIN Customers : Invoice(Min(Days), c) \/ Receipt(Min(Days), c)
    \/ \E i, j \in DOMAIN accounts : Journal(LastDay, i, j) \/ Contra(LastDay, i, j)
    \/ \E k \in DOMAIN entries : ReverseJournal(LastDay, k)
Edit ==
    \/ \E e \in Editors, i \in DOMAIN accounts :
         \/ \E parent \in DOMAIN accounts : BeginEdit(e, i, "parent", parent)
         \/ \E code \in {w.code : w \in Wanted} : BeginEdit(e, i, "code", code)
         \/ BeginEdit(e, i, "active", ~accounts[i].active)
         \/ BeginEdit(e, i, "opening", 1)
         \/ BeginEdit(e, i, "delete", 0)
    \/ \E e \in Editors : CommitEdit(e)
Create == \E w \in Wanted, parent \in {0} \cup DOMAIN accounts : CreateAccount(w, parent)

Next == Post \/ Edit \/ Create \/ SeedDefaults \/ Dedupe \/ \E f \in Files : ImportAccounts(f)

Spec == Init /\ [][Next]_vars

-----------------------------------------------------------------------------
(* Properties.                                                             *)

TypeOK ==
    /\ Len(accounts) <= MaxAccounts /\ Len(entries) <= MaxEntries
    /\ \A i \in DOMAIN accounts : accounts[i].parent \in 0 .. Len(accounts)
    /\ torn \subseteq DOMAIN accounts

\* A balance is the opening and the lines, but where an update or an import wrote over
\* a posting's (masters.py:727, csv_import.py:1062), until the next posting heals it.
Balances == \A i \in LiveOf(accounts) \ torn : accounts[i].current = Closing(accounts, entries, i)

\* No two live accounts have one code; unless handlers crossed, no account is above
\* itself, none has a parent of another type or a deleted one, and every line is on a
\* live account.
Chart ==
    /\ \A i, j \in DOMAIN accounts : accounts[i].code = accounts[j].code => i = j
    /\ ~crossed => \A i \in LiveOf(accounts) : LET parent == accounts[i].parent IN
         /\ i \notin Above(accounts, i)
         /\ parent # 0 => accounts[parent].live /\ accounts[parent].type = accounts[i].type
    /\ ~crossed => \A k \in DOMAIN entries : Touched(entries[k]) \subseteq LiveOf(accounts)

\* What a journal did is undone at most once, and entirely, also after accounts merged.
Undone ==
    \A k, r \in DOMAIN entries : entries[r].source = "JOURNAL_REVERSAL" /\ entries[r].of = k =>
        /\ \A i \in DOMAIN accounts : NetOf(entries[k], i) + NetOf(entries[r], i) = 0
        /\ \A q \in DOMAIN entries \ {r} : entries[q].source = "JOURNAL_REVERSAL" => entries[q].of # k

\* No journal was reversed; what moves with documents is no cash, and what is coded as
\* cash is an asset and has an opening only under a standard code.
Plain ==
    /\ ~\E k \in DOMAIN entries : entries[k].source = "JOURNAL_REVERSAL"
    /\ \A i \in LiveOf(accounts) :
         /\ accounts[i].code[1] \in {"CASH", "BANK"} =>
              /\ accounts[i].type = "ASSET" /\ accounts[i].key \notin DOMAIN Customers
              /\ accounts[i].code[2] # 0 => accounts[i].opening = 0
         /\ accounts[i].group = "cash" => accounts[i].code[1] \in {"CASH", "BANK"}
         /\ accounts[i].code = Standard["sales"].code => accounts[i].type = "REVENUE"

\* The reports agree with the balances and with each other, to the openings that do not
\* balance: the services' sheet only up to the profit made after its day
\* (report_services.py:77), the cash flow only when nothing was reversed and only the
\* standard cash accounts opened with anything (:788, :836).
Reports ==
    /\ \A i \in LiveOf(accounts), n \in 0 .. Len(entries) : n <= Len(LinesOf(i)) =>
         /\ Page(i, n).closing = Closing(accounts, entries, i)
         /\ n = 0 => Page(i, n).opening = accounts[i].opening
    /\ \A d1, d2 \in Days : /\ DayBook(d1, d2).debit = DayBook(d1, d2).credit
                             /\ Register(Tills \cap Banks, d1, d2).closing - Register(Tills, d1, d2).closing
                                - Register(Banks, d1, d2).closing + Register(Tills \cup Banks, d1, d2).closing = 0
    /\ \A S \in {Tills, Banks} : \A d \in Days : Register(S, d, LastDay).closing =
           SumOver(S, LAMBDA i : accounts[i].opening + Net(entries, i))
    /\ ~crossed =>
         /\ TrialBalance.debits - TrialBalance.credits = OpeningGap({"ASSET", "LIABILITY", "EQUITY", "REVENUE", "EXPENSE"})
         /\ \A d \in Days : /\ SheetGap(d) = OpeningGap({"ASSET", "LIABILITY", "EQUITY"})
                             /\ ServiceGap(d) = SheetGap(d) + Profit(entries) - Profit(Until(d))
         /\ Plain => CashFlow = SumOver({i \in LiveOf(accounts) : accounts[i].code[1] \in {"CASH", "BANK"}},
                                        LAMBDA i : accounts[i].opening + Net(entries, i))

AccountsAgree == Balances /\ Chart /\ Undone /\ Reports
=============================================================================
