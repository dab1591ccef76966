------------------------------ MODULE Expenses ------------------------------
(***************************************************************************)
(* Expenses and their categories.  An expense is posted when it is created *)
(* or, a clone, when a user asks for it; it is cancelled by an entry that  *)
(* is computed again from the expense, its category and the company's tax  *)
(* mode.  A correction cancels a posted expense and creates another.       *)
(*                                                                         *)
(* Correction and deletion hold the row (Update, Delete); creating,        *)
(* cloning, posting and cancelling read without a lock (Begin...) and      *)
(* write later (Commit...).  Amounts are whole paise, so that nothing is   *)
(* rounded off; accounts exist, and texts are left out.                    *)
(***************************************************************************)
EXTENDS Integers, Sequences, FiniteSets, FiniteSetsExt

CONSTANTS
    Users, None,
    Categories, Links,      \* expense categories, and the accounts they are linked to
    Link,                   \* category -> its account at first
    Till,                   \* the standard cash account
    Terms,                  \* name -> [amount, rate]
    Payloads,               \* [category, bank, day, terms, pos]: what users enter
    Changes,                \* [category, day, terms, pos]: corrections, None where a field is not sent
    Shut,                   \* day -> "open", "filed" (with the tax office) or "locked" (by the books)
    Today,
    UnionTerritories, Origin,
    Top,                    \* the last number of the month that has four digits
    MaxExpenses, MaxSteps   \* bounds of the model: a step is a request or a change of settings

VARIABLES
    expenses, entries,
    categories,     \* category -> [link, active, here]
    regular,        \* the company claims the tax it pays
    requests,       \* what each user's request read
    crossed,        \* expenses that changed between the reading and the writing of their posting
    steps

vars == <<expenses, entries, categories, regular, requests, crossed, steps>>
rest == <<categories, regular, requests, crossed>>

Tax == INSTANCE Taxation

Idle == [what |-> None]
Ids == DOMAIN expenses
LiveIds == {i \in Ids : expenses[i].live}
HasEntry(kind, i) == \E k \in DOMAIN entries : entries[k].kind = kind /\ entries[k].of = i

Init ==
    /\ expenses = <<>> /\ entries = <<>> /\ crossed = {} /\ steps = 0
    /\ categories = [c \in Categories |-> [link |-> Link[c], active |-> TRUE, here |-> TRUE]]
    /\ regular \in BOOLEAN
    /\ requests = [u \in Users |-> Idle]

\* Numbers compare as text: 10000 comes before 9999.
Number(S) ==
    LET short == {n \in S : n <= Top}
    IN  1 + (IF S = {} THEN 0 ELSE IF short # {} THEN Max(short) ELSE Max(S))
\* Mutant: deleted expenses give their number back.
NextOfLive == Number({expenses[i].number : i \in LiveIds})
\* _gen_expense_number
NextNumber == Number({expenses[i].number : i \in Ids})
NumberTaken(n) == \E i \in Ids : expenses[i].number = n

\* _compute_expense_totals, at the company's state when the expense names none
Totals(terms, pos) ==
    Tax!Expense(Terms[terms].amount, Terms[terms].rate, Origin, IF pos = None THEN Origin ELSE pos)
Row(number, p, pos, status) ==
    [number |-> number, category |-> p.category, bank |-> p.bank, day |-> p.day, terms |-> p.terms, pos |-> pos,
     tax |-> Totals(p.terms, p.pos).tax, total |-> Totals(p.terms, p.pos).total, status |-> status, live |-> TRUE]

\* The lines of a posting: the cost to the account of the category, with the tax when
\* it cannot be claimed.
Money(bank) == IF bank = None THEN Till ELSE bank
TaxOf(e) == Tax!SumOver(Tax!Heads, LAMBDA h : e.tax[h])
PostedLines(e, link, claims, side) ==
    [a \in Links \cup {Money(e.bank)} \cup Tax!Heads |->
        side * (IF a = link THEN Terms[e.terms].amount + (IF claims THEN 0 ELSE TaxOf(e))
                ELSE IF a = Money(e.bank) THEN -(Terms[e.terms].amount + TaxOf(e))
                ELSE IF claims /\ a \in Tax!Heads THEN e.tax[a] ELSE 0)]
Entry(kind, i, e, link, claims) ==
    [kind |-> kind, of |-> i, day |-> e.day, under |-> <<link, claims>>,
     lines |-> PostedLines(e, link, claims, IF kind = "EXPENSE" THEN 1 ELSE -1)]

Begin(u, request) ==
    /\ requests[u] = Idle /\ steps < MaxSteps /\ steps' = steps + 1
    /\ requests' = [requests EXCEPT ![u] = request]
    /\ UNCHANGED <<expenses, entries, categories, regular, crossed>>
End(u) == requests' = [requests EXCEPT ![u] = Idle] /\ UNCHANGED <<categories, regular, steps>>

-----------------------------------------------------------------------------
(* Creating and cloning: the number is read first, and unique.             *)

Chosen(c) == categories[c].here /\ categories[c].active
BeginCreate(u, p) ==
    /\ Shut[p.day] = "open" /\ Chosen(p.category) /\ Len(expenses) < MaxExpenses
    /\ Begin(u, [what |-> "create", number |-> NextNumber, row |-> Row(NextNumber, p, p.pos, "POSTED"),
                 link |-> categories[p.category].link, claims |-> regular])
\* The clone keeps the tax of the place and not the place.
BeginClone(u, i) ==
    /\ expenses[i].live /\ Shut[Today] # "locked" /\ Len(expenses) < MaxExpenses
    /\ Begin(u, [what |-> "clone", number |-> NextNumber,
                 row |-> Row(NextNumber, [expenses[i] EXCEPT !.day = Today], None, "DRAFT")])
CommitNew(u) ==
    LET r == requests[u]
        refused == NumberTaken(r.number) \/ ~categories[r.row.category].here
    IN  /\ r.what \in {"create", "clone"} /\ Len(expenses) < MaxExpenses
        /\ expenses' = IF refused THEN expenses ELSE Append(expenses, r.row)
        /\ entries' = IF refused \/ r.what = "clone" THEN entries
                      ELSE Append(entries, Entry("EXPENSE", Len(expenses) + 1, r.row, r.link, r.claims))
        /\ UNCHANGED crossed /\ End(u)

-----------------------------------------------------------------------------
(* Posting a draft and cancelling.                                         *)

\* post_expense, cancel_expense
MayPost(i) ==
    /\ expenses[i].live /\ Shut[expenses[i].day] = "open"
    /\ expenses[i].status = "DRAFT" /\ ~HasEntry("EXPENSE", i) /\ categories[expenses[i].category].here
MayCancel(i) ==
    /\ expenses[i].live /\ Shut[expenses[i].day] = "open"
    /\ expenses[i].status = "POSTED" /\ categories[expenses[i].category].here
Read(kind, i) ==
    [what |-> kind, at |-> i, row |-> expenses[i], link |-> categories[expenses[i].category].link, claims |-> regular]
BeginPost(u, i) == MayPost(i) /\ Begin(u, Read("EXPENSE", i))
BeginCancel(u, i) == MayCancel(i) /\ Begin(u, Read("EXPENSE_REVERSAL", i))
\* The row gets its status, whatever it has become; a second entry of the kind is refused.
CommitPosting(u) ==
    LET r == requests[u]
        i == r.at
    IN  /\ r.what \in {"EXPENSE", "EXPENSE_REVERSAL"}
        /\ IF HasEntry(r.what, i) THEN UNCHANGED <<expenses, entries, crossed>>
           ELSE /\ entries' = Append(entries, Entry(r.what, i, r.row, r.link, r.claims))
                /\ expenses' = [expenses EXCEPT ![i].status = IF r.what = "EXPENSE" THEN "POSTED" ELSE "CANCELLED"]
                /\ crossed' = crossed \cup (IF expenses[i] # r.row THEN {i} ELSE {})
        /\ End(u)

-----------------------------------------------------------------------------
(* Correcting and deleting.                                                *)

Sent(new, old) == IF new = None THEN old ELSE new
Or(change, e) ==
    [category |-> Sent(change.category, e.category), bank |-> e.bank, day |-> Sent(change.day, e.day),
     terms |-> Sent(change.terms, e.terms), pos |-> Sent(Sent(change.pos, e.pos), Origin)]
Step == steps < MaxSteps /\ steps' = steps + 1
Cancelled(i) == [expenses EXCEPT ![i].status = "CANCELLED", ![i].live = FALSE]
Reversed(i) ==
    Append(entries, Entry("EXPENSE_REVERSAL", i, expenses[i], categories[expenses[i].category].link, regular))

\* update_expense: the tax is computed again when something it is made of is sent.
UpdateDraft(i, change) ==
    LET e == expenses[i]
        p == Or(change, e)
        again == change.terms # None \/ change.pos # None
        totals == Totals(p.terms, p.pos)
    IN  /\ e.live /\ e.status = "DRAFT" /\ Step
        /\ Shut[e.day] # "locked" /\ Shut[p.day] # "locked" /\ categories[p.category].here
        /\ expenses' = [expenses EXCEPT ![i] =
               [e EXCEPT !.category = p.category, !.day = p.day, !.terms = p.terms,
                         !.pos = IF again THEN p.pos ELSE @, !.tax = IF again THEN totals.tax ELSE @,
                         !.total = IF again THEN totals.total ELSE @]]
        /\ UNCHANGED <<entries, rest>>
\* direct_update_expense
Replace(i, change) ==
    LET p == Or(change, expenses[i])
        row == Row(NextNumber, p, p.pos, "POSTED")
    IN  /\ MayCancel(i) /\ ~HasEntry("EXPENSE_REVERSAL", i) /\ Step /\ Len(expenses) < MaxExpenses
        /\ Shut[p.day] = "open" /\ Chosen(p.category) /\ ~NumberTaken(NextNumber)
        /\ expenses' = Append(Cancelled(i), row)
        /\ entries' = Append(Reversed(i),
                             Entry("EXPENSE", Len(expenses) + 1, row, categories[p.category].link, regular))
        /\ UNCHANGED rest
\* direct_delete_expense: a draft, or a posted expense, cancelled at once.
DeleteDraft(i) ==
    /\ expenses[i].live /\ expenses[i].status = "DRAFT" /\ Step
    /\ expenses' = [expenses EXCEPT ![i].live = FALSE]
    /\ UNCHANGED <<entries, rest>>
DeletePosted(i) ==
    /\ MayCancel(i) /\ ~HasEntry("EXPENSE_REVERSAL", i) /\ Step
    /\ expenses' = Cancelled(i) /\ entries' = Reversed(i)
    /\ UNCHANGED rest

-----------------------------------------------------------------------------
(* Settings.                                                               *)

Settings == UNCHANGED <<expenses, entries, requests, crossed>> /\ Step
\* create_expense_category: one that no request has to do with.
CreateCategory(c, link) ==
    /\ ~categories[c].here /\ ~(\E u \in Users : requests[u] # Idle /\ requests[u].row.category = c) /\ Settings
    /\ categories' = [categories EXCEPT ![c] = [link |-> link, active |-> TRUE, here |-> TRUE]]
    /\ UNCHANGED regular
\* update_expense_category
LinkCategory(c, link) ==
    /\ Chosen(c) /\ categories[c].link # link /\ Settings
    /\ categories' = [categories EXCEPT ![c].link = link]
    /\ UNCHANGED regular
Deactivate(c) ==
    /\ Chosen(c) /\ Settings
    /\ categories' = [categories EXCEPT ![c].active = FALSE]
    /\ UNCHANGED regular
\* delete_expense_category: an expense, a deleted one too, holds its category.
DeleteCategory(c) ==
    /\ Chosen(c) /\ ~(\E i \in Ids : expenses[i].category = c) /\ Settings
    /\ categories' = [categories EXCEPT ![c].here = FALSE]
    /\ UNCHANGED regular
\* The company registers for the tax, or leaves it.
ChangeMode ==
    /\ regular' = ~regular /\ Settings
    /\ UNCHANGED categories

Next ==
    \/ \E u \in Users :
         \/ \E p \in Payloads : BeginCreate(u, p)
         \/ \E i \in Ids : BeginClone(u, i) \/ BeginPost(u, i) \/ BeginCancel(u, i)
         \/ CommitNew(u) \/ CommitPosting(u)
    \/ \E i \in Ids : \/ \E change \in Changes : UpdateDraft(i, change) \/ Replace(i, change)
                      \/ DeleteDraft(i) \/ DeletePosted(i)
    \/ \E c \in Categories : \/ Deactivate(c) \/ DeleteCategory(c)
                           \/ \E link \in Links : CreateCategory(c, link) \/ LinkCategory(c, link)
    \/ ChangeMode

Spec == Init /\ [][Next]_vars

-----------------------------------------------------------------------------
(* Properties.                                                             *)

TypeOK ==
    /\ Len(expenses) <= MaxExpenses /\ steps <= MaxSteps
    /\ \A i \in Ids : expenses[i].status \in {"DRAFT", "POSTED", "CANCELLED"}
    /\ \A k \in DOMAIN entries : entries[k].kind \in {"EXPENSE", "EXPENSE_REVERSAL"} /\ entries[k].of \in Ids
    /\ crossed \subseteq Ids

NetLine(i, a) == Tax!SumOver({k \in DOMAIN entries : entries[k].of = i /\ a \in DOMAIN entries[k].lines},
                             LAMBDA k : entries[k].lines[a])
Accounts(i) == Links \cup {Money(expenses[i].bank)} \cup Tax!Heads

\* A draft has no entry and a posted expense one; of a cancelled one the two leave the
\* money as it was, whatever became of the category, and every account as it was
\* unless the category's account or the tax mode changed in between (expenses.py:551).
\* Nothing posted is deleted.  A draft changed or deleted while it was posted is the
\* exception (expenses.py:410).
Booked ==
    \A i \in Ids \ crossed : LET e == expenses[i] IN
        /\ HasEntry("EXPENSE", i) <=> e.status # "DRAFT"
        /\ HasEntry("EXPENSE_REVERSAL", i) <=> e.status = "CANCELLED"
        /\ e.status = "POSTED" => e.live /\ NetLine(i, Money(e.bank)) = -e.total
        /\ e.status = "CANCELLED" =>
             /\ NetLine(i, Money(e.bank)) = 0
             /\ Tax!SumOver(Accounts(i), LAMBDA a : NetLine(i, a)) = 0
             /\ (\A k, r \in DOMAIN entries : entries[k].of = i /\ entries[r].of = i => entries[k].under = entries[r].under)
                  => \A a \in Accounts(i) : NetLine(i, a) = 0

\* The tax of an expense is that of its amount at its place; a clone has forgotten the
\* place (expenses.py:611).
TaxFits ==
    \A i \in Ids : LET e == expenses[i] IN
        e.pos # None => e.tax = Totals(e.terms, e.pos).tax /\ e.total = Totals(e.terms, e.pos).total

\* A request alone finds a free number, until the month has one of five digits
\* (expenses.py:111).
NumbersLast == Len(expenses) <= Top => ~NumberTaken(NextNumber)

\* Nothing is posted in a month that is filed or locked, where drafts may be moved.
ExpensesAgree ==
    /\ Booked /\ TaxFits /\ NumbersLast
    /\ \A k \in DOMAIN entries : Shut[entries[k].day] = "open"
=============================================================================
