------------------------------ MODULE MCOffice ------------------------------
(***************************************************************************)
(* What the office does, in one run: documents that move stock (Stock, two *)
(* concurrent requests), files of other programs (Imports), parties and    *)
(* products (Masters), the chart of accounts and the journal (Accounts),   *)
(* expenses (Expenses), and bank statements, matched with payments that no *)
(* step of theirs writes (Banking).  part says which of them moves; the    *)
(* others rest in their initial states, so that the run explores the sum   *)
(* of their state spaces and not the product.                              *)
(***************************************************************************)
EXTENDS MCStock

VARIABLES part, rows, series, imported, contacts, products, changes,
          accounts, entries, edits, made, torn, crossed,
          expenses, postings, categories, regular, requests, overtaken, steps,
          statement, transaction, matched, matches, active

files == <<rows, series, imported>>
masters == <<contacts, products, changes>>
chart == <<accounts, entries, edits, made, torn, crossed>>
costs == <<expenses, postings, categories, regular, requests, overtaken, steps>>
reconciled == <<statement, transaction, matched, matches, active>>
office == <<vars, files, masters, chart, costs, reconciled>>

\* Imports: two backups of one shop, a lorry that carries goods, two files of another
\* program, a bundle, and one whose numbers clash; into a company that is empty or has
\* documents of an earlier release.
Missing == <<"none", 0, 0>>
No(n) == <<"no", n, 0>>
Voucher(kind, number, txn, lines, cash, owed, pays) ==
    [kind |-> kind, number |-> number, txn |-> txn, lines |-> lines, cgst |-> 1, igst |-> 0, cash |-> cash,
     owed |-> owed, status |-> "POSTED", pays |-> pays, of |-> Missing, from |-> 0, eway |-> FALSE]
Sold(number, txn, lines, cash, pays) == Voucher("invoice", number, txn, lines, cash, 5, pays)
Bought(number, txn, lines, cash, pays) == Voucher("bill", number, txn, lines, cash, 6, pays)
Csvd(kind, number, owed, cash, now, of) ==
    [Voucher(kind, number, 0, <<>>, cash, owed, <<>>) EXCEPT !.status = now, !.of = of]
Backups ==
    [shop |-> <<Sold(Missing, 1, <<5, 5>>, 4, <<4>>), Bought(No(7), 2, <<>>, 0, <<>>), Sold(No(7), 3, <<>>, 9, <<>>),
                Sold(No(9), 8, <<0>>, 0, <<>>)>>,
     next |-> <<Sold(Missing, 4, <<9>>, 0, <<>>), Bought(No(7), 5, <<8>>, 8, <<8>>),
                Bought(No(8), 6, <<6>>, 9, <<2, 2, 1>>), Voucher("estimate", No(1), 7, <<3>>, 0, 0, <<>>),
                [Sold(No(2), 9, <<3>>, 0, <<>>) EXCEPT !.from = 7]>>,
     lorry |-> <<[Sold(No(3), 10, <<3>>, 0, <<>>) EXCEPT !.eway = TRUE]>>,
     tally |-> <<Sold(No(7), 0, <<11>>, 0, <<>>), Voucher("receipt", Missing, 0, <<>>, 3, 0, <<>>),
                 Voucher("journal", Missing, 0, <<>>, 3, 0, <<>>)>>,
     cash |-> <<[Bought(Missing, 0, <<11>>, 0, <<>>) EXCEPT !.igst = 2], Bought(Missing, 0, <<>>, 0, <<>>),
                Voucher("disbursement", Missing, 0, <<>>, 3, 0, <<>>), Voucher("receipt", Missing, 0, <<>>, 0, 0, <<>>)>>,
     move |-> <<Csvd("invoice", No(7), 4, 4, "PAID", Missing), Csvd("invoice", No(7), 5, 2, "SENT", Missing),
                Csvd("bill", No(7), 6, 0, "UNPAID", Missing), Csvd("invoice", No(9), 6, 0, "SENT", Missing),
                Csvd("receipt", No(1), 2, 0, "ACTIVE", No(7)), Csvd("disbursement", No(2), 2, 0, "CANCELLED", Missing),
                Csvd("expense", No(3), 2, 0, "CANCELLED", Missing), Csvd("estimate", No(3), 2, 0, "ISSUED", Missing)>>,
     clash |-> <<Csvd("receipt", No(1), 2, 0, "CANCELLED", Missing), Csvd("disbursement", No(1), 2, 0, "CANCELLED", Missing)>>]
Sources == [shop |-> "vyapar", next |-> "vyapar", lorry |-> "vyapar", tally |-> "tally", cash |-> "tally",
            move |-> "csv", clash |-> "csv"]
Left(kind, number, now) ==
    [kind |-> kind, number |-> No(number), total |-> 5, tax |-> 0, paid |-> 0, status |-> now, live |-> TRUE,
     ref |-> Missing, reversed |-> FALSE, txn |-> 0, of |-> 0]
Import == INSTANCE Imports WITH
    Files <- DOMAIN Sources, SourceOf <- Sources, Content <- Backups,
    Legacies <- {<<>>, <<Left("invoice", 20, "POSTED"), Left("bill", 21, "UNPAID")>>},
    MaxImports <- 3, MaxDrafts <- 1

\* Masters: two names, one registration and one SKU, between two parties and two
\* products, and what the three importers bring of them.
Party(name, gstin, type, owes, bought) ==
    [name |-> name, gstin |-> gstin, type |-> type, opening |-> owes, bought |-> bought]
Ware(name, kind, stock, tracks) == [name |-> name, sku |-> "none", kind |-> kind, stock |-> stock, tracks |-> tracks]
Brought(source, party, ware) == [source |-> source, parties |-> <<party>>, items |-> <<ware>>]
Catalogues ==
    {[source |-> "vyapar", items |-> <<Ware("a", "GOODS", 2, <<1, 1>>)>>,
      parties |-> <<Party("a", "g", "CUSTOMER", 2, TRUE), Party("b", "none", "VENDOR", 0, FALSE)>>],
     Brought("tally", Party("a", "none", "VENDOR", 0, FALSE), Ware("b", "SERVICE", 2, <<>>)),
     Brought("csv", Party("b", "g", "BOTH", 1, FALSE), [Ware("b", "GOODS", 2, <<>>) EXCEPT !.sku = "x"]),
     Brought("csv", Party("c", "none", "BOTH", 1, FALSE), Ware("c", "GOODS", 2, <<1, 1>>))}
Master == INSTANCE Masters WITH
    Names <- {"a", "b"}, Gstins <- {"g"}, Codes <- {"x"}, Roles <- {"CUSTOMER", "VENDOR"}, Files <- Catalogues,
    MaxContacts <- 2, MaxProducts <- 2, MaxChanges <- 2

\* Accounts: two customers of one name, a bank, an account that takes the code of the
\* sales account, and a bundle that sets the opening of the cash account.
Kind(code, name, type, group) == [code |-> code, name |-> name, type |-> type, group |-> group]
Wish(head, owed) == head @@ [opening |-> owed]
Opened(code, name, type, owed) == [code |-> code, name |-> name, type |-> type, opening |-> owed]
Chart == INSTANCE Accounts WITH
    Standard <- [cash |-> Kind(<<"CASH", 0>>, "till", "ASSET", "cash"),
                 sales |-> Kind(<<"SALES", 0>>, "sales", "REVENUE", "none")],
    Seeded <- <<"cash">>, Customers <- [ann |-> "ann", anne |-> "ann"],
    Wanted <- {Wish(Kind(<<"BANK", 1>>, "bank", "ASSET", "cash"), 0),
               Wish(Kind(<<"SALES", 0>>, "x", "ASSET", "none"), 1)},
    Files <- {<<Opened(<<"CASH", 0>>, "till", "ASSET", 1), Opened(<<"X", 0>>, "x", "EQUITY", 1)>>},
    Editors <- Sessions, Days <- {1, 2}, MaxAccounts <- 3, MaxEntries <- 2, MaxSteps <- 2

\* Expenses: two of them, of a category each, one in another state and paid by the bank;
\* a correction moves one to another category in a month that is filed, or changes its
\* amount.  A month has two numbers of four digits.
Spent(category, bank, day, pos) == [category |-> category, bank |-> bank, day |-> day, terms |-> category, pos |-> pos]
Change(category, day, terms) == [category |-> category, day |-> day, terms |-> terms, pos |-> "none"]
Cost == INSTANCE Expenses WITH
    Users <- Sessions, None <- "none", Categories <- {"rent", "fuel"}, Links <- {"cost", "oil"},
    Link <- [rent |-> "cost", fuel |-> "oil"], Till <- "till",
    Terms <- [rent |-> [amount |-> 10500, rate |-> 18], fuel |-> [amount |-> 700, rate |-> 5]],
    Payloads <- {Spent("rent", "none", "may", "home"), Spent("fuel", "bank", "june", "far")},
    Changes <- {Change("fuel", "april", "none"), Change("none", "none", "fuel")},
    Shut <- [april |-> "filed", may |-> "open", june |-> "open"], Today <- "june",
    UnionTerritories <- {}, Origin <- "home", Top <- 2, MaxExpenses <- 3, MaxSteps <- 4,
    entries <- postings, crossed <- overtaken

\* A statement with an undated line, another of the same date, one that no deposit
\* matches exactly, and one in a format that is not understood.
Row(on, dr, cr) == [dated |-> TRUE, on |-> on, debit |-> dr, credit |-> cr]
Banks == INSTANCE Banking WITH
    Files <- {"may", "again", "june", "odd"},
    RowsOf <- [may |-> <<Row(1, 0, 1000), [Row(1, 5, 0) EXCEPT !.dated = FALSE], Row(4, 500, 0)>>,
               again |-> <<Row(1, 0, 1000)>>, june |-> <<Row(3, 0, 999)>>, odd |-> <<Row(9, 0, 7)>>],
    Sided <- [may |-> FALSE, again |-> FALSE, june |-> FALSE, odd |-> TRUE],
    Payments <- {"receipt", "receipt2", "payment"},
    PaymentOf <- [receipt |-> [amount |-> 1000, on |-> 2], receipt2 |-> [amount |-> 1000, on |-> 4],
                  payment |-> [amount |-> 510, on |-> 1]],
    MaxUploads <- 2, MaxMatches <- 3,
    status <- transaction, rows <- matched

OfficeInit ==
    /\ part \in {"stock", "imports", "masters", "accounts", "expenses", "bank"}
    /\ Init /\ Import!Init /\ Master!Init /\ Chart!Init /\ Cost!Init /\ Banks!Init
    /\ part # "stock" => \A d \in Docs : status[d] = "DRAFT" <=> d \in {"inv", "dc"}
    /\ part # "imports" => rows = <<>>
    /\ part # "expenses" => regular

OfficeNext ==
    \/ part = "stock" /\ Next /\ UNCHANGED <<part, files, masters, chart, costs, reconciled>>
    \/ part = "imports" /\ Import!Next /\ UNCHANGED <<part, vars, masters, chart, costs, reconciled>>
    \/ part = "masters" /\ Master!Next /\ UNCHANGED <<part, vars, files, chart, costs, reconciled>>
    \/ part = "accounts" /\ Chart!Next /\ UNCHANGED <<part, vars, files, masters, costs, reconciled>>
    \/ part = "expenses" /\ Cost!Next /\ UNCHANGED <<part, vars, files, masters, chart, reconciled>>
    \/ part = "bank" /\ Banks!Next /\ UNCHANGED <<part, vars, files, masters, chart, costs>>

\* The requests of Stock are fair, as in FairSpec.
OfficeSpec == OfficeInit /\ [][OfficeNext]_<<part, office>> /\ Fairness

\* Every variable of the part that moves keeps its shape; the others keep their values.
OfficeTypeOK ==
    /\ part = "stock" => TypeOK
    /\ part = "imports" => Import!TypeOK
    /\ part = "masters" => Master!TypeOK
    /\ part = "accounts" => Chart!TypeOK
    /\ part = "expenses" => Cost!TypeOK
    /\ part = "bank" => Banks!TypeOK

\* What is in the books is posted, whoever imported it, and the reverse; what one
\* program exports another imports (Imports).  An import changes no row that was there,
\* and a file that is imported again adds nothing.
ImportsBook == part = "imports" => Import!ImportsBook
ImportedOnce == Import!ImportedOnce

\* Stock agrees with its ledger, a registration is one party's, and an importer or a
\* request takes no party for another (Masters).
MastersAgree == Master!MastersAgree

\* Balances are openings and lines, the chart is a forest of one code each, a journal is
\* undone once, and the reports agree (Accounts).  An edit changes nothing before it is
\* written: states in which one waits need no look of their own.
AccountsAgree == part = "accounts" /\ (\A e \in Sessions : edits[e] = Chart!Idle) => Chart!AccountsAgree

\* What is posted for an expense is what it is worth, what is cancelled is undone,
\* numbers last, and nothing is posted in a month that is shut (Expenses).
ExpensesAgree == part = "expenses" => Cost!ExpensesAgree

\* A bank transaction is matched once, and what the statistics of its statement
\* say adds up (Banking).
MatchedOnce == part = "bank" => Banks!MatchedOnce
=============================================================================
