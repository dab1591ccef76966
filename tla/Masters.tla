------------------------------ MODULE Masters ------------------------------
(***************************************************************************)
(* Parties and products: created, changed and deleted by users, and by the *)
(* importers, who match what a file names with what the company has.  No   *)
(* handler but that of a product's change locks what it reads, no index    *)
(* but that of barcodes backs a check, and one request at a time is        *)
(* ASSUMED.  A trade stands for every document: it uses a party and a      *)
(* product and takes a piece of it.                                        *)
(*                                                                         *)
(* Names stand for names without case and blanks; where several rows match *)
(* the first is taken, as the queries do not order them.                   *)
(***************************************************************************)
EXTENDS Integers, Sequences, FiniteSets, FiniteSetsExt, SequencesExt

CONSTANTS
    Names, Gstins, Codes,   \* names of parties and products; registrations; barcodes and SKUs
    Roles,                  \* {"CUSTOMER", "VENDOR", "BOTH"} or the part that requests use
    Files,                  \* sequences of [source, parties, items]
    MaxContacts, MaxProducts, MaxChanges   \* bounds of the model

VARIABLES
    contacts,   \* [name, gstin, type, opening, live, used]
    products,   \* [name, kind, sku, barcode, opening, current, moved, moves, given, live, used]:
                \* moved and moves sum up and count the rows of its stock ledger, given is
                \* stock that an importer set without a row
    changes     \* how many users have made

vars == <<contacts, products, changes>>

None == "none"
First(S) == IF S = {} THEN 0 ELSE Min(S)
LiveOf(rows) == {i \in DOMAIN rows : rows[i].live}

Contact(name, gstin, type, opening) ==
    [name |-> name, gstin |-> gstin, type |-> type, opening |-> opening, live |-> TRUE, used |-> FALSE]
Product(name, kind, sku, barcode, stock) ==
    [name |-> name, kind |-> kind, sku |-> sku, barcode |-> barcode, opening |-> stock, current |-> stock,
     moved |-> 0, moves |-> 0, given |-> stock, live |-> TRUE, used |-> FALSE]
\* A row of the stock ledger for stock that the product has already, or has now.
Moved(p, quantity) == [p EXCEPT !.moved = @ + quantity, !.moves = @ + 1]

Init == contacts = <<>> /\ products = <<>> /\ changes = 0

-----------------------------------------------------------------------------
(* Parties.                                                                *)

Widened(c, type) == IF c.type # type THEN [c EXCEPT !.type = "BOTH"] ELSE c

\* Mutant: a party with a registration is looked for by name when no one has it.
FindByName(c, name, gstin) ==
    First({i \in LiveOf(c) : IF gstin # None /\ \E j \in LiveOf(c) : c[j].gstin = gstin
                             THEN c[i].gstin = gstin ELSE c[i].name = name})
\* create_contact: by registration; by name only among those without one.
Find(c, name, gstin) ==
    First({i \in LiveOf(c) : c[i].gstin = gstin /\ (gstin = None => c[i].name = name)})

CreateContact(name, gstin, type) ==
    LET found == Find(contacts, name, gstin)
    IN  /\ Len(contacts) < MaxContacts \/ found # 0
        /\ contacts' = IF found # 0 THEN [contacts EXCEPT ![found] = Widened(@, type)]
                       ELSE Append(contacts, Contact(name, gstin, type, 0))
        /\ UNCHANGED products

\* update_contact compares with no one.
UpdateContact(i, name, gstin, type) ==
    /\ contacts[i].live
    /\ contacts' = [contacts EXCEPT ![i].name = name, ![i].gstin = gstin, ![i].type = type]
    /\ UNCHANGED products

DeleteContact(i) ==
    /\ contacts[i].live /\ ~contacts[i].used
    /\ contacts' = [contacts EXCEPT ![i].live = FALSE]
    /\ UNCHANGED products

-----------------------------------------------------------------------------
(* Products.                                                               *)

\* Another product of the name and kind is taken for it; its SKU and its barcode must
\* be no one's, and the opening stock is the first row of its ledger.
CreateProduct(name, kind, sku, barcode, stock) ==
    /\ kind = "SERVICE" => stock = 0
    /\ ~\E i \in LiveOf(products) :
         \/ products[i].name = name /\ products[i].kind = kind
         \/ (products[i].sku = sku /\ sku # None)
         \/ (products[i].barcode = barcode /\ barcode # None)
    /\ Len(products) < MaxProducts
    /\ LET p == [Product(name, kind, sku, barcode, stock) EXCEPT !.given = 0]
       IN  products' = Append(products, IF stock > 0 THEN Moved(p, stock) ELSE p)
    /\ UNCHANGED contacts

\* Mutant: the opening stock changes and the stock does not follow.
ReopenedAlone(p, stock) ==
    IF p.kind = "GOODS" /\ stock # p.opening
    THEN [Moved(p, stock - p.opening) EXCEPT !.opening = stock] ELSE [p EXCEPT !.opening = stock]
\* A change of the opening stock moves what is on hand.
Reopened(p, stock) ==
    IF p.kind = "GOODS" /\ stock # p.opening
    THEN [Moved(p, stock - p.opening) EXCEPT !.opening = stock, !.current = @ + stock - p.opening]
    ELSE [p EXCEPT !.opening = stock]

\* update_product: the opening stock, to what neither the product nor, once it has
\* rows, its ledger would be short of; the barcode, to no other product's; the SKU, to
\* any; the kind, before its first row, and to a service without stock.
UpdateOpening(i, stock) ==
    LET p == products[i]
        delta == stock - p.opening
    IN  /\ p.live /\ p.current + delta >= 0 /\ (IF p.moves > 0 THEN p.moved ELSE p.current) + delta >= 0
        /\ products' = [products EXCEPT ![i] = Reopened(p, stock)]
        /\ UNCHANGED contacts
UpdateCodes(i, sku, barcode) ==
    /\ products[i].live
    /\ barcode # None => \A j \in LiveOf(products) \ {i} : products[j].barcode # barcode
    /\ products' = [products EXCEPT ![i].sku = sku, ![i].barcode = barcode]
    /\ UNCHANGED contacts
UpdateKind(i, kind) ==
    /\ products[i].live /\ products[i].kind # kind /\ products[i].moves = 0
    /\ kind = "SERVICE" => products[i].current = 0
    /\ products' = [products EXCEPT ![i].kind = kind]
    /\ UNCHANGED contacts

DeleteProduct(i) ==
    /\ products[i].live /\ ~products[i].used
    /\ products' = [products EXCEPT ![i].live = FALSE]
    /\ UNCHANGED contacts

\* A posted document.
Trade(c, p) ==
    /\ contacts[c].live /\ products[p].live
    /\ products[p].kind = "GOODS" /\ products[p].current > 0
    /\ contacts' = [contacts EXCEPT ![c].used = TRUE]
    /\ products' = [products EXCEPT ![p] = [Moved(@, -1) EXCEPT !.current = @ - 1, !.used = TRUE]]

-----------------------------------------------------------------------------
(* Importers.  A party is [name, gstin, type, opening, bought]; an item is *)
(* [name, sku, kind, stock, tracks], tracks being quantities of batches.   *)

\* By registration, and when no one has it by name.
Match(c, v) ==
    LET same == First({i \in LiveOf(c) : c[i].gstin = v.gstin /\ v.gstin # None})
    IN  IF same # 0 THEN same ELSE First({i \in LiveOf(c) : c[i].name = v.name})
AddParty(c, v) ==
    IF Match(c, v) # 0 THEN [c EXCEPT ![Match(c, v)] = Widened(@, v.type)]
    ELSE Append(c, Contact(v.name, v.gstin, v.type, 0))
\* Vyapar: the opening balance of the backup replaces that of the contact, and who
\* sold something is a vendor too.
Balanced(c, v) ==
    LET i == Match(c, v)
        opened == IF v.opening = 0 THEN c ELSE [c EXCEPT ![i].opening = v.opening]
    IN  IF v.bought /\ c[i].type = "CUSTOMER" THEN [opened EXCEPT ![i].type = "BOTH"] ELSE opened

MatchItem(p, v) == First({i \in LiveOf(p) : p[i].name = v.name})
AddItem(p, v) ==
    IF MatchItem(p, v) # 0 THEN p ELSE Append(p, Product(v.name, v.kind, None, None, v.stock))
\* Vyapar: the first batch becomes the opening row of a product without one; the
\* others find a row and are dropped.
AddBatch(i, p, quantity) ==
    IF p[i].kind # "GOODS" \/ p[i].moves > 0 THEN p
    ELSE [p EXCEPT ![i] = [Moved(@, quantity) EXCEPT !.opening = quantity, !.current = quantity, !.given = 0]]
Tracked(p, v) == FoldLeft(LAMBDA q, quantity : AddBatch(MatchItem(q, v), q, quantity), p, v.tracks)

ImportVyapar(f) ==
    /\ f.source = "vyapar"
    /\ contacts' = FoldLeft(Balanced, FoldLeft(AddParty, contacts, f.parties), f.parties)
    /\ products' = FoldLeft(Tracked, FoldLeft(AddItem, products, f.items), f.items)

\* Tally: goods without stock.
ImportTally(f) ==
    /\ f.source = "tally"
    /\ contacts' = FoldLeft(AddParty, contacts, f.parties)
    /\ products' = FoldLeft(AddItem, products,
                            [k \in DOMAIN f.items |-> [f.items[k] EXCEPT !.stock = 0, !.kind = "GOODS"]])

\* CSV: whoever is known, or twice in the file, refuses it; so does an opening row
\* whose balance, the last of its product, is not the stock.
Key(v) == IF v.gstin # None THEN v.gstin ELSE v.name
MatchCode(p, v) == First({i \in LiveOf(p) : p[i].name = v.name \/ (p[i].sku = v.sku /\ v.sku # None)})
Rowed(v) ==
    LET p == [Product(v.name, v.kind, v.sku, None, v.stock) EXCEPT !.given = IF v.tracks = <<>> THEN v.stock ELSE 0]
    IN  FoldLeft(Moved, p, v.tracks)
ImportCsv(f) ==
    /\ f.source = "csv"
    /\ \A k \in DOMAIN f.parties :
         /\ Match(contacts, f.parties[k]) = 0
         /\ \A j \in 1 .. k - 1 : Key(f.parties[j]) # Key(f.parties[k])
    /\ \A k \in DOMAIN f.items :
         /\ MatchCode(products, f.items[k]) = 0
         /\ f.items[k].tracks # <<>> => FoldLeft(+, 0, f.items[k].tracks) = f.items[k].stock
    /\ contacts' = contacts \o [k \in DOMAIN f.parties |->
                       LET v == f.parties[k] IN Contact(v.name, v.gstin, v.type, v.opening)]
    /\ products' = products \o [k \in DOMAIN f.items |-> Rowed(f.items[k])]

-----------------------------------------------------------------------------

Update == \/ \E i \in DOMAIN contacts, name \in Names, gstin \in Gstins \cup {None}, type \in Roles :
                 UpdateContact(i, name, gstin, type)
          \/ \E i \in DOMAIN contacts : DeleteContact(i)
          \/ \E i \in DOMAIN products : \/ \E stock \in 0 .. 2 : UpdateOpening(i, stock)
                                        \/ \E sku, barcode \in Codes \cup {None} : UpdateCodes(i, sku, barcode)
                                        \/ \E kind \in {"GOODS", "SERVICE"} : UpdateKind(i, kind)
                                        \/ DeleteProduct(i)
Create == \/ \E name \in Names, gstin \in Gstins \cup {None}, type \in Roles : CreateContact(name, gstin, type)
          \/ \E name \in Names, kind \in {"GOODS", "SERVICE"}, sku, barcode \in Codes \cup {None}, stock \in {0, 1} :
                 CreateProduct(name, kind, sku, barcode, stock)
Import == \E f \in Files :
    /\ Len(contacts) + Len(f.parties) <= MaxContacts /\ Len(products) + Len(f.items) <= MaxProducts
    /\ ImportVyapar(f) \/ ImportTally(f) \/ ImportCsv(f)

Next ==
    \/ changes < MaxChanges /\ changes' = changes + 1 /\ (Create \/ Update)
    \/ (Import \/ \E c \in DOMAIN contacts, p \in DOMAIN products : Trade(c, p)) /\ UNCHANGED changes

Spec == Init /\ [][Next]_vars

-----------------------------------------------------------------------------
(* Properties.                                                             *)

TypeOK ==
    /\ Len(contacts) <= MaxContacts /\ Len(products) <= MaxProducts
    /\ \A i \in DOMAIN products : products[i].current >= 0 /\ products[i].moves \in Nat

\* What is on hand is what the rows of the ledger add up to, and what an importer set
\* without one (masters.py:424, vyapar_import.py:1347, csv_import.py:949); a service
\* has no row; a barcode is one product's.
Stocked ==
    /\ \A i \in DOMAIN products : LET p == products[i] IN
         p.current = p.moved + p.given /\ (p.kind = "SERVICE" => p.moves = 0)
    /\ \A i, j \in LiveOf(products) :
         products[i].barcode = products[j].barcode /\ i # j => products[i].barcode = None

Registered(c, gstin) == Cardinality({i \in LiveOf(c) : c[i].gstin = gstin})
Same(c, d) == [c EXCEPT !.type = "BOTH", !.opening = 0] = [d EXCEPT !.type = "BOTH", !.opening = 0]

\* A stock that agrees; and parties, whom an update or a deletion may make anything of,
\* are otherwise added or given another role: no registration becomes two parties', and
\* creating a party that has one never takes that of another for it
\* (masters.py:48: "must never fall back to a name-only match"), while the importers
\* do where a party has its name (vyapar_import.py:246).
MastersAgree ==
    [][/\ Stocked'
       /\ Update \/ \A gstin \in Gstins :
              Registered(contacts', gstin) <= Max({Registered(contacts, gstin), 1})
       /\ Update \/ \A i \in DOMAIN contacts :
              /\ Same(contacts[i], [contacts'[i] EXCEPT !.used = contacts[i].used])
              /\ contacts'[i].type \in {contacts[i].type, "BOTH"}
       /\ \A name \in Names, gstin \in Gstins, type \in Roles :
              CreateContact(name, gstin, type) => Registered(contacts', gstin) > 0]_vars
=============================================================================
