------------------------------- MODULE MCBooks -------------------------------
(***************************************************************************)
(* Five parts of the program that share no lock, in one run: receivables   *)
(* and payables (Settlement, and the Statements made of them), the GST     *)
(* returns of posted documents, the documents before the books, receipts   *)
(* and returns against their source lines, and the devices that            *)
(* synchronise.                                                            *)
(* part says which of them moves; the others rest in their initial states, *)
(* so that the run explores the sum of their state spaces and not the      *)
(* product.                                                                *)
(*                                                                         *)
(* Receivables: an invoice and a bill of one contact that is both customer *)
(* and vendor, receipts, disbursements and credit notes.                   *)
(***************************************************************************)
EXTENDS Statements, Conversions

CONSTANTS inv, bill, r1, r2, p1, p2, n1, n2, both, s1, s2

VARIABLE part
VARIABLES taxed, doc, month, filing, using
VARIABLES log, books, onhand, sequence, device_session, heard, next_number, blocks, online, cursor,
          pulled, scenario, pushes, clashed

gst == <<taxed, doc, month, filing, using>>
devices == <<log, books, onhand, sequence, device_session, heard, next_number, blocks, online, cursor,
             pulled, scenario, pushes, clashed>>

MCKindOf == [x \in Docs \cup Payments |-> IF x \in {inv, r1, r2} THEN "invoice" ELSE "bill"]
MCContactOf == [x \in Docs \cup Payments |-> both]
MCScenarios == {[ids |-> {r1, r2, p1}, sent |-> {}], [ids |-> {r1, p1, p2}, sent |-> {bill}],
                [ids |-> {r1, n1, n2}, sent |-> {inv}]}
MCPayable == [d \in Docs |-> 2]
MCWithheld == [d \in Docs |-> IF d = bill THEN 1 ELSE 0]
MCDated == [x \in Docs \cup Payments \cup Notes |->
              IF x \in {inv, n1} THEN 0 ELSE IF x \in {bill, r1, n2} THEN 1 ELSE 2]
MCDue == [d \in Docs |-> MCDated[d]]
MCImported == [d \in Docs |-> 0]

\* Requests of one and two lines, for sales in a union territory and out of it: with a
\* discount, with freight that equals it, with prices that include the tax, paid by the
\* receiver, exported.
One == [lines |-> <<[amount |-> 10530, rate |-> 18, hsn |-> "x"]>>, discount |-> 0, freight |-> 0,
        inclusive |-> FALSE, rcm |-> FALSE, supply |-> "domestic", pos |-> "isle", gstin |-> FALSE,
        itc |-> TRUE, units |-> 1]
Two(second, rate) == <<[amount |-> 10530, rate |-> rate, hsn |-> "x"], second>>
Mixed == [One EXCEPT !.lines = Two([amount |-> 3370, rate |-> 0, hsn |-> "y"], 18), !.discount = 10]
Freight == [One EXCEPT !.lines = Two([amount |-> 3370, rate |-> 18, hsn |-> "x"], 5), !.discount = 40,
                       !.freight = 5560, !.gstin = TRUE]
TermsOf ==
    [one |-> One, far |-> [Mixed EXCEPT !.pos = "far"], equal |-> Freight,
     incl |-> [Freight EXCEPT !.inclusive = TRUE, !.gstin = FALSE, !.units = 2],
     rcm |-> [Mixed EXCEPT !.rcm = TRUE], ship |-> [Freight EXCEPT !.pos = "far", !.freight = 700],
     away |-> [One EXCEPT !.supply = "taxed", !.rcm = TRUE, !.pos = "far"],
     free |-> [Mixed EXCEPT !.supply = "free", !.pos = "far"]]
Using(names, requests, when, filed) ==
    [documents |-> names, payloads |-> requests, months |-> when, filing |-> filed]
KindOfDoc == [i1 |-> "invoice", i2 |-> "invoice", c |-> "credit", d |-> "debit",
              b |-> "bill", r1 |-> "return", r2 |-> "return"]
Gst == INSTANCE GstReturns WITH
    UnionTerritories <- {"isle"}, Origin <- "isle", Documents <- DOMAIN KindOfDoc, Kind <- KindOfDoc,
    SourceOf <- [i1 |-> "i1", i2 |-> "i2", c |-> "i1", d |-> "i1", b |-> "b", r1 |-> "b", r2 |-> "b"],
    Payloads <- DOMAIN TermsOf, Terms <- TermsOf, Months <- {1, 2}, Units <- 2,
    Large <- <<20000, 10000>>, ServiceLarge <- 14000,
    Scenarios <- {Using({"i1", "i2"}, DOMAIN TermsOf, {1}, {}), Using({"i1", "i2"}, {"far", "one"}, {2}, {}),
                  Using({"i1", "c", "d"}, {"equal"}, {1}, {1}),
                  Using({"b", "r1", "r2"}, {"equal", "incl"}, {1}, {}), Using({"b", "r1"}, {"incl"}, {1, 2}, {1})},
    status <- taxed

MCSessions == {s1, s2}
MCOrders == {"so1", "so2", "so3"}
MCByHand == {"qt", "so1", "so3", "dc1", "po", "rt"}
MCEdited == {"qt", "so3", "dc1", "po", "rt"}
MCSituations == {{"qt", "so1", "so2"}, {"so1", "dc1", "dc2"}, {"so3"}, {"rt"}, {"po"}}
MCOrdered == [po |-> 3, inv |-> 3, bill |-> 2]
MCNamedBy == [po |-> {"g1", "g2", "g3"}, inv |-> {"sr1", "sr2", "sr3"}, bill |-> {"pr1", "pr2"}]
MCPayloads == {<<1>>, <<2>>}

\* What the devices push: [type, id, key, qty, number, device, of, good].
PushOf(type, id, key, qty, number, device, of) ==
    [type |-> type, id |-> id, key |-> key, qty |-> qty, number |-> number, device |-> device,
     of |-> of, good |-> TRUE]
Follow(type, id, of, qty) == PushOf(type, id, "none", qty, 0, "d1", of)
Master(type, key, qty) == PushOf(type, "none", key, qty, 0, "d1", "none")
PushedBy ==
    [item   |-> Master("item.created", "item", 2),
     same   |-> Master("item.created", "item", 1),
     found  |-> Follow("stock.adjusted", "a1", "none", 1),
     lost   |-> Follow("stock.adjusted", "a2", "none", -2),
     bill   |-> Follow("purchase_invoice.posted", "b1", "none", 2),
     back   |-> Follow("purchase_return.posted", "pr1", "b1", 1),
     moved  |-> Follow("stock.transferred", "none", "none", 0),
     ship1  |-> Follow("sales_delivery.posted", "dc1", "so1", 1),
     ship2  |-> Follow("sales_delivery.posted", "dc2", "so1", 1),
     sale1  |-> PushOf("invoice.posted", "i1", "none", 1, 1, "d1", "sale"),
     sale2  |-> PushOf("invoice.posted", "i2", "none", 1, 1, "d2", "sale"),
     note   |-> Follow("credit_note.posted", "cn1", "i1", 0),
     money  |-> Follow("money_transaction.posted", "m1", "none", 0),
     contra |-> Follow("money_transaction.posted", "m2", "contra", 0),
     entry  |-> Follow("journal.posted", "none", "j1", 0),
     twice  |-> Follow("journal.posted", "none", "j1", 0),
     draft  |-> Follow("journal.updated", "none", "j1", 0)]
Pushes(batches, number, known, asking, made) ==
    [batches |-> batches, pushes |-> number, masters |-> known, devices |-> asking, online |-> made]
Known == {"party", "item", "cash"}

Sync == INSTANCE Sync WITH
    Sessions <- {s1, s2}, Events <- DOMAIN PushedBy, EventOf <- PushedBy,
    Ordered <- 2, BlockSize <- 2, Limit <- 2, MaxBlocks <- 2,
    Scenarios <- {Pushes({<<"item", "lost">>, <<"found", "same">>}, 3, {}, {}, 0),
                  Pushes({<<"bill", "back", "ship1">>, <<"moved", "ship2">>}, 3, Known, {}, 0),
                  Pushes({<<"entry", "money">>, <<"draft", "twice", "contra">>}, 2, Known, {}, 0),
                  Pushes({<<"sale1">>}, 1, Known, {"d1", "d2"}, 1),
                  Pushes({<<"sale1", "note">>, <<"sale2">>}, 2, Known, {"d1"}, 0)},
    session <- device_session

BooksInit ==
    /\ part \in {"receivables", "gst", "pipeline", "fulfilment", "devices"}
    /\ Init /\ Gst!Init /\ PipelineInit /\ FulfilmentInit /\ Sync!Init
    /\ part # "receivables" => {i \in Ids : stage[i] = "ABSENT"} = {r1, r2, p1}
    /\ part # "gst" => using.months = {2}
    /\ part \notin {"pipeline", "devices"} => quiet
    /\ part # "pipeline" => doc_status["rt"] = "none"
    /\ part # "fulfilment" => alone /\ line_status["pr1"] = "none"
    /\ part # "devices" => scenario.pushes = 1

BooksNext ==
    \/ part = "receivables" /\ Next /\ UNCHANGED <<part, gst, pipeline, fulfilment, devices>>
    \/ part = "gst" /\ Gst!Next /\ UNCHANGED <<part, vars, pipeline, fulfilment, devices>>
    \/ part = "pipeline" /\ PipelineNext /\ UNCHANGED <<part, vars, gst, fulfilment, devices>>
    \/ part = "fulfilment" /\ FulfilmentNext /\ UNCHANGED <<part, vars, gst, pipeline, devices>>
    \/ part = "devices" /\ Sync!Next /\ UNCHANGED <<part, vars, gst, pipeline, fulfilment>>

BooksSpec ==
    BooksInit /\ [][BooksNext]_<<part, vars, gst, pipeline, fulfilment, devices>>

\* Every variable of the part that moves keeps its shape; the others keep their values.
BooksTypeOK ==
    /\ part = "receivables" => TypeOK
    /\ part = "gst" => Gst!TypeOK
    /\ part = "pipeline" => PipelineTypeOK
    /\ part = "fulfilment" => FulfilmentTypeOK
    /\ part = "devices" => Sync!TypeOK

\* The returns of a month, two computations of the outward one, its exports, the
\* summary and the inward one, report one tax; what a filed return reports stands
\* (GstReturns).
ReturnsAgree == part = "gst" => Gst!ReturnsAgree
FiledStands == Gst!FiledStands

\* What the devices were told is what the server holds (Sync).
DevicesAgree == part = "devices" => Sync!DevicesAgree
=============================================================================
