------------------------------ MODULE MCStock ------------------------------
(***************************************************************************)
(* Two concurrent requests over small sets of documents: each scenario is  *)
(* a handful of documents that compete for the same nuts and bolts.        *)
(***************************************************************************)
EXTENDS Stock

CONSTANTS s1, s2, nut, bolt, main, annex

Plain(p, q) == [product |-> p, quantity |-> q, warehouse |-> NoPlace, into |-> NoPlace]
Leg(p, q, from, to) == [product |-> p, quantity |-> q, warehouse |-> from, into |-> to]

MCSessions == {s1, s2}
MCProducts == {nut, bolt}
MCWarehouses == {main, annex}
MCOpening == (nut :> 2) @@ (bolt :> 1)
MCDefaults == {main}

MCDocs == {"inv", "bill", "tr", "sr", "pr", "cn", "dc", "adj", "gr", "op"}
MCTypeOf == [inv |-> "invoice", bill |-> "bill", tr |-> "transfer", sr |-> "sales_return",
             pr |-> "purchase_return", cn |-> "credit_note", dc |-> "challan",
             adj |-> "adjustment", gr |-> "receipt", op |-> "opening"]

\* inv and bill lock nut and bolt in opposite orders; the challan repeats a
\* product, as its handler adds the lines up; nothing else does.  The receipt
\* goes where the stock is: its cancellation checks the company-wide quantity
\* only, and would take out of a warehouse what had left it by another document.
MCLines == [inv |-> <<Plain(nut, 2), Plain(bolt, 1)>>,
            bill |-> <<Plain(bolt, 2), Plain(nut, 1)>>,
            tr |-> <<Leg(nut, 1, main, annex)>>,
            sr |-> <<Plain(nut, 1)>>,
            pr |-> <<Plain(nut, 2)>>,
            cn |-> <<Plain(nut, 1)>>,
            dc |-> <<Plain(nut, 1), Plain(nut, 1)>>,
            adj |-> <<Plain(nut, 1), Plain(bolt, -1)>>,
            gr |-> <<Leg(nut, 1, main, NoPlace)>>,
            op |-> <<Plain(nut, -1)>>]

\* Sales against purchases and a transfer; returns, a note and a correction;
\* and the handlers that skip locks.
MCScenarios == {{"inv", "bill", "tr"}, {"sr", "pr"}, {"pr", "adj"}, {"pr", "cn"}, {"inv", "dc"},
                {"gr", "op", "pr"}}

\* An invoice and a bill for the same products, each created and posted by one request.
CreateScenarios == {{"inv", "bill"}}
=============================================================================
