------------------------------- MODULE MCTrade -------------------------------
(***************************************************************************)
(* Three parts of the program that share no row and no lock, in one run:   *)
(* the financial years, the events received from the shop, and the queue   *)
(* of the events sent to it.  part says which of them moves; the others    *)
(* rest in their initial states, in which their properties hold as well,   *)
(* so that the run explores the sum of their state spaces and not the      *)
(* product.                                                                *)
(***************************************************************************)
EXTENDS FinancialYears, Inbound, Outbound

CONSTANTS s1, s2, r1, r2   \* requests, and runs of the delivery task

VARIABLE part

ASSUME YearsAssumption == Setting

\* What the shop and the back office send: master data, two orders, two changes and
\* a cancellation of the first, a cancellation of the second with the body of
\* another id, three captures.
Event(id, name, sender, order, number, qty, amount) ==
    [id |-> id, name |-> name, source |-> sender, order |-> order, number |-> number,
     qty |-> qty, amount |-> amount]
MCEventOf ==
    [stock |-> Event("i", "inventory.updated", "prod", "none", 0, 0, 0),
     count |-> Event("n", "inventory.updated", "depot", "none", 0, 0, 0),
     item  |-> Event("j", "product.changed", "prod", "none", 0, 0, 0),
     price |-> Event("k", "price.updated", "prod", "none", 0, 0, 0),
     buyer |-> Event("l", "customer.created", "cust", "none", 0, 0, 0),
     terms |-> Event("m", "customer.updated", "cust", "none", 0, 0, 0),
     new1  |-> Event("a", "order.created", "o1", "o1", 1, 1, 2),
     new2  |-> Event("b", "order.created", "o2", "o2", 1, 1, 1),
     upd1  |-> Event("c", "order.updated", "o1", "o1", 2, 2, 2),
     again |-> Event("d", "order.updated", "o1", "o1", 3, 1, 1),
     off1  |-> Event("e", "order.cancelled", "o1", "o1", 1, 0, 0),
     off2  |-> Event("e", "order.cancelled", "o2", "o2", 1, 0, 0),
     pay1  |-> Event("f", "payment.captured", "p1", "o1", 1, 0, 1),
     pay2  |-> Event("g", "payment.captured", "p2", "o1", 2, 0, 1),
     pay3  |-> Event("h", "payment.captured", "p3", "o2", 1, 0, 1)]

MCSessions == {s1, s2}
MCRuns == {r1, r2}
MCOrders == {"o1", "o2"}
MCEvents == DOMAIN MCEventOf
MCWarehouses == {1, 2}
Level(available, reserved) == [available |-> available, reserved |-> reserved]
MCPushed == [stock |-> <<Level(2, 0), Level(1, 0)>>, count |-> <<Level(2, 1), Level(1, 2)>>]
MCScenarios ==
    {[masters |-> {"customer", "product", "price"},
      events |-> MCEvents \ {"item", "price", "buyer", "terms"}],
     [masters |-> {}, events |-> {"stock", "item", "price", "buyer", "new1"}],
     [masters |-> {"product", "price"}, events |-> {"stock", "item", "buyer", "terms", "new1"}]}

TradeInit ==
    /\ part \in {"years", "months", "shop", "queue"}
    /\ Init /\ ShopInit /\ QueueInit
    /\ part # "shop" => masters = {}

\* The years move in two parts: in one months are locked, in the other drafts are saved
\* and opening balances entered.
TradeNext ==
    \/ part = "years" /\ Next /\ UNCHANGED <<part, month_period, shop, queue>>
    \/ part = "months" /\ Next /\ UNCHANGED <<part, drafts, opening, shop, queue>>
    \/ part = "shop" /\ ShopNext /\ UNCHANGED <<part, vars, queue>>
    \/ part = "queue" /\ QueueNext /\ UNCHANGED <<part, vars, shop>>

TradeSpec == TradeInit /\ [][TradeNext]_<<part, vars, shop, queue>> /\ QueueFairness

\* Every variable of the part that moves keeps its shape; the others keep their values.
TradeTypeOK ==
    /\ part \in {"years", "months"} => TypeOK
    /\ part = "shop" => ShopTypeOK
    /\ part = "queue" => QueueTypeOK
=============================================================================
