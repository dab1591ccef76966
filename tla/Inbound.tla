------------------------------- MODULE Inbound -------------------------------
(***************************************************************************)
(* The events a shop sends to integrations/cartunez: orders, captured      *)
(* payments and master data, each claimed in the replay cache              *)
(* (integrations/core/replay.py) in the transaction that applies it, and   *)
(* the events that master data makes for the outbound queue.               *)
(* Deliveries may be duplicated, late or cut short by a crash of the       *)
(* process; the handlers of a tenant run one at a time, under the row lock *)
(* of its connection, from their first read to their commit.               *)
(*                                                                         *)
(* One customer; one product with one variant and one price; an order has  *)
(* one line of it.  A stock message replaces the levels of the product,    *)
(* reservations included: it says what is available and what is reserved,  *)
(* whatever orders hold.                                                   *)
(***************************************************************************)
EXTENDS Integers, FiniteSets, FiniteSetsExt, Functions

Masters == {"customer", "product", "price"}
OrderEvents == {"order.created", "order.updated", "order.cancelled", "payment.captured"}
MasterEvents == {"inventory.updated", "price.updated", "product.changed", "customer.updated",
                 "customer.created"}

CONSTANTS Sessions,       \* requests in progress, one database session each
          Orders,         \* order ids of the shop
          Events,         \* what the shop may send, one element per body
          EventOf,        \* Events -> [id, name, source, order, number, qty, amount]
          Warehouses,     \* 1 .. n, in the order _reserve visits them
          Pushed,         \* stock messages -> Warehouses -> [available, reserved]
          Scenarios,      \* [masters, events]: what is mapped at first, what is sent
          MaxDeliveries   \* bound on the requests received

\* Quantities and amounts as the schemas of the events admit them; an order's
\* events name it, the others none.  A warehouse that a stock message leaves out
\* has no level: nothing available, nothing reserved.
ASSUME ShopAssumption ==
    /\ IsFiniteSet(Warehouses) /\ Warehouses = 1 .. Cardinality(Warehouses)
    /\ IsFiniteSet(Orders) /\ MaxDeliveries \in Nat
    /\ Pushed \in [{e \in Events : EventOf[e].name = "inventory.updated"} ->
                      [Warehouses -> [available : Nat, reserved : Nat]]]
    /\ \A e \in Events :
        LET event == EventOf[e]
        IN  /\ event.number \in Nat /\ event.qty \in Nat /\ event.amount \in Nat
            /\ event.name \in OrderEvents \cup MasterEvents
            /\ event.order \in Orders <=> event.name \in OrderEvents
            /\ event.name \in {"order.created", "order.updated"} => event.qty > 0
    /\ \A scenario \in Scenarios : scenario.masters \subseteq Masters /\ scenario.events \subseteq Events

VARIABLES replay,     \* committed replay records: event -> stored response
          session,    \* per request: phase, event and answer
          orders,     \* IntegrationOrderState with its sales order and invoice
          held,       \* per order and warehouse, the sum of its movements
          levels,     \* SyncedInventoryLevel per warehouse
          stock,      \* the materialised product: opening_stock, current_stock
          told,       \* history: the last stock message, and what orders held and had
                      \* sold when it came
          masters,    \* what is mapped and active: of "customer", "product", "price"
          outbox,     \* per event, how many WebhookEvents were queued for it
          sendable,   \* the events of the scenario
          received    \* how many requests arrived

shop == <<replay, session, orders, held, levels, stock, told, masters, outbox, sendable, received>>

NoEvent == "none"
NoProduct == [made |-> FALSE, opening |-> 0, current |-> 0]
ZeroEach == [w \in Warehouses |-> 0]
Absent == [status |-> "none", revision |-> 0, qty |-> 0, total |-> 0, captured |-> 0,
           sequence |-> 0, invoiced |-> FALSE, paid |-> 0]

Name(e) == EventOf[e].name
\* The only key _validate_consistency accepts names the event and its source,
\* not the occurrence: a second update of one order has the key of the first.  The
\* source of master data is not compared with what it is about, and another source
\* may send it again.
Key(e) == <<Name(e), EventOf[e].source>>
Collide(e, f) == EventOf[e].id = EventOf[f].id \/ Key(e) = Key(f)

ShopInit ==
    /\ replay = <<>>
    /\ session = [s \in Sessions |-> [phase |-> "idle", event |-> NoEvent, answer |-> <<>>]]
    /\ orders = [o \in Orders |-> Absent]
    /\ held = [o \in Orders |-> ZeroEach]
    /\ levels = [w \in Warehouses |-> [available |-> 0, reserved |-> 0]]
    /\ stock = NoProduct
    /\ told = [w \in Warehouses |-> [available |-> 0, reserved |-> 0, held |-> 0, sold |-> 0]]
    /\ \E scenario \in Scenarios : masters = scenario.masters /\ sendable = scenario.events
    /\ outbox = [e \in Events |-> 0]
    /\ received = 0

-----------------------------------------------------------------------------
(* The levels as a value: what the handlers add to them and take off them. *)

\* Mutant: offers what other orders have reserved.
CapacityUnreserved(level) == level.available

Capacity(level) == Max({0, level.available - level.reserved})

\* The quantities reserved, over the levels lv as they stand: each warehouse
\* gives what it can of what those before it have left.
Reserved(lv, q) ==
    LET can == [w \in Warehouses |-> Capacity(lv[w])]
        before(w) == SumFunctionOnSet(can, 1 .. w - 1)
    IN  [w \in Warehouses |-> Max({0, Min({q - before(w), can[w]})})]

Total(f) == SumFunctionOnSet(f, Warehouses)

\* The levels with the reservations shifted by a quantity per warehouse.
Shifted(lv, by) == [w \in Warehouses |-> [lv[w] EXCEPT !.reserved = @ + by[w]]]
Negated(f) == [w \in Warehouses |-> -f[w]]

\* _release_reservations refuses when the level holds less than the movements, as it
\* may after a stock message.
CanRelease(o) == \A w \in Warehouses : levels[w].reserved >= held[o][w]
\* Mutant: the reservations stay.
ReleasedNot(o) == levels
Released(o) == Shifted(levels, Negated(held[o]))

-----------------------------------------------------------------------------
(* The outcome of a handler: a record of the new state, or Refused.        *)

Refused == [ok |-> FALSE]
Outcome(order, hold, lv, product) ==
    [ok |-> TRUE, order |-> order, held |-> hold, levels |-> lv, stock |-> product,
     masters |-> masters]
Mapped(kind) == [Outcome(Absent, ZeroEach, levels, stock) EXCEPT !.masters = @ \cup {kind}]

\* _resolve_customer and _validate_commercial_snapshot: an active customer, an
\* active product and an authoritative price.
Resolved == masters = Masters

\* Reserve for the order on the levels lv, which hold nothing of it.
Reserving(order, lv) ==
    LET hold == Reserved(lv, order.qty)
    IN  IF Total(hold) < order.qty THEN Refused
        ELSE Outcome(order, hold, Shifted(lv, hold), stock)

CreateOrder(e) ==
    LET new == [Absent EXCEPT !.status = "DRAFT", !.revision = 1,
                              !.qty = EventOf[e].qty, !.total = EventOf[e].amount]
    IN  IF orders[EventOf[e].order].status # "none" \/ EventOf[e].number # 1 \/ ~Resolved
        THEN Refused ELSE Reserving(new, levels)

DraftOrder(o) == orders[o].status = "DRAFT" /\ ~orders[o].invoiced /\ orders[o].captured = 0

UpdateOrder(e) ==
    LET o == EventOf[e].order
        new == [orders[o] EXCEPT !.revision = EventOf[e].number, !.qty = EventOf[e].qty,
                                 !.total = EventOf[e].amount]
    IN  IF ~DraftOrder(o) \/ EventOf[e].number # orders[o].revision + 1 \/ ~Resolved \/ ~CanRelease(o)
        THEN Refused ELSE Reserving(new, Released(o))

CancelOrder(e) ==
    LET o == EventOf[e].order
    IN  IF EventOf[e].number # orders[o].revision \/ ~DraftOrder(o) \/ ~CanRelease(o) THEN Refused
        ELSE Outcome([orders[o] EXCEPT !.status = "CANCELLED"], ZeroEach, Released(o), stock)

\* The product is created when the first invoice needs it, with the stock there is then;
\* no later stock message changes it.
Available == Total([w \in Warehouses |-> levels[w].available])
Materialised == IF stock.made THEN stock
                ELSE [made |-> TRUE, opening |-> Available, current |-> Available]

\* Mutant: sells again at each capture.
ConvertsAlways(o) == TRUE

\* The first capture posts the invoice and turns the reservations into a sale.
\* The movements stay as they are: nothing releases them after the invoice.
Converts(o) == ~orders[o].invoiced
CanSell(o) == \A w \in Warehouses : held[o][w] <= Min({levels[w].reserved, levels[w].available})
Sold(o) == [w \in Warehouses |-> [available |-> levels[w].available - held[o][w],
                                  reserved |-> levels[w].reserved - held[o][w]]]

\* _create_and_post_invoice, once per order: the contact and the product are
\* materialised, the invoice is posted.
Invoiced(order) == [order EXCEPT !.invoiced = TRUE]

Capture(e) ==
    LET o == EventOf[e].order
        captured == orders[o].captured + EventOf[e].amount
        new == [Invoiced(orders[o]) EXCEPT !.captured = captured, !.paid = captured,
                                           !.sequence = EventOf[e].number,
                                           !.status = IF captured = orders[o].total THEN "PAID"
                                                      ELSE "PARTIALLY_PAID"]
    IN  IF \/ orders[o].status \in {"none", "CANCELLED"}
           \/ EventOf[e].number # orders[o].sequence + 1
           \/ captured > orders[o].total
           \/ Converts(o) /\ ~CanSell(o)
        THEN Refused
        ELSE IF Converts(o) THEN Outcome(new, held[o], Sold(o), [Materialised EXCEPT !.current = @ - Total(held[o])])
        ELSE Outcome(new, held[o], levels, stock)

\* Customers come from the shop and from the back office, in two handlers.
UpsertCustomer(e) == Mapped("customer")
UpsertShopCustomer(e) == Mapped("customer")
UpsertProduct(e) == Mapped("product")
ReplacePrices(e) == IF "product" \in masters THEN Mapped("price") ELSE Refused

\* Deletes the levels of the product, with what orders have reserved there, and writes
\* those of the message.
ReplaceInventory(e) ==
    IF "product" \notin masters THEN Refused ELSE Outcome(Absent, ZeroEach, Pushed[e], stock)

Handled(e) ==
    CASE Name(e) = "order.created" -> CreateOrder(e)
      [] Name(e) = "order.updated" -> UpdateOrder(e)
      [] Name(e) = "order.cancelled" -> CancelOrder(e)
      [] Name(e) = "payment.captured" -> Capture(e)
      [] Name(e) = "inventory.updated" -> ReplaceInventory(e)
      [] Name(e) = "price.updated" -> ReplacePrices(e)
      [] Name(e) = "product.changed" -> UpsertProduct(e)
      [] Name(e) = "customer.updated" -> UpsertCustomer(e)
      [] Name(e) = "customer.created" -> UpsertShopCustomer(e)

\* The master data of the back office is queued for the shop.
QueuedFor(e) == Name(e) \in {"inventory.updated", "price.updated", "product.changed", "customer.updated"}

\* The parts of a response the properties tell apart.
Response(order) == <<order.status, order.revision, order.captured>>

\* What the orders in draft hold in a warehouse, and what the invoiced ones took of it.
HeldIn(w) == [o \in Orders |-> held[o][w]]
DraftOrders == {o \in Orders : DraftOrder(o)}
InvoicedOrders == {o \in Orders : orders[o].invoiced}
Reservations(w) == SumFunctionOnSet(HeldIn(w), DraftOrders)
Sales(w) == SumFunctionOnSet(HeldIn(w), InvoicedOrders)

-----------------------------------------------------------------------------
(* Requests.                                                               *)

Answer(s, a) == session' = [session EXCEPT ![s].phase = "answered", ![s].answer = a]

\* The shop sends an event, for the first time or again.
Receive(s, e) ==
    /\ session[s].phase \in {"idle", "answered"} /\ received < MaxDeliveries /\ e \in sendable
    /\ session' = [session EXCEPT ![s] = [phase |-> "arrived", event |-> e, answer |-> <<>>]]
    /\ received' = received + 1
    /\ UNCHANGED <<replay, orders, held, levels, stock, told, masters, outbox, sendable>>

\* The unique indexes make an insert wait for the transaction of a colliding one.
Waits(s) == \E t \in Sessions \ {s} :
                session[t].phase = "claimed" /\ Collide(session[t].event, session[s].event)

\* Mutant: the records of completed events are not looked at.
DuplicateNever(e) == FALSE

Duplicate(e) == \E f \in DOMAIN replay : Collide(e, f)

\* Mutant: the claim is committed on its own, before the handler runs.
ClaimCommitted(s) ==
    /\ session[s].phase = "arrived" /\ ~Waits(s) /\ ~Duplicate(session[s].event)
    /\ session' = [session EXCEPT ![s].phase = "claimed"]
    /\ replay' = [f \in DOMAIN replay \cup {session[s].event} |->
                      IF f = session[s].event THEN <<"none", 0, 0>> ELSE replay[f]]
    /\ UNCHANGED <<orders, held, levels, stock, told, masters, outbox, sendable, received>>

Claim(s) ==
    /\ session[s].phase = "arrived" /\ ~Waits(s) /\ ~Duplicate(session[s].event)
    /\ session' = [session EXCEPT ![s].phase = "claimed"]
    /\ UNCHANGED <<replay, orders, held, levels, stock, told, masters, outbox, sendable, received>>

\* The insert failed: the stored answer for the same request, else a conflict.
AnswerDuplicate(s) ==
    LET e == session[s].event
    IN  /\ session[s].phase = "arrived" /\ ~Waits(s) /\ Duplicate(e)
        /\ Answer(s, IF e \in DOMAIN replay THEN replay[e] ELSE <<"conflict">>)
        /\ UNCHANGED <<replay, orders, held, levels, stock, told, masters, outbox, sendable, received>>

\* The handler and the commit of its effects with the completed replay record.
Complete(s) ==
    LET e == session[s].event
        o == EventOf[e].order
        h == Handled(e)
    IN  /\ session[s].phase = "claimed" /\ h.ok
        /\ orders' = IF o \in Orders THEN [orders EXCEPT ![o] = h.order] ELSE orders
        /\ held' = IF o \in Orders THEN [held EXCEPT ![o] = h.held] ELSE held
        /\ levels' = h.levels /\ stock' = h.stock /\ masters' = h.masters
        /\ told' = IF Name(e) # "inventory.updated" THEN told
                   ELSE [w \in Warehouses |->
                            [available |-> h.levels[w].available, reserved |-> h.levels[w].reserved,
                             held |-> Reservations(w), sold |-> Sales(w)]]
        /\ outbox' = IF QueuedFor(e) THEN [outbox EXCEPT ![e] = @ + 1] ELSE outbox
        /\ replay' = [f \in DOMAIN replay \cup {e} |->
                          IF f = e THEN Response(h.order) ELSE replay[f]]
        /\ Answer(s, Response(h.order))
        /\ UNCHANGED <<sendable, received>>

\* The handler raises: everything is rolled back, the claim with it.
Reject(s) ==
    /\ session[s].phase = "claimed" /\ ~Handled(session[s].event).ok
    /\ Answer(s, <<"rejected">>)
    /\ UNCHANGED <<replay, orders, held, levels, stock, told, masters, outbox, sendable, received>>

\* The process or the connection to the database dies before the commit.
Crash(s) ==
    /\ session[s].phase \in {"arrived", "claimed"}
    /\ session' = [session EXCEPT ![s] = [phase |-> "idle", event |-> NoEvent, answer |-> <<>>]]
    /\ UNCHANGED <<replay, orders, held, levels, stock, told, masters, outbox, sendable, received>>

ShopNext == \E s \in Sessions :
    \/ \E e \in Events : Receive(s, e)
    \/ Claim(s) \/ AnswerDuplicate(s) \/ Complete(s) \/ Reject(s) \/ Crash(s)

ShopSpec == ShopInit /\ [][ShopNext]_shop

-----------------------------------------------------------------------------
(* Properties.                                                             *)

ShopTypeOK ==
    /\ DOMAIN replay \subseteq Events
    /\ session \in [Sessions -> [phase : {"idle", "arrived", "claimed", "answered"},
                                 event : Events \cup {NoEvent},
                                 answer : {<<>>, <<"conflict">>, <<"rejected">>} \cup
                                          {replay[e] : e \in DOMAIN replay}]]
    /\ \A o \in Orders : orders[o].status \in {"none", "DRAFT", "PARTIALLY_PAID", "PAID", "CANCELLED"}
    /\ held \in [Orders -> [Warehouses -> Nat]]
    /\ \A w \in Warehouses : levels[w] \in [available : Nat, reserved : Nat]
    /\ masters \subseteq Masters /\ outbox \in [Events -> Nat] /\ sendable \subseteq Events
    /\ told \in [Warehouses -> [available : Nat, reserved : Nat, held : Nat, sold : Nat]]
    /\ stock \in [made : BOOLEAN, opening : Nat, current : Int] /\ received \in 0 .. MaxDeliveries

Completed(name, o) == {e \in DOMAIN replay : Name(e) = name /\ EventOf[e].order = o}

\* A replay record and the effects of its event are committed together: the
\* state of an order is the one its completed events lead to, whatever was
\* delivered twice, refused or lost in a crash, and completed master data was
\* queued for the shop once, other events never.
EffectsMatchEvents ==
  /\ \A e \in Events : outbox[e] = IF e \in DOMAIN replay /\ QueuedFor(e) THEN 1 ELSE 0
  /\ \A o \in Orders :
    /\ orders[o].revision = Cardinality(Completed("order.created", o))
                             + Cardinality(Completed("order.updated", o))
    /\ orders[o].captured =
        LET captures == Completed("payment.captured", o)
        IN  SumFunctionOnSet([e \in captures |-> EventOf[e].amount], captures)
    /\ orders[o].paid = orders[o].captured
    /\ (orders[o].status = "CANCELLED") = (Completed("order.cancelled", o) # {})
    /\ (orders[o].status = "PAID") => orders[o].captured = orders[o].total

\* An order that is not cancelled holds what it ordered.  Since the last stock message,
\* what a level has reserved has changed by what the orders in draft hold there, and
\* what is available by what the invoiced ones took: an update or a cancellation gives
\* back what the order held, a sale takes it.  And unless the message itself reserved
\* more than there is, no two orders hold the same piece.
ReservedIsHeld ==
    /\ \A o \in Orders :
           orders[o].status \notin {"none", "CANCELLED"} => Total(held[o]) = orders[o].qty
    /\ \A w \in Warehouses :
           /\ levels[w].reserved - told[w].reserved = Reservations(w) - told[w].held
           /\ told[w].available - levels[w].available = Sales(w) - told[w].sold
           /\ told[w].reserved <= told[w].available => levels[w].reserved <= levels[w].available

InvoicedQty == SumFunctionOnSet([o \in Orders |-> orders[o].qty], InvoicedOrders)

\* Each invoiced order left the books once, however many captures pay it; and as long
\* as no stock message came after a sale, the books and the warehouses agree.
SoldOnce ==
    /\ stock.made <=> InvoicedOrders # {}
    /\ stock.made => stock.current = stock.opening - InvoicedQty
    /\ stock.made /\ (\A w \in Warehouses : told[w].sold = 0) => stock.current = Available

\* Reservations follow the orders, which sell once, whatever stock messages say.
OrdersHoldStock == ReservedIsHeld /\ SoldOnce

\* Once an event is completed, whoever delivers it again hears what was stored
\* and never a refusal, also when the two deliveries raced for the claim.
RetriesHearTheOutcome == [][\A s \in Sessions :
    LET e == session[s].event
    IN  session[s].phase # "answered" /\ session'[s].phase = "answered" /\ e \in DOMAIN replay'
            => session'[s].answer = replay'[e]]_shop

=============================================================================
