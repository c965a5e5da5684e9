----------------------------- MODULE AuctionBook -----------------------------
(***************************************************************************)
(* The book of a call auction: orders that rest, on both sides and at      *)
(* crossing prices, until an uncross fills what can be filled at one       *)
(* price.  The operators here are its operations; the engine decides when  *)
(* they are allowed.                                                       *)
(*                                                                         *)
(* A book holds its active orders by id and the number of ids it has       *)
(* accepted: ids are taken in the order of arrival and never again.        *)
(***************************************************************************)
EXTENDS AuctionPricing, FiniteSets, Functions

CONSTANTS
    MaxIds,     \* max_accepted_order_ids
    MaxOrders,  \* max_active_orders
    MaxLevels   \* max_price_levels_per_side

ASSUME AuctionBookAssumption ==
    /\ MaxLevels \in Nat \ {0} /\ MaxOrders \in Nat /\ MaxIds \in Nat
    /\ MaxLevels <= MaxOrders /\ MaxOrders <= MaxIds

EmptyBook == [orders |-> <<>>, accepted |-> 0]

Active(book) == DOMAIN book.orders

OfSide(book, side) == {id \in Active(book) : book.orders[id].side = side}

OfAccount(book, account, sides) ==
    {id \in Active(book) : book.orders[id].account = account /\ book.orders[id].side \in sides}

LevelPrices(orders, side) ==
    {orders[id].limit : id \in {id \in DOMAIN orders : orders[id].side = side}} \ {Market}

Without(orders, ids) == Restrict(orders, DOMAIN orders \ ids)

\* One side of the book, best priority first.
InPriority(book, side) == ByPriority({book.orders[id] : id \in OfSide(book, side)})

----------------------------------------------------------------------------
(* Entry and withdrawal *)

\* An order for the next id, with its place in the priority.
Arriving(book, offer) ==
    [id |-> book.accepted + 1, sequence |-> book.accepted + 1, account |-> offer.account,
     side |-> offer.side, limit |-> offer.limit, lots |-> offer.lots, class |-> offer.class]

LevelHasRoom(orders, offer) ==
    Cardinality(LevelPrices(orders, offer.side) \cup ({offer.limit} \ {Market})) <= MaxLevels

CanAdmit(book, offer) ==
    /\ Cardinality(Active(book)) < MaxOrders
    /\ book.accepted < MaxIds
    /\ LevelHasRoom(book.orders, offer)

Admit(book, offer) ==
    LET order == Arriving(book, offer)
    IN  [orders |-> [id \in Active(book) \cup {order.id} |->
                        IF id = order.id THEN order ELSE book.orders[id]],
         accepted |-> order.id]

CancelAll(book, ids) == [book EXCEPT !.orders = Without(@, ids)]

\* Only the lots change: a smaller order keeps its place.
Amend(book, id, lots) == [book EXCEPT !.orders[id].lots = lots]

\* The target leaves before the replacement is measured against the limits.
CanReplace(book, id, offer) ==
    /\ book.accepted < MaxIds
    /\ LevelHasRoom(Without(book.orders, {id}), offer)

Replace(book, id, offer) == Admit(CancelAll(book, {id}), offer)

----------------------------------------------------------------------------
(* Clearing *)

Interest(book) ==
    LET LotsAtLimit(side, limit) ==
            LET ids == {id \in OfSide(book, side) : book.orders[id].limit = limit}
            IN  FoldFunctionOnSet(+, 0, [id \in ids |-> book.orders[id].lots], ids)
    IN  [levels |-> [side \in Sides |-> [price \in Prices |-> LotsAtLimit(side, price)]],
         market |-> [side \in Sides |-> LotsAtLimit(side, Market)]]

IndicativeClearing(book, call) ==
    DiscoverBoundedClearingPrice(Interest(book), call.band, call.reference, call.pricing)

PlanOf(orders, fills) ==
    [id \in {orders[i].id : i \in DOMAIN orders} |->
        fills[CHOOSE i \in DOMAIN orders : orders[i].id = id]]

\* The lots every order of one side gets, by id.
AllocationPlan(book, side, clearing, policy) ==
    LET orders == InPriority(book, side)
    IN  PlanOf(orders, AppendPolicyFills(orders, clearing.executable, policy))

\* Fills in their order, as [id, lots].
FillsOf(book, side, plan) ==
    LET filled == ByPriority({book.orders[id] : id \in {id \in OfSide(book, side) : plan[id] > 0}})
    IN  [i \in DOMAIN filled |-> [id |-> filled[i].id, lots |-> plan[filled[i].id]]]

Through(fills, i) == LotsAmong(fills, 1 .. i)

FillAt(fills, lot) == fills[Min({i \in DOMAIN fills : Through(fills, i) >= lot})]

PairsEndingAt(ends, buys, sells) ==
    [k \in DOMAIN ends |->
        [buy |-> FillAt(buys, ends[k]).id, sell |-> FillAt(sells, ends[k]).id,
         lots |-> ends[k] - (IF k = 1 THEN 0 ELSE ends[k - 1])]]

\* Buyers and sellers are paired from the first fill on; a pair ends where a
\* fill of either side ends.
TradePairs(buys, sells) ==
    LET Ends(fills) == {Through(fills, i) : i \in DOMAIN fills}
    IN  PairsEndingAt(Ascending(Ends(buys) \cup Ends(sells)), buys, sells)

Cancels(remainder, limit) ==
    remainder = "cancelAll" \/ (remainder = "cancelMarket" /\ limit = Market)

\* What is left of an order and not kept.
RemainderCancellations(book, plan, remainder) ==
    LET Of(side) ==
            LET left == ByPriority({order \in {book.orders[id] : id \in OfSide(book, side)} :
                            plan[order.id] < order.lots /\ Cancels(remainder, order.limit)})
            IN  [i \in DOMAIN left |-> [id |-> left[i].id, lots |-> left[i].lots - plan[left[i].id],
                                       executed |-> plan[left[i].id]]]
    IN  Of("buy") \o Of("sell")

PreparedFrom(book, plan, remainder) ==
    [plan |-> plan,
     trades |-> TradePairs(FillsOf(book, "buy", plan), FillsOf(book, "sell", plan)),
     cancellations |-> RemainderCancellations(book, plan, remainder)]

\* Everything an uncross is going to do, decided before it does any of it.
PrepareUncross(book, clearing, policy) ==
    LET plans == [side \in Sides |-> AllocationPlan(book, side, clearing, policy.allocation)]
    IN  PreparedFrom(book, [id \in Active(book) |-> plans[book.orders[id].side][id]],
                     policy.remainder)

SelfTrades(book, trades) ==
    \E i \in DOMAIN trades : book.orders[trades[i].buy].account = book.orders[trades[i].sell].account

CommitUncross(book, prepared) ==
    LET plan == prepared.plan
        cancelled == {prepared.cancellations[i].id : i \in DOMAIN prepared.cancellations}
        gone == {id \in Active(book) : plan[id] = book.orders[id].lots} \cup cancelled
    IN  [book EXCEPT !.orders = [id \in Active(book) \ gone |->
                                    [book.orders[id] EXCEPT !.lots = @ - plan[id]]]]

=============================================================================
