------------------------------ MODULE Matching ------------------------------
(***************************************************************************)
(* The matching algorithm of one instrument and the previews that decide,  *)
(* before anything changes, what an order will do.                         *)
(*                                                                         *)
(* A book holds the active orders, one queue of order ids for every side   *)
(* and price, and the dormant stops in the order of their arming.  In a    *)
(* queue the displayed orders come before the hidden ones, each class by   *)
(* arrival; a reserve order shows a slice of its leaves and goes to the    *)
(* end of the displayed class each time a new slice is shown.              *)
(***************************************************************************)
EXTENDS Instrument, FiniteSets, SequencesExt

\* The expiry of an order that has none.
Never == 0

\* The prices of a side from the best to the worst.
BestFirst(side) ==
    [i \in Prices |-> IF side = "sell" THEN i ELSE MaxPrice + 1 - i]

Crosses(side, limit, price) ==
    \/ limit = Market
    \/ side = "buy" /\ limit >= price
    \/ side = "sell" /\ limit <= price

----------------------------------------------------------------------------
(* Orders *)

Full == [mode |-> "full", peak |-> 0]
Hidden == [mode |-> "hidden", peak |-> 0]
Reserve(peak) == [mode |-> "reserve", peak |-> peak]

\* The part of an order's leaves that trades before it loses its place.
WorkingLots(display, leaves) ==
    IF display.mode = "reserve" THEN Least(display.peak, leaves) ELSE leaves

Tif(kind) == [kind |-> kind, expires |-> Never, minimum |-> 0]

MayRest(tif) == tif.kind \in {"goodTilCancelled", "goodTilTimestamp", "postOnly"}

NoStop == [trigger |-> 0, limit |-> Market, tif |-> Tif("goodTilCancelled")]

IsDormant(order) == order.stop # NoStop

\* Mutant of Refills: the last slice counts only when it is a whole one.
RefillsOfWholeSlices(order) ==
    IF order.display.mode = "reserve" THEN (order.leaves - order.working) \div order.display.peak ELSE 0

\* The refills a reserve order has left.
Refills(order) ==
    IF order.display.mode = "reserve"
    THEN (order.leaves - order.working + order.display.peak - 1) \div order.display.peak
    ELSE 0

\* The events a resting order can still cause: a trade for every slice and a
\* refresh between two of them.
EventUnits(order) == IF IsDormant(order) THEN 0 ELSE 2 * (1 + Refills(order)) - 1

----------------------------------------------------------------------------
(* The book *)

EmptyBook ==
    [orders |-> <<>>,
     queue |-> [side \in Sides |-> [price \in Prices |-> <<>>]],
     stops |-> <<>>]

Active(book) == DOMAIN book.orders

OrdersOf(book, account, sides) ==
    {id \in Active(book) : book.orders[id].account = account /\ book.orders[id].side \in sides}

ActiveAccounts(book) == {book.orders[id].account : id \in Active(book)}

\* The prices of a side that have a level.
Levels(book, side) == {price \in Prices : book.queue[side][price] # <<>>}

BestPrice(book, side) ==
    IF side = "sell" THEN Min(Levels(book, side)) ELSE Max(Levels(book, side))

IsHidden(book, id) == book.orders[id].display.mode = "hidden"

\* How many orders of a level are displayed: the place of its displayed tail.
DisplayedTail(book, line) == Cardinality({i \in DOMAIN line : ~IsHidden(book, line[i])})

\* An order takes the last place of its class in its level.
AppendOrder(book, id, order) ==
    LET line == book.queue[order.side][order.price]
        place == IF order.display.mode = "hidden"
                 THEN Len(line) + 1
                 ELSE DisplayedTail(book, line) + 1
    IN  [book EXCEPT !.orders = (id :> order) @@ @,
                     !.queue[order.side][order.price] = InsertAt(line, place, id)]

AppendDormantStop(book, id, order) ==
    [book EXCEPT !.orders = (id :> order) @@ @, !.stops = Append(@, id)]

RemoveOrder(book, id) ==
    LET order == book.orders[id]
        rest == [book EXCEPT !.orders = Restrict(@, DOMAIN @ \ {id})]
    IN  IF IsDormant(order)
        THEN [rest EXCEPT !.stops = Remove(@, id)]
        ELSE [rest EXCEPT !.queue[order.side][order.price] = Remove(@, id)]

RemoveOrders(book, ids) ==
    [book EXCEPT
        !.orders = Restrict(@, DOMAIN @ \ ids),
        !.queue = [side \in Sides |-> [price \in Prices |->
                      SelectSeq(@[side][price], LAMBDA id : id \notin ids)]],
        !.stops = SelectSeq(@, LAMBDA id : id \notin ids)]

\* A slice is used up and leaves remain: the next slice goes to the tail.
NeedsRefresh(order, lots) == lots = order.working /\ lots < order.leaves

RefreshResting(book, id, lots) ==
    LET order == book.orders[id]
        left == order.leaves - lots
    IN  AppendOrder(RemoveOrder(book, id), id,
            [order EXCEPT !.leaves = left, !.working = WorkingLots(order.display, left)])

DecrementResting(book, id, lots) ==
    LET order == book.orders[id]
    IN  IF lots = order.leaves THEN RemoveOrder(book, id)
        ELSE IF NeedsRefresh(order, lots) THEN RefreshResting(book, id, lots)
        ELSE [book EXCEPT !.orders[id].leaves = @ - lots, !.orders[id].working = @ - lots]

----------------------------------------------------------------------------
(* Matching.  An incoming order is [id, account, side, limit, leaves, stp, *)
(* display]; a pass takes it to what is left of it, the book and the       *)
(* events so far.                                                          *)

Event(kind, id, lots) == [kind |-> kind, id |-> id, lots |-> lots]

CancelEvent(id, lots, reason) ==
    [kind |-> "cancelled", id |-> id, lots |-> lots, reason |-> reason]

\* Two accounts meet at the maker's price.
TradeEvent(in, maker, order, lots) ==
    LET buys == in.side = "buy"
    IN  [kind |-> "trade", id |-> maker, lots |-> lots, taker |-> in.id, price |-> order.price,
         buyer |-> IF buys THEN in.account ELSE order.account,
         seller |-> IF buys THEN order.account ELSE in.account]

\* Two orders of one account meet: `kind' is prevented, or decremented.
SelfTradeEvent(kind, in, own, lots) == [kind |-> kind, id |-> own, lots |-> lots, taker |-> in.id]

RestEvent(in) ==
    [kind |-> "rested", id |-> in.id, lots |-> in.leaves, price |-> in.limit,
     working |-> WorkingLots(in.display, in.leaves)]

\* The opposite side's best order trades at a price the incoming one accepts.
BestIsCrossed(book, in) ==
    LET side == Opposite(in.side)
    IN  Levels(book, side) # {} /\ Crosses(in.side, in.limit, BestPrice(book, side))

\* Mutant of BestOppositeOrder: the newest of the best price.
NewestOppositeOrder(book, in) ==
    LET side == Opposite(in.side) IN Last(book.queue[side][BestPrice(book, side)])

BestOppositeOrder(book, in) ==
    LET side == Opposite(in.side) IN Head(book.queue[side][BestPrice(book, side)])

RefreshEvents(order, id, lots) ==
    IF NeedsRefresh(order, lots)
    THEN <<[kind |-> "refreshed", id |-> id, price |-> order.price,
            lots |-> WorkingLots(order.display, order.leaves - lots),
            leaves |-> order.leaves - lots]>>
    ELSE <<>>

TradeWith(pass, maker) ==
    LET order == pass.book.orders[maker]
        lots == Least(pass.in.leaves, order.working)
    IN  [book |-> DecrementResting(pass.book, maker, lots),
         in |-> [pass.in EXCEPT !.leaves = @ - lots],
         events |-> pass.events \o <<TradeEvent(pass.in, maker, order, lots)>>
                        \o RefreshEvents(order, maker, lots)]

\* The incoming order meets an order of its own account.
PreventSelfTrade(pass, own) ==
    LET order == pass.book.orders[own]
        lots == Least(pass.in.leaves, order.working)
        without == RemoveOrder(pass.book, own)
        prevented == Append(pass.events, SelfTradeEvent("prevented", pass.in, own, lots))
        cancelOwn == Append(prevented, CancelEvent(own, order.leaves, "selfTradeResting"))
        stopped == [pass.in EXCEPT !.leaves = 0]
        cancelIn == CancelEvent(pass.in.id, pass.in.leaves, "selfTradeAggressor")
    IN  CASE pass.in.stp = "cancelAggressor" ->
                [book |-> pass.book, in |-> stopped, events |-> Append(prevented, cancelIn)]
          [] pass.in.stp = "cancelResting" ->
                [book |-> without, in |-> pass.in, events |-> cancelOwn]
          [] pass.in.stp = "cancelBoth" ->
                [book |-> without, in |-> stopped, events |-> Append(cancelOwn, cancelIn)]
          [] OTHER ->
                [book |-> DecrementResting(pass.book, own, lots),
                 in |-> [pass.in EXCEPT !.leaves = @ - lots],
                 events |-> pass.events \o <<SelfTradeEvent("decremented", pass.in, own, lots)>>
                                \o RefreshEvents(order, own, lots)]

\* Every turn takes lots from the incoming order or an own order from the
\* book, so the number of turns is bounded by both.
MatchPasses(book, in) ==
    LET start == [book |-> book, in |-> in, events |-> <<>>]
        turn(pass) ==
            LET best == BestOppositeOrder(pass.book, pass.in)
            IN  IF pass.book.orders[best].account = pass.in.account
                THEN PreventSelfTrade(pass, best)
                ELSE TradeWith(pass, best)
        after[n \in Nat] ==
            IF n = 0 THEN start
            ELSE LET pass == after[n - 1]
                 IN  IF pass.in.leaves > 0 /\ BestIsCrossed(pass.book, pass.in)
                     THEN turn(pass)
                     ELSE pass
    IN  after[in.leaves + Cardinality(Active(book))]

Resting(in, tif) ==
    [account |-> in.account, side |-> in.side, price |-> in.limit, leaves |-> in.leaves,
     working |-> WorkingLots(in.display, in.leaves), display |-> in.display,
     stp |-> in.stp, expires |-> tif.expires, stop |-> NoStop]

\* The whole execution: match, then rest the remainder or cancel it.
ExecuteIncoming(book, in, tif) ==
    LET pass == MatchPasses(book, in)
    IN  IF pass.in.leaves = 0 THEN pass
        ELSE IF in.limit # Market /\ MayRest(tif)
        THEN [pass EXCEPT !.book = AppendOrder(@, in.id, Resting(pass.in, tif)),
                          !.events = Append(@, RestEvent(pass.in))]
        ELSE [pass EXCEPT !.events =
                 Append(@, CancelEvent(in.id, pass.in.leaves, "unfilledRemainder"))]

----------------------------------------------------------------------------
(* Previews.  They scan the crossed levels, best first, and change nothing.*)
(* A level leaves a positive remainder, fills it, or stops the scan at an  *)
(* order of the incoming account.                                          *)

Filled == 0
Blocked == -1

CrossedLines(book, in) ==
    LET side == Opposite(in.side)
        crossed == SelectSeq(BestFirst(side),
                       LAMBDA price : /\ book.queue[side][price] # <<>>
                                      /\ Crosses(in.side, in.limit, price))
    IN  [i \in DOMAIN crossed |-> book.queue[side][crossed[i]]]

\* The leaves, or only the working lots, of the places of a line.
LeavesAt(book, line, places) ==
    MapThenSumSet(LAMBDA i : book.orders[line[i]].leaves, places)
WorkingAt(book, line, places) ==
    MapThenSumSet(LAMBDA i : book.orders[line[i]].working, places)

Owned(book, line, account) == {i \in DOMAIN line : book.orders[line[i]].account = account}

Less(remaining, lots) == IF lots >= remaining THEN Filled ELSE remaining - lots

CancelRestingLiquidity(book, line, account, remaining) ==
    Less(remaining, LeavesAt(book, line, DOMAIN line \ Owned(book, line, account)))

TotalLevelLiquidity(book, line, remaining) ==
    Less(remaining, LeavesAt(book, line, DOMAIN line))

\* Mutant of BlockingLiquidity: refills count although they line up behind
\* the account's own order.
BlockingLiquidityWithRefills(book, line, account, remaining) ==
    LET owned == Owned(book, line, account)
        ahead == IF owned = {} THEN DOMAIN line ELSE 1 .. Min(owned) - 1
        all == Less(remaining, LeavesAt(book, line, ahead))
    IN  IF all = Filled \/ owned = {} THEN all ELSE Blocked

\* An order of the account is a barrier.  Before a displayed one only the
\* slices now shown trade, their refills line up behind it; a hidden one
\* waits for every displayed lot.
BlockingLiquidity(book, line, account, remaining) ==
    LET owned == Owned(book, line, account)
        ahead == IF owned = {} THEN DOMAIN line ELSE 1 .. Min(owned) - 1
        all == Less(remaining, LeavesAt(book, line, ahead))
    IN  IF WorkingAt(book, line, ahead) >= remaining THEN Filled
        ELSE IF owned = {} THEN all
        ELSE IF IsHidden(book, line[Min(owned)]) /\ all = Filled THEN Filled
        ELSE Blocked

\* What level after level leaves of `required'.
Scan(lines, Level(_, _), required) ==
    LET left[i \in 0 .. Len(lines)] ==
            IF i = 0 THEN required
            ELSE LET before == left[i - 1]
                 IN  IF before <= 0 THEN before ELSE Level(lines[i], before)
    IN  left[Len(lines)]

CanExecuteQuantity(book, in, required) ==
    LET level(line, remaining) ==
            IF in.stp = "cancelResting"
            THEN CancelRestingLiquidity(book, line, in.account, remaining)
            ELSE BlockingLiquidity(book, line, in.account, remaining)
    IN  Scan(CrossedLines(book, in), level, required) = Filled

\* The slices of a level in the order they come up: what is displayed now,
\* round after round of refills, and then the hidden orders.
Slices(book, line) ==
    LET shown == SubSeq(line, 1, DisplayedTail(book, line))
        dark == SubSeq(line, DisplayedTail(book, line) + 1, Len(line))
        slice(id, lots) == [account |-> book.orders[id].account, lots |-> lots]
        now(ids) == [i \in DOMAIN ids |-> slice(ids[i], book.orders[ids[i]].working)]
        refill(id, round) ==
            LET order == book.orders[id]
            IN  IF round <= Refills(order)
                THEN Least(order.display.peak,
                           order.leaves - order.working - (round - 1) * order.display.peak)
                ELSE 0
        rounds == Max({0} \cup {Refills(book.orders[shown[i]]) : i \in DOMAIN shown})
    IN  now(shown)
        \o FlattenSeq([round \in 1 .. rounds |->
               [i \in DOMAIN shown |-> slice(shown[i], refill(shown[i], round))]])
        \o now(dark)

\* Decrement-and-cancel spends the incoming order on its own account's
\* slices too: the minimum counts what it trades with others.
CanExecuteMinimumByDecrement(book, in, required) ==
    LET lines == CrossedLines(book, in)
        slices == FlattenSeq([i \in DOMAIN lines |-> Slices(book, lines[i])])
        before(i) == MapThenSumSet(LAMBDA j : slices[j].lots, 1 .. i - 1)
        taken(i) == IF before(i) >= in.leaves THEN 0
                    ELSE Least(slices[i].lots, in.leaves - before(i))
        external == {i \in DOMAIN slices : slices[i].account # in.account}
    IN  MapThenSumSet(taken, external) >= required

CanExecuteMinimumQuantity(book, in, required) ==
    IF in.stp = "decrementAndCancel"
    THEN CanExecuteMinimumByDecrement(book, in, required)
    ELSE CanExecuteQuantity(book, in, required)

\* Whether part of the incoming order will be left to rest, and then how
\* many resting orders its execution removes.
LeavesResidual(book, in) ==
    LET level(line, remaining) ==
            CASE in.stp = "cancelResting" ->
                    CancelRestingLiquidity(book, line, in.account, remaining)
              [] in.stp = "decrementAndCancel" -> TotalLevelLiquidity(book, line, remaining)
              [] OTHER -> BlockingLiquidity(book, line, in.account, remaining)
    IN  Scan(CrossedLines(book, in), level, in.leaves) > 0

ResidualRemovedOrders(book, in) == Len(FlattenSeq(CrossedLines(book, in)))

\* The accounts whose every active order, dormant stops included, is on the
\* opposite side at a crossed price.
ResidualReleasedAccounts(book, in) ==
    {account \in ActiveAccounts(book) :
        \A id \in OrdersOf(book, account, Sides) :
            /\ book.orders[id].side = Opposite(in.side)
            /\ Crosses(in.side, in.limit, book.orders[id].price)}

\* The most events an incoming order can cause.  `terminal' is one when its
\* remainder may rest or be cancelled.
MaximumMatchingWork(book, in, terminal) ==
    LET opposite == {id \in Active(book) : book.orders[id].side # in.side}
        own == OrdersOf(book, in.account, {Opposite(in.side)})
        units(ids) == MapThenSumSet(LAMBDA id : EventUnits(book.orders[id]), ids)
        consuming(ids) == Least(2 * in.leaves, units(ids))
        ended(lots) == IF own # {} /\ terminal < lots THEN lots ELSE terminal
    IN  1 + CASE in.stp = "cancelResting" ->
                    consuming(opposite \ own) + 2 * Cardinality(own) + terminal
              [] in.stp = "cancelAggressor" -> consuming(opposite \ own) + ended(2)
              [] in.stp = "cancelBoth" -> consuming(opposite \ own) + ended(3)
              [] OTHER -> consuming(opposite) + terminal

============================================================================
