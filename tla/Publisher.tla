------------------------------ MODULE Publisher ------------------------------
(***************************************************************************)
(* The market-data publisher.  It never looks into the order book: from    *)
(* every command and its report it keeps its own mirror of the orders, the *)
(* stops and the displayed depth, and turns each event into an update of   *)
(* one level, a trade or nothing.  Every event is first held against the   *)
(* command and the mirror; one that does not fit poisons the publisher.    *)
(***************************************************************************)
EXTENDS OrderBook, Replica

VARIABLES
    mirror,     \* orders, stops by priority, depth and controls, as published
    poisoned,   \* a report did not fit; nothing is published any more
    batch       \* the updates of the last command


PublisherInit ==
    /\ mirror = [orders |-> <<>>, stops |-> <<>>, armed |-> <<>>, depth |-> NoDepth,
                 trading |-> "open", blocked |-> {}, watermark |-> 0,
                 reference |-> [number |-> 0, price |-> 0]]
    /\ poisoned = FALSE
    /\ batch = <<>>

\* Where a report stands: the stop being executed, the price of a
\* market-to-limit order, the order that a replacement took out, and what has
\* been withdrawn so far.
Inactive == [id |-> 0]
NoProgress ==
    [active |-> Inactive, triggered |-> 0, priced |-> Market, moved |-> Inactive,
     count |-> 0, lots |-> 0, last |-> <<0, 0>>, completed |-> FALSE]

----------------------------------------------------------------------------
(* Depth *)

IsShown(order) == order.display.mode # "hidden"

\* The updates of a level: a trade's carries the traded lots.
LevelUpdate(m, side, price, traded) ==
    [side |-> side, price |-> price, lots |-> m.depth[side][price].lots,
     count |-> m.depth[side][price].count, traded |-> traded]

AddLevel(m, side, price, lots) ==
    [m EXCEPT !.depth[side][price] = [lots |-> @.lots + lots, count |-> @.count + 1]]

DepthHasRoom(m, side, price) ==
    \/ m.depth[side][price].count # 0
    \/ Cardinality({p \in Prices : m.depth[side][p] # NoLevel}) < MaxLevels

ReduceLevel(m, side, price, lots, orders) ==
    [m EXCEPT !.depth[side][price] = [lots |-> @.lots - lots, count |-> @.count - orders]]

\* A slice that is used up leaves the count even if the order has more.
DecrementOrder(m, id, lots) ==
    LET order == m.orders[id]
        left == [m EXCEPT !.orders =
                    IF lots = order.leaves THEN Restrict(@, DOMAIN @ \ {id})
                    ELSE [@ EXCEPT ![id].leaves = @ - lots, ![id].displayed = @ - lots]]
    IN  IF ~IsShown(order) THEN left
        ELSE ReduceLevel(left, order.side, order.price, lots,
                         IF lots = order.displayed THEN 1 ELSE 0)

RemoveTrackedOrder(m, id) ==
    LET order == m.orders[id]
        left == [m EXCEPT !.orders = Restrict(@, DOMAIN @ \ {id})]
    IN  IF IsShown(order) THEN ReduceLevel(left, order.side, order.price, order.displayed, 1)
        ELSE left

RemoveTrackedStop(m, id) ==
    [m EXCEPT !.stops = Restrict(@, DOMAIN @ \ {id}), !.armed = Remove(@, id)]

\* The stops of a side the price reaches, the next one first: the trigger
\* decides, then the priority.
EligibleTracked(m, side, price) ==
    LET reached == {id \in DOMAIN m.stops :
                       m.stops[id].side = side /\ Satisfied(side, m.stops[id].trigger, price)}
        place(id) == CHOOSE i \in DOMAIN m.armed : m.armed[i] = id
        sooner(a, b) == IF side = "buy" THEN m.stops[a].trigger < m.stops[b].trigger
                        ELSE m.stops[a].trigger > m.stops[b].trigger
        before(a, b) == \/ sooner(a, b)
                        \/ m.stops[a].trigger = m.stops[b].trigger /\ place(a) < place(b)
    IN  SetToSortSeq(reached, before)

IsFirstEligible(m, id, price) ==
    \E side \in Sides :
        /\ EligibleTracked(m, Opposite(side), price) = <<>>
        /\ EligibleTracked(m, side, price) # <<>>
        /\ Head(EligibleTracked(m, side, price)) = id

----------------------------------------------------------------------------
(* Events against their command.  A stage is [m, p, updates, fits]: the     *)
(* mirror and the progress so far.  Every handler has what it expects and  *)
(* what it does.                                                           *)

Taker(s, command) == IF command.kind = "stopSweep" THEN s.p.active.id ELSE command.id

TakerAccount(s, command) ==
    IF command.kind = "stopSweep" THEN s.p.active.stop.account ELSE command.account

IsMarketToLimit(command) == command.kind = "new" /\ command.type = "marketToLimit"

\* Who rests: a new order at its limit, a replaced one that lost its place,
\* or the stop that was triggered.
RestingSource(s, command) ==
    CASE command.kind = "new" ->
            [account |-> command.account, side |-> command.side, display |-> command.display,
             expires |-> command.tif.expires]
      [] command.kind = "replace" ->
            [account |-> command.account, side |-> s.p.moved.side, display |-> command.display,
             expires |-> s.p.moved.expires]
      [] command.kind = "stopSweep" ->
            [account |-> s.p.active.stop.account, side |-> s.p.active.stop.side,
             display |-> s.p.active.stop.display, expires |-> s.p.active.stop.tif.expires]

RestedExpected(s, command, event) ==
    /\ event.id \notin DOMAIN s.m.orders \cup DOMAIN s.m.stops
    /\ CASE command.kind = "new" ->
               /\ command.id = event.id
               /\ command.type \in {"limit", "marketToLimit"}
               /\ event.price = IF IsMarketToLimit(command) THEN s.p.priced ELSE command.limit
         [] command.kind = "replace" ->
               command.id = event.id /\ command.limit = event.price /\ s.p.moved.id = event.id
         [] command.kind = "stopSweep" ->
               /\ s.p.active.id = event.id
               /\ s.p.active.stop.leaves = event.lots
               /\ s.p.active.stop.limit = event.price
               /\ MayRest(s.p.active.stop.tif)
         [] OTHER -> FALSE
    /\ LET source == RestingSource(s, command)
       IN  /\ event.working = WorkingLots(source.display, event.lots)
           /\ IsShown(source) => DepthHasRoom(s.m, source.side, event.price)

HandleRested(s, command, event) ==
    LET source == RestingSource(s, command)
        order == source @@ [price |-> event.price, leaves |-> event.lots,
                            displayed |-> event.working]
        tracked == [s.m EXCEPT !.orders = (event.id :> order) @@ @]
        m == IF IsShown(order) THEN AddLevel(tracked, order.side, order.price, order.displayed)
             ELSE tracked
    IN  [s EXCEPT !.m = m, !.p.active = Inactive, !.p.moved = Inactive,
                  !.updates = IF IsShown(order)
                              THEN Append(@, LevelUpdate(m, order.side, order.price, 0)) ELSE @]

RefreshedExpected(s, event) ==
    /\ event.id \in DOMAIN s.m.orders
    /\ LET order == s.m.orders[event.id]
       IN  /\ order.price = event.price /\ order.displayed = 0 /\ order.leaves = event.leaves
           /\ order.display.mode = "reserve"
           /\ event.lots = WorkingLots(order.display, order.leaves)
           /\ DepthHasRoom(s.m, order.side, order.price)

\* Mutant of HandleRefreshed: a new slice is displayed but not published.
HandleRefreshedUnpublished(s, event) ==
    LET order == s.m.orders[event.id]
    IN  [s EXCEPT !.m = AddLevel([s.m EXCEPT !.orders[event.id].displayed = event.lots],
                                 order.side, order.price, event.lots)]

HandleRefreshed(s, event) ==
    LET order == s.m.orders[event.id]
        m == AddLevel([s.m EXCEPT !.orders[event.id].displayed = event.lots],
                      order.side, order.price, event.lots)
    IN  [s EXCEPT !.m = m, !.updates = Append(@, LevelUpdate(m, order.side, order.price, 0))]

\* A hidden order trades only when nothing is displayed at its price.
TradeExpected(s, command, event) ==
    /\ Taker(s, command) = event.taker
    /\ IsMarketToLimit(command) => event.price = s.p.priced
    /\ event.id \in DOMAIN s.m.orders
    /\ LET maker == s.m.orders[event.id]
           buys == maker.side = "buy"
       IN  /\ maker.price = event.price
           /\ maker.account = IF buys THEN event.buyer ELSE event.seller
           /\ TakerAccount(s, command) = IF buys THEN event.seller ELSE event.buyer
           /\ command.kind = "stopSweep" => s.p.active.stop.side # maker.side
           /\ event.lots \in 1 .. maker.displayed
           /\ ~IsShown(maker) => s.m.depth[maker.side][maker.price] = NoLevel

\* What a trade or a decrement leaves of the triggered stop.
LeftOfActive(s, command, lots) ==
    IF command.kind # "stopSweep" THEN s.p.active
    ELSE IF s.p.active.stop.leaves = lots THEN Inactive
    ELSE [s.p.active EXCEPT !.stop.leaves = @ - lots]

HandleTrade(s, command, event) ==
    LET maker == s.m.orders[event.id]
        m == DecrementOrder(s.m, event.id, event.lots)
    IN  [s EXCEPT !.m = m, !.p.active = LeftOfActive(s, command, event.lots),
                  !.updates = Append(@, LevelUpdate(m, maker.side, maker.price, event.lots))]

SelfTradeExpected(s, command, event) ==
    /\ Taker(s, command) = event.taker
    /\ event.id \in DOMAIN s.m.orders
    /\ s.m.orders[event.id].account = TakerAccount(s, command)
    /\ event.lots <= s.m.orders[event.id].displayed
    /\ command.kind = "stopSweep" =>
          (event.kind = "decremented") = (s.p.active.stop.stp = "decrementAndCancel")
    /\ IsMarketToLimit(command) => s.m.orders[event.id].price = s.p.priced

HandleDecremented(s, command, event) ==
    LET own == s.m.orders[event.id]
        m == DecrementOrder(s.m, event.id, event.lots)
    IN  [s EXCEPT !.m = m, !.p.active = LeftOfActive(s, command, event.lots),
                  !.updates = IF IsShown(own)
                              THEN Append(@, LevelUpdate(m, own.side, own.price, 0)) ELSE @]

----------------------------------------------------------------------------
(* Cancellations *)

IncomingReasons == {"unfilledRemainder", "selfTradeAggressor", "minimumUnavailable"}

Key(target, reason, id) ==
    IF reason = "expirySwept" THEN <<target.expires, id>> ELSE <<0, id>>

Above(a, b) == a[1] > b[1] \/ (a[1] = b[1] /\ a[2] > b[2])

\* A withdrawal names what its command may withdraw, in order.
WithdrawalExpected(s, command, event, target) ==
    /\ event.reason = command.kind
    /\ ~s.p.completed
    /\ Above(Key(target, event.reason, event.id), s.p.last)
    /\ CASE command.kind = "massCancelled" ->
               command.account = target.account /\ target.side \in command.sides
         [] command.kind = "accountControlled" ->
               command.cancels /\ command.account = target.account
         [] command.kind = "tradingStateControlled" -> command.cancels /\ command.state # "open"
         [] command.kind = "expirySwept" ->
               target.expires # Never /\ target.expires <= command.through
         [] OTHER -> FALSE

CancelExpected(s, command, event) ==
    LET id == event.id
        isStop == id \in DOMAIN s.m.stops
        target == IF isStop THEN s.m.stops[id] @@ [expires |-> s.m.stops[id].tif.expires]
                  ELSE s.m.orders[id]
    IN  IF isStop \/ id \in DOMAIN s.m.orders
        THEN /\ event.lots = target.leaves
             /\ ~isStop => target.displayed # 0
             /\ \/ /\ event.reason = "userRequested" /\ command.kind = "cancel"
                   /\ command.id = id /\ command.account = target.account
                \/ /\ event.reason = "selfTradeResting" /\ ~isStop
                   /\ TakerAccount(s, command) = target.account
                \/ WithdrawalExpected(s, command, event, target)
        ELSE IF command.kind = "stopSweep"
        THEN /\ s.p.active.id = id /\ s.p.active.stop.leaves = event.lots
             /\ event.reason \in IncomingReasons \cup {"triggeredUnavailable"}
        ELSE /\ event.reason \in IncomingReasons
             /\ command.kind \in {"new", "replace"} /\ command.id = id

HandleCancel(s, command, event) ==
    LET id == event.id
        withdrawn(target) ==
            IF event.reason # command.kind THEN s.p
            ELSE [s.p EXCEPT !.count = @ + 1, !.lots = @ + event.lots,
                             !.last = Key(target, event.reason, id)]
    IN  IF id \in DOMAIN s.m.stops
        THEN [s EXCEPT !.m = RemoveTrackedStop(@, id),
                       !.p = withdrawn([expires |-> s.m.stops[id].tif.expires])]
        ELSE IF id \in DOMAIN s.m.orders
        THEN LET order == s.m.orders[id]
                 m == RemoveTrackedOrder(s.m, id)
             IN  [s EXCEPT !.m = m, !.p = withdrawn(order),
                           !.updates = IF IsShown(order)
                                       THEN Append(@, LevelUpdate(m, order.side, order.price, 0))
                                       ELSE @]
        ELSE [s EXCEPT !.p.active = Inactive]

\* The event that ends a withdrawal agrees with what was withdrawn.
CompletedExpected(s, command, event) ==
    /\ event.kind = command.kind
    /\ ~s.p.completed
    /\ s.p.count = event.count /\ s.p.lots = event.lots
    /\ command.kind = "tradingStateControlled" =>
          /\ command.state # s.m.trading
          /\ command.cancels => DOMAIN s.m.orders = {} /\ DOMAIN s.m.stops = {}
    /\ command.kind \in {"accountControlled", "tradingStateControlled"} /\ ~command.cancels =>
          event.count = 0

HandleCompleted(s, command) ==
    LET m == CASE command.kind = "accountControlled" ->
                     [s.m EXCEPT !.blocked = IF command.cancels THEN @ \cup {command.account}
                                             ELSE @ \ {command.account}]
               [] command.kind = "tradingStateControlled" ->
                     [s.m EXCEPT !.trading = command.state]
               [] command.kind = "expirySwept" -> [s.m EXCEPT !.watermark = command.through]
               [] OTHER -> s.m
    IN  [s EXCEPT !.m = m, !.p.completed = TRUE]

----------------------------------------------------------------------------
(* Stops and replacements *)

ArmedExpected(s, command, event) ==
    /\ command.kind = "new" /\ command.type = "stop" /\ command.id = event.id
    /\ event.id \notin DOMAIN s.m.orders \cup DOMAIN s.m.stops
    /\ Cardinality(DOMAIN s.m.orders) + Cardinality(DOMAIN s.m.stops) < MaxOrders

HandleArmed(s, command) ==
    LET stop == [account |-> command.account, side |-> command.side, trigger |-> command.trigger,
                 limit |-> command.limit, leaves |-> command.lots, display |-> command.display,
                 tif |-> command.tif, stp |-> command.stp]
    IN  [s EXCEPT !.m.stops = (command.id :> stop) @@ @, !.m.armed = Append(@, command.id)]

TriggeredExpected(s, command, event) ==
    /\ command.kind = "stopSweep"
    /\ ~s.p.completed /\ s.p.active = Inactive
    /\ IsFirstEligible(s.m, event.id, command.reference.price)

HandleTriggered(s, event) ==
    [s EXCEPT !.m = RemoveTrackedStop(@, event.id), !.p.triggered = @ + 1,
              !.p.active = [id |-> event.id, stop |-> s.m.stops[event.id]]]

StopsSweptExpected(s, command, event) ==
    LET price == command.reference.price
        remaining == Len(EligibleTracked(s.m, "buy", price)) + Len(EligibleTracked(s.m, "sell", price))
    IN  /\ command.kind = "stopSweep"
        /\ ~s.p.completed /\ s.p.active = Inactive
        /\ s.p.triggered = event.count
        /\ event.count = Least(event.count + remaining, command.maximum)

ReplacedExpected(s, command, event) ==
    /\ command.kind = "replace" /\ command.id = event.id /\ command.lots = event.lots
    /\ event.id \in DOMAIN s.m.orders \cup DOMAIN s.m.stops
    /\ LET old == IF event.id \in DOMAIN s.m.stops
                  THEN s.m.stops[event.id] @@ [price |-> s.m.stops[event.id].limit]
                  ELSE s.m.orders[event.id]
           keeps == Retains(old, command.limit,
                            [quantity |-> command.lots, display |-> command.display])
       IN  /\ old.account = command.account
           /\ event.id \in DOMAIN s.m.stops => event.retained = keeps
           /\ event.retained => keeps

HandleReplacedStop(s, command, event) ==
    [s EXCEPT !.m.stops[event.id] = [@ EXCEPT !.limit = command.limit, !.leaves = command.lots,
                                              !.display = command.display],
              !.m.armed = IF event.retained THEN @ ELSE Append(Remove(@, event.id), event.id)]

HandleReplacedOrder(s, command, event) ==
    LET id == event.id
        old == s.m.orders[id]
        shown == Least(old.displayed, command.lots)
        kept == [s.m EXCEPT !.orders[id].leaves = command.lots, !.orders[id].displayed = shown]
        m == IF ~event.retained THEN RemoveTrackedOrder(s.m, id)
             ELSE IF IsShown(old)
             THEN ReduceLevel(kept, old.side, old.price, old.displayed - shown, 0)
             ELSE kept
    IN  [s EXCEPT !.m = m,
                  !.p.moved = IF event.retained THEN @
                              ELSE [id |-> id, side |-> old.side, expires |-> old.expires],
                  !.updates = IF IsShown(old)
                              THEN Append(@, LevelUpdate(m, old.side, old.price, 0)) ELSE @]

AcceptedExpected(command, event) ==
    command.kind = "new" /\ command.id = event.id /\ command.lots = event.lots

\* The price of a market-to-limit order is the best one of the mirror.
PricedExpected(s, command, event) ==
    LET opposite == {s.m.orders[id].price : id \in {id \in DOMAIN s.m.orders :
                                                       s.m.orders[id].side # command.side}}
    IN  /\ IsMarketToLimit(command) /\ command.id = event.id /\ s.p.priced = Market
        /\ opposite # {}
        /\ event.price = IF command.side = "buy" THEN Min(opposite) ELSE Max(opposite)

----------------------------------------------------------------------------
(* Publication *)

Withdrawals == {"massCancelled", "accountControlled", "tradingStateControlled", "expirySwept"}

Expected(s, command, event) ==
    CASE event.kind = "accepted" -> AcceptedExpected(command, event)
      [] event.kind = "priced" -> PricedExpected(s, command, event)
      [] event.kind = "rested" -> RestedExpected(s, command, event)
      [] event.kind = "refreshed" -> RefreshedExpected(s, event)
      [] event.kind = "trade" -> TradeExpected(s, command, event)
      [] event.kind = "prevented" -> SelfTradeExpected(s, command, event)
      [] event.kind = "decremented" -> SelfTradeExpected(s, command, event)
      [] event.kind = "cancelled" -> CancelExpected(s, command, event)
      [] event.kind = "armed" -> ArmedExpected(s, command, event)
      [] event.kind = "triggered" -> TriggeredExpected(s, command, event)
      [] event.kind = "replaced" -> ReplacedExpected(s, command, event)
      [] event.kind = "stopsSwept" -> StopsSweptExpected(s, command, event)
      [] event.kind \in Withdrawals -> CompletedExpected(s, command, event)

Handle(s, command, event) ==
    CASE event.kind = "priced" -> [s EXCEPT !.p.priced = event.price]
      [] event.kind = "rested" -> HandleRested(s, command, event)
      [] event.kind = "refreshed" -> HandleRefreshed(s, event)
      [] event.kind = "trade" -> HandleTrade(s, command, event)
      [] event.kind = "decremented" -> HandleDecremented(s, command, event)
      [] event.kind = "cancelled" -> HandleCancel(s, command, event)
      [] event.kind = "armed" -> HandleArmed(s, command)
      [] event.kind = "triggered" -> HandleTriggered(s, event)
      [] event.kind = "replaced" /\ event.id \in DOMAIN s.m.stops ->
            HandleReplacedStop(s, command, event)
      [] event.kind = "replaced" /\ event.id \notin DOMAIN s.m.stops ->
            HandleReplacedOrder(s, command, event)
      [] event.kind = "stopsSwept" ->
            [s EXCEPT !.m.reference = command.reference, !.p.completed = TRUE]
      [] event.kind \in Withdrawals -> HandleCompleted(s, command)
      [] OTHER -> s

\* What the displayed orders of a level of the book add up to.
PublicLevel(someBook, side, price) ==
    LET line == someBook.queue[side][price]
        shown == {i \in DOMAIN line : IsShown(someBook.orders[line[i]])}
    IN  [lots |-> WorkingAt(someBook, line, shown), count |-> Cardinality(shown)]

\* The end of a report: the events its command requires have come, and the
\* levels it touched are those of the book.
PublicationHolds(s, command, someBook) ==
    /\ s.p.completed = (command.kind \in Withdrawals \cup {"stopSweep"})
    /\ s.p.active = Inactive
    /\ IsMarketToLimit(command) = (s.p.priced # Market)
    /\ Cardinality(DOMAIN s.m.orders) + Len(someBook.stops) = Cardinality(Active(someBook))
    /\ Cardinality(DOMAIN s.m.stops) = Len(someBook.stops)
    /\ \A i \in DOMAIN s.updates :
          LET update == s.updates[i]
          IN  s.m.depth[update.side][update.price] =
                 PublicLevel(someBook, update.side, update.price)

Publishes(command, events) ==
    LET start == [m |-> mirror, p |-> NoProgress, updates |-> <<>>, fits |-> TRUE]
        next(s, event) == IF s.fits /\ Expected(s, command, event) THEN Handle(s, command, event)
                          ELSE [s EXCEPT !.fits = FALSE]
        end == FoldLeft(next, start, events)
        fits == end.fits /\ PublicationHolds(end, command, book')
    IN  IF poisoned
        THEN UNCHANGED <<mirror, poisoned>> /\ batch' = <<>>
        ELSE /\ mirror' = end.m
             /\ poisoned' = ~fits
             /\ batch' = IF fits THEN end.updates ELSE <<>>

=============================================================================
