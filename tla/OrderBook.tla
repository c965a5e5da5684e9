------------------------------ MODULE OrderBook ------------------------------
(***************************************************************************)
(* The order book of one instrument: the commands it takes, one action per *)
(* command, each with its preflight (admission, capacity, the bound on its *)
(* report) and its whole execution.                                        *)
(*                                                                         *)
(* A command that the rules or the capacities refuse changes neither book  *)
(* nor controls and is no step here.  `report' holds what the last         *)
(* accepted command reported, and the bound its preflight computed.        *)
(***************************************************************************)
EXTENDS Matching

CONSTANTS
    Accounts,
    Shapes,         \* the [quantity, display] of orders
    Lifetimes,      \* their times in force
    Policies,       \* their self-trade preventions
    StopLimits,     \* the activation limits of stops; Market among them
    ClosedStates,   \* the trading states without entry
    Horizon,        \* timestamps are 1 .. Horizon
    Genesis,        \* the trading state of the instrument's definition
    MaxReferences,  \* stop references are numbered 1 .. MaxReferences
    Batches,        \* the maximum_orders of a stop sweep
    MaxIds,         \* max_accepted_order_ids
    MaxOrders,      \* max_active_orders
    MaxAccounts,    \* max_active_accounts
    MaxLevels,      \* max_price_levels_per_side
    MaxReportEvents \* max_report_events

ASSUME OrderBookAssumption ==
    /\ MaxIds \in Nat /\ MaxOrders \in Nat \ {0} /\ MaxAccounts \in Nat \ {0}
    /\ MaxLevels \in Nat \ {0} /\ Horizon \in Nat /\ MaxReferences \in Nat
    /\ Batches \subseteq 1 .. MaxOrders
    /\ StopLimits \subseteq Prices \cup {Market}
    /\ MaxReportEvents > MaxOrders
    /\ ClosedStates \subseteq {"cancelOnly", "halted", "closed"}
    /\ Genesis \in {"open"} \cup ClosedStates
    /\ \A shape \in Shapes :
          /\ shape.quantity \in Nat \ {0}
          /\ shape.display.mode = "reserve" => shape.display.peak \in 1 .. shape.quantity - 1

VARIABLES
    book,
    accepted,   \* order ids 1 .. accepted were accepted, none of them again
    trading,    \* the trading state
    blocked,    \* accounts under a block
    watermark,  \* expiry sweeps have covered every timestamp up to this one
    reference,  \* the stop reference: its number, 0 for none, and its price
    report

vars == <<book, accepted, trading, blocked, watermark, reference, report>>

TradingStates == {"open"} \cup ClosedStates

Init ==
    /\ book = EmptyBook
    /\ accepted = 0
    /\ trading = Genesis
    /\ blocked = {}
    /\ watermark = 0
    /\ reference = [number |-> 0, price |-> 0]
    /\ report = [events |-> <<>>, maximum |-> 0]

----------------------------------------------------------------------------
(* Preflight *)

\* The report a command is about to make fits one report.
Reports(events, maximum) ==
    /\ maximum <= MaxReportEvents
    /\ report' = [events |-> events, maximum |-> maximum]

Requests ==
    [account : Accounts, side : Sides, limit : Prices \cup {Market},
     shape : Shapes, tif : Lifetimes, stp : Policies]

Incoming(id, request) ==
    [id |-> id, account |-> request.account, side |-> request.side,
     limit |-> request.limit, leaves |-> request.shape.quantity, stp |-> request.stp,
     display |-> request.shape.display]

\* The rules that no order type escapes.
EntryAllowed(request) ==
    /\ trading = "open"
    /\ accepted < MaxIds
    /\ request.account \notin blocked
    /\ request.tif.minimum <= request.shape.quantity
    /\ request.tif.kind = "goodTilTimestamp" => request.tif.expires > watermark
    /\ request.shape.display # Full => request.limit # Market /\ MayRest(request.tif)

\* The rules of an order that matches at once.
ExecutionAllowed(request, in) ==
    /\ in.limit = Market => ~MayRest(request.tif)
    /\ request.tif.kind = "postOnly" => ~BestIsCrossed(book, in)
    /\ request.tif.kind = "fillOrKill" => CanExecuteQuantity(book, in, in.leaves)

HasRoomFor(account) ==
    account \in ActiveAccounts(book) \/ Cardinality(ActiveAccounts(book)) < MaxAccounts

LevelHasRoom(side, price) ==
    price \in Levels(book, side) \/ Cardinality(Levels(book, side)) < MaxLevels

\* A residual that will rest needs a place: one now, or one its own
\* execution frees.
NewCapacity(request, in) ==
    LET ordersFull == Cardinality(Active(book)) >= MaxOrders
        accountsFull == ~HasRoomFor(in.account)
        levelsFull == ~LevelHasRoom(in.side, in.limit)
        final == Cardinality(Active(book)) - ResidualRemovedOrders(book, in) + 1
        finalAccounts == Cardinality(ActiveAccounts(book))
                            - Cardinality(ResidualReleasedAccounts(book, in)) + 1
    IN  (in.limit # Market /\ MayRest(request.tif) /\ LeavesResidual(book, in)) =>
            /\ ordersFull => final <= MaxOrders
            /\ accountsFull => finalAccounts <= MaxAccounts
            /\ ~levelsFull

Terminal(tif) == IF tif.kind = "fillOrKill" THEN 0 ELSE 1

NewWork(request, in) ==
    IF request.tif.kind = "postOnly" THEN 2
    ELSE MaximumMatchingWork(book, in, Terminal(request.tif))

----------------------------------------------------------------------------
(* New orders *)

\* An order whose minimum is out of reach is cancelled whole.
Outcome(in, tif) ==
    IF tif.kind = "immediateOrCancelWithMinimum"
          /\ ~CanExecuteMinimumQuantity(book, in, tif.minimum)
    THEN [book |-> book, in |-> in, events |-> <<CancelEvent(in.id, in.leaves, "minimumUnavailable")>>]
    ELSE ExecuteIncoming(book, in, tif)

Accepted(in) == Event("accepted", in.id, in.leaves)

Priced(in) == [kind |-> "priced", id |-> in.id, lots |-> in.leaves, price |-> in.limit]

\* A limit or a market order.
NewOrder(request) ==
    LET in == Incoming(accepted + 1, request)
        outcome == Outcome(in, request.tif)
    IN  /\ EntryAllowed(request)
        /\ ExecutionAllowed(request, in)
        /\ NewCapacity(request, in)
        /\ Reports(<<Accepted(in)>> \o outcome.events, NewWork(request, in))
        /\ book' = outcome.book
        /\ accepted' = in.id
        /\ UNCHANGED <<trading, blocked, watermark, reference>>

\* A market-to-limit order takes the best opposite price as its limit.
NewMarketToLimit(request) ==
    LET opposite == Opposite(request.side)
        priced == [request EXCEPT !.limit = BestPrice(book, opposite)]
        in == Incoming(accepted + 1, priced)
        outcome == ExecuteIncoming(book, in, request.tif)
    IN  /\ request.limit = Market
        /\ Levels(book, opposite) # {}
        /\ request.tif.kind \in {"goodTilCancelled", "goodTilTimestamp"}
        /\ EntryAllowed(priced)
        /\ NewCapacity(priced, in)
        /\ Reports(<<Accepted(in), Priced(in)>> \o outcome.events,
                   NewWork(priced, in) + 1)
        /\ book' = outcome.book
        /\ accepted' = in.id
        /\ UNCHANGED <<trading, blocked, watermark, reference>>

\* The reference price has reached a stop's trigger.
Satisfied(side, trigger, price) == IF side = "buy" THEN price >= trigger ELSE price <= trigger

\* The price a dormant stop is indexed and risk-checked at.
StopPrice(trigger, limit) == IF limit = Market THEN trigger ELSE limit

DormantStop(in, trigger, tif) ==
    [Resting(in, tif) EXCEPT !.price = StopPrice(trigger, in.limit),
                             !.stop = [trigger |-> trigger, limit |-> in.limit, tif |-> tif]]

NewStop(request, trigger) ==
    LET in == Incoming(accepted + 1, request)
    IN  /\ request.limit \in StopLimits
        /\ EntryAllowed(request)
        /\ reference.number # 0
        /\ ~Satisfied(request.side, trigger, reference.price)
        /\ ~(request.limit = Market /\ request.tif.kind = "postOnly")
        /\ Cardinality(Active(book)) < MaxOrders
        /\ HasRoomFor(request.account)
        /\ Reports(<<Accepted(in), Event("armed", in.id, in.leaves)>>, 2)
        /\ book' = AppendDormantStop(book, in.id, DormantStop(in, trigger, request.tif))
        /\ accepted' = in.id
        /\ UNCHANGED <<trading, blocked, watermark, reference>>

----------------------------------------------------------------------------
(* Replacement *)

ReplaceAllowed(order, shape) ==
    /\ trading = "open"
    /\ order.account \notin blocked
    /\ shape.display.mode = order.display.mode

Retains(order, price, shape) ==
    /\ price = order.price
    /\ shape.quantity <= order.leaves
    /\ shape.display = order.display

Replaced(id, price, shape) ==
    [kind |-> "replaced", id |-> id, lots |-> shape.quantity,
     retained |-> Retains(book.orders[id], price, shape)]

\* Same price and display, no more leaves: the order keeps its place.
ReplaceInPlace(id, price, shape) ==
    LET order == book.orders[id]
    IN  /\ ~IsDormant(order)
        /\ ReplaceAllowed(order, shape)
        /\ Retains(order, price, shape)
        /\ Reports(<<Replaced(id, price, shape)>>, 1)
        /\ book' = [book EXCEPT !.orders[id].leaves = shape.quantity,
                                !.orders[id].working = Least(@, shape.quantity)]
        /\ UNCHANGED <<accepted, trading, blocked, watermark, reference>>

\* Any other replacement is a removal and a new execution under the old id.
ReplaceAndExecute(id, price, shape) ==
    LET order == book.orders[id]
        in == [id |-> id, account |-> order.account, side |-> order.side, limit |-> price,
               leaves |-> shape.quantity, stp |-> order.stp, display |-> shape.display]
        tif == [Tif(IF order.expires = Never THEN "goodTilCancelled" ELSE "goodTilTimestamp")
                    EXCEPT !.expires = order.expires]
        released == order.price # price /\ Len(book.queue[order.side][order.price]) = 1
        levels == Cardinality(Levels(book, order.side)) - (IF released THEN 1 ELSE 0)
        outcome == ExecuteIncoming(RemoveOrder(book, id), in, tif)
    IN  /\ ~IsDormant(order)
        /\ ReplaceAllowed(order, shape)
        /\ ~Retains(order, price, shape)
        /\ price \notin Levels(book, order.side) /\ levels >= MaxLevels =>
              ~LeavesResidual(book, in)
        /\ Reports(<<Replaced(id, price, shape)>> \o outcome.events, MaximumMatchingWork(book, in, 1))
        /\ book' = outcome.book
        /\ UNCHANGED <<accepted, trading, blocked, watermark, reference>>

\* Mutant of ReplaceDormantStop: the trigger follows the new price.
ReplaceDormantStopAndTrigger(id, price, shape) ==
    LET order == book.orders[id]
        new == [order EXCEPT !.price = price, !.leaves = shape.quantity,
                             !.stop.limit = price, !.stop.trigger = price]
    IN  /\ IsDormant(order)
        /\ ReplaceAllowed(order, shape)
        /\ order.stop.limit # Market
        /\ Reports(<<Replaced(id, price, shape)>>, 1)
        /\ book' = [book EXCEPT !.orders[id] = new]
        /\ UNCHANGED <<accepted, trading, blocked, watermark, reference>>

\* A dormant limit stop keeps its trigger; a change that would cost a
\* resting order its place puts it behind the stops armed before.
ReplaceDormantStop(id, price, shape) ==
    LET order == book.orders[id]
        new == [order EXCEPT !.price = price, !.leaves = shape.quantity,
                             !.working = WorkingLots(shape.display, shape.quantity),
                             !.display = shape.display, !.stop.limit = price]
    IN  /\ IsDormant(order)
        /\ ReplaceAllowed(order, shape)
        /\ order.stop.limit # Market
        /\ order.stop.tif.minimum <= shape.quantity
        /\ Reports(<<Replaced(id, price, shape)>>, 1)
        /\ book' = [book EXCEPT !.orders[id] = new,
                        !.stops = IF Retains(order, price, shape) THEN @
                                  ELSE Append(Remove(@, id), id)]
        /\ UNCHANGED <<accepted, trading, blocked, watermark, reference>>

----------------------------------------------------------------------------
(* Cancellation and controls *)

\* Orders are withdrawn in the order of their ids, expired ones in that of
\* their expiries first.
Withdrawn(ids, reason) ==
    LET expiry(id) == IF reason = "expirySwept" THEN book.orders[id].expires ELSE Never
        before(a, b) == \/ expiry(a) < expiry(b)
                        \/ expiry(a) = expiry(b) /\ a < b
        sorted == SetToSortSeq(ids, before)
    IN  [i \in DOMAIN sorted |-> CancelEvent(sorted[i], book.orders[sorted[i]].leaves, reason)]

\* What the mass operations share: the orders go, one event each and one for
\* the operation.
Withdraws(ids, operation) ==
    LET done == [kind |-> operation, id |-> 0, count |-> Cardinality(ids),
                 lots |-> MapThenSumSet(LAMBDA id : book.orders[id].leaves, ids)]
    IN  /\ Reports(Append(Withdrawn(ids, operation), done), Cardinality(ids) + 1)
        /\ book' = RemoveOrders(book, ids)

CancelOrder(id) ==
    /\ Reports(Withdrawn({id}, "userRequested"), 1)
    /\ book' = RemoveOrder(book, id)
    /\ UNCHANGED <<accepted, trading, blocked, watermark, reference>>

MassCancel(account, sides) ==
    /\ Withdraws(OrdersOf(book, account, sides), "massCancelled")
    /\ UNCHANGED <<accepted, trading, blocked, watermark, reference>>

\* Mutant of BlockAndCancel: only what rests in the queues is cancelled.
BlockAndCancelResting(account) ==
    /\ Withdraws({id \in OrdersOf(book, account, Sides) : ~IsDormant(book.orders[id])},
                 "accountControlled")
    /\ blocked' = blocked \cup {account}
    /\ UNCHANGED <<accepted, trading, watermark, reference>>

BlockAndCancel(account) ==
    /\ Withdraws(OrdersOf(book, account, Sides), "accountControlled")
    /\ blocked' = blocked \cup {account}
    /\ UNCHANGED <<accepted, trading, watermark, reference>>

Enable(account) ==
    /\ Withdraws({}, "accountControlled")
    /\ blocked' = blocked \ {account}
    /\ UNCHANGED <<accepted, trading, watermark, reference>>

Transition(state) ==
    /\ state # trading
    /\ Withdraws({}, "tradingStateControlled")
    /\ trading' = state
    /\ UNCHANGED <<accepted, blocked, watermark, reference>>

TransitionAndCancel(state) ==
    /\ state # trading /\ state # "open"
    /\ Withdraws(Active(book), "tradingStateControlled")
    /\ trading' = state
    /\ UNCHANGED <<accepted, blocked, watermark, reference>>

Expiring(through) ==
    {id \in Active(book) : book.orders[id].expires # Never /\ book.orders[id].expires <= through}

ExpirySweep(through) ==
    /\ through >= watermark
    /\ Withdraws(Expiring(through), "expirySwept")
    /\ watermark' = through
    /\ UNCHANGED <<accepted, trading, blocked, reference>>

----------------------------------------------------------------------------
(* Stop sweeps *)

\* The eligible stops of a side, by trigger and then by arming.
EligibleOf(side, price) ==
    LET triggers == SelectSeq(BestFirst(Opposite(side)),
                              LAMBDA trigger : Satisfied(side, trigger, price))
        armedAt(trigger) == SelectSeq(book.stops,
                                LAMBDA id : /\ book.orders[id].side = side
                                            /\ book.orders[id].stop.trigger = trigger)
    IN  FlattenSeq([i \in DOMAIN triggers |-> armedAt(triggers[i])])

Eligible(price) ==
    IF EligibleOf("buy", price) # <<>> THEN EligibleOf("buy", price) ELSE EligibleOf("sell", price)

EligibleStopCount(price) == Len(EligibleOf("buy", price)) + Len(EligibleOf("sell", price))

Backlog == IF reference.number = 0 THEN 0 ELSE EligibleStopCount(reference.price)

\* The same reference goes on with its backlog; only a reference without one
\* has a successor.
ReferenceAllowed(number, price) ==
    \/ reference.number = 0 /\ number = 1
    \/ reference = [number |-> number, price |-> price] /\ Backlog # 0
    \/ reference.number # 0 /\ number = reference.number + 1 /\ Backlog = 0

\* A residual that rests may open a level the side has no room for.
TriggeredResidualHasCapacity(now, in, tif) ==
    \/ in.limit = Market
    \/ ~MayRest(tif)
    \/ in.limit \in Levels(now, in.side)
    \/ Cardinality(Levels(now, in.side)) < MaxLevels
    \/ ~LeavesResidual(now, in)

\* Mutant of TriggerOne: a fill-or-kill stop that cannot fill waits on.
TriggerOneWaits(pass, id) ==
    LET order == pass.book.orders[id]
        now == RemoveOrder(pass.book, id)
        in == [id |-> id, account |-> order.account, side |-> order.side,
               limit |-> order.stop.limit, leaves |-> order.leaves, stp |-> order.stp,
               display |-> order.display]
        triggered == Event("triggered", id, order.leaves)
        outcome == ExecuteIncoming(now, in, order.stop.tif)
    IN  IF order.stop.tif.kind = "fillOrKill" /\ ~CanExecuteQuantity(now, in, in.leaves)
        THEN [book |-> AppendDormantStop(now, id, order), events |-> Append(pass.events, triggered)]
        ELSE [book |-> outcome.book,
              events |-> Append(pass.events, triggered) \o outcome.events]

\* One stop leaves the index and is executed or cancelled.
TriggerOne(pass, id) ==
    LET order == pass.book.orders[id]
        tif == order.stop.tif
        now == RemoveOrder(pass.book, id)
        in == [id |-> id, account |-> order.account, side |-> order.side,
               limit |-> order.stop.limit, leaves |-> order.leaves, stp |-> order.stp,
               display |-> order.display]
        refused ==
            \/ tif.kind = "fillOrKill" /\ ~CanExecuteQuantity(now, in, in.leaves)
            \/ tif.kind = "immediateOrCancelWithMinimum"
                  /\ ~CanExecuteMinimumQuantity(now, in, tif.minimum)
            \/ tif.kind = "postOnly" /\ BestIsCrossed(now, in)
            \/ ~TriggeredResidualHasCapacity(now, in, tif)
        outcome == IF refused
                   THEN [book |-> now, events |-> <<CancelEvent(id, order.leaves, "triggeredUnavailable")>>]
                   ELSE ExecuteIncoming(now, in, tif)
    IN  [book |-> outcome.book,
         events |-> pass.events \o <<Event("triggered", id, order.leaves)>> \o outcome.events]

TriggerAll(ids) ==
    LET after[i \in 0 .. Len(ids)] ==
            IF i = 0 THEN [book |-> book, events |-> <<>>] ELSE TriggerOne(after[i - 1], ids[i])
    IN  after[Len(ids)]

\* The preflight looks at every selected stop in the book as it is now.
StopTriggerWork(ids) ==
    LET work(id) ==
            LET order == book.orders[id]
                in == [id |-> id, account |-> order.account, side |-> order.side,
                       limit |-> order.stop.limit, leaves |-> order.leaves,
                       stp |-> order.stp, display |-> order.display]
                candidate == MaximumMatchingWork(book, in, Terminal(order.stop.tif))
            IN  IF order.stop.tif.kind = "postOnly" \/ candidate < 2 THEN 2 ELSE candidate
    IN  1 + MapThenSumSet(LAMBDA i : work(ids[i]), DOMAIN ids)

Selected(price, maximum) ==
    SubSeq(Eligible(price), 1, Least(maximum, EligibleStopCount(price)))

StopTriggerSweep(number, price, maximum) ==
    LET selected == Selected(price, maximum)
        outcome == TriggerAll(selected)
    IN  /\ ReferenceAllowed(number, price)
        /\ trading = "open" \/ EligibleStopCount(price) = 0
        /\ Reports(Append(outcome.events, [kind |-> "stopsSwept", id |-> 0, lots |-> 0,
                                           count |-> Len(selected)]),
                   StopTriggerWork(selected))
        /\ book' = outcome.book
        /\ reference' = [number |-> number, price |-> price]
        /\ UNCHANGED <<accepted, trading, blocked, watermark>>

----------------------------------------------------------------------------

NewOrders == \E request \in Requests : NewOrder(request) \/ NewMarketToLimit(request)

NewStops == \E request \in Requests, trigger \in Prices : NewStop(request, trigger)

Replace ==
    \E id \in Active(book), price \in Prices, shape \in Shapes :
        \/ ReplaceInPlace(id, price, shape)
        \/ ReplaceAndExecute(id, price, shape)
        \/ ReplaceDormantStop(id, price, shape)

Cancel ==
    \/ \E id \in Active(book) : CancelOrder(id)
    \/ \E account \in Accounts, sides \in {Sides, {"buy"}, {"sell"}} : MassCancel(account, sides)

Control ==
    \/ \E account \in Accounts : BlockAndCancel(account) \/ Enable(account)
    \/ \E state \in TradingStates : Transition(state) \/ TransitionAndCancel(state)
    \/ \E through \in 1 .. Horizon : ExpirySweep(through)

Sweep ==
    \E number \in 1 .. MaxReferences, price \in Prices, maximum \in Batches :
        StopTriggerSweep(number, price, maximum)

Next == NewOrders \/ NewStops \/ Replace \/ Cancel \/ Control \/ Sweep

Spec == Init /\ [][Next]_vars

----------------------------------------------------------------------------
(* Properties *)

\* Every index agrees with the orders: a resting order is in the queue of
\* its side and price and in no other place, a dormant one is a stop, and the
\* shown slice fits the display (OrderBook::validate).
TypeOK ==
    /\ accepted \in 0 .. MaxIds /\ trading \in TradingStates
    /\ blocked \subseteq Accounts /\ watermark \in 0 .. Horizon
    /\ reference.number \in 0 .. MaxReferences
    /\ Active(book) \subseteq 1 .. accepted
    /\ \A id \in Active(book) :
          LET order == book.orders[id]
          IN  /\ order.leaves > 0
              /\ order.working \in 1 .. WorkingLots(order.display, order.leaves)
              /\ order.display.mode # "reserve" => order.working = order.leaves
              /\ IsDormant(order) => reference.number # 0
    /\ \A side \in Sides, price \in Prices :
          /\ IsInjective(book.queue[side][price])
          /\ Range(book.queue[side][price]) =
                {id \in Active(book) : /\ ~IsDormant(book.orders[id])
                                      /\ book.orders[id].side = side
                                      /\ book.orders[id].price = price}
    /\ IsInjective(book.stops)
    /\ Range(book.stops) = {id \in Active(book) : IsDormant(book.orders[id])}

\* Whatever rests, the best bid stays below the best ask, also when stops
\* rest in a sweep or a replacement moves an order to the other side's prices.
Uncrossed ==
    \A bid \in Levels(book, "buy"), ask \in Levels(book, "sell") : bid < ask

\* No command makes the book exceed a configured maximum: what the preflight
\* admits, the assertions of append_order and append_dormant_stop accept.
CapacityHolds ==
    /\ Cardinality(Active(book)) <= MaxOrders
    /\ Cardinality(ActiveAccounts(book)) <= MaxAccounts
    /\ \A side \in Sides : Cardinality(Levels(book, side)) <= MaxLevels

\* A report fits the bound its preflight computed from the book before.
ReportFits == Len(report'.events) <= report'.maximum

\* No report outgrows the bound its preflight reserved in the event arena,
\* however many slices the resting orders still show, and whichever orders
\* of its own account the incoming one meets, under each prevention.
ReportBounded == [][ReportFits]_vars

\* No order outlives what was to end it: a block of its account, or a sweep
\* past its expiry; a dormant stop is no exception.
NoStrandedOrder ==
    \A id \in Active(book) :
        /\ book.orders[id].account \notin blocked
        /\ book.orders[id].expires # Never => book.orders[id].expires > watermark

\* What every command leaves: a book that is not crossed, keeps its maximum
\* sizes, and holds no order that a block or an expiry should have ended.
BookStands == Uncrossed /\ CapacityHolds /\ NoStrandedOrder

\* The orders that may come next.  A market order crosses what one at the
\* worst price of the other side crosses.
Probes(quantities) ==
    [id : {0}, account : Accounts, side : Sides, limit : Prices, leaves : quantities,
     display : {Full},
     stp : {"cancelAggressor", "cancelResting", "cancelBoth", "decrementAndCancel"}]

LotsOf(events, kinds) ==
    MapThenSumSet(LAMBDA i : events[i].lots, {i \in DOMAIN events : events[i].kind \in kinds})

\* The quantities a probe asks for.
ProbeLots == 1 .. Max({shape.quantity : shape \in Shapes}) + 1

\* Fill-or-kill and minimum-quantity orders are admitted exactly when
\* executing them, as the pass does, trades the quantity with other accounts,
\* through all reserve refills and with any self-trade prevention (A45).
QuantityPreviewsExact(in, pass) ==
    LET traded == LotsOf(pass.events, {"trade"})
    IN  /\ CanExecuteQuantity(book, in, in.leaves) <=> traded = in.leaves
        /\ \A required \in 1 .. in.leaves :
              CanExecuteMinimumQuantity(book, in, required) <=> traded >= required

\* The residual preview tells exactly whether an order leaves something to
\* rest, how many orders its execution removes and, for a new account, which
\* accounts it leaves without an active order (A47).
ResidualPreviewExact(in, pass) ==
    /\ LeavesResidual(book, in) <=> pass.in.leaves > 0
    /\ pass.in.leaves > 0 =>
          /\ Active(pass.book) = Active(book) \ Range(FlattenSeq(CrossedLines(book, in)))
          /\ Cardinality(Active(book)) - Cardinality(Active(pass.book)) =
                ResidualRemovedOrders(book, in)
          /\ in.account \notin ActiveAccounts(book) =>
                ResidualReleasedAccounts(book, in) =
                    ActiveAccounts(book) \ ActiveAccounts(pass.book)

\* Both previews say what executing would do.
PreviewsExact ==
    \A in \in Probes(ProbeLots) :
        LET pass == MatchPasses(book, in)
        IN  QuantityPreviewsExact(in, pass) /\ ResidualPreviewExact(in, pass)

TotalLeaves(someBook) ==
    MapThenSumSet(LAMBDA id : someBook.orders[id].leaves, Active(someBook))

\* What a report accounts for is what happened to the book: every lot that
\* enters or leaves it is accepted, replaced, traded, decremented or
\* cancelled in an event, once.
EventsBalance(events) ==
    TotalLeaves(book') =
        TotalLeaves(book) + LotsOf(events, {"accepted", "replaced"})
            - 2 * LotsOf(events, {"trade", "decremented"}) - LotsOf(events, {"cancelled"})
            - MapThenSumSet(LAMBDA i : book.orders[events[i].id].leaves,
                            {i \in DOMAIN events : events[i].kind = "replaced"})

\* Where in a report an order last entered its queue; 0 if it did not.
LastEntry(events, id) ==
    Max({0} \cup {i \in DOMAIN events : events[i].kind \in {"rested", "refreshed"}
                                         /\ events[i].id = id})

\* In the queue a command finds as `before', order a may stand ahead of order
\* b after these of its events: it is displayed and b hidden, or of the same
\* class and there before.
MayPrecede(a, b, someBook, events, before) ==
    LET hidden == [id \in {a, b} |-> IsHidden(someBook, id)]
    IN  \/ ~hidden[a] /\ hidden[b]
        \/ hidden[a] = hidden[b] /\ LastEntry(events, a) < LastEntry(events, b)
        \/ /\ hidden[a] = hidden[b]
           /\ LastEntry(events, a) = 0 /\ LastEntry(events, b) = 0
           /\ \E i, j \in DOMAIN before : i < j /\ before[i] = a /\ before[j] = b

\* An order keeps its place through every command but its own loss of
\* priority, and one that rests or shows a new slice gets behind all of its
\* class.
PlacesKept(events) ==
    \A side \in Sides, price \in Prices :
        LET after == book'.queue[side][price]
        IN  \A i, j \in DOMAIN after :
               i < j => MayPrecede(after[i], after[j], book', events, book.queue[side][price])

\* What an incoming order meets: a counterparty, or an order of its own
\* account that a prevention decrements or puts in its way.
Meetings == {"trade", "decremented", "prevented"}

\* The orders of a side that some events of a command have left there.
Standing(side, events) ==
    {id \in Active(book) :
        /\ book.orders[id].side = side /\ ~IsDormant(book.orders[id])
        /\ \A i \in DOMAIN events : events[i].kind = "cancelled" => events[i].id # id
        /\ LotsOf(SelectSeq(events, LAMBDA event : event.id = id), {"trade", "decremented"})
              < book.orders[id].leaves}

\* Each order the incoming one meets is the first of its side at that moment,
\* after the trades, refreshes and preventions before it: none that still
\* stands has a better price, none at its price may precede it.  An account
\* never trades with itself.
TurnsKept(events) ==
    \A i \in {i \in DOMAIN events : events[i].kind \in Meetings} :
        LET first == events[i].id
            order == book.orders[first]
            earlier == SubSeq(events, 1, i - 1)
            line == book.queue[order.side][order.price]
        IN  /\ events[i].kind = "trade" =>
                  events[i].buyer # events[i].seller /\ events[i].price = order.price
            /\ first \in Standing(order.side, earlier)
            /\ \A other \in Standing(order.side, earlier) \ {first} :
                  LET price == book.orders[other].price
                  IN  IF price = order.price
                      THEN MayPrecede(first, other, book, earlier, line)
                      ELSE (price > order.price) <=> (order.side = "sell")

\* Executing a command makes up no lots and loses none; an incoming order
\* meets the resting ones in their order, best price first, displayed before
\* hidden and then by arrival, under every self-trade prevention; and whoever
\* is left has the place this order gives it.
ExecutionIsFair ==
    [][LET events == report'.events
       IN  EventsBalance(events) /\ TurnsKept(events) /\ PlacesKept(events)]_vars

Reached ==
    {id \in Range(book.stops) :
        LET order == book.orders[id]
        IN  Satisfied(order.side, order.stop.trigger, reference.price)}

\* A stop becomes eligible only by a new reference, and one that is eligible
\* remains so until it is triggered or cancelled: the market never withdraws
\* a trigger it has reached.  And what a sweep reports fits its bound, though
\* each stop but the first meets a book the preflight has not seen.
StopsFollowReference ==
    [][/\ Reached \cap Range(book'.stops) \subseteq Reached'
       /\ Reached' \subseteq Reached \/ reference'.number # reference.number
       /\ ReportFits]_vars

\* The authority that supplies references repeats the current one while
\* eligible stops remain (docs/assumptions.md, A102).
Repeat == \E maximum \in Batches : StopTriggerSweep(reference.number, reference.price, maximum)

\* When that is possible: the market is open and some batch fits one report.
CanRepeat ==
    /\ trading = "open" /\ Backlog # 0
    /\ \E maximum \in Batches :
          StopTriggerWork(Selected(reference.price, maximum)) <= MaxReportEvents

\* Weak fairness of Repeat, with ENABLED <<Repeat>>_vars spelled out.
FairSpec == Spec /\ ([]<>~CanRepeat \/ []<><<Repeat>>_vars)

\* While the market is open, repeating the reference drains its backlog,
\* whatever else is submitted in between.
BacklogDrains == Backlog # 0 ~> (Backlog = 0 \/ trading # "open")

----------------------------------------------------------------------------
(* Shapes, lifetimes and the part of the system that the instances check.  *)

\* Displayed, hidden, and reserve orders with equal and with unequal slices.
MatchingShapes == {[quantity |-> 1, display |-> Full],
                   [quantity |-> 2, display |-> Hidden],
                   [quantity |-> 3, display |-> Reserve(1)],
                   [quantity |-> 3, display |-> Reserve(2)]}

OneLot == {[quantity |-> 1, display |-> Full]}

\* Orders that rest, that must fill at once, and that need a minimum.
MatchingLifetimes == {Tif("goodTilCancelled"), Tif("postOnly"), Tif("fillOrKill"),
                      [Tif("immediateOrCancelWithMinimum") EXCEPT !.minimum = 2]}

\* An order that rests, one that expires, and one that must fill at once.
BookLifetimes == {Tif("goodTilCancelled"), Tif("fillOrKill"),
                  [Tif("goodTilTimestamp") EXCEPT !.expires = 1]}

\* A market that stays open and arms no stop: matching alone.
MatchingSpec == Init /\ [][NewOrders \/ Replace \/ Cancel]_vars

\* No action reads the report of the command before it.
BookView == <<book, accepted, trading, blocked, watermark, reference>>

\* The self-trade prevention of a resting order is read only by its
\* replacement: the view of matching alone keeps that of the newest order,
\* and only while the book has room for another.
MatchingView ==
    LET kept(id) == id = accepted /\ Cardinality(Active(book)) < MaxOrders
    IN  <<accepted, book.queue,
          [id \in Active(book) |->
              [book.orders[id] EXCEPT !.stp = IF kept(id) THEN @ ELSE "forgotten"]]>>

Symmetry == Permutations(Accounts)

============================================================================
