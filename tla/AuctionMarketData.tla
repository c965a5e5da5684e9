-------------------------- MODULE AuctionMarketData --------------------------
(***************************************************************************)
(* The market data of a call auction.  Its publisher keeps a mirror of the *)
(* orders, the interest at every limit, the phase and the last indication, *)
(* moves it by the events of every report, and states in its updates what  *)
(* interest each event left.  An event that does not fit the command and   *)
(* the mirror poisons it.                                                  *)
(*                                                                         *)
(* A replica knows the interest, the phase and the last indication.  It    *)
(* takes an update only if the interest it states is the old interest with *)
(* exactly this change, and holds the updates of an uncross, added up,     *)
(* against its completion.  Revisions, trade ids and event sequences are   *)
(* left out: the updates of a batch arrive complete and in their order.    *)
(***************************************************************************)
EXTENDS AuctionBook

VARIABLES
    mirror,     \* [orders, depth, phase, auctions, indicative]
    poisoned,   \* a report did not fit; nothing is published any more
    batch       \* the updates of the last command

----------------------------------------------------------------------------
(* The replica *)

Limits == Prices \cup {Market}

NoInterest == [lots |-> 0, count |-> 0]
NoDepth == [side \in Sides |-> [limit \in Limits |-> NoInterest]]

LevelsShown(depth, side) == {price \in Prices : depth[side][price] # NoInterest}

SetInterest(depth, level) ==
    [depth EXCEPT ![level.side][level.limit] = [lots |-> level.lots, count |-> level.count]]

\* The trades and cancellations of an uncross so far.
NoTrace == [trades |-> 0, cancels |-> 0, executed |-> 0, prices |-> {}]

----------------------------------------------------------------------------
(* Updates, against [depth, phase, auctions, indicative, trace, fits]      *)

\* Mutant of BookTransitionFits: an amended order leaves the count.
AmendmentUncounts(replica, update) ==
    LET previous == replica.depth[update.level.side][update.level.limit]
        sign == IF update.reason = "accepted" THEN 1 ELSE -1
    IN  /\ update.level.lots = previous.lots + sign * update.lots
        /\ update.level.count = previous.count + sign

BookTransitionFits(replica, update) ==
    LET previous == replica.depth[update.level.side][update.level.limit]
        sign == IF update.reason = "accepted" THEN 1 ELSE -1
    IN  /\ update.level.lots = previous.lots + sign * update.lots
        /\ update.level.count = IF update.reason = "amended" THEN previous.count
                                ELSE previous.count + sign

\* A trade takes its lots from a level, and at most one order.
TradeTransitionFits(replica, print, level) ==
    LET previous == replica.depth[level.side][level.limit]
    IN  /\ previous # NoInterest
        /\ level.lots = previous.lots - print
        /\ level.count \in {previous.count, previous.count - 1}

WellShaped(level) == level.lots = 0 <=> level.count = 0

AllowedIn(phase, reason) ==
    CASE reason \in {"accepted", "replaced", "amended"} -> phase = "collecting"
      [] reason = "uncrossRemainder" -> phase = "frozen"
      [] reason \in {"userCancelled", "massCancelled"} -> TRUE

TransitionFits(replica, update) ==
    /\ replica.phase = update.previous
    /\ CASE update.previous = "closed" ->
               update.phase = "collecting" /\ update.auction = replica.auctions + 1
         [] OTHER ->
               update.phase \in {"collecting", "frozen", "closed"} \ {update.previous}
               /\ update.auction = replica.auctions

UpdateFits(replica, update) ==
    CASE update.kind = "book" ->
            /\ WellShaped(update.level) /\ BookTransitionFits(replica, update)
            /\ AllowedIn(replica.phase, update.reason)
      [] update.kind = "trade" ->
            /\ replica.phase = "frozen"
            /\ \A level \in {update.buy, update.sell} :
                  WellShaped(level) /\ TradeTransitionFits(replica, update.lots, level)
            /\ replica.trace.prices \subseteq {update.price}
      [] update.kind = "phaseChanged" -> TransitionFits(replica, update)
      [] update.kind = "indicative" -> replica.phase # "closed"
      [] update.kind = "uncrossCompleted" ->
            /\ replica.phase = "frozen"
            /\ replica.trace = [trades |-> update.trades, cancels |-> update.cancels,
                                executed |-> update.clearing.executable,
                                prices |-> {update.clearing.price}]
      [] OTHER -> TRUE

ApplyFitting(replica, update) ==
    CASE update.kind = "book" ->
            [replica EXCEPT !.depth = SetInterest(@, update.level),
                            !.trace.cancels = @ + (IF update.reason = "uncrossRemainder" THEN 1 ELSE 0)]
      [] update.kind = "trade" ->
            [replica EXCEPT !.depth = SetInterest(SetInterest(@, update.buy), update.sell),
                            !.trace = [@ EXCEPT !.trades = @ + 1, !.executed = @ + update.lots,
                                                !.prices = @ \cup {update.price}]]
      [] update.kind = "phaseChanged" ->
            [replica EXCEPT !.phase = update.phase, !.auctions = update.auction,
                            !.trace = IF update.phase = "collecting" THEN NoTrace ELSE @]
      [] update.kind = "indicative" -> [replica EXCEPT !.indicative = <<update.state>>]
      [] update.kind = "uncrossCompleted" ->
            [replica EXCEPT !.phase = "closed", !.trace = NoTrace]
      [] OTHER -> replica

\* What changed the auction is no longer what was indicated.
ApplyUpdate(replica, update) ==
    IF ~replica.fits \/ ~UpdateFits(replica, update) THEN [replica EXCEPT !.fits = FALSE]
    ELSE LET applied == ApplyFitting(replica, update)
         IN  IF update.kind \in {"none", "indicative"} THEN applied
             ELSE [applied EXCEPT !.indicative = <<>>]

----------------------------------------------------------------------------
(* Complete batches *)

Reasons(updates) ==
    [i \in DOMAIN updates |-> IF updates[i].kind = "book" THEN updates[i].reason ELSE "none"]

\* A replacement is two updates; a mass cancel is removals and its totals.
GrammarFits(updates) ==
    LET reasons == Reasons(updates)
        removals == {i \in DOMAIN updates : reasons[i] = "massCancelled"}
        completions == {i \in DOMAIN updates : updates[i].kind = "massCancelCompleted"}
    IN  /\ "replaced" \in Range(reasons) => reasons = <<"replaced", "accepted">>
        /\ removals \cup completions # {} =>
              /\ completions = {Len(updates)}
              /\ removals = 1 .. Len(updates) - 1
              /\ Last(updates).count = Cardinality(removals)
              /\ Last(updates).lots = FoldFunctionOnSet(+, 0, [i \in removals |-> updates[i].lots], removals)

LevelsOf(update) ==
    CASE update.kind = "book" -> {update.level}
      [] update.kind = "trade" -> {update.buy, update.sell}
      [] OTHER -> {}

\* On no way through the batch are there more levels than a side may have.
LevelCapacityHolds(replica, updates) ==
    LET Set(level, depth) == SetInterest(depth, level)
        SetAll(depth, update) == FoldSet(Set, depth, LevelsOf(update))
        after(n) == FoldLeft(SetAll, replica.depth, SubSeq(updates, 1, n))
    IN  \A n \in DOMAIN updates, side \in Sides :
            Cardinality(LevelsShown(after(n), side)) <= MaxLevels

ApplyCompleteBatch(replica, updates) ==
    IF updates # <<>> /\ GrammarFits(updates) /\ LevelCapacityHolds(replica, updates)
    THEN FoldLeft(ApplyUpdate, replica, updates)
    ELSE [replica EXCEPT !.fits = FALSE]

----------------------------------------------------------------------------
(* The publisher *)

PublisherInit ==
    /\ mirror = [orders |-> <<>>, depth |-> NoDepth, phase |-> "closed", auctions |-> 0,
                 indicative |-> <<>>]
    /\ poisoned = FALSE
    /\ batch = <<>>

\* What a report has done so far: the trades and cancellations of an uncross
\* with the lots its orders had before it, and the removals of a mass cancel.
NoProgress ==
    [trades |-> 0, cancels |-> 0, executed |-> 0, prices |-> {}, sources |-> <<>>,
     count |-> 0, lots |-> 0, last |-> 0, completed |-> FALSE]

----------------------------------------------------------------------------
(* The mirror *)

LevelOf(m, side, limit) ==
    [side |-> side, limit |-> limit, lots |-> m.depth[side][limit].lots,
     count |-> m.depth[side][limit].count]

AddLevel(m, side, limit, lots) ==
    [m EXCEPT !.depth[side][limit] = [lots |-> @.lots + lots, count |-> @.count + 1]]

NewLevelHasRoom(m, side, limit) ==
    \/ limit = Market \/ m.depth[side][limit] # NoInterest
    \/ Cardinality(LevelsShown(m.depth, side)) < MaxLevels

DecrementOrder(m, id, lots) ==
    LET order == m.orders[id]
        filled == lots = order.lots
    IN  [m EXCEPT !.orders = IF filled THEN Without(@, {id}) ELSE [@ EXCEPT ![id].lots = @ - lots],
                  !.depth[order.side][order.limit] =
                      [lots |-> @.lots - lots, count |-> IF filled THEN @.count - 1 ELSE @.count]]

\* The first time an uncross names an order, its lots are what it came with.
RememberSource(s, id) ==
    IF id \in DOMAIN s.p.sources THEN s
    ELSE [s EXCEPT !.p.sources = (id :> s.m.orders[id].lots) @@ @]

----------------------------------------------------------------------------
(* Events.  A stage is [m, p, updates, fits]: the mirror and the progress  *)
(* so far.  Every handler has what it expects and what it does.            *)

BookUpdate(m, reason, lots, order) ==
    [kind |-> "book", reason |-> reason, lots |-> lots, level |-> LevelOf(m, order.side, order.limit)]

Moved(s, m, update) == [s EXCEPT !.m = m, !.updates = Append(@, update)]

AcceptExpected(s, command, order) ==
    /\ \/ command.kind = "submit"
       \/ command.kind = "replace" /\ command.id \notin DOMAIN s.m.orders
    /\ s.m.phase = "collecting"
    /\ \A field \in DOMAIN command.offer : order[field] = command.offer[field]
    /\ order.id \notin DOMAIN s.m.orders
    /\ Cardinality(DOMAIN s.m.orders) < MaxOrders
    /\ NewLevelHasRoom(s.m, order.side, order.limit)

ApplyAccept(s, order) ==
    LET m == [AddLevel(s.m, order.side, order.limit, order.lots)
                 EXCEPT !.orders = (order.id :> order) @@ @]
    IN  Moved(s, m, BookUpdate(m, "accepted", order.lots, order))

\* A withdrawn order is the tracked one, and its command asked for it; those
\* of a mass cancel go in the order of their ids.
CancelExpected(s, command, event) ==
    LET order == event.order
    IN  /\ order.id \in DOMAIN s.m.orders /\ s.m.orders[order.id] = order
        /\ \/ /\ event.reason = "userCancelled" /\ command.kind = "cancel"
              /\ command.id = order.id
           \/ /\ event.reason = "replaced" /\ command.kind = "replace"
              /\ command.id = order.id /\ command.offer.account = order.account
           \/ /\ event.reason = "massCancelled" /\ command.kind = "massCancel"
              /\ command.account = order.account /\ order.side \in command.sides
              /\ s.p.last < order.id /\ ~s.p.completed

ApplyCancel(s, event) ==
    LET order == event.order
        m == DecrementOrder(s.m, order.id, order.lots)
        moved == Moved(s, m, BookUpdate(m, event.reason, order.lots, order))
    IN  IF event.reason = "massCancelled"
        THEN [moved EXCEPT !.p = [@ EXCEPT !.count = @ + 1, !.lots = @ + order.lots, !.last = order.id]]
        ELSE moved

MassCancelCompleteExpected(s, command, event) ==
    /\ command.kind = "massCancel" /\ ~s.p.completed
    /\ event.account = command.account /\ event.sides = command.sides
    /\ event.count = s.p.count /\ event.lots = s.p.lots

CompleteMassCancel(s, event) ==
    [s EXCEPT !.p.completed = TRUE,
              !.updates = Append(@, [kind |-> "massCancelCompleted", count |-> event.count,
                                     lots |-> event.lots])]

AmendExpected(s, command, event) ==
    LET order == event.order
    IN  /\ command.kind = "amend" /\ command.id = order.id /\ command.lots = order.lots
        /\ s.m.phase = "collecting"
        /\ order.id \in DOMAIN s.m.orders
        /\ s.m.orders[order.id] = [order EXCEPT !.lots = event.previous]
        /\ order.lots < event.previous

ApplyAmend(s, event) ==
    LET delta == event.previous - event.order.lots
        m == DecrementOrder(s.m, event.order.id, delta)
    IN  Moved(s, m, BookUpdate(m, "amended", delta, event.order))

TradeExpected(s, command, event) ==
    LET Tradable(id, side) ==
            /\ id \in DOMAIN s.m.orders
            /\ s.m.orders[id].side = side
            /\ event.trade.lots \in 1 .. s.m.orders[id].lots
    IN  /\ command.kind = "uncross" /\ s.m.phase = "frozen"
        /\ event.price \in command.call.band.minimum .. command.call.band.maximum
        /\ s.p.prices \subseteq {event.price}
        /\ Tradable(event.trade.buy, "buy") /\ Tradable(event.trade.sell, "sell")

ApplyTrade(s, event) ==
    LET buy == event.trade.buy
        sell == event.trade.sell
        lots == event.trade.lots
        bought == DecrementOrder(s.m, buy, lots)
        sold == DecrementOrder(bought, sell, lots)
        update == [kind |-> "trade", price |-> event.price, lots |-> lots,
                   buy |-> LevelOf(bought, "buy", s.m.orders[buy].limit),
                   sell |-> LevelOf(sold, "sell", s.m.orders[sell].limit)]
        moved == Moved(RememberSource(RememberSource(s, buy), sell), sold, update)
    IN  [moved EXCEPT !.p = [@ EXCEPT !.trades = @ + 1, !.executed = @ + lots,
                                      !.prices = @ \cup {event.price}]]

\* What is cancelled and what was executed make up what the order came with.
RemainderExpected(s, command, event) ==
    /\ command.kind = "uncross"
    /\ event.id \in DOMAIN s.m.orders /\ s.m.orders[event.id].lots = event.lots
    /\ RememberSource(s, event.id).p.sources[event.id] = event.lots + event.executed

ApplyRemainder(s, event) ==
    LET m == DecrementOrder(s.m, event.id, event.lots)
        moved == Moved(RememberSource(s, event.id), m,
                       BookUpdate(m, "uncrossRemainder", event.lots, s.m.orders[event.id]))
    IN  [moved EXCEPT !.p.cancels = @ + 1]

UncrossCompleteExpected(s, command, event) ==
    /\ command.kind = "uncross" /\ event.policy = command.policy
    /\ s.m.phase = "frozen" /\ ~s.p.completed
    /\ event.trades = s.p.trades /\ event.cancels = s.p.cancels
    /\ event.clearing.executable = s.p.executed
    /\ s.p.prices = {event.clearing.price}

CompleteUncross(s, event) ==
    [Moved(s, [s.m EXCEPT !.phase = "closed"],
           [kind |-> "uncrossCompleted", clearing |-> event.clearing, trades |-> event.trades,
            cancels |-> event.cancels])
        EXCEPT !.p.completed = TRUE]

PhaseExpected(s, command, event) ==
    /\ command.kind = "phaseControl" /\ command.target = event.phase
    /\ TransitionFits(s.m, event)

ApplyPhase(s, event) ==
    Moved(s, [s.m EXCEPT !.phase = event.phase, !.auctions = event.auction], event)

IndicativeExpected(s, command, event) ==
    command.kind = "indicative" /\ event.state.call = command.call /\ s.m.phase # "closed"

ApplyIndicative(s, event) ==
    Moved(s, [s.m EXCEPT !.indicative = <<event.state>>],
          [kind |-> "indicative", state |-> event.state])

ApplyEventPublic(s, command, event) ==
    LET If(expected, stage) == IF expected THEN stage ELSE [s EXCEPT !.fits = FALSE]
    IN  CASE event.kind = "rejected" -> Moved(s, s.m, [kind |-> "none"])
          [] event.kind = "phaseChanged" -> If(PhaseExpected(s, command, event), ApplyPhase(s, event))
          [] event.kind = "accepted" ->
                If(AcceptExpected(s, command, event.order), ApplyAccept(s, event.order))
          [] event.kind = "cancelled" -> If(CancelExpected(s, command, event), ApplyCancel(s, event))
          [] event.kind = "amended" -> If(AmendExpected(s, command, event), ApplyAmend(s, event))
          [] event.kind = "massCancelCompleted" ->
                If(MassCancelCompleteExpected(s, command, event), CompleteMassCancel(s, event))
          [] event.kind = "indicativePublished" ->
                If(IndicativeExpected(s, command, event), ApplyIndicative(s, event))
          [] event.kind = "trade" -> If(TradeExpected(s, command, event), ApplyTrade(s, event))
          [] event.kind = "remainderCancelled" ->
                If(RemainderExpected(s, command, event), ApplyRemainder(s, event))
          [] event.kind = "uncrossCompleted" ->
                If(UncrossCompleteExpected(s, command, event), CompleteUncross(s, event))

\* Nothing after an event that did not fit; what changed the auction is no
\* longer what was indicated.
ApplyPublic(s, command, event) ==
    IF ~s.fits THEN s
    ELSE LET applied == ApplyEventPublic(s, command, event)
         IN  IF event.kind \in {"rejected", "indicativePublished"} THEN applied
             ELSE [applied EXCEPT !.m.indicative = <<>>]

Published(command, events) ==
    LET Apply(s, event) == ApplyPublic(s, command, event)
    IN  FoldLeft(Apply, [m |-> mirror, p |-> NoProgress, updates |-> <<>>, fits |-> TRUE], events)

\* The mirror after a report is compared with the engine it comes from.
Publishes(command, events, engine) ==
    LET rejected == events[1].kind = "rejected"
        published == Published(command, events)
        completes == ~rejected /\ command.kind \in {"uncross", "massCancel"}
    IN  /\ ~poisoned
        /\ mirror' = published.m
        /\ batch' = published.updates
        /\ poisoned' = ~(/\ published.fits
                         /\ published.p.completed = completes
                         /\ published.m = engine)

===============================================================================
