--------------------------- MODULE BookCheckpoint ---------------------------
(***************************************************************************)
(* Checkpoints of an order book.  A checkpoint holds the whole history of  *)
(* commands and reports and the active orders.  Capture, decoding and      *)
(* restoration each audit it: one pass over the history derives what the   *)
(* book must have come to (its lineage), and every event has to fit.       *)
(*                                                                         *)
(* The lineage is kept here command by command, as if each command were    *)
(* the last of a checkpoint.                                               *)
(***************************************************************************)
EXTENDS OrderBook

VARIABLE lineage

LineageInit ==
    lineage = [sound |-> TRUE, seen |-> {}, blocked |-> {}, trading |-> Genesis, watermark |-> 0,
               reference |-> [number |-> 0, price |-> 0],
               dormant |-> <<>>]    \* stops by their trigger priority

----------------------------------------------------------------------------
(* Rows *)

\* A dormant stop of the book, and one that a command arms.
DormantRow(id) ==
    LET order == book.orders[id]
    IN  [id |-> id, account |-> order.account, side |-> order.side, leaves |-> order.leaves,
         display |-> order.display, trigger |-> order.stop.trigger, limit |-> order.stop.limit,
         tif |-> order.stop.tif, stp |-> order.stp]

ArmedRow(command) ==
    [id |-> command.id, account |-> command.account, side |-> command.side,
     leaves |-> command.lots, display |-> command.display, trigger |-> command.trigger,
     limit |-> command.limit, tif |-> command.tif, stp |-> command.stp]

\* A stop has to be admissible to the definition, whose own trading state is
\* that of the genesis.
StopRowValid(row) ==
    /\ Genesis = "open"
    /\ row.display.mode = "reserve" => row.display.peak < row.leaves
    /\ ~(row.limit = Market /\ row.tif.kind = "postOnly")
    /\ row.display # Full => row.limit # Market /\ MayRest(row.tif)

OrderRowValid(order) ==
    /\ order.working \in 1 .. order.leaves
    /\ order.display.mode \in {"full", "hidden"} => order.working = order.leaves
    /\ order.display.mode = "reserve" => order.working <= order.display.peak

----------------------------------------------------------------------------
(* Events that fit their command *)

\* A control cancels what it cancels and says how much that was.
OperationFits(command, events) ==
    LET cancels == Front(events)
        last == Last(events)
    IN  /\ \A i \in DOMAIN cancels :
              cancels[i].kind = "cancelled" /\ cancels[i].reason = command.kind
        /\ last.kind = command.kind
        /\ last.count = Len(cancels)
        /\ last.lots = FoldLeft(LAMBDA sum, event : sum + event.lots, 0, cancels)

ArmedFits(command, events) ==
    /\ lineage.reference.number # 0
    /\ ~Satisfied(command.side, command.trigger, lineage.reference.price)
    /\ events = <<Event("accepted", command.id, command.lots),
                  Event("armed", command.id, command.lots)>>
    /\ StopRowValid(ArmedRow(command))

NewFits(command, events) ==
    /\ command.id \notin lineage.seen
    /\ command.type = "stop" => ArmedFits(command, events)

PlaceOf(id) == SelectInSeq(lineage.dormant, LAMBDA row : row.id = id)

RowRetains(row, command) ==
    /\ row.limit = command.limit
    /\ command.lots <= row.leaves
    /\ row.display = command.display

\* Only the replacement of a dormant stop leaves a trace.
ReplaceFits(command, events) ==
    PlaceOf(command.id) # 0 =>
        LET row == lineage.dormant[PlaceOf(command.id)]
        IN  /\ row.limit # Market
            /\ command.account = row.account
            /\ events = <<[kind |-> "replaced", id |-> row.id, lots |-> command.lots,
                           retained |-> RowRetains(row, command)]>>

AccountControlFits(command, events) ==
    /\ OperationFits(command, events)
    /\ ~command.cancels => Len(events) = 1

TradingStateFits(command, events) ==
    /\ lineage.trading # command.state
    /\ ~(command.cancels /\ command.state = "open")
    /\ OperationFits(command, events)
    /\ ~command.cancels => Len(events) = 1
    /\ \A i \in 2 .. Len(events) - 1 : events[i - 1].id < events[i].id

ExpiryFits(command, events) ==
    /\ command.through >= lineage.watermark
    /\ OperationFits(command, events)

\* The stops of a side a price activates, by trigger and then by priority.
EligibleRows(side, price) ==
    LET triggers == BestFirst(Opposite(side))
        at(trigger) == SelectSeq(lineage.dormant,
                           LAMBDA row : row.side = side /\ row.trigger = trigger)
    IN  FlattenSeq([i \in Prices |->
            IF Satisfied(side, triggers[i], price) THEN at(triggers[i]) ELSE <<>>])

\* One price never activates stops of both sides.
EligibleAt(price) == EligibleRows("buy", price) \o EligibleRows("sell", price)

OneSided(price) == EligibleRows("buy", price) = <<>> \/ EligibleRows("sell", price) = <<>>

ReferenceFits(next) ==
    LET current == lineage.reference
        backlog == OneSided(current.price) /\ EligibleAt(current.price) # <<>>
    IN  current.number # 0 =>
            \/ next = current /\ backlog
            \/ next.number = current.number + 1 /\ ~backlog

\* A sweep activates the first eligible stops, in their order.
StopSweepFits(command, events) ==
    LET price == command.reference.price
        eligible == EligibleAt(price)
        triggered == SelectSeq(events, LAMBDA event : event.kind = "triggered")
    IN  /\ ReferenceFits(command.reference)
        /\ OneSided(price)
        /\ Len(triggered) = Least(Len(eligible), command.maximum)
        /\ \A i \in DOMAIN triggered : triggered[i].id = eligible[i].id
        /\ Last(events).kind = "stopsSwept" /\ Last(events).count = Len(triggered)

TraceFits(command, events) ==
    CASE command.kind = "new" -> NewFits(command, events)
      [] command.kind = "replace" -> ReplaceFits(command, events)
      [] command.kind = "accountControlled" -> AccountControlFits(command, events)
      [] command.kind = "tradingStateControlled" -> TradingStateFits(command, events)
      [] command.kind = "expirySwept" -> ExpiryFits(command, events)
      [] command.kind = "stopSweep" -> StopSweepFits(command, events)
      [] OTHER -> TRUE

----------------------------------------------------------------------------
(* What the history comes to *)

WithoutRows(rows, ids) == SelectSeq(rows, LAMBDA row : row.id \notin ids)

IdsOf(events, kind) == {events[i].id : i \in {j \in DOMAIN events : events[j].kind = kind}}

\* Mutant of RowsAfterReplace: a stop that loses its priority keeps its place.
RowsAfterReplaceInPlace(rows, command) ==
    LET place == SelectInSeq(rows, LAMBDA row : row.id = command.id)
        new == [rows[place] EXCEPT !.leaves = command.lots, !.display = command.display,
                                   !.limit = command.limit]
    IN  IF place = 0 THEN rows ELSE [rows EXCEPT ![place] = new]

\* A replaced stop keeps its priority or is the last of all.
RowsAfterReplace(rows, command) ==
    LET place == SelectInSeq(rows, LAMBDA row : row.id = command.id)
        new == [rows[place] EXCEPT !.leaves = command.lots, !.display = command.display,
                                   !.limit = command.limit]
    IN  IF place = 0 THEN rows
        ELSE IF RowRetains(rows[place], command) THEN [rows EXCEPT ![place] = new]
        ELSE Append(RemoveAt(rows, place), new)

RowsAfter(rows, command, events) ==
    CASE command.kind = "new" /\ command.type = "stop" -> Append(rows, ArmedRow(command))
      [] command.kind = "replace" -> RowsAfterReplace(rows, command)
      [] OTHER -> WithoutRows(rows, IdsOf(events, "triggered"))

\* Stops leave by a cancellation of their whole leaves, for no other reason
\* than these.
StopReasons ==
    {"userRequested", "massCancelled", "accountControlled", "tradingStateControlled", "expirySwept"}

StopCancelsFit(rows, events) ==
    \A i \in DOMAIN events, j \in DOMAIN rows :
        events[i].kind = "cancelled" /\ events[i].id = rows[j].id =>
            events[i].lots = rows[j].leaves /\ events[i].reason \in StopReasons

Traced(command, events) ==
    LET rows == RowsAfter(lineage.dormant, command, events)
        control == command.kind = "accountControlled"
    IN  [sound |-> lineage.sound /\ TraceFits(command, events) /\ StopCancelsFit(rows, events),
         seen |-> lineage.seen \cup (IF command.kind = "new" THEN {command.id} ELSE {}),
         blocked |-> IF ~control THEN lineage.blocked
                     ELSE IF command.cancels THEN lineage.blocked \cup {command.account}
                     ELSE lineage.blocked \ {command.account},
         trading |-> IF command.kind = "tradingStateControlled" THEN command.state ELSE lineage.trading,
         watermark |-> IF command.kind = "expirySwept" THEN command.through ELSE lineage.watermark,
         reference |-> IF command.kind = "stopSweep" THEN command.reference ELSE lineage.reference,
         dormant |-> WithoutRows(rows, IdsOf(events, "cancelled"))]

----------------------------------------------------------------------------
(* Capture *)

\* The audit of the live book, and of one that was restored.
PriceLevelsValid(b) ==
    \A side \in Sides, price \in Prices :
        LET line == b.queue[side][price]
        IN  /\ IsInjective(line)
            /\ \A i \in DOMAIN line :
                  LET order == b.orders[line[i]]
                  IN  /\ order.side = side /\ order.price = price /\ ~IsDormant(order)
                      /\ OrderRowValid(order)
                      /\ IsHidden(b, line[i]) \/ i <= DisplayedTail(b, line)

StopIndexesValid(b) ==
    /\ Range(b.stops) = {id \in Active(b) : IsDormant(b.orders[id])}
    /\ b.stops # <<>> => reference.number # 0
    /\ ~\E i, j \in DOMAIN b.stops :
           LET buy == b.orders[b.stops[i]]
               sell == b.orders[b.stops[j]]
           IN  /\ buy.side = "buy" /\ Satisfied("buy", buy.stop.trigger, reference.price)
               /\ sell.side = "sell" /\ Satisfied("sell", sell.stop.trigger, reference.price)

WithinCapacity(b) ==
    /\ Cardinality(Active(b)) <= MaxOrders
    /\ Cardinality(ActiveAccounts(b)) <= MaxAccounts
    /\ \A side \in Sides : Cardinality(Levels(b, side)) <= MaxLevels

IsValidBook(b) ==
    /\ WithinCapacity(b)
    /\ PriceLevelsValid(b)
    /\ \A id \in Active(b) : IsDormant(b.orders[id]) \/ id \in Range(b.queue[b.orders[id].side][b.orders[id].price])
    /\ Active(b) \subseteq 1 .. accepted
    /\ \A id \in Active(b) : b.orders[id].expires # Never => b.orders[id].expires > watermark
    /\ StopIndexesValid(b)
    /\ \A id \in Active(b) : b.orders[id].account \notin blocked
    /\ \A bid \in Levels(b, "buy"), ask \in Levels(b, "sell") : bid < ask

\* Resting orders by side and price, first in line first.
OrderRows ==
    LET at(side) == FlattenSeq([price \in Prices |-> book.queue[side][price]])
        ids == at("buy") \o at("sell")
    IN  [i \in DOMAIN ids |-> [id |-> ids[i], order |-> book.orders[ids[i]]]]

StopRows == [i \in DOMAIN book.stops |-> DormantRow(book.stops[i])]

\* The rows belong to the history: no order is made up, kept past a block or
\* its expiry, and the stops are those the history left.
RowsFit(orders, stops) ==
    /\ \A i \in DOMAIN orders :
          LET row == orders[i]
          IN  /\ row.id \in lineage.seen
              /\ OrderRowValid(row.order)
              /\ row.order.expires # Never => row.order.expires > lineage.watermark
              /\ row.order.account \notin lineage.blocked
    /\ stops = lineage.dormant
    /\ \A i \in DOMAIN stops :
          /\ StopRowValid(stops[i])
          /\ stops[i].tif.expires # Never => stops[i].tif.expires > lineage.watermark
          /\ stops[i].account \notin lineage.blocked
    /\ stops # <<>> => lineage.reference.number # 0

\* checkpoint_state succeeds: the history fits, and has come to the controls
\* of the live book.
Captures ==
    /\ IsValidBook(book)
    /\ lineage.sound
    /\ RowsFit(OrderRows, StopRows)
    /\ lineage.seen = 1 .. accepted
    /\ lineage.blocked = blocked /\ lineage.trading = trading
    /\ lineage.watermark = watermark /\ lineage.reference = reference

----------------------------------------------------------------------------
(* Restoration *)

RestoredStop(row) ==
    [account |-> row.account, side |-> row.side, price |-> StopPrice(row.trigger, row.limit),
     leaves |-> row.leaves, working |-> WorkingLots(row.display, row.leaves),
     display |-> row.display, stp |-> row.stp, expires |-> row.tif.expires,
     stop |-> [trigger |-> row.trigger, limit |-> row.limit, tif |-> row.tif]]

RestoredBook(orders, stops) ==
    FoldLeft(LAMBDA b, row : AppendDormantStop(b, row.id, RestoredStop(row)),
             FoldLeft(LAMBDA b, row : AppendOrder(b, row.id, row.order), EmptyBook, orders),
             stops)

----------------------------------------------------------------------------
(* Properties *)

\* "The immutable definition supplies genesis state; sequenced matching
\* controls supply the effective state after genesis": the audit of a
\* checkpoint admits every stop the book admitted in its effective state.
StopsStayAdmissible == \A i \in DOMAIN book.stops : StopRowValid(DormantRow(book.stops[i]))

\* A checkpoint can be captured after every command, passes every audit of
\* its own history, and restores the very book it was taken of.
CheckpointRestores ==
    /\ Captures
    /\ RestoredBook(OrderRows, StopRows) = book

=============================================================================
