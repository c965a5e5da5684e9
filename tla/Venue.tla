-------------------------------- MODULE Venue --------------------------------
(***************************************************************************)
(* The venue: every command is authorized by risk, executed by the order   *)
(* book, applied to the exposures and published.  Neither risk nor the     *)
(* publisher reads the book; both follow its reports.                      *)
(***************************************************************************)
EXTENDS Risk, Publisher, BookCheckpoint, TLC

venueVars == <<vars, risk, mirror, poisoned, batch, lineage>>

VenueInit == Init /\ RiskInit /\ PublisherInit /\ LineageInit

NewCommand(type, request, trigger) ==
    [kind |-> "new", type |-> type, id |-> accepted + 1, account |-> request.account,
     side |-> request.side, limit |-> request.limit, lots |-> request.shape.quantity,
     display |-> request.shape.display, tif |-> request.tif, stp |-> request.stp,
     trigger |-> trigger]

ReplaceCommand(id, price, shape) ==
    [kind |-> "replace", id |-> id, account |-> book.orders[id].account, limit |-> price,
     lots |-> shape.quantity, display |-> shape.display]

CancelCommand(id) == [kind |-> "cancel", id |-> id, account |-> book.orders[id].account]

MassCancelCommand(account, sides) ==
    [kind |-> "massCancelled", id |-> 0, account |-> account, sides |-> sides]

AccountCommand(account, cancels) ==
    [kind |-> "accountControlled", id |-> 0, account |-> account, cancels |-> cancels]

StateCommand(state, cancels) ==
    [kind |-> "tradingStateControlled", id |-> 0, state |-> state, cancels |-> cancels]

ExpiryCommand(through) == [kind |-> "expirySwept", id |-> 0, through |-> through]

SweepCommand(number, price, maximum) ==
    [kind |-> "stopSweep", id |-> 0, reference |-> [number |-> number, price |-> price],
     maximum |-> maximum]

ShapeOf(command) == [quantity |-> command.lots, display |-> command.display]

RequestOf(command) ==
    [account |-> command.account, side |-> command.side, limit |-> command.limit,
     shape |-> ShapeOf(command), tif |-> command.tif, stp |-> command.stp]

\* The commands that clients and operators may send next.
Offered ==
    LET markets == {request \in Requests : request.limit = Market}
    IN  {NewCommand("limit", request, 0) : request \in Requests \ markets}
        \cup {NewCommand(type, request, 0) : type \in {"market", "marketToLimit"}, request \in markets}
        \cup {NewCommand("stop", request, trigger) : request \in Requests, trigger \in Prices}
        \cup {ReplaceCommand(id, price, shape) : id \in Active(book), price \in Prices, shape \in Shapes}
        \cup {CancelCommand(id) : id \in Active(book)}
        \cup {MassCancelCommand(account, sides) : account \in Accounts, sides \in {Sides, {"buy"}, {"sell"}}}
        \cup {AccountCommand(account, cancels) : account \in Accounts, cancels \in BOOLEAN}
        \cup {StateCommand(state, cancels) : state \in TradingStates, cancels \in BOOLEAN}
        \cup {ExpiryCommand(through) : through \in 1 .. Horizon}
        \cup {SweepCommand(number, price, maximum) :
                 number \in 1 .. MaxReferences, price \in Prices, maximum \in Batches}

\* The order book's part.
ExecutesNew(command) ==
    /\ command.kind = "new"
    /\ \/ command.type \in {"limit", "market"} /\ NewOrder(RequestOf(command))
       \/ command.type = "marketToLimit" /\ NewMarketToLimit(RequestOf(command))
       \/ command.type = "stop" /\ NewStop(RequestOf(command), command.trigger)

ExecutesReplace(command) ==
    /\ command.kind = "replace"
    /\ \/ ReplaceInPlace(command.id, command.limit, ShapeOf(command))
       \/ ReplaceAndExecute(command.id, command.limit, ShapeOf(command))
       \/ ReplaceDormantStop(command.id, command.limit, ShapeOf(command))

ExecutesCancel(command) ==
    \/ command.kind = "cancel" /\ CancelOrder(command.id)
    \/ command.kind = "massCancelled" /\ MassCancel(command.account, command.sides)

ExecutesControl(command) ==
    \/ command.kind = "accountControlled" /\ command.cancels /\ BlockAndCancel(command.account)
    \/ command.kind = "accountControlled" /\ ~command.cancels /\ Enable(command.account)
    \/ command.kind = "tradingStateControlled" /\ ~command.cancels /\ Transition(command.state)
    \/ command.kind = "tradingStateControlled" /\ command.cancels /\ TransitionAndCancel(command.state)
    \/ command.kind = "expirySwept" /\ ExpirySweep(command.through)

ExecutesSweep(command) ==
    /\ command.kind = "stopSweep"
    /\ StopTriggerSweep(command.reference.number, command.reference.price, command.maximum)

Executes(command) ==
    \/ ExecutesNew(command)
    \/ ExecutesReplace(command)
    \/ ExecutesCancel(command)
    \/ ExecutesControl(command)
    \/ ExecutesSweep(command)

\* Around the execution of a command: authorization before, and after it the
\* exposures, the publication and the history.
Submits(command) ==
    /\ Executes(command)
    /\ Authorized(command)
    /\ risk' = Applied(command, report'.events)
    /\ Publishes(command, report'.events)
    /\ lineage' = Traced(command, report'.events)

VenueNext == \E command \in Offered : Submits(command)

VenueSpec == VenueInit /\ [][VenueNext]_venueVars

----------------------------------------------------------------------------
(* Properties *)

TrackedOrder(order) ==
    [account |-> order.account, side |-> order.side, price |-> order.price,
     leaves |-> order.leaves, displayed |-> order.working, display |-> order.display,
     expires |-> order.expires]

TrackedStop(order) ==
    [account |-> order.account, side |-> order.side, trigger |-> order.stop.trigger,
     limit |-> order.stop.limit, leaves |-> order.leaves, display |-> order.display,
     tif |-> order.stop.tif, stp |-> order.stp]

\* No report of the order book poisons the publisher, and its mirror, kept
\* from the reports alone, is the book: every order, every stop with its
\* priority, the displayed depth and the controls.
MirrorMatchesBook ==
    /\ ~poisoned
    /\ mirror.orders = [id \in Active(book) \ Range(book.stops) |-> TrackedOrder(book.orders[id])]
    /\ mirror.stops = [id \in Range(book.stops) |-> TrackedStop(book.orders[id])]
    /\ mirror.armed = book.stops
    /\ mirror.depth = [side \in Sides |-> [price \in Prices |-> PublicLevel(book, side, price)]]
    /\ mirror.trading = trading /\ mirror.blocked = blocked
    /\ mirror.watermark = watermark /\ mirror.reference = reference

\* Everything that follows the book from outside is where it would be had it
\* been derived from the book: reservations and positions, and the mirror; and
\* the book itself is what a checkpoint of it restores.
ShadowsMatchBook == RiskMatchesBook /\ MirrorMatchesBook /\ CheckpointRestores

\* A replica that shows the depth before a command accepts each of its
\* updates on its own, never crosses, and then shows the depth after it.
UpdatesReproduceDepth ==
    [][ApplyUpdates(mirror.depth, batch') = [depth |-> mirror'.depth, bad |-> FALSE]]_venueVars

----------------------------------------------------------------------------
(* Profiles and orders of the instances: an account that may only reduce. *)

VenueShapes == {[quantity |-> 1, display |-> Full], [quantity |-> 2, display |-> Reserve(1)]}

VenueLifetimes == {Tif("immediateOrCancel"), [Tif("goodTilTimestamp") EXCEPT !.expires = 1]}

\* Every limit is reached by the orders above.
SmallLimits == [orderLots |-> 2, orderNotional |-> 2, orders |-> 2, openLots |-> 3,
                openNotional |-> 3, long |-> 2, short |-> 2]

CONSTANTS a1, a2

TwoProfiles ==
    a1 :> [state |-> "active", initial |-> 0, limits |-> SmallLimits] @@
    a2 :> [state |-> "reduceOnly", initial |-> 1, limits |-> SmallLimits]

\* No action reads the report or the updates of the command before it.
VenueView == <<book, accepted, trading, blocked, watermark, reference, risk, mirror, poisoned, lineage>>

=============================================================================
