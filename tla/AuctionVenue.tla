----------------------------- MODULE AuctionVenue -----------------------------
(***************************************************************************)
(* A call auction as it runs: every command is authorized by risk,         *)
(* executed by the engine, applied to the exposures and published; and it  *)
(* becomes part of the history checkpoints are taken of.                   *)
(***************************************************************************)
EXTENDS AuctionRisk, AuctionMarketData, AuctionCheckpoint

auctionVars == <<vars, risk, mirror, poisoned, batch, lineage>>

VenueInit == Init /\ RiskInit /\ PublisherInit /\ LineageInit

\* The engine's own aggregates, as validate_against reads them.
DepthOf(orders) ==
    [side \in Sides |-> [limit \in Limits |->
        LET ids == {id \in DOMAIN orders : orders[id].side = side /\ orders[id].limit = limit}
        IN  [lots |-> FoldFunctionOnSet(+, 0, [id \in ids |-> orders[id].lots], ids),
             count |-> Cardinality(ids)]]]

EngineState ==
    [orders |-> book.orders, depth |-> DepthOf(book.orders), phase |-> phase,
     auctions |-> auctions, indicative |-> indicative]

\* A command for the auction as it stands.
For(auction, command) == [routed |-> TRUE, current |-> TRUE, auction |-> auction] @@ command

ForCurrent(command) == For(ActiveAuction([phase |-> phase, auctions |-> auctions]), command)

Publish(command) ==
    Publishes(command, report', EngineState') /\ Traces(command, report')

\* What the audit says of refused commands is part of EngineRestores.
VenueReject == ManagedReject /\ Publish(ForCurrent([kind |-> "submit"]))

VenueSubmit ==
    \E offer \in Offers :
        /\ ManagedSubmit(offer)
        /\ Publish(ForCurrent([kind |-> "submit", new |-> book.accepted + 1, offer |-> offer]))

VenueReplace ==
    \E id \in Active(book), offer \in Offers :
        /\ ManagedReplace(id, offer)
        /\ Publish(ForCurrent([kind |-> "replace", id |-> id, account |-> book.orders[id].account,
                               new |-> book.accepted + 1, offer |-> offer]))

VenueAmend ==
    \E id \in Active(book), lots \in {offer.lots : offer \in Offers} :
        /\ ManagedAmend(id, lots)
        /\ Publish(ForCurrent([kind |-> "amend", id |-> id, account |-> book.orders[id].account,
                               lots |-> lots]))

VenueCancel ==
    \E id \in Active(book) :
        /\ ManagedCancel(id)
        /\ Publish(ForCurrent([kind |-> "cancel", id |-> id, account |-> book.orders[id].account]))

VenueMassCancel ==
    \E account \in Accounts, sides \in {Sides, {"buy"}, {"sell"}} :
        /\ ManagedMassCancel(account, sides)
        /\ Publish(ForCurrent([kind |-> "massCancel", account |-> account, sides |-> sides]))

VenuePhaseControl ==
    \E target \in {"collecting", "frozen", "closed"} :
        /\ ManagedPhaseControl(target)
        /\ Publish(For(auctions', [kind |-> "phaseControl", target |-> target]))

VenueIndicate ==
    \E call \in Calls :
        /\ ManagedIndicate(call)
        /\ Publish(ForCurrent([kind |-> "indicative", call |-> call]))

VenueUncross ==
    \E call \in Calls, policy \in UncrossPolicies :
        /\ ManagedUncross(call, policy)
        /\ Publish(ForCurrent([kind |-> "uncross", call |-> call, policy |-> policy]))

VenueNext ==
    \/ VenueReject \/ VenueSubmit \/ VenueReplace \/ VenueAmend
    \/ VenueCancel \/ VenueMassCancel \/ VenuePhaseControl \/ VenueIndicate \/ VenueUncross

VenueSpec == VenueInit /\ [][VenueNext]_auctionVars

----------------------------------------------------------------------------
(* Properties *)

\* No report of the engine poisons the publisher, and the mirror it keeps
\* from the reports alone is the engine: every order with its priority, the
\* interest at every limit, the phase and the indication.
MirrorMatchesEngine == ~poisoned /\ mirror = EngineState

\* Everything that follows the engine from outside is where it would be had
\* it been derived from the engine: exposures and positions, the mirror, and
\* what the audit of a checkpoint makes of the history.
ShadowsMatchEngine == ExposureFollowsBook /\ MirrorMatchesEngine /\ EngineRestores

\* What a replica shows.
Shown(m) ==
    [depth |-> m.depth, phase |-> m.phase, auctions |-> m.auctions,
     indicative |-> m.indicative, trace |-> NoTrace, fits |-> TRUE]

\* A replica that shows the auction before a command takes each of its
\* updates, and then shows the auction after it: levels, phase, indication,
\* and nothing left of the uncross it added up.
UpdatesReproduceAuction ==
    [][ApplyCompleteBatch(Shown(mirror), batch') = Shown(mirror')]_auctionVars

----------------------------------------------------------------------------
(* The orders, prices and policies of the auctions that are checked *)

CONSTANTS a1, a2

Offer(account, side, limit, lots, class) ==
    [account |-> account, side |-> side, limit |-> limit, lots |-> lots, class |-> class]

SmallOffers ==
    {Offer(a1, "buy", 3, 2, 1), Offer(a1, "buy", Market, 2, 1), Offer(a2, "buy", 2, 1, 1),
     Offer(a2, "sell", 1, 2, 2), Offer(a2, "sell", 1, 2, 1), Offer(a1, "sell", 2, 1, 1),
     Offer(a1, "sell", Market, 1, 1)}

Call(minimum, maximum, reference, pressure, last) ==
    [band |-> [minimum |-> minimum, maximum |-> maximum], reference |-> reference,
     pricing |-> [pressure |-> pressure, last |-> last]]

SmallCalls == {Call(1, 3, 2, "favorImbalance", "higher"), Call(2, 3, 1, "ignore", "higher")}

SmallPolicies ==
    {[allocation |-> "priceTime", remainder |-> "cancelMarket", selfTrade |-> "abort"],
     [allocation |-> "proRataTime", remainder |-> "retainAll", selfTrade |-> "permit"]}

\* Commands that come too late, for another auction or another instrument.
Stray ==
    {[kind |-> "submit", new |-> 1, offer |-> Offer(a1, "buy", 3, 2, 1)],
     [kind |-> "cancel", id |-> 1, account |-> a1],
     [kind |-> "amend", id |-> 1, account |-> a1, lots |-> 1],
     [kind |-> "replace", id |-> 1, account |-> a1, new |-> 1, offer |-> Offer(a1, "buy", 3, 2, 1)],
     [kind |-> "massCancel", account |-> a1, sides |-> Sides],
     [kind |-> "phaseControl", target |-> "collecting"],
     [kind |-> "phaseControl", target |-> "frozen"],
     [kind |-> "phaseControl", target |-> "closed"]}
    \cup [kind : {"indicative"}, call : SmallCalls]
    \cup [kind : {"uncross"}, call : SmallCalls, policy : SmallPolicies]

SmallRequests ==
    {[routed |-> routed, current |-> current, auction |-> auction] @@ request :
        routed \in BOOLEAN, current \in BOOLEAN, auction \in 1 .. 2, request \in Stray}
    \cup [kind : {"cancel"}, routed : {TRUE}, current : BOOLEAN, auction : 1 .. 2, id : 1 .. 4,
          account : {a1, a2}]
    \cup [kind : {"amend"}, routed : {TRUE}, current : {TRUE}, auction : 1 .. 2, id : 1 .. 4,
          account : {a1, a2}, lots : {1, 2}]
    \cup [kind : {"replace"}, routed : {TRUE}, current : {TRUE}, auction : 1 .. 2, id : 1 .. 4,
          account : {a1, a2}, new : 1 .. 4, offer : {Offer(a1, "buy", 3, 2, 1)}]

\* Every limit is reached by the offers above.
AccountLimits ==
    [orderLots |-> 2, orderNotional |-> 4, orders |-> 3, openLots |-> 5,
     openNotional |-> 8, long |-> 4, short |-> 1]

SmallProfiles ==
    a1 :> [state |-> "active", initial |-> 0, limits |-> AccountLimits] @@
    a2 :> [state |-> "active", initial |-> 3, limits |-> AccountLimits]

\* No action reads the report or the updates of the command before it.
AuctionView == <<book, phase, auctions, indicative, commands, events, risk, mirror, poisoned, lineage>>

=============================================================================
