---------------------------- MODULE AuctionEngine ----------------------------
(***************************************************************************)
(* The call-auction engine of one instrument.  It opens auctions, collects *)
(* and freezes their interest, uncrosses them and closes them, and it      *)
(* keeps every command with its report.  Both histories are bounded: an    *)
(* ordinary command leaves a reserve of commands and events that only      *)
(* commands which wind an auction down may use.                            *)
(*                                                                         *)
(* A command answered from the history and one refused for want of room    *)
(* change nothing and are no step here.                                    *)
(***************************************************************************)
EXTENDS AuctionBook

CONSTANTS
    Offers,             \* the [account, side, limit, lots, class] of orders
    Calls,              \* the [band, reference, pricing] auctions clear with
    UncrossPolicies,    \* the [allocation, remainder, selfTrade] of uncrosses
    MaxAuctions,        \* auctions are numbered 1 .. MaxAuctions
    MaxCommands,        \* max_retained_commands
    TerminalCommands,   \* terminal_command_reserve
    MaxEvents,          \* max_retained_events
    MaxReportEvents     \* max_report_events

\* The reserve of events follows from the limit of active orders.
TerminalEvents == 2 * MaxOrders + 2

ASSUME AuctionEngineAssumption ==
    /\ MaxAuctions \in Nat /\ MaxCommands \in Nat /\ TerminalCommands \in Nat
    /\ MaxEvents \in Nat /\ MaxReportEvents \in Nat
    /\ TerminalCommands >= MaxOrders + 2 /\ TerminalCommands < MaxCommands
    /\ MaxReportEvents >= 2 * MaxOrders + 1
    /\ MaxEvents >= TerminalEvents + MaxOrders + 1
    /\ \A offer \in Offers :
          /\ offer.side \in Sides /\ offer.limit \in Prices \cup {Market} /\ offer.class \in Nat
          /\ offer.lots \in Nat \ {0} /\ offer.lots % Quantum = 0
    /\ \A call \in Calls : call.band \in Bands /\ call.reference \in Prices

VARIABLES
    book,
    phase,
    auctions,   \* the number of the last auction, active unless the phase is closed
    indicative, \* the last indicative clearing while nothing has overtaken it
    commands,   \* commands retained
    events,     \* events retained
    report      \* the events of the last command

vars == <<book, phase, auctions, indicative, commands, events, report>>

Accounts == {offer.account : offer \in Offers}

NoIndicative == <<>>

Init ==
    /\ book = EmptyBook
    /\ phase = "closed"
    /\ auctions = 0
    /\ indicative = NoIndicative
    /\ commands = 0
    /\ events = 0
    /\ report = <<>>

----------------------------------------------------------------------------
(* The histories *)

\* Mutant of HistoryHasRoom: only the events of the past are counted.
HistoryHadRoom(terminal, count) ==
    /\ commands < MaxCommands /\ events + count <= MaxEvents
    /\ terminal \/ (commands < MaxCommands - TerminalCommands /\ events <= MaxEvents - TerminalEvents)

HistoryHasRoom(terminal, count) ==
    /\ commands < MaxCommands /\ events + count <= MaxEvents
    /\ \/ terminal
       \/ /\ commands < MaxCommands - TerminalCommands
          /\ events + count <= MaxEvents - TerminalEvents

Retain(terminal, reported) ==
    /\ Len(reported) <= MaxReportEvents
    /\ HistoryHasRoom(terminal, Len(reported))
    /\ commands' = commands + 1
    /\ events' = events + Len(reported)
    /\ report' = reported

Ordinary(reported) == Retain(FALSE, reported)
Terminal(reported) == Retain(TRUE, reported)

\* An accepted command that is not an indicative one overtakes the last.
Overtakes == indicative' = NoIndicative

----------------------------------------------------------------------------
(* Commands *)

\* A command the rules refuse is retained too, and is never terminal.
Reject ==
    /\ Ordinary(<<[kind |-> "rejected"]>>)
    /\ UNCHANGED <<book, phase, auctions, indicative>>

\* The phases a transition may reach out of the reserve.
OpensOrCloses(target) == target \in {"frozen", "closed"}

PhasesAfter(from) ==
    CASE from = "closed" -> {"collecting"}
      [] from = "collecting" -> {"frozen", "closed"}
      [] from = "frozen" -> {"collecting", "closed"}

PhaseControl(target) ==
    /\ target \in PhasesAfter(phase)
    /\ auctions' = IF phase = "closed" THEN auctions + 1 ELSE auctions
    /\ auctions' <= MaxAuctions
    /\ phase' = target
    /\ Retain(OpensOrCloses(target),
              <<[kind |-> "phaseChanged", previous |-> phase, phase |-> target,
                 auction |-> auctions']>>)
    /\ Overtakes
    /\ UNCHANGED book

Collecting == phase = "collecting"

CanSubmit(offer) == Collecting /\ CanAdmit(book, offer)

Submit(offer) ==
    /\ CanSubmit(offer)
    /\ Ordinary(<<[kind |-> "accepted", order |-> Arriving(book, offer)]>>)
    /\ book' = Admit(book, offer)
    /\ Overtakes
    /\ UNCHANGED <<phase, auctions>>

CancelEvent(id, reason) == [kind |-> "cancelled", order |-> book.orders[id], reason |-> reason]

\* Orders may leave in every phase.
Cancel(id) ==
    /\ Terminal(<<CancelEvent(id, "userCancelled")>>)
    /\ book' = CancelAll(book, {id})
    /\ Overtakes
    /\ UNCHANGED <<phase, auctions>>

\* A mass cancel that selects nothing is accepted, as an ordinary command.
MassCancel(account, sides) ==
    LET selected == Ascending(OfAccount(book, account, sides))
    IN  /\ Retain(selected # <<>>,
                  Append([i \in DOMAIN selected |-> CancelEvent(selected[i], "massCancelled")],
                         [kind |-> "massCancelCompleted", account |-> account, sides |-> sides,
                          count |-> Len(selected),
                          lots |-> LotsOf([i \in DOMAIN selected |-> book.orders[selected[i]]])]))
        /\ book' = CancelAll(book, OfAccount(book, account, sides))
        /\ Overtakes
        /\ UNCHANGED <<phase, auctions>>

CanAmend(id, lots) == Collecting /\ lots < book.orders[id].lots

AmendOrder(id, lots) ==
    /\ CanAmend(id, lots)
    /\ book' = Amend(book, id, lots)
    /\ Ordinary(<<[kind |-> "amended", order |-> book'.orders[id],
                   previous |-> book.orders[id].lots]>>)
    /\ Overtakes
    /\ UNCHANGED <<phase, auctions>>

CanSubstitute(id, offer) ==
    /\ Collecting
    /\ offer.account = book.orders[id].account
    /\ CanReplace(book, id, offer)

ReplaceOrder(id, offer) ==
    /\ CanSubstitute(id, offer)
    /\ Ordinary(<<CancelEvent(id, "replaced"), [kind |-> "accepted", order |-> Arriving(book, offer)]>>)
    /\ book' = Replace(book, id, offer)
    /\ Overtakes
    /\ UNCHANGED <<phase, auctions>>

Indication(call) == [call |-> call, clearing |-> IndicativeClearing(book, call)]

Indicate(call) ==
    /\ phase # "closed"
    /\ indicative' = <<Indication(call)>>
    /\ Ordinary(<<[kind |-> "indicativePublished", state |-> indicative'[1]]>>)
    /\ UNCHANGED <<book, phase, auctions>>

TradeEvents(trades, price) ==
    [i \in DOMAIN trades |-> [kind |-> "trade", trade |-> trades[i], price |-> price]]

RemainderEvents(cancellations) ==
    [i \in DOMAIN cancellations |->
        [kind |-> "remainderCancelled", id |-> cancellations[i].id,
         lots |-> cancellations[i].lots, executed |-> cancellations[i].executed]]

CompletionEvent(call, policy, clearing, prepared) ==
    [kind |-> "uncrossCompleted", call |-> call, clearing |-> clearing, policy |-> policy,
     trades |-> Len(prepared.trades), cancels |-> Len(prepared.cancellations)]

\* An uncross closes its auction, whatever it leaves in the book.
CommitPrepared(call, policy, clearing, prepared) ==
    /\ policy.selfTrade = "abort" => ~SelfTrades(book, prepared.trades)
    /\ Terminal(TradeEvents(prepared.trades, clearing.price)
                \o RemainderEvents(prepared.cancellations)
                \o <<CompletionEvent(call, policy, clearing, prepared)>>)
    /\ book' = CommitUncross(book, prepared)
    /\ phase' = "closed"
    /\ Overtakes
    /\ UNCHANGED auctions

Uncross(call, policy) ==
    LET clearing == IndicativeClearing(book, call)
    IN  /\ phase = "frozen"
        /\ clearing # NoClearing
        /\ CommitPrepared(call, policy, clearing, PrepareUncross(book, clearing, policy))

Next ==
    \/ Reject
    \/ \E target \in {"collecting", "frozen", "closed"} : PhaseControl(target)
    \/ \E offer \in Offers : Submit(offer)
    \/ \E id \in Active(book) : Cancel(id)
    \/ \E account \in Accounts, sides \in {Sides, {"buy"}, {"sell"}} : MassCancel(account, sides)
    \/ \E id \in Active(book), offer \in Offers :
          AmendOrder(id, offer.lots) \/ ReplaceOrder(id, offer)
    \/ \E call \in Calls : Indicate(call)
    \/ \E call \in Calls, policy \in UncrossPolicies : Uncross(call, policy)

Spec == Init /\ [][Next]_vars

----------------------------------------------------------------------------
(* Properties *)

\* What the book would clear at a price of the band.
AtPrice(clearedBook, price) ==
    LET interest == Interest(clearedBook)
    IN  Clearing(price,
                 interest.market["buy"] + LotsAt(interest.levels["buy"], price .. MaxPrice),
                 interest.market["sell"] + LotsAt(interest.levels["sell"], 1 .. price))

\* No price of the band clears better, at every price compared one by one.
IsBestClearing(clearedBook, call, clearing) ==
    LET band == call.band.minimum .. call.band.maximum
        possible == {candidate \in {AtPrice(clearedBook, price) : price \in band} :
                        candidate.executable > 0}
    IN  IF possible = {} THEN clearing = NoClearing
        ELSE /\ clearing \in possible
             /\ \A other \in possible \ {clearing} :
                   IsBetterThan(clearing, other, call.reference, call.pricing)

\* The indication the engine still shows is the best clearing of the book as
\* it is: the sweep misses no price of the band, and no command that changed
\* the book since has left the old indication behind.
IndicationIsCurrent ==
    indicative # NoIndicative =>
        IsBestClearing(book, indicative[1].call, indicative[1].clearing)

TradedLots(reported, id) ==
    LET Traded(sum, event) ==
            IF event.kind = "trade" /\ id \in {event.trade.buy, event.trade.sell}
            THEN sum + event.trade.lots ELSE sum
    IN  FoldLeft(Traded, 0, reported)

LotsOfIds(lots, ids) == FoldFunctionOnSet(+, 0, lots, ids)

\* Nobody trades before those with better priority are filled, except in a
\* shared tier, where each gets its proportion to within a quantum.
PriorityIsKept(order, traded, shared) ==
    LET lots == [id \in DOMAIN order |-> order[id].lots]
        TierOf(id) == {other \in DOMAIN order : order[other].side = order[id].side
                                              /\ SameAllocationTier(order[id], order[other])}
    IN  /\ \A first, second \in DOMAIN order :
              /\ order[first].side = order[second].side
              /\ Precedes(order[first], order[second])
              /\ traded[second] > 0
              /\ traded[first] < lots[first]
              => shared /\ SameAllocationTier(order[first], order[second])
        /\ shared => \A id \in DOMAIN order :
              LET tier == TierOf(id)
              IN  Apart(traded[id] * LotsOfIds(lots, tier), lots[id] * LotsOfIds(traded, tier))
                    <= Quantum * LotsOfIds(lots, tier)

\* What an order did not trade is what stays of it or is cancelled.
NothingIsLost(order, left, traded, reported) ==
    \A id \in DOMAIN order :
        IF id \in DOMAIN left THEN left[id].lots = order[id].lots - traded[id]
        ELSE traded[id] < order[id].lots =>
                \E i \in DOMAIN reported :
                    /\ reported[i].kind = "remainderCancelled" /\ reported[i].id = id
                    /\ reported[i].lots = order[id].lots - traded[id]

IsFair(order, left, traded, completed, reported) ==
    /\ completed.kind = "uncrossCompleted"
    /\ \A side \in Sides :
          LotsOfIds(traded, {id \in DOMAIN order : order[id].side = side})
            = completed.clearing.executable
    /\ \A id \in DOMAIN order : traded[id] > 0 => IsEligible(order[id], completed.clearing.price)
    /\ PriorityIsKept(order, traded, completed.policy.allocation = "proRataTime")
    /\ NothingIsLost(order, left, traded, reported)

\* The trades of an uncross are fair and lose nothing: as much is bought and
\* sold as the best clearing promised, and nobody trades beyond a limit.
UncrossIsFair ==
    [][phase = "frozen" /\ phase' = "closed" /\ book' # book =>
        /\ IsBestClearing(book, Last(report').call, Last(report').clearing)
        /\ IsFair(book.orders, book'.orders, [id \in Active(book) |-> TradedLots(report', id)],
                  Last(report'), report')]_vars

\* The histories as an abstract reserve sees them.
Reserve == INSTANCE AuctionReserve WITH
    orders <- Cardinality(Active(book)),
    commandsLeft <- MaxCommands - commands,
    eventsLeft <- MaxEvents - events

\* Every command the engine accepts is one the reserve accounts for.
ImplementsReserve == Reserve!Spec

=============================================================================
