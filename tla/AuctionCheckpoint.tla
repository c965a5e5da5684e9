-------------------------- MODULE AuctionCheckpoint --------------------------
(***************************************************************************)
(* Checkpoints of a call-auction engine.  A checkpoint holds the whole     *)
(* history of commands and reports, the active orders, the ids accepted    *)
(* and the phase.  Capture, decoding and restoration each audit it: one    *)
(* pass over the history derives what the engine must have come to (its    *)
(* lineage), and every report has to fit its command.                      *)
(*                                                                         *)
(* The lineage is kept here command by command, as if each command were    *)
(* the last of a checkpoint.  A command says besides what it asks for      *)
(* whether it names this instrument, whether it expects the current phase  *)
(* revision, and which auction it is for.                                  *)
(***************************************************************************)
EXTENDS AuctionEngine

CONSTANT Requests   \* commands that may be refused

VARIABLE lineage

LineageInit ==
    lineage = [sound |-> TRUE, orders |-> <<>>, accepted |-> {}, phase |-> "closed",
               auctions |-> 0, indicative |-> NoIndicative, commands |-> 0, events |-> 0]

----------------------------------------------------------------------------
(* What the controller refuses, by the phase of the engine or of the audit *)

Admitted == "admitted"

NoAuction == 0

ActiveAuction(state) == IF state.phase = "closed" THEN NoAuction ELSE state.auctions

AuctionRefusal(command, state) ==
    IF command.auction # ActiveAuction(state) THEN "auctionIdMismatch" ELSE Admitted

\* Commands that need a phase.
PhaseRefusal(command, state, phases) ==
    IF state.phase \in phases THEN AuctionRefusal(command, state) ELSE "actionNotAllowed"

ControlRefusal(command, state) ==
    IF command.target \notin PhasesAfter(state.phase) THEN "invalidPhaseTransition"
    ELSE IF state.phase # "closed" THEN AuctionRefusal(command, state)
    ELSE IF command.auction # state.auctions + 1 THEN "auctionIdNotNext"
    ELSE Admitted

\* Orders may leave in every phase, by a command for any auction.
\* Engine and audit each hold this table, over a phase of their own.
ControllerRefusal(command, state) ==
    IF ~command.routed THEN "wrongInstrument"
    ELSE IF command.kind \in {"cancel", "massCancel"} THEN Admitted
    ELSE IF ~command.current THEN "phaseRevisionMismatch"
    ELSE CASE command.kind = "phaseControl" -> ControlRefusal(command, state)
           [] command.kind \in {"submit", "amend", "replace"} ->
                PhaseRefusal(command, state, {"collecting"})
           [] command.kind = "indicative" -> PhaseRefusal(command, state, {"collecting", "frozen"})
           [] command.kind = "uncross" -> PhaseRefusal(command, state, {"frozen"})

OwnerRefusal(command) ==
    IF command.id \notin Active(book) THEN "unknownOrder"
    ELSE IF book.orders[command.id].account # command.account THEN "notOrderOwner"
    ELSE Admitted

DuplicateRefusal(id) == IF id \in 1 .. book.accepted THEN "duplicateOrder" ELSE Admitted

AmendRefusal(command) ==
    IF OwnerRefusal(command) # Admitted THEN OwnerRefusal(command)
    ELSE IF command.lots % Quantum # 0 THEN "instrument"
    ELSE IF command.lots >= book.orders[command.id].lots THEN "amendQuantityNotReduced"
    ELSE Admitted

ReplaceRefusal(command) ==
    IF OwnerRefusal(command) # Admitted THEN OwnerRefusal(command)
    ELSE IF command.offer.account # command.account THEN "notOrderOwner"
    ELSE DuplicateRefusal(command.new)

UncrossRefusal(command) ==
    LET clearing == IndicativeClearing(book, command.call)
        trades == PrepareUncross(book, clearing, command.policy).trades
    IN  IF clearing = NoClearing THEN "noExecutableInterest"
        ELSE IF command.policy.selfTrade = "abort" /\ SelfTrades(book, trades)
             THEN "selfTradeWouldOccur"
        ELSE Admitted

\* What the live engine answers a command with: first its controller, then
\* its book.
Refusal(command) ==
    LET refused == ControllerRefusal(command, [phase |-> phase, auctions |-> auctions])
    IN  IF refused # Admitted THEN refused
        ELSE CASE command.kind = "submit" -> DuplicateRefusal(command.new)
               [] command.kind = "cancel" -> OwnerRefusal(command)
               [] command.kind = "amend" -> AmendRefusal(command)
               [] command.kind = "replace" -> ReplaceRefusal(command)
               [] command.kind = "uncross" -> UncrossRefusal(command)
               [] OTHER -> Admitted

\* What the audit takes from a command its own controller would admit.  Risk
\* refuses orders and replacements from outside.
BookRefusals(command) ==
    CASE command.kind = "submit" -> {"instrument", "duplicateOrder", "risk"}
      [] command.kind = "cancel" -> {"unknownOrder", "notOrderOwner"}
      [] command.kind = "amend" ->
            {"instrument", "unknownOrder", "notOrderOwner", "amendQuantityNotReduced"}
      [] command.kind = "replace" ->
            {"instrument", "duplicateOrder", "unknownOrder", "notOrderOwner", "risk"}
      [] command.kind = "uncross" ->
            {"noExecutableInterest"}
               \cup (IF command.policy.selfTrade = "abort" THEN {"selfTradeWouldOccur"} ELSE {})
      [] OTHER -> {}

RefusalFits(command, reason) ==
    LET expected == ControllerRefusal(command, lineage)
    IN  IF expected # Admitted THEN reason = expected ELSE reason \in BookRefusals(command)

----------------------------------------------------------------------------
(* Reports that fit their command and the orders the history left *)

IsTracked(order) == order.id \in DOMAIN lineage.orders /\ lineage.orders[order.id] = order

\* A new order takes an id never taken before and the next place.
ArrivalFits(order, offer) ==
    /\ \A field \in DOMAIN offer : order[field] = offer[field]
    /\ order.sequence = Cardinality(lineage.accepted) + 1
    /\ order.id \notin lineage.accepted
    /\ order.lots % Quantum = 0

PhaseFits(command, reported) ==
    reported = <<[kind |-> "phaseChanged", previous |-> lineage.phase, phase |-> command.target,
                auction |-> command.auction]>>

SubmitFits(command, reported) ==
    /\ Len(reported) = 1 /\ reported[1].kind = "accepted"
    /\ ArrivalFits(reported[1].order, command.offer)

CancelFits(command, reported) ==
    /\ Len(reported) = 1 /\ reported[1].kind = "cancelled"
    /\ reported[1].reason = "userCancelled"
    /\ IsTracked(reported[1].order)
    /\ reported[1].order.id = command.id /\ reported[1].order.account = command.account

\* The orders go by their ids; the completion counts them and their lots.
MassCancelDecodes(reported) ==
    LET cancels == Front(reported)
        last == Last(reported)
    IN  /\ last.kind = "massCancelCompleted"
        /\ last.count = Len(cancels)
        /\ \A i \in DOMAIN cancels :
              LET order == cancels[i].order
              IN  /\ cancels[i].kind = "cancelled" /\ cancels[i].reason = "massCancelled"
                  /\ order.account = last.account /\ order.side \in last.sides
                  /\ i > 1 => cancels[i - 1].order.id < order.id
        /\ last.lots = FoldLeft(LAMBDA sum, event : sum + event.order.lots, 0, cancels)

MassCancelFits(command, reported) ==
    /\ MassCancelDecodes(reported)
    /\ Last(reported).account = command.account /\ Last(reported).sides = command.sides
    /\ \A i \in DOMAIN Front(reported) : IsTracked(reported[i].order)

\* An amended order is the one before it with fewer lots.
AmendFits(command, reported) ==
    /\ Len(reported) = 1 /\ reported[1].kind = "amended"
    /\ command.id \in DOMAIN lineage.orders
    /\ LET previous == lineage.orders[command.id]
       IN  /\ previous.account = command.account
           /\ reported[1].order = [previous EXCEPT !.lots = command.lots]
           /\ reported[1].previous = previous.lots
           /\ command.lots < previous.lots /\ command.lots % Quantum = 0

ReplaceFits(command, reported) ==
    /\ Len(reported) = 2 /\ reported[1].kind = "cancelled" /\ reported[2].kind = "accepted"
    /\ reported[1].reason = "replaced"
    /\ LET cancelled == reported[1].order
           accepted == reported[2].order
       IN  /\ IsTracked(cancelled)
           /\ cancelled.id = command.id /\ cancelled.account = command.account
           /\ accepted.account = command.account
           /\ ArrivalFits(accepted, command.offer)

IndicativeFits(command, reported) ==
    /\ Len(reported) = 1 /\ reported[1].kind = "indicativePublished"
    /\ reported[1].state.call = command.call

----------------------------------------------------------------------------
(* An uncross, projected on the orders before it *)

\* Mutant of Source: what an order has left counts as what it came with.
SourceIsLeft(s, id) == s.orders[id].lots

\* The lots an order came to the uncross with.
Source(s, id) == IF id \in DOMAIN s.sources THEN s.sources[id] ELSE s.orders[id].lots

Reduce(s, id, side, event) ==
    LET lots == event.trade.lots
        order == s.orders[id]
    IN  IF /\ s.fits
           /\ id \in DOMAIN s.orders
           /\ order.side = side /\ IsEligible(order, event.price)
           /\ lots \in 1 .. order.lots
        THEN [s EXCEPT !.sources = (id :> Source(s, id)) @@ @,
                       !.orders = IF lots = order.lots THEN Without(@, {id})
                                  ELSE [@ EXCEPT ![id].lots = order.lots - lots]]
        ELSE [s EXCEPT !.fits = FALSE]

RemoveRemainder(s, event) ==
    IF /\ s.fits
       /\ event.id \in DOMAIN s.orders
       /\ event.lots = s.orders[event.id].lots
       /\ event.lots + event.executed = Source(s, event.id)
    THEN [s EXCEPT !.orders = Without(@, {event.id})]
    ELSE [s EXCEPT !.fits = FALSE]

ProjectUncross(body) ==
    LET Project(s, event) ==
            CASE event.kind = "trade" ->
                    Reduce(Reduce(s, event.trade.buy, "buy", event), event.trade.sell, "sell", event)
              [] event.kind = "remainderCancelled" -> RemoveRemainder(s, event)
              [] OTHER -> [s EXCEPT !.fits = FALSE]
    IN  FoldLeft(Project, [orders |-> lineage.orders, sources |-> <<>>, fits |-> TRUE], body)

\* Trades at the clearing price, of the executable lots; then remainders.
UncrossDecodes(reported) ==
    LET body == Front(reported)
        last == Last(reported)
        trades == SubSeq(body, 1, last.trades)
    IN  /\ last.kind = "uncrossCompleted"
        /\ last.trades # 0 /\ Len(body) = last.trades + last.cancels
        /\ \A i \in DOMAIN body :
              body[i].kind = IF i <= last.trades THEN "trade" ELSE "remainderCancelled"
        /\ \A i \in DOMAIN trades : trades[i].price = last.clearing.price
        /\ FoldLeft(LAMBDA sum, event : sum + event.trade.lots, 0, trades) = last.clearing.executable

AbortHolds(trades) ==
    \A i \in DOMAIN trades :
        lineage.orders[trades[i].trade.buy].account # lineage.orders[trades[i].trade.sell].account

UncrossFits(command, reported) ==
    /\ UncrossDecodes(reported)
    /\ Last(reported).policy = command.policy
    /\ ProjectUncross(Front(reported)).fits
    /\ command.policy.selfTrade = "abort" =>
          AbortHolds(SubSeq(reported, 1, Last(reported).trades))

----------------------------------------------------------------------------
(* Whole reports *)

\* What a report has to be on its own, for it to be decoded.
ReportDecodes(reported) ==
    LET kinds == [i \in DOMAIN reported |-> reported[i].kind]
        first == reported[1]
        second == reported[2]
    IN  \/ kinds \in {<<"accepted">>, <<"indicativePublished">>}
        \/ kinds = <<"phaseChanged">> /\ first.phase \in PhasesAfter(first.previous)
        \/ kinds = <<"cancelled">> /\ first.reason = "userCancelled"
        \/ kinds = <<"amended">> /\ first.previous > first.order.lots
        \/ /\ kinds = <<"cancelled", "accepted">> /\ first.reason = "replaced"
           /\ first.order.id # second.order.id
           /\ first.order.account = second.order.account
           /\ first.order.sequence < second.order.sequence
        \/ kinds[Len(kinds)] = "massCancelCompleted" /\ MassCancelDecodes(reported)
        \/ kinds[Len(kinds)] = "uncrossCompleted" /\ UncrossDecodes(reported)

\* And beside its command and the lineage.
ReportFits(command, reported) ==
    /\ ReportDecodes(reported)
    /\ ControllerRefusal(command, lineage) = Admitted
    /\ CASE command.kind = "phaseControl" -> PhaseFits(command, reported)
         [] command.kind = "submit" -> SubmitFits(command, reported)
         [] command.kind = "cancel" -> CancelFits(command, reported)
         [] command.kind = "massCancel" -> MassCancelFits(command, reported)
         [] command.kind = "amend" -> AmendFits(command, reported)
         [] command.kind = "replace" -> ReplaceFits(command, reported)
         [] command.kind = "indicative" -> IndicativeFits(command, reported)
         [] command.kind = "uncross" -> UncrossFits(command, reported)

----------------------------------------------------------------------------
(* What the history comes to *)

OrdersAfter(command, reported) ==
    LET Project(orders, event) ==
            CASE event.kind = "cancelled" -> Without(orders, {event.order.id})
              [] event.kind \in {"accepted", "amended"} -> (event.order.id :> event.order) @@ orders
              [] OTHER -> orders
    IN  IF command.kind = "uncross" THEN ProjectUncross(Front(reported)).orders
        ELSE FoldLeft(Project, lineage.orders, reported)

AcceptedIds(reported) ==
    {reported[i].order.id : i \in {j \in DOMAIN reported : reported[j].kind = "accepted"}}

Counted(reported) ==
    [lineage EXCEPT !.commands = @ + 1, !.events = @ + Len(reported)]

\* An accepted command moves the lineage; a refused one is only counted.
Traces(command, reported) ==
    lineage' =
        IF reported[1].kind = "rejected" THEN Counted(reported)
        ELSE [Counted(reported) EXCEPT
                !.sound = @ /\ ReportFits(command, reported),
                !.orders = OrdersAfter(command, reported),
                !.accepted = @ \cup AcceptedIds(reported),
                !.phase = CASE command.kind = "phaseControl" -> command.target
                            [] command.kind = "uncross" -> "closed"
                            [] OTHER -> @,
                !.auctions = IF command.kind = "phaseControl" THEN command.auction ELSE @,
                !.indicative = IF command.kind = "indicative" THEN <<reported[1].state>>
                               ELSE NoIndicative]

----------------------------------------------------------------------------
(* Capture and restoration *)

WithinCapacity ==
    /\ lineage.commands <= MaxCommands /\ lineage.events <= MaxEvents
    /\ Cardinality(lineage.accepted) <= MaxIds
    /\ Cardinality(DOMAIN lineage.orders) <= MaxOrders
    /\ \A side \in Sides : Cardinality(LevelPrices(lineage.orders, side)) <= MaxLevels

\* The audit of the live book, and of one that was restored.
IsValidBook(b) ==
    /\ Cardinality(Active(b)) <= MaxOrders /\ b.accepted <= MaxIds
    /\ \A side \in Sides : Cardinality(LevelPrices(b.orders, side)) <= MaxLevels
    /\ \A id \in Active(b) :
          LET order == b.orders[id]
          IN  /\ order.id = id /\ id \in 1 .. b.accepted
              /\ order.lots > 0 /\ order.lots % Quantum = 0
              /\ order.sequence \in 1 .. b.accepted
    /\ \A id, other \in Active(b) : id # other => b.orders[id].sequence # b.orders[other].sequence

OrdersAgree ==
    lineage.orders = book.orders /\ lineage.accepted = 1 .. book.accepted

ControllerAgrees ==
    /\ lineage.phase = phase /\ lineage.auctions = auctions /\ lineage.indicative = indicative
    /\ lineage.commands = commands /\ lineage.events = events

\* checkpoint_state succeeds: every report fits, and the history has come to
\* what the live engine holds.
Captures ==
    /\ IsValidBook(book)
    /\ lineage.sound
    /\ OrdersAgree
    /\ ControllerAgrees

\* Orders go back in the order of their priority.
RestoredBook(rows, ids) ==
    LET ordered == SetToSortSeq(rows, LAMBDA a, b : a.sequence < b.sequence)
        Insert(b, order) == [b EXCEPT !.orders = (order.id :> order) @@ @]
    IN  FoldLeft(Insert, [EmptyBook EXCEPT !.accepted = Cardinality(ids)], ordered)

\* The engine made of a checkpoint: the orders and ids it holds, and what its
\* history says of the controller.
Restored(orders, ids) ==
    [book |-> RestoredBook(orders, ids), phase |-> lineage.phase, auctions |-> lineage.auctions,
     indicative |-> lineage.indicative, commands |-> lineage.commands, events |-> lineage.events]

----------------------------------------------------------------------------
(* Properties *)

\* Whatever the engine refuses, and for whatever reason, its own audit of the
\* history would expect.
RefusalsAreExpected ==
    \A request \in Requests :
        Refusal(request) # Admitted => RefusalFits(request, Refusal(request))

\* A checkpoint can be captured after every command, refused or not, passes
\* every audit of its own history, fits the limits of the engine and restores
\* the very engine it was taken of.
EngineRestores ==
    /\ Captures
    /\ RefusalsAreExpected
    /\ WithinCapacity
    /\ IsValidBook(Restored(Range(book.orders), 1 .. book.accepted).book)
    /\ Restored(Range(book.orders), 1 .. book.accepted)
         = [book |-> book, phase |-> phase, auctions |-> auctions, indicative |-> indicative,
            commands |-> commands, events |-> events]

=============================================================================
