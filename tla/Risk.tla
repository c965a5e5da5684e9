-------------------------------- MODULE Risk --------------------------------
(***************************************************************************)
(* Pre-trade risk beside the order book.  An account has a profile, fixed  *)
(* before the first command, and an exposure: its position and what its    *)
(* active orders may still trade.  Every active order holds a reservation. *)
(*                                                                         *)
(* A command is authorized against the exposure before it executes; what   *)
(* its report says happened is then applied to reservations and exposures, *)
(* event by event.  The exposure is kept, never computed from the book.    *)
(***************************************************************************)
EXTENDS OrderBook, RiskRules

ASSUME RiskAccountsAssumption == DOMAIN Profiles \subseteq Accounts

VARIABLE risk   \* [exposure, reservations]

RiskInit ==
    risk = [exposure |-> [account \in DOMAIN Profiles |-> NoExposure(Profiles[account].initial)],
            reservations |-> <<>>]

----------------------------------------------------------------------------
(* Authorization *)

AuthorizedNew(command) ==
    LET account == command.account
        mayRest == command.type = "stop" \/ (command.type # "market" /\ MayRest(command.tif))
    IN  /\ account \in DOMAIN Profiles
        /\ PretradeAllowed(Profiles[account], risk.exposure[account], command.side, command.lots,
                           Notional(command.side, command.limit, command.lots), mayRest)

\* The order to replace gives its reservation back first.
AuthorizedReplace(command) ==
    LET account == command.account
        old == risk.reservations[command.id]
        baseline == Adjusted(risk.exposure[account], old, -1)
    IN  PretradeAllowed(Profiles[account], baseline, old.side, command.lots,
                        Notional(old.side, command.limit, command.lots), TRUE)

Authorized(command) ==
    CASE command.kind = "new" -> AuthorizedNew(command)
      [] command.kind = "replace" -> AuthorizedReplace(command)
      [] command.kind = "accountControlled" -> command.account \in DOMAIN Profiles
      [] OTHER -> TRUE

----------------------------------------------------------------------------
(* What a report does to the exposures *)

AppendReservation(state, id, reservation) ==
    [exposure |-> [state.exposure EXCEPT ![reservation.account] = Adjusted(@, reservation, 1)],
     reservations |-> (id :> reservation) @@ state.reservations]

RemoveReservation(state, id) ==
    LET reservation == state.reservations[id]
    IN  [exposure |-> [state.exposure EXCEPT ![reservation.account] = Adjusted(@, reservation, -1)],
         reservations |-> Restrict(state.reservations, DOMAIN state.reservations \ {id})]

\* An order without a reservation is one that never rested.
DecrementReservation(state, id, lots) ==
    IF id \notin DOMAIN state.reservations THEN state
    ELSE LET current == state.reservations[id]
             without == RemoveReservation(state, id)
         IN  IF lots = current.lots THEN without
             ELSE AppendReservation(without, id, [current EXCEPT !.lots = @ - lots])

ApplyTrade(state, trade) ==
    LET maker == DecrementReservation(state, trade.id, trade.lots)
        both == DecrementReservation(maker, trade.taker, trade.lots)
    IN  [both EXCEPT !.exposure[trade.buyer].position = @ + trade.lots,
                     !.exposure[trade.seller].position = @ - trade.lots]

ApplyEvent(state, event) ==
    CASE event.kind = "trade" -> ApplyTrade(state, event)
      [] event.kind = "triggered" ->
            [state EXCEPT !.reservations[event.id].dormant = FALSE]
      [] event.kind = "cancelled" /\ event.id \in DOMAIN state.reservations ->
            RemoveReservation(state, event.id)
      [] event.kind = "decremented" ->
            DecrementReservation(DecrementReservation(state, event.id, event.lots),
                                 event.taker, event.lots)
      [] OTHER -> state

\* The reservation a new or replaced order holds after its report: a dormant
\* stop for all of it, another order for what rested; nothing otherwise.
Reserves(state, command, old, events) ==
    LET rested == SelectSeq(events, LAMBDA event : event.kind = "rested" /\ event.id = command.id)
        whole == \E i \in DOMAIN events :
                    \/ events[i].kind = "armed"
                    \/ events[i].kind = "replaced" /\ (events[i].retained \/ old.dormant)
        reservation == [account |-> command.account, side |-> old.side,
                        constraint |-> command.limit, lots |-> command.lots,
                        dormant |-> old.dormant]
    IN  IF whole THEN AppendReservation(state, command.id, reservation)
        ELSE IF rested # <<>>
        THEN AppendReservation(state, command.id,
                [reservation EXCEPT !.constraint = Head(rested).price,
                                    !.lots = Head(rested).lots, !.dormant = FALSE])
        ELSE state

Applied(command, events) ==
    CASE command.kind = "new" ->
            Reserves(FoldLeft(ApplyEvent, risk, events), command,
                     [side |-> command.side, dormant |-> command.type = "stop"], events)
      [] command.kind = "replace" ->
            Reserves(FoldLeft(ApplyEvent, RemoveReservation(risk, command.id), events), command,
                     risk.reservations[command.id], events)
      [] OTHER -> FoldLeft(ApplyEvent, risk, events)

----------------------------------------------------------------------------
(* Checkpoint *)

ReservationOf(order) ==
    [account |-> order.account, side |-> order.side, lots |-> order.leaves,
     constraint |-> IF IsDormant(order) THEN order.stop.limit ELSE order.price,
     dormant |-> IsDormant(order)]

\* A checkpoint holds the book and the positions; the rest is rebuilt.
RestoreDirect ==
    LET bare == [exposure |-> [account \in DOMAIN risk.exposure |->
                                  NoExposure(risk.exposure[account].position)],
                 reservations |-> <<>>]
        insert(state, id) == AppendReservation(state, id, ReservationOf(book.orders[id]))
    IN  FoldLeft(insert, bare, SetToSeq(Active(book)))

----------------------------------------------------------------------------
(* Properties *)

\* Reservations and exposures, moved by events alone, are those of the book:
\* a checkpoint taken now is accepted and restores them.
RiskMatchesBook == risk = RestoreDirect

\* Whatever executes next, no account leaves its position limits, and what
\* it has open stays within its profile: an order is authorized once, and
\* rests, waits as a stop, trades and is replaced under that authorization.
LimitsHold ==
    \A account \in DOMAIN Profiles :
        LET limits == Profiles[account].limits
            exposure == risk.exposure[account]
        IN  /\ WorstCaseWithin(exposure.position, exposure.open, limits)
            /\ exposure.open["buy"] + exposure.open["sell"] <= limits.openLots
            /\ exposure.notional <= limits.openNotional
            /\ exposure.orders <= limits.orders

\* A reduce-only account gets to a smaller position of the same sign, never
\* past zero, however its orders, stops and replacements execute.
ReduceOnlyShrinks ==
    [][\A account \in DOMAIN Profiles :
          LET before == risk.exposure[account].position
              after == risk'.exposure[account].position
          IN  Profiles[account].state = "reduceOnly" =>
                 IF before >= 0 THEN after \in 0 .. before ELSE after \in before .. 0]_risk

\* No trade moves more money per lot than an order of it had reserved, at
\* negative prices too; a replaced order reserves anew.
TradesWithinValuation ==
    [][\A i \in DOMAIN report'.events :
          LET event == report'.events[i]
              first == report'.events[1]
              replaced == IF first.kind = "replaced" THEN {first.id} ELSE {}
          IN  event.kind = "trade" =>
                 \A id \in ({event.id, event.taker} \cap DOMAIN risk.reservations) \ replaced :
                     LET order == risk.reservations[id]
                     IN  Magnitude(event.price) <= ValuationPerLot(order.side, order.constraint)]_risk

\* What is reserved stays within the limits and covers what is traded, so that
\* no execution, refresh, trigger or replacement takes an account where its
\* authorization did not: past its limits, or, where it may only reduce, past
\* zero or away from it.
ReservedCoversTraded == []LimitsHold /\ TradesWithinValuation /\ ReduceOnlyShrinks

=============================================================================
