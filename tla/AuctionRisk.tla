----------------------------- MODULE AuctionRisk -----------------------------
(***************************************************************************)
(* Risk beside a call-auction engine.  Every order in the auction book     *)
(* holds a reservation; orders and replacements are authorized before they *)
(* are committed, and what the report of a command says is applied to      *)
(* reservations and exposures.  The trades of an uncross are netted by     *)
(* account before they move its position.                                  *)
(***************************************************************************)
EXTENDS AuctionEngine, RiskRules

ASSUME AuctionRiskAssumption == DOMAIN Profiles \subseteq Accounts

VARIABLE risk   \* [exposure, reservations]

riskVars == <<vars, risk>>

RiskInit ==
    risk = [exposure |-> [account \in DOMAIN Profiles |-> NoExposure(Profiles[account].initial)],
            reservations |-> <<>>]

----------------------------------------------------------------------------
(* Authorization *)

AuthorizeOrderAgainst(offer, baseline) ==
    PretradeAllowed(Profiles[offer.account], baseline, offer.side, offer.lots,
                    Notional(offer.side, offer.limit, offer.lots), TRUE)

AuthorizeSubmit(offer) ==
    /\ offer.account \in DOMAIN Profiles
    /\ AuthorizeOrderAgainst(offer, risk.exposure[offer.account])

\* The target gives its reservation back first.
AuthorizeReplace(id, offer) ==
    /\ offer.account \in DOMAIN Profiles
    /\ AuthorizeOrderAgainst(offer, Adjusted(risk.exposure[offer.account], risk.reservations[id], -1))

----------------------------------------------------------------------------
(* What a report does to the exposures *)

ReservationOf(order) ==
    [account |-> order.account, side |-> order.side, constraint |-> order.limit,
     lots |-> order.lots]

InsertReservation(state, id, reservation) ==
    [state EXCEPT !.exposure[reservation.account] = Adjusted(@, reservation, 1),
                  !.reservations = (id :> reservation) @@ @]

RemoveReservation(state, id) ==
    LET reservation == state.reservations[id]
    IN  [state EXCEPT !.exposure[reservation.account] = Adjusted(@, reservation, -1),
                      !.reservations = Without(@, {id})]

DecrementReservation(state, id, lots) ==
    LET current == state.reservations[id]
        removed == RemoveReservation(state, id)
    IN  IF lots = current.lots THEN removed
        ELSE InsertReservation(removed, id, [current EXCEPT !.lots = @ - lots])

ApplyEvent(state, event) ==
    CASE event.kind = "accepted" ->
            InsertReservation(state, event.order.id, ReservationOf(event.order))
      [] event.kind = "cancelled" -> RemoveReservation(state, event.order.id)
      [] event.kind = "amended" ->
            DecrementReservation(state, event.order.id, event.previous - event.order.lots)
      [] event.kind = "trade" ->
            DecrementReservation(DecrementReservation(state, event.trade.buy, event.trade.lots),
                                 event.trade.sell, event.trade.lots)
      [] event.kind = "remainderCancelled" -> RemoveReservation(state, event.id)
      [] OTHER -> state

\* What an account buys, less what it sells, in the trades of a report.
NettedLots(reported, account) ==
    LET Signed(sum, event) ==
            IF event.kind # "trade" THEN sum
            ELSE sum + (IF book.orders[event.trade.buy].account = account THEN event.trade.lots ELSE 0)
                     - (IF book.orders[event.trade.sell].account = account THEN event.trade.lots ELSE 0)
    IN  FoldLeft(Signed, 0, reported)

Applied(reported) ==
    LET reserved == FoldLeft(ApplyEvent, risk, reported)
    IN  [reserved EXCEPT !.exposure =
            [account \in DOMAIN @ |->
                [@[account] EXCEPT !.position = @ + NettedLots(reported, account)]]]

----------------------------------------------------------------------------
(* Commands of the managed engine *)

\* Whatever is committed, its report is applied.
Follows == risk' = Applied(report')

\* A refusal by risk is a rejected command.
ManagedReject == Reject /\ Follows

ManagedSubmit(offer) == AuthorizeSubmit(offer) /\ Submit(offer) /\ Follows

ManagedReplace(id, offer) == AuthorizeReplace(id, offer) /\ ReplaceOrder(id, offer) /\ Follows

ManagedAmend(id, lots) == AmendOrder(id, lots) /\ Follows

ManagedCancel(id) == Cancel(id) /\ Follows

ManagedMassCancel(account, sides) == MassCancel(account, sides) /\ Follows

ManagedPhaseControl(target) == PhaseControl(target) /\ Follows

ManagedIndicate(call) == Indicate(call) /\ Follows

ManagedUncross(call, policy) == Uncross(call, policy) /\ Follows

----------------------------------------------------------------------------
(* Properties *)

\* A checkpoint holds the orders and the positions: what it restores.
RestoreDirect ==
    LET bare == [exposure |-> [account \in DOMAIN risk.exposure |->
                                  NoExposure(risk.exposure[account].position)],
                 reservations |-> <<>>]
        Insert(state, id) == InsertReservation(state, id, ReservationOf(book.orders[id]))
    IN  FoldLeft(Insert, bare, SetToSeq(Active(book)))

\* Positions stay within every limit of their accounts, whatever of the open
\* orders an uncross executes; and reservations and exposures, which only
\* follow events, are those a checkpoint of the book would restore.
ExposureFollowsBook ==
    /\ risk = RestoreDirect
    /\ \A account \in DOMAIN Profiles :
          LET limits == Profiles[account].limits
              exposure == risk.exposure[account]
          IN  /\ WorstCaseWithin(exposure.position, exposure.open, limits)
              /\ exposure.open["buy"] + exposure.open["sell"] <= limits.openLots
              /\ exposure.notional <= limits.openNotional
              /\ exposure.orders <= limits.orders

=============================================================================
