------------------------------ MODULE RiskRules ------------------------------
(***************************************************************************)
(* The arithmetic of pre-trade risk that continuous trading and call       *)
(* auctions share: what an order is worth at most, what an account has     *)
(* open, and whether its profile lets it open more.                        *)
(***************************************************************************)
EXTENDS Instrument

CONSTANTS
    Profiles,   \* the profiles of the registered accounts
    Origin      \* the price whose raw value is zero: those below are negative

Within(position, limits) ==
    IF position >= 0 THEN position <= limits.long ELSE -position <= limits.short

ASSUME RiskAssumption ==
    /\ Origin \in Int
    /\ \A account \in DOMAIN Profiles :
          LET profile == Profiles[account]
              limits == profile.limits
          IN  /\ profile.state \in {"active", "reduceOnly", "blocked"}
              /\ \A name \in DOMAIN limits : limits[name] \in Nat \ {0}
              /\ limits.orderLots <= limits.openLots
              /\ limits.orderNotional <= limits.openNotional
              /\ Within(profile.initial, limits)

NoExposure(position) ==
    [position |-> position, open |-> [side \in Sides |-> 0], notional |-> 0, orders |-> 0]

----------------------------------------------------------------------------
(* Valuation *)

Magnitude(price) == IF price >= Origin THEN price - Origin ELSE Origin - price

\* The most an order may pay or receive for a lot: a buy trades from the
\* lowest price up to its limit, a sell from its limit up to the highest.
ValuationPerLot(side, constraint) ==
    CASE constraint = Market -> Most(Magnitude(1), Magnitude(MaxPrice))
      [] constraint # Market /\ side = "buy" -> Most(Magnitude(constraint), Magnitude(1))
      [] constraint # Market /\ side = "sell" -> Most(Magnitude(constraint), Magnitude(MaxPrice))

Notional(side, constraint, lots) == lots * ValuationPerLot(side, constraint)

----------------------------------------------------------------------------
(* Authorization *)

WorstCaseWithin(position, open, limits) ==
    position + open["buy"] <= limits.long /\ position - open["sell"] >= -limits.short

\* Mutant of StrictlyReduces: what is already open is not counted.
StrictlyReducesAlone(exposure, side, lots) ==
    \/ exposure.position > 0 /\ side = "sell" /\ lots <= exposure.position
    \/ exposure.position < 0 /\ side = "buy" /\ lots <= -exposure.position

StrictlyReduces(exposure, side, lots) ==
    LET total == exposure.open[side] + lots
    IN  \/ exposure.position > 0 /\ side = "sell" /\ total <= exposure.position
        \/ exposure.position < 0 /\ side = "buy" /\ total <= -exposure.position

PretradeAllowed(profile, exposure, side, lots, notional, mayRest) ==
    LET limits == profile.limits
        rests == IF mayRest THEN 1 ELSE 0
        open == exposure.open["buy"] + exposure.open["sell"] + rests * lots
    IN  /\ profile.state # "blocked"
        /\ profile.state = "reduceOnly" => StrictlyReduces(exposure, side, lots)
        /\ lots <= limits.orderLots /\ notional <= limits.orderNotional
        /\ exposure.orders + rests <= limits.orders
        /\ open <= limits.openLots
        /\ exposure.notional + rests * notional <= limits.openNotional
        /\ WorstCaseWithin(exposure.position, [exposure.open EXCEPT ![side] = @ + lots], limits)

\* The exposure with `sign' times a reservation added.
Adjusted(exposure, reservation, sign) ==
    LET notional == Notional(reservation.side, reservation.constraint, reservation.lots)
    IN  [exposure EXCEPT !.open[reservation.side] = @ + sign * reservation.lots,
                         !.notional = @ + sign * notional,
                         !.orders = @ + sign]

=============================================================================
