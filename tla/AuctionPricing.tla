--------------------------- MODULE AuctionPricing ---------------------------
(***************************************************************************)
(* The kernels of a call auction, pure functions of the interest: at which *)
(* price of a band it clears, and which orders are filled there.           *)
(*                                                                         *)
(* Interest is, for every side, the lots bid or asked at every price and   *)
(* the lots without a limit.                                               *)
(***************************************************************************)
EXTENDS Instrument, SequencesExt, FiniteSets

CONSTANT Quantum    \* the increment of quantities, in lots

ASSUME AuctionPricingAssumption == Quantum \in Nat \ {0}

PricePolicies == [pressure : {"ignore", "favorImbalance"}, last : {"lower", "higher"}]

Bands == {band \in [minimum : Prices, maximum : Prices] : band.minimum <= band.maximum}

Apart(a, b) == IF a >= b THEN a - b ELSE b - a

\* Numbers from the least up: behind as many as are less.
Ascending(numbers) ==
    [i \in 1 .. Cardinality(numbers) |->
        CHOOSE n \in numbers : Cardinality({m \in numbers : m < n}) = i - 1]

----------------------------------------------------------------------------
(* The clearing price *)

Clearing(price, buys, sells) ==
    [price |-> price, executable |-> Least(buys, sells), buys |-> buys, sells |-> sells]

Imbalance(clearing) == Apart(clearing.buys, clearing.sells)

ImbalanceSide(clearing) ==
    CASE clearing.buys > clearing.sells -> "buy"
      [] clearing.sells > clearing.buys -> "sell"
      [] OTHER -> "none"

\* Nothing can execute.
NoClearing == Clearing(0, 0, 0)

\* Most executed, least left over, towards the side left over, nearest to the
\* reference, and then the policy's last word.
IsBetterThan(a, b, reference, policy) ==
    LET pressed == policy.pressure = "favorImbalance" /\ ImbalanceSide(a) = ImbalanceSide(b)
                   /\ ImbalanceSide(a) # "none" /\ a.price # b.price
        higher == IF pressed THEN ImbalanceSide(a) = "buy" ELSE policy.last = "higher"
        distance == [c \in {a, b} |-> Apart(c.price, reference)]
    IN  CASE a.executable # b.executable -> a.executable > b.executable
          [] a.executable = b.executable /\ Imbalance(a) # Imbalance(b) ->
                Imbalance(a) < Imbalance(b)
          [] OTHER -> IF ~pressed /\ distance[a] # distance[b] THEN distance[a] < distance[b]
                      ELSE IF higher THEN a.price > b.price ELSE a.price < b.price

\* Between two prices at which demand or supply changes all prices clear the
\* same lots, and this is the best of them.
IntervalCandidatePrice(lower, upper, reference, demand, supply, policy) ==
    CASE policy.pressure = "favorImbalance" /\ demand > supply -> upper
      [] policy.pressure = "favorImbalance" /\ supply > demand -> lower
      [] OTHER -> Least(Most(reference, lower), upper)

LotsAt(levels, prices) == FoldFunctionOnSet(+, 0, levels, prices)

\* Mutant of Transitions: the prices just above a bid are not stopped at.
TransitionsAtOrders(interest, band) ==
    {price \in band.minimum + 1 .. band.maximum :
        interest.levels["buy"][price] # 0 \/ interest.levels["sell"][price] # 0}

\* A bid leaves the demand at the price above its own, an ask joins the
\* supply at its own price.
Transitions(interest, band) ==
    {price \in band.minimum + 1 .. band.maximum :
        interest.levels["buy"][price - 1] # 0 \/ interest.levels["sell"][price] # 0}

\* Where a sweep starts: no price is passed, nothing found.
SweepStart(interest, band) ==
    [lower |-> band.minimum, best |-> NoClearing,
     demand |-> interest.market["buy"] + LotsAt(interest.levels["buy"], band.minimum .. MaxPrice),
     supply |-> interest.market["sell"] + LotsAt(interest.levels["sell"], 1 .. band.minimum)]

\* The prices up to the next transition are compared with the best so far.
CloseInterval(sweep, upper, reference, policy) ==
    LET price == IntervalCandidatePrice(sweep.lower, upper, reference, sweep.demand,
                                        sweep.supply, policy)
        candidate == Clearing(price, sweep.demand, sweep.supply)
    IN  IF /\ candidate.executable # 0
           /\ \/ sweep.best = NoClearing
              \/ IsBetterThan(candidate, sweep.best, reference, policy)
        THEN [sweep EXCEPT !.best = candidate]
        ELSE sweep

PassTransition(interest, sweep, price, reference, policy) ==
    [CloseInterval(sweep, price - 1, reference, policy) EXCEPT
        !.lower = price,
        !.demand = @ - interest.levels["buy"][price - 1],
        !.supply = @ + interest.levels["sell"][price]]

Sweep(interest, band, reference, policy) ==
    FoldLeft(LAMBDA sweep, price : PassTransition(interest, sweep, price, reference, policy),
             SweepStart(interest, band), Ascending(Transitions(interest, band)))

\* One sweep over the band, from one transition to the next.
DiscoverBoundedClearingPrice(interest, band, reference, policy) ==
    CloseInterval(Sweep(interest, band, reference, policy), band.maximum, reference, policy).best

----------------------------------------------------------------------------
(* Allocation *)

IsEligible(order, price) ==
    \/ order.limit = Market
    \/ order.side = "buy" /\ order.limit >= price
    \/ order.side = "sell" /\ order.limit <= price

\* Orders without a limit, then by price; then by class, and by arrival.
Precedes(a, b) ==
    LET worse == IF a.side = "buy" THEN a.limit < b.limit ELSE a.limit > b.limit
    IN  IF a.limit # b.limit THEN a.limit = Market \/ (b.limit # Market /\ ~worse)
        ELSE IF a.class # b.class THEN a.class < b.class
        ELSE a.sequence < b.sequence

\* Orders of one side, the best priority first.
ByPriority(orders) ==
    [i \in 1 .. Cardinality(orders) |->
        CHOOSE order \in orders : Cardinality({other \in orders : Precedes(other, order)}) = i - 1]

SameAllocationTier(a, b) == a.limit = b.limit /\ a.class = b.class

LotsAmong(orders, indices) ==
    FoldFunctionOnSet(+, 0, [k \in indices |-> orders[k].lots], indices)

LotsOf(orders) == LotsAmong(orders, DOMAIN orders)

\* The lots the orders of one side get, from the first to the last.
PriceTimeFills(orders, executable) ==
    [i \in DOMAIN orders |->
        Most(0, Least(orders[i].lots, executable - LotsAmong(orders, 1 .. i - 1)))]

\* Mutant of Tier: classes at one limit share alike.
TierOfLimit(orders, i) == {j \in DOMAIN orders : orders[i].limit = orders[j].limit}

Tier(orders, i) == {j \in DOMAIN orders : SameAllocationTier(orders[i], orders[j])}

\* What the tiers before an order's leave of the executable lots.
LeftForTier(orders, executable) ==
    [i \in DOMAIN orders |-> executable - LotsAmong(orders, 1 .. Min(Tier(orders, i)) - 1)]

\* The whole quanta of every order's proportion of what is left.
Proportions(orders, left) ==
    [i \in DOMAIN orders |->
        ((orders[i].lots \div Quantum) * (left[i] \div Quantum))
            \div (LotsAmong(orders, Tier(orders, i)) \div Quantum)]

\* The quanta that rounding left over go to the first orders with room.
TakesResidue(orders, i, residue, base) ==
    LET takers == {j \in Tier(orders, i) : base[j] < orders[j].lots \div Quantum}
    IN  i \in takers /\ Cardinality({j \in takers : j < i}) < residue

\* A tier for which too little is left is shared by quantity, in quanta.
SharesOf(orders, left, base) ==
    [i \in DOMAIN orders |->
        LET residue == left[i] \div Quantum
                       - FoldFunctionOnSet(+, 0, [j \in Tier(orders, i) |-> base[j]], Tier(orders, i))
        IN  CASE left[i] <= 0 -> 0
              [] left[i] >= LotsAmong(orders, Tier(orders, i)) -> orders[i].lots
              [] OTHER ->
                   Quantum * (base[i] + IF TakesResidue(orders, i, residue, base) THEN 1 ELSE 0)]

ProRataShares(orders, left) == SharesOf(orders, left, Proportions(orders, left))

ProRataFills(orders, executable) == ProRataShares(orders, LeftForTier(orders, executable))

AppendPolicyFills(orders, executable, policy) ==
    IF policy = "priceTime" THEN PriceTimeFills(orders, executable)
    ELSE ProRataFills(orders, executable)

=============================================================================
