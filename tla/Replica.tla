------------------------------- MODULE Replica -------------------------------
(***************************************************************************)
(* What a market-data replica does with updates: it knows levels, not      *)
(* orders.  An update sets one level to a quantity and an order count; a    *)
(* trade's update must also be the old level less the traded lots.         *)
(***************************************************************************)
EXTENDS Matching

NoLevel == [lots |-> 0, count |-> 0]
NoDepth == [side \in Sides |-> [price \in Prices |-> NoLevel]]

DepthLevels(depth, side) == {price \in Prices : depth[side][price] # NoLevel}

UncrossedDepth(depth) ==
    \A bid \in DepthLevels(depth, "buy"), ask \in DepthLevels(depth, "sell") : bid < ask

\* A print takes its lots from the level, and at most one order; one at a
\* price that shows nothing, a hidden order's, leaves it so.
Reconciles(depth, update) ==
    LET previous == depth[update.side][update.price]
    IN  update.traded > 0 =>
           IF previous = NoLevel THEN update.lots = 0 /\ update.count = 0
           ELSE /\ update.lots = previous.lots - update.traded
                /\ update.count \in {previous.count, previous.count - 1}
                /\ update.lots = 0 => update.count = 0

SetLevel(depth, update) ==
    [depth EXCEPT ![update.side][update.price] =
        IF update.lots = 0 THEN NoLevel ELSE [lots |-> update.lots, count |-> update.count]]

\* One update; where it does not fit `bad' is set, and stays.
ApplyUpdate(state, update) ==
    LET set == SetLevel(state.depth, update)
    IN  IF state.bad \/ ~Reconciles(state.depth, update) THEN [state EXCEPT !.bad = TRUE]
        ELSE [depth |-> set, bad |-> ~UncrossedDepth(set)]

\* The depth behind each update of a batch.
AppliedUpdates(depth, updates) ==
    LET after[n \in 0 .. Len(updates)] ==
            IF n = 0 THEN [depth |-> depth, bad |-> FALSE]
            ELSE ApplyUpdate(after[n - 1], updates[n])
    IN  after
ApplyUpdates(depth, updates) == AppliedUpdates(depth, updates)[Len(updates)]

\* The most levels a side has on the way through a batch.
PeakLevels(depth, side, updates) ==
    LET after(n) == FoldLeft(SetLevel, depth, SubSeq(updates, 1, n))
    IN  Max({Cardinality(DepthLevels(after(n), side)) : n \in 0 .. Len(updates)})

=============================================================================
