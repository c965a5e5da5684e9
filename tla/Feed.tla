--------------------------------- MODULE Feed ---------------------------------
(***************************************************************************)
(* The feed from a publisher to one replica.  UpdateBatches reach the replica    *)
(* late, out of order, repeatedly, damaged or never; snapshots are as old  *)
(* as the client who holds them likes; the ring beside the publisher is    *)
(* given what was published some time after, and may be built anew.        *)
(*                                                                         *)
(* The replica refuses what does not follow its sequence.  An update that  *)
(* contradicts its depth poisons it until a snapshot repairs it.  A        *)
(* refused call changes nothing and is no step here.                       *)
(***************************************************************************)
EXTENDS Replica, ReplayRing

CONSTANTS
    PublisherLevels,    \* max_price_levels_per_side of the publisher
    ReplicaLevels,      \* and of the replica
    MaxBatch,           \* max_batch_updates of both
    PageSizes,          \* the maximum_updates of replay requests
    MaxDamages          \* a bound: batches damaged on their way

ASSUME FeedAssumption ==
    /\ PublisherLevels \in Nat \ {0} /\ ReplicaLevels \in Nat \ {0}
    /\ MaxBatch \in 1 .. Size
    /\ PageSizes \subseteq Nat \ {0} /\ MaxDamages \in Nat
    /\ Updates \subseteq [side : Sides, price : Prices, lots : Nat, count : Nat, traded : Nat]

VARIABLES
    shown,      \* what the publisher shows behind its n-th update is shown[n]
    replica,    \* [depth, sequence, trades, poisoned]
    damages     \* batches damaged so far

publisherVars == <<feedVars, shown>>
channelVars == <<publisherVars, replica, damages>>

UpdatesOf(entries) == [i \in DOMAIN entries |-> entries[i].update]
TradesIn(updates) == Cardinality({i \in DOMAIN updates : updates[i].traded > 0})

Nothing == [depth |-> NoDepth, sequence |-> 0, trades |-> 0, poisoned |-> FALSE]

SnapshotAt(n) == IF n = 0 THEN Nothing ELSE shown[n]

FeedInit == RingInit /\ shown = <<>> /\ replica = Nothing /\ damages = 0

\* Trades carry their number; one that does not follow is an error.
Applies(state, updates) ==
    LET result == ApplyUpdates(state.depth, updates)
    IN  [depth |-> result.depth, sequence |-> state.sequence + Len(updates),
         trades |-> state.trades + TradesIn(updates), poisoned |-> FALSE]

----------------------------------------------------------------------------
(* Publisher and ring *)

\* A batch the publisher may send: each update fits the depth before it, and
\* no side ever has more levels than the publisher keeps.
Publishable(updates) ==
    LET depth == SnapshotAt(Len(published)).depth
    IN  /\ ~ApplyUpdates(depth, updates).bad
        /\ \A side \in Sides : PeakLevels(depth, side, updates) <= PublisherLevels

PublishBatch ==
    \E updates \in UNION {[1 .. size -> Updates] : size \in 1 .. MaxBatch} :
        /\ Publish(updates)
        /\ Publishable(updates)
        /\ shown' = shown \o [i \in DOMAIN updates |->
                        Applies(SnapshotAt(Len(published)), SubSeq(updates, 1, i))]
        /\ UNCHANGED <<replica, damages>>

PushBatch ==
    /\ \E first, last \in 1 .. Len(published) : PushUpdates(first, last)
    /\ UNCHANGED <<shown, replica, damages>>

RestartRing == NewRing /\ UNCHANGED <<shown, replica, damages>>

----------------------------------------------------------------------------
(* The replica *)

\* Update after update; where one fails the replica stops, poisoned.
AppliesUntilBad(state, updates) ==
    LET bad(n) == ApplyUpdates(state.depth, SubSeq(updates, 1, n)).bad
        failed == {n \in 1 .. Len(updates) : bad(n)}
    IN  IF failed = {} THEN Applies(state, updates)
        ELSE LET good == SubSeq(updates, 1, Min(failed) - 1)
             IN  [Applies(state, good) EXCEPT
                    !.depth = ApplyUpdates(state.depth, SubSeq(updates, 1, Min(failed))).depth,
                    !.poisoned = TRUE]

\* Mutant of BatchFits: a batch may begin behind a gap.
BatchFitsBehindGap(first, updates) ==
    /\ ~replica.poisoned
    /\ Len(updates) <= MaxBatch
    /\ first > replica.sequence
    /\ \A side \in Sides : PeakLevels(replica.depth, side, updates) <= ReplicaLevels

\* Checked before the first update is applied.
BatchFits(first, updates) ==
    /\ ~replica.poisoned
    /\ Len(updates) <= MaxBatch
    /\ first = replica.sequence + 1
    /\ \A side \in Sides : PeakLevels(replica.depth, side, updates) <= ReplicaLevels

PublishedUpdates(first, last) == UpdatesOf(SubSeq(published, first, last))

ReceiveBatch ==
    \E first, last \in 1 .. Len(published) :
        LET updates == PublishedUpdates(first, last)
        IN  /\ first <= last /\ IsBatch(first, last)
            /\ BatchFits(first, updates)
            /\ replica' = AppliesUntilBad(replica, updates)
            /\ UNCHANGED <<publisherVars, damages>>

\* One update of a batch on its own.
ReceiveUpdate ==
    \E n \in 1 .. Len(published) :
        LET updates == PublishedUpdates(n, n)
        IN  /\ BatchFits(n, updates)
            /\ replica' = AppliesUntilBad(replica, updates)
            /\ UNCHANGED <<publisherVars, damages>>

\* A batch with a print of one lot too many.
ReceiveDamaged ==
    \E first, last \in 1 .. Len(published) :
        \E n \in first .. last :
            LET updates == [PublishedUpdates(first, last) EXCEPT ![n - first + 1].traded = @ + 1]
            IN  /\ damages < MaxDamages
                /\ IsBatch(first, last)
                /\ published[n].update.traded > 0
                /\ BatchFits(first, updates)
                /\ replica' = AppliesUntilBad(replica, updates)
                /\ damages' = damages + 1
                /\ UNCHANGED publisherVars

----------------------------------------------------------------------------
(* Recovery *)

Boundary(n) == n > 0 => published[n].ends

FitsReplica(snapshot) ==
    \A side \in Sides : Cardinality(DepthLevels(snapshot.depth, side)) <= ReplicaLevels

\* What a healthy replica asks of a snapshot or a recovered state that is not
\* behind it.
SameLineage(before, after) ==
    before.poisoned \/ (IF after.sequence = before.sequence THEN after = before
                        ELSE after.trades >= before.trades)

\* Mutant of AppliesSnapshot: a poisoned replica takes any snapshot.
AppliesSnapshotWhenPoisoned(snapshot) ==
    /\ snapshot.sequence >= replica.sequence \/ replica.poisoned
    /\ FitsReplica(snapshot)
    /\ SameLineage(replica, snapshot)
    /\ replica' = snapshot
    /\ UNCHANGED <<publisherVars, damages>>

\* Mutant of AppliesSnapshot: the poison outlives the repair.
AppliesSnapshotStaysPoisoned(snapshot) ==
    /\ snapshot.sequence >= replica.sequence
    /\ FitsReplica(snapshot)
    /\ SameLineage(replica, snapshot)
    /\ replica' = [snapshot EXCEPT !.poisoned = replica.poisoned]
    /\ UNCHANGED <<publisherVars, damages>>

AppliesSnapshot(snapshot) ==
    /\ snapshot.sequence >= replica.sequence
    /\ FitsReplica(snapshot)
    /\ SameLineage(replica, snapshot)
    /\ replica' = snapshot
    /\ UNCHANGED <<publisherVars, damages>>

\* A snapshot of any time.
ApplySnapshot == \E n \in 0 .. Len(published) : Boundary(n) /\ AppliesSnapshot(SnapshotAt(n))

\* The page is applied to the snapshot and kept only if every update fits
\* and the replica does not get behind where it was.
AppliesReplay(snapshot, page) ==
    LET updates == UpdatesOf(page)
        recovered == AppliesUntilBad(snapshot, updates)
    IN  /\ FitsReplica(snapshot)
        /\ snapshot.sequence >= replica.sequence => SameLineage(replica, snapshot)
        /\ \A side \in Sides : PeakLevels(snapshot.depth, side, updates) <= ReplicaLevels
        /\ ~recovered.poisoned
        /\ recovered.sequence >= replica.sequence
        /\ SameLineage(replica, recovered)
        /\ replica' = recovered
        /\ UNCHANGED <<publisherVars, damages>>

ApplySnapshotAndReplay ==
    \E n \in 0 .. Len(published), size \in PageSizes :
        LET page == Replay(n, size)
        IN  Boundary(n) /\ page # <<>> /\ AppliesReplay(SnapshotAt(n), page)

\* A client that goes on from where its replica is.  In the call auction's
\* feed a page is a sequence of whole batches.
FollowRing ==
    \E size \in PageSizes :
        LET page == Replay(replica.sequence, size)
        IN  /\ page # <<>>
            /\ ~replica.poisoned
            /\ \A side \in Sides :
                  PeakLevels(replica.depth, side, UpdatesOf(page)) <= ReplicaLevels
            /\ replica' = AppliesUntilBad(replica, UpdatesOf(page))
            /\ UNCHANGED <<publisherVars, damages>>

\* And takes the publisher's snapshot when its replica is poisoned or the
\* ring no longer has what follows it.
SnapshotNow ==
    /\ replica.poisoned \/ (Replay(replica.sequence, Size) = <<>> /\ replica.sequence < latest)
    /\ AppliesSnapshot(SnapshotAt(Len(published)))

----------------------------------------------------------------------------

FeedNext ==
    \/ PublishBatch \/ PushBatch \/ RestartRing
    \/ ReceiveBatch \/ ReceiveUpdate \/ ReceiveDamaged
    \/ ApplySnapshot \/ ApplySnapshotAndReplay \/ FollowRing \/ SnapshotNow

FeedSpec == FeedInit /\ [][FeedNext]_channelVars

\* The collector hands the ring what was published, and the client asks the
\* ring, and the publisher where the ring cannot help.
ChannelFairness ==
    WF_channelVars(PushBatch) /\ SF_channelVars(FollowRing) /\ SF_channelVars(SnapshotNow)

----------------------------------------------------------------------------
(* Properties *)

\* A replica that is not poisoned shows what the publisher showed at its
\* sequence, whichever batches, pages and snapshots brought it there.
ReplicaShowsPublished ==
    ~replica.poisoned => replica = SnapshotAt(replica.sequence)

\* No batch, snapshot or page takes a replica back, not even a poisoned one.
NeverGoesBack == [][replica'.sequence >= replica.sequence]_channelVars

\* A client that keeps asking ends where the publisher ends.
CatchesUp == <>[](~replica.poisoned /\ replica.sequence = Len(published))

----------------------------------------------------------------------------
(* The updates of its run: a bid that is shown, traded and followed by an   *)
(* offer at its price.                                                      *)

Change(side, price, lots, traded) ==
    [side |-> side, price |-> price, lots |-> lots, count |-> IF lots = 0 THEN 0 ELSE 1,
     traded |-> traded]

FewUpdates == {Change("buy", 1, 1, 0), Change("buy", 1, 0, 1), Change("sell", 1, 1, 0)}

=============================================================================
