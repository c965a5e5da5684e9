------------------------------ MODULE FeedProofs ------------------------------
(***************************************************************************)
(* A replica that is not poisoned shows what the publisher showed at its   *)
(* sequence, never goes back, and is poisoned by a damaged batch only: for *)
(* every set of updates, every size of ring, batch and page, and feeds of  *)
(* every length.  The replay ring holds the last updates of the feed and   *)
(* its pages go on behind their cursor, for rings of every size.           *)
(*                                                                         *)
(* The invariant says of the publisher that each thing it shows is the one *)
(* before it with one update more.  A batch, a page or a damaged batch is  *)
(* then followed update by update: as long as none is bad the replica is   *)
(* where the publisher was.                                                *)
(***************************************************************************)
EXTENDS Feed, FiniteSetTheorems, WellFoundedInduction, TLAPS

----------------------------------------------------------------------------
(* The ring.  RingHoldsSuffix speaks of sequences; a push moves slots.  The *)
(* invariant is therefore read once more as a statement about the distance  *)
(* of a slot from the next one to be written, which a push shifts.          *)

RingInv == RingTypeOK /\ RingHoldsSuffix

\* ring_advance stays in the ring, and two advances are one.
LEMMA Advances ==
    ASSUME NEW index \in Slots, NEW distance \in 0 .. Size
    PROVE  /\ RingAdvance(index, distance) \in Slots
           /\ \A further \in 0 .. Size : distance + further <= Size =>
                 RingAdvance(RingAdvance(index, distance), further)
                    = RingAdvance(index, distance + further)
  BY RingAssumption DEF RingAdvance, Slots

\* The k-th of the entries kept before a slot, and its distance from it.
LEMMA SlotArithmetic ==
    ASSUME NEW next \in Slots, NEW kept \in 0 .. Size, NEW k \in 0 .. kept - 1,
           NEW earliest, earliest = IF next >= kept THEN next - kept ELSE Size - (kept - next)
    PROVE  LET slot == RingAdvance(earliest, k)
           IN  /\ slot \in Slots
               /\ Size - kept + k = IF slot >= next THEN slot - next ELSE slot + Size - next
<1>1. Size \in Nat /\ next \in 0 .. Size - 1
  BY RingAssumption DEF Slots
<1>2. CASE next >= kept
  <2>1. earliest = next - kept
    BY <1>2
  <2> QED BY <1>1, <1>2, <2>1 DEF RingAdvance, Slots
<1>3. CASE ~(next >= kept)
  <2>1. earliest = Size - (kept - next)
    BY <1>3
  <2> QED BY <1>1, <1>3, <2>1 DEF RingAdvance, Slots
<1> QED BY <1>2, <1>3

THEOREM RingInitially == RingInit => RingInv
<1> SUFFICES ASSUME RingInit PROVE RingInv
  OBVIOUS
<1>1. RingTypeOK
  BY RingAssumption DEF RingInit, RingTypeOK, Slots
<1>2. RingHoldsSuffix
  BY DEF RingInit, RingHoldsSuffix
<1> QED BY <1>1, <1>2 DEF RingInv

LEMMA PublishKeeps ==
    ASSUME RingInv, NEW batch \in UpdateBatches, Publish(batch)
    PROVE  RingInv'
<1>1. PICK size \in 1 .. Size : batch \in [1 .. size -> Updates]
  BY DEF UpdateBatches
<1> DEFINE added == [i \in 1 .. Len(batch) |->
                        [update |-> batch[i], starts |-> i = 1, ends |-> i = Len(batch)]]
<1>2. batch \in Seq(Updates) /\ Len(batch) = size /\ size \in Nat
  BY <1>1, RingAssumption
<1>3. added \in Seq(Entries) /\ Len(added) = size
  BY <1>1, <1>2 DEF Entries
<1>4. published' = published \o added
  BY DEF Publish
<1>5. /\ published' \in Seq(Entries)
      /\ Len(published') = Len(published) + size
      /\ \A i \in 1 .. Len(published) : published'[i] = published[i]
  BY <1>2, <1>3, <1>4 DEF RingInv, RingTypeOK
<1>6. UNCHANGED <<preserve, slots, nextSlot, retained, latest>>
  BY DEF Publish
<1>7. RingTypeOK'
  BY <1>2, <1>5, <1>6 DEF RingInv, RingTypeOK, Slots
<1>8. RingHoldsSuffix'
  <2> SUFFICES ASSUME NEW sequence \in latest - retained + 1 .. latest
               PROVE  RetainedSlot(sequence)' = Stored(sequence)'
    BY <1>6 DEF RingHoldsSuffix
  <2>1. sequence \in 1 .. Len(published)
    BY DEF RingInv, RingTypeOK
  <2>2. Stored(sequence)' = Stored(sequence)
    BY <2>1, <1>5, <1>6 DEF Stored
  <2>3. RetainedSlot(sequence)' = RetainedSlot(sequence)
    BY <1>6 DEF RetainedSlot, RingAdvance, EarliestSlot
  <2> QED BY <2>2, <2>3 DEF RingInv, RingHoldsSuffix
<1> QED BY <1>7, <1>8 DEF RingInv

LEMMA PushKeeps ==
    ASSUME RingInv, NEW first \in 1 .. Len(published), NEW last \in 1 .. Len(published),
           PushUpdates(first, last)
    PROVE  RingInv'
<1> DEFINE count == last - latest
           new == IF retained + count <= Size THEN retained + count ELSE Size
<1>1. /\ count \in 1 .. Size
      /\ latest + count \in 1 .. Len(published)
  BY RingAssumption DEF PushUpdates, RingInv, RingTypeOK
<1>2. /\ slots' = [slot \in Slots |->
                      IF Distance(slot) < count THEN Stored(latest + 1 + Distance(slot))
                      ELSE slots[slot]]
      /\ nextSlot' = RingAdvance(nextSlot, count)
      /\ retained' = new /\ latest' = latest + count
      /\ published' = published /\ preserve' = preserve
  BY DEF PushUpdates, Pushed
<1>3. \A sequence \in 1 .. Len(published) : Stored(sequence) \in Entries
  <2> SUFFICES ASSUME NEW sequence \in 1 .. Len(published) PROVE Stored(sequence) \in Entries
    OBVIOUS
  <2>1. published[sequence] \in Entries
    BY DEF RingInv, RingTypeOK
  <2> QED BY <2>1 DEF Stored, Entries
<1>4. nextSlot' \in Slots
  BY <1>1, <1>2, Advances DEF RingInv, RingTypeOK
<1>5. new \in 0 .. Size /\ new <= latest + count
  BY <1>1, RingAssumption DEF RingInv, RingTypeOK
<1>6. slots' \in [Slots -> Entries \cup {Empty}]
  <2> SUFFICES ASSUME NEW slot \in Slots
               PROVE  (IF Distance(slot) < count THEN Stored(latest + 1 + Distance(slot))
                       ELSE slots[slot]) \in Entries \cup {Empty}
    BY <1>2
  <2>1. CASE Distance(slot) < count
    <3>1. latest + 1 + Distance(slot) \in 1 .. Len(published)
      BY <2>1, <1>1, RingAssumption DEF Distance, Slots, RingInv, RingTypeOK
    <3> QED BY <2>1, <3>1, <1>3
  <2>2. CASE ~(Distance(slot) < count)
    BY <2>2 DEF RingInv, RingTypeOK
  <2> QED BY <2>1, <2>2
<1>7. RingTypeOK'
  BY <1>1, <1>2, <1>4, <1>5, <1>6 DEF RingInv, RingTypeOK, Slots
\* The new values under names of their own, for the arithmetic.
<1> DEFINE newLatest == latest'
           newNext == nextSlot'
           newEarliest == EarliestSlot'
<1>8. /\ Size \in Nat /\ nextSlot \in 0 .. Size - 1 /\ retained \in 0 .. Size
      /\ latest \in Nat /\ retained <= latest
  BY RingAssumption DEF RingInv, RingTypeOK, Slots
<1>9. /\ newNext \in Slots
      /\ newNext = IF count < Size - nextSlot THEN nextSlot + count ELSE count - (Size - nextSlot)
      /\ newLatest = latest + count
      /\ newEarliest = IF newNext >= new THEN newNext - new ELSE Size - (new - newNext)
  BY <1>2, <1>4 DEF RingAdvance, EarliestSlot
<1>10. \A sequence : RetainedSlot(sequence)'
                        = slots'[RingAdvance(newEarliest, sequence - (newLatest - new + 1))]
  BY <1>2 DEF RetainedSlot
<1>11. \A sequence : Stored(sequence)' = Stored(sequence)
  BY <1>2 DEF Stored
<1>12. RingHoldsSuffix' <=> \A sequence \in newLatest - new + 1 .. newLatest :
                               RetainedSlot(sequence)' = Stored(sequence)'
  BY <1>2 DEF RingHoldsSuffix
<1> HIDE DEF newLatest, newNext, newEarliest
<1>13. ASSUME NEW sequence \in newLatest - new + 1 .. newLatest
       PROVE  slots'[RingAdvance(newEarliest, sequence - (newLatest - new + 1))] = Stored(sequence)
  <2> DEFINE k == sequence - (newLatest - new + 1)
             slot == RingAdvance(newEarliest, k)
  <2>1. k \in 0 .. new - 1 /\ sequence \in Nat
    BY <1>1, <1>5, <1>8, <1>9
  <2>2. /\ slot \in Slots
        /\ Size - new + k = IF slot >= newNext THEN slot - newNext ELSE slot + Size - newNext
    <3> HIDE DEF k, new
    <3> QED BY <2>1, <1>5, <1>9, SlotArithmetic
  <2>3. slot \in 0 .. Size - 1
    BY <2>2 DEF Slots
  <2> HIDE DEF slot
  <2>4. CASE sequence > latest
    <3>1. Distance(slot) = sequence - latest - 1 /\ sequence - latest - 1 \in 0 .. count - 1
      BY <2>1, <2>2, <2>3, <2>4, <1>1, <1>5, <1>8, <1>9 DEF Distance
    <3>2. Distance(slot) < count /\ latest + 1 + Distance(slot) = sequence
      BY <3>1, <1>1, <1>8
    <3>3. slots'[slot] = Stored(latest + 1 + Distance(slot))
      BY <2>2, <3>2, <1>2
    <3> QED BY <3>2, <3>3 DEF slot
  <2>5. CASE sequence <= latest
    <3> DEFINE old == RingAdvance(EarliestSlot, sequence - (latest - retained + 1))
               j == sequence - (latest - retained + 1)
    <3>1. j \in 0 .. retained - 1 /\ sequence \in latest - retained + 1 .. latest
      BY <2>1, <2>5, <1>1, <1>8, <1>9
    <3>2. old \in Slots /\ Size - retained + j = Distance(old)
      <4>1. nextSlot \in Slots /\ retained \in 0 .. Size
        BY DEF RingInv, RingTypeOK
      <4>2. EarliestSlot = IF nextSlot >= retained THEN nextSlot - retained
                           ELSE Size - (retained - nextSlot)
        BY DEF EarliestSlot
      <4>3. old = RingAdvance(EarliestSlot, j)
        OBVIOUS
      <4> HIDE DEF j, old
      <4> QED BY <3>1, <4>1, <4>2, <4>3, SlotArithmetic DEF Distance
    <3>3. old \in 0 .. Size - 1
      BY <3>2 DEF Slots
    <3>4. slots[old] = Stored(sequence)
      BY <3>1 DEF RingInv, RingHoldsSuffix, RetainedSlot
    <3> HIDE DEF old
    <3>5. slot = old
      BY <2>1, <2>2, <2>3, <2>5, <3>1, <3>2, <3>3, <1>1, <1>5, <1>8, <1>9 DEF Distance
    <3>6. ~(Distance(slot) < count)
      BY <2>1, <2>5, <3>1, <3>2, <3>5, <1>1, <1>5, <1>8, <1>9
    <3>7. slots'[slot] = slots[slot]
      BY <2>2, <3>6, <1>2
    <3> QED BY <3>4, <3>5, <3>7 DEF slot
  <2> QED BY <2>1, <2>4, <2>5, <1>8
<1>14. RingHoldsSuffix'
  BY <1>10, <1>11, <1>12, <1>13
<1> QED BY <1>7, <1>14 DEF RingInv

LEMMA NewRingKeeps ==
    ASSUME RingInv, NewRing
    PROVE  RingInv'
<1>1. RingTypeOK'
  BY RingAssumption DEF RingInv, RingTypeOK, NewRing, Slots
<1>2. RingHoldsSuffix'
  BY <1>1 DEF NewRing, RingHoldsSuffix, RingTypeOK
<1> QED BY <1>1, <1>2 DEF RingInv

\* Every step of publisher and ring keeps the invariant.
THEOREM RingSteps == RingInv /\ [RingNext]_feedVars => RingInv'
<1> SUFFICES ASSUME RingInv, [RingNext]_feedVars PROVE RingInv'
  OBVIOUS
<1>1. ASSUME NEW batch \in UpdateBatches, Publish(batch) PROVE RingInv'
  BY <1>1, PublishKeeps
<1>2. ASSUME NEW first \in 1 .. Len(published), NEW last \in 1 .. Len(published),
             PushUpdates(first, last)
      PROVE  RingInv'
  BY <1>2, PushKeeps
<1>3. CASE NewRing
  BY <1>3, NewRingKeeps
<1>4. CASE UNCHANGED feedVars
  BY <1>4 DEF feedVars, RingInv, RingTypeOK, RingHoldsSuffix, RetainedSlot, Stored, RingAdvance,
              EarliestSlot, Slots
<1> QED BY <1>1, <1>2, <1>3, <1>4 DEF RingNext

\* The ring's fields stay in their ranges (validate of the replay buffer).
THEOREM RingTypeCorrect == RingSpec => []RingTypeOK
<1>1. RingInv => RingTypeOK
  BY DEF RingInv
<1> QED BY RingInitially, RingSteps, <1>1, PTL DEF RingSpec

\* Whatever was pushed, repeated or built anew, retained_slot finds the
\* update of each sequence that the ring retains.
THEOREM RingIsSuffix == RingSpec => []RingHoldsSuffix
<1>1. RingInv => RingHoldsSuffix
  BY DEF RingInv
<1> QED BY RingInitially, RingSteps, <1>1, PTL DEF RingSpec

----------------------------------------------------------------------------
(* Pages *)

\* Where the ring keeps a sequence.
LEMMA RetainedAt ==
    ASSUME NEW sequence
    PROVE  RetainedSlot(sequence)
              = slots[RingAdvance(EarliestSlot, sequence - (latest - retained + 1))]
BY DEF RetainedSlot

\* A page that stays in what is retained is that part of the feed.
LEMMA PageIsFeed ==
    ASSUME RingInv, NEW after \in Nat, HoldsAfter(after), NEW count \in Nat, count <= latest - after
    PROVE  /\ Page(after, count) \in Seq(Entries) /\ Len(Page(after, count)) = count
           /\ \A i \in 1 .. count : /\ Page(after, count)[i] = RetainedSlot(after + i)
                                    /\ Page(after, count)[i] = Stored(after + i)
<1> DEFINE first == RingAdvance(EarliestSlot, Offset(after))
<1>1. Page(after, count) = [i \in 1 .. count |-> slots[RingAdvance(first, i - 1)]]
  BY DEF Page
<1>2. Len(Page(after, count)) = count
  BY <1>1
<1>3. ASSUME NEW i \in 1 .. count
      PROVE  RingAdvance(first, i - 1)
                = RingAdvance(EarliestSlot, (after + i) - (latest - retained + 1))
  <2>1. /\ Size \in Nat /\ nextSlot \in 0 .. Size - 1 /\ retained \in 0 .. Size
        /\ latest \in Nat /\ retained <= latest
    BY RingAssumption DEF RingInv, RingTypeOK, Slots
  <2>2. EarliestSlot \in Slots
    BY <2>1 DEF EarliestSlot, Slots
  <2>3. Offset(after) \in 0 .. Size /\ i - 1 \in 0 .. Size /\ Offset(after) + (i - 1) <= Size
    BY <2>1 DEF Offset, HoldsAfter
  <2>4. RingAdvance(first, i - 1) = RingAdvance(EarliestSlot, Offset(after) + (i - 1))
    BY <2>2, <2>3, Advances
  <2>5. Offset(after) + (i - 1) = (after + i) - (latest - retained + 1)
    BY <2>1 DEF Offset
  <2> QED BY <2>4, <2>5
<1>4. ASSUME NEW i \in 1 .. count
      PROVE  /\ Page(after, count)[i] = RetainedSlot(after + i)
             /\ RetainedSlot(after + i) = Stored(after + i)
  <2>1. Page(after, count)[i] = RetainedSlot(after + i)
    <3>1. Page(after, count)[i] = slots[RingAdvance(first, i - 1)]
      BY <1>1
    <3>2. RetainedSlot(after + i)
            = slots[RingAdvance(EarliestSlot, (after + i) - (latest - retained + 1))]
      BY RetainedAt
    <3> HIDE DEF first
    <3>3. RingAdvance(first, i - 1)
            = RingAdvance(EarliestSlot, (after + i) - (latest - retained + 1))
      BY <1>3
    <3> QED BY <3>1, <3>2, <3>3, ZenonT(30)
  <2>2. after + i \in latest - retained + 1 .. latest
    BY DEF HoldsAfter, RingInv, RingTypeOK
  <2> QED BY <2>1, <2>2 DEF RingInv, RingHoldsSuffix
<1>5. Page(after, count) \in Seq(Entries)
  <2>1. ASSUME NEW i \in 1 .. count PROVE slots[RingAdvance(first, i - 1)] \in Entries
    <3>1. Page(after, count)[i] = slots[RingAdvance(first, i - 1)]
      BY <1>1
    <3>2. after + i \in 1 .. Len(published) /\ published \in Seq(Entries)
      BY DEF HoldsAfter, RingInv, RingTypeOK
    <3>3. published[after + i] \in Entries
      BY <3>2
    <3>4. Stored(after + i) \in Entries
      BY <3>3 DEF Stored, Entries
    <3> QED BY <3>1, <3>4, <1>4
  <2> HIDE DEF first
  <2> QED BY <1>1, <2>1
<1> QED BY <1>2, <1>4, <1>5

\* Among the page lengths that end with a batch there is a longest.
LEMMA LongestShape ==
    ASSUME NEW maximum \in Nat, NEW shapes \in SUBSET (1 .. maximum), shapes # {}
    PROVE  \E count \in shapes : \A other \in shapes : other <= count
<1> DEFINE short == {n \in Nat : \E count \in shapes : n = maximum - count}
<1>1. short \subseteq Nat /\ short # {}
  <2>1. PICK count \in shapes : TRUE
    OBVIOUS
  <2>2. maximum - count \in short
    BY <2>1
  <2> QED BY <2>2
<1>2. \E n \in short : \A other \in short : ~(<<other, n>> \in OpToRel(<, Nat))
  <2> HIDE DEF short
  <2> QED BY <1>1, NatLessThanWellFounded, WFMin
<1>3. PICK n \in short : \A other \in short : ~(other < n)
  <2>1. PICK n \in short : \A other \in short : ~(<<other, n>> \in OpToRel(<, Nat))
    BY <1>2
  <2>2. ASSUME NEW other \in short, other < n PROVE FALSE
    BY <2>1, <2>2, <1>1 DEF OpToRel
  <2> QED BY <2>1, <2>2
<1>4. PICK count \in shapes : n = maximum - count
  BY <1>3
<1>5. ASSUME NEW other \in shapes PROVE other <= count
  <2>1. maximum - other \in short
    BY <1>5
  <2> QED BY <2>1, <1>3, <1>4
<1> QED BY <1>4, <1>5

\* A page of any length, from any cursor.
LEMMA PageGoesOn ==
    ASSUME RingInv, NEW after \in Nat, NEW maximum \in Nat \ {0}
    PROVE  LET page == Replay(after, maximum)
           IN  /\ page \in Seq(Entries) /\ Len(page) \in 0 .. maximum
               /\ \A i \in 1 .. Len(page) : page[i] = Stored(after + i)
               /\ preserve /\ page # <<>> => page[1].starts /\ page[Len(page)].ends
               /\ page # <<>> => after + Len(page) <= latest /\ Len(page) >= 1
<1>1. after \in Nat /\ latest \in Nat /\ maximum \in Nat /\ maximum >= 1
  BY DEF RingInv, RingTypeOK
<1>2. CASE Replay(after, maximum) = <<>>
  BY <1>2, <1>1
<1>3. CASE ~preserve /\ Replay(after, maximum) # <<>>
  <2> DEFINE available == latest - after
             count == IF available <= maximum THEN available ELSE maximum
  <2>1. HoldsAfter(after) /\ Replay(after, maximum) = Page(after, count)
    BY <1>3 DEF Replay, ReplayAfter
  <2>2. count \in Nat /\ count <= latest - after /\ count <= maximum /\ count >= 1
    BY <1>1, <2>1 DEF HoldsAfter
  <2> HIDE DEF count
  <2> QED BY <1>1, <1>3, <2>1, <2>2, PageIsFeed
<1>4. CASE preserve /\ Replay(after, maximum) # <<>>
  <2> DEFINE shapes == PageShapes(after, maximum)
             count == CHOOSE c \in shapes : \A other \in shapes : other <= c
  <2>1. /\ HoldsAfter(after) /\ BetweenBatches(after) /\ shapes # {}
        /\ Replay(after, maximum) = Page(after, count)
    BY <1>4 DEF Replay, ReplayBatchesAfter
  <2>2. shapes \in SUBSET (1 .. maximum)
    BY DEF PageShapes
  <2>3. count \in shapes
    <3> HIDE DEF shapes
    <3> QED BY <1>1, <2>1, <2>2, LongestShape
  <2>4. /\ count \in 1 .. maximum /\ count <= latest - after
        /\ RetainedSlot(after + count).ends
    BY <2>3 DEF PageShapes
  <2> HIDE DEF count
  <2>5. /\ Page(after, count) \in Seq(Entries) /\ Len(Page(after, count)) = count
        /\ \A i \in 1 .. count : /\ Page(after, count)[i] = RetainedSlot(after + i)
                                 /\ Page(after, count)[i] = Stored(after + i)
    BY <1>1, <2>1, <2>4, PageIsFeed
  <2>6. Page(after, count)[1].starts /\ Page(after, count)[count].ends
    BY <1>1, <2>1, <2>4, <2>5 DEF BetweenBatches
  <2> DEFINE page == Page(after, count)
  <2>7. count >= 1 /\ count <= maximum /\ after + count <= latest
    BY <1>1, <2>4
  <2>8. \A i \in 1 .. Len(page) : page[i] = Stored(after + i)
    BY <2>5
  <2>9. page \in Seq(Entries) /\ Len(page) = count
    BY <2>5
  <2> HIDE DEF page
  <2> QED BY <1>1, <2>1, <2>4, <2>6, <2>7, <2>8, <2>9 DEF page
<1> QED BY <1>2, <1>3, <1>4 DEF RingInv, RingTypeOK

LEMMA PagesFollow == RingInv => PagesGoOn
<1> SUFFICES ASSUME RingInv, NEW after \in 0 .. latest, NEW maximum \in 1 .. Size
             PROVE  LET page == Replay(after, maximum)
                    IN  /\ Len(page) <= maximum
                        /\ \A i \in 1 .. Len(page) : page[i] = Stored(after + i)
                        /\ preserve /\ page # <<>> => page[1].starts /\ page[Len(page)].ends
  BY DEF PagesGoOn
<1>1. after \in Nat /\ maximum \in Nat \ {0}
  BY RingAssumption DEF RingInv, RingTypeOK
<1> DEFINE page == Replay(after, maximum)
<1>2. /\ Len(page) \in 0 .. maximum
      /\ \A i \in 1 .. Len(page) : page[i] = Stored(after + i)
      /\ preserve /\ page # <<>> => page[1].starts /\ page[Len(page)].ends
  BY <1>1, PageGoesOn
<1>3. Len(page) <= maximum
  BY <1>1, <1>2
<1> QED BY <1>2, <1>3

\* Pages of replay_after and replay_auction_batches_after go on behind their
\* cursor without gap or repetition; the auction's hold whole batches.
THEOREM PagesAreTheFeed == RingSpec => []PagesGoOn
<1> QED BY RingInitially, RingSteps, PagesFollow, PTL DEF RingSpec

----------------------------------------------------------------------------
(* The replica *)

UpdateRecords == [side : Sides, price : Prices, lots : Nat, count : Nat, traded : Nat]
Depths == [Sides -> [Prices -> [lots : Nat, count : Nat]]]
Shown == [depth : Depths, sequence : Nat, trades : Nat, poisoned : BOOLEAN]

\* One update applied to what is shown.
Stepped(state, update) ==
    [depth |-> SetLevel(state.depth, update), sequence |-> state.sequence + 1,
     trades |-> state.trades + (IF update.traded > 0 THEN 1 ELSE 0), poisoned |-> FALSE]

Fits(state, update) == ~ApplyUpdate([depth |-> state.depth, bad |-> FALSE], update).bad

FeedTypeOK ==
    /\ shown \in Seq(Shown) /\ Len(shown) = Len(published)
    /\ replica \in Shown /\ replica.sequence \in 0 .. Len(published)
    /\ damages \in Nat

ShownFollows ==
    \A n \in 1 .. Len(published) :
        /\ shown[n] = Stepped(SnapshotAt(n - 1), published[n].update)
        /\ shown[n].sequence = n
        /\ Fits(SnapshotAt(n - 1), published[n].update)

\* As long as no batch was damaged on its way no replica is poisoned.
OnlyDamagePoisons == damages = 0 => ~replica.poisoned

FeedInv == RingInv /\ FeedTypeOK /\ ShownFollows /\ ReplicaShowsPublished /\ OnlyDamagePoisons

----------------------------------------------------------------------------
(* Numbers *)

\* A set of numbers has a least one.
LEMMA LeastNumber ==
    ASSUME NEW S \in SUBSET Nat, S # {}
    PROVE  \E n \in S : \A other \in S : n <= other
<1>1. PICK n \in S : \A other \in S : ~(<<other, n>> \in OpToRel(<, Nat))
  BY NatLessThanWellFounded, WFMin
<1>2. ASSUME NEW other \in S PROVE n <= other
  <2>1. ~(other < n)
    BY <1>1 DEF OpToRel
  <2> QED BY <2>1
<1> QED BY <1>2

\* What starts at nothing and goes on as far as a bound gets there.
LEMMA UpTo ==
    ASSUME NEW bound \in Nat, NEW S, 0 \in S, \A n \in 0 .. bound - 1 : n \in S => n + 1 \in S
    PROVE  0 .. bound \subseteq S
<1> SUFFICES ASSUME ~(0 .. bound \subseteq S) PROVE FALSE
  OBVIOUS
<1> DEFINE missing == {n \in 0 .. bound : n \notin S}
<1>1. PICK n \in missing : \A other \in missing : n <= other
  <2>1. missing \in SUBSET Nat /\ missing # {}
    OBVIOUS
  <2> HIDE DEF missing
  <2> QED BY <2>1, LeastNumber
<1>2. n # 0 /\ n - 1 \in 0 .. bound - 1 /\ n - 1 \notin missing
  BY <1>1
<1>3. n - 1 \in S /\ (n - 1) + 1 = n
  BY <1>2
<1> QED BY <1>1, <1>2, <1>3

----------------------------------------------------------------------------
(* A batch, update by update *)

\* The depths behind the updates of a batch are what they are defined to be.
LEMMA AppliedStepByStep ==
    ASSUME NEW depth, NEW updates, Len(updates) \in Nat
    PROVE  /\ AppliedUpdates(depth, updates)[0] = [depth |-> depth, bad |-> FALSE]
           /\ \A n \in 1 .. Len(updates) :
                 AppliedUpdates(depth, updates)[n]
                    = ApplyUpdate(AppliedUpdates(depth, updates)[n - 1], updates[n])
<1> DEFINE Is(s, m) == s = [n \in 0 .. m |-> IF n = 0 THEN [depth |-> depth, bad |-> FALSE]
                                              ELSE ApplyUpdate(s[n - 1], updates[n])]
           found == {m \in Nat : \E s : Is(s, m)}
<1>1. 0 \in found
  <2> DEFINE s == [n \in 0 .. 0 |-> [depth |-> depth, bad |-> FALSE]]
  <2>1. Is(s, 0)
    OBVIOUS
  <2> QED BY <2>1
<1>2. ASSUME NEW m \in 0 .. Len(updates) - 1, m \in found PROVE m + 1 \in found
  <2>1. PICK s : Is(s, m)
    BY <1>2
  <2>4. ASSUME NEW n \in 0 .. m
        PROVE  s[n] = IF n = 0 THEN [depth |-> depth, bad |-> FALSE]
                      ELSE ApplyUpdate(s[n - 1], updates[n])
    BY <2>1, Zenon
  <2> DEFINE t == [n \in 0 .. m + 1 |-> IF n <= m THEN s[n] ELSE ApplyUpdate(s[m], updates[m + 1])]
  <2>2. ASSUME NEW n \in 0 .. m + 1
        PROVE  t[n] = IF n = 0 THEN [depth |-> depth, bad |-> FALSE]
                      ELSE ApplyUpdate(t[n - 1], updates[n])
    <3>1. CASE n = 0
      <4>1. t[0] = s[0] /\ 0 \in 0 .. m
        OBVIOUS
      <4>2. s[0] = [depth |-> depth, bad |-> FALSE]
        BY <2>4, <4>1
      <4> HIDE DEF t
      <4> QED BY <3>1, <4>1, <4>2
    <3>2. CASE n \in 1 .. m
      <4>1. t[n] = s[n] /\ t[n - 1] = s[n - 1] /\ n # 0
        BY <3>2
      <4>2. s[n] = ApplyUpdate(s[n - 1], updates[n])
        BY <2>4, <3>2
      <4> HIDE DEF t
      <4> QED BY <4>1, <4>2
    <3>3. CASE n = m + 1
      <4>1. t[n] = ApplyUpdate(s[m], updates[m + 1]) /\ t[n - 1] = s[m] /\ n # 0
        BY <3>3
      <4> HIDE DEF t
      <4> QED BY <3>3, <4>1
    <3> QED BY <3>1, <3>2, <3>3
  <2>3. Is(t, m + 1)
    <3>1. t = [n \in 0 .. m + 1 |-> t[n]]
      OBVIOUS
    <3> HIDE DEF t
    <3> QED BY <2>2, <3>1, Zenon
  <2>5. m + 1 \in Nat
    OBVIOUS
  <2> HIDE DEF t, Is
  <2> QED BY <2>3, <2>5
<1>3. Len(updates) \in found
  <2>1. 0 .. Len(updates) \subseteq found
    <3> HIDE DEF found
    <3> QED BY <1>1, <1>2, UpTo
  <2> QED BY <2>1
<1>4. PICK s : Is(s, Len(updates))
  BY <1>3
<1>5. Is(AppliedUpdates(depth, updates), Len(updates))
  BY <1>4 DEF AppliedUpdates
<1>6. ASSUME NEW n \in 0 .. Len(updates)
      PROVE  AppliedUpdates(depth, updates)[n]
                = IF n = 0 THEN [depth |-> depth, bad |-> FALSE]
                  ELSE ApplyUpdate(AppliedUpdates(depth, updates)[n - 1], updates[n])
  BY <1>5, Zenon
<1> HIDE DEF found, Is
<1> DEFINE after == AppliedUpdates(depth, updates)
<1>7. after[0] = [depth |-> depth, bad |-> FALSE]
  <2>1. 0 \in 0 .. Len(updates)
    OBVIOUS
  <2> QED BY <1>6, <2>1
<1>8. ASSUME NEW n \in 1 .. Len(updates)
      PROVE  after[n] = ApplyUpdate(after[n - 1], updates[n])
  <2>1. n \in 0 .. Len(updates) /\ n # 0
    OBVIOUS
  <2> HIDE DEF after
  <2> QED BY <1>6, <2>1 DEF after
<1> HIDE DEF after
<1> QED BY <1>7, <1>8 DEF after

States == [depth : Depths, bad : BOOLEAN]

LEMMA LevelSet ==
    ASSUME NEW depth \in Depths, NEW update \in UpdateRecords
    PROVE  SetLevel(depth, update) \in Depths
<1>1. update.side \in Sides /\ update.price \in Prices /\ update.lots \in Nat /\ update.count \in Nat
  BY DEF UpdateRecords
<1>2. NoLevel \in [lots : Nat, count : Nat]
  BY DEF NoLevel
<1>3. (IF update.lots = 0 THEN NoLevel ELSE [lots |-> update.lots, count |-> update.count])
         \in [lots : Nat, count : Nat]
  BY <1>1, <1>2
<1> QED BY <1>1, <1>3 DEF SetLevel, Depths

\* An update that fits sets its level; after one that does not, bad stays.
LEMMA OneUpdate ==
    ASSUME NEW state \in States, NEW update \in UpdateRecords
    PROVE  LET after == ApplyUpdate(state, update)
           IN  /\ after \in States
               /\ after.bad <=> state.bad \/ ~Fits(state, update)
               /\ ~after.bad => after.depth = SetLevel(state.depth, update)
<1>1. SetLevel(state.depth, update) \in Depths
  BY LevelSet DEF States
<1>2. CASE state.bad
  BY <1>2 DEF ApplyUpdate, States
<1>3. CASE ~state.bad
  <2>1. state = [depth |-> state.depth, bad |-> FALSE]
    BY <1>3 DEF States
  <2>2. ApplyUpdate(state, update) \in States
    BY <1>1, <1>3 DEF ApplyUpdate, States
  <2>3. ~ApplyUpdate(state, update).bad => ApplyUpdate(state, update).depth = SetLevel(state.depth, update)
    BY <1>3 DEF ApplyUpdate, States
  <2>4. ApplyUpdate(state, update).bad <=> ~Fits(state, update)
    BY <2>1, <2>2 DEF Fits, States
  <2> QED BY <1>3, <2>2, <2>3, <2>4
<1> QED BY <1>2, <1>3

LEMMA AppliedTypes ==
    ASSUME NEW depth \in Depths, NEW updates \in Seq(UpdateRecords)
    PROVE  \A n \in 0 .. Len(updates) : AppliedUpdates(depth, updates)[n] \in States
<1> DEFINE after == AppliedUpdates(depth, updates)
           typed == {n \in 0 .. Len(updates) : after[n] \in States}
<1>1. Len(updates) \in Nat
  OBVIOUS
<1>2. after[0] = [depth |-> depth, bad |-> FALSE]
  BY <1>1, AppliedStepByStep
<1>3. \A n \in 1 .. Len(updates) : after[n] = ApplyUpdate(after[n - 1], updates[n])
  BY <1>1, AppliedStepByStep
<1> HIDE DEF after
<1>4. 0 \in typed
  <2>1. [depth |-> depth, bad |-> FALSE] \in States
    BY DEF States
  <2>2. 0 \in 0 .. Len(updates)
    BY <1>1
  <2> QED BY <1>2, <2>1, <2>2
<1>5. ASSUME NEW n \in 0 .. Len(updates) - 1, n \in typed PROVE n + 1 \in typed
  <2>1. n + 1 \in 1 .. Len(updates) /\ (n + 1) - 1 = n /\ updates[n + 1] \in UpdateRecords
    BY <1>1
  <2>2. after[n + 1] = ApplyUpdate(after[n], updates[n + 1])
    BY <1>3, <2>1
  <2>3. after[n] \in States
    BY <1>5
  <2>4. ApplyUpdate(after[n], updates[n + 1]) \in States
    BY <2>1, <2>3, OneUpdate
  <2> QED BY <2>1, <2>2, <2>4
<1>6. 0 .. Len(updates) \subseteq typed
  <2> HIDE DEF typed
  <2> QED BY <1>1, <1>4, <1>5, UpTo
<1> QED BY <1>6 DEF after

\* The beginning of a batch is applied as it is in the batch.
LEMMA BeginningApplied ==
    ASSUME NEW depth \in Depths, NEW updates \in Seq(UpdateRecords), NEW k \in 0 .. Len(updates)
    PROVE  ApplyUpdates(depth, SubSeq(updates, 1, k)) = AppliedUpdates(depth, updates)[k]
<1> DEFINE part == SubSeq(updates, 1, k)
           whole == AppliedUpdates(depth, updates)
           after == AppliedUpdates(depth, part)
           same == {n \in 0 .. k : after[n] = whole[n]}
<1>1. /\ part \in Seq(UpdateRecords) /\ Len(part) = k /\ k \in Nat /\ Len(updates) \in Nat
      /\ \A n \in 1 .. k : part[n] = updates[n]
  OBVIOUS
<1>2. /\ whole[0] = [depth |-> depth, bad |-> FALSE]
      /\ \A n \in 1 .. Len(updates) : whole[n] = ApplyUpdate(whole[n - 1], updates[n])
  BY <1>1, AppliedStepByStep
<1>3. /\ after[0] = [depth |-> depth, bad |-> FALSE]
      /\ \A n \in 1 .. k : after[n] = ApplyUpdate(after[n - 1], part[n])
  <2> HIDE DEF part
  <2> QED BY <1>1, AppliedStepByStep
<1> HIDE DEF part, whole, after
<1>4. 0 \in same
  BY <1>1, <1>2, <1>3
<1>5. ASSUME NEW n \in 0 .. k - 1, n \in same PROVE n + 1 \in same
  <2>1. /\ n + 1 \in 1 .. k /\ n + 1 \in 1 .. Len(updates) /\ (n + 1) - 1 = n
        /\ n + 1 \in 0 .. k
    BY <1>1
  <2>2. after[n + 1] = ApplyUpdate(after[n], part[n + 1])
    BY <1>3, <2>1
  <2>3. whole[n + 1] = ApplyUpdate(whole[n], updates[n + 1])
    BY <1>2, <2>1
  <2>4. part[n + 1] = updates[n + 1] /\ after[n] = whole[n]
    BY <1>1, <2>1, <1>5
  <2> QED BY <2>1, <2>2, <2>3, <2>4
<1>6. 0 .. k \subseteq same
  <2> HIDE DEF same
  <2> QED BY <1>1, <1>4, <1>5, UpTo
<1>7. k \in 0 .. k
  BY <1>1
<1>8. after[k] = whole[k]
  BY <1>6, <1>7
<1> QED BY <1>1, <1>8 DEF ApplyUpdates, after, whole, part

----------------------------------------------------------------------------
(* Trades *)

LEMMA NoTrades ==
    ASSUME NEW updates \in Seq(UpdateRecords)
    PROVE  TradesIn(SubSeq(updates, 1, 0)) = 0
<1>1. {i \in DOMAIN SubSeq(updates, 1, 0) : SubSeq(updates, 1, 0)[i].traded > 0} = {}
  OBVIOUS
<1> QED BY <1>1, FS_EmptySet DEF TradesIn

LEMMA OneTradeMore ==
    ASSUME NEW updates \in Seq(UpdateRecords), NEW k \in 1 .. Len(updates)
    PROVE  /\ TradesIn(SubSeq(updates, 1, k - 1)) \in Nat
           /\ TradesIn(SubSeq(updates, 1, k))
                 = TradesIn(SubSeq(updates, 1, k - 1)) + (IF updates[k].traded > 0 THEN 1 ELSE 0)
<1> DEFINE before == {i \in 1 .. k - 1 : updates[i].traded > 0}
           now == {i \in 1 .. k : updates[i].traded > 0}
<1>1. TradesIn(SubSeq(updates, 1, k - 1)) = Cardinality(before)
  <2>1. {i \in DOMAIN SubSeq(updates, 1, k - 1) : SubSeq(updates, 1, k - 1)[i].traded > 0} = before
    OBVIOUS
  <2> QED BY <2>1 DEF TradesIn
<1>2. TradesIn(SubSeq(updates, 1, k)) = Cardinality(now)
  <2>1. {i \in DOMAIN SubSeq(updates, 1, k) : SubSeq(updates, 1, k)[i].traded > 0} = now
    OBVIOUS
  <2> QED BY <2>1 DEF TradesIn
<1>3. IsFiniteSet(before)
  <2>1. IsFiniteSet(1 .. k - 1) /\ before \in SUBSET (1 .. k - 1)
    BY FS_Interval
  <2> HIDE DEF before
  <2> QED BY <2>1, FS_Subset
<1>4. now = IF updates[k].traded > 0 THEN before \cup {k} ELSE before
  OBVIOUS
<1>5. k \notin before
  OBVIOUS
<1> HIDE DEF before, now
<1>6. Cardinality(before) \in Nat
  BY <1>3, FS_CardinalityType
<1>7. CASE updates[k].traded > 0
  BY <1>1, <1>2, <1>3, <1>4, <1>5, <1>6, <1>7, FS_AddElement
<1>8. CASE ~(updates[k].traded > 0)
  BY <1>1, <1>2, <1>4, <1>6, <1>8
<1> QED BY <1>1, <1>6, <1>7, <1>8

----------------------------------------------------------------------------
(* A state with the beginning of a batch applied *)

Bad(state, updates, k) == ApplyUpdates(state.depth, SubSeq(updates, 1, k)).bad
With(state, updates, k) == Applies(state, SubSeq(updates, 1, k))

LEMMA NothingApplied ==
    ASSUME NEW state \in Shown, ~state.poisoned, NEW updates \in Seq(UpdateRecords)
    PROVE  With(state, updates, 0) = state /\ ~Bad(state, updates, 0)
<1>1. 0 \in 0 .. Len(updates) /\ Len(updates) \in Nat /\ Len(SubSeq(updates, 1, 0)) = 0
  OBVIOUS
<1>2. state.depth \in Depths
  BY DEF Shown
<1>3. AppliedUpdates(state.depth, updates)[0] = [depth |-> state.depth, bad |-> FALSE]
  BY <1>1, AppliedStepByStep
<1>4. ApplyUpdates(state.depth, SubSeq(updates, 1, 0)) = [depth |-> state.depth, bad |-> FALSE]
  BY <1>1, <1>2, <1>3, BeginningApplied
<1>5. state = [depth |-> state.depth, sequence |-> state.sequence, trades |-> state.trades,
               poisoned |-> FALSE]
  BY DEF Shown
<1>6. state.sequence + 0 = state.sequence /\ state.trades + 0 = state.trades
  BY DEF Shown
<1> QED BY <1>1, <1>4, <1>5, <1>6, NoTrades DEF With, Bad, Applies

\* One update more.
LEMMA OneApplied ==
    ASSUME NEW state \in Shown, NEW updates \in Seq(UpdateRecords), NEW k \in 1 .. Len(updates)
    PROVE  /\ Bad(state, updates, k)
                 <=> Bad(state, updates, k - 1) \/ ~Fits(With(state, updates, k - 1), updates[k])
           /\ ~Bad(state, updates, k)
                 => With(state, updates, k) = Stepped(With(state, updates, k - 1), updates[k])
<1> DEFINE after == AppliedUpdates(state.depth, updates)
<1>1. /\ k \in 0 .. Len(updates) /\ k - 1 \in 0 .. Len(updates) /\ Len(updates) \in Nat
      /\ Len(SubSeq(updates, 1, k)) = k /\ Len(SubSeq(updates, 1, k - 1)) = k - 1
      /\ updates[k] \in UpdateRecords
  OBVIOUS
<1>2. state.depth \in Depths /\ state.sequence \in Nat /\ state.trades \in Nat
  BY DEF Shown
<1>3. after[k] = ApplyUpdate(after[k - 1], updates[k]) /\ after[k - 1] \in States
  BY <1>1, <1>2, AppliedStepByStep, AppliedTypes
<1>4. /\ ApplyUpdates(state.depth, SubSeq(updates, 1, k)) = after[k]
      /\ ApplyUpdates(state.depth, SubSeq(updates, 1, k - 1)) = after[k - 1]
  BY <1>1, <1>2, BeginningApplied
<1> HIDE DEF after
<1>5. With(state, updates, k - 1).depth = after[k - 1].depth
  BY <1>4 DEF With, Applies
<1>6. Fits(With(state, updates, k - 1), updates[k]) = Fits(after[k - 1], updates[k])
  BY <1>5 DEF Fits
<1>7. /\ after[k].bad <=> after[k - 1].bad \/ ~Fits(after[k - 1], updates[k])
      /\ ~after[k].bad => after[k].depth = SetLevel(after[k - 1].depth, updates[k])
  BY <1>1, <1>3, OneUpdate
<1>8. Bad(state, updates, k) = after[k].bad /\ Bad(state, updates, k - 1) = after[k - 1].bad
  BY <1>4 DEF Bad
<1>9. ASSUME ~after[k].bad
      PROVE  With(state, updates, k) = Stepped(With(state, updates, k - 1), updates[k])
  <2> DEFINE earlier == TradesIn(SubSeq(updates, 1, k - 1))
             more == IF updates[k].traded > 0 THEN 1 ELSE 0
  <2>1. TradesIn(SubSeq(updates, 1, k)) = earlier + more /\ earlier \in Nat /\ more \in Nat
    BY OneTradeMore
  <2> HIDE DEF earlier, more
  <2>2. state.trades + (earlier + more) = (state.trades + earlier) + more
    BY <1>2, <2>1
  <2>3. state.sequence + k = (state.sequence + (k - 1)) + 1
    BY <1>1, <1>2
  <2>4. With(state, updates, k)
          = [depth |-> SetLevel(after[k - 1].depth, updates[k]), sequence |-> state.sequence + k,
             trades |-> state.trades + (earlier + more), poisoned |-> FALSE]
    BY <1>1, <1>4, <1>7, <1>9, <2>1 DEF With, Applies
  <2>5. With(state, updates, k - 1)
          = [depth |-> after[k - 1].depth, sequence |-> state.sequence + (k - 1),
             trades |-> state.trades + earlier, poisoned |-> FALSE]
    BY <1>1, <1>4 DEF With, Applies, earlier
  <2>6. Stepped(With(state, updates, k - 1), updates[k])
          = [depth |-> SetLevel(after[k - 1].depth, updates[k]),
             sequence |-> (state.sequence + (k - 1)) + 1,
             trades |-> (state.trades + earlier) + more, poisoned |-> FALSE]
    <3>1. /\ With(state, updates, k - 1).depth = after[k - 1].depth
          /\ With(state, updates, k - 1).sequence = state.sequence + (k - 1)
          /\ With(state, updates, k - 1).trades = state.trades + earlier
      BY <2>5
    <3> QED BY <3>1, Zenon DEF Stepped, more
  <2> QED BY <2>2, <2>3, <2>4, <2>6
<1> QED BY <1>6, <1>7, <1>8, <1>9

\* What is applied without a fault is typed.
LEMMA WithTypes ==
    ASSUME NEW state \in Shown, NEW updates \in Seq(UpdateRecords), NEW k \in 0 .. Len(updates)
    PROVE  /\ With(state, updates, k) \in Shown
           /\ With(state, updates, k).sequence = state.sequence + k
           /\ ~With(state, updates, k).poisoned
<1>1. /\ k \in Nat /\ Len(SubSeq(updates, 1, k)) = k
      /\ SubSeq(updates, 1, k) \in Seq(UpdateRecords) /\ k \in 0 .. k
  OBVIOUS
<1>2. state.depth \in Depths /\ state.sequence \in Nat /\ state.trades \in Nat
  BY DEF Shown
<1>3. ApplyUpdates(state.depth, SubSeq(updates, 1, k)) \in States
  BY <1>1, <1>2, BeginningApplied, AppliedTypes
<1>4. TradesIn(SubSeq(updates, 1, k)) \in Nat
  <2>1. CASE k = 0
    BY <2>1, NoTrades
  <2>2. CASE k \in 1 .. Len(updates)
    <3>1. TradesIn(SubSeq(updates, 1, k - 1)) \in Nat
      BY <2>2, OneTradeMore
    <3>2. TradesIn(SubSeq(updates, 1, k))
            = TradesIn(SubSeq(updates, 1, k - 1)) + (IF updates[k].traded > 0 THEN 1 ELSE 0)
      BY <2>2, OneTradeMore
    <3> QED BY <3>1, <3>2
  <2> QED BY <2>1, <2>2
<1> QED BY <1>1, <1>2, <1>3, <1>4 DEF With, Applies, Shown, States

----------------------------------------------------------------------------
(* The batch of a client against what was published *)

\* A damaged print says another number of lots; what it sets is the same.
SameEffect(update, other) ==
    /\ update.side = other.side /\ update.price = other.price
    /\ update.lots = other.lots /\ update.count = other.count
    /\ update.traded > 0 <=> other.traded > 0

LEMMA SameStep ==
    ASSUME NEW state, NEW update, NEW other, SameEffect(update, other)
    PROVE  Stepped(state, update) = Stepped(state, other)
BY DEF SameEffect, Stepped, SetLevel

Standing == RingInv /\ FeedTypeOK /\ ShownFollows

LEMMA SnapshotTypes ==
    ASSUME Standing, NEW n \in 0 .. Len(published)
    PROVE  /\ SnapshotAt(n) \in Shown /\ SnapshotAt(n).sequence = n /\ ~SnapshotAt(n).poisoned
<1>1. CASE n = 0
  <2>1. NoDepth \in Depths
    BY DEF NoDepth, NoLevel, Depths
  <2>2. Nothing \in Shown /\ Nothing.sequence = 0 /\ ~Nothing.poisoned
    BY <2>1 DEF Nothing, Shown
  <2> QED BY <1>1, <2>2 DEF SnapshotAt
<1>2. CASE n # 0
  <2>1. n \in 1 .. Len(published) /\ SnapshotAt(n) = shown[n]
    BY <1>2 DEF SnapshotAt
  <2>2. shown[n] \in Shown
    BY <2>1 DEF Standing, FeedTypeOK
  <2>3. shown[n].sequence = n /\ shown[n] = Stepped(SnapshotAt(n - 1), published[n].update)
    BY <2>1 DEF Standing, ShownFollows
  <2>4. ~Stepped(SnapshotAt(n - 1), published[n].update).poisoned
    BY DEF Stepped
  <2> QED BY <2>1, <2>2, <2>3, <2>4
<1> QED BY <1>1, <1>2

\* The next thing the publisher showed.
LEMMA NextShown ==
    ASSUME Standing, NEW n \in 1 .. Len(published)
    PROVE  /\ SnapshotAt(n) = Stepped(SnapshotAt(n - 1), published[n].update)
           /\ Fits(SnapshotAt(n - 1), published[n].update)
BY DEF Standing, ShownFollows, SnapshotAt

\* Updates behind what was shown at a sequence, each with the effect of the
\* one that was published there.
Repeats(sequence, updates) ==
    /\ updates \in Seq(UpdateRecords)
    /\ sequence + Len(updates) <= Len(published)
    /\ \A i \in 1 .. Len(updates) : SameEffect(updates[i], published[sequence + i].update)

LEMMA Following ==
    ASSUME Standing, NEW sequence \in 0 .. Len(published), NEW updates, Repeats(sequence, updates)
    PROVE  \A k \in 0 .. Len(updates) :
              ~Bad(SnapshotAt(sequence), updates, k)
                 => With(SnapshotAt(sequence), updates, k) = SnapshotAt(sequence + k)
<1> DEFINE state == SnapshotAt(sequence)
           follows == {k \in 0 .. Len(updates) :
                          ~Bad(state, updates, k) => With(state, updates, k) = SnapshotAt(sequence + k)}
<1>1. state \in Shown /\ ~state.poisoned
  BY SnapshotTypes
<1>2. /\ updates \in Seq(UpdateRecords) /\ Len(updates) \in Nat /\ sequence \in Nat
      /\ Len(published) \in Nat /\ sequence + Len(updates) <= Len(published)
      /\ \A i \in 1 .. Len(updates) : SameEffect(updates[i], published[sequence + i].update)
  BY DEF Repeats, Standing, RingInv, RingTypeOK
<1>3. 0 \in follows
  <2>1. 0 \in 0 .. Len(updates) /\ sequence + 0 = sequence
    BY <1>2
  <2>2. With(state, updates, 0) = state
    <3> HIDE DEF state
    <3> QED BY <1>1, <1>2, NothingApplied
  <2> QED BY <2>1, <2>2
<1> HIDE DEF state
<1>4. ASSUME NEW k \in 0 .. Len(updates) - 1, k \in follows PROVE k + 1 \in follows
  <2>1. /\ k + 1 \in 1 .. Len(updates) /\ k + 1 \in 0 .. Len(updates) /\ (k + 1) - 1 = k
        /\ sequence + (k + 1) \in 1 .. Len(published)
        /\ (sequence + (k + 1)) - 1 = sequence + k
    BY <1>2
  <2>2. SUFFICES ASSUME ~Bad(state, updates, k + 1)
                 PROVE  With(state, updates, k + 1) = SnapshotAt(sequence + (k + 1))
    BY <2>1
  <2>3. /\ ~Bad(state, updates, k)
        /\ With(state, updates, k + 1) = Stepped(With(state, updates, k), updates[k + 1])
    BY <1>1, <1>2, <2>1, <2>2, OneApplied
  <2>4. With(state, updates, k) = SnapshotAt(sequence + k)
    BY <1>4, <2>3
  <2>5. SnapshotAt(sequence + (k + 1))
          = Stepped(SnapshotAt(sequence + k), published[sequence + (k + 1)].update)
    BY <2>1, NextShown
  <2>6. SameEffect(updates[k + 1], published[sequence + (k + 1)].update)
    BY <1>2, <2>1
  <2> QED BY <2>3, <2>4, <2>5, <2>6, SameStep
<1>5. 0 .. Len(updates) \subseteq follows
  <2> HIDE DEF follows
  <2> QED BY <1>2, <1>3, <1>4, UpTo
<1> QED BY <1>5 DEF state

\* What was published is applied without a fault.
LEMMA FollowingPublished ==
    ASSUME Standing, NEW sequence \in 0 .. Len(published), NEW updates, Repeats(sequence, updates),
           \A i \in 1 .. Len(updates) : updates[i] = published[sequence + i].update
    PROVE  \A k \in 0 .. Len(updates) : ~Bad(SnapshotAt(sequence), updates, k)
<1> DEFINE state == SnapshotAt(sequence)
           good == {k \in 0 .. Len(updates) : ~Bad(state, updates, k)}
<1>1. state \in Shown /\ ~state.poisoned
  BY SnapshotTypes
<1>2. /\ updates \in Seq(UpdateRecords) /\ Len(updates) \in Nat /\ sequence \in Nat
      /\ Len(published) \in Nat /\ sequence + Len(updates) <= Len(published)
  BY DEF Repeats, Standing, RingInv, RingTypeOK
<1>3. \A k \in 0 .. Len(updates) :
         ~Bad(state, updates, k) => With(state, updates, k) = SnapshotAt(sequence + k)
  BY Following
<1> HIDE DEF state
<1>4. 0 \in good
  BY <1>1, <1>2, NothingApplied
<1>5. ASSUME NEW k \in 0 .. Len(updates) - 1, k \in good PROVE k + 1 \in good
  <2>1. /\ k + 1 \in 1 .. Len(updates) /\ k + 1 \in 0 .. Len(updates) /\ (k + 1) - 1 = k
        /\ k \in 0 .. Len(updates)
        /\ sequence + (k + 1) \in 1 .. Len(published)
        /\ (sequence + (k + 1)) - 1 = sequence + k
    BY <1>2
  <2>2. With(state, updates, k) = SnapshotAt(sequence + k) /\ ~Bad(state, updates, k)
    BY <1>3, <1>5, <2>1
  <2>3. Fits(SnapshotAt(sequence + k), updates[k + 1])
    BY <2>1, NextShown
  <2>4. ~Bad(state, updates, k + 1)
    BY <1>1, <1>2, <2>1, <2>2, <2>3, OneApplied
  <2> QED BY <2>1, <2>4
<1>6. 0 .. Len(updates) \subseteq good
  <2> HIDE DEF good
  <2> QED BY <1>2, <1>4, <1>5, UpTo
<1> QED BY <1>6 DEF state

\* A client that applies what goes on behind it, page, batch or damaged
\* batch, ends where the publisher was, or poisoned.
LEMMA ClientFollows ==
    ASSUME Standing, NEW state \in Shown, ~state.poisoned, state.sequence \in 0 .. Len(published),
           state = SnapshotAt(state.sequence), NEW updates, Repeats(state.sequence, updates)
    PROVE  LET after == AppliesUntilBad(state, updates)
           IN  /\ after \in Shown
               /\ after.sequence \in state.sequence .. state.sequence + Len(updates)
               /\ ~after.poisoned => after = SnapshotAt(after.sequence)
               /\ (\A i \in 1 .. Len(updates) :
                      updates[i] = published[state.sequence + i].update) => ~after.poisoned
<1> DEFINE failed == {n \in 1 .. Len(updates) : ApplyUpdates(state.depth, SubSeq(updates, 1, n)).bad}
           after == AppliesUntilBad(state, updates)
<1>1. /\ updates \in Seq(UpdateRecords) /\ Len(updates) \in Nat /\ state.sequence \in Nat
      /\ state.depth \in Depths
  BY DEF Repeats, Shown
<1>2. \A k \in 0 .. Len(updates) : ~Bad(state, updates, k)
                                      => With(state, updates, k) = SnapshotAt(state.sequence + k)
  BY Following
<1>3. CASE failed = {}
  <2>1. after = Applies(state, updates)
    BY <1>3 DEF AppliesUntilBad
  <2>2. SubSeq(updates, 1, Len(updates)) = updates /\ Len(updates) \in 0 .. Len(updates)
    BY <1>1
  <2>3. after = With(state, updates, Len(updates))
    BY <2>1, <2>2 DEF With
  <2>4. ~Bad(state, updates, Len(updates))
    <3>1. CASE Len(updates) = 0
      BY <1>1, <3>1, NothingApplied
    <3>2. CASE Len(updates) # 0
      <4>1. Len(updates) \in 1 .. Len(updates)
        BY <1>1, <3>2
      <4> QED BY <4>1, <1>3 DEF Bad
    <3> QED BY <3>1, <3>2
  <2>5. after = SnapshotAt(state.sequence + Len(updates))
    BY <1>2, <2>2, <2>3, <2>4
  <2>6. after \in Shown /\ after.sequence = state.sequence + Len(updates) /\ ~after.poisoned
    BY <1>1, <2>2, <2>3, WithTypes
  <2>7. after.sequence \in state.sequence .. state.sequence + Len(updates)
    BY <1>1, <2>6
  <2> HIDE DEF after
  <2> QED BY <2>5, <2>6, <2>7 DEF after
<1>4. CASE failed # {}
  <2> DEFINE n == Min(failed)
  <2>1. n \in 1 .. Len(updates) /\ Bad(state, updates, n)
    <3>1. PICK least \in failed : \A other \in failed : least <= other
      <4>1. failed \in SUBSET Nat
        BY <1>1
      <4> HIDE DEF failed
      <4> QED BY <1>4, <4>1, LeastNumber
    <3>2. n \in failed
      <4> HIDE DEF failed
      <4> QED BY <3>1 DEF Min
    <3> QED BY <3>2 DEF Bad
  <2>2. after = [Applies(state, SubSeq(updates, 1, n - 1)) EXCEPT
                    !.depth = ApplyUpdates(state.depth, SubSeq(updates, 1, n)).depth,
                    !.poisoned = TRUE]
    BY <1>4 DEF AppliesUntilBad
  <2> HIDE DEF n, failed
  <2>3. n - 1 \in 0 .. Len(updates) /\ n \in 0 .. Len(updates)
    BY <1>1, <2>1
  <2>4. /\ With(state, updates, n - 1) \in Shown
        /\ With(state, updates, n - 1).sequence = state.sequence + (n - 1)
    BY <1>1, <2>3, WithTypes
  <2>5. ApplyUpdates(state.depth, SubSeq(updates, 1, n)).depth \in Depths
    BY <1>1, <2>3, BeginningApplied, AppliedTypes DEF States
  <2>6. after = [With(state, updates, n - 1) EXCEPT
                    !.depth = ApplyUpdates(state.depth, SubSeq(updates, 1, n)).depth,
                    !.poisoned = TRUE]
    BY <2>2 DEF With
  <2>7. after \in Shown /\ after.poisoned /\ after.sequence = state.sequence + (n - 1)
    BY <2>4, <2>5, <2>6 DEF Shown
  <2>8. after.sequence \in state.sequence .. state.sequence + Len(updates)
    BY <1>1, <2>1, <2>7
  <2>9. ~(\A i \in 1 .. Len(updates) : updates[i] = published[state.sequence + i].update)
    <3> SUFFICES ASSUME \A i \in 1 .. Len(updates) : updates[i] = published[state.sequence + i].update
                 PROVE  FALSE
      OBVIOUS
    <3>1. \A k \in 0 .. Len(updates) : ~Bad(SnapshotAt(state.sequence), updates, k)
      BY FollowingPublished
    <3> QED BY <2>1, <2>3, <3>1
  <2> HIDE DEF after
  <2> QED BY <2>7, <2>8, <2>9 DEF after
<1> QED BY <1>3, <1>4

\* A part of the feed as a client receives it.
LEMMA PublishedPart ==
    ASSUME Standing, NEW first \in 1 .. Len(published), NEW last \in 1 .. Len(published),
           first <= last
    PROVE  LET updates == PublishedUpdates(first, last)
           IN  /\ Repeats(first - 1, updates) /\ Len(updates) = last - first + 1
               /\ \A i \in 1 .. Len(updates) : updates[i] = published[(first - 1) + i].update
<1> DEFINE entries == SubSeq(published, first, last)
           updates == PublishedUpdates(first, last)
<1>1. published \in Seq(Entries) /\ Len(published) \in Nat
  BY DEF Standing, RingInv, RingTypeOK
<1>2. /\ entries \in Seq(Entries) /\ Len(entries) = last - first + 1
      /\ \A i \in 1 .. last - first + 1 : entries[i] = published[(first - 1) + i]
  BY <1>1
<1>3. Updates \subseteq UpdateRecords
  BY FeedAssumption DEF UpdateRecords
<1>4. updates = [i \in 1 .. last - first + 1 |-> entries[i].update]
  BY <1>2 DEF PublishedUpdates, UpdatesOf
<1>5. \A i \in 1 .. last - first + 1 : entries[i].update \in UpdateRecords
  BY <1>2, <1>3 DEF Entries
<1> HIDE DEF entries, updates
<1>6. updates \in Seq(UpdateRecords) /\ Len(updates) = last - first + 1
  BY <1>4, <1>5
<1>7. \A i \in 1 .. Len(updates) : updates[i] = published[(first - 1) + i].update
  BY <1>2, <1>4, <1>6
<1>8. (first - 1) + Len(updates) <= Len(published)
  BY <1>1, <1>6
<1> QED BY <1>6, <1>7, <1>8 DEF Repeats, SameEffect, updates

\* A page as a client receives it.
LEMMA PagePart ==
    ASSUME Standing, NEW after \in 0 .. Len(published), NEW maximum \in Nat \ {0}
    PROVE  LET updates == UpdatesOf(Replay(after, maximum))
           IN  Replay(after, maximum) # <<>> =>
                 /\ Repeats(after, updates)
                 /\ \A i \in 1 .. Len(updates) : updates[i] = published[after + i].update
<1> DEFINE page == Replay(after, maximum)
           updates == UpdatesOf(page)
<1>1. SUFFICES ASSUME page # <<>>
               PROVE  /\ Repeats(after, updates)
                      /\ \A i \in 1 .. Len(updates) : updates[i] = published[after + i].update
  OBVIOUS
<1>2. /\ published \in Seq(Entries) /\ Len(published) \in Nat /\ after \in Nat
      /\ latest \in 0 .. Len(published)
  BY DEF Standing, RingInv, RingTypeOK
<1>3. /\ page \in Seq(Entries) /\ Len(page) \in 0 .. maximum /\ after + Len(page) <= latest
      /\ \A i \in 1 .. Len(page) : page[i] = Stored(after + i)
  BY <1>1, <1>2, PageGoesOn DEF Standing
<1> HIDE DEF page
<1>4. Updates \subseteq UpdateRecords
  BY FeedAssumption DEF UpdateRecords
<1>5. updates = [i \in 1 .. Len(page) |-> page[i].update]
  BY <1>3 DEF UpdatesOf
<1>6. \A i \in 1 .. Len(page) : page[i].update \in UpdateRecords
  <2> SUFFICES ASSUME NEW i \in 1 .. Len(page) PROVE page[i].update \in UpdateRecords
    OBVIOUS
  <2>1. Len(page) \in Nat
    BY <1>3
  <2>2. page[i] \in Entries
    BY <1>3, <2>1
  <2> QED BY <1>4, <2>2 DEF Entries
<1> HIDE DEF updates
<1>7. updates \in Seq(UpdateRecords) /\ Len(updates) = Len(page) /\ Len(page) \in Nat
  BY <1>3, <1>5, <1>6
<1>8. \A i \in 1 .. Len(updates) : updates[i] = published[after + i].update
  BY <1>3, <1>5, <1>7 DEF Stored
<1>9. after + Len(updates) <= Len(published)
  BY <1>2, <1>3, <1>7
<1> QED BY <1>7, <1>8, <1>9 DEF Repeats, SameEffect, updates, page

----------------------------------------------------------------------------
(* The steps of the publisher and its ring *)

\* Before a batch that fits, each beginning of it fits.
LEMMA BeginningsFit ==
    ASSUME NEW state \in Shown, NEW updates \in Seq(UpdateRecords),
           ~Bad(state, updates, Len(updates))
    PROVE  \A k \in 0 .. Len(updates) : ~Bad(state, updates, k)
<1> DEFINE size == Len(updates)
           good == {k \in 0 .. size : ~Bad(state, updates, size - k)}
<1>1. size \in Nat
  OBVIOUS
<1>2. 0 \in good
  BY <1>1
<1>3. ASSUME NEW k \in 0 .. size - 1, k \in good PROVE k + 1 \in good
  <2>1. size - k \in 1 .. Len(updates) /\ (size - k) - 1 = size - (k + 1) /\ k + 1 \in 0 .. size
    BY <1>1
  <2>2. ~Bad(state, updates, size - k)
    BY <1>3
  <2> HIDE DEF size
  <2>3. ~Bad(state, updates, size - (k + 1))
    BY <2>1, <2>2, OneApplied
  <2> QED BY <2>1, <2>3
<1>4. 0 .. size \subseteq good
  <2> HIDE DEF good, size
  <2> QED BY <1>1, <1>2, <1>3, UpTo
<1>5. ASSUME NEW k \in 0 .. size PROVE ~Bad(state, updates, k)
  <2>1. size - k \in 0 .. size /\ size - (size - k) = k
    BY <1>1
  <2>2. size - k \in good
    BY <1>4, <2>1
  <2>3. ~Bad(state, updates, size - (size - k))
    BY <2>2
  <2> QED BY <2>1, <2>3
<1> QED BY <1>5

LEMMA PublishBatchKeeps ==
    ASSUME FeedInv, PublishBatch
    PROVE  FeedInv'
<1>1. PICK batch \in UNION {[1 .. size -> Updates] : size \in 1 .. MaxBatch} :
         /\ Publish(batch)
         /\ Publishable(batch)
         /\ shown' = shown \o [i \in DOMAIN batch |->
                         Applies(SnapshotAt(Len(published)), SubSeq(batch, 1, i))]
         /\ UNCHANGED <<replica, damages>>
  BY DEF PublishBatch
<1>2. PICK size \in 1 .. MaxBatch : batch \in [1 .. size -> Updates]
  OBVIOUS
<1> DEFINE length == Len(published)
           state == SnapshotAt(length)
           more == [i \in DOMAIN batch |-> Applies(state, SubSeq(batch, 1, i))]
           added == [i \in 1 .. Len(batch) |->
                        [update |-> batch[i], starts |-> i = 1, ends |-> i = Len(batch)]]
<1>3. MaxBatch \in Nat /\ size \in Nat /\ size \in 1 .. Size
  BY FeedAssumption, RingAssumption
<1>4. /\ batch \in UpdateBatches /\ batch \in Seq(UpdateRecords) /\ Len(batch) = size
      /\ DOMAIN batch = 1 .. size
  <2>1. \A i \in 1 .. size : batch[i] \in UpdateRecords
    BY <1>2, FeedAssumption DEF UpdateRecords
  <2>2. batch = [i \in 1 .. size |-> batch[i]]
    BY <1>2
  <2>3. batch \in Seq(UpdateRecords) /\ Len(batch) = size
    BY <1>3, <2>1, <2>2
  <2> QED BY <1>2, <1>3, <2>3 DEF UpdateBatches
<1>5. RingInv'
  BY <1>1, <1>4, PublishKeeps DEF FeedInv
<1>6. Standing /\ published \in Seq(Entries) /\ length \in Nat
  BY DEF FeedInv, Standing, RingInv, RingTypeOK
<1>7. state \in Shown /\ state.sequence = length /\ ~state.poisoned
  <2>1. length \in 0 .. Len(published)
    BY <1>6
  <2> HIDE DEF length
  <2> QED BY <1>6, <2>1, SnapshotTypes
<1>8. \A k \in 0 .. size : ~Bad(state, batch, k)
  <2>1. ~Bad(state, batch, Len(batch))
    <3>1. SubSeq(batch, 1, Len(batch)) = batch
      BY <1>4
    <3> QED BY <1>1, <3>1 DEF Publishable, Bad
  <2> HIDE DEF state
  <2> QED BY <1>4, <1>7, <2>1, BeginningsFit
\* The feed and what is shown, old and new.
<1>9. /\ published' = published \o added
      /\ Len(published') = length + size
      /\ \A n \in 1 .. length : published'[n] = published[n]
      /\ \A k \in 1 .. size : published'[length + k].update = batch[k]
  <2>1. published' = published \o added
    BY <1>1 DEF Publish
  <2>2. added \in Seq(Entries) /\ Len(added) = size
    BY <1>2, <1>3, <1>4 DEF Entries
  <2>3. \A k \in 1 .. size : added[k].update = batch[k]
    BY <1>4
  <2> HIDE DEF added
  <2>4. /\ Len(published \o added) = length + size
        /\ \A n \in 1 .. length : (published \o added)[n] = published[n]
        /\ \A k \in 1 .. size : (published \o added)[length + k] = added[k]
    <3>1. /\ Len(published \o added) = Len(published) + Len(added)
          /\ \A n \in 1 .. Len(published) : (published \o added)[n] = published[n]
          /\ \A k \in 1 .. Len(added) : (published \o added)[Len(published) + k] = added[k]
      BY <1>6, <2>2
    <3> QED BY <2>2, <3>1, Zenon
  <2> QED BY <2>1, <2>3, <2>4
<1>10. /\ more \in Seq(Shown) /\ Len(more) = size
       /\ \A k \in 1 .. size : more[k] = With(state, batch, k)
  <2>1. \A k \in 1 .. size : With(state, batch, k) \in Shown
    <3> HIDE DEF state
    <3> QED BY <1>3, <1>4, <1>7, WithTypes
  <2>2. \A k \in 1 .. size : Applies(state, SubSeq(batch, 1, k)) = With(state, batch, k)
    BY DEF With
  <2> HIDE DEF state
  <2> QED BY <1>3, <1>4, <2>1, <2>2
<1>11. shown \in Seq(Shown) /\ Len(shown) = length /\ shown' = shown \o more
  BY <1>1, <1>6 DEF Standing, FeedTypeOK
<1> HIDE DEF more, added
<1>12. /\ shown' \in Seq(Shown) /\ Len(shown') = length + size
       /\ \A n \in 1 .. length : shown'[n] = shown[n]
       /\ \A k \in 1 .. size : shown'[length + k] = With(state, batch, k)
  <2>1. /\ shown \o more \in Seq(Shown) /\ Len(shown \o more) = length + size
        /\ \A n \in 1 .. length : (shown \o more)[n] = shown[n]
        /\ \A k \in 1 .. size : (shown \o more)[length + k] = more[k]
    <3>1. /\ shown \o more \in Seq(Shown)
          /\ Len(shown \o more) = Len(shown) + Len(more)
          /\ \A n \in 1 .. Len(shown) : (shown \o more)[n] = shown[n]
          /\ \A k \in 1 .. Len(more) : (shown \o more)[Len(shown) + k] = more[k]
      <4>1. shown \in Seq(Shown) /\ more \in Seq(Shown)
        BY <1>10, <1>11
      <4> HIDE DEF length, state
      <4> QED BY <4>1
    <3> HIDE DEF length, state
    <3> QED BY <1>10, <1>11, <3>1, Zenon
  <2> QED BY <1>10, <1>11, <2>1
<1>13. \A n \in 0 .. length : SnapshotAt(n)' = SnapshotAt(n)
  BY <1>12 DEF SnapshotAt
<1>14. \A n \in length .. length + size : SnapshotAt(n)' = With(state, batch, n - length)
  <2> SUFFICES ASSUME NEW n \in length .. length + size
               PROVE  SnapshotAt(n)' = With(state, batch, n - length)
    OBVIOUS
  <2>1. CASE n = length
    <3>1. With(state, batch, 0) = state
      <4> HIDE DEF state
      <4> QED BY <1>4, <1>7, NothingApplied
    <3>2. n - length = 0 /\ n \in 0 .. length
      BY <1>6, <2>1
    <3>3. SnapshotAt(n)' = SnapshotAt(n)
      BY <1>13, <3>2
    <3> QED BY <2>1, <3>1, <3>2, <3>3
  <2>2. CASE n # length
    <3> DEFINE k == n - length
    <3>1. k \in 1 .. size /\ length + k = n /\ n # 0
      BY <1>3, <1>6, <2>2
    <3>2. shown'[n] = With(state, batch, k)
      <4> HIDE DEF k, state
      <4> QED BY <1>12, <3>1
    <3> QED BY <3>1, <3>2 DEF SnapshotAt
  <2> QED BY <2>1, <2>2
<1> HIDE DEF state
<1>15. replica' = replica /\ damages' = damages
  BY <1>1
<1>16. FeedTypeOK'
  BY <1>3, <1>6, <1>9, <1>12, <1>15 DEF FeedInv, FeedTypeOK
<1>17. ShownFollows'
  <2> SUFFICES ASSUME NEW n \in 1 .. Len(published)'
               PROVE  /\ shown'[n] = Stepped(SnapshotAt(n - 1)', published'[n].update)
                      /\ shown'[n].sequence = n
                      /\ Fits(SnapshotAt(n - 1)', published'[n].update)
    BY DEF ShownFollows, Fits, Stepped
  <2>1. CASE n \in 1 .. length
    <3>1. n - 1 \in 0 .. length
      BY <1>6, <2>1
    <3>2. /\ shown'[n] = shown[n] /\ published'[n] = published[n]
          /\ SnapshotAt(n - 1)' = SnapshotAt(n - 1)
      BY <1>9, <1>12, <1>13, <2>1, <3>1
    <3> QED BY <1>6, <2>1, <3>2 DEF Standing, ShownFollows
  <2>2. CASE n \notin 1 .. length
    <3> DEFINE k == n - length
    <3>1. k \in 1 .. size /\ length + k = n /\ k \in 0 .. size /\ k - 1 \in 0 .. size
          /\ (n - 1) - length = k - 1 /\ n - 1 \in length .. length + size
          /\ k \in 1 .. Len(batch)
      BY <1>3, <1>4, <1>6, <1>9, <2>2
    <3> HIDE DEF k
    <3>2. /\ shown'[n] = With(state, batch, k) /\ published'[n].update = batch[k]
          /\ SnapshotAt(n - 1)' = With(state, batch, k - 1)
      <4>1. shown'[n] = With(state, batch, k) /\ published'[n].update = batch[k]
        BY <1>9, <1>12, <3>1
      <4>2. SnapshotAt(n - 1)' = With(state, batch, (n - 1) - length)
        BY <1>14, <3>1
      <4> QED BY <3>1, <4>1, <4>2
    <3>3. ~Bad(state, batch, k)
      BY <1>8, <3>1
    <3>4. /\ With(state, batch, k) = Stepped(With(state, batch, k - 1), batch[k])
          /\ Fits(With(state, batch, k - 1), batch[k])
      BY <1>4, <1>7, <3>1, <3>3, OneApplied
    <3>5. With(state, batch, k).sequence = n
      BY <1>4, <1>7, <3>1, WithTypes
    <3> QED BY <3>2, <3>4, <3>5
  <2> QED BY <2>1, <2>2
<1>18. ReplicaShowsPublished'
  <2>1. ASSUME ~replica.poisoned, NEW n \in 0 .. length, n = replica.sequence
        PROVE  replica = SnapshotAt(n)'
    <3>1. replica = SnapshotAt(n)
      BY <2>1 DEF FeedInv, ReplicaShowsPublished
    <3> QED BY <1>13, <3>1
  <2>2. replica.sequence \in 0 .. length
    BY DEF FeedInv, FeedTypeOK
  <2> QED BY <1>15, <2>1, <2>2 DEF ReplicaShowsPublished, SnapshotAt
<1>19. OnlyDamagePoisons'
  BY <1>15 DEF FeedInv, OnlyDamagePoisons
<1> QED BY <1>5, <1>16, <1>17, <1>18, <1>19 DEF FeedInv

\* The ring alone.
LEMMA RingAloneKeeps ==
    ASSUME FeedInv, RingInv', UNCHANGED <<published, shown, replica, damages>>
    PROVE  FeedInv'
<1>1. /\ FeedTypeOK' = FeedTypeOK /\ ShownFollows' = ShownFollows
      /\ ReplicaShowsPublished' = ReplicaShowsPublished
      /\ OnlyDamagePoisons' = OnlyDamagePoisons
  BY DEF FeedTypeOK, ShownFollows, ReplicaShowsPublished, OnlyDamagePoisons, SnapshotAt, Fits
<1> QED BY <1>1 DEF FeedInv

LEMMA RingStepsKeep ==
    ASSUME FeedInv, PushBatch \/ RestartRing
    PROVE  FeedInv'
<1>1. CASE PushBatch
  <2>1. RingInv'
    BY <1>1, PushKeeps DEF PushBatch, FeedInv
  <2>2. UNCHANGED <<published, shown, replica, damages>>
    BY <1>1 DEF PushBatch, PushUpdates
  <2> QED BY <2>1, <2>2, RingAloneKeeps
<1>2. CASE RestartRing
  <2>1. RingInv'
    BY <1>2, NewRingKeeps DEF RestartRing, FeedInv
  <2>2. UNCHANGED <<published, shown, replica, damages>>
    BY <1>2 DEF RestartRing, NewRing
  <2> QED BY <2>1, <2>2, RingAloneKeeps
<1> QED BY <1>1, <1>2

----------------------------------------------------------------------------
(* The steps of the replica *)

\* The publisher and its ring as they were, and a replica that stands.
LEMMA ReplicaAloneKeeps ==
    ASSUME FeedInv, UNCHANGED publisherVars,
           replica' \in Shown, replica'.sequence \in 0 .. Len(published), damages' \in Nat,
           ~replica'.poisoned => replica' = SnapshotAt(replica'.sequence),
           damages' = 0 => ~replica'.poisoned
    PROVE  FeedInv'
<1>1. UNCHANGED <<published, preserve, slots, nextSlot, retained, latest, shown>>
  BY DEF publisherVars, feedVars
<1>2. RingInv'
  BY <1>1, RingSteps DEF FeedInv, feedVars
<1>3. ShownFollows' = ShownFollows
  BY <1>1 DEF ShownFollows, SnapshotAt, Fits
<1>4. FeedTypeOK'
  BY <1>1 DEF FeedInv, FeedTypeOK
<1>5. ReplicaShowsPublished'
  BY <1>1 DEF ReplicaShowsPublished, SnapshotAt
<1> QED BY <1>2, <1>3, <1>4, <1>5 DEF FeedInv, OnlyDamagePoisons

\* Where a replica that is not poisoned stands.
LEMMA ReplicaStands ==
    ASSUME FeedInv
    PROVE  /\ Standing /\ replica \in Shown /\ replica.sequence \in 0 .. Len(published)
           /\ Len(published) \in Nat /\ damages \in Nat
           /\ ~replica.poisoned => replica = SnapshotAt(replica.sequence)
           /\ damages = 0 => ~replica.poisoned
BY DEF FeedInv, Standing, FeedTypeOK, ReplicaShowsPublished, OnlyDamagePoisons, RingInv, RingTypeOK

\* A step that applies what goes on behind a state the publisher showed.
LEMMA ReplicaFollows ==
    ASSUME FeedInv, NEW state \in Shown, ~state.poisoned,
           state.sequence \in 0 .. Len(published), state = SnapshotAt(state.sequence),
           NEW updates, Repeats(state.sequence, updates),
           UNCHANGED publisherVars, replica' = AppliesUntilBad(state, updates),
           damages' \in Nat,
           \/ damages' # 0
           \/ \A i \in 1 .. Len(updates) : updates[i] = published[state.sequence + i].update
    PROVE  FeedInv' /\ replica'.sequence >= state.sequence
<1> DEFINE after == AppliesUntilBad(state, updates)
<1>1. /\ after \in Shown
      /\ after.sequence \in state.sequence .. state.sequence + Len(updates)
      /\ ~after.poisoned => after = SnapshotAt(after.sequence)
      /\ (\A i \in 1 .. Len(updates) : updates[i] = published[state.sequence + i].update)
            => ~after.poisoned
  BY ReplicaStands, ClientFollows
<1> HIDE DEF after
<1>2. replica' = after
  BY DEF after
<1>3. /\ Len(updates) \in Nat /\ state.sequence + Len(updates) <= Len(published)
      /\ Len(published) \in Nat /\ state.sequence \in Nat
  BY ReplicaStands DEF Repeats, Shown
<1>4. after.sequence \in 0 .. Len(published) /\ after.sequence >= state.sequence
  BY <1>1, <1>3
<1>5. FeedInv'
  BY <1>1, <1>2, <1>4, ReplicaAloneKeeps
<1> QED BY <1>2, <1>4, <1>5

\* A step to something the publisher showed.
LEMMA ReplicaTakes ==
    ASSUME FeedInv, NEW n \in 0 .. Len(published), AppliesSnapshot(SnapshotAt(n))
    PROVE  FeedInv' /\ replica'.sequence >= replica.sequence
<1>1. /\ UNCHANGED publisherVars /\ damages' = damages /\ replica' = SnapshotAt(n)
      /\ SnapshotAt(n).sequence >= replica.sequence
  BY DEF AppliesSnapshot
<1>2. SnapshotAt(n) \in Shown /\ SnapshotAt(n).sequence = n /\ ~SnapshotAt(n).poisoned
  BY ReplicaStands, SnapshotTypes
<1>3. FeedInv'
  BY <1>1, <1>2, ReplicaStands, ReplicaAloneKeeps
<1> QED BY <1>1, <1>3

LEMMA ReceiveKeeps ==
    ASSUME FeedInv, ReceiveBatch \/ ReceiveUpdate
    PROVE  FeedInv' /\ replica'.sequence >= replica.sequence
<1>1. ASSUME NEW first \in 1 .. Len(published), NEW last \in 1 .. Len(published), first <= last,
             BatchFits(first, PublishedUpdates(first, last)),
             replica' = AppliesUntilBad(replica, PublishedUpdates(first, last)),
             UNCHANGED <<publisherVars, damages>>
      PROVE  FeedInv' /\ replica'.sequence >= replica.sequence
  <2> DEFINE updates == PublishedUpdates(first, last)
  <2>1. ~replica.poisoned /\ first = replica.sequence + 1
    BY <1>1 DEF BatchFits
  <2>2. /\ Standing /\ replica \in Shown /\ replica.sequence \in 0 .. Len(published)
        /\ replica = SnapshotAt(replica.sequence) /\ damages \in Nat
    BY <2>1, ReplicaStands
  <2>3. first - 1 = replica.sequence
    BY <2>1, <2>2
  <2>4. /\ Repeats(replica.sequence, updates)
        /\ \A i \in 1 .. Len(updates) : updates[i] = published[replica.sequence + i].update
    BY <1>1, <2>2, <2>3, PublishedPart
  <2>5. replica' = AppliesUntilBad(replica, updates) /\ UNCHANGED publisherVars /\ damages' \in Nat
    BY <1>1, <2>2
  <2> HIDE DEF updates
  <2> QED BY <2>1, <2>2, <2>4, <2>5, ReplicaFollows
<1>2. CASE ReceiveBatch
  BY <1>1, <1>2 DEF ReceiveBatch
<1>3. CASE ReceiveUpdate
  <2>1. PICK n \in 1 .. Len(published) :
           /\ BatchFits(n, PublishedUpdates(n, n))
           /\ replica' = AppliesUntilBad(replica, PublishedUpdates(n, n))
           /\ UNCHANGED <<publisherVars, damages>>
    BY <1>3 DEF ReceiveUpdate
  <2>2. n <= n
    OBVIOUS
  <2> QED BY <1>1, <2>1, <2>2
<1> QED BY <1>2, <1>3

LEMMA ReceiveDamagedKeeps ==
    ASSUME FeedInv, ReceiveDamaged
    PROVE  FeedInv' /\ replica'.sequence >= replica.sequence
<1>1. PICK first \in 1 .. Len(published), last \in 1 .. Len(published) :
         \E n \in first .. last :
            LET updates == [PublishedUpdates(first, last) EXCEPT ![n - first + 1].traded = @ + 1]
            IN  /\ damages < MaxDamages
                /\ IsBatch(first, last)
                /\ published[n].update.traded > 0
                /\ BatchFits(first, updates)
                /\ replica' = AppliesUntilBad(replica, updates)
                /\ damages' = damages + 1
                /\ UNCHANGED publisherVars
  BY DEF ReceiveDamaged
<1>2. PICK n \in first .. last :
         LET updates == [PublishedUpdates(first, last) EXCEPT ![n - first + 1].traded = @ + 1]
         IN  /\ damages < MaxDamages
             /\ published[n].update.traded > 0
             /\ BatchFits(first, updates)
             /\ replica' = AppliesUntilBad(replica, updates)
             /\ damages' = damages + 1
             /\ UNCHANGED publisherVars
  BY <1>1
<1> DEFINE sent == PublishedUpdates(first, last)
           updates == [sent EXCEPT ![n - first + 1].traded = @ + 1]
<1>3. /\ published[n].update.traded > 0 /\ BatchFits(first, updates)
      /\ replica' = AppliesUntilBad(replica, updates) /\ damages' = damages + 1
      /\ UNCHANGED publisherVars
  BY <1>2
<1>4. ~replica.poisoned /\ first = replica.sequence + 1
  BY <1>3 DEF BatchFits
<1>5. /\ Standing /\ replica \in Shown /\ replica.sequence \in 0 .. Len(published)
      /\ replica = SnapshotAt(replica.sequence) /\ damages \in Nat /\ Len(published) \in Nat
  BY <1>4, ReplicaStands
<1>6. damages' \in Nat /\ damages' # 0
  BY <1>3, <1>5
<1>7. first - 1 = replica.sequence /\ first <= last /\ n \in Int
  BY <1>4, <1>5
<1>8. /\ Repeats(first - 1, sent) /\ Len(sent) = last - first + 1
      /\ \A i \in 1 .. Len(sent) : sent[i] = published[(first - 1) + i].update
  BY <1>5, <1>7, PublishedPart
<1>9. /\ sent \in Seq(UpdateRecords) /\ (first - 1) + Len(sent) <= Len(published)
      /\ \A i \in 1 .. Len(sent) : SameEffect(sent[i], published[(first - 1) + i].update)
  BY <1>8 DEF Repeats
<1> DEFINE k == n - first + 1
<1>10. k \in 1 .. Len(sent) /\ (first - 1) + k = n
  BY <1>5, <1>7, <1>8
<1> HIDE DEF sent, k
<1>11. sent[k] \in UpdateRecords /\ sent[k].traded > 0
  BY <1>3, <1>8, <1>9, <1>10
<1>12. updates = [sent EXCEPT ![k].traded = sent[k].traded + 1]
  BY DEF k
<1>13. [sent[k] EXCEPT !.traded = sent[k].traded + 1] \in UpdateRecords
  BY <1>11 DEF UpdateRecords
<1>14. SameEffect([sent[k] EXCEPT !.traded = sent[k].traded + 1], published[(first - 1) + k].update)
  <2>1. SameEffect(sent[k], published[(first - 1) + k].update)
    BY <1>9, <1>10
  <2> DEFINE damaged == [sent[k] EXCEPT !.traded = sent[k].traded + 1]
  <2>2. /\ damaged.side = sent[k].side /\ damaged.price = sent[k].price
        /\ damaged.lots = sent[k].lots /\ damaged.count = sent[k].count
        /\ damaged.traded = sent[k].traded + 1
    BY <1>11 DEF UpdateRecords
  <2>3. damaged.traded > 0
    BY <1>11, <2>2 DEF UpdateRecords
  <2> HIDE DEF damaged
  <2>4. SameEffect(damaged, published[(first - 1) + k].update)
    BY <1>11, <2>1, <2>2, <2>3 DEF SameEffect
  <2> QED BY <2>4 DEF damaged
<1>15. /\ updates \in Seq(UpdateRecords) /\ Len(updates) = Len(sent)
       /\ \A i \in 1 .. Len(sent) : updates[i] = IF i = k THEN [sent[k] EXCEPT !.traded = sent[k].traded + 1]
                                                 ELSE sent[i]
  <2>1. updates = [sent EXCEPT ![k] = [sent[k] EXCEPT !.traded = sent[k].traded + 1]]
    BY <1>12
  <2> HIDE DEF updates
  <2> QED BY <1>9, <1>10, <1>13, <2>1
<1> HIDE DEF updates
<1>16. Repeats(first - 1, updates)
  BY <1>9, <1>14, <1>15 DEF Repeats
<1> QED BY <1>3, <1>4, <1>5, <1>6, <1>7, <1>16, ReplicaFollows

LEMMA SnapshotKeeps ==
    ASSUME FeedInv, ApplySnapshot \/ SnapshotNow
    PROVE  FeedInv' /\ replica'.sequence >= replica.sequence
<1>1. CASE ApplySnapshot
  BY <1>1, ReplicaTakes DEF ApplySnapshot
<1>2. CASE SnapshotNow
  <2>1. Len(published) \in 0 .. Len(published)
    BY ReplicaStands
  <2> QED BY <1>2, <2>1, ReplicaTakes DEF SnapshotNow
<1> QED BY <1>1, <1>2

LEMMA ReplayKeeps ==
    ASSUME FeedInv, ApplySnapshotAndReplay
    PROVE  FeedInv' /\ replica'.sequence >= replica.sequence
<1>1. PICK n \in 0 .. Len(published), size \in PageSizes :
         Replay(n, size) # <<>> /\ AppliesReplay(SnapshotAt(n), Replay(n, size))
  BY DEF ApplySnapshotAndReplay
<1> DEFINE updates == UpdatesOf(Replay(n, size))
           state == SnapshotAt(n)
<1>2. /\ replica' = AppliesUntilBad(state, updates) /\ UNCHANGED publisherVars
      /\ damages' = damages /\ AppliesUntilBad(state, updates).sequence >= replica.sequence
  BY <1>1 DEF AppliesReplay
<1>3. Standing /\ damages \in Nat /\ size \in Nat \ {0}
  BY ReplicaStands, FeedAssumption
<1>4. state \in Shown /\ state.sequence = n /\ ~state.poisoned
  BY <1>3, SnapshotTypes
<1>5. /\ Repeats(n, updates)
      /\ \A i \in 1 .. Len(updates) : updates[i] = published[n + i].update
  BY <1>1, <1>3, PagePart
<1>6. state = SnapshotAt(state.sequence)
  BY <1>4
<1> HIDE DEF updates, state
<1>7. FeedInv'
  BY <1>2, <1>3, <1>4, <1>5, <1>6, ReplicaFollows
<1> QED BY <1>2, <1>7

LEMMA FollowRingKeeps ==
    ASSUME FeedInv, FollowRing
    PROVE  FeedInv' /\ replica'.sequence >= replica.sequence
<1>1. PICK size \in PageSizes :
         /\ Replay(replica.sequence, size) # <<>>
         /\ ~replica.poisoned
         /\ replica' = AppliesUntilBad(replica, UpdatesOf(Replay(replica.sequence, size)))
         /\ UNCHANGED <<publisherVars, damages>>
  BY DEF FollowRing
<1> DEFINE updates == UpdatesOf(Replay(replica.sequence, size))
<1>2. /\ Standing /\ damages \in Nat /\ size \in Nat \ {0} /\ replica \in Shown
      /\ replica.sequence \in 0 .. Len(published) /\ replica = SnapshotAt(replica.sequence)
  BY <1>1, ReplicaStands, FeedAssumption
<1>3. /\ Repeats(replica.sequence, updates)
      /\ \A i \in 1 .. Len(updates) : updates[i] = published[replica.sequence + i].update
  BY <1>1, <1>2, PagePart
<1>4. replica' = AppliesUntilBad(replica, updates) /\ UNCHANGED publisherVars /\ damages' \in Nat
  BY <1>1, <1>2
<1> HIDE DEF updates
<1> QED BY <1>1, <1>2, <1>3, <1>4, ReplicaFollows

----------------------------------------------------------------------------
(* Theorems *)

LEMMA FeedInitially == FeedInit => FeedInv
<1> SUFFICES ASSUME FeedInit PROVE FeedInv
  OBVIOUS
<1>1. RingInv /\ published = <<>>
  BY RingInitially DEF FeedInit, RingInit
<1>2. NoDepth \in Depths
  BY DEF NoDepth, NoLevel, Depths
<1>3. Nothing \in Shown /\ Nothing.sequence = 0 /\ ~Nothing.poisoned
  BY <1>2 DEF Nothing, Shown
<1>4. replica = Nothing /\ shown = <<>> /\ damages = 0
  BY DEF FeedInit
<1>5. FeedTypeOK
  BY <1>1, <1>3, <1>4 DEF FeedTypeOK
<1>6. ShownFollows
  BY <1>1 DEF ShownFollows
<1>7. ReplicaShowsPublished /\ OnlyDamagePoisons
  BY <1>3, <1>4 DEF ReplicaShowsPublished, OnlyDamagePoisons, SnapshotAt
<1> QED BY <1>1, <1>5, <1>6, <1>7 DEF FeedInv

\* Each step keeps the invariant, and none takes the replica back.
LEMMA FeedStep ==
    ASSUME FeedInv, [FeedNext]_channelVars
    PROVE  FeedInv' /\ replica'.sequence >= replica.sequence
<1>1. replica.sequence >= replica.sequence
  BY ReplicaStands DEF Shown
<1>2. CASE PublishBatch
  <2>1. replica' = replica
    BY <1>2 DEF PublishBatch
  <2> QED BY <1>1, <1>2, <2>1, PublishBatchKeeps
<1>3. CASE PushBatch \/ RestartRing
  <2>1. replica' = replica
    BY <1>3 DEF PushBatch, RestartRing
  <2> QED BY <1>1, <1>3, <2>1, RingStepsKeep
<1>4. CASE ReceiveBatch \/ ReceiveUpdate
  BY <1>4, ReceiveKeeps
<1>5. CASE ReceiveDamaged
  BY <1>5, ReceiveDamagedKeeps
<1>6. CASE ApplySnapshot \/ SnapshotNow
  BY <1>6, SnapshotKeeps
<1>7. CASE ApplySnapshotAndReplay
  BY <1>7, ReplayKeeps
<1>8. CASE FollowRing
  BY <1>8, FollowRingKeeps
<1>9. CASE UNCHANGED channelVars
  <2>1. UNCHANGED publisherVars /\ replica' = replica /\ damages' = damages
    BY <1>9 DEF channelVars
  <2> QED BY <1>1, <2>1, ReplicaStands, ReplicaAloneKeeps
<1> QED BY <1>2, <1>3, <1>4, <1>5, <1>6, <1>7, <1>8, <1>9 DEF FeedNext

\* Whatever is published, lost, repeated, damaged, replayed or taken as a
\* snapshot, the feed's invariant stands.
THEOREM FeedInvariant == FeedSpec => []FeedInv
<1>1. FeedInv /\ [FeedNext]_channelVars => FeedInv'
  BY FeedStep
<1> QED BY FeedInitially, <1>1, PTL DEF FeedSpec

\* A replica that apply_batch, apply_replay and apply_snapshot did not poison
\* shows what the publisher showed at its sequence.
THEOREM ReplicasShowThePublished == FeedSpec => []ReplicaShowsPublished
<1>1. FeedInv => ReplicaShowsPublished
  BY DEF FeedInv
<1> QED BY FeedInvariant, <1>1, PTL

\* No batch, page or snapshot takes a replica back, not even a poisoned one.
THEOREM ReplicasNeverGoBack == FeedSpec => NeverGoesBack
<1>1. FeedInv /\ [FeedNext]_channelVars => [replica'.sequence >= replica.sequence]_channelVars
  BY FeedStep
<1> QED BY FeedInvariant, <1>1, PTL DEF FeedSpec, NeverGoesBack

\* The pages of the ring go on behind their cursor, beside a publisher that
\* sends what fits and a replica that takes them.
THEOREM FeedPagesGoOn == FeedSpec => []PagesGoOn
<1>1. FeedInv => PagesGoOn
  BY PagesFollow DEF FeedInv
<1> QED BY FeedInvariant, <1>1, PTL

\* What the publisher sends never poisons a replica, however it arrives; only
\* a batch that was damaged on its way does.
THEOREM OnlyDamageDoes == FeedSpec => []OnlyDamagePoisons
<1>1. FeedInv => OnlyDamagePoisons
  BY DEF FeedInv
<1> QED BY FeedInvariant, <1>1, PTL

============================================================================
