------------------------------ MODULE ReplayRing ------------------------------
(***************************************************************************)
(* The replay buffer beside a publisher: a ring of the last updates it was *)
(* given, from which a client that missed some asks for a page.            *)
(*                                                                         *)
(* The continuous feed treats each update as a batch of its own; the call  *)
(* auction's keeps the bounds of a command's batch, stores whole batches   *)
(* only and returns whole batches only.                                    *)
(***************************************************************************)
EXTENDS Integers, Sequences

CONSTANTS
    Updates,        \* what the publisher publishes
    Size,           \* the slots of the ring
    MaxPublished    \* a bound: the publisher stops there

ASSUME RingAssumption == Size \in Nat \ {0} /\ MaxPublished \in Nat

VARIABLES
    published,  \* the n-th update with its batch's bounds: the feed so far
    preserve,   \* PRESERVE_BATCH_BOUNDARIES, fixed
    slots,
    nextSlot,
    retained,
    latest      \* latest_sequence

ringVars == <<slots, nextSlot, retained, latest>>
feedVars == <<published, preserve, slots, nextSlot, retained, latest>>

Entries == [update : Updates, starts : BOOLEAN, ends : BOOLEAN]
Empty == [empty |-> TRUE]
Slots == 0 .. Size - 1

RingInit ==
    /\ published = <<>>
    /\ preserve \in BOOLEAN
    /\ slots = [slot \in Slots |-> Empty]
    /\ nextSlot = 0 /\ retained = 0 /\ latest = 0

----------------------------------------------------------------------------
(* The ring *)

RingAdvance(index, distance) ==
    IF distance < Size - index THEN index + distance ELSE distance - (Size - index)

EarliestSlot == IF nextSlot >= retained THEN nextSlot - retained ELSE Size - (retained - nextSlot)

\* The entry of a sequence the ring retains.
RetainedSlot(sequence) == slots[RingAdvance(EarliestSlot, sequence - (latest - retained + 1))]

\* What the ring stores of an update.
Stored(sequence) ==
    IF preserve THEN published[sequence]
    ELSE [update |-> published[sequence].update, starts |-> TRUE, ends |-> TRUE]

\* How far a slot lies behind the next one to be written.
Distance(slot) == IF slot >= nextSlot THEN slot - nextSlot ELSE slot + Size - nextSlot

\* The next `count' updates take the next slots; the oldest give way.
Pushed(count) ==
    /\ slots' = [slot \in Slots |->
                    IF Distance(slot) < count THEN Stored(latest + 1 + Distance(slot)) ELSE slots[slot]]
    /\ nextSlot' = RingAdvance(nextSlot, count)
    /\ retained' = IF retained + count <= Size THEN retained + count ELSE Size
    /\ latest' = latest + count

IsBatch(first, last) ==
    /\ published[first].starts /\ published[last].ends
    /\ \A i \in first .. last - 1 : ~published[i].ends

\* A batch, or in the continuous feed a single update; it may repeat what the
\* ring retains, and goes on where the ring ends.
PushUpdates(first, last) ==
    /\ IsBatch(first, last) \/ (~preserve /\ first = last)
    /\ last - first + 1 <= Size
    /\ latest + 1 \in first .. last
    /\ first > latest - retained
    /\ Pushed(last - latest)
    /\ UNCHANGED <<published, preserve>>

\* The buffer is built anew where the publisher is; what it had is gone.
NewRing ==
    /\ slots' = [slot \in Slots |-> Empty]
    /\ nextSlot' = 0 /\ retained' = 0 /\ latest' = Len(published)
    /\ UNCHANGED <<published, preserve>>

----------------------------------------------------------------------------
(* Replay.  A refused request answers with no page. *)

Offset(after) == after - (latest - retained)

\* Mutant of Page: read from the slot of the cursor.
PageFromCursor(after, count) ==
    LET first == RingAdvance(EarliestSlot, IF Offset(after) = 0 THEN 0 ELSE Offset(after) - 1)
    IN  [i \in 1 .. count |-> slots[RingAdvance(first, i - 1)]]

Page(after, count) ==
    LET first == RingAdvance(EarliestSlot, Offset(after))
    IN  [i \in 1 .. count |-> slots[RingAdvance(first, i - 1)]]

HoldsAfter(after) == after >= latest - retained /\ after < latest

\* Up to `maximum' updates behind `after'; an empty page at the end.
ReplayAfter(after, maximum) ==
    LET available == latest - after
    IN  IF ~HoldsAfter(after) THEN <<>>
        ELSE Page(after, IF available <= maximum THEN available ELSE maximum)

\* A cursor between two batches: what is retained before it ends a batch and
\* what follows starts one.
BetweenBatches(after) ==
    /\ after > latest - retained => RetainedSlot(after).ends
    /\ RetainedSlot(after + 1).starts

\* The lengths of the pages that hold whole batches.
PageShapes(after, maximum) ==
    {count \in 1 .. maximum : count <= latest - after /\ RetainedSlot(after + count).ends}

ReplayBatchesAfter(after, maximum) ==
    IF ~HoldsAfter(after) \/ ~BetweenBatches(after) \/ PageShapes(after, maximum) = {} THEN <<>>
    ELSE Page(after, CHOOSE count \in PageShapes(after, maximum) :
                        \A other \in PageShapes(after, maximum) : other <= count)

Replay(after, maximum) ==
    IF preserve THEN ReplayBatchesAfter(after, maximum) ELSE ReplayAfter(after, maximum)

----------------------------------------------------------------------------

\* The publisher appends a batch.
Publish(updates) ==
    /\ Len(published) + Len(updates) <= MaxPublished
    /\ published' = published \o [i \in 1 .. Len(updates) |->
                        [update |-> updates[i], starts |-> i = 1, ends |-> i = Len(updates)]]
    /\ UNCHANGED <<preserve, slots, nextSlot, retained, latest>>

UpdateBatches == UNION {[1 .. size -> Updates] : size \in 1 .. Size}

RingNext ==
    \/ \E updates \in UpdateBatches : Publish(updates)
    \/ \E first, last \in 1 .. Len(published) : PushUpdates(first, last)
    \/ NewRing

RingSpec == RingInit /\ [][RingNext]_feedVars

----------------------------------------------------------------------------
(* Properties *)

RingTypeOK ==
    /\ published \in Seq(Entries)
    /\ preserve \in BOOLEAN
    /\ slots \in [Slots -> Entries \cup {Empty}]
    /\ nextSlot \in Slots /\ retained \in 0 .. Size
    /\ latest \in 0 .. Len(published) /\ retained <= latest

\* Whatever was pushed, however often the ring came round and was rebuilt,
\* the slots are the last updates of the feed, in order: retained_slot finds
\* the update of each sequence the ring says it has.
RingHoldsSuffix ==
    \A sequence \in latest - retained + 1 .. latest : RetainedSlot(sequence) = Stored(sequence)

\* A page goes on behind its cursor without a gap or a repetition, is never
\* longer than asked for, and in the call auction's feed ends with a batch.
PagesGoOn ==
    \A after \in 0 .. latest, maximum \in 1 .. Size :
        LET page == Replay(after, maximum)
        IN  /\ Len(page) <= maximum
            /\ \A i \in 1 .. Len(page) : page[i] = Stored(after + i)
            /\ preserve /\ page # <<>> => page[1].starts /\ page[Len(page)].ends

=============================================================================
