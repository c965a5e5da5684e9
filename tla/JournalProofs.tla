--------------------------- MODULE JournalProofs ---------------------------
(***************************************************************************)
(* The single-file log for all records, anchors, durabilities, bounds and  *)
(* environments that JournalAssumption admits, and the lease that admits   *)
(* its one writer.                                                         *)
(***************************************************************************)
EXTENDS Journal, WriterLease, SequenceTheorems, TLAPS

\* A file that a scan reads to its end.
Verified(file) ==
    /\ ContiguousFrom(file, EffectiveFirst(file))
    /\ \A i \in 2 .. Len(file) : ~ IsAnchor(file[i])

----------------------------------------------------------------------------
(* Files *)

\* A file's first sequence is a sequence.
LEMMA FirstIsSequence ==
    ASSUME NEW file \in Seq(Frame)
    PROVE  EffectiveFirst(file) \in Nat \ {0}
<1>1. CASE file = <<>>
    BY <1>1, JournalAssumption DEF JournalAssumption, EffectiveFirst
<1>2. CASE file # <<>>
    <2>1. file[1] \in Frame
        BY <1>2, EmptySeq, ElementOfSeq
    <2> QED
        BY <2>1, JournalAssumption DEF JournalAssumption, EffectiveFirst, Frame
<1> QED
    BY <1>1, <1>2

\* Cutting a verified file behind any frame leaves a verified file.
LEMMA PrefixVerified ==
    ASSUME NEW file \in Seq(Frame), Verified(file), NEW k \in 0 .. Len(file)
    PROVE  /\ SubSeq(file, 1, k) \in Seq(Frame)
           /\ Len(SubSeq(file, 1, k)) = k
           /\ Verified(SubSeq(file, 1, k))
<1> DEFINE prefix == SubSeq(file, 1, k)
<1>1. /\ prefix \in Seq(Frame) /\ Len(prefix) = k
      /\ \A i \in 1 .. k : prefix[i] = file[i]
    OBVIOUS
<1>2. k # 0 => EffectiveFirst(prefix) = EffectiveFirst(file)
    BY <1>1 DEF EffectiveFirst
<1> HIDE DEF prefix
<1>3. ContiguousFrom(prefix, EffectiveFirst(prefix))
    BY <1>1, <1>2 DEF Verified, ContiguousFrom
<1>4. \A i \in 2 .. Len(prefix) : ~ IsAnchor(prefix[i])
    BY <1>1 DEF Verified, IsAnchor
<1> QED
    BY <1>1, <1>3, <1>4 DEF prefix, Verified

\* Frames that carry on the sequence keep a file verified.
LEMMA ExtensionVerified ==
    ASSUME NEW file \in Seq(Frame), Verified(file), NEW more \in Seq(Frame),
           \A i \in 1 .. Len(more) :
              /\ more[i].seq = EffectiveFirst(file) + Len(file) + i - 1
              /\ ~ IsAnchor(more[i])
    PROVE  /\ file \o more \in Seq(Frame)
           /\ Len(file \o more) = Len(file) + Len(more)
           /\ Verified(file \o more)
           /\ EffectiveFirst(file \o more) = EffectiveFirst(file)
<1> DEFINE whole == file \o more
<1>1. /\ whole \in Seq(Frame) /\ Len(whole) = Len(file) + Len(more)
      /\ \A i \in 1 .. Len(file) : whole[i] = file[i]
      /\ \A i \in 1 .. Len(whole) : i > Len(file) => whole[i] = more[i - Len(file)]
    OBVIOUS
<1> HIDE DEF whole
<1> DEFINE start == EffectiveFirst(file)
<1>2. EffectiveFirst(whole) = start
    <2>1. CASE file = <<>>
        <3>1. whole # <<>> => 1 \in 1 .. Len(more) /\ whole[1] = more[1]
            BY <1>1, <2>1, EmptySeq
        <3> QED
            BY <2>1, <3>1 DEF EffectiveFirst
    <2>2. CASE file # <<>>
        <3>1. whole # <<>> /\ whole[1] = file[1]
            BY <1>1, <2>2, EmptySeq
        <3> QED
            BY <2>2, <3>1 DEF EffectiveFirst
    <2> QED
        BY <2>1, <2>2
<1>0. start \in Nat
    BY FirstIsSequence
<1>3. ContiguousFrom(whole, start)
    <2> HIDE DEF start
    <2> SUFFICES ASSUME NEW i \in 1 .. Len(whole) PROVE whole[i].seq = start + i - 1
        BY DEF ContiguousFrom
    <2>1. CASE i <= Len(file)
        BY <1>1, <2>1 DEF Verified, ContiguousFrom, start
    <2>2. CASE i > Len(file)
        <3>1. i - Len(file) \in 1 .. Len(more) /\ whole[i] = more[i - Len(file)]
            BY <1>1, <2>2
        <3>2. more[i - Len(file)].seq = start + Len(file) + (i - Len(file)) - 1
            BY <3>1 DEF start
        <3> QED
            BY <1>0, <3>1, <3>2
    <2> QED
        BY <2>1, <2>2
<1>4. \A i \in 2 .. Len(whole) : ~ IsAnchor(whole[i])
    <2> SUFFICES ASSUME NEW i \in 2 .. Len(whole) PROVE ~ IsAnchor(whole[i])
        OBVIOUS
    <2>1. CASE i <= Len(file)
        BY <1>1, <2>1 DEF Verified
    <2>2. CASE i > Len(file)
        <3>1. i - Len(file) \in 1 .. Len(more) /\ whole[i] = more[i - Len(file)]
            BY <1>1, <2>2
        <3> QED
            BY <3>1
    <2> QED
        BY <2>1, <2>2
<1> QED
    BY <1>1, <1>2, <1>3, <1>4 DEF whole, Verified

\* What a cutover stages: the anchor in the place of the frame at `at', then
\* all frames behind it.
CutAt(file, at, anchor) ==
    <<[seq |-> EffectiveFirst(file) + at - 1, body |-> anchor]>>
        \o SubSeq(file, at + 1, Len(file))

\* A staged cutover is the anchor in the replaced frame's place, the frames
\* behind it unchanged, one frame for each frame from the boundary on.
LEMMA CutoverShape ==
    ASSUME NEW file \in Seq(Frame), NEW at \in 1 .. Len(file), NEW anchor \in Anchors
    PROVE  /\ CutAt(file, at, anchor) \in Seq(Frame)
           /\ Len(CutAt(file, at, anchor)) = 1 + Len(file) - at
           /\ CutAt(file, at, anchor)[1] =
                 [seq |-> EffectiveFirst(file) + at - 1, body |-> anchor]
           /\ \A i \in 2 .. 1 + Len(file) - at :
                 CutAt(file, at, anchor)[i] = file[at + i - 1]
<1> DEFINE head == [seq |-> EffectiveFirst(file) + at - 1, body |-> anchor]
           rest == SubSeq(file, at + 1, Len(file))
<1>1. head \in Frame
    <2>1. EffectiveFirst(file) \in Nat \ {0}
        BY FirstIsSequence
    <2>2. EffectiveFirst(file) + at - 1 \in Nat \ {0}
        BY <2>1
    <2> QED
        BY <2>2 DEF Frame
<1>2. /\ rest \in Seq(Frame) /\ Len(rest) = Len(file) - at
      /\ \A i \in 1 .. Len(file) - at : rest[i] = file[at + i]
    OBVIOUS
<1> HIDE DEF head, rest
<1>3. /\ <<head>> \o rest \in Seq(Frame)
      /\ Len(<<head>> \o rest) = 1 + Len(rest)
      /\ (<<head>> \o rest)[1] = head
      /\ \A i \in 2 .. 1 + Len(rest) : (<<head>> \o rest)[i] = rest[i - 1]
    <2>1. <<head>> \in Seq(Frame) /\ Len(<<head>>) = 1 /\ <<head>>[1] = head
        BY <1>1
    <2> QED
        BY <1>2, <2>1, ConcatProperties
<1> QED
    BY <1>2, <1>3 DEF CutAt, head, rest

\* The staged file verifies from the anchor's sequence.
LEMMA CutoverVerified ==
    ASSUME NEW file \in Seq(Frame), Verified(file), NEW at \in 1 .. Len(file),
           NEW anchor \in Anchors
    PROVE  /\ Verified(CutAt(file, at, anchor))
           /\ EffectiveFirst(CutAt(file, at, anchor)) = EffectiveFirst(file) + at - 1
<1> DEFINE new == CutAt(file, at, anchor)
<1>1. /\ new \in Seq(Frame) /\ Len(new) = 1 + Len(file) - at
      /\ new[1] = [seq |-> EffectiveFirst(file) + at - 1, body |-> anchor]
      /\ \A i \in 2 .. Len(new) : new[i] = file[at + i - 1]
    <2>1. new[1] = [seq |-> EffectiveFirst(file) + at - 1, body |-> anchor]
        BY CutoverShape
    <2>2. /\ new \in Seq(Frame) /\ Len(new) = 1 + Len(file) - at
          /\ \A i \in 2 .. 1 + Len(file) - at : new[i] = file[at + i - 1]
        BY CutoverShape
    <2> HIDE DEF new
    <2> QED
        BY <2>1, <2>2
<1>0. EffectiveFirst(file) \in Nat
    BY FirstIsSequence
<1> HIDE DEF new
<1>2. EffectiveFirst(new) = EffectiveFirst(file) + at - 1
    BY <1>1 DEF EffectiveFirst, IsAnchor
<1>3. ContiguousFrom(new, EffectiveFirst(file) + at - 1)
    <2> SUFFICES ASSUME NEW i \in 1 .. Len(new)
                 PROVE  new[i].seq = EffectiveFirst(file) + at - 1 + i - 1
        BY DEF ContiguousFrom
    <2>1. CASE i = 1
        BY <1>0, <1>1, <2>1
    <2>2. CASE i # 1
        <3>1. new[i] = file[at + i - 1] /\ at + i - 1 \in 1 .. Len(file)
            BY <1>1, <2>2
        <3>2. file[at + i - 1].seq = EffectiveFirst(file) + (at + i - 1) - 1
            BY <3>1 DEF Verified, ContiguousFrom
        <3> QED
            BY <1>0, <3>1, <3>2
    <2> QED
        BY <2>1, <2>2
<1>4. \A i \in 2 .. Len(new) : ~ IsAnchor(new[i])
    BY <1>1 DEF Verified
<1> QED
    BY <1>2, <1>3, <1>4 DEF Verified, new

----------------------------------------------------------------------------
(* Frames a file holds *)

\* A file that starts like another holds what the other holds.
LEMMA HeldByExtension ==
    ASSUME NEW file \in Seq(Frame), NEW more \in Seq(Frame),
           Len(file) <= Len(more), \A i \in 1 .. Len(file) : more[i] = file[i],
           NEW frame, Held(frame, file)
    PROVE  Held(frame, more)
<1>1. CASE frame \in RecordsOf(file)
    <2>1. PICK i \in 1 .. Len(file) : ~ IsAnchor(file[i]) /\ frame = file[i]
        BY <1>1 DEF RecordsOf
    <2>2. i \in 1 .. Len(more) /\ ~ IsAnchor(more[i]) /\ frame = more[i]
        BY <2>1
    <2> QED
        BY <2>2 DEF Held, RecordsOf
<1>2. CASE file # <<>> /\ IsAnchor(file[1]) /\ frame.seq <= file[1].seq
    <2>1. more # <<>> /\ more[1] = file[1]
        BY <1>2, EmptySeq
    <2> QED
        BY <1>2, <2>1 DEF Held
<1> QED
    BY <1>1, <1>2 DEF Held

\* A cutover takes away the frames up to `at', for which its anchor stands.
LEMMA HeldByCutover ==
    ASSUME NEW file \in Seq(Frame), Verified(file), NEW at \in 1 .. Len(file),
           NEW anchor \in Anchors,
           NEW frame \in Frame, Held(frame, file)
    PROVE  Held(frame, CutAt(file, at, anchor))
<1> DEFINE new == CutAt(file, at, anchor)
<1>1. /\ new \in Seq(Frame) /\ Len(new) = 1 + Len(file) - at
      /\ \A i \in 2 .. 1 + Len(file) - at : new[i] = file[at + i - 1]
    BY CutoverShape
<1>2. new[1] = [seq |-> EffectiveFirst(file) + at - 1, body |-> anchor]
    BY CutoverShape
<1>3. EffectiveFirst(file) \in Nat
    BY FirstIsSequence
<1> HIDE DEF new
<1> SUFFICES Held(frame, new)
    BY DEF new
<1>4. new # <<>> /\ IsAnchor(new[1]) /\ new[1].seq = EffectiveFirst(file) + at - 1
    BY <1>1, <1>2, EmptySeq DEF IsAnchor
<1>5. CASE frame \in RecordsOf(file)
    <2>1. PICK i \in 1 .. Len(file) : ~ IsAnchor(file[i]) /\ frame = file[i]
        BY <1>5 DEF RecordsOf
    <2>2. CASE i <= at
        <3>1. frame.seq = EffectiveFirst(file) + i - 1
            BY <2>1 DEF Verified, ContiguousFrom
        <3>2. frame.seq <= new[1].seq
            BY <1>3, <1>4, <2>2, <3>1
        <3> QED
            BY <1>4, <3>2 DEF Held
    <2>3. CASE i > at
        <3>1. i - at + 1 \in 2 .. Len(new) /\ new[i - at + 1] = file[i]
            BY <1>1, <2>3
        <3> QED
            BY <2>1, <3>1 DEF Held, RecordsOf
    <2> QED
        BY <2>2, <2>3
<1>6. CASE file # <<>> /\ IsAnchor(file[1]) /\ frame.seq <= file[1].seq
    <2>1. EffectiveFirst(file) = file[1].seq
        BY <1>6 DEF EffectiveFirst
    <2>2. frame.seq \in Nat
        BY DEF Frame
    <2>3. frame.seq <= new[1].seq
        BY <1>3, <1>4, <1>6, <2>1, <2>2
    <2> QED
        BY <1>4, <2>3 DEF Held
<1> QED
    BY <1>5, <1>6 DEF Held

\* In a verified file a sequence belongs to one record, also against those
\* that its anchor stands for.
LEMMA OneHolder ==
    ASSUME NEW file \in Seq(Frame), Verified(file),
           NEW f \in RecordsOf(file), NEW g \in Frame, Held(g, file), f.seq = g.seq
    PROVE  f = g
<1>1. PICK i \in 1 .. Len(file) : ~ IsAnchor(file[i]) /\ f = file[i]
    BY DEF RecordsOf
<1>2. f.seq = EffectiveFirst(file) + i - 1 /\ EffectiveFirst(file) \in Nat
    BY <1>1, FirstIsSequence DEF Verified, ContiguousFrom
<1>3. CASE g \in RecordsOf(file)
    <2>1. PICK j \in 1 .. Len(file) : ~ IsAnchor(file[j]) /\ g = file[j]
        BY <1>3 DEF RecordsOf
    <2>2. g.seq = EffectiveFirst(file) + j - 1
        BY <2>1 DEF Verified, ContiguousFrom
    <2>3. i = j
        <3>1. i \in Nat /\ j \in Nat
            BY LenProperties
        <3>2. EffectiveFirst(file) + i - 1 = EffectiveFirst(file) + j - 1
            BY <1>2, <2>2
        <3> QED
            BY <1>2, <3>1, <3>2
    <2> QED
        BY <1>1, <2>1, <2>3
<1>4. CASE file # <<>> /\ IsAnchor(file[1]) /\ g.seq <= file[1].seq
    <2>1. EffectiveFirst(file) = file[1].seq
        BY <1>4 DEF EffectiveFirst
    <2>2. i = 1
        BY <1>2, <1>4, <2>1
    <2> QED
        BY <1>1, <1>4, <2>2
<1> QED
    BY <1>3, <1>4 DEF Held

----------------------------------------------------------------------------
(* The inductive invariant *)

\* The process stands `written' frames before the end of the file the path
\* names, on every device.
AtTail(written) ==
    /\ tail = "clean" /\ former = NoFile
    /\ first = EffectiveFirst(wal)
    /\ next = first + end
    /\ end + written = Len(wal)

\* A boundary the journal would still accept names one of its frames.
BoundaryInLog ==
    boundary # NoBoundary /\ boundary.first = first =>
        /\ boundary.end \in 1 .. end
        /\ boundary.seq = first + boundary.end - 1

\* What each phase knows.  Only an idle process can be poisoned, and then it
\* writes nothing any more.
PhaseKnows ==
    /\ phase # "idle" => ~ poisoned
    /\ phase = "leased" => former = NoFile
    /\ Healthy => AtTail(0)
    /\ phase = "barrier" => AtTail(inflight)
    /\ phase \in {"stage", "publish"} =>
          AtTail(0) /\ boundary # NoBoundary /\ boundary.first = first
    /\ phase = "publish" =>
          \E anchor \in Anchors : staging = CutAt(wal, boundary.end, anchor)
    /\ phase = "dirsync" =>
          /\ tail = "clean"
          /\ EffectiveFirst(wal) = boundary.seq
          /\ wal # <<>>
          /\ next = boundary.seq + Len(wal)
          /\ boundary # NoBoundary /\ boundary.first = first

FilesVerified ==
    /\ Verified(wal)
    /\ former # NoFile => Verified(former)

IInv ==
    /\ TypeOK
    /\ FilesVerified
    /\ BoundaryInLog
    /\ PhaseKnows
    /\ NoLoss
    /\ OneRecordPerSequence

\* The frames of a batch carry records and continue the writer's sequence.
LEMMA FramesOfBatch ==
    ASSUME TypeOK, next # 0, NEW batch \in Batches
    PROVE  /\ FramesOf(batch) \in Seq(Frame)
           /\ Len(FramesOf(batch)) = Len(batch)
           /\ Len(batch) \in Nat
           /\ \A i \in 1 .. Len(batch) :
                 FramesOf(batch)[i].seq = next + i - 1 /\ ~ IsAnchor(FramesOf(batch)[i])
<1>1. PICK n \in 1 .. MaxBatch : batch \in [1 .. n -> Records]
    BY DEF Batches
<1>2. n \in Nat /\ Len(batch) = n
    BY <1>1
<1>3. \A i \in 1 .. n : [seq |-> next + i - 1, body |-> batch[i]] \in Frame
    BY <1>1, <1>2 DEF Frame, TypeOK
<1>4. FramesOf(batch) \in [1 .. n -> Frame]
    BY <1>2, <1>3 DEF FramesOf
<1>5. FramesOf(batch) \in Seq(Frame) /\ Len(FramesOf(batch)) = n
    BY <1>2, <1>4, SeqDef
<1>6. \A i \in 1 .. n : ~ IsAnchor(FramesOf(batch)[i])
    BY <1>1, <1>2, JournalAssumption DEF FramesOf, IsAnchor, JournalAssumption
<1>7. \A i \in 1 .. n : FramesOf(batch)[i].seq = next + i - 1
    BY <1>2 DEF FramesOf
<1> QED
    BY <1>2, <1>5, <1>6, <1>7

\* A writer at the tail continues the file's own sequence.
LEMMA WriterContinues ==
    ASSUME TypeOK, AtTail(0)
    PROVE  /\ next = EffectiveFirst(wal) + Len(wal)
           /\ next \in Nat \ {0}
           /\ end = Len(wal)
<1>1. EffectiveFirst(wal) \in Nat \ {0} /\ Len(wal) \in Nat
    BY FirstIsSequence DEF TypeOK
<1> QED
    BY <1>1 DEF AtTail, TypeOK

----------------------------------------------------------------------------
(* Types *)

\* A log no handle has opened is empty and well typed.
LEMMA InitTypeOK == Init => TypeOK
<1> SUFFICES ASSUME Init PROVE TypeOK
    OBVIOUS
<1>1. <<>> \in Seq(Frame) /\ Len(<<>>) = 0
    BY EmptySeq
<1>2. wal \in Seq(Frame) /\ synced \in 0 .. Len(wal)
    BY <1>1 DEF Init
<1> QED
    BY <1>2, JournalAssumption DEF JournalAssumption, Init, TypeOK

\* A process that is gone leaves no memory of any type but the initial one.
LEMMA GoneTypeOK ==
    ASSUME ProcessGone
    PROVE  /\ phase' \in {"closed"} /\ poisoned' \in BOOLEAN
           /\ next' \in Nat /\ first' \in Nat /\ end' \in Nat /\ inflight' \in Nat
           /\ boundary' \in Boundaries \cup {NoBoundary}
BY JournalAssumption DEF JournalAssumption, ProcessGone

\* The file a successful or a failed write leaves.
LEMMA WriteShape ==
    ASSUME IInv, Healthy, NEW batch \in Batches, NEW kept \in 0 .. Len(batch)
    PROVE  LET more == SubSeq(FramesOf(batch), 1, kept) IN
           /\ wal \o more \in Seq(Frame)
           /\ Len(wal \o more) = Len(wal) + kept
           /\ \A i \in 1 .. Len(wal) : (wal \o more)[i] = wal[i]
           /\ Verified(wal \o more)
           /\ EffectiveFirst(wal \o more) = EffectiveFirst(wal)
<1> DEFINE more == SubSeq(FramesOf(batch), 1, kept)
<1>1. /\ TypeOK /\ AtTail(0) /\ wal \in Seq(Frame) /\ Verified(wal)
    BY DEF IInv, PhaseKnows, FilesVerified, TypeOK
<1>2. next = EffectiveFirst(wal) + Len(wal) /\ next # 0
    BY <1>1, WriterContinues
<1>3. /\ FramesOf(batch) \in Seq(Frame) /\ Len(FramesOf(batch)) = Len(batch)
      /\ Len(batch) \in Nat
      /\ \A i \in 1 .. Len(batch) :
            FramesOf(batch)[i].seq = next + i - 1 /\ ~ IsAnchor(FramesOf(batch)[i])
    BY <1>1, <1>2, FramesOfBatch
<1>4. /\ more \in Seq(Frame) /\ Len(more) = kept
      /\ \A i \in 1 .. kept : more[i] = FramesOf(batch)[i]
    BY <1>3
<1> HIDE DEF more
<1>5. \A i \in 1 .. Len(more) :
         more[i].seq = EffectiveFirst(wal) + Len(wal) + i - 1 /\ ~ IsAnchor(more[i])
    <2> SUFFICES ASSUME NEW i \in 1 .. Len(more)
                 PROVE  /\ more[i].seq = EffectiveFirst(wal) + Len(wal) + i - 1
                        /\ ~ IsAnchor(more[i])
        OBVIOUS
    <2>1. i \in 1 .. Len(batch) /\ more[i] = FramesOf(batch)[i]
        BY <1>3, <1>4
    <2> QED
        BY <1>2, <1>3, <2>1
<1>6. /\ wal \o more \in Seq(Frame)
      /\ Len(wal \o more) = Len(wal) + Len(more)
      /\ Verified(wal \o more)
      /\ EffectiveFirst(wal \o more) = EffectiveFirst(wal)
    BY <1>1, <1>4, <1>5, ExtensionVerified
<1>7. \A i \in 1 .. Len(wal) : (wal \o more)[i] = wal[i]
    BY <1>1, <1>4
<1> QED
    BY <1>4, <1>6, <1>7 DEF more

\* A whole batch is its own longest part.
LEMMA WholeBatch ==
    ASSUME IInv, Healthy, NEW batch \in Batches
    PROVE  /\ SubSeq(FramesOf(batch), 1, Len(batch)) = FramesOf(batch)
           /\ Len(batch) \in Nat
<1>1. TypeOK /\ next # 0
    BY WriterContinues DEF IInv, PhaseKnows
<1>2. FramesOf(batch) \in Seq(Frame) /\ Len(FramesOf(batch)) = Len(batch) /\ Len(batch) \in Nat
    BY <1>1, FramesOfBatch
<1> QED
    BY <1>2, SubSeqFull

\* What a cutover stages is the log cut at the boundary.
LEMMA StagedIsCut ==
    ASSUME IInv, phase \in {"stage", "publish"}, NEW anchor \in Anchors
    PROVE  /\ boundary.end \in 1 .. Len(wal)
           /\ boundary.seq = EffectiveFirst(wal) + boundary.end - 1
           /\ Staged(anchor) = CutAt(wal, boundary.end, anchor)
           /\ CutAt(wal, boundary.end, anchor) \in Seq(Frame)
<1>1. AtTail(0) /\ boundary # NoBoundary /\ boundary.first = first /\ TypeOK
    BY DEF IInv, PhaseKnows
<1>2. end = Len(wal) /\ first = EffectiveFirst(wal)
    BY <1>1, WriterContinues DEF AtTail
<1>3. boundary.end \in 1 .. end /\ boundary.seq = first + boundary.end - 1
    BY <1>1 DEF IInv, BoundaryInLog
<1>4. boundary.end \in 1 .. Len(wal)
    BY <1>2, <1>3
<1>5. CutAt(wal, boundary.end, anchor) \in Seq(Frame)
    BY <1>1, <1>4, CutoverShape DEF TypeOK
<1> QED
    BY <1>2, <1>3, <1>4, <1>5 DEF Staged, SuffixBehind, CutAt

\* Each action keeps the types.
LEMMA StepTypeOK == IInv /\ [Next]_vars => TypeOK'
<1> SUFFICES ASSUME IInv, [Next]_vars PROVE TypeOK'
    OBVIOUS
<1>0. TypeOK /\ PhaseKnows
    BY DEF IInv
<1> USE <1>0, JournalAssumption DEF JournalAssumption, TypeOK, files, handle
<1>a. EffectiveFirst(wal) \in Nat /\ Len(wal) \in Nat
    BY FirstIsSequence, LenProperties
<1>1. CASE AcquireLease
    BY <1>1 DEF AcquireLease
<1>2. CASE OpenClean
    <2>1. next' \in Nat /\ first' \in Nat /\ end' \in Nat
        BY <1>2, <1>a DEF OpenClean, ScanAccepts
    <2>2. phase' = "idle" /\ poisoned' = FALSE /\ boundary' = NoBoundary
        BY <1>2 DEF OpenClean, ScanAccepts
    <2> QED
        BY <1>2, <2>1, <2>2 DEF OpenClean
<1>3. CASE OpenRepair
    <2>1. next' \in Nat /\ first' \in Nat /\ end' \in Nat
        BY <1>3, <1>a DEF OpenRepair, ScanAccepts
    <2>2. phase' = "idle" /\ poisoned' = FALSE /\ boundary' = NoBoundary
        BY <1>3 DEF OpenRepair, ScanAccepts
    <2> QED
        <3>1. /\ wal' = wal /\ synced' = Len(wal) /\ tail' = "clean"
              /\ UNCHANGED <<former, staging, inflight, promised>>
            BY <1>3 DEF OpenRepair
        <3>2. wal' \in Seq(Frame) /\ synced' \in 0 .. Len(wal')
            BY <1>a, <3>1
        <3> QED
            BY <2>1, <2>2, <3>1, <3>2
<1>4. CASE OpenFails
    BY <1>4 DEF OpenFails, ProcessGone
<1>5. ASSUME NEW batch \in Batches, AppendWrite(batch) PROVE TypeOK'
    <2>1. wal' \in Seq(Frame) /\ synced \in 0 .. Len(wal') /\ Len(batch) \in Nat
        BY <1>5, WriteShape, WholeBatch, LenProperties DEF AppendWrite
    <2> QED
        BY <1>5, <2>1 DEF AppendWrite
<1>6. ASSUME NEW batch \in Batches, NEW kept \in 0 .. Len(batch) - 1,
             NEW cut \in {"clean", "torn"}, AppendWriteFails(batch, kept, cut)
      PROVE  TypeOK'
    <2>1. kept \in 0 .. Len(batch)
        BY <1>6, WholeBatch DEF AppendWriteFails
    <2>2. wal' \in Seq(Frame) /\ synced \in 0 .. Len(wal')
        BY <1>6, <2>1, WriteShape, LenProperties DEF AppendWriteFails
    <2> QED
        BY <1>6, <2>2 DEF AppendWriteFails
<1>7. RecordsOf(wal) \subseteq Frame
    BY ElementOfSeq DEF RecordsOf
<1>8. CASE AppendBarrier
    BY <1>7, <1>8, LenProperties DEF AppendBarrier
<1>9. CASE AppendBarrierFails
    BY <1>9 DEF AppendBarrierFails
<1>10. CASE Sync
    BY <1>7, <1>10, LenProperties DEF Sync
<1>11. CASE SyncFails
    BY <1>11 DEF SyncFails
<1>12. CASE CaptureBoundary
    <2>1. next - 1 \in Nat
        BY <1>12, WriterContinues DEF CaptureBoundary, PhaseKnows
    <2> QED
        BY <1>12, <2>1 DEF CaptureBoundary, CurrentBoundary, Boundaries
<1>13. CASE boundary # NoBoundary /\ CutoverBegin(boundary)
    BY <1>7, <1>13, LenProperties DEF CutoverBegin
<1>14. ASSUME NEW anchor \in Anchors, StageCutover(anchor) PROVE TypeOK'
    <2>1. Staged(anchor) \in Seq(Frame)
        BY <1>14, StagedIsCut DEF StageCutover
    <2> QED
        BY <1>14, <2>1 DEF StageCutover
<1>15. CASE StageRefused
    BY <1>15 DEF StageRefused
<1>16. CASE StageCleanupFails
    BY <1>16, EmptySeq DEF StageCleanupFails, Abandoned
<1>17. CASE PublishRename
    <2>1. staging \in Seq(Frame)
        BY <1>17, StagedIsCut DEF PublishRename, PhaseKnows
    <2> QED
        BY <1>17, <2>1, LenProperties DEF PublishRename
<1>18. CASE PublishRenameFails
    BY <1>18, EmptySeq DEF PublishRenameFails, Abandoned
<1>19. CASE PublishDirectorySync
    BY <1>19, LenProperties DEF PublishDirectorySync, PhaseKnows, Boundaries
<1>20. CASE PublishDirectorySyncFails
    BY <1>20 DEF PublishDirectorySyncFails
<1>21. CASE RecoverPending
    BY <1>21 DEF RecoverPending
<1>22. CASE Close
    BY <1>a, <1>7, <1>22, GoneTypeOK DEF Close
<1>23. CASE ProcessEnds
    BY <1>23, EmptySeq DEF ProcessEnds, ProcessGone, Leftover, Abandoned
<1>24. ASSUME NEW kept \in synced .. Len(wal), NEW cut \in LostTails(kept),
              PowerLoss(kept, cut)
       PROVE  TypeOK'
    <2>1. SubSeq(wal, 1, kept) \in Seq(Frame) /\ Len(SubSeq(wal, 1, kept)) = kept /\ kept \in Nat
        BY LenProperties
    <2>2. cut \in {"clean", "torn", "corrupt"}
        BY DEF LostTails
    <2> QED
        <3>1. wal' \in Seq(Frame) /\ synced' \in 0 .. Len(wal')
            BY <1>24, <2>1 DEF PowerLoss
        <3>2. staging' \in Seq(Frame) \cup {NoFile}
            BY <1>24, EmptySeq DEF PowerLoss, Leftover, Abandoned
        <3>3. ProcessGone /\ tail' = cut /\ former' = NoFile /\ promised' = promised
            BY <1>24 DEF PowerLoss
        <3> QED
            BY <2>2, <3>1, <3>2, <3>3, GoneTypeOK
<1>25. CASE PowerLossUndoesRename
    <2>1. former \in Seq(Frame) /\ Len(former) \in Nat
        BY <1>25, LenProperties DEF PowerLossUndoesRename
    <2> QED
        <3>1. wal' \in Seq(Frame) /\ synced' \in 0 .. Len(wal')
            BY <1>25, <2>1 DEF PowerLossUndoesRename
        <3>2. staging' \in Seq(Frame) \cup {NoFile}
            BY <1>25, EmptySeq DEF PowerLossUndoesRename, Abandoned
        <3>3. ProcessGone /\ tail' = "clean" /\ former' = NoFile /\ promised' = promised
            BY <1>25 DEF PowerLossUndoesRename
        <3> QED
            BY <3>1, <3>2, <3>3, GoneTypeOK
<1>26. CASE UNCHANGED vars
    BY <1>26 DEF vars
<1> QED
    BY <1>1, <1>2, <1>3, <1>4, <1>5, <1>6, <1>8, <1>9, <1>10, <1>11, <1>12, <1>13,
       <1>14, <1>15, <1>16, <1>17, <1>18, <1>19, <1>20, <1>21, <1>22, <1>23, <1>24,
       <1>25, <1>26 DEF Next

----------------------------------------------------------------------------
(* Where the writer stands *)

\* The part of the invariant that relates the process to its files.
Standing == FilesVerified /\ BoundaryInLog /\ PhaseKnows

\* Opening a verified file puts the writer at its tail.
LEMMA OpenStands ==
    ASSUME IInv, phase = "leased", ScanAccepts, wal' = wal, former' = former,
           tail' = "clean", inflight' = inflight
    PROVE  Standing'
<1>1. former = NoFile /\ Verified(wal) /\ wal \in Seq(Frame)
    BY DEF IInv, PhaseKnows, FilesVerified, TypeOK
<1>2. /\ phase' = "idle" /\ boundary' = NoBoundary
      /\ first' = EffectiveFirst(wal') /\ next' = first' + Len(wal') /\ end' = Len(wal')
    BY DEF ScanAccepts
<1>3. Len(wal) \in Nat
    BY <1>1, LenProperties
<1>4. AtTail(0)'
    BY <1>1, <1>2, <1>3 DEF AtTail
<1> QED
    BY <1>1, <1>2, <1>4 DEF Standing, FilesVerified, BoundaryInLog, PhaseKnows, Healthy

\* A process that is gone stands nowhere.
LEMMA GoneStands ==
    ASSUME ProcessGone, FilesVerified' PROVE Standing'
BY DEF ProcessGone, Standing, BoundaryInLog, PhaseKnows, Healthy

\* Each action keeps the standing.
LEMMA StepStanding == IInv /\ [Next]_vars => Standing'
<1> SUFFICES ASSUME IInv, [Next]_vars PROVE Standing'
    OBVIOUS
<1>0. TypeOK /\ FilesVerified /\ BoundaryInLog /\ PhaseKnows /\ wal \in Seq(Frame)
    BY DEF IInv, TypeOK
<1>a. Len(wal) \in Nat /\ EffectiveFirst(wal) \in Nat
    BY <1>0, LenProperties, FirstIsSequence
<1>b. ASSUME wal' = wal, former' \in {former, NoFile} PROVE FilesVerified'
    BY <1>0, <1>b DEF FilesVerified
<1>1. CASE AcquireLease
    BY <1>0, <1>1, <1>b DEF AcquireLease, Standing, BoundaryInLog, PhaseKnows, Healthy, handle
<1>2. CASE OpenClean
    BY <1>2, OpenStands DEF OpenClean, files
<1>3. CASE OpenRepair
    BY <1>3, OpenStands DEF OpenRepair
<1>4. CASE OpenFails
    BY <1>4, <1>b, GoneStands DEF OpenFails
<1>5. ASSUME NEW batch \in Batches, AppendWrite(batch) PROVE Standing'
    <2>1. Len(batch) \in Nat /\ Len(batch) \in 0 .. Len(batch)
        BY <1>5, WholeBatch DEF AppendWrite
    <2>2. /\ Verified(wal') /\ Len(wal') = Len(wal) + Len(batch)
          /\ EffectiveFirst(wal') = EffectiveFirst(wal)
        BY <1>5, <2>1, WriteShape, WholeBatch DEF AppendWrite
    <2>3. AtTail(0) /\ inflight' = Len(batch) /\ phase' = "barrier"
          /\ UNCHANGED <<tail, former, first, next, end, boundary, poisoned>>
        BY <1>0, <1>5 DEF AppendWrite, PhaseKnows, handle
    <2>4. AtTail(inflight)'
        <3>1. end = Len(wal) /\ first = EffectiveFirst(wal) /\ next = first + end
            BY <1>0, <2>3, WriterContinues DEF AtTail
        <3> QED
            BY <1>a, <2>1, <2>2, <2>3, <3>1 DEF AtTail
    <2>5. ~ poisoned
        BY <1>5 DEF AppendWrite, Healthy
    <2> QED
        BY <1>0, <2>2, <2>3, <2>4, <2>5
           DEF Standing, FilesVerified, BoundaryInLog, PhaseKnows, Healthy
<1>6. ASSUME NEW batch \in Batches, NEW kept \in 0 .. Len(batch) - 1,
             NEW cut \in {"clean", "torn"}, AppendWriteFails(batch, kept, cut)
      PROVE  Standing'
    <2>1. kept \in 0 .. Len(batch)
        BY <1>6, WholeBatch DEF AppendWriteFails
    <2>2. Verified(wal')
        BY <1>6, <2>1, WriteShape DEF AppendWriteFails
    <2> QED
        BY <1>0, <1>6, <2>2 DEF AppendWriteFails, Standing, FilesVerified, BoundaryInLog,
                               PhaseKnows, Healthy
<1>7. CASE AppendBarrier
    <2>1. AtTail(inflight)
        BY <1>0, <1>7 DEF AppendBarrier, PhaseKnows
    <2>2. AtTail(0)'
        BY <1>0, <1>7, <1>a, <2>1 DEF AppendBarrier, AtTail, TypeOK
    <2>3. BoundaryInLog'
        BY <1>0, <1>7 DEF AppendBarrier, BoundaryInLog, TypeOK
    <2> QED
        BY <1>0, <1>7, <1>b, <2>2, <2>3 DEF AppendBarrier, Standing, PhaseKnows, Healthy
<1>8. CASE AppendBarrierFails
    BY <1>0, <1>8, <1>b DEF AppendBarrierFails, Standing, BoundaryInLog, PhaseKnows, Healthy, files
<1>9. CASE Sync
    BY <1>0, <1>9, <1>b DEF Sync, Standing, BoundaryInLog, PhaseKnows, Healthy, AtTail, handle
<1>10. CASE SyncFails
    BY <1>0, <1>10, <1>b DEF SyncFails, Standing, BoundaryInLog, PhaseKnows, Healthy, files
<1>11. CASE CaptureBoundary
    <2>1. AtTail(0) /\ next = first + end /\ end \in Nat /\ end # 0 /\ first \in Nat
        BY <1>0, <1>11 DEF CaptureBoundary, PhaseKnows, AtTail, TypeOK
    <2>2. BoundaryInLog'
        BY <1>11, <2>1 DEF CaptureBoundary, CurrentBoundary, BoundaryInLog
    <2>3. AtTail(0)'
        BY <1>11, <2>1 DEF CaptureBoundary, AtTail, files
    <2> QED
        BY <1>0, <1>11, <1>b, <2>2, <2>3 DEF CaptureBoundary, Standing, PhaseKnows, Healthy, files
<1>12. CASE boundary # NoBoundary /\ CutoverBegin(boundary)
    <2>1. AtTail(0) /\ AtTail(0)'
        BY <1>0, <1>12 DEF CutoverBegin, PhaseKnows, AtTail
    <2> QED
        BY <1>0, <1>12, <1>b, <2>1 DEF CutoverBegin, Standing, BoundaryInLog, PhaseKnows, Healthy
<1>13. ASSUME NEW anchor \in Anchors, StageCutover(anchor) PROVE Standing'
    <2>1. staging' = CutAt(wal, boundary.end, anchor)
        BY <1>13, StagedIsCut DEF StageCutover
    <2>2. AtTail(0) /\ AtTail(0)'
        BY <1>0, <1>13 DEF StageCutover, PhaseKnows, AtTail, handle
    <2> QED
        BY <1>0, <1>13, <1>b, <2>1, <2>2
           DEF StageCutover, Standing, BoundaryInLog, PhaseKnows, Healthy, handle
<1>14. CASE StageRefused
    <2>1. AtTail(0) /\ AtTail(0)'
        BY <1>0, <1>14 DEF StageRefused, PhaseKnows, AtTail, handle, files
    <2> QED
        BY <1>0, <1>14, <1>b, <2>1
           DEF StageRefused, Standing, BoundaryInLog, PhaseKnows, Healthy, handle, files
<1>15. CASE StageCleanupFails
    BY <1>0, <1>15, <1>b DEF StageCleanupFails, Standing, BoundaryInLog, PhaseKnows, Healthy
<1>16. CASE PublishRename
    <2>1. AtTail(0) /\ boundary # NoBoundary /\ boundary.first = first /\ ~ poisoned
        BY <1>0, <1>16 DEF PublishRename, PhaseKnows
    <2>2. PICK anchor \in Anchors : staging = CutAt(wal, boundary.end, anchor)
        BY <1>0, <1>16 DEF PublishRename, PhaseKnows
    <2>3. /\ boundary.end \in 1 .. Len(wal)
          /\ boundary.seq = EffectiveFirst(wal) + boundary.end - 1
        BY <1>16, StagedIsCut DEF PublishRename
    <2>4. /\ wal' \in Seq(Frame) /\ Len(wal') = 1 + Len(wal) - boundary.end
          /\ Verified(wal') /\ EffectiveFirst(wal') = boundary.seq
        <3>1. wal' = CutAt(wal, boundary.end, anchor)
            BY <1>16, <2>2 DEF PublishRename
        <3>2. Verified(wal)
            BY <1>0 DEF FilesVerified
        <3>3. wal' \in Seq(Frame) /\ Len(wal') = 1 + Len(wal) - boundary.end
            BY <1>0, <2>3, <3>1, CutoverShape
        <3>4. Verified(wal') /\ EffectiveFirst(wal') = EffectiveFirst(wal) + boundary.end - 1
            BY <1>0, <2>3, <3>1, <3>2, CutoverVerified
        <3> QED
            BY <2>3, <3>3, <3>4
    <2>5. wal' # <<>> /\ next = boundary.seq + Len(wal')
        BY <1>0, <1>a, <2>1, <2>3, <2>4, WriterContinues, EmptySeq
    <2>6. UNCHANGED <<tail, next, first, boundary, poisoned, end>> /\ former' = wal
          /\ phase' = "dirsync" /\ tail = "clean"
        BY <1>16, <2>1 DEF PublishRename, handle, AtTail
    <2> QED
        BY <1>0, <2>1, <2>4, <2>5, <2>6
           DEF Standing, FilesVerified, BoundaryInLog, PhaseKnows, Healthy
<1>17. CASE PublishRenameFails
    <2>1. AtTail(0) /\ AtTail(0)'
        BY <1>0, <1>17 DEF PublishRenameFails, PhaseKnows, AtTail, handle
    <2> QED
        BY <1>0, <1>17, <1>b, <2>1
           DEF PublishRenameFails, Standing, BoundaryInLog, PhaseKnows, Healthy, handle
<1>18. CASE PublishDirectorySync
    <2>1. /\ tail = "clean" /\ EffectiveFirst(wal) = boundary.seq /\ wal # <<>>
          /\ next = boundary.seq + Len(wal) /\ boundary # NoBoundary /\ boundary.first = first
          /\ ~ poisoned
        BY <1>0, <1>18 DEF PublishDirectorySync, PhaseKnows
    <2>2. boundary.end \in 1 .. end /\ boundary.seq = first + boundary.end - 1
        BY <1>0, <2>1 DEF BoundaryInLog
    <2>3. AtTail(0)'
        BY <1>18, <1>a, <2>1 DEF PublishDirectorySync, AtTail
    <2>4. BoundaryInLog'
        <3>1. Len(wal) >= 1 /\ first \in Nat
            BY <1>0, <1>a, <2>1, EmptySeq DEF TypeOK
        <3>2. ASSUME boundary.first = boundary.seq PROVE boundary.end = 1
            BY <2>1, <2>2, <3>1, <3>2
        <3> QED
            BY <1>18, <2>1, <2>2, <3>1, <3>2 DEF PublishDirectorySync, BoundaryInLog
    <2> QED
        BY <1>18, <1>b, <2>1, <2>3, <2>4 DEF PublishDirectorySync, Standing, PhaseKnows, Healthy
<1>19. CASE PublishDirectorySyncFails
    BY <1>0, <1>19, <1>b
       DEF PublishDirectorySyncFails, Standing, BoundaryInLog, PhaseKnows, Healthy, files
<1>20. CASE RecoverPending
    BY <1>0, <1>20, <1>b DEF RecoverPending, Standing, BoundaryInLog, PhaseKnows, Healthy, handle
<1>21. CASE Close
    BY <1>21, <1>b, GoneStands DEF Close
<1>22. CASE ProcessEnds
    BY <1>22, <1>b, GoneStands DEF ProcessEnds
<1>23. ASSUME NEW kept \in synced .. Len(wal), NEW cut \in LostTails(kept),
              PowerLoss(kept, cut)
       PROVE  Standing'
    <2>1. kept \in 0 .. Len(wal)
        BY <1>0 DEF TypeOK
    <2>2. Verified(wal') /\ former' = NoFile
        BY <1>0, <1>23, <2>1, PrefixVerified DEF PowerLoss, FilesVerified
    <2> QED
        BY <1>23, <2>2, GoneStands DEF PowerLoss, FilesVerified
<1>24. CASE PowerLossUndoesRename
    BY <1>0, <1>24, GoneStands DEF PowerLossUndoesRename, FilesVerified
<1>25. CASE UNCHANGED vars
    BY <1>0, <1>25 DEF vars, Standing, FilesVerified, BoundaryInLog, PhaseKnows, Healthy, AtTail
<1> QED
    BY <1>1, <1>2, <1>3, <1>4, <1>5, <1>6, <1>7, <1>8, <1>9, <1>10, <1>11, <1>12, <1>13,
       <1>14, <1>15, <1>16, <1>17, <1>18, <1>19, <1>20, <1>21, <1>22, <1>23, <1>24, <1>25
       DEF Next

----------------------------------------------------------------------------
(* What was promised *)

Holds(file, frames) == \A frame \in frames : Held(frame, file)

Promise == NoLoss /\ OneRecordPerSequence

\* A step that promises nothing new keeps the promise when each file that may
\* be found afterwards could be found before, or holds what such a file held.
LEMMA PromiseKept ==
    ASSUME Promise, promised' = promised,
           \A file \in SurvivingFiles' : Holds(file, promised)
    PROVE  Promise'
BY DEF Promise, NoLoss, OneRecordPerSequence, Holds

\* A step that changes no file, or settles one, keeps the promise.
LEMMA PromiseUntouched ==
    ASSUME Promise, promised' = promised, wal' = wal, synced' = synced,
           former' \in {former, NoFile}
    PROVE  Promise'
<1>1. SurvivingFiles' \subseteq SurvivingFiles
    BY DEF SurvivingFiles
<1> QED
    BY <1>1, PromiseKept DEF Promise, NoLoss, Holds

\* A barrier behind which all of the file is promised.
LEMMA PromiseAtBarrier ==
    ASSUME IInv, former = NoFile, former' = NoFile, wal' = wal,
           promised' = promised \cup RecordsOf(wal),
           PowerFailures => synced' = Len(wal)
    PROVE  Promise'
<1>1. wal \in Seq(Frame) /\ Verified(wal) /\ promised \subseteq Frame
    BY DEF IInv, TypeOK, FilesVerified
<1>2. RecordsOf(wal) \subseteq Frame /\ Holds(wal, RecordsOf(wal))
    BY <1>1, ElementOfSeq DEF RecordsOf, Holds, Held
<1>3. Holds(wal, promised)
    BY DEF IInv, NoLoss, SurvivingFiles, Holds
<1>4. PowerFailures => SubSeq(wal', 1, synced') = wal
    BY <1>1, SubSeqFull
<1>5. SurvivingFiles' \subseteq {wal}
    BY <1>4 DEF SurvivingFiles
<1>6. NoLoss'
    BY <1>2, <1>3, <1>5 DEF NoLoss, Holds
<1>7. \A f \in RecordsOf(wal), g \in promised \cup RecordsOf(wal) : f.seq = g.seq => f = g
    BY <1>1, <1>2, <1>3, OneHolder DEF Holds
<1>8. OneRecordPerSequence'
    BY <1>7 DEF IInv, OneRecordPerSequence
<1> QED
    BY <1>6, <1>8 DEF Promise

\* What is written behind the file's end disturbs no promise.
LEMMA PromiseBehindWrite ==
    ASSUME IInv, promised' = promised, former' = NoFile, synced' = synced,
           wal' \in Seq(Frame), Len(wal) <= Len(wal'),
           \A i \in 1 .. Len(wal) : wal'[i] = wal[i]
    PROVE  Promise'
<1>1. wal \in Seq(Frame) /\ synced \in 0 .. Len(wal) /\ Promise
    BY DEF IInv, TypeOK, Promise
<1>2. Holds(wal', promised)
    BY <1>1, HeldByExtension DEF Promise, NoLoss, SurvivingFiles, Holds
<1>3. SubSeq(wal', 1, synced') = SubSeq(wal, 1, synced)
    <2>1. Len(wal) \in Nat /\ Len(wal') \in Nat
        BY <1>1, LenProperties
    <2>2. /\ SubSeq(wal, 1, synced) \in Seq(Frame) /\ Len(SubSeq(wal, 1, synced)) = synced
          /\ \A i \in 1 .. synced : SubSeq(wal, 1, synced)[i] = wal[i]
        BY <1>1, <2>1
    <2>3. /\ SubSeq(wal', 1, synced) \in Seq(Frame) /\ Len(SubSeq(wal', 1, synced)) = synced
          /\ \A i \in 1 .. synced : SubSeq(wal', 1, synced)[i] = wal'[i]
        BY <1>1, <2>1
    <2>4. \A i \in 1 .. synced : SubSeq(wal', 1, synced)[i] = SubSeq(wal, 1, synced)[i]
        BY <1>1, <2>1, <2>2, <2>3
    <2>5. SubSeq(wal', 1, synced) = SubSeq(wal, 1, synced)
        BY <2>2, <2>3, <2>4, SeqEqual
    <2> QED
        BY <2>5
<1>4. \A file \in SurvivingFiles' : Holds(file, promised)
    BY <1>1, <1>2, <1>3 DEF SurvivingFiles, Promise, NoLoss, Holds
<1> QED
    BY <1>1, <1>4, PromiseKept

\* Power loss keeps at least what was synchronized, and that holds the promise.
LEMMA PromiseAfterPowerLoss ==
    ASSUME IInv, PowerFailures, NEW kept \in synced .. Len(wal)
    PROVE  Holds(SubSeq(wal, 1, kept), promised)
<1>1. wal \in Seq(Frame) /\ synced \in 0 .. Len(wal) /\ Len(wal) \in Nat
    BY LenProperties DEF IInv, TypeOK
<1>2. /\ SubSeq(wal, 1, synced) \in Seq(Frame) /\ Len(SubSeq(wal, 1, synced)) = synced
      /\ \A i \in 1 .. synced : SubSeq(wal, 1, synced)[i] = wal[i]
    BY <1>1
<1>3. /\ SubSeq(wal, 1, kept) \in Seq(Frame) /\ Len(SubSeq(wal, 1, kept)) = kept
      /\ \A i \in 1 .. kept : SubSeq(wal, 1, kept)[i] = wal[i]
    BY <1>1
<1>4. \A i \in 1 .. synced : SubSeq(wal, 1, kept)[i] = SubSeq(wal, 1, synced)[i]
    BY <1>1, <1>2, <1>3
<1>5. \A frame \in promised : Held(frame, SubSeq(wal, 1, synced))
    BY DEF IInv, NoLoss, SurvivingFiles
<1> DEFINE before == SubSeq(wal, 1, synced)
           after == SubSeq(wal, 1, kept)
<1>6. \A i \in 1 .. Len(before) : after[i] = before[i]
    BY <1>2, <1>4
<1>7. Len(before) <= Len(after) /\ before \in Seq(Frame) /\ after \in Seq(Frame)
    BY <1>1, <1>2, <1>3
<1>8. \A frame \in promised : Held(frame, before)
    BY <1>5
<1> HIDE DEF before, after
<1>9. \A frame \in promised : Held(frame, after)
    BY <1>6, <1>7, <1>8, HeldByExtension
<1> QED
    BY <1>9 DEF Holds, after

\* Each action keeps the promise.
LEMMA StepPromise == IInv /\ [Next]_vars => Promise'
<1> SUFFICES ASSUME IInv, [Next]_vars PROVE Promise'
    OBVIOUS
<1>0. TypeOK /\ PhaseKnows /\ Promise /\ wal \in Seq(Frame)
    BY DEF IInv, TypeOK, Promise
<1>1. CASE AcquireLease \/ RecoverPending \/ PublishDirectorySync
    BY <1>0, <1>1, PromiseUntouched DEF AcquireLease, RecoverPending, PublishDirectorySync
<1>2. CASE OpenClean \/ OpenFails \/ AppendBarrierFails \/ SyncFails \/ CaptureBoundary
    BY <1>0, <1>2, PromiseUntouched
       DEF OpenClean, OpenFails, AppendBarrierFails, SyncFails, CaptureBoundary, files
<1>3. CASE OpenRepair
    <2>1. former = NoFile /\ former' = NoFile /\ wal' = wal /\ synced' = Len(wal)
          /\ promised' = promised
        BY <1>0, <1>3 DEF OpenRepair, PhaseKnows
    <2>2. SurvivingFiles' \subseteq {wal}
        BY <1>0, <2>1, SubSeqFull DEF SurvivingFiles
    <2>3. Holds(wal, promised)
        BY <1>0 DEF Promise, NoLoss, SurvivingFiles, Holds
    <2> QED
        BY <1>0, <2>1, <2>2, <2>3, PromiseKept
<1>4. ASSUME NEW batch \in Batches, AppendWrite(batch) PROVE Promise'
    <2>1. Len(batch) \in Nat /\ Len(batch) \in 0 .. Len(batch)
          /\ wal' = wal \o SubSeq(FramesOf(batch), 1, Len(batch))
        <3>1. Healthy /\ wal' = wal \o FramesOf(batch)
            BY <1>4 DEF AppendWrite
        <3>2. /\ SubSeq(FramesOf(batch), 1, Len(batch)) = FramesOf(batch)
              /\ Len(batch) \in Nat
            BY <3>1, WholeBatch
        <3> QED
            BY <3>1, <3>2
    <2>2. /\ wal' \in Seq(Frame) /\ Len(wal) <= Len(wal')
          /\ \A i \in 1 .. Len(wal) : wal'[i] = wal[i]
        BY <1>0, <1>4, <2>1, WriteShape, LenProperties DEF AppendWrite
    <2>3. former' = NoFile /\ synced' = synced /\ promised' = promised
        BY <1>0, <1>4 DEF AppendWrite, PhaseKnows, AtTail
    <2> QED
        BY <2>2, <2>3, PromiseBehindWrite
<1>5. ASSUME NEW batch \in Batches, NEW kept \in 0 .. Len(batch) - 1,
             NEW cut \in {"clean", "torn"}, AppendWriteFails(batch, kept, cut)
      PROVE  Promise'
    <2>1. kept \in 0 .. Len(batch) /\ kept \in Nat
        BY <1>5, WholeBatch DEF AppendWriteFails
    <2>2. /\ wal' \in Seq(Frame) /\ Len(wal) <= Len(wal')
          /\ \A i \in 1 .. Len(wal) : wal'[i] = wal[i]
        BY <1>0, <1>5, <2>1, WriteShape, LenProperties DEF AppendWriteFails
    <2>3. former' = NoFile /\ synced' = synced /\ promised' = promised
        BY <1>0, <1>5 DEF AppendWriteFails, PhaseKnows, AtTail
    <2> QED
        BY <2>2, <2>3, PromiseBehindWrite
<1>6. CASE AppendBarrier
    <2>1. former = NoFile /\ former' = NoFile /\ wal' = wal
          /\ promised' = promised \cup RecordsOf(wal)
        BY <1>0, <1>6 DEF AppendBarrier, PhaseKnows, AtTail
    <2>2. PowerFailures => synced' = Len(wal)
        BY <1>6, JournalAssumption DEF AppendBarrier, DeviceBarrier, JournalAssumption
    <2> QED
        BY <2>1, <2>2, PromiseAtBarrier
<1>7. CASE Sync \/ Close
    BY <1>0, <1>7, PromiseAtBarrier DEF Sync, Close, PhaseKnows, AtTail
<1>8. CASE boundary # NoBoundary /\ CutoverBegin(boundary)
    BY <1>0, <1>8, PromiseAtBarrier DEF CutoverBegin, PhaseKnows, AtTail
<1>9. ASSUME NEW anchor \in Anchors, StageCutover(anchor) PROVE Promise'
    BY <1>0, <1>9, PromiseUntouched DEF StageCutover
<1>10. CASE StageRefused \/ StageCleanupFails \/ PublishRenameFails
            \/ PublishDirectorySyncFails \/ ProcessEnds
    BY <1>0, <1>10, PromiseUntouched
       DEF StageRefused, StageCleanupFails, PublishRenameFails, PublishDirectorySyncFails,
           ProcessEnds, files
<1>11. CASE PublishRename
    <2>1. PICK anchor \in Anchors : staging = CutAt(wal, boundary.end, anchor)
        BY <1>0, <1>11 DEF PublishRename, PhaseKnows
    <2>2. boundary.end \in 1 .. Len(wal)
        BY <1>11, StagedIsCut DEF PublishRename
    <2>3. wal' = CutAt(wal, boundary.end, anchor) /\ wal' \in Seq(Frame)
        BY <1>11, <2>1, <2>2, StagedIsCut DEF PublishRename
    <2>4. former' = wal /\ synced' = Len(wal') /\ promised' = promised
        BY <1>11 DEF PublishRename
    <2>5. Holds(wal, promised) /\ promised \subseteq Frame /\ Verified(wal)
        BY <1>0 DEF Promise, NoLoss, SurvivingFiles, Holds, TypeOK, IInv, FilesVerified
    <2>6. Holds(wal', promised)
        BY <1>0, <2>2, <2>3, <2>5, HeldByCutover DEF Holds
    <2>7. SubSeq(wal', 1, synced') = wal'
        BY <2>3, <2>4, SubSeqFull
    <2>8. SurvivingFiles' \subseteq {wal, wal'}
        BY <2>4, <2>7 DEF SurvivingFiles
    <2> QED
        BY <1>0, <2>4, <2>5, <2>6, <2>8, PromiseKept
<1>12. ASSUME NEW kept \in synced .. Len(wal), NEW cut \in LostTails(kept),
              PowerLoss(kept, cut)
       PROVE  Promise'
    <2>1. /\ PowerFailures /\ wal' = SubSeq(wal, 1, kept) /\ synced' = kept
          /\ former' = NoFile /\ promised' = promised
        BY <1>12 DEF PowerLoss
    <2>2. Holds(wal', promised)
        BY <2>1, PromiseAfterPowerLoss
    <2>3. wal' \in Seq(Frame) /\ Len(wal') = kept
        BY <1>0, <2>1 DEF TypeOK
    <2>4. SurvivingFiles' \subseteq {wal'}
        BY <2>1, <2>3, SubSeqFull DEF SurvivingFiles
    <2> QED
        BY <1>0, <2>1, <2>2, <2>4, PromiseKept
<1>13. CASE PowerLossUndoesRename
    <2>1. /\ PowerFailures /\ former # NoFile /\ wal' = former /\ synced' = Len(former)
          /\ former' = NoFile /\ promised' = promised
        BY <1>13 DEF PowerLossUndoesRename
    <2>2. Holds(wal', promised)
        BY <1>0, <2>1 DEF Promise, NoLoss, SurvivingFiles, Holds
    <2>3. wal' \in Seq(Frame)
        BY <1>0, <2>1 DEF TypeOK
    <2>4. SurvivingFiles' \subseteq {wal'}
        BY <2>1, <2>3, SubSeqFull DEF SurvivingFiles
    <2> QED
        BY <1>0, <2>1, <2>2, <2>4, PromiseKept
<1>14. CASE UNCHANGED vars
    BY <1>0, <1>14, PromiseUntouched DEF vars
<1> QED
    BY <1>1, <1>2, <1>3, <1>4, <1>5, <1>6, <1>7, <1>8, <1>9, <1>10, <1>11, <1>12, <1>13,
       <1>14 DEF Next

----------------------------------------------------------------------------
(* Theorems *)

\* A log no handle has opened satisfies the inductive invariant: it has no
\* frame and has promised none.
LEMMA InitIInv == Init => IInv
<1> SUFFICES ASSUME Init PROVE IInv
    OBVIOUS
<1>1. TypeOK
    BY InitTypeOK
<1>2. Len(<<>>) = 0
    BY EmptySeq
<1>3. FilesVerified
    BY <1>2 DEF Init, FilesVerified, Verified, ContiguousFrom
<1>4. BoundaryInLog /\ PhaseKnows
    BY DEF Init, BoundaryInLog, PhaseKnows, Healthy
<1>5. NoLoss /\ OneRecordPerSequence
    BY DEF Init, NoLoss, OneRecordPerSequence
<1> QED
    BY <1>1, <1>3, <1>4, <1>5 DEF IInv

\* Every step of the log keeps the inductive invariant.
LEMMA StepIInv == IInv /\ [Next]_vars => IInv'
BY StepTypeOK, StepStanding, StepPromise DEF IInv, Standing, Promise

\* The inductive invariant.
THEOREM JournalInvariant == Spec => []IInv
BY InitIInv, StepIInv, PTL DEF Spec

\* Every variable keeps its type.
THEOREM JournalTypes == Spec => []TypeOK
<1>1. IInv => TypeOK
    BY DEF IInv
<1> QED
    BY <1>1, JournalInvariant, PTL

\* No failure the environment allows takes back a frame that an append, a sync
\* or a close reported, in the file, in its synchronized part, or in the file
\* that a cutover replaced.
THEOREM JournalKeepsPromises == Spec => []NoLoss
<1>1. IInv => NoLoss
    BY DEF IInv
<1> QED
    BY <1>1, JournalInvariant, PTL

\* No sequence number is ever promised to two records.
THEOREM JournalSequencesUnique == Spec => []OneRecordPerSequence
<1>1. IInv => OneRecordPerSequence
    BY DEF IInv
<1> QED
    BY <1>1, JournalInvariant, PTL

\* A writer that accepts appends stands exactly at the tail of its file.
THEOREM JournalWriterAtTail == Spec => []WriterAtTail
<1>1. IInv => WriterAtTail
    <2> SUFFICES ASSUME IInv, Healthy
                 PROVE  /\ tail = "clean" /\ former = NoFile
                        /\ end = Len(wal)
                        /\ first = EffectiveFirst(wal)
                        /\ next = first + Len(wal)
        BY DEF WriterAtTail
    <2>1. AtTail(0) /\ TypeOK
        BY DEF IInv, PhaseKnows
    <2> QED
        BY <2>1, WriterContinues DEF AtTail
<1> QED
    BY <1>1, JournalInvariant, PTL

\* Every file that a later open may find is verified to its last frame.
THEOREM JournalVerified == Spec => []VerifiedToTheTail
<1>1. IInv => VerifiedToTheTail
    <2> SUFFICES ASSUME IInv, NEW file \in SurvivingFiles PROVE Verified(file)
        BY DEF VerifiedToTheTail, Verified
    <2>1. wal \in Seq(Frame) /\ synced \in 0 .. Len(wal) /\ FilesVerified
        BY DEF IInv, TypeOK
    <2>2. Verified(SubSeq(wal, 1, synced))
        BY <2>1, PrefixVerified DEF FilesVerified
    <2> QED
        BY <2>1, <2>2 DEF SurvivingFiles, FilesVerified
<1> QED
    BY <1>1, JournalInvariant, PTL

\* The files are verified and the writer stands behind them.
THEOREM JournalWriterBehindVerified == Spec => []WriterBehindVerified
<1>1. VerifiedToTheTail /\ WriterAtTail => WriterBehindVerified
    BY DEF WriterBehindVerified
<1> QED
    BY <1>1, JournalVerified, JournalWriterAtTail, PTL

----------------------------------------------------------------------------
(* Writer leases, for every set of openers and every number of             *)
(* acquisitions: whoever will still write or remove the file is the one it *)
(* names, identities are never used twice, and a recovery removes a lease  *)
(* only of an owner that no live handle has.                               *)

\* Everything in use was handed out before.
IdentitiesIssued ==
    /\ lease.owner < nonce /\ operator < nonce /\ observed < nonce
    /\ \A o \in Openers : pc[o] # "idle" => owner[o] # 0 /\ owner[o] < nonce

\* No two handles share an identity.
IdentitiesDistinct ==
    \A o, p \in Openers :
        pc[o] # "idle" /\ pc[p] # "idle" /\ owner[o] = owner[p] => o = p

\* A handle that may still complete or remove the file is the one it names.
FileNamesOwner ==
    \A o \in Openers :
        /\ pc[o] = "created" => lease = LeaseOf(owner[o], FALSE)
        /\ pc[o] \in {"holding", "removing", "dropRemoving"} =>
              lease = LeaseOf(owner[o], TRUE)

\* What a recovery is about to remove belongs to no handle.
RecoveryNamesDead ==
    operator # 0 =>
        /\ lease.owner = operator
        /\ \A o \in Openers : pc[o] # "idle" => owner[o] # operator

LeaseIInv ==
    /\ LeaseTypeOK
    /\ IdentitiesIssued
    /\ IdentitiesDistinct
    /\ FileNamesOwner
    /\ RecoveryNamesDead

USE DEF States, LeaseOf, NoLease

\* The initial state: no file, no handle.
LEMMA InitLeaseIInv == LeaseInit => LeaseIInv
BY WriterLeaseAssumption
   DEF WriterLeaseAssumption, LeaseInit, LeaseIInv, LeaseTypeOK, IdentitiesIssued,
       IdentitiesDistinct, FileNamesOwner, RecoveryNamesDead

\* Each operation of a handle or of the operator keeps the invariant.
LEMMA StepLeaseIInv == LeaseIInv /\ [LeaseNext]_leaseVars => LeaseIInv'
<1> SUFFICES ASSUME LeaseIInv, [LeaseNext]_leaseVars PROVE LeaseIInv'
    OBVIOUS
<1> USE WriterLeaseAssumption
    DEF WriterLeaseAssumption, LeaseIInv, LeaseTypeOK, IdentitiesIssued, IdentitiesDistinct,
        FileNamesOwner, RecoveryNamesDead
<1>1. ASSUME NEW o \in Openers, Create(o) PROVE LeaseIInv'
    BY <1>1 DEF Create
<1>2. ASSUME NEW o \in Openers, WriteOwner(o) PROVE LeaseIInv'
    <2>1. lease = LeaseOf(owner[o], FALSE) /\ lease' = LeaseOf(owner[o], TRUE)
        BY <1>2 DEF WriteOwner
    <2>2. pc' = [pc EXCEPT ![o] = "holding"]
          /\ UNCHANGED <<owner, nonce, observed, operator>>
        BY <1>2 DEF WriteOwner
    <2>3. LeaseTypeOK' /\ IdentitiesIssued' /\ IdentitiesDistinct'
        BY <1>2, <2>1, <2>2 DEF WriteOwner
    <2>4. FileNamesOwner'
        BY <1>2, <2>1, <2>2 DEF WriteOwner
    <2>5. RecoveryNamesDead'
        BY <1>2, <2>1, <2>2 DEF WriteOwner
    <2> QED
        BY <2>3, <2>4, <2>5
<1>3. ASSUME NEW o \in Openers, WriteFails(o) PROVE LeaseIInv'
    BY <1>3 DEF WriteFails
<1>4. ASSUME NEW o \in Openers, Refused(o) PROVE LeaseIInv'
    BY <1>4 DEF Refused
<1>5. ASSUME NEW o \in Openers, CloseReads(o) PROVE LeaseIInv'
    BY <1>5 DEF CloseReads, NamesMe
<1>6. ASSUME NEW o \in Openers, CloseRemoves(o) PROVE LeaseIInv'
    BY <1>6 DEF CloseRemoves
<1>7. ASSUME NEW o \in Openers, DropReads(o) PROVE LeaseIInv'
    BY <1>7 DEF DropReads, NamesMe
<1>8. ASSUME NEW o \in Openers, DropRemoves(o) PROVE LeaseIInv'
    BY <1>8 DEF DropRemoves
<1>9. ASSUME NEW o \in Openers, Dies(o) PROVE LeaseIInv'
    BY <1>9 DEF Dies
<1>10. CASE RecoverReads
    BY <1>10 DEF RecoverReads, Live
<1>11. CASE RecoverInvalidReads
    BY <1>11 DEF RecoverInvalidReads, Live
<1>12. CASE RecoverRemoves
    BY <1>12 DEF RecoverRemoves
<1>13. CASE UNCHANGED leaseVars
    BY <1>13 DEF leaseVars
<1> QED
    BY <1>1, <1>2, <1>3, <1>4, <1>5, <1>6, <1>7, <1>8, <1>9, <1>10, <1>11, <1>12,
       <1>13 DEF LeaseNext

\* The invariant holds in every reachable state.
THEOREM LeaseInvariant == LeaseSpec => []LeaseIInv
BY InitLeaseIInv, StepLeaseIInv, PTL DEF LeaseSpec

\* Two handles never own one canonical path at the same time.
THEOREM LeaseExclusion == LeaseSpec => []OneWriter
<1>1. LeaseIInv => OneWriter
    BY DEF LeaseIInv, OneWriter, Writers, FileNamesOwner, IdentitiesDistinct
<1> QED
    BY <1>1, LeaseInvariant, PTL

\* A live owner's lease file is never taken from it, by no release of an
\* earlier owner and by no recovery.
THEOREM LeaseKept == LeaseSpec => []LeaseNamesWriter
<1>1. LeaseIInv => LeaseNamesWriter
    BY DEF LeaseIInv, LeaseNamesWriter, Writers, NamesMe, FileNamesOwner
<1> QED
    BY <1>1, LeaseInvariant, PTL

\* There is at most one writer at any time, and the lease file is its own.
THEOREM LeaseHeldAlways == LeaseSpec => []LeaseHeld
<1>1. OneWriter /\ LeaseNamesWriter => LeaseHeld
    BY DEF LeaseHeld
<1> QED
    BY <1>1, LeaseExclusion, LeaseKept, PTL

============================================================================
