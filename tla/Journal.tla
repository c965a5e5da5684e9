------------------------------ MODULE Journal ------------------------------
(***************************************************************************)
(* The single-file write-ahead log of src/src/journal.rs: one writer       *)
(* appends checksummed frames that carry contiguous sequence numbers, a    *)
(* cutover replaces the file's prefix by a checkpoint anchor, and a reopen *)
(* accepts the longest verified prefix.                                    *)
(*                                                                         *)
(* The operating system is the environment.  `wal' is what a process reads *)
(* at the journal path; the device holds its first `synced' frames for     *)
(* certain and any longer prefix possibly.  After a rename whose directory *)
(* entry is not yet synchronized the path may still name `former' on the   *)
(* device.  A process death keeps what the operating system holds, a power *)
(* loss only what the device holds.  A failed barrier may have written     *)
(* everything or nothing; a later successful one covers the whole file.    *)
(*                                                                         *)
(* Bytes are abstracted to whole frames: a file is a sequence of verified  *)
(* frames and a `tail' that says what follows them.  The writer lease is   *)
(* modelled in WriterLease; what matters of it here is that it keeps other *)
(* writers out and that taking it synchronizes the parent directory.       *)
(***************************************************************************)
EXTENDS Integers, Sequences, FiniteSets

CONSTANTS
    Records,            \* payloads of typed records (commands, reports, ...)
    Anchors,            \* payloads of checkpoint anchors
    NoFile,             \* an absent file
    NoBoundary,         \* no cutover boundary captured in this process
    InitialSequence,    \* JournalOptions.initial_sequence
    Durability,         \* JournalOptions.durability
    RecoveryMode,       \* JournalOptions.recovery
    PowerFailures,      \* whether the environment includes power loss
    MaxFrames,          \* bound: frames ever sequenced
    MaxBatch            \* bound: records of one JournalBatch

\* A receipt promises survival of power loss only behind a device barrier.
ASSUME JournalAssumption ==
    /\ InitialSequence \in Nat \ {0}
    /\ MaxFrames \in Nat
    /\ MaxBatch \in Nat \ {0}
    /\ Durability \in {"Buffered", "Flush", "SyncData", "SyncAll"}
    /\ RecoveryMode \in {"Strict", "RepairTornTail"}
    /\ PowerFailures \in BOOLEAN
    /\ PowerFailures => Durability \in {"SyncData", "SyncAll"}
    /\ Records \cap Anchors = {}

VARIABLES
    wal,        \* frames readable at the journal path
    tail,       \* what follows them: nothing, a short frame, a bad frame
    synced,     \* how many leading frames of `wal' are on the device
    former,     \* the file a power loss would put back at the path, or NoFile
    staging,    \* the file at <wal>.cutover.pending, or NoFile
    phase,      \* where the owning process is
    poisoned,   \* Journal.poisoned
    next,       \* Journal.next_sequence
    first,      \* Journal.options.initial_sequence
    end,        \* Journal.offset, counted in frames
    inflight,   \* records of the append whose barrier is outstanding
    boundary,   \* a captured JournalCutoverBoundary, or NoBoundary
    promised    \* history: frames some successful call made durable

files   == <<wal, tail, synced, former, staging>>
handle  == <<poisoned, next, first, end, boundary>>
vars    == <<wal, tail, synced, former, staging, phase, poisoned, next, first,
             end, inflight, boundary, promised>>

Frame      == [seq : Nat \ {0}, body : Records \cup Anchors]
IsAnchor(f) == f.body \in Anchors
Boundaries == [first : Nat, seq : Nat, end : Nat]

\* A staging file nobody will rename: its content is never read again.
Abandoned == <<>>

\* A file's first sequence: that of a leading anchor, else the configured one.
EffectiveFirst(file) ==
    IF file # <<>> /\ IsAnchor(file[1]) THEN file[1].seq ELSE InitialSequence

\* Every frame of `file' carries the sequence a scan from `start' expects.
ContiguousFrom(file, start) ==
    \A i \in 1 .. Len(file) : file[i].seq = start + i - 1

\* The records a file holds itself, anchors aside.
RecordsOf(file) == {file[i] : i \in {j \in 1 .. Len(file) : ~ IsAnchor(file[j])}}

Healthy == phase = "idle" /\ ~ poisoned

\* Nothing of a process's memory outlives it.
ProcessGone ==
    /\ phase' = "closed" /\ poisoned' = FALSE
    /\ next' = InitialSequence /\ first' = InitialSequence /\ end' = 0
    /\ inflight' = 0 /\ boundary' = NoBoundary

DeviceBarrier == Durability \in {"SyncData", "SyncAll"}

TypeOK ==
    /\ wal \in Seq(Frame)
    /\ tail \in {"clean", "torn", "corrupt"}
    /\ synced \in 0 .. Len(wal)
    /\ former \in Seq(Frame) \cup {NoFile}
    /\ staging \in Seq(Frame) \cup {NoFile}
    /\ phase \in {"closed", "leased", "idle", "barrier", "stage", "publish", "dirsync"}
    /\ poisoned \in BOOLEAN
    /\ next \in Nat /\ first \in Nat /\ end \in Nat /\ inflight \in Nat
    /\ boundary \in Boundaries \cup {NoBoundary}
    /\ promised \subseteq Frame

Init ==
    /\ wal = <<>> /\ tail = "clean" /\ synced = 0
    /\ former = NoFile /\ staging = NoFile
    /\ phase = "closed" /\ poisoned = FALSE
    /\ next = InitialSequence /\ first = InitialSequence /\ end = 0
    /\ inflight = 0 /\ boundary = NoBoundary /\ promised = {}

----------------------------------------------------------------------------
(* Opening *)

\* Mutant of AcquireLease: the parent directory is not synchronized.
AcquireLeaseUnsynced ==
    /\ phase = "closed"
    /\ phase' = "leased"
    /\ UNCHANGED <<files, handle, inflight, promised>>

\* The lease is taken before anything is read; its creation synchronizes the
\* directory, which settles any rename that a failed barrier left open.
AcquireLease ==
    /\ phase = "closed"
    /\ phase' = "leased"
    /\ former' = NoFile
    /\ UNCHANGED <<wal, tail, synced, staging, handle, inflight, promised>>

\* scan_and_recover accepts every frame; next_sequence follows the last one.
ScanAccepts ==
    LET start == EffectiveFirst(wal) IN
    /\ ContiguousFrom(wal, start)
    /\ phase' = "idle" /\ poisoned' = FALSE
    /\ first' = start
    /\ next' = start + Len(wal)
    /\ end' = Len(wal)
    /\ boundary' = NoBoundary

OpenClean ==
    /\ phase = "leased" /\ tail = "clean"
    /\ ScanAccepts
    /\ UNCHANGED <<files, inflight, promised>>

\* Repair cuts the short frame off and synchronizes the file.
OpenRepair ==
    /\ phase = "leased" /\ tail = "torn" /\ RecoveryMode = "RepairTornTail"
    /\ ScanAccepts
    /\ tail' = "clean" /\ synced' = Len(wal)
    /\ UNCHANGED <<wal, former, staging, inflight, promised>>

\* Anything else fails the open and drops the lease: a bad frame always, a
\* short one in Strict mode, and a repair whose barrier failed.
OpenFails ==
    /\ phase = "leased"
    /\ \/ /\ tail = "corrupt" \/ ~ ContiguousFrom(wal, EffectiveFirst(wal))
          /\ tail' = tail
       \/ /\ tail = "torn"
          /\ tail' \in IF RecoveryMode = "Strict" THEN {"torn"} ELSE {"torn", "clean"}
    /\ ProcessGone
    /\ UNCHANGED <<wal, synced, former, staging, promised>>

----------------------------------------------------------------------------
(* Appending: append_raw is a batch of one record *)

FramesOf(batch) ==
    [i \in 1 .. Len(batch) |-> [seq |-> next + i - 1, body |-> batch[i]]]

\* All bytes of the batch are written; its barrier comes next.
AppendWrite(batch) ==
    /\ Healthy
    /\ next + Len(batch) <= InitialSequence + MaxFrames
    /\ wal' = wal \o FramesOf(batch)
    /\ inflight' = Len(batch)
    /\ phase' = "barrier"
    /\ UNCHANGED <<tail, synced, former, staging, handle, promised>>

\* A write error after `kept' whole frames poisons the writer.
AppendWriteFails(batch, kept, cut) ==
    /\ Healthy
    /\ next + Len(batch) <= InitialSequence + MaxFrames
    /\ wal' = wal \o SubSeq(FramesOf(batch), 1, kept)
    /\ tail' = cut
    /\ poisoned' = TRUE
    /\ UNCHANGED <<synced, former, staging, phase, next, first, end, inflight,
                   boundary, promised>>

\* Mutant of AppendBarrier: the receipt does not wait for the device.
AppendBarrierSkipped ==
    /\ phase = "barrier"
    /\ next' = next + inflight
    /\ end' = end + inflight
    /\ inflight' = 0
    /\ promised' = promised \cup RecordsOf(wal)
    /\ phase' = "idle"
    /\ UNCHANGED <<wal, tail, synced, former, staging, poisoned, first, boundary>>

\* The receipt is issued: only now do the cursor and the sequence advance.
AppendBarrier ==
    /\ phase = "barrier"
    /\ synced' = IF DeviceBarrier THEN Len(wal) ELSE synced
    /\ next' = next + inflight
    /\ end' = end + inflight
    /\ inflight' = 0
    /\ promised' = promised \cup RecordsOf(wal)
    /\ phase' = "idle"
    /\ UNCHANGED <<wal, tail, former, staging, poisoned, first, boundary>>

AppendBarrierFails ==
    /\ phase = "barrier" /\ Durability # "Buffered"
    /\ poisoned' = TRUE
    /\ inflight' = 0
    /\ phase' = "idle"
    /\ UNCHANGED <<files, next, first, end, boundary, promised>>

\* sync_all and sync_data, called by the owner.
Sync ==
    /\ Healthy
    /\ synced' = Len(wal)
    /\ promised' = promised \cup RecordsOf(wal)
    /\ UNCHANGED <<wal, tail, former, staging, phase, handle, inflight>>

SyncFails ==
    /\ Healthy
    /\ poisoned' = TRUE
    /\ UNCHANGED <<files, phase, next, first, end, boundary, inflight, promised>>

----------------------------------------------------------------------------
(* Cutover: replace the prefix up to a captured boundary by an anchor *)

CurrentBoundary == [first |-> first, seq |-> next - 1, end |-> end]

\* cutover_boundary: the current end of a nonempty log.
CaptureBoundary ==
    /\ Healthy /\ end # 0
    /\ boundary' = CurrentBoundary
    /\ UNCHANGED <<files, phase, poisoned, next, first, end, inflight, promised>>

\* prepare_checkpoint_cutover accepts the boundary, then sync_all succeeds
\* (when it fails, the step is SyncFails).
CutoverBegin(b) ==
    /\ Healthy
    /\ b.first = first
    /\ b.end <= end /\ end # 0
    /\ b.seq <= next - 1
    /\ boundary' = b
    /\ synced' = Len(wal)
    /\ promised' = promised \cup RecordsOf(wal)
    /\ phase' = "stage"
    /\ UNCHANGED <<wal, tail, former, staging, poisoned, next, first, end, inflight>>

\* The frames a reader finds behind the boundary, by path.
SuffixBehind(b) == SubSeq(wal, b.end + 1, Len(wal))

Staged(anchor) ==
    <<[seq |-> boundary.seq, body |-> anchor]>> \o SuffixBehind(boundary)

\* copy_checkpoint_suffix: the anchor, then every verified suffix frame, then
\* sync_all; the last sequence copied must be the log's last.
StageCutover(anchor) ==
    /\ phase = "stage" /\ staging = NoFile
    /\ ContiguousFrom(SuffixBehind(boundary), boundary.seq + 1)
    /\ boundary.seq + Len(SuffixBehind(boundary)) = next - 1
    /\ staging' = Staged(anchor)
    /\ phase' = "publish"
    /\ UNCHANGED <<wal, tail, synced, former, handle, inflight, promised>>

\* A staging file left by an earlier attempt, a suffix that does not verify,
\* or an I/O error whose cleanup works: nothing changed, the writer is healthy.
StageRefused ==
    /\ phase = "stage"
    /\ phase' = "idle"
    /\ UNCHANGED <<files, handle, inflight, promised>>

\* Staging failed and so did removing it: partial staging stays, poisoned.
StageCleanupFails ==
    /\ phase = "stage" /\ staging = NoFile
    /\ staging' = Abandoned
    /\ poisoned' = TRUE
    /\ phase' = "idle"
    /\ UNCHANGED <<wal, tail, synced, former, next, first, end, boundary,
                   inflight, promised>>

\* publish_checkpoint_cutover: the rename replaces the name at once for every
\* process, for the device only when the directory is synchronized.
PublishRename ==
    /\ phase = "publish"
    /\ former' = wal
    /\ wal' = staging
    /\ staging' = NoFile
    /\ synced' = Len(staging)
    /\ phase' = "dirsync"
    /\ UNCHANGED <<tail, handle, inflight, promised>>

\* A rename error leaves the staging file and a healthy writer.
PublishRenameFails ==
    /\ phase = "publish"
    /\ staging' = Abandoned
    /\ phase' = "idle"
    /\ UNCHANGED <<wal, tail, synced, former, handle, inflight, promised>>

PublishDirectorySync ==
    /\ phase = "dirsync"
    /\ former' = NoFile
    /\ first' = boundary.seq
    /\ end' = Len(wal)
    /\ phase' = "idle"
    /\ UNCHANGED <<wal, tail, synced, staging, poisoned, next, boundary, inflight,
                   promised>>

\* Mutant of PublishDirectorySyncFails: the writer stays usable.
PublishDirectorySyncForgiven ==
    /\ phase = "dirsync"
    /\ phase' = "idle"
    /\ UNCHANGED <<files, handle, inflight, promised>>

PublishDirectorySyncFails ==
    /\ phase = "dirsync"
    /\ poisoned' = TRUE
    /\ phase' = "idle"
    /\ UNCHANGED <<files, next, first, end, boundary, inflight, promised>>

\* recover_abandoned_cutover_pending takes the lease, removes the staging file,
\* synchronizes the directory and releases the lease.
RecoverPending ==
    /\ phase = "closed" /\ staging # NoFile
    /\ staging' = NoFile
    /\ former' = NoFile
    /\ UNCHANGED <<wal, tail, synced, phase, handle, inflight, promised>>

----------------------------------------------------------------------------
(* Closing, process death and power loss *)

Close ==
    /\ Healthy
    /\ synced' = Len(wal)
    /\ promised' = promised \cup RecordsOf(wal)
    /\ ProcessGone
    /\ UNCHANGED <<wal, tail, former, staging>>

Leftover == IF staging = NoFile THEN NoFile ELSE Abandoned

\* The process ends anywhere, or drops a handle it can no longer use.  Between
\* the calls of one write it may leave the same images as a failed write.
ProcessEnds ==
    /\ phase # "closed"
    /\ ProcessGone
    /\ staging' = Leftover
    /\ UNCHANGED <<wal, tail, synced, former, promised>>

\* What the device may hold behind the frames that survived: an unsynchronized
\* frame cut short or damaged, a short frame that a repair cut off but whose
\* barrier failed, or nothing.
LostTails(kept) ==
    IF kept < Len(wal) \/ tail = "torn" THEN {"clean", "torn", "corrupt"}
    ELSE IF tail = "clean" /\ RecoveryMode = "RepairTornTail" THEN {"clean", "torn"}
    ELSE {tail}

\* Power is lost and the device holds `kept' frames of the current file.
PowerLoss(kept, cut) ==
    /\ PowerFailures
    /\ wal' = SubSeq(wal, 1, kept)
    /\ tail' = cut
    /\ synced' = kept
    /\ former' = NoFile
    /\ staging' \in {Leftover, NoFile}
    /\ ProcessGone
    /\ UNCHANGED promised

\* Power is lost before the device saw the rename: the former file is back,
\* with the renamed one at its staging name or gone.
PowerLossUndoesRename ==
    /\ PowerFailures /\ former # NoFile
    /\ wal' = former
    /\ tail' = "clean"
    /\ synced' = Len(former)
    /\ former' = NoFile
    /\ staging' \in {Abandoned, NoFile}
    /\ ProcessGone
    /\ UNCHANGED promised

Batches == UNION {[1 .. n -> Records] : n \in 1 .. MaxBatch}

Next ==
    \/ AcquireLease \/ OpenClean \/ OpenRepair \/ OpenFails
    \/ \E batch \in Batches : AppendWrite(batch)
    \/ \E batch \in Batches :
          \E kept \in 0 .. Len(batch) - 1, cut \in {"clean", "torn"} :
             AppendWriteFails(batch, kept, cut)
    \/ AppendBarrier \/ AppendBarrierFails \/ Sync \/ SyncFails
    \/ CaptureBoundary
    \/ boundary # NoBoundary /\ CutoverBegin(boundary)
    \/ \E anchor \in Anchors : StageCutover(anchor)
    \/ StageRefused \/ StageCleanupFails
    \/ PublishRename \/ PublishRenameFails
    \/ PublishDirectorySync \/ PublishDirectorySyncFails
    \/ RecoverPending \/ Close \/ ProcessEnds
    \/ \E kept \in synced .. Len(wal) : \E cut \in LostTails(kept) : PowerLoss(kept, cut)
    \/ PowerLossUndoesRename

Spec == Init /\ [][Next]_vars

----------------------------------------------------------------------------
(* What the log promises *)

\* Every file a later open may find at the journal path.
SurvivingFiles ==
    {wal} \cup IF PowerFailures
                 THEN {SubSeq(wal, 1, synced)} \cup ({former} \ {NoFile})
                 ELSE {}

\* A file holds a frame itself, or starts with an anchor that stands for it.
Held(frame, file) ==
    \/ frame \in RecordsOf(file)
    \/ file # <<>> /\ IsAnchor(file[1]) /\ frame.seq <= file[1].seq

\* No failure the environment allows takes back a frame that a successful
\* append, sync or close reported: neither a torn tail, nor a cutover, nor a
\* directory entry that falls back to the file before the cutover.
NoLoss == \A file \in SurvivingFiles, frame \in promised : Held(frame, file)

\* A sequence number is promised to one record for ever, although numbers of
\* frames that were lost before any promise are used again.
OneRecordPerSequence ==
    \A f, g \in promised : f.seq = g.seq => f.body = g.body

\* Whatever failed before, the frames at the path scan without a gap, a
\* duplicate or an interior anchor: only the tail can ever stop a reopen.
VerifiedToTheTail ==
    \A file \in SurvivingFiles :
        /\ ContiguousFrom(file, EffectiveFirst(file))
        /\ \A i \in 2 .. Len(file) : ~ IsAnchor(file[i])

\* A writer that still accepts appends stands exactly behind the last frame of
\* the file the path names, on every device: after each failure that could
\* break this it is poisoned.
WriterAtTail ==
    Healthy => /\ tail = "clean" /\ former = NoFile
               /\ end = Len(wal)
               /\ first = EffectiveFirst(wal)
               /\ next = first + Len(wal)

\* No failure leaves a frame out of place, before the writer or behind it.
WriterBehindVerified == VerifiedToTheTail /\ WriterAtTail

============================================================================
