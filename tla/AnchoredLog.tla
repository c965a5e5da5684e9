---------------------------- MODULE AnchoredLog ----------------------------
(***************************************************************************)
(* What the shards on storage share: a log that can be cut over to an      *)
(* anchor, which names one of two snapshot slots, and a snapshot at a path *)
(* of the caller's choice.  The storage keeps the promises of RecordLog,   *)
(* and a snapshot file is replaced as a whole.  That holds of every file   *)
(* SnapshotFile::write put there; one that recover_pending promoted before *)
(* its bytes passed a barrier can be torn later.  SnapshotFile and         *)
(* DurableBook have that case; here no operator promotes a staging file.   *)
(***************************************************************************)
EXTENDS RecordLog

VARIABLES
    product,    \* the shard whose log this is
    slots,      \* the snapshot files: what a process reads, what a crash may leave
    step,       \* what the shard's process is doing
    slot,       \* checkpoint_slot: the slot the log's anchor names, or None
    answers,    \* history: receipts given by the call that committed
    snapshots   \* history: how many snapshots were written

anchoredVars == <<logVars, product, slots, step, slot, answers, snapshots>>

Slots == {"A", "B"}
SnapshotPaths == Slots \cup {"base"}
Alternate(s) == IF s = "A" THEN "B" ELSE "A"
NextSlot == IF slot = None THEN "A" ELSE Alternate(slot)

\* The receipt of a snapshot is its generation and, for its checksum, its
\* content.
AnchorTo(s, checkpoint, generation, sequence) ==
    [anchor |-> s, generation |-> generation, sum |-> checkpoint, sequence |-> sequence]

IsAnchor(body) == "anchor" \in DOMAIN body

AnchorSlot(log) ==
    IF log.bodies # <<>> /\ IsAnchor(log.bodies[1]) THEN log.bodies[1].anchor ELSE None

\* The snapshot an anchor at the head of the log selects: it sits where the
\* anchor says and is the one the anchor was written for.
AnchorFits(log, files) ==
    LET anchor == log.bodies[1] IN
    anchor.sequence = log.first /\ files[anchor.anchor].now = anchor.sum

AnchoredInit ==
    /\ LogInit
    /\ slots = [s \in SnapshotPaths |-> [now |-> None, may |-> {None}]]
    /\ slot = None /\ answers = {} /\ snapshots = 0

\* SnapshotFile::write: a failure may leave either content.
Stored(files, path, content) == [files EXCEPT ![path] = [now |-> content, may |-> {content}]]
HalfStored(files, path, content) ==
    {[files EXCEPT ![path] = [now |-> left, may |-> @.may \cup {content}]] :
        left \in {files[path].now, content}}

SlotsAfterPowerLoss(files) ==
    {after \in [SnapshotPaths -> {[now |-> c, may |-> {c}] :
                                    c \in UNION {files[s].may : s \in SnapshotPaths}}] :
       \A s \in SnapshotPaths : after[s].now \in files[s].may}

============================================================================
