---------------------------- MODULE DurableBook ----------------------------
(***************************************************************************)
(* One durable matching shard (src/src/durable.rs): a book in memory, its  *)
(* write-ahead log (Journal), and the checkpoints the log's prefix is cut  *)
(* over to (SnapshotFile).  The composition is what recovery depends on:   *)
(* which file names which, in what order they reach the device, and what a *)
(* reopened process answers.                                               *)
(*                                                                         *)
(* The book is the history of the commands it executed: it is              *)
(* deterministic (OrderBook), so a report is the command and its place.    *)
(* Operational failures of the book itself (capacity, identifier           *)
(* exhaustion) are detected before the command is written and are left to  *)
(* OrderBook.                                                              *)
(***************************************************************************)
EXTENDS Integers, Sequences, SequencesExt, FiniteSets

CONSTANTS
    Commands,           \* distinct commands, each with its own CommandId
    Oversized,          \* those whose report exceeds max_payload_length
    NoFile, Partial, NoBoundary,
    Targets,            \* snapshot paths in use: the slots "A", "B", and "base"
    Durability, RecoveryMode, PowerFailures,
    MaxFrames,          \* bound: frames ever sequenced
    MaxCaptures,        \* bound: captures held at once
    MaxCutovers         \* bound: cutovers of one process

VARIABLES
    \* the journal
    wal, tail, synced, former, staging, phase, poisoned, next, first, end,
    inflight, boundary, promised,
    \* the snapshot files
    current, device, pending, write, promoted,
    \* the shard
    step,       \* where the process is
    book,       \* commands executed, in order
    command,    \* the command being committed or resumed, or NoFile
    slot,       \* checkpoint_slot: the slot the log's anchor selects, or NoFile
    epoch,      \* cutover_epoch
    captures,   \* verified checkpoints a caller of this process holds
    using,      \* the one being written or cut over to, or NoFile
    halted,     \* DurableOrderBook.poisoned or the verification latch
    answers     \* history: reports returned by the call that committed

journalVars  == <<wal, tail, synced, former, staging, phase, poisoned, next, first,
                  end, inflight, boundary, promised>>
snapshotVars == <<current, device, pending, write, promoted>>
shardVars    == <<step, book, command, slot, epoch, captures, using, halted>>
vars == <<journalVars, snapshotVars, shardVars, answers>>

----------------------------------------------------------------------------
(* Records, anchors and checkpoints *)

Histories == Seq(Commands)
Definition == [kind |-> "Definition"]
CommandRecord(c) == [kind |-> "Command", cmd |-> c]
Report(c, at) == [kind |-> "Report", cmd |-> c, at |-> at]
Records == {Definition} \cup {CommandRecord(c) : c \in Commands}
           \cup {Report(c, at) : c \in Commands, at \in 1 .. MaxFrames}

\* An anchor names a slot and the receipt of the snapshot written there: its
\* generation and, for its checksum, the history itself.
AnchorTo(s, checkpoint) ==
    [kind |-> "Anchor", slot |-> s, gen |-> checkpoint.gen, sum |-> checkpoint.history]
Anchors == [kind : {"Anchor"}, slot : {"A", "B"}, gen : Nat, sum : Histories]

J == INSTANCE Journal WITH InitialSequence <- 1, MaxBatch <- 1

S == INSTANCE SnapshotFile WITH Items <- Commands

\* A log that is to survive power loss is opened with a barrier behind each
\* append; what stands for an absent file is no command and no snapshot.
ASSUME ShardAssumption ==
    /\ PowerFailures => Durability \in {"SyncData", "SyncAll"}
    /\ NoFile # Partial
    /\ NoFile \notin Commands \cup Histories \cup S!Contents \cup S!Files
    /\ Partial \notin S!Files

\* The prefix a checkpoint stands for began at the definition, sequence 1.
Metadata == 1

\* `mine' is the origin: taken from the instance that is open now.
Captures == [gen : Nat, history : Histories, boundary : J!Boundaries, epoch : Nat,
             mine : BOOLEAN]
CheckpointOf(capture) == [gen |-> capture.gen, history |-> capture.history]

TypeOK ==
    /\ J!TypeOK /\ S!TypeOK
    /\ step \in {"down", "opening", "defining", "resuming", "ready", "command",
                 "report", "writing", "snapshot", "cutover", "anchoring"}
    /\ book \in Histories
    /\ command \in Commands \cup {NoFile}
    /\ slot \in {"A", "B", NoFile}
    /\ epoch \in Nat
    /\ captures \subseteq Captures
    /\ using \in Captures \cup {NoFile}
    /\ halted \in BOOLEAN
    /\ answers \subseteq [cmd : Commands, at : Nat \ {0}]

Init ==
    /\ J!Init /\ S!Init
    /\ step = "down" /\ book = <<>> /\ command = NoFile
    /\ slot = NoFile /\ epoch = 0 /\ captures = {} /\ using = NoFile
    /\ halted = FALSE
    /\ answers = {}

----------------------------------------------------------------------------
(* Recovery as a function of the files *)

\* Frames behind the first, or behind the checkpoint, alternate commands and
\* the reports the book reproduces; the last command may lack its report.
Alternates(frames, base) ==
    \A i \in 1 .. Len(frames) :
        LET body == frames[i].body
            at == Len(base) + (i + 1) \div 2 IN
        IF i % 2 = 1
        THEN /\ body.kind = "Command"
             /\ body.cmd \notin Range(base)
             /\ \A j \in 1 .. i - 1 : frames[j].body.cmd # body.cmd
        ELSE body = Report(frames[i - 1].body.cmd, at)

CompletedIn(frames) ==
    [i \in 1 .. Len(frames) \div 2 |-> frames[2 * i].body.cmd]

DanglingIn(frames) ==
    IF Len(frames) % 2 = 1 THEN frames[Len(frames)].body.cmd ELSE NoFile

\* validate_checkpoint_prefix_frame: the retained frames a checkpoint covers
\* are its own commands and reports.
PrefixAgrees(frames, checkpoint) ==
    \A i \in 1 .. Len(frames) :
        LET relative == frames[i].seq - Metadata
            at == (relative + 1) \div 2 IN
        frames[i].seq <= checkpoint.gen =>
            /\ relative > 0 /\ at <= Len(checkpoint.history)
            /\ frames[i].body = IF relative % 2 = 1
                                THEN CommandRecord(checkpoint.history[at])
                                ELSE Report(checkpoint.history[at], at)

\* The frames behind a checkpoint: the scan found every sequence in its place.
BehindGeneration(file, gen) == SubSeq(file, gen - file[1].seq + 2, Len(file))

Base(snapshots) == IF "base" \in Targets THEN S!Read(snapshots["base"]) ELSE NoFile

\* open_storage as a function: `file' at the journal path, the snapshots the
\* targets hold, and whether the caller passes a checkpoint path.
Recovery(file, snapshots, withCheckpoint) ==
    LET head == file[1].body
        rest == Tail(file)
        checkpoint == IF head.kind = "Anchor" THEN S!Read(snapshots[head.slot])
                      ELSE IF withCheckpoint THEN Base(snapshots) ELSE NoFile
        base == IF checkpoint = NoFile THEN <<>> ELSE checkpoint.history
        suffix == IF checkpoint = NoFile THEN rest
                  ELSE BehindGeneration(file, checkpoint.gen)
        opens == /\ file # <<>>
                 /\ head.kind \in {"Definition", "Anchor"}
                 /\ (head.kind = "Anchor") => withCheckpoint
                 /\ withCheckpoint => checkpoint # NoFile
                 /\ (head.kind = "Anchor") =>
                        CheckpointOf(checkpoint) = [gen |-> head.gen, history |-> head.sum]
                 /\ checkpoint # NoFile => /\ PrefixAgrees(rest, checkpoint)
                                           /\ file[Len(file)].seq >= checkpoint.gen
                 /\ Alternates(suffix, base)
    IN  IF opens
        THEN [ok |-> TRUE, book |-> base \o CompletedIn(suffix),
              dangling |-> DanglingIn(suffix),
              slot |-> IF head.kind = "Anchor" THEN head.slot ELSE NoFile]
        ELSE [ok |-> FALSE, book |-> <<>>, dangling |-> NoFile, slot |-> NoFile]

----------------------------------------------------------------------------
(* Opening *)

ShardGone ==
    /\ step' = "down" /\ book' = <<>> /\ command' = NoFile
    /\ slot' = NoFile /\ epoch' = 0 /\ using' = NoFile
    /\ halted' = FALSE

OpenStart ==
    /\ step = "down" /\ J!AcquireLease
    /\ UNCHANGED <<snapshotVars, shardVars, answers>>

OpenScan ==
    /\ step = "down" /\ (J!OpenClean \/ J!OpenRepair)
    /\ step' = "opening"
    /\ UNCHANGED <<book, command, slot, epoch, captures, using, halted, snapshotVars,
                   answers>>

OpenScanFails ==
    /\ step = "down" /\ J!OpenFails
    /\ UNCHANGED <<snapshotVars, shardVars, answers>>

\* An empty log starts with the instrument definition.
OpenDefines ==
    /\ step = "opening" /\ end = 0
    /\ \/ J!AppendWrite(<<Definition>>) /\ step' = "defining"
       \/ J!AppendWriteFails(<<Definition>>, 0, "torn") /\ UNCHANGED step
    /\ UNCHANGED <<book, command, slot, epoch, captures, using, halted, snapshotVars,
                   answers>>

OpenDefined ==
    /\ step = "defining" /\ J!AppendBarrier
    /\ step' = "opening"
    /\ UNCHANGED <<book, command, slot, epoch, captures, using, halted, snapshotVars,
                   answers>>

\* Mutant of OpenReplays: a dangling command is refused instead of resumed.
OpenRefusesDangling(withCheckpoint) ==
    LET recovered == Recovery(wal, current, withCheckpoint) IN
    /\ step = "opening" /\ J!Healthy /\ end # 0
    /\ recovered.ok /\ recovered.dangling = NoFile
    /\ slot' = recovered.slot /\ book' = recovered.book
    /\ step' = "ready"
    /\ UNCHANGED <<command, epoch, captures, using, halted, journalVars, snapshotVars,
                   answers>>

\* The book is rebuilt; a dangling command is executed again and its report
\* written before the shard is handed out.
OpenReplays(withCheckpoint) ==
    LET recovered == Recovery(wal, current, withCheckpoint) IN
    /\ step = "opening" /\ J!Healthy /\ end # 0
    /\ recovered.ok
    /\ slot' = recovered.slot
    /\ IF recovered.dangling = NoFile
       THEN /\ book' = recovered.book
            /\ step' = "ready"
            /\ UNCHANGED <<journalVars, command>>
       ELSE /\ recovered.dangling \notin Oversized
            /\ book' = Append(recovered.book, recovered.dangling)
            /\ command' = recovered.dangling
            /\ step' = "resuming"
            /\ J!AppendWrite(<<Report(recovered.dangling, Len(recovered.book) + 1)>>)
    /\ UNCHANGED <<epoch, captures, using, halted, snapshotVars, answers>>

OpenResumeFails(withCheckpoint) ==
    LET recovered == Recovery(wal, current, withCheckpoint) IN
    /\ step = "opening" /\ J!Healthy /\ end # 0
    /\ recovered.ok /\ recovered.dangling \in Commands \ Oversized
    /\ J!AppendWriteFails(<<Report(recovered.dangling, Len(recovered.book) + 1)>>, 0, "torn")
    /\ UNCHANGED <<shardVars, snapshotVars, answers>>

OpenResumed ==
    /\ step = "resuming" /\ J!AppendBarrier
    /\ step' = "ready" /\ command' = NoFile
    /\ UNCHANGED <<book, slot, epoch, captures, using, halted, snapshotVars,
                   answers>>

\* A checkpoint that is required, absent or not this log's, a torn or refused
\* report append: the open returns an error and everything is dropped.
OpenAbandons ==
    /\ step \in {"opening", "defining", "resuming"}
    /\ J!ProcessEnds /\ S!ProcessEnds /\ ShardGone
    /\ UNCHANGED <<captures, answers>>

----------------------------------------------------------------------------
(* Submitting *)

Ready == step = "ready" /\ ~ halted

\* prepare finds the command in the retained history: its report is returned,
\* no frame is written and nothing changes.
SubmitReplay(c) ==
    /\ Ready /\ c \in Range(book)
    /\ UNCHANGED vars

\* Mutant of SubmitCommand: the retained history is not asked.
SubmitCommandAgain(c) ==
    /\ Ready
    /\ J!AppendWrite(<<CommandRecord(c)>>)
    /\ step' = "command" /\ command' = c
    /\ UNCHANGED <<book, slot, epoch, captures, using, halted, snapshotVars,
                   answers>>

\* commit_prepared: the command frame comes first.
SubmitCommand(c) ==
    /\ Ready /\ c \notin Range(book)
    /\ J!AppendWrite(<<CommandRecord(c)>>)
    /\ step' = "command" /\ command' = c
    /\ UNCHANGED <<book, slot, epoch, captures, using, halted, snapshotVars,
                   answers>>

\* A failed write or barrier of the command frame halts the shard with the
\* journal; the book has not executed it.
SubmitCommandFails ==
    /\ \/ /\ Ready
          /\ \E c \in Commands \ Range(book), cut \in {"clean", "torn"} :
                J!AppendWriteFails(<<CommandRecord(c)>>, 0, cut)
       \/ step = "command" /\ command \notin Range(book) /\ J!AppendBarrierFails
    /\ halted' = poisoned'
    /\ step' = "ready" /\ command' = NoFile
    /\ UNCHANGED <<book, slot, epoch, captures, using, snapshotVars, answers>>

\* The barrier holds: the command is acknowledged, then applied to the book.
SubmitExecutes ==
    /\ step = "command" /\ command \notin Range(book) /\ J!AppendBarrier
    /\ book' = Append(book, command)
    /\ UNCHANGED <<step, command, slot, epoch, captures, using, halted, snapshotVars,
                   answers>>

ReportFrame == Report(command, Len(book))

Executed == step = "command" /\ command \in Range(book)

SubmitReport ==
    /\ Executed /\ command \notin Oversized
    /\ J!AppendWrite(<<ReportFrame>>)
    /\ step' = "report"
    /\ UNCHANGED <<book, command, slot, epoch, captures, using, halted, snapshotVars,
                   answers>>

\* Any failure behind the command's barrier halts the shard, also one that
\* leaves the journal healthy.
SubmitReportFails ==
    /\ \/ /\ Executed /\ command \in Oversized
          /\ UNCHANGED journalVars
       \/ /\ Executed /\ command \notin Oversized
          /\ \E cut \in {"clean", "torn"} : J!AppendWriteFails(<<ReportFrame>>, 0, cut)
       \/ step = "report" /\ J!AppendBarrierFails
    /\ halted' = TRUE
    /\ step' = "ready" /\ command' = NoFile
    /\ UNCHANGED <<book, slot, epoch, captures, using, snapshotVars, answers>>

SubmitAnswers ==
    /\ step = "report" /\ J!AppendBarrier
    /\ answers' = answers \cup {[cmd |-> command, at |-> Len(book)]}
    /\ step' = "ready" /\ command' = NoFile
    /\ UNCHANGED <<book, slot, epoch, captures, using, halted, snapshotVars>>

----------------------------------------------------------------------------
(* Checkpoints *)

\* capture_checkpoint_candidate, then verification elsewhere.
Capture ==
    /\ Ready /\ end # 0
    /\ J!Sync
    /\ \E kept \in SUBSET captures :    \* callers drop captures as they like
          /\ Cardinality(kept) < MaxCaptures
          /\ captures' = kept \cup
                {[gen |-> next - 1, history |-> book, boundary |-> J!CurrentBoundary,
                  epoch |-> epoch, mine |-> TRUE]}
    /\ UNCHANGED <<step, book, command, slot, epoch, using, halted, snapshotVars,
                   answers>>

SyncFails ==
    /\ Ready /\ J!SyncFails
    /\ halted' = TRUE
    /\ UNCHANGED <<step, book, command, slot, epoch, captures, using, snapshotVars,
                   answers>>

\* Verification finds a captured state that its history does not reproduce:
\* the latch it shares with the shard stops the next call, whatever is running.
VerifyFails(capture) ==
    /\ captures' = captures \ {capture}
    /\ halted' = (halted \/ capture.mine)
    /\ UNCHANGED <<step, book, command, slot, epoch, using, journalVars, snapshotVars,
                   answers>>

\* Mutant of Acceptable: the cutover epoch is not compared.
AcceptableInAnyEpoch(capture) ==
    /\ capture.mine
    /\ capture.gen = capture.boundary.seq
    /\ capture.gen <= next - 1

\* validate_verified_checkpoint: this process's, of this cutover epoch, and not
\* ahead of the log.
Acceptable(capture) ==
    /\ capture.mine
    /\ capture.epoch = epoch
    /\ capture.gen = capture.boundary.seq
    /\ capture.gen <= next - 1

\* Mutant of Alternate: the slot the log selects is written over.
SameSlot == IF slot = "B" THEN "B" ELSE "A"

Alternate == IF slot = "A" THEN "B" ELSE "A"

\* write_verified_checkpoint: a file of the caller's choice, the log untouched.
WriteCheckpoint(capture) ==
    /\ Ready /\ Acceptable(capture) /\ "base" \in Targets
    /\ S!WriteBegin("base", CheckpointOf(capture))
    /\ step' = "writing" /\ using' = capture
    /\ UNCHANGED <<book, command, slot, epoch, captures, halted, journalVars,
                   answers>>

\* compact_verified_checkpoint: first the slot the log does not select.
CompactBegin(capture) ==
    /\ Ready /\ Acceptable(capture) /\ epoch < MaxCutovers
    /\ Alternate \in Targets
    /\ S!WriteBegin(Alternate, CheckpointOf(capture))
    /\ step' = "snapshot" /\ using' = capture
    /\ UNCHANGED <<book, command, slot, epoch, captures, halted, journalVars,
                   answers>>

SnapshotStep ==
    /\ step \in {"writing", "snapshot"}
    /\ \/ S!Stage \/ S!StageFails \/ S!Rename \/ S!RenameFails
       \/ S!DirectorySync \/ S!DirectorySyncFails
    /\ UNCHANGED <<shardVars, journalVars, answers>>

\* A snapshot error returns to the caller; the shard goes on.
SnapshotReturns ==
    /\ step \in {"writing", "snapshot"}
    /\ step' = IF step = "snapshot" /\ write.step = "done" THEN "cutover" ELSE "ready"
    /\ using' = IF step' = "cutover" THEN using ELSE NoFile
    /\ S!Return
    /\ UNCHANGED <<book, command, slot, epoch, captures, halted, journalVars,
                   answers>>

CutoverBegins ==
    /\ step = "cutover"
    /\ J!CutoverBegin(using.boundary)
    /\ step' = "anchoring"
    /\ UNCHANGED <<book, command, slot, epoch, captures, using, halted, snapshotVars,
                   answers>>

TheAnchor == AnchorTo(Alternate, CheckpointOf(using))

CutoverStep ==
    /\ step = "anchoring"
    /\ J!StageCutover(TheAnchor) \/ J!PublishRename
    /\ UNCHANGED <<shardVars, snapshotVars, answers>>

CutoverSucceeds ==
    /\ step = "anchoring" /\ J!PublishDirectorySync
    /\ slot' = Alternate /\ epoch' = epoch + 1
    /\ step' = "ready" /\ using' = NoFile
    /\ UNCHANGED <<book, command, captures, halted, snapshotVars, answers>>

\* The shard halts exactly when the journal did.
CutoverFails ==
    /\ \/ step = "cutover" /\ J!SyncFails
       \/ /\ step = "anchoring"
          /\ \/ J!StageRefused \/ J!StageCleanupFails
             \/ J!PublishRenameFails \/ J!PublishDirectorySyncFails
    /\ halted' = (halted \/ poisoned')
    /\ step' = "ready" /\ using' = NoFile
    /\ UNCHANGED <<book, command, slot, epoch, captures, snapshotVars, answers>>

----------------------------------------------------------------------------
(* Operators, process death, power loss *)

RecoverSnapshot(t) ==
    /\ step = "down" /\ phase = "closed"
    /\ S!RecoverPending(t)
    /\ UNCHANGED <<shardVars, journalVars, answers>>

RecoverStaging ==
    /\ step = "down"
    /\ J!RecoverPending
    /\ UNCHANGED <<shardVars, snapshotVars, answers>>

\* The process goes on, with the captures it took; none is this instance's.
Close ==
    /\ Ready /\ J!Close /\ ShardGone
    /\ captures' = {[capture EXCEPT !.mine = FALSE] : capture \in captures}
    /\ UNCHANGED <<snapshotVars, answers>>

ProcessDies ==
    /\ phase # "closed"
    /\ J!ProcessEnds /\ S!ProcessEnds /\ ShardGone
    /\ captures' = {}
    /\ UNCHANGED answers

\* Power that is lost under a running process ends it first (ProcessDies), which
\* takes nothing from the files.
PowerLoss ==
    /\ phase = "closed"
    /\ \/ \E kept \in synced .. Len(wal) : \E cut \in J!LostTails(kept) :
              J!PowerLoss(kept, cut)
       \/ J!PowerLossUndoesRename
    /\ S!PowerLoss
    /\ ShardGone /\ captures' = {}
    /\ UNCHANGED answers

Next ==
    \/ OpenStart \/ OpenScan \/ OpenScanFails \/ OpenDefines \/ OpenDefined
    \/ \E withCheckpoint \in BOOLEAN :
          OpenReplays(withCheckpoint) \/ OpenResumeFails(withCheckpoint)
    \/ OpenResumed \/ OpenAbandons
    \/ \E c \in Commands : SubmitReplay(c) \/ SubmitCommand(c)
    \/ SubmitCommandFails \/ SubmitExecutes \/ SubmitReport \/ SubmitReportFails
    \/ SubmitAnswers
    \/ Capture \/ SyncFails
    \/ \E capture \in captures :
          VerifyFails(capture) \/ WriteCheckpoint(capture) \/ CompactBegin(capture)
    \/ SnapshotStep \/ SnapshotReturns
    \/ CutoverBegins \/ CutoverStep \/ CutoverSucceeds \/ CutoverFails
    \/ \E t \in Targets : RecoverSnapshot(t)
    \/ RecoverStaging \/ Close \/ ProcessDies \/ PowerLoss

Spec == Init /\ [][Next]_vars

\* The owner opens until the shard is up, with or without its checkpoint path;
\* storage works again and again when it is tried again and again, and an open
\* that cannot go on returns its error.
FairSpec ==
    /\ Spec
    /\ WF_vars(OpenStart) /\ SF_vars(OpenScan)
    /\ SF_vars(OpenDefines /\ step' = "defining") /\ SF_vars(OpenDefined)
    /\ SF_vars(\E withCheckpoint \in BOOLEAN : OpenReplays(withCheckpoint))
    /\ SF_vars(OpenResumed) /\ WF_vars(OpenAbandons)

\* Commands are interchangeable, and one that is lost before its answer leaves
\* nothing to know it by: the checked instance numbers them as they are submitted.
InOrder ==
    (step = "ready" /\ step' = "command") =>
        \A c \in Commands \ Range(book) : command' <= c

----------------------------------------------------------------------------
(* What the shard promises *)

\* The files a later open may find.
WalImages ==
    {wal} \cup IF PowerFailures
                 THEN {SubSeq(wal, 1, kept) : kept \in synced .. Len(wal)}
                      \cup ({former} \ {NoFile})
                 ELSE {}

SnapshotImages ==
    IF PowerFailures
    THEN UNION {{S!Remaining(S!Fallen(undone), torn) : torn \in S!MayTear(S!Fallen(undone))}
                   : undone \in SUBSET S!Unsettled}
    ELSE {current}

\* What an owner who tries both ways to open comes up with.
Reopened(file, snapshots) ==
    LET plain == Recovery(file, snapshots, FALSE)
    IN  IF file = <<>> THEN [ok |-> TRUE, book |-> <<>>, dangling |-> NoFile, slot |-> NoFile]
        ELSE IF plain.ok THEN plain ELSE Recovery(file, snapshots, TRUE)

\* No snapshot, in place or staged, stands for more than was recovered: the
\* next cutover into its slot is not refused as another lineage, and no reopen
\* finds a checkpoint ahead of its log.
SnapshotsBehind(snapshots, recovered) ==
    \A t \in Targets :
        /\ S!IsValid(snapshots[t]) => IsPrefix(snapshots[t].history, recovered)
        /\ S!IsValid(pending[t]) => IsPrefix(pending[t].history, recovered)

\* The log selects a slot whose file a power loss tore: an operator had promoted
\* the file there without a barrier of its own.
SlotTorn(file, snapshots) ==
    /\ file # <<>> /\ file[1].body.kind = "Anchor"
    /\ snapshots[file[1].body.slot] = Partial
    /\ file[1].body.slot \in promoted

\* Whatever survives of the log and of the snapshots, each in its own directory,
\* the shard comes up from it: the log never selects a slot that does not hold
\* exactly the anchored checkpoint, its frames keep the recovery grammar, and
\* the snapshots stay behind it.  The one exception is a file that
\* recover_pending renamed into the slot before its bytes were on the device.
AlwaysRecoverable ==
    \A file \in WalImages, snapshots \in SnapshotImages :
        LET recovered == Reopened(file, snapshots)
        IN  \/ recovered.ok /\ SnapshotsBehind(snapshots, recovered.book)
            \/ SlotTorn(file, snapshots)

\* The claim of docs/assumptions.md (A58) for every crash: a selected log with
\* the slot it selected.  It does not hold of a slot that recover_pending filled.
SelectedSlotSurvives ==
    \A file \in WalImages, snapshots \in SnapshotImages : Reopened(file, snapshots).ok

\* A report returned by the call that committed the command is in every book
\* that can be recovered, at the same place.
AnswersSurvive ==
    \A file \in WalImages, snapshots \in SnapshotImages :
        LET recovered == Reopened(file, snapshots) IN
        recovered.ok => \A a \in answers : /\ a.at <= Len(recovered.book)
                                           /\ recovered.book[a.at] = a.cmd

\* A capture the shard accepts is one the journal can cut over at: captures of
\* other instances and of earlier cutover epochs were turned away before any
\* file was touched.
AcceptedCaptureCutsOver ==
    step = "cutover" =>
        /\ using.boundary.first = first
        /\ using.boundary.end <= end
        /\ IsPrefix(using.history, book)
        /\ wal[using.boundary.end].seq = using.gen

\* The shard is a log of commands whose answers stand (ShardLog), lost as a
\* whole or not at all.
RecoveredLog ==
    LET recovered == Reopened(wal, current) IN
    IF SlotTorn(wal, current) THEN NoFile
    ELSE recovered.book \o IF recovered.dangling = NoFile THEN <<>> ELSE <<recovered.dangling>>

Abstract == INSTANCE ShardLog WITH log <- RecoveredLog, Lost <- NoFile, MayBeLost <- TRUE
ImplementsShardLog == Abstract!Spec

\* A stopped shard comes up again, unless a frame on the device is damaged or
\* the slot its log selects is torn.
Reopens ==
    step = "down" ~> (step = "ready" \/ tail = "corrupt" \/ SlotTorn(wal, current))

============================================================================
