-------------------------- MODULE SegmentedJournal --------------------------
(***************************************************************************)
(* The write-ahead log kept as a directory of bounded segments             *)
(* (src/src/segmented_journal.rs).  A segment is a file of the single-file *)
(* journal; a marker file selects the generation whose segments, in order, *)
(* are the log.  A full segment is closed and the next one created; a      *)
(* cutover writes a whole new generation, selects it by renaming a marker  *)
(* over the old one, and removes what is no longer selected.               *)
(*                                                                         *)
(* The operating system is the environment.  `directory' is what a process *)
(* reads, `onDisk' the directory as of its last synchronization; after a   *)
(* power failure each name that changed in between may have changed or     *)
(* not, and a file keeps its synchronized frames and any more of what was  *)
(* written.  A frame is there or not: torn and damaged tails are Journal's.*)
(*                                                                         *)
(* The directory's writer lease (WriterLease) admits one process; taking   *)
(* it synchronizes the directory.  A first marker that reads as whole is   *)
(* taken to be on the device.                                              *)
(***************************************************************************)
EXTENDS Integers, Sequences, FiniteSets, SequencesExt

CONSTANTS
    SegmentBodies,      \* what is appended
    SegmentAnchor,      \* the anchor of a checkpoint
    SegmentFrames,      \* maximum_segment_bytes, in frames
    MaxLogged,          \* bound: the last sequence number
    MaxGeneration,      \* bound: generations
    Nothing             \* no marker, staging file, boundary or call

ASSUME SegmentAssumption == SegmentFrames \in Nat \ {0} /\ MaxLogged \in Nat /\ MaxGeneration \in Nat

Markers == [generation : Nat, first : Nat]
Bodies == SegmentBodies \cup {SegmentAnchor}
Logs == [first : Nat, bodies : Seq(Bodies)]
Calls ==
    [log : Logs, flight : Logs, batch : Seq(Bodies), rest : Seq(Bodies),
     staged : (Nat \X Nat) \cup {Nothing}]
CutoverBoundaries == [marker : Markers, start : Nat, offset : Nat, at : Nat]

ASSUME NothingAssumption == Nothing \notin Markers \cup (Nat \X Nat) \cup Calls \cup CutoverBoundaries

VARIABLES
    directory,  \* the marker, the names of segments, the staging file
    onDisk,     \* the same, as the device holds it for certain
    segments,   \* the files by generation and start: frames, synchronized ones
    doing,      \* what the process that holds the lease is doing
    call,       \* the append or cutover that is running
    captured,   \* a captured cutover boundary
    barrier,    \* JournalOptions.durability: "SyncAll" or "Buffered"
    settled,    \* history: the log of the last call that made it durable
    survivors   \* history: the logs RecordLog lets a power failure leave

segmentVars ==
    <<directory, onDisk, segments, doing, call, captured, barrier, settled, survivors>>

Marker(generation, first) == [generation |-> generation, first |-> first]
Torn == Marker(0, 0)
Readable(marker) == marker # Nothing /\ marker # Torn

NoDirectory == [marker |-> Nothing, names |-> {}, staging |-> Nothing]
FirstLog == [first |-> 1, bodies |-> <<>>]

Opening == {"closed", "leased", "marking", "cleaning"}

SegmentInit ==
    /\ directory = NoDirectory /\ onDisk = NoDirectory
    /\ segments = << >>
    /\ doing = "closed" /\ call = Nothing /\ captured = Nothing
    /\ barrier \in {"SyncAll", "Buffered"}
    /\ settled = FirstLog /\ survivors = {FirstLog}

----------------------------------------------------------------------------
(* Reading a directory *)

\* discover_segments: the sequence numbers a generation's segments start with.
Starts(names, generation) == {id[2] : id \in {n \in names : n[1] = generation}}

\* The chain of a marker: frames by the start of their segment; `files' maps a
\* name to frames.
ChainOf(marker, names, files) ==
    [start \in Starts(names, marker.generation) |-> files[<<marker.generation, start>>]]

EndOf(chain, start) == start + Len(chain[start])

\* The frame with a sequence number is in the last segment that starts by it.
FrameAt(chain, seq) ==
    LET start == Max({at \in DOMAIN chain : at <= seq}) IN chain[start][seq - start + 1]

FramesIn(chain, first) ==
    IF DOMAIN chain = {} THEN <<>>
    ELSE [i \in 1 .. EndOf(chain, Max(DOMAIN chain)) - first |-> FrameAt(chain, first + i - 1)]

Frames == [id \in DOMAIN segments |-> segments[id].frames]

LogIn(marker, names, files) ==
    IF Readable(marker)
    THEN [first |-> marker.first, bodies |-> FramesIn(ChainOf(marker, names, files), marker.first)]
    ELSE FirstLog
Readout == LogIn(directory.marker, directory.names, Frames)

LastLogged(log) == log.first + Len(log.bodies) - 1

\* The segments of the selected generation, and the last of them.
Chain == ChainOf(directory.marker, directory.names, Frames)
ActiveId == <<directory.marker.generation, Max(DOMAIN Chain)>>
Active == segments[ActiveId].frames

\* verify_first_segment, verify_closed_segments, reject_oversized_existing: a
\* nonempty chain starts where the marker says, each closed segment ends where
\* the next begins, and only the last may be empty.
ChainFits(chain, first) ==
    /\ first \in DOMAIN chain
    /\ \A start \in DOMAIN chain :
         /\ first <= start /\ Len(chain[start]) <= SegmentFrames
         /\ (\E later \in DOMAIN chain : start < later) =>
              /\ start < EndOf(chain, start) /\ EndOf(chain, start) \in DOMAIN chain
              /\ \A later \in DOMAIN chain : start < later => EndOf(chain, start) <= later

\* What open, or recover_incomplete_initialization before it, accepts.
Acceptable(marker, names, files) ==
    IF ~Readable(marker) THEN names = {}
    ELSE \/ ChainFits(ChainOf(marker, names, files), marker.first)
         \/ Starts(names, marker.generation) = {} /\ marker = Marker(1, 1)

Settle(log) ==
    /\ settled' = log
    /\ survivors' = IF barrier = "SyncAll" THEN {log} ELSE survivors
Unsettled == UNCHANGED <<settled, survivors>>

\* Synchronized to the last frame, with frames appended, and new.
Flushed(file) == [frames |-> file.frames, synced |-> Len(file.frames)]
WithFrames(file, frames) == [frames |-> file.frames \o frames, synced |-> file.synced]
Empty == [frames |-> <<>>, synced |-> 0]
WithFile(files, id, file) ==
    [name \in DOMAIN files \cup {id} |-> IF name = id THEN file ELSE files[name]]

----------------------------------------------------------------------------
(* Opening *)

\* Mutant of AcquireDirectory: the lease file's own name is not synchronized.
AcquireDirectoryUnsynced ==
    /\ doing = "closed"
    /\ doing' = "leased"
    /\ UNCHANGED <<directory, onDisk, segments, call, captured, barrier>> /\ Unsettled

\* The lease file is created and the directory synchronized.
AcquireDirectory ==
    /\ doing = "closed"
    /\ doing' = "leased" /\ onDisk' = directory
    /\ UNCHANGED <<directory, segments, call, captured, barrier>> /\ Unsettled

\* ensure_marker in an empty directory: create, write, synchronize.
CreateMarker ==
    /\ doing = "leased" /\ directory = NoDirectory
    /\ directory' = [directory EXCEPT !.marker = Torn]
    /\ doing' = "marking"
    /\ UNCHANGED <<onDisk, segments, call, captured, barrier>> /\ Unsettled

MarkerWritten ==
    /\ doing = "marking"
    /\ directory' = [directory EXCEPT !.marker = Marker(1, 1)] /\ onDisk' = directory'
    /\ doing' = "leased"
    /\ UNCHANGED <<segments, call, captured, barrier>> /\ Unsettled

\* The marker is removed again, as far as that works.
MarkerFails ==
    /\ doing = "marking"
    /\ \E left \in {Nothing, Torn, Marker(1, 1)} : directory' = [directory EXCEPT !.marker = left]
    /\ onDisk' \in {onDisk, directory, directory'}
    /\ doing' = "closed"
    /\ UNCHANGED <<segments, call, captured, barrier>> /\ Unsettled

\* recover_incomplete_initialization: a marker that does not decode is removed
\* from a directory that holds nothing else.
RecoverInitialization ==
    /\ doing = "closed"
    /\ directory.marker = Torn /\ directory.names = {} /\ directory.staging = Nothing
    /\ directory' = NoDirectory /\ onDisk' \in {directory, NoDirectory}
    /\ UNCHANGED <<segments, doing, call, captured, barrier>> /\ Unsettled

\* The first segment of a new directory is created and synchronized.
OpenNew ==
    /\ doing = "leased" /\ directory.marker = Marker(1, 1) /\ DOMAIN Chain = {}
    /\ directory' = [directory EXCEPT !.names = @ \cup {<<1, 1>>}] /\ onDisk' = directory'
    /\ segments' = WithFile(segments, <<1, 1>>, Empty)
    /\ doing' = "cleaning"
    /\ UNCHANGED <<call, captured, barrier>> /\ Unsettled

OpenChain ==
    /\ doing = "leased" /\ Readable(directory.marker)
    /\ ChainFits(Chain, directory.marker.first)
    /\ doing' = "cleaning"
    /\ UNCHANGED <<directory, onDisk, segments, call, captured, barrier>> /\ Unsettled

\* cleanup_inactive_inventory: what the marker does not select is removed.
Selected(d) ==
    [d EXCEPT !.names = {id \in @ : id[1] = d.marker.generation}, !.staging = Nothing]
Kept(names) == [id \in names |-> segments[id]]

\* The logs of which the one that was read is an extension.
Opened(log) ==
    /\ settled' = settled
    /\ survivors' = {s \in survivors : s.first = log.first /\ IsPrefix(s.bodies, log.bodies)}

CleanedUp ==
    /\ doing = "cleaning"
    /\ directory' = Selected(directory) /\ onDisk' = directory'
    /\ segments' = Kept(directory'.names)
    /\ doing' = "open"
    /\ IF barrier = "SyncAll" THEN Opened(Readout) ELSE Unsettled
    /\ UNCHANGED <<call, captured, barrier>>

\* A file cannot be removed, or the directory not be synchronized: the opening
\* fails, a cutover that came this far poisons the writer.
PartlyCleaned(d) ==
    {e \in [marker : {d.marker}, names : SUBSET d.names, staging : {d.staging, Nothing}] :
        Selected(d).names \subseteq e.names}

CleanupFails ==
    /\ doing = "cleaning"
    /\ directory' \in PartlyCleaned(directory)
    /\ doing' = "closed"
    /\ UNCHANGED <<onDisk, segments, call, captured, barrier>> /\ Unsettled

----------------------------------------------------------------------------
(* Appending *)

\* Mutant of CloseSegment: the full segment is only dropped.
DropSegment ==
    /\ doing = "open" /\ Active # <<>> /\ LastLogged(Readout) < MaxLogged
    /\ \E n \in 1 .. SegmentFrames : Len(Active) + n > SegmentFrames
    /\ doing' = "rotating"
    /\ UNCHANGED <<directory, onDisk, segments, call, captured, barrier>> /\ Unsettled

\* rotate_if_needed: the full segment is closed, which synchronizes it, ...
CloseSegment ==
    /\ doing = "open" /\ Active # <<>> /\ LastLogged(Readout) < MaxLogged
    /\ \E n \in 1 .. SegmentFrames : Len(Active) + n > SegmentFrames
    /\ segments' = [segments EXCEPT ![ActiveId] = Flushed(@)]
    /\ doing' = "rotating"
    /\ Settle(Readout)
    /\ UNCHANGED <<directory, onDisk, call, captured, barrier>>

\* ... and the next one is created.
NextSegment ==
    <<directory.marker.generation, LastLogged(Readout) + 1>>

CreateSegment ==
    /\ doing = "rotating"
    /\ directory' = [directory EXCEPT !.names = @ \cup {NextSegment}] /\ onDisk' = directory'
    /\ segments' = WithFile(segments, NextSegment, Empty)
    /\ doing' = "open"
    /\ UNCHANGED <<call, captured, barrier>> /\ Unsettled

\* The segment cannot be closed, created or synchronized.
RotationFails ==
    /\ \/ doing = "rotating"
          /\ directory' \in {directory, [directory EXCEPT !.names = @ \cup {NextSegment}]}
          /\ segments' = IF directory' = directory THEN segments ELSE WithFile(segments, NextSegment, Empty)
       \/ doing = "open" /\ Len(Active) = SegmentFrames
          /\ UNCHANGED <<directory, segments>>
    /\ doing' = "poisoned"
    /\ UNCHANGED <<onDisk, call, captured, barrier>> /\ Unsettled

\* append_raw and append_batch: a batch that does not fit makes room first.
AppendFrames(batch) ==
    /\ doing = "open"
    /\ Len(batch) <= SegmentFrames /\ (Active = <<>> \/ Len(Active) + Len(batch) <= SegmentFrames)
    /\ LastLogged(Readout) + Len(batch) <= MaxLogged
    /\ call' = [log |-> Readout, flight |-> [Readout EXCEPT !.bodies = @ \o batch],
                batch |-> batch, rest |-> <<>>, staged |-> Nothing]
    /\ doing' = "writing"
    /\ UNCHANGED <<directory, onDisk, segments, captured, barrier>> /\ Unsettled

Written(n) == [segments EXCEPT ![ActiveId] = WithFrames(@, SubSeq(call.batch, 1, n))]

Appended ==
    /\ doing = "writing"
    /\ LET written == Written(Len(call.batch)) IN
         segments' = IF barrier = "SyncAll" THEN [written EXCEPT ![ActiveId] = Flushed(@)] ELSE written
    /\ doing' = "open" /\ call' = Nothing
    /\ IF barrier = "SyncAll" THEN Settle(call.flight) ELSE Unsettled
    /\ UNCHANGED <<directory, onDisk, captured, barrier>>

\* The frames could not be encoded; nothing was written.
AppendRefused ==
    /\ doing = "writing"
    /\ doing' = "open" /\ call' = Nothing
    /\ UNCHANGED <<directory, onDisk, segments, captured, barrier>> /\ Unsettled

\* A call that ends otherwise leaves its old log or the new one, or of a batch
\* a part, to the next reader.
Parts(log, flight) ==
    {log, flight} \cup
    IF log.first = flight.first /\ IsPrefix(log.bodies, flight.bodies)
    THEN {[flight EXCEPT !.bodies = SubSeq(@, 1, n)] : n \in Len(log.bodies) .. Len(flight.bodies)}
    ELSE {}

Unfinished ==
    survivors' = IF barrier = "SyncAll" THEN survivors \cup Parts(call.log, call.flight) ELSE survivors

AppendFails ==
    /\ doing = "writing"
    /\ \E n \in 0 .. Len(call.batch) : segments' = Written(n)
    /\ doing' = "poisoned" /\ call' = Nothing
    /\ Unfinished /\ UNCHANGED settled
    /\ UNCHANGED <<directory, onDisk, captured, barrier>>

SyncSegment ==
    /\ doing = "open"
    /\ segments' = [segments EXCEPT ![ActiveId] = Flushed(@)]
    /\ Settle(Readout)
    /\ UNCHANGED <<directory, onDisk, doing, call, captured, barrier>>

SyncSegmentFails ==
    /\ doing = "open"
    /\ doing' = "poisoned"
    /\ UNCHANGED <<directory, onDisk, segments, call, captured, barrier>> /\ Unsettled

----------------------------------------------------------------------------
(* Cutover *)

\* cutover_boundary: the end of the last nonempty segment.  Bound: one
\* boundary is captured after each opening.
CaptureCutover ==
    /\ doing = "open" /\ captured = Nothing
    /\ \E start \in DOMAIN Chain :
         /\ Chain[start] # <<>>
         /\ \A later \in DOMAIN Chain : start < later => Chain[later] = <<>>
         /\ captured' = [marker |-> directory.marker, start |-> start,
                         offset |-> Len(Chain[start]), at |-> LastLogged(Readout)]
    /\ UNCHANGED <<directory, onDisk, segments, doing, call, barrier>> /\ Unsettled

\* SegmentedJournalReader::open_suffix: the frames from the boundary's offset
\* in its segment on.
FramesBehind(b) ==
    LET bodies == Readout.bodies IN
    SubSeq(bodies, b.start + b.offset - b.marker.first + 1, Len(bodies))

\* prepare_cutover and prepare_staged_generation: behind its own sync_all
\* (SyncSegment, or it fails there) the staging file begins with the anchor.
BeginCutover(b) ==
    /\ doing = "open" /\ b.marker = directory.marker
    /\ b.marker.generation < MaxGeneration
    /\ segments[ActiveId].synced = Len(Active)
    /\ LET id == <<b.marker.generation + 1, b.at>> IN
         /\ call' = [log |-> Readout,
                     flight |-> [first |-> b.at, bodies |-> <<SegmentAnchor>> \o FramesBehind(b)],
                     batch |-> <<>>, rest |-> FramesBehind(b), staged |-> id]
         /\ segments' = WithFile(segments, id, [frames |-> <<SegmentAnchor>>, synced |-> 0])
         /\ directory' = [directory EXCEPT !.staging = id] /\ onDisk' = directory'
    /\ doing' = "staging"
    /\ UNCHANGED <<captured, barrier>> /\ Unsettled

\* append_staged_suffix_frame
StageFrame ==
    /\ doing = "staging" /\ call.rest # <<>>
    /\ Len(segments[call.staged].frames) < SegmentFrames
    /\ segments' = [segments EXCEPT ![call.staged] = WithFrames(@, <<Head(call.rest)>>)]
    /\ call' = [call EXCEPT !.rest = Tail(@)]
    /\ UNCHANGED <<directory, onDisk, doing, captured, barrier>> /\ Unsettled

\* The staging file gets its name as a segment.
Renamed(d) ==
    IF d.staging = Nothing THEN d
    ELSE [d EXCEPT !.names = @ \cup {d.staging}, !.staging = Nothing]

\* rotate_staged_segment: a full segment is closed and named, and the next
\* created.
StageRotates ==
    /\ doing = "staging" /\ call.rest # <<>>
    /\ Len(segments[call.staged].frames) = SegmentFrames
    /\ LET id == <<call.staged[1], call.staged[2] + SegmentFrames>> IN
         /\ directory' = [Renamed(directory) EXCEPT !.names = @ \cup {id}] /\ onDisk' = directory'
         /\ segments' = WithFile([segments EXCEPT ![call.staged] = Flushed(@)], id, Empty)
         /\ call' = [call EXCEPT !.staged = id]
    /\ UNCHANGED <<doing, captured, barrier>> /\ Unsettled

\* finish_staged_generation
StageFinished ==
    /\ doing = "staging" /\ call.rest = <<>>
    /\ segments' = [segments EXCEPT ![call.staged] = Flushed(@)]
    /\ directory' = Renamed(directory) /\ onDisk' = directory'
    /\ doing' = "staged"
    /\ UNCHANGED <<call, captured, barrier>> /\ Unsettled

NextMarker == Marker(call.staged[1], call.flight.first)

\* replace_marker: a synchronized file is renamed over the marker.
PublishMarker ==
    /\ doing = "staged"
    /\ directory' = [directory EXCEPT !.marker = NextMarker]
    /\ doing' = "published"
    /\ UNCHANGED <<onDisk, segments, call, captured, barrier>> /\ Unsettled

\* publish_cutover_marker: the directory is synchronized.
SyncMarker ==
    /\ doing = "published"
    /\ onDisk' = directory
    /\ doing' = "installing"
    /\ UNCHANGED <<directory, segments, call, captured, barrier>> /\ Unsettled

\* install_cutover_generation: the last new segment is opened and the old
\* generation removed.
Installed ==
    /\ doing = "installing"
    /\ directory' = Selected(directory) /\ onDisk' = directory'
    /\ segments' = Kept(directory'.names)
    /\ doing' = "open" /\ call' = Nothing
    /\ Settle(call.flight)
    /\ UNCHANGED <<captured, barrier>>

\* The directory cannot be listed: an error, and the writer goes on with the
\* new generation.
InstallUnlisted ==
    /\ doing = "installing"
    /\ doing' = "open" /\ call' = Nothing
    /\ Settle(call.flight)
    /\ UNCHANGED <<directory, onDisk, segments, captured, barrier>>

\* Any other failure poisons the writer, before or after the rename it was at.
CutoverFails ==
    /\ doing \in {"staging", "staged", "published", "installing"}
    /\ directory' \in
         CASE doing = "staging" -> {directory, Renamed(directory)}
           [] doing = "installing" -> PartlyCleaned(directory)
           [] OTHER -> {directory}
    /\ doing' = "poisoned" /\ call' = Nothing
    /\ Unfinished /\ UNCHANGED settled
    /\ UNCHANGED <<onDisk, segments, captured, barrier>>

----------------------------------------------------------------------------
(* Stopping *)

CloseDirectory ==
    /\ doing = "open"
    /\ segments' = [segments EXCEPT ![ActiveId] = Flushed(@)]
    /\ doing' = "closed" /\ captured' = Nothing
    /\ Settle(Readout)
    /\ UNCHANGED <<directory, onDisk, call, barrier>>

\* The process ends, whatever it was doing, or drops a poisoned writer.
WriterDies ==
    /\ doing # "closed"
    /\ IF doing = "writing" THEN \E n \in 0 .. Len(call.batch) : segments' = Written(n)
       ELSE UNCHANGED segments
    /\ doing' = "closed" /\ call' = Nothing /\ captured' = Nothing
    /\ IF call # Nothing THEN Unfinished /\ UNCHANGED settled ELSE Unsettled
    /\ UNCHANGED <<directory, onDisk, barrier>>

\* What a power failure may leave of the files and their names.
CrashDirectories ==
    {[marker |-> marker, names |-> names, staging |-> staging] :
        marker \in {directory.marker, onDisk.marker},
        names \in {n \in SUBSET (directory.names \cup onDisk.names) :
                     directory.names \cap onDisk.names \subseteq n},
        staging \in {directory.staging, onDisk.staging}}

CrashFiles(files, names) ==
    {[id \in names |-> SubSeq(files[id].frames, 1, kept[id])] :
        kept \in {k \in [names -> 0 .. SegmentFrames] :
                    \A id \in names : files[id].synced <= k[id] /\ k[id] <= Len(files[id].frames)}}

\* The segments as they may be at this moment.
MayBeWritten ==
    IF doing = "writing" THEN {Written(n) : n \in 0 .. Len(call.batch)} ELSE {segments}

LosePowerOfDirectory ==
    \E files \in MayBeWritten, d \in CrashDirectories :
        LET names == d.names \cup ({d.staging} \ {Nothing}) IN
        \E f \in CrashFiles(files, names) :
            /\ directory' = d /\ onDisk' = d
            /\ segments' = [id \in names |-> [frames |-> f[id], synced |-> Len(f[id])]]
            /\ doing' = "closed" /\ call' = Nothing /\ captured' = Nothing
            /\ survivors' = IF barrier = "SyncAll" THEN {LogIn(d.marker, d.names, f)} ELSE survivors
            /\ UNCHANGED <<barrier, settled>>

\* Bound: the batches appended.
SegmentBatches == {<<b>> : b \in SegmentBodies} \cup {<<b, b>> : b \in SegmentBodies}

SegmentNext ==
    \/ AcquireDirectory \/ CreateMarker \/ MarkerWritten \/ MarkerFails \/ RecoverInitialization
    \/ OpenNew \/ OpenChain \/ CleanedUp \/ CleanupFails
    \/ CloseSegment \/ CreateSegment \/ RotationFails
    \/ \E batch \in SegmentBatches : AppendFrames(batch)
    \/ Appended \/ AppendRefused \/ AppendFails \/ SyncSegment \/ SyncSegmentFails
    \/ CaptureCutover \/ (captured # Nothing /\ BeginCutover(captured))
    \/ StageFrame \/ StageRotates \/ StageFinished \/ PublishMarker \/ SyncMarker
    \/ Installed \/ InstallUnlisted \/ CutoverFails
    \/ CloseDirectory \/ WriterDies \/ LosePowerOfDirectory

SegmentSpec == SegmentInit /\ [][SegmentNext]_segmentVars

----------------------------------------------------------------------------
(* Properties *)

Log == INSTANCE RecordLog WITH
    None <- Nothing,
    visible <- IF barrier # "SyncAll" THEN FirstLog ELSE IF call # Nothing THEN call.log ELSE Readout,
    images <- survivors,
    flight <- IF barrier = "SyncAll" /\ call # Nothing THEN call.flight ELSE Nothing,
    mode <- IF barrier # "SyncAll" \/ doing \in Opening THEN "closed"
            ELSE IF doing = "poisoned" THEN "poisoned"
            ELSE IF call # Nothing THEN "writing" ELSE "open"

LogSpec == Log!LogInit /\ [][Log!LogNext(SegmentBodies, {SegmentAnchor}, SegmentFrames)]_Log!logVars

\* With a barrier behind each append the directory is one log of bodies that
\* is extended or replaced up to a number, whatever fails on the way: to the
\* shards that write to it, rotation and cutover do not exist.
ImplementsRecordLog == LogSpec

\* A log still has what another held, itself or behind its anchor.
Covers(log, other) ==
    \A seq \in other.first .. LastLogged(other) :
        \/ seq < log.first
        \/ seq = log.first /\ log.bodies # <<>> /\ log.bodies[1] = SegmentAnchor
        \/ seq <= LastLogged(log) /\ log.bodies[seq - log.first + 1] = other.bodies[seq - other.first + 1]

\* Whatever the moment and whatever of the directory reached the device, what
\* a power failure leaves opens again, and with every frame that a
\* synchronization, a close or a cutover had reported.
EveryCrashOpens ==
    \A files \in MayBeWritten, d \in CrashDirectories :
        \A f \in CrashFiles(files, d.names) :
            /\ Acceptable(d.marker, d.names, f)
            /\ Covers(LogIn(d.marker, d.names, f), settled)

=============================================================================
