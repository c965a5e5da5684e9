--------------------------- MODULE DurableShard ----------------------------
(***************************************************************************)
(* The shards that log a command, execute it and log its report: the book  *)
(* under risk (src/src/durable_risk.rs), the call auction and the auction  *)
(* under risk (src/src/durable_auction.rs).  Their logs begin with the     *)
(* definition and, under risk, one record per account profile.             *)
(*                                                                         *)
(* What an engine is comes down to what made it: its configuration and the *)
(* commands it executed, in order.                                         *)
(***************************************************************************)
EXTENDS AnchoredLog

CONSTANTS
    Requested,          \* per product, the configurations its callers open it with
    ShardCommands,
    MaxFrames,          \* bound: the last sequence number of a log
    MaxCheckpoints      \* bound: snapshots ever written

Products == {"risk", "auction", "coupled"}

\* A configuration is a definition and a list of account profiles.
Definitions == UNION {{config.definition : config \in Requested[p]} : p \in Products}
Profiles == UNION {UNION {Range(config.profiles) : config \in Requested[p]} : p \in Products}
Configurations == [definition : Definitions, profiles : Seq(Profiles)]

\* A checkpoint: where its log began and its metadata ended, the sequence
\* number it stands for, and what was executed by then.
Checkpoints ==
    [first : Nat, metadata : Nat, generation : Nat, config : Configurations,
     done : Seq(ShardCommands)]

\* Callers name definitions and profiles; an auction without risk has no profiles.
ASSUME RequestedAssumption ==
    /\ \A p \in Products : Requested[p] \subseteq Configurations
    /\ \A config \in Requested["auction"] : config.profiles = <<>>

ASSUME NoneAssumption == None \notin ShardCommands \cup Slots \cup Checkpoints

VARIABLES
    shard,      \* the open shard, or the one being opened
    captured    \* a verified checkpoint its holder may still use, or None

shardVars == <<shard, captured>>

\* config: definition and profiles; first, metadata: where the log began and
\* its metadata ended; done: the commands executed; pending: the one logged
\* and not executed; at: the frame to replay next; base: the checkpoint that
\* replay starts from; epoch: cutover_epoch.
NoShard ==
    [config |-> None, source |-> FALSE, first |-> 0, metadata |-> 0, done |-> <<>>,
     pending |-> None, at |-> 0, base |-> None, epoch |-> 0]

DefinitionFrame(d) == [kind |-> "definition", value |-> d]
ProfileFrame(p) == [kind |-> "profile", value |-> p]
CommandFrame(c) == [kind |-> "command", value |-> c]
ReportFrame(r) == [kind |-> "report", value |-> r]

\* What an engine answers depends on all it did before.  The answer to a
\* command it knows is the one it gave then, marked as a retry.
Before(done, c) ==
    IF c \in Range(done) THEN SubSeq(done, 1, (CHOOSE i \in DOMAIN done : done[i] = c) - 1)
    ELSE done
Report(config, done, c) ==
    [of |-> c, after |-> Before(done, c), under |-> config, replayed |-> c \in Range(done)]

----------------------------------------------------------------------------
(* Metadata *)

\* canonical_profiles: the profiles by account.  There is no such arrangement
\* when an account is named twice.
Canonical(profiles) ==
    {sorted \in [DOMAIN profiles -> Range(profiles)] :
        \A i, j \in DOMAIN sorted : i < j => sorted[i].account < sorted[j].account}

\* The profiles right behind the definition, up to the first data frame.
IsProfile(frame) == ~IsAnchor(frame) /\ frame.kind = "profile"
EndsProfiles(log, n) ==
    /\ \A i \in 1 .. n : IsProfile(log.bodies[i + 1])
    /\ n + 1 < Len(log.bodies) => ~IsProfile(log.bodies[n + 2])
ProfileCount(log) == CHOOSE n \in 0 .. Len(log.bodies) - 1 : EndsProfiles(log, n)
PersistedProfiles(log) == [i \in 1 .. ProfileCount(log) |-> log.bodies[i + 1].value]
HasData(log) == ProfileCount(log) + 1 < Len(log.bodies)

DefinedAs(log, config) ==
    log.bodies[1].kind = "definition" /\ log.bodies[1].value = config.definition

\* Profiles are written behind a definition and nothing else, where the ones
\* that are there begin those asked for.
LacksProfiles(log, config) ==
    /\ log.bodies # <<>> /\ ~IsAnchor(log.bodies[1]) /\ DefinedAs(log, config)
    /\ ~HasData(log)
    /\ IsStrictPrefix(PersistedProfiles(log), config.profiles)

\* Mutant of RiskBinding: a checkpoint of other profiles is good enough.
RiskBindingLoose(checkpoint, first, metadata, config) ==
    /\ checkpoint.first = first
    /\ checkpoint.metadata = metadata
    /\ checkpoint.config.definition = config.definition

\* validate_checkpoint_binding
RiskBinding(checkpoint, first, metadata, config) ==
    /\ checkpoint.first = first
    /\ checkpoint.metadata = metadata
    /\ checkpoint.config = config

\* open_risk_metadata, where the metadata is complete.
RiskOpens(log, files, config, source) ==
    IF IsAnchor(log.bodies[1])
    THEN /\ source /\ AnchorFits(log, files)
         /\ LET checkpoint == log.bodies[1].sum IN
            /\ checkpoint.generation = log.bodies[1].generation
            /\ RiskBinding(checkpoint, checkpoint.first, checkpoint.metadata, config)
    ELSE /\ DefinedAs(log, config)
         /\ PersistedProfiles(log) = config.profiles
         /\ source => /\ files["base"].now # None
                      /\ RiskBinding(files["base"].now, log.first,
                                     log.first + Len(config.profiles), config)

\* open_auction_journal.  The definition is compared with the anchored
\* checkpoint's; there are no profiles.
AuctionOpens(log, files, config, source) ==
    IF IsAnchor(log.bodies[1])
    THEN /\ source /\ AnchorFits(log, files)
         /\ LET checkpoint == log.bodies[1].sum IN
            /\ checkpoint.generation = log.bodies[1].generation
            /\ checkpoint.config.definition = config.definition
    ELSE /\ DefinedAs(log, config)
         /\ source => LET checkpoint == files["base"].now IN
                      /\ checkpoint # None
                      /\ checkpoint.metadata = log.first
                      /\ checkpoint.config.definition = config.definition

\* validate_auction_risk_checkpoint_binding
CoupledBinding(checkpoint, first, metadata, config) ==
    /\ checkpoint.first = first /\ checkpoint.metadata = metadata
    /\ checkpoint.config.definition = config.definition
    /\ checkpoint.config.profiles = config.profiles

\* open_anchored_auction_risk_journal
CoupledAnchorOpens(log, files, config, source) ==
    /\ source /\ AnchorFits(log, files)
    /\ LET checkpoint == log.bodies[1].sum IN
       /\ checkpoint.generation = log.bodies[1].generation
       /\ CoupledBinding(checkpoint, checkpoint.first, checkpoint.metadata, config)

\* open_auction_risk_journal, where the metadata is complete.
CoupledOpens(log, files, config, source) ==
    IF IsAnchor(log.bodies[1]) THEN CoupledAnchorOpens(log, files, config, source)
    ELSE /\ DefinedAs(log, config)
         /\ PersistedProfiles(log) = config.profiles
         /\ source => /\ files["base"].now # None
                      /\ CoupledBinding(files["base"].now, log.first,
                                        log.first + Len(config.profiles), config)

Opens(log, files, config, source) ==
    CASE product = "risk" -> RiskOpens(log, files, config, source)
      [] product = "auction" -> AuctionOpens(log, files, config, source)
      [] product = "coupled" -> CoupledOpens(log, files, config, source)

\* The checkpoint that replay starts from.
Selected(log, files, source) ==
    IF IsAnchor(log.bodies[1]) THEN log.bodies[1].sum
    ELSE IF source THEN files["base"].now ELSE None

----------------------------------------------------------------------------
(* Replay *)

\* validate_checkpoint_prefix_frame: the frames a checkpoint stands for are
\* its commands and their reports, in turn.
HistoryFrame(checkpoint, n) ==
    LET i == (n - 1) \div 2 + 1 IN
    IF n % 2 = 1 THEN CommandFrame(checkpoint.done[i])
    ELSE ReportFrame(Report(checkpoint.config, SubSeq(checkpoint.done, 1, i - 1),
                            checkpoint.done[i]))

PrefixFrameFits(checkpoint, frame, sequence) ==
    LET relative == sequence - checkpoint.metadata IN
    /\ relative \in 1 .. 2 * Len(checkpoint.done)
    /\ ~IsAnchor(frame) /\ frame = HistoryFrame(checkpoint, relative)

FrameAt(log, sequence) == log.bodies[sequence - log.first + 1]

\* replay_risk_frame
RiskFrameFits(frame) ==
    \/ frame.kind = "command" /\ shard.pending = None
    \/ /\ frame.kind = "report" /\ shard.pending # None
       /\ frame.value = Report(shard.config, shard.done, shard.pending)

\* replay_frame and replay_auction_risk_frame: no retry was ever logged.
AuctionFrameFits(frame) ==
    \/ frame.kind = "command" /\ shard.pending = None
    \/ /\ frame.kind = "report" /\ shard.pending # None
       /\ LET reproduced == Report(shard.config, shard.done, shard.pending) IN
          ~reproduced.replayed /\ ~frame.value.replayed /\ frame.value = reproduced

InPrefix(sequence) == shard.base # None /\ sequence <= shard.base.generation

NextFrameFits(frame) ==
    IF InPrefix(shard.at) THEN PrefixFrameFits(shard.base, frame, shard.at)
    ELSE /\ ~IsAnchor(frame)
         /\ IF product = "risk" THEN RiskFrameFits(frame) ELSE AuctionFrameFits(frame)

\* replay_risk_suffix, one frame of it.  A frame that does not fit fails the
\* opening.
ReplayFrame ==
    /\ step = "replaying" /\ shard.at <= LastSequence(visible)
    /\ LET frame == FrameAt(visible, shard.at) IN
         /\ NextFrameFits(frame)
         /\ shard' =
              IF InPrefix(shard.at) THEN [shard EXCEPT !.at = @ + 1]
              ELSE IF frame.kind = "command"
              THEN [shard EXCEPT !.pending = frame.value, !.at = @ + 1]
              ELSE [shard EXCEPT !.done = Append(@, shard.pending), !.pending = None, !.at = @ + 1]
    /\ UNCHANGED <<captured, anchoredVars>>

\* What is at the end of the log: a checkpoint ahead of it fails the opening,
\* a command without a report is executed now and its report logged.
Replayed == step = "replaying" /\ shard.at > LastSequence(visible)
AheadOfLog == shard.base # None /\ LastSequence(visible) < shard.base.generation

FinishReplay ==
    /\ Replayed /\ ~AheadOfLog /\ shard.pending = None
    /\ step' = "ready" /\ shard' = [shard EXCEPT !.base = None, !.at = 0]
    /\ UNCHANGED <<captured, logVars, slots, slot, answers, snapshots>>

CompleteDangling ==
    /\ Replayed /\ ~AheadOfLog /\ shard.pending # None
    /\ LET report == Report(shard.config, shard.done, shard.pending) IN
         /\ product # "risk" => ~report.replayed
         /\ Write(Extended(visible, <<ReportFrame(report)>>))
    /\ shard' = [shard EXCEPT !.done = Append(@, shard.pending), !.pending = None,
                              !.base = None, !.at = 0]
    /\ step' = "completing"
    /\ UNCHANGED <<captured, slots, slot, answers, snapshots>>

----------------------------------------------------------------------------
(* Opening *)

\* open_storage up to the journal.
OpenShard(config, source) ==
    /\ step = "down" /\ OpenLog
    /\ step' = "opening"
    /\ \E profiles \in Canonical(config.profiles) :
         shard' = [NoShard EXCEPT !.config = [config EXCEPT !.profiles = profiles],
                                  !.source = source]
    /\ UNCHANGED <<captured, slots, slot, answers, snapshots>>

WriteDefinition ==
    /\ step = "opening" /\ visible.bodies = <<>>
    /\ Write(Extended(visible, <<DefinitionFrame(shard.config.definition)>>))
    /\ step' = "defining"
    /\ UNCHANGED <<shardVars, slots, slot, answers, snapshots>>

\* Profiles that were not written when the log ended are written now.
WriteProfile ==
    /\ step = "opening" /\ LacksProfiles(visible, shard.config)
    /\ LET next == shard.config.profiles[Len(PersistedProfiles(visible)) + 1] IN
         Write(Extended(visible, <<ProfileFrame(next)>>))
    /\ step' = "defining"
    /\ UNCHANGED <<shardVars, slots, slot, answers, snapshots>>

MetadataWritten ==
    /\ step = "defining" /\ Acknowledge
    /\ step' = "opening"
    /\ UNCHANGED <<shardVars, slots, slot, answers, snapshots>>

\* The metadata is complete: replay, or an error.
Ended ==
    step' = "down" /\ shard' = NoShard /\ slot' = None /\ captured' = None

Examine ==
    /\ step = "opening" /\ visible.bodies # <<>> /\ ~LacksProfiles(visible, shard.config)
    /\ IF Opens(visible, slots, shard.config, shard.source)
       THEN LET checkpoint == Selected(visible, slots, shard.source)
                metadata == IF IsAnchor(visible.bodies[1]) THEN checkpoint.metadata
                            ELSE visible.first + Len(shard.config.profiles) IN
            /\ step' = "replaying" /\ slot' = AnchorSlot(visible)
            /\ shard' = [shard EXCEPT
                 !.first = IF IsAnchor(visible.bodies[1]) THEN checkpoint.first ELSE visible.first,
                 !.metadata = metadata, !.base = checkpoint,
                 !.done = IF checkpoint = None THEN <<>> ELSE checkpoint.done,
                 !.at = 1 + IF IsAnchor(visible.bodies[1]) THEN visible.first ELSE metadata]
            /\ UNCHANGED <<logVars, captured>>
       ELSE DropLog /\ Ended
    /\ UNCHANGED <<slots, answers, snapshots>>

DanglingCompleted ==
    /\ step = "completing" /\ Acknowledge
    /\ step' = "ready"
    /\ UNCHANGED <<shardVars, slots, slot, answers, snapshots>>

\* An append that fails fails the opening.
OpeningFails ==
    /\ step \in {"defining", "completing"} /\ (Fail \/ Refuse)
    /\ step' = "halted"
    /\ UNCHANGED <<shardVars, slots, slot, answers, snapshots>>

----------------------------------------------------------------------------
(* Commands *)

Receipt(c) == [cmd |-> c, at |-> Len(shard.done), under |-> shard.config]

\* submit, also behind a condition, up to the append of the command; one that
\* is known is answered from history.
SubmitCommand(c) ==
    /\ step = "ready" /\ c \notin Range(shard.done) /\ LastSequence(visible) + 1 < MaxFrames
    /\ Write(Extended(visible, <<CommandFrame(c)>>))
    /\ shard' = [shard EXCEPT !.pending = c]
    /\ step' = "logging"
    /\ UNCHANGED <<captured, slots, slot, answers, snapshots>>

CommandWritten ==
    /\ step = "logging" /\ Acknowledge
    /\ step' = "executing"
    /\ UNCHANGED <<shardVars, slots, slot, answers, snapshots>>

\* The shard goes on where the journal does.
CommandFails ==
    /\ step = "logging"
    /\ \/ Refuse /\ step' = "ready"
       \/ Fail /\ step' = "halted"
    /\ shard' = [shard EXCEPT !.pending = None]
    /\ UNCHANGED <<captured, slots, slot, answers, snapshots>>

\* commit, and the append of the report.
Execute ==
    /\ step = "executing"
    /\ Write(Extended(visible, <<ReportFrame(Report(shard.config, shard.done, shard.pending))>>))
    /\ shard' = [shard EXCEPT !.done = Append(@, shard.pending), !.pending = None]
    /\ step' = "reporting"
    /\ UNCHANGED <<captured, slots, slot, answers, snapshots>>

ReportWritten ==
    /\ step = "reporting" /\ Acknowledge
    /\ answers' = answers \cup {Receipt(Last(shard.done))}
    /\ step' = "ready"
    /\ UNCHANGED <<shardVars, slots, slot, snapshots>>

\* Mutant of ReportFails: the shard goes on where the journal does.
ReportFailsForgiven ==
    /\ step = "reporting"
    /\ \/ Refuse /\ step' = "ready"
       \/ Fail /\ step' = "halted"
    /\ UNCHANGED <<shardVars, slots, slot, answers, snapshots>>

\* However the journal stands, a shard with an unlogged report goes on no more.
ReportFails ==
    /\ step = "reporting" /\ (Fail \/ Refuse)
    /\ step' = "halted"
    /\ UNCHANGED <<shardVars, slots, slot, answers, snapshots>>

----------------------------------------------------------------------------
(* Checkpoints *)

CheckpointNow ==
    [first |-> shard.first, metadata |-> shard.metadata, generation |-> LastSequence(visible),
     config |-> shard.config, done |-> shard.done]

\* verify: the checkpoint's generation ends its history, and replaying it
\* reproduces its reports, which are the ones an engine gives.
Verifies(checkpoint) ==
    checkpoint.generation = checkpoint.metadata + 2 * Len(checkpoint.done)

Capture == [checkpoint |-> CheckpointNow, epoch |-> shard.epoch]

\* capture_checkpoint_candidate and verify, whose result its holder may use
\* many commands later.
CaptureCheckpoint ==
    /\ step = "ready" /\ SyncLog /\ Verifies(CheckpointNow)
    /\ captured' = Capture
    /\ UNCHANGED <<shard, slots, step, slot, answers, snapshots>>

\* validate_verified_checkpoint.  One of an earlier opening is refused by its
\* origin; here it is gone with that opening.
ValidVerified(capture) ==
    /\ capture.epoch = shard.epoch
    /\ capture.checkpoint.first = shard.first /\ capture.checkpoint.metadata = shard.metadata
    /\ capture.checkpoint.generation <= LastSequence(visible)

\* The one held, or one captured for the purpose.
Usable(capture) ==
    \/ captured # None /\ capture = captured /\ ValidVerified(captured)
    \/ capture = Capture /\ Verifies(CheckpointNow)

\* write_verified_checkpoint and write_checkpoint; a failure leaves the shard
\* as it is.
WriteVerified(capture) ==
    /\ step = "ready" /\ snapshots < MaxCheckpoints /\ SyncLog /\ Usable(capture)
    /\ \/ slots' = Stored(slots, "base", capture.checkpoint)
       \/ slots' \in HalfStored(slots, "base", capture.checkpoint)
    /\ snapshots' = snapshots + 1
    /\ UNCHANGED <<shardVars, step, slot, answers>>

\* compact_verified_checkpoint and compact_to_checkpoint up to the cutover.
CompactVerified(capture) ==
    /\ step = "ready" /\ snapshots < MaxCheckpoints /\ Usable(capture)
    /\ LET checkpoint == capture.checkpoint IN
         /\ slots' = Stored(slots, NextSlot, checkpoint)
         /\ flight' = Replaced(visible, checkpoint.generation,
                              AnchorTo(NextSlot, checkpoint, checkpoint.generation,
                                       checkpoint.generation))
    /\ images' = {visible} /\ mode' = "writing" /\ UNCHANGED visible
    /\ step' = "cutting"
    /\ snapshots' = snapshots + 1
    /\ UNCHANGED <<shardVars, slot, answers>>

CompactVerifiedFails(capture) ==
    /\ step = "ready" /\ snapshots < MaxCheckpoints /\ SyncLog /\ Usable(capture)
    /\ slots' \in HalfStored(slots, NextSlot, capture.checkpoint)
    /\ snapshots' = snapshots + 1
    /\ UNCHANGED <<shardVars, step, slot, answers>>

ShardCutOver ==
    /\ step = "cutting" /\ Acknowledge
    /\ step' = "ready" /\ slot' = NextSlot
    /\ shard' = [shard EXCEPT !.epoch = @ + 1]
    /\ UNCHANGED <<captured, slots, answers, snapshots>>

ShardCutOverFails ==
    /\ step = "cutting"
    /\ \/ Fail /\ step' = "halted"
       \/ Refuse /\ step' = "ready"
    /\ UNCHANGED <<shardVars, slots, slot, answers, snapshots>>

SyncShardFails ==
    /\ step = "ready" /\ SyncLogFails
    /\ step' = "halted"
    /\ UNCHANGED <<shardVars, slots, slot, answers, snapshots>>

----------------------------------------------------------------------------
(* Ends *)

CloseShard ==
    /\ step = "ready" /\ CloseLog /\ Ended
    /\ UNCHANGED <<slots, answers, snapshots>>

StopShard ==
    /\ step # "down" /\ DropLog /\ Ended
    /\ UNCHANGED <<slots, answers, snapshots>>

ShardLosesPower ==
    /\ LosePower /\ Ended
    /\ slots' \in SlotsAfterPowerLoss(slots)
    /\ UNCHANGED <<answers, snapshots>>

ShardInit ==
    /\ AnchoredInit /\ step = "down"
    /\ product \in Products
    /\ shard = NoShard /\ captured = None

ShardStep ==
    \/ \E config \in Requested[product], source \in BOOLEAN : OpenShard(config, source)
    \/ WriteDefinition \/ WriteProfile \/ MetadataWritten \/ Examine
    \/ ReplayFrame \/ FinishReplay \/ CompleteDangling \/ DanglingCompleted \/ OpeningFails
    \/ \E c \in ShardCommands : SubmitCommand(c)
    \/ CommandWritten \/ CommandFails \/ Execute \/ ReportWritten \/ ReportFails
    \/ CaptureCheckpoint
    \/ \E capture \in {captured, Capture} \ {None} :
         WriteVerified(capture) \/ CompactVerified(capture) \/ CompactVerifiedFails(capture)
    \/ ShardCutOver \/ ShardCutOverFails \/ SyncShardFails
    \/ CloseShard \/ StopShard \/ ShardLosesPower

ShardNext == product \in Products /\ UNCHANGED product /\ ShardStep

ShardSpec == ShardInit /\ [][ShardNext]_<<anchoredVars, shardVars>>

----------------------------------------------------------------------------
(* Properties *)

\* Data frames are commands and their reports, in turn.
CommandsIn(frames) == [i \in 1 .. (Len(frames) + 1) \div 2 |-> frames[2 * i - 1].value]

Anchored == visible.bodies # <<>> /\ IsAnchor(visible.bodies[1])

\* What is on storage, as far as it can be read back.
LoggedCommands ==
    IF visible.bodies = <<>> THEN <<>>
    ELSE IF ~Anchored
    THEN CommandsIn(SubSeq(visible.bodies, ProfileCount(visible) + 2, Len(visible.bodies)))
    ELSE IF AnchorFits(visible, slots)
    THEN visible.bodies[1].sum.done \o CommandsIn(Tail(visible.bodies))
    ELSE <<>>

LoggedConfig ==
    IF Anchored THEN visible.bodies[1].sum.config
    ELSE [definition |-> visible.bodies[1].value, profiles |-> PersistedProfiles(visible)]

\* A shard that is ready holds what its log says, and is one whose checkpoint
\* verifies; a shard that is down opens with what its log asks for, and each
\* frame fits what replay has come to, also behind a base checkpoint.
ShardComesBack ==
  product \in Products =>
    /\ step = "ready" =>
         /\ shard.done = LoggedCommands /\ shard.config = LoggedConfig
         /\ Verifies(CheckpointNow)
    /\ step = "down" /\ visible.bodies # <<>> =>
         Opens(visible, slots, LoggedConfig, Anchored)
    /\ step = "replaying" =>
         IF shard.at > LastSequence(visible) THEN ~AheadOfLog
         ELSE NextFrameFits(FrameAt(visible, shard.at))

\* No two answers were given under different definitions or profiles, in
\* whatever order callers with different ones open the log.
OneConfiguration ==
    product \in Products => \A a, b \in answers : a.under = b.under

============================================================================
