---------------------------- MODULE ShardsProofs ----------------------------
(***************************************************************************)
(* Every log a crash may leave the ledger tells records that are accepted  *)
(* one after the other from an empty ledger, and every receipt given names *)
(* its record among them.  What memory holds is what posting the records   *)
(* of the log it reads leads to; and all the logs a crash may leave begin  *)
(* that one, but for one record more after a failure.  So with the other   *)
(* shards over RecordLog and their commands, and all of them implement     *)
(* ShardLog.                                                               *)
(***************************************************************************)
EXTENDS Shards, SequenceTheorems, FiniteSetTheorems, WellFoundedInduction, TLAPS

----------------------------------------------------------------------------
(* Logs and the histories they tell *)

Answers ==
    [of : ShardCommands, after : Seq(ShardCommands), under : Configurations, replayed : BOOLEAN]

Bodies ==
    [kind : {"definition"}, value : Definitions] \cup [kind : {"profile"}, value : Profiles]
    \cup [kind : {"command"}, value : ShardCommands] \cup [kind : {"report"}, value : Answers]
    \cup [anchor : Slots, generation : Nat, sum : Checkpoints, sequence : Nat]

LogsOf(B) == [first : Nat \ {0}, bodies : Seq(B)]

Logs == LogsOf(Bodies)

Histories == [config : Configurations, metadata : Nat \ {0}, done : Seq(ShardCommands)]

Once(done) == \A i, j \in 1 .. Len(done) : done[i] = done[j] => i = j

\* The checkpoint stands for the beginning of a history.
Begun(checkpoint, h) ==
    /\ checkpoint \in Checkpoints /\ checkpoint.first = 1
    /\ checkpoint.metadata = h.metadata /\ checkpoint.config = h.config
    /\ Len(checkpoint.done) <= Len(h.done)
    /\ checkpoint.done = SubSeq(h.done, 1, Len(checkpoint.done))
    /\ checkpoint.generation = checkpoint.metadata + 2 * Len(checkpoint.done)

\* The last command has its report, or waits for it.
Whole(log, h) == LastSequence(log) = h.metadata + 2 * Len(h.done)
Dangling(log, h) == h.done # <<>> /\ LastSequence(log) = h.metadata + 2 * Len(h.done) - 1

MetadataTold(log, h) ==
    /\ log.first = 1 /\ h.metadata = 1 + Len(h.config.profiles)
    /\ log.bodies[1] = DefinitionFrame(h.config.definition)
    /\ \A i \in 1 .. Len(h.config.profiles) : log.bodies[i + 1] = ProfileFrame(h.config.profiles[i])

AnchorTold(log, h) ==
    LET anchor == log.bodies[1] IN
    /\ IsAnchor(anchor) /\ anchor.anchor \in Slots
    /\ anchor = AnchorTo(anchor.anchor, anchor.sum, log.first, log.first)
    /\ Begun(anchor.sum, h) /\ anchor.sum.generation = log.first

\* Where the commands of a history and their reports stand in a log.
CommandAt(h, i) == h.metadata + 2 * i - 1
ReportAt(h, i) == h.metadata + 2 * i
ReportOf(h, i) == Report(h.config, SubSeq(h.done, 1, i - 1), h.done[i])

CommandsTold(log, h) ==
    \A i \in 1 .. Len(h.done) :
       log.first < CommandAt(h, i) => FrameAt(log, CommandAt(h, i)) = CommandFrame(h.done[i])

ReportsTold(log, h) ==
    \A i \in 1 .. Len(h.done) :
       log.first < ReportAt(h, i) /\ ReportAt(h, i) <= LastSequence(log) =>
          FrameAt(log, ReportAt(h, i)) = ReportFrame(ReportOf(h, i))

Tells(log, h) ==
    /\ log \in Logs /\ h \in Histories
    /\ log.bodies # <<>>
    /\ Whole(log, h) \/ Dangling(log, h)
    /\ MetadataTold(log, h) \/ AnchorTold(log, h)
    /\ CommandsTold(log, h) /\ ReportsTold(log, h)
    /\ Once(h.done)

\* The history with one command more.
With(h, c) == [config |-> h.config, metadata |-> h.metadata, done |-> Append(h.done, c)]

\* The snapshot an anchored log begins with is the only one its slot can hold.
SlotHolds(log, files) ==
    IsAnchor(log.bodies[1]) =>
      files[log.bodies[1].anchor] = [now |-> log.bodies[1].sum, may |-> {log.bodies[1].sum}]

\* What the base path may hold: checkpoints of some opening of this log.
BaseContents(files) == files["base"].may \cup {files["base"].now}

BaseVerified(files) ==
    \A checkpoint \in BaseContents(files) \ {None} :
       /\ checkpoint \in Checkpoints /\ checkpoint.first = 1
       /\ Verifies(checkpoint)
       /\ product = "auction" => checkpoint.config.profiles = <<>>

\* Every answer given is in the history, and so is every base checkpoint that
\* stands for a command.
Kept(log, h, files, given) ==
    /\ \A a \in given : a.under = h.config /\ a.at \in 1 .. Len(h.done) /\ h.done[a.at] = a.cmd
    /\ \A checkpoint \in BaseContents(files) \ {None} :
          checkpoint.done # <<>> =>
             Begun(checkpoint, h) /\ checkpoint.generation <= LastSequence(log)

Fitting(kind, log, h, files, given) ==
    /\ Tells(log, h) /\ SlotHolds(log, files) /\ Kept(log, h, files, given)
    /\ kind = "auction" => h.config.profiles = <<>>

\* Nothing was executed yet.
Unused(files, given) ==
    /\ given = {}
    /\ \A checkpoint \in BaseContents(files) \ {None} : checkpoint.done = <<>>

Blank(log, files, given) == log = EmptyLog /\ Unused(files, given)

Sound(kind, log, files, given) ==
    \/ Blank(log, files, given)
    \/ \E h \in Histories : Fitting(kind, log, h, files, given)

----------------------------------------------------------------------------
(* The inductive invariant *)

\* The logs a process or a crash may find.
Candidates == images \cup {visible} \cup (IF mode = "writing" THEN {flight} ELSE {})

LogsSound == \A log \in Candidates : Sound(product, log, slots, answers)

WholeParts == mode = "writing" => PartsOf(visible, flight) = {visible, flight}

FilesForm(files) ==
    files = [path \in SnapshotPaths |-> [now |-> files[path].now, may |-> files[path].may]]

FilesHold == FilesForm(slots) /\ BaseVerified(slots)

OpenSteps == {"ready", "logging", "executing", "reporting", "cutting"}

ModeOf ==
    /\ product \in Products
    /\ step = "down" => mode = "closed"
    /\ step \in {"opening", "replaying", "ready", "executing"} => mode = "open"
    /\ step \in {"defining", "completing", "logging", "reporting", "cutting"} => mode = "writing"
    /\ step = "halted" => mode \in {"open", "poisoned"}
    /\ step \in OpenSteps \cup {"down", "opening", "defining", "replaying", "completing", "halted"}

ShardForm ==
    shard = [config |-> shard.config, source |-> shard.source, first |-> shard.first,
             metadata |-> shard.metadata, done |-> shard.done, pending |-> shard.pending,
             at |-> shard.at, base |-> shard.base, epoch |-> shard.epoch]

\* The history of the commands the open shard executed.
Current == [config |-> shard.config, metadata |-> shard.metadata, done |-> shard.done]

Stands(log, h) == Fitting(product, log, h, slots, answers)

\* Replay holds a beginning of the history it reads.
ReplayedTo(h) ==
    IF shard.base # None /\ shard.at - 1 < shard.base.generation
    THEN shard.done = shard.base.done /\ shard.pending = None
    ELSE \E k \in 0 .. Len(h.done) :
           \/ /\ shard.at - 1 = ReportAt(h, k)
              /\ shard.done = SubSeq(h.done, 1, k) /\ shard.pending = None
           \/ /\ k > 0 /\ shard.at - 1 = CommandAt(h, k)
              /\ shard.done = SubSeq(h.done, 1, k - 1) /\ shard.pending = h.done[k]

Replaying(h) ==
    /\ Stands(visible, h)
    /\ shard.config = h.config /\ shard.metadata = h.metadata
    /\ shard.at \in Nat /\ visible.first < shard.at /\ shard.metadata < shard.at
    /\ shard.at <= LastSequence(visible) + 1
    /\ shard.base # None =>
         Begun(shard.base, h) /\ shard.base.generation <= LastSequence(visible)
    /\ ReplayedTo(h)

OpeningKnows ==
    /\ shard.config \in Configurations
    /\ product = "auction" => shard.config.profiles = <<>>
    /\ shard.pending = None /\ shard.epoch = 0

ReadyKnows ==
    /\ shard.pending = None
    /\ Stands(visible, Current) /\ Whole(visible, Current)

\* The command is being logged; it is logged.
LoggingKnows ==
    /\ shard.pending \in ShardCommands
    /\ Stands(visible, Current) /\ Whole(visible, Current)
    /\ Stands(flight, With(Current, shard.pending))
    /\ Dangling(flight, With(Current, shard.pending))
    /\ flight.first = visible.first /\ AnchorSlot(flight) = AnchorSlot(visible)

ExecutingKnows ==
    /\ shard.pending \in ShardCommands /\ Current \in Histories
    /\ Stands(visible, With(Current, shard.pending))
    /\ Dangling(visible, With(Current, shard.pending))

\* The command is executed and its report is being logged.
ReportingKnows ==
    /\ shard.pending = None
    /\ Stands(visible, Current) /\ Dangling(visible, Current)
    /\ Stands(flight, Current) /\ Whole(flight, Current)
    /\ flight.first = visible.first /\ AnchorSlot(flight) = AnchorSlot(visible)

CuttingKnows ==
    /\ ReadyKnows
    /\ Stands(flight, Current) /\ Whole(flight, Current)
    /\ AnchorSlot(flight) = NextSlot

ProcessKnows ==
    /\ step \in {"opening", "defining"} => OpeningKnows
    /\ step = "replaying" => \E h \in Histories : Replaying(h)
    /\ step \in {"completing", "reporting"} => ReportingKnows
    /\ step = "ready" => ReadyKnows
    /\ step = "logging" => LoggingKnows
    /\ step = "executing" => ExecutingKnows
    /\ step = "cutting" => CuttingKnows

\* What is captured stands for a beginning of the history; while no cutover
\* came between, it is not behind the head of the log.
CaptureKnows ==
    /\ step \in {"down", "opening", "defining", "replaying", "completing"} => captured = None
    /\ step \in OpenSteps /\ captured # None =>
         /\ Begun(captured.checkpoint, Current)
         /\ captured.epoch \in Nat /\ captured.epoch <= shard.epoch
         /\ captured.epoch = shard.epoch => visible.first <= captured.checkpoint.generation

SlotKnows ==
    step \in OpenSteps \cup {"replaying", "completing"} =>
      slot = AnchorSlot(visible) /\ shard.first = 1 /\ shard.epoch \in Nat

Inv ==
    /\ LogsSound /\ WholeParts /\ FilesHold /\ ModeOf /\ ShardForm
    /\ ProcessKnows /\ CaptureKnows /\ SlotKnows

----------------------------------------------------------------------------
(* Logs of any bodies *)

LEMMA LogOfTypes ==
  ASSUME NEW B, NEW log \in LogsOf(B)
  PROVE /\ log.first \in Nat \ {0} /\ log.bodies \in Seq(B) /\ Len(log.bodies) \in Nat
        /\ LastSequence(log) \in Int /\ LastSequence(log) = log.first + Len(log.bodies) - 1
        /\ log = [first |-> log.first, bodies |-> log.bodies]
  BY DEF LogsOf, LastSequence

\* One body more behind a log.
LEMMA ExtendedLogOf ==
  ASSUME NEW B, NEW log \in LogsOf(B), NEW body \in B
  PROVE LET longer == Extended(log, <<body>>) IN
        /\ longer \in LogsOf(B) /\ longer.first = log.first /\ longer.bodies # <<>>
        /\ longer.bodies \in Seq(B) /\ Len(longer.bodies) = Len(log.bodies) + 1
        /\ LastSequence(longer) = LastSequence(log) + 1
        /\ \A i \in 1 .. Len(log.bodies) : longer.bodies[i] = log.bodies[i]
        /\ longer.bodies[Len(log.bodies) + 1] = body
  <1> DEFINE longer == Extended(log, <<body>>)
             more == log.bodies \o <<body>>
  <1> HIDE DEF more
  <1>1. longer = [first |-> log.first, bodies |-> more]
    <2>1. longer = [log EXCEPT !.bodies = more]
      BY DEF Extended, more
    <2> QED
      BY <2>1 DEF LogsOf
  <1> USE DEF more
  <1>2. log.bodies \in Seq(B) /\ log.first \in Nat \ {0} /\ <<body>> \in Seq(B)
    BY DEF LogsOf
  <1>3. /\ more \in Seq(B) /\ Len(more) = Len(log.bodies) + 1
        /\ \A i \in 1 .. Len(log.bodies) : more[i] = log.bodies[i]
        /\ more[Len(log.bodies) + 1] = body
    BY <1>2
  <1> HIDE DEF more
  <1>4. longer \in LogsOf(B) /\ longer.first = log.first /\ longer.bodies = more
    BY <1>1, <1>2, <1>3 DEF LogsOf
  <1>5. more # <<>>
    BY <1>2, <1>3, LenProperties, EmptySeq
  <1> HIDE DEF longer
  <1>6. LastSequence(longer) = LastSequence(log) + 1
    <2>1. LastSequence(longer) = longer.first + Len(longer.bodies) - 1
      BY <1>4, LogOfTypes
    <2>2. LastSequence(log) = log.first + Len(log.bodies) - 1 /\ Len(log.bodies) \in Nat
      BY LogOfTypes
    <2>3. longer.first = log.first /\ Len(longer.bodies) = Len(log.bodies) + 1
      BY <1>3, <1>4
    <2> QED
      BY <1>2, <2>1, <2>2, <2>3
  <1> QED
    BY <1>3, <1>4, <1>5, <1>6 DEF longer

LEMMA ExtendedFramesOf ==
  ASSUME NEW B, NEW log \in LogsOf(B), NEW body \in B
  PROVE LET longer == Extended(log, <<body>>) IN
        /\ \A s \in log.first .. LastSequence(log) : FrameAt(longer, s) = FrameAt(log, s)
        /\ FrameAt(longer, LastSequence(log) + 1) = body
  <1> DEFINE longer == Extended(log, <<body>>)
  <1>1. /\ longer.first = log.first
        /\ \A i \in 1 .. Len(log.bodies) : longer.bodies[i] = log.bodies[i]
        /\ longer.bodies[Len(log.bodies) + 1] = body
    BY ExtendedLogOf
  <1> HIDE DEF longer
  <1>2. ASSUME NEW s \in log.first .. LastSequence(log)
        PROVE FrameAt(longer, s) = FrameAt(log, s)
    <2>1. s - log.first + 1 \in 1 .. Len(log.bodies)
      BY LogOfTypes
    <2> QED
      BY <1>1, <2>1 DEF FrameAt
  <1>3. (LastSequence(log) + 1) - log.first + 1 = Len(log.bodies) + 1
    BY LogOfTypes
  <1>4. FrameAt(longer, LastSequence(log) + 1) = body
    BY <1>1, <1>3 DEF FrameAt
  <1> QED
    BY <1>2, <1>4 DEF longer

\* One body instead of the log up to a sequence number.
LEMMA ReplacedLogOf ==
  ASSUME NEW B, NEW log \in LogsOf(B), NEW at \in log.first .. LastSequence(log), NEW body \in B
  PROVE LET replaced == Replaced(log, at, body) IN
        /\ replaced \in LogsOf(B) /\ replaced.first = at /\ replaced.bodies # <<>>
        /\ LastSequence(replaced) = LastSequence(log)
        /\ replaced.bodies[1] = body
        /\ \A s \in at + 1 .. LastSequence(log) : FrameAt(replaced, s) = FrameAt(log, s)
  <1> DEFINE replaced == Replaced(log, at, body)
             m == at - log.first + 2
             n == Len(log.bodies)
             behind == SubSeq(log.bodies, m, n)
             bodies == <<body>> \o behind
  <1>1. replaced = [first |-> at, bodies |-> bodies]
    BY DEF Replaced, Behind
  <1>2. /\ at \in Nat \ {0} /\ m \in 2 .. n + 1 /\ n \in Nat /\ log.bodies \in Seq(B)
        /\ log.first \in Nat \ {0} /\ LastSequence(log) = log.first + n - 1
    BY LogOfTypes
  <1>3. \A i \in m .. n : log.bodies[i] \in B
    BY <1>2, ElementOfSeq
  <1> HIDE DEF m, n
  <1>4. /\ behind \in Seq(B) /\ Len(behind) = n - m + 1
        /\ \A i \in 1 .. n - m + 1 : behind[i] = log.bodies[m + i - 1]
    <2>1. /\ behind \in Seq(B) /\ Len(behind) = IF m <= n THEN n - m + 1 ELSE 0
          /\ \A i \in 1 .. n - m + 1 : behind[i] = log.bodies[m + i - 1]
      BY <1>2, <1>3, SubSeqProperties
    <2> QED
      BY <1>2, <2>1
  <1> HIDE DEF behind
  <1>5. /\ bodies \in Seq(B) /\ Len(bodies) = n - m + 2 /\ bodies[1] = body
        /\ \A i \in 2 .. n - m + 2 : bodies[i] = log.bodies[m + i - 2]
    <2>1. <<body>> \in Seq(B) /\ Len(<<body>>) = 1
      OBVIOUS
    <2>2. /\ bodies \in Seq(B) /\ Len(bodies) = 1 + Len(behind)
          /\ \A i \in 1 .. 1 + Len(behind) : bodies[i] = IF i <= 1 THEN <<body>>[i] ELSE behind[i - 1]
      BY <1>4, <2>1, ConcatProperties
    <2>3. bodies[1] = body
      BY <1>2, <1>4, <2>2
    <2>4. ASSUME NEW i \in 2 .. n - m + 2 PROVE bodies[i] = log.bodies[m + i - 2]
      <3>1. bodies[i] = behind[i - 1] /\ i - 1 \in 1 .. n - m + 1
        BY <1>2, <1>4, <2>2
      <3>2. behind[i - 1] = log.bodies[m + (i - 1) - 1]
        BY <1>4, <3>1
      <3>3. m + (i - 1) - 1 = m + i - 2
        BY <1>2
      <3> QED
        BY <3>1, <3>2, <3>3
    <2> QED
      BY <1>2, <1>4, <2>2, <2>3, <2>4
  <1> HIDE DEF bodies
  <1>6. replaced \in LogsOf(B) /\ replaced.first = at /\ replaced.bodies = bodies
    BY <1>1, <1>2, <1>5 DEF LogsOf
  <1>7. bodies # <<>>
    BY <1>2, <1>5, EmptySeq
  <1> HIDE DEF replaced
  <1>8. LastSequence(replaced) = LastSequence(log)
    <2>1. LastSequence(replaced) = replaced.first + Len(replaced.bodies) - 1
      BY <1>6, LogOfTypes
    <2>2. replaced.first = at /\ Len(replaced.bodies) = n - m + 2
      BY <1>5, <1>6
    <2> QED
      BY <1>2, <2>1, <2>2 DEF m
  <1>9. ASSUME NEW s \in at + 1 .. LastSequence(log)
        PROVE FrameAt(replaced, s) = FrameAt(log, s)
    <2>1. s - at + 1 \in 2 .. n - m + 2 /\ m + (s - at + 1) - 2 = s - log.first + 1
      BY <1>2 DEF m
    <2>2. bodies[s - at + 1] = log.bodies[m + (s - at + 1) - 2]
      BY <1>5, <2>1
    <2> QED
      BY <1>6, <2>1, <2>2 DEF FrameAt
  <1> QED
    BY <1>5, <1>6, <1>7, <1>8, <1>9 DEF replaced

\* A call that writes one body more, or one instead of others, has written
\* all of it or nothing.
LEMMA ExtendedPartsOf ==
  ASSUME NEW B, NEW log \in LogsOf(B), NEW body \in B
  PROVE PartsOf(log, Extended(log, <<body>>)) = {log, Extended(log, <<body>>)}
  <1> DEFINE longer == Extended(log, <<body>>)
             n == Len(log.bodies)
  <1>1. /\ longer \in LogsOf(B) /\ longer.first = log.first
        /\ longer.bodies \in Seq(B) /\ Len(longer.bodies) = n + 1
        /\ \A i \in 1 .. n : longer.bodies[i] = log.bodies[i]
    BY ExtendedLogOf
  <1>2. n \in Nat /\ log.bodies \in Seq(B) /\ log = [first |-> log.first, bodies |-> log.bodies]
    BY LogOfTypes
  <1>3. longer = [first |-> longer.first, bodies |-> longer.bodies]
    BY <1>1, LogOfTypes
  <1> HIDE DEF longer, n
  <1>4. SubSeq(longer.bodies, 1, n + 1) = longer.bodies
    BY <1>1, SubSeqFull
  <1>5. SubSeq(longer.bodies, 1, n) = log.bodies
    <2> DEFINE part == SubSeq(longer.bodies, 1, n)
    <2>1. \A i \in 1 .. n : longer.bodies[i] \in B
      BY <1>1, <1>2, ElementOfSeq
    <2>2. /\ part \in Seq(B) /\ Len(part) = IF 1 <= n THEN n - 1 + 1 ELSE 0
          /\ \A i \in 1 .. n - 1 + 1 : part[i] = longer.bodies[1 + i - 1]
      BY <1>2, <2>1, SubSeqProperties
    <2> HIDE DEF part
    <2>3. Len(part) = n /\ \A i \in 1 .. n : part[i] = log.bodies[i]
      BY <1>1, <1>2, <2>2
    <2>4. part = log.bodies
      BY <1>2, <2>2, <2>3, SeqEqual DEF n
    <2> QED
      BY <2>4 DEF part
  <1>6. ASSUME NEW k \in n .. n + 1
        PROVE [longer EXCEPT !.bodies = SubSeq(longer.bodies, 1, k)] \in {log, longer}
    <2>1. CASE k = n
      BY <1>1, <1>2, <1>3, <1>5, <2>1
    <2>2. CASE k = n + 1
      BY <1>3, <1>4, <2>2
    <2> QED
      BY <1>2, <2>1, <2>2
  <1>7. Len(log.bodies) = n /\ Len(longer.bodies) = n + 1
    BY <1>1 DEF n
  <1> QED
    BY <1>6, <1>7 DEF PartsOf, longer

LEMMA ReplacedPartsOf ==
  ASSUME NEW B, NEW log \in LogsOf(B), NEW at \in log.first .. LastSequence(log), NEW body \in B
  PROVE PartsOf(log, Replaced(log, at, body)) = {log, Replaced(log, at, body)}
  <1> DEFINE replaced == Replaced(log, at, body)
  <1>1. /\ replaced \in LogsOf(B) /\ LastSequence(replaced) = LastSequence(log)
    BY ReplacedLogOf
  <1> HIDE DEF replaced
  <1>2. CASE Begins(log, replaced)
    <2>1. replaced.first = log.first
      BY <1>2 DEF Begins
    <2>2. Len(replaced.bodies) = Len(log.bodies)
      <3>1. LastSequence(replaced) = replaced.first + Len(replaced.bodies) - 1
        BY <1>1, LogOfTypes
      <3>2. LastSequence(log) = log.first + Len(log.bodies) - 1
        BY LogOfTypes
      <3>3. /\ Len(replaced.bodies) \in Nat /\ Len(log.bodies) \in Nat
            /\ log.first \in Nat /\ replaced.first \in Nat
        BY <1>1, LogOfTypes
      <3>4. log.first + Len(replaced.bodies) - 1 = log.first + Len(log.bodies) - 1
        BY <1>1, <2>1, <3>1, <3>2
      <3> QED
        BY <3>3, <3>4
    <2> DEFINE n == Len(replaced.bodies)
    <2>3. SubSeq(replaced.bodies, 1, n) = replaced.bodies
      BY <1>1, LogOfTypes, SubSeqFull
    <2>4. n \in Nat /\ replaced = [first |-> replaced.first, bodies |-> replaced.bodies]
      BY <1>1, LogOfTypes
    <2> HIDE DEF n
    <2>5. ASSUME NEW k \in n .. n
          PROVE [replaced EXCEPT !.bodies = SubSeq(replaced.bodies, 1, k)] = replaced
      <3>1. k = n
        BY <2>4
      <3> QED
        BY <2>3, <2>4, <3>1
    <2>6. Len(log.bodies) = n /\ Len(replaced.bodies) = n
      BY <2>2 DEF n
    <2> QED
      BY <2>5, <2>6 DEF PartsOf, replaced
  <1>3. CASE ~Begins(log, replaced)
    BY <1>3 DEF PartsOf, replaced
  <1> QED
    BY <1>2, <1>3

----------------------------------------------------------------------------
(* Logs of a shard *)

LEMMA LogTypes ==
  ASSUME NEW log \in Logs
  PROVE /\ log.first \in Nat \ {0} /\ log.bodies \in Seq(Bodies) /\ Len(log.bodies) \in Nat
        /\ LastSequence(log) \in Int /\ LastSequence(log) = log.first + Len(log.bodies) - 1
        /\ log = [first |-> log.first, bodies |-> log.bodies]
  BY LogOfTypes DEF Logs

LEMMA ExtendedLog ==
  ASSUME NEW log \in Logs, NEW body \in Bodies
  PROVE LET longer == Extended(log, <<body>>) IN
        /\ longer \in Logs /\ longer.first = log.first /\ longer.bodies # <<>>
        /\ longer.bodies \in Seq(Bodies) /\ Len(longer.bodies) = Len(log.bodies) + 1
        /\ LastSequence(longer) = LastSequence(log) + 1
        /\ \A i \in 1 .. Len(log.bodies) : longer.bodies[i] = log.bodies[i]
        /\ longer.bodies[Len(log.bodies) + 1] = body
  BY ExtendedLogOf DEF Logs

LEMMA ExtendedFrames ==
  ASSUME NEW log \in Logs, NEW body \in Bodies
  PROVE LET longer == Extended(log, <<body>>) IN
        /\ \A s \in log.first .. LastSequence(log) : FrameAt(longer, s) = FrameAt(log, s)
        /\ FrameAt(longer, LastSequence(log) + 1) = body
  BY ExtendedFramesOf DEF Logs

LEMMA ReplacedLog ==
  ASSUME NEW log \in Logs, NEW at \in log.first .. LastSequence(log), NEW body \in Bodies
  PROVE LET replaced == Replaced(log, at, body) IN
        /\ replaced \in Logs /\ replaced.first = at /\ replaced.bodies # <<>>
        /\ LastSequence(replaced) = LastSequence(log)
        /\ replaced.bodies[1] = body
        /\ \A s \in at + 1 .. LastSequence(log) : FrameAt(replaced, s) = FrameAt(log, s)
  BY ReplacedLogOf DEF Logs

LEMMA ExtendedParts ==
  ASSUME NEW log \in Logs, NEW body \in Bodies
  PROVE PartsOf(log, Extended(log, <<body>>)) = {log, Extended(log, <<body>>)}
  BY ExtendedPartsOf DEF Logs

LEMMA ReplacedParts ==
  ASSUME NEW log \in Logs, NEW at \in log.first .. LastSequence(log), NEW body \in Bodies
  PROVE PartsOf(log, Replaced(log, at, body)) = {log, Replaced(log, at, body)}
  BY ReplacedPartsOf DEF Logs

----------------------------------------------------------------------------
(* Frames *)

LEMMA FrameTypes ==
  /\ \A d \in Definitions : DefinitionFrame(d) \in Bodies
  /\ \A p \in Profiles : ProfileFrame(p) \in Bodies
  /\ \A c \in ShardCommands : CommandFrame(c) \in Bodies
  /\ \A r \in Answers : ReportFrame(r) \in Bodies
  BY DEF Bodies, DefinitionFrame, ProfileFrame, CommandFrame, ReportFrame

LEMMA FrameKinds ==
  /\ \A d : ~IsAnchor(DefinitionFrame(d)) /\ ~IsProfile(DefinitionFrame(d))
  /\ \A p : ~IsAnchor(ProfileFrame(p)) /\ IsProfile(ProfileFrame(p))
  /\ \A c : ~IsAnchor(CommandFrame(c)) /\ ~IsProfile(CommandFrame(c))
  /\ \A r : ~IsAnchor(ReportFrame(r)) /\ ~IsProfile(ReportFrame(r))
  BY DEF IsAnchor, IsProfile, DefinitionFrame, ProfileFrame, CommandFrame, ReportFrame

LEMMA AnchorTypes ==
  ASSUME NEW s \in Slots, NEW checkpoint \in Checkpoints, NEW n \in Nat
  PROVE LET anchor == AnchorTo(s, checkpoint, n, n) IN
        /\ anchor \in Bodies /\ IsAnchor(anchor)
        /\ anchor.anchor = s /\ anchor.sum = checkpoint
        /\ anchor.generation = n /\ anchor.sequence = n
  BY DEF AnchorTo, IsAnchor, Bodies

LEMMA ReportTypes ==
  ASSUME NEW config \in Configurations, NEW done \in Seq(ShardCommands), NEW c \in ShardCommands
  PROVE /\ Report(config, done, c) \in Answers
        /\ Report(config, done, c).replayed = (c \in Range(done))
  <1>1. Before(done, c) \in Seq(ShardCommands)
    <2>1. CASE c \in Range(done)
      <3> DEFINE k == CHOOSE i \in DOMAIN done : done[i] = c
      <3>1. k \in DOMAIN done
        BY <2>1 DEF Range
      <3> HIDE DEF k
      <3>2. k - 1 \in Int /\ \A i \in 1 .. k - 1 : done[i] \in ShardCommands
        BY <3>1, LenProperties
      <3>3. SubSeq(done, 1, k - 1) \in Seq(ShardCommands)
        BY <3>2, SubSeqProperties
      <3> QED
        BY <2>1, <3>3 DEF Before, k
    <2>2. CASE c \notin Range(done)
      BY <2>2 DEF Before
    <2> QED
      BY <2>1, <2>2
  <1> QED
    BY <1>1 DEF Report, Answers

----------------------------------------------------------------------------
(* Beginnings of sequences *)

LEMMA Beginning ==
  ASSUME NEW S, NEW s \in Seq(S), NEW n \in 0 .. Len(s)
  PROVE /\ SubSeq(s, 1, n) \in Seq(S) /\ Len(SubSeq(s, 1, n)) = n
        /\ \A i \in 1 .. n : SubSeq(s, 1, n)[i] = s[i]
  <1>1. Len(s) \in Nat /\ n \in Int /\ \A i \in 1 .. n : s[i] \in S
    BY LenProperties, ElementOfSeq
  <1> DEFINE part == SubSeq(s, 1, n)
  <1>2. /\ part \in Seq(S) /\ Len(part) = IF 1 <= n THEN n - 1 + 1 ELSE 0
        /\ \A i \in 1 .. n - 1 + 1 : part[i] = s[1 + i - 1]
    BY <1>1, SubSeqProperties
  <1> HIDE DEF part
  <1>3. Len(part) = n /\ \A i \in 1 .. n : part[i] = s[i]
    BY <1>1, <1>2
  <1> QED
    BY <1>2, <1>3 DEF part

\* Sequences that agree up to a place begin alike.
LEMMA SameBeginning ==
  ASSUME NEW S, NEW s \in Seq(S), NEW t \in Seq(S), NEW n \in Nat,
         n <= Len(s), n <= Len(t), \A i \in 1 .. n : s[i] = t[i]
  PROVE SubSeq(s, 1, n) = SubSeq(t, 1, n)
  <1>1. n \in 0 .. Len(s) /\ n \in 0 .. Len(t)
    BY LenProperties
  <1> DEFINE a == SubSeq(s, 1, n)
             b == SubSeq(t, 1, n)
  <1>2. /\ a \in Seq(S) /\ Len(a) = n /\ \A i \in 1 .. n : a[i] = s[i]
        /\ b \in Seq(S) /\ Len(b) = n /\ \A i \in 1 .. n : b[i] = t[i]
    BY <1>1, Beginning
  <1> HIDE DEF a, b
  <1>3. a = b
    BY <1>2, SeqEqual
  <1> QED
    BY <1>3 DEF a, b

LEMMA LongerBeginning ==
  ASSUME NEW S, NEW s \in Seq(S), NEW e \in S, NEW n \in 0 .. Len(s)
  PROVE /\ Append(s, e) \in Seq(S) /\ Len(Append(s, e)) = Len(s) + 1
        /\ SubSeq(Append(s, e), 1, n) = SubSeq(s, 1, n)
        /\ \A i \in 1 .. Len(s) : Append(s, e)[i] = s[i]
        /\ Append(s, e)[Len(s) + 1] = e
  <1> DEFINE t == Append(s, e)
  <1>1. /\ t \in Seq(S) /\ Len(t) = Len(s) + 1
        /\ \A i \in 1 .. Len(s) : t[i] = s[i]
        /\ t[Len(s) + 1] = e
    BY AppendProperties
  <1> HIDE DEF t
  <1>2. Len(s) \in Nat /\ n \in Nat /\ n <= Len(s) /\ n <= Len(t) /\ \A i \in 1 .. n : s[i] = t[i]
    BY <1>1, LenProperties
  <1>3. SubSeq(t, 1, n) = SubSeq(s, 1, n)
    BY <1>1, <1>2, SameBeginning
  <1> QED
    BY <1>1, <1>3 DEF t

LEMMA BeginningOfBeginning ==
  ASSUME NEW S, NEW s \in Seq(S), NEW n \in 0 .. Len(s), NEW m \in 0 .. n
  PROVE SubSeq(SubSeq(s, 1, n), 1, m) = SubSeq(s, 1, m)
  <1> DEFINE t == SubSeq(s, 1, n)
  <1>1. t \in Seq(S) /\ Len(t) = n /\ \A i \in 1 .. n : t[i] = s[i]
    BY Beginning
  <1> HIDE DEF t
  <1>2. m \in Nat /\ m <= Len(s) /\ m <= Len(t) /\ \A i \in 1 .. m : t[i] = s[i]
    BY <1>1, LenProperties
  <1>3. SubSeq(t, 1, m) = SubSeq(s, 1, m)
    BY <1>1, <1>2, SameBeginning
  <1> QED
    BY <1>3 DEF t

----------------------------------------------------------------------------
(* Histories *)

LEMMA HistoryTypes ==
  ASSUME NEW h \in Histories
  PROVE /\ h.config \in Configurations /\ h.metadata \in Nat \ {0}
        /\ h.done \in Seq(ShardCommands) /\ Len(h.done) \in Nat
        /\ h = [config |-> h.config, metadata |-> h.metadata, done |-> h.done]
        /\ h.config.definition \in Definitions /\ h.config.profiles \in Seq(Profiles)
        /\ Len(h.config.profiles) \in Nat
        /\ h.config = [definition |-> h.config.definition, profiles |-> h.config.profiles]
  <1>1. /\ h.config \in Configurations /\ h.metadata \in Nat \ {0}
        /\ h.done \in Seq(ShardCommands)
        /\ h = [config |-> h.config, metadata |-> h.metadata, done |-> h.done]
    BY DEF Histories
  <1>2. /\ h.config.definition \in Definitions /\ h.config.profiles \in Seq(Profiles)
        /\ h.config = [definition |-> h.config.definition, profiles |-> h.config.profiles]
    BY <1>1 DEF Configurations
  <1> QED
    BY <1>1, <1>2, LenProperties

LEMMA CheckpointTypes ==
  ASSUME NEW checkpoint \in Checkpoints
  PROVE /\ checkpoint.first \in Nat /\ checkpoint.metadata \in Nat /\ checkpoint.generation \in Nat
        /\ checkpoint.config \in Configurations
        /\ checkpoint.done \in Seq(ShardCommands) /\ Len(checkpoint.done) \in Nat
  BY LenProperties DEF Checkpoints

\* One history goes on where another ends.
GoesOn(h, next) ==
    /\ next \in Histories /\ next.config = h.config /\ next.metadata = h.metadata
    /\ Len(h.done) <= Len(next.done)
    /\ h.done = SubSeq(next.done, 1, Len(h.done))

LEMMA BegunLater ==
  ASSUME NEW checkpoint, NEW h \in Histories, NEW next, Begun(checkpoint, h), GoesOn(h, next)
  PROVE Begun(checkpoint, next)
  <1> DEFINE n == Len(h.done)
             m == Len(checkpoint.done)
  <1>1. /\ m \in Nat /\ n \in Nat /\ m <= n /\ n <= Len(next.done) /\ Len(next.done) \in Nat
        /\ next.done \in Seq(ShardCommands)
        /\ checkpoint.done = SubSeq(h.done, 1, m) /\ h.done = SubSeq(next.done, 1, n)
    BY CheckpointTypes, HistoryTypes DEF Begun, GoesOn
  <1> HIDE DEF n, m
  <1>2. SubSeq(SubSeq(next.done, 1, n), 1, m) = SubSeq(next.done, 1, m)
    BY <1>1, BeginningOfBeginning
  <1>3. checkpoint.done = SubSeq(next.done, 1, m) /\ m <= Len(next.done)
    BY <1>1, <1>2
  <1> QED
    BY <1>3 DEF Begun, GoesOn, m

LEMMA HistoryGoesOn ==
  ASSUME NEW h \in Histories
  PROVE GoesOn(h, h)
  <1>1. h.done \in Seq(ShardCommands) /\ Len(h.done) \in Nat
    BY HistoryTypes
  <1>2. SubSeq(h.done, 1, Len(h.done)) = h.done
    BY <1>1, SubSeqFull
  <1> QED
    BY <1>1, <1>2 DEF GoesOn

LEMMA WithGoesOn ==
  ASSUME NEW h \in Histories, NEW c \in ShardCommands
  PROVE /\ GoesOn(h, With(h, c))
        /\ With(h, c).config = h.config /\ With(h, c).metadata = h.metadata
        /\ With(h, c).done = Append(h.done, c)
  <1>1. /\ Append(h.done, c) \in Seq(ShardCommands) /\ Len(Append(h.done, c)) = Len(h.done) + 1
        /\ SubSeq(Append(h.done, c), 1, Len(h.done)) = SubSeq(h.done, 1, Len(h.done))
    <2>1. h.done \in Seq(ShardCommands) /\ Len(h.done) \in Nat
      BY HistoryTypes
    <2>2. Len(h.done) \in 0 .. Len(h.done)
      BY <2>1
    <2> QED
      BY <2>1, <2>2, LongerBeginning
  <1>2. SubSeq(h.done, 1, Len(h.done)) = h.done
    BY HistoryTypes, SubSeqFull
  <1>3. With(h, c) \in Histories
    BY <1>1, HistoryTypes DEF With, Histories
  <1> QED
    BY <1>1, <1>2, <1>3, HistoryTypes DEF GoesOn, With

LEMMA ToldEnds ==
  ASSUME NEW log, NEW h, Tells(log, h)
  PROVE /\ log.first \in Nat \ {0} /\ LastSequence(log) \in Nat /\ Len(log.bodies) \in Nat \ {0}
        /\ LastSequence(log) = log.first + Len(log.bodies) - 1
        /\ log.first <= LastSequence(log) /\ h.metadata <= LastSequence(log)
        /\ h.done # <<>> => Len(h.done) \in Nat \ {0}
  <1>1. log.bodies # <<>> /\ log.bodies \in Seq(Bodies)
    BY LogTypes DEF Tells
  <1>2. Len(log.bodies) \in Nat \ {0}
    BY <1>1, EmptySeq
  <1>3. log.first \in Nat \ {0} /\ LastSequence(log) = log.first + Len(log.bodies) - 1
    BY LogTypes DEF Tells
  <1>4. LastSequence(log) \in Nat /\ log.first <= LastSequence(log)
    BY <1>2, <1>3
  <1>5. Len(h.done) \in Nat /\ h.metadata \in Nat /\ (h.done # <<>> => Len(h.done) \in Nat \ {0})
    BY HistoryTypes, EmptySeq DEF Tells
  <1>6. h.metadata <= LastSequence(log)
    BY <1>4, <1>5 DEF Tells, Whole, Dangling
  <1> QED
    BY <1>2, <1>3, <1>4, <1>5, <1>6

\* What a log tells does not change when a body is written behind it.
LEMMA HeadTold ==
  ASSUME NEW log, NEW h, Tells(log, h), NEW body \in Bodies, NEW next, GoesOn(h, next)
  PROVE LET longer == Extended(log, <<body>>) IN
        /\ longer.bodies[1] = log.bodies[1]
        /\ MetadataTold(longer, next) \/ AnchorTold(longer, next)
  <1> DEFINE longer == Extended(log, <<body>>)
  <1>1. /\ longer \in Logs /\ longer.first = log.first
        /\ \A i \in 1 .. Len(log.bodies) : longer.bodies[i] = log.bodies[i]
    BY ExtendedLog DEF Tells
  <1>2. Len(log.bodies) \in Nat \ {0} /\ LastSequence(log) = log.first + Len(log.bodies) - 1
        /\ h.metadata <= LastSequence(log) /\ log.first \in Nat
    BY ToldEnds
  <1> HIDE DEF longer
  <1>3. longer.bodies[1] = log.bodies[1]
    BY <1>1, <1>2
  <1>4. CASE MetadataTold(log, h)
    <2>1. /\ log.first = 1 /\ h.metadata = 1 + Len(h.config.profiles)
          /\ Len(h.config.profiles) \in Nat
      BY <1>4, HistoryTypes DEF MetadataTold, Tells
    <2>2. 1 + Len(h.config.profiles) <= Len(log.bodies)
      BY <1>2, <2>1
    <2>3. \A i \in 1 .. Len(h.config.profiles) : longer.bodies[i + 1] = log.bodies[i + 1]
      BY <1>1, <1>2, <2>1, <2>2
    <2> QED
      BY <1>1, <1>3, <1>4, <2>1, <2>3 DEF MetadataTold, GoesOn, longer
  <1>5. CASE AnchorTold(log, h)
    <2>1. h \in Histories
      BY DEF Tells
    <2>2. Begun(log.bodies[1].sum, next)
      BY <1>5, <2>1, BegunLater DEF AnchorTold
    <2> QED
      BY <1>1, <1>3, <1>5, <2>2 DEF AnchorTold, longer
  <1> QED
    BY <1>3, <1>4, <1>5 DEF Tells, longer

\* A command is logged behind reported ones.
LEMMA CommandTold ==
  ASSUME NEW log, NEW h, Tells(log, h), Whole(log, h), NEW c \in ShardCommands,
         \A i \in 1 .. Len(h.done) : h.done[i] # c
  PROVE LET longer == Extended(log, <<CommandFrame(c)>>) IN
        Tells(longer, With(h, c)) /\ Dangling(longer, With(h, c))
  <1> DEFINE body == CommandFrame(c)
             longer == Extended(log, <<body>>)
             next == With(h, c)
             n == Len(h.done)
             end == LastSequence(log)
  <1>1. log \in Logs /\ h \in Histories /\ body \in Bodies
    BY FrameTypes DEF Tells
  <1>2. /\ GoesOn(h, next) /\ next \in Histories
        /\ next.config = h.config /\ next.metadata = h.metadata /\ next.done = Append(h.done, c)
    BY <1>1, WithGoesOn DEF GoesOn
  <1>3. /\ n \in Nat /\ end \in Nat /\ end = h.metadata + 2 * n /\ h.metadata \in Nat
        /\ log.first \in Nat /\ log.first <= end
    BY <1>1, HistoryTypes, ToldEnds DEF Whole
  <1>4. /\ longer \in Logs /\ longer.first = log.first /\ longer.bodies # <<>>
        /\ LastSequence(longer) = end + 1
    BY <1>1, ExtendedLog
  <1>5. /\ \A s \in log.first .. end : FrameAt(longer, s) = FrameAt(log, s)
        /\ FrameAt(longer, end + 1) = body
    BY <1>1, ExtendedFrames
  <1>6. MetadataTold(longer, next) \/ AnchorTold(longer, next)
    BY <1>1, <1>2, HeadTold
  <1>7. /\ Len(next.done) = n + 1 /\ next.done[n + 1] = c
        /\ \A i \in 1 .. n : next.done[i] = h.done[i]
        /\ \A i \in 0 .. n : SubSeq(next.done, 1, i) = SubSeq(h.done, 1, i)
    BY <1>1, <1>2, <1>3, HistoryTypes, LongerBeginning
  <1> HIDE DEF longer, next, n, end, body
  <1>8. CommandsTold(longer, next)
    <2> SUFFICES ASSUME NEW i \in 1 .. Len(next.done), longer.first < CommandAt(next, i)
                 PROVE FrameAt(longer, CommandAt(next, i)) = CommandFrame(next.done[i])
      BY DEF CommandsTold
    <2>1. CommandAt(next, i) = CommandAt(h, i) /\ CommandAt(h, i) = h.metadata + 2 * i - 1
      BY <1>2 DEF CommandAt
    <2>2. CASE i = n + 1
      <3>1. CommandAt(next, i) = end + 1
        BY <1>3, <2>1, <2>2
      <3> QED
        BY <1>5, <1>7, <2>2, <3>1 DEF body
    <2>3. CASE i \in 1 .. n
      <3>1. CommandAt(h, i) \in log.first .. end
        BY <1>3, <1>4, <2>1, <2>3
      <3>2. FrameAt(log, CommandAt(h, i)) = CommandFrame(h.done[i])
        BY <1>4, <2>1, <2>3 DEF Tells, CommandsTold, n
      <3> QED
        BY <1>5, <1>7, <2>1, <2>3, <3>1, <3>2
    <2> QED
      BY <1>3, <1>7, <2>2, <2>3
  <1>9. ReportsTold(longer, next)
    <2> SUFFICES ASSUME NEW i \in 1 .. Len(next.done), longer.first < ReportAt(next, i),
                        ReportAt(next, i) <= LastSequence(longer)
                 PROVE FrameAt(longer, ReportAt(next, i)) = ReportFrame(ReportOf(next, i))
      BY DEF ReportsTold
    <2>1. ReportAt(next, i) = ReportAt(h, i) /\ ReportAt(h, i) = h.metadata + 2 * i
      BY <1>2 DEF ReportAt
    <2>2. i \in 1 .. n
      BY <1>3, <1>4, <1>7, <2>1
    <2>3. ReportAt(h, i) \in log.first .. end
      BY <1>3, <1>4, <2>1, <2>2
    <2>4. FrameAt(log, ReportAt(h, i)) = ReportFrame(ReportOf(h, i))
      BY <1>3, <1>4, <2>1, <2>2, <2>3 DEF Tells, ReportsTold, n, end
    <2>5. ReportOf(next, i) = ReportOf(h, i)
      <3>1. i - 1 \in 0 .. n
        BY <1>3, <2>2
      <3> QED
        BY <1>2, <1>7, <2>2, <3>1 DEF ReportOf
    <2> QED
      BY <1>5, <2>1, <2>3, <2>4, <2>5
  <1>10. Once(next.done)
    <2> SUFFICES ASSUME NEW i \in 1 .. n + 1, NEW j \in 1 .. n + 1, next.done[i] = next.done[j]
                 PROVE i = j
      BY <1>7 DEF Once
    <2>1. \A k \in 1 .. n : next.done[k] # c
      BY <1>7 DEF n
    <2>2. CASE i = n + 1 \/ j = n + 1
      BY <1>3, <1>7, <2>1, <2>2
    <2>3. CASE i \in 1 .. n /\ j \in 1 .. n
      BY <1>7, <2>3 DEF Tells, Once, n
    <2> QED
      BY <1>3, <2>2, <2>3
  <1>11. Dangling(longer, next)
    <2>1. next.done # <<>>
      BY <1>3, <1>7, EmptySeq
    <2>2. end + 1 = h.metadata + 2 * (n + 1) - 1
      BY <1>3
    <2> QED
      BY <1>2, <1>4, <1>7, <2>1, <2>2 DEF Dangling
  <1> QED
    BY <1>2, <1>4, <1>6, <1>8, <1>9, <1>10, <1>11 DEF Tells, longer, next, body

\* The report of the last command is logged behind it.
LEMMA ReportTold ==
  ASSUME NEW log, NEW h, Tells(log, h), Dangling(log, h)
  PROVE LET longer == Extended(log, <<ReportFrame(ReportOf(h, Len(h.done)))>>) IN
        Tells(longer, h) /\ Whole(longer, h)
  <1> DEFINE n == Len(h.done)
             body == ReportFrame(ReportOf(h, n))
             longer == Extended(log, <<body>>)
             end == LastSequence(log)
  <1>1. log \in Logs /\ h \in Histories /\ h.done \in Seq(ShardCommands)
    BY HistoryTypes DEF Tells
  <1>2. /\ n \in Nat \ {0} /\ end \in Nat /\ end = h.metadata + 2 * n - 1 /\ h.metadata \in Nat
        /\ log.first \in Nat /\ log.first <= end
    BY <1>1, HistoryTypes, ToldEnds DEF Dangling
  <1>3. body \in Bodies
    <2>1. n - 1 \in 0 .. n /\ n \in 1 .. n
      BY <1>2
    <2>2. SubSeq(h.done, 1, n - 1) \in Seq(ShardCommands) /\ h.done[n] \in ShardCommands
      BY <1>1, <2>1, Beginning, ElementOfSeq
    <2> QED
      BY <1>1, <2>2, HistoryTypes, ReportTypes, FrameTypes DEF ReportOf
  <1>4. /\ longer \in Logs /\ longer.first = log.first /\ longer.bodies # <<>>
        /\ LastSequence(longer) = end + 1
    BY <1>1, <1>3, ExtendedLog
  <1>5. /\ \A s \in log.first .. end : FrameAt(longer, s) = FrameAt(log, s)
        /\ FrameAt(longer, end + 1) = body
    BY <1>1, <1>3, ExtendedFrames
  <1>6. MetadataTold(longer, h) \/ AnchorTold(longer, h)
    <2>1. SubSeq(h.done, 1, n) = h.done
      BY <1>1, SubSeqFull
    <2>2. GoesOn(h, h)
      BY <1>1, <1>2, <2>1 DEF GoesOn
    <2> QED
      BY <1>1, <1>3, <2>2, HeadTold
  <1> HIDE DEF longer, n, end, body
  <1>7. CommandsTold(longer, h)
    <2> SUFFICES ASSUME NEW i \in 1 .. Len(h.done), longer.first < CommandAt(h, i)
                 PROVE FrameAt(longer, CommandAt(h, i)) = CommandFrame(h.done[i])
      BY DEF CommandsTold
    <2>1. CommandAt(h, i) \in log.first .. end
      BY <1>2, <1>4 DEF CommandAt, n
    <2>2. FrameAt(log, CommandAt(h, i)) = CommandFrame(h.done[i])
      BY <1>4 DEF Tells, CommandsTold
    <2> QED
      BY <1>5, <2>1, <2>2
  <1>8. ReportsTold(longer, h)
    <2> SUFFICES ASSUME NEW i \in 1 .. Len(h.done), longer.first < ReportAt(h, i),
                        ReportAt(h, i) <= LastSequence(longer)
                 PROVE FrameAt(longer, ReportAt(h, i)) = ReportFrame(ReportOf(h, i))
      BY DEF ReportsTold
    <2>1. ReportAt(h, i) = h.metadata + 2 * i /\ i \in 1 .. n
      BY DEF ReportAt, n
    <2>2. CASE i = n
      <3>1. ReportAt(h, i) = end + 1
        BY <1>2, <2>1, <2>2
      <3> QED
        BY <1>5, <2>2, <3>1 DEF body
    <2>3. CASE i # n
      <3>1. ReportAt(h, i) \in log.first .. end
        BY <1>2, <1>4, <2>1, <2>3
      <3>2. FrameAt(log, ReportAt(h, i)) = ReportFrame(ReportOf(h, i))
        BY <1>2, <1>4, <2>1, <3>1 DEF Tells, ReportsTold, n, end
      <3> QED
        BY <1>5, <3>1, <3>2
    <2> QED
      BY <2>2, <2>3
  <1>9. Whole(longer, h)
    BY <1>2, <1>4 DEF Whole, n
  <1> QED
    BY <1>1, <1>4, <1>6, <1>7, <1>8, <1>9 DEF Tells, longer, body, n

CutAnchor(s, checkpoint) ==
    AnchorTo(s, checkpoint, checkpoint.generation, checkpoint.generation)
CutTo(log, s, checkpoint) == Replaced(log, checkpoint.generation, CutAnchor(s, checkpoint))


\* A cutover to a checkpoint of the history leaves the history.
LEMMA CutOverTold ==
  ASSUME NEW log, NEW h, Tells(log, h), NEW s \in Slots, NEW checkpoint, Begun(checkpoint, h),
         log.first <= checkpoint.generation, checkpoint.generation <= LastSequence(log)
  PROVE /\ Tells(CutTo(log, s, checkpoint), h)
        /\ LastSequence(CutTo(log, s, checkpoint)) = LastSequence(log)
        /\ CutTo(log, s, checkpoint).bodies[1] = CutAnchor(s, checkpoint)
        /\ PartsOf(log, CutTo(log, s, checkpoint)) = {log, CutTo(log, s, checkpoint)}
  <1> DEFINE at == checkpoint.generation
             anchor == AnchorTo(s, checkpoint, at, at)
             replaced == Replaced(log, at, anchor)
             end == LastSequence(log)
  <1>1. /\ log \in Logs /\ h \in Histories /\ checkpoint \in Checkpoints
        /\ at \in log.first .. end /\ at \in Nat
    <2>1. checkpoint \in Checkpoints /\ at \in Nat
      BY CheckpointTypes DEF Begun
    <2> QED
      BY <2>1, ToldEnds DEF Tells
  <1>2. /\ anchor \in Bodies /\ IsAnchor(anchor)
        /\ anchor.anchor = s /\ anchor.sum = checkpoint
    BY <1>1, AnchorTypes
  <1>3. /\ replaced \in Logs /\ replaced.first = at /\ replaced.bodies # <<>>
        /\ LastSequence(replaced) = end
        /\ replaced.bodies[1] = anchor
        /\ \A q \in at + 1 .. end : FrameAt(replaced, q) = FrameAt(log, q)
    BY <1>1, <1>2, ReplacedLog
  <1>4. PartsOf(log, replaced) = {log, replaced}
    BY <1>1, <1>2, ReplacedParts
  <1>5. AnchorTold(replaced, h)
    BY <1>2, <1>3 DEF AnchorTold
  <1>6. /\ end \in Nat /\ log.first \in Nat /\ h.metadata \in Nat /\ Len(h.done) \in Nat
        /\ end = h.metadata + 2 * Len(h.done) \/ end = h.metadata + 2 * Len(h.done) - 1
    BY <1>1, ToldEnds, HistoryTypes DEF Tells, Whole, Dangling
  <1> HIDE DEF replaced, anchor, at, end
  <1>7. CommandsTold(replaced, h)
    <2> SUFFICES ASSUME NEW i \in 1 .. Len(h.done), replaced.first < CommandAt(h, i)
                 PROVE FrameAt(replaced, CommandAt(h, i)) = CommandFrame(h.done[i])
      BY DEF CommandsTold
    <2>1. CommandAt(h, i) \in at + 1 .. end /\ log.first < CommandAt(h, i)
      BY <1>1, <1>3, <1>6 DEF CommandAt
    <2>2. FrameAt(log, CommandAt(h, i)) = CommandFrame(h.done[i])
      BY <2>1 DEF Tells, CommandsTold
    <2> QED
      BY <1>3, <2>1, <2>2
  <1>8. ReportsTold(replaced, h)
    <2> SUFFICES ASSUME NEW i \in 1 .. Len(h.done), replaced.first < ReportAt(h, i),
                        ReportAt(h, i) <= LastSequence(replaced)
                 PROVE FrameAt(replaced, ReportAt(h, i)) = ReportFrame(ReportOf(h, i))
      BY DEF ReportsTold
    <2>1. ReportAt(h, i) \in at + 1 .. end /\ log.first < ReportAt(h, i)
      BY <1>1, <1>3, <1>6 DEF ReportAt
    <2>2. FrameAt(log, ReportAt(h, i)) = ReportFrame(ReportOf(h, i))
      BY <2>1 DEF Tells, ReportsTold, end
    <2> QED
      BY <1>3, <2>1, <2>2
  <1>9. Tells(replaced, h)
    BY <1>3, <1>5, <1>7, <1>8 DEF Tells, Whole, Dangling, end
  <1> QED
    BY <1>3, <1>4, <1>9 DEF replaced, anchor, at, end, CutTo, CutAnchor

\* The first body of a log is a definition.
LEMMA DefinitionTold ==
  ASSUME NEW d \in Definitions
  PROVE LET log == Extended(EmptyLog, <<DefinitionFrame(d)>>)
            h == [config |-> [definition |-> d, profiles |-> <<>>], metadata |-> 1, done |-> <<>>]
        IN Tells(log, h) /\ ~IsAnchor(log.bodies[1])
  <1> DEFINE body == DefinitionFrame(d)
             log == Extended(EmptyLog, <<body>>)
             h == [config |-> [definition |-> d, profiles |-> <<>>], metadata |-> 1, done |-> <<>>]
  <1>1. EmptyLog \in Logs /\ EmptyLog.first = 1 /\ EmptyLog.bodies = <<>> /\ Len(EmptyLog.bodies) = 0
    BY DEF EmptyLog, Logs, LogsOf
  <1>2. body \in Bodies /\ ~IsAnchor(body)
    BY FrameTypes, FrameKinds
  <1>3. LastSequence(EmptyLog) = 0
    BY DEF EmptyLog, LastSequence
  <1>4. /\ log \in Logs /\ log.first = 1 /\ log.bodies # <<>> /\ LastSequence(log) = 0 + 1
        /\ log.bodies[0 + 1] = body
    BY <1>1, <1>2, <1>3, ExtendedLog
  <1>5. /\ h \in Histories /\ h.metadata = 1 /\ h.done = <<>>
        /\ h.config.profiles = <<>> /\ h.config.definition = d
        /\ Len(h.done) = 0 /\ Len(h.config.profiles) = 0
    BY DEF Histories, Configurations
  <1> HIDE DEF log, h, body
  <1>6. MetadataTold(log, h)
    BY <1>4, <1>5 DEF MetadataTold, body
  <1>7. Whole(log, h) /\ CommandsTold(log, h) /\ ReportsTold(log, h) /\ Once(h.done)
    BY <1>4, <1>5 DEF Whole, CommandsTold, ReportsTold, Once
  <1>8. Tells(log, h) /\ ~IsAnchor(log.bodies[1])
    BY <1>2, <1>4, <1>5, <1>6, <1>7 DEF Tells
  <1> QED
    BY <1>8 DEF log, h, body

\* Profiles are written behind the definition while nothing else is.
WithProfile(h, p) ==
    [config |-> [definition |-> h.config.definition, profiles |-> Append(h.config.profiles, p)],
     metadata |-> h.metadata + 1, done |-> <<>>]

LEMMA ProfileTold ==
  ASSUME NEW log, NEW h, Tells(log, h), ~IsAnchor(log.bodies[1]), h.done = <<>>,
         NEW p \in Profiles
  PROVE LET longer == Extended(log, <<ProfileFrame(p)>>) IN
        Tells(longer, WithProfile(h, p)) /\ ~IsAnchor(longer.bodies[1])
  <1> DEFINE body == ProfileFrame(p)
             longer == Extended(log, <<body>>)
             next == WithProfile(h, p)
             k == Len(h.config.profiles)
             more == Append(h.config.profiles, p)
  <1>1. log \in Logs /\ h \in Histories /\ body \in Bodies
    BY FrameTypes DEF Tells
  <1>2. MetadataTold(log, h)
    BY DEF Tells, AnchorTold
  <1>3. /\ k \in Nat /\ h.metadata = 1 + k /\ log.first = 1 /\ Len(h.done) = 0
        /\ LastSequence(log) = 1 + k /\ Len(log.bodies) = 1 + k
    <2>1. k \in Nat /\ h.metadata = 1 + k /\ log.first = 1 /\ Len(h.done) = 0
      BY <1>1, <1>2, HistoryTypes DEF MetadataTold
    <2>2. LastSequence(log) = 1 + k
      BY <2>1 DEF Tells, Whole, Dangling
    <2> QED
      BY <2>1, <2>2, ToldEnds
  <1>4. /\ longer \in Logs /\ longer.first = log.first /\ longer.bodies # <<>>
        /\ LastSequence(longer) = LastSequence(log) + 1
        /\ \A i \in 1 .. Len(log.bodies) : longer.bodies[i] = log.bodies[i]
        /\ longer.bodies[Len(log.bodies) + 1] = body
    BY <1>1, ExtendedLog
  <1>5. /\ more \in Seq(Profiles) /\ Len(more) = k + 1 /\ more[k + 1] = p
        /\ \A i \in 1 .. k : more[i] = h.config.profiles[i]
    <2>1. h.config.profiles \in Seq(Profiles)
      BY <1>1, HistoryTypes
    <2> QED
      BY <2>1, AppendProperties
  <1> HIDE DEF more
  <1>6. /\ next \in Histories /\ next.metadata = 2 + k /\ next.done = <<>> /\ Len(next.done) = 0
        /\ next.config.profiles = more /\ next.config.definition = h.config.definition
    <2>1. next = [config |-> [definition |-> h.config.definition, profiles |-> more],
                  metadata |-> h.metadata + 1, done |-> <<>>]
      BY DEF WithProfile, more
    <2>2. h.config.definition \in Definitions
      BY <1>1, HistoryTypes
    <2> QED
      BY <1>3, <1>5, <2>1, <2>2 DEF Histories, Configurations
  <1> HIDE DEF longer, next, k, body
  <1>7. longer.bodies[1] = log.bodies[1]
    BY <1>3, <1>4
  <1>8. MetadataTold(longer, next)
    <2>1. longer.first = 1 /\ next.metadata = 1 + Len(more)
      BY <1>3, <1>4, <1>5, <1>6
    <2>2. ASSUME NEW i \in 1 .. Len(more) PROVE longer.bodies[i + 1] = ProfileFrame(more[i])
      <3>1. CASE i = k + 1
        BY <1>3, <1>4, <1>5, <3>1 DEF body
      <3>2. CASE i \in 1 .. k
        <4>1. log.bodies[i + 1] = ProfileFrame(h.config.profiles[i])
          BY <1>2, <3>2 DEF MetadataTold, k
        <4>2. i + 1 \in 1 .. Len(log.bodies)
          BY <1>3, <3>2
        <4> QED
          BY <1>4, <1>5, <3>2, <4>1, <4>2
      <3> QED
        BY <1>3, <1>5, <3>1, <3>2
    <2> QED
      BY <1>2, <1>6, <1>7, <2>1, <2>2 DEF MetadataTold
  <1>9. Whole(longer, next) /\ CommandsTold(longer, next) /\ ReportsTold(longer, next) /\ Once(next.done)
    BY <1>3, <1>4, <1>6 DEF Whole, CommandsTold, ReportsTold, Once
  <1>10. Tells(longer, next) /\ ~IsAnchor(longer.bodies[1])
    BY <1>4, <1>6, <1>7, <1>8, <1>9 DEF Tells
  <1> QED
    BY <1>10 DEF longer, next, body

----------------------------------------------------------------------------
(* What is read back from a log *)

LEMMA ProfilesFound ==
  ASSUME NEW log, NEW h, Tells(log, h), ~IsAnchor(log.bodies[1])
  PROVE /\ MetadataTold(log, h)
        /\ ProfileCount(log) = Len(h.config.profiles)
        /\ PersistedProfiles(log) = h.config.profiles
        /\ Len(log.bodies) = LastSequence(log)
        /\ HasData(log) <=> h.done # <<>>
        /\ EndsProfiles(log, Len(h.config.profiles))
        /\ \A n \in 0 .. Len(log.bodies) - 1 :
             EndsProfiles(log, n) => n = Len(h.config.profiles)
  <1> DEFINE k == Len(h.config.profiles)
             N == 0 .. Len(log.bodies) - 1
  <1>1. MetadataTold(log, h) /\ h \in Histories
    BY DEF Tells, AnchorTold
  <1>2. /\ k \in Nat /\ h.metadata = 1 + k /\ log.first = 1
        /\ LastSequence(log) = Len(log.bodies) /\ Len(log.bodies) \in Nat \ {0}
        /\ 1 + k <= Len(log.bodies) /\ Len(h.done) \in Nat
    <2>1. k \in Nat /\ h.metadata = 1 + k /\ log.first = 1 /\ Len(h.done) \in Nat
      BY <1>1, HistoryTypes DEF MetadataTold
    <2> QED
      BY <2>1, ToldEnds
  <1>3. h.done = <<>> <=> Len(h.done) = 0
    BY <1>1, HistoryTypes, EmptySeq
  <1>4. k + 1 < Len(log.bodies) <=> h.done # <<>>
    <2> DEFINE n == Len(h.done)
    <2>1. \/ Len(log.bodies) = h.metadata + 2 * n
          \/ n # 0 /\ Len(log.bodies) = h.metadata + 2 * n - 1
      BY <1>2, <1>3 DEF Tells, Whole, Dangling
    <2> HIDE DEF n, k
    <2>2. k + 1 < Len(log.bodies) <=> n # 0
      <3>1. n \in Nat
        BY <1>2 DEF n
      <3> QED
        BY <1>2, <2>1, <3>1
    <2> QED
      BY <1>3, <2>2 DEF n
  <1>5. \A i \in 1 .. k : log.bodies[i + 1] = ProfileFrame(h.config.profiles[i])
    BY <1>1 DEF MetadataTold
  <1> HIDE DEF k
  <1>6. EndsProfiles(log, k)
    <2>1. \A i \in 1 .. k : IsProfile(log.bodies[i + 1])
      BY <1>5, FrameKinds
    <2>2. ASSUME k + 1 < Len(log.bodies) PROVE ~IsProfile(log.bodies[k + 2])
      <3>1. 1 \in 1 .. Len(h.done)
        BY <1>2, <1>3, <1>4, <2>2
      <3>2. CommandAt(h, 1) = k + 2
        BY <1>2 DEF CommandAt
      <3>3. FrameAt(log, k + 2) = CommandFrame(h.done[1])
        BY <1>2, <3>1, <3>2 DEF Tells, CommandsTold
      <3>4. FrameAt(log, k + 2) = log.bodies[k + 2]
        BY <1>2 DEF FrameAt
      <3> QED
        BY <3>3, <3>4, FrameKinds
    <2> QED
      BY <2>1, <2>2 DEF EndsProfiles
  <1>7. k \in N
    BY <1>2
  <1>8. ASSUME NEW n \in N, EndsProfiles(log, n) PROVE n = k
    <2>1. CASE n < k
      <3>1. ~IsProfile(log.bodies[n + 2])
        BY <1>2, <1>8, <2>1 DEF EndsProfiles
      <3>2. n + 1 \in 1 .. k /\ (n + 1) + 1 = n + 2
        BY <1>2, <2>1
      <3>3. IsProfile(log.bodies[(n + 1) + 1])
        BY <1>6, <3>2 DEF EndsProfiles
      <3> QED
        BY <3>1, <3>2, <3>3
    <2>2. CASE k < n
      <3>1. ~IsProfile(log.bodies[k + 2])
        BY <1>2, <1>6, <2>2 DEF EndsProfiles
      <3>2. k + 1 \in 1 .. n /\ (k + 1) + 1 = k + 2
        BY <1>2, <2>2
      <3>3. IsProfile(log.bodies[(k + 1) + 1])
        BY <1>8, <3>2 DEF EndsProfiles
      <3> QED
        BY <3>1, <3>2, <3>3
    <2> QED
      BY <1>2, <2>1, <2>2
  <1>9. ProfileCount(log) = k
    BY <1>6, <1>7, <1>8 DEF ProfileCount
  <1>10. PersistedProfiles(log) = h.config.profiles
    <2>1. h.config.profiles \in [1 .. k -> Profiles]
      BY <1>1, HistoryTypes, LenProperties DEF k
    <2>2. PersistedProfiles(log) = [i \in 1 .. k |-> log.bodies[i + 1].value]
      BY <1>9 DEF PersistedProfiles
    <2>3. ASSUME NEW i \in 1 .. k PROVE log.bodies[i + 1].value = h.config.profiles[i]
      <3>1. log.bodies[i + 1] = ProfileFrame(h.config.profiles[i])
        BY <1>5
      <3> QED
        BY <3>1 DEF ProfileFrame
    <2> QED
      BY <2>1, <2>2, <2>3
  <1> QED
    BY <1>1, <1>2, <1>4, <1>6, <1>8, <1>9, <1>10 DEF HasData, k

\* A profile that is missing can be written.
LEMMA ProfileLacking ==
  ASSUME NEW log, NEW h, Tells(log, h), NEW config \in Configurations, LacksProfiles(log, config)
  PROVE /\ ~IsAnchor(log.bodies[1]) /\ h.done = <<>>
        /\ config.profiles # <<>>
        /\ config.profiles[Len(PersistedProfiles(log)) + 1] \in Profiles
  <1>1. /\ ~IsAnchor(log.bodies[1]) /\ ~HasData(log)
        /\ IsStrictPrefix(PersistedProfiles(log), config.profiles)
    BY DEF LacksProfiles
  <1>2. h.done = <<>> /\ PersistedProfiles(log) = h.config.profiles
    BY <1>1, ProfilesFound
  <1> DEFINE s == h.config.profiles
             t == config.profiles
  <1>3. s \in Seq(Profiles) /\ t \in Seq(Profiles)
    BY HistoryTypes DEF Tells, Configurations
  <1>4. Len(s) <= Len(t) /\ SubSeq(s, 1, Len(s)) = SubSeq(t, 1, Len(s)) /\ s # t
    BY <1>1, <1>2 DEF IsStrictPrefix, IsPrefix
  <1> HIDE DEF s, t
  <1>5. Len(s) # Len(t)
    BY <1>3, <1>4, SubSeqFull
  <1>6. Len(s) \in Nat /\ Len(t) \in Nat /\ Len(s) + 1 \in 1 .. Len(t)
    BY <1>3, <1>4, <1>5, LenProperties
  <1>7. t[Len(s) + 1] \in Profiles /\ t # <<>>
    BY <1>3, <1>6, ElementOfSeq, EmptySeq
  <1> QED
    BY <1>1, <1>2, <1>7 DEF s, t

\* Two configurations with equal fields are one.
LEMMA SameConfiguration ==
  ASSUME NEW a \in Configurations, NEW b \in Configurations,
         a.definition = b.definition, a.profiles = b.profiles
  PROVE a = b
  BY DEF Configurations

LEMMA HeadIsDefinition ==
  ASSUME NEW log, NEW h, Tells(log, h)
  PROVE /\ ~IsAnchor(log.bodies[1]) =>
             /\ log.bodies[1].kind = "definition" /\ log.bodies[1].value = h.config.definition
        /\ IsAnchor(log.bodies[1]) <=> AnchorTold(log, h)
  <1>1. MetadataTold(log, h) =>
           /\ ~IsAnchor(log.bodies[1])
           /\ log.bodies[1].kind = "definition" /\ log.bodies[1].value = h.config.definition
    BY FrameKinds DEF MetadataTold, DefinitionFrame
  <1> QED
    BY <1>1 DEF Tells, AnchorTold

\* Commands and reports in turn: the commands are every other frame.
LEMMA CommandsRead ==
  ASSUME NEW frames \in Seq(Bodies), NEW done \in Seq(ShardCommands),
         NEW j \in Nat, NEW m \in Nat, Len(done) = j + m,
         Len(frames) = 2 * m \/ (m # 0 /\ Len(frames) = 2 * m - 1),
         \A i \in 1 .. m : frames[2 * i - 1] = CommandFrame(done[j + i])
  PROVE SubSeq(done, 1, j) \o CommandsIn(frames) = done
  <1>1. (Len(frames) + 1) \div 2 = m
    <2>1. CASE Len(frames) = 2 * m
      <3>1. (2 * m + 1) \div 2 = m
        OBVIOUS
      <3> QED
        BY <2>1, <3>1
    <2>2. CASE Len(frames) = 2 * m - 1
      <3>1. Len(frames) + 1 = 2 * m
        BY <2>2
      <3>2. (2 * m) \div 2 = m
        OBVIOUS
      <3> QED
        BY <3>1, <3>2
    <2> QED
      BY <2>1, <2>2
  <1> DEFINE rest == SubSeq(done, j + 1, j + m)
  <1>2. \A i \in j + 1 .. j + m : done[i] \in ShardCommands
    BY ElementOfSeq
  <1>3. /\ rest \in Seq(ShardCommands) /\ Len(rest) = m
        /\ \A i \in 1 .. m : rest[i] = done[j + i]
    <2>1. /\ rest \in Seq(ShardCommands)
          /\ Len(rest) = IF j + 1 <= j + m THEN (j + m) - (j + 1) + 1 ELSE 0
          /\ \A i \in 1 .. (j + m) - (j + 1) + 1 : rest[i] = done[(j + 1) + i - 1]
      BY <1>2, SubSeqProperties
    <2> HIDE DEF rest
    <2>2. Len(rest) = m /\ \A i \in 1 .. m : rest[i] = done[j + i]
      <3>1. (j + m) - (j + 1) + 1 = m /\ \A i \in 1 .. m : (j + 1) + i - 1 = j + i
        OBVIOUS
      <3> QED
        BY <2>1, <3>1
    <2> QED
      BY <2>1, <2>2
  <1> HIDE DEF rest
  <1>4. CommandsIn(frames) = rest
    <2>1. CommandsIn(frames) = [i \in 1 .. m |-> frames[2 * i - 1].value]
      BY <1>1 DEF CommandsIn
    <2>2. ASSUME NEW i \in 1 .. m PROVE frames[2 * i - 1].value = rest[i]
      <3>1. frames[2 * i - 1] = CommandFrame(done[j + i])
        OBVIOUS
      <3> QED
        BY <1>3, <3>1 DEF CommandFrame
    <2>3. rest \in [1 .. m -> ShardCommands]
      BY <1>3, LenProperties
    <2> QED
      BY <2>1, <2>2, <2>3
  <1>5. SubSeq(done, 1, j) \o rest = SubSeq(done, 1, j + m)
    <2>1. 1 \in 1 .. Len(done) + 1 /\ j \in 1 - 1 .. Len(done) /\ j + m \in j .. Len(done)
      OBVIOUS
    <2> QED
      BY <2>1, ConcatAdjacentSubSeq DEF rest
  <1>6. SubSeq(done, 1, j + m) = done
    BY SubSeqFull
  <1> QED
    BY <1>4, <1>5, <1>6

\* The commands a log tells, whatever is in its slots.
CommandsOf(log) ==
    IF log.bodies = <<>> THEN <<>>
    ELSE IF IsAnchor(log.bodies[1]) THEN log.bodies[1].sum.done \o CommandsIn(Tail(log.bodies))
    ELSE CommandsIn(SubSeq(log.bodies, ProfileCount(log) + 2, Len(log.bodies)))

LEMMA CommandsTell ==
  ASSUME NEW log, NEW h, Tells(log, h)
  PROVE CommandsOf(log) = h.done
  <1> DEFINE n == Len(h.done)
             end == LastSequence(log)
  <1>1. /\ log.bodies # <<>> /\ log.bodies \in Seq(Bodies) /\ h \in Histories
    BY LogTypes DEF Tells
  <1>2. /\ n \in Nat /\ h.done \in Seq(ShardCommands) /\ end \in Nat /\ h.metadata \in Nat
        /\ Len(log.bodies) \in Nat \ {0} /\ log.first \in Nat
        /\ end = log.first + Len(log.bodies) - 1
    BY <1>1, HistoryTypes, ToldEnds
  <1>3. end = h.metadata + 2 * n \/ (n # 0 /\ end = h.metadata + 2 * n - 1)
    <2>1. h.done # <<>> => n # 0
      BY ToldEnds
    <2>2. Whole(log, h) \/ Dangling(log, h)
      BY DEF Tells
    <2>3. CASE Whole(log, h)
      BY <2>3 DEF Whole
    <2>4. CASE Dangling(log, h)
      BY <2>1, <2>4 DEF Dangling
    <2> QED
      BY <2>2, <2>3, <2>4
  <1>4. CASE ~IsAnchor(log.bodies[1])
    <2> DEFINE k == Len(h.config.profiles)
               frames == SubSeq(log.bodies, k + 2, Len(log.bodies))
    <2>1. /\ MetadataTold(log, h) /\ ProfileCount(log) = k
          /\ PersistedProfiles(log) = h.config.profiles
      BY <1>1, <1>4, ProfilesFound
    <2>2. k \in Nat /\ h.metadata = 1 + k /\ log.first = 1 /\ Len(log.bodies) = end
      BY <1>1, <1>2, <2>1, HistoryTypes DEF MetadataTold
    <2>4. CommandsOf(log) = CommandsIn(frames)
      BY <1>1, <1>4, <2>1 DEF CommandsOf
    <2> HIDE DEF k, n, end
    <2>5. \A i \in k + 2 .. end : log.bodies[i] \in Bodies
      BY <1>1, <2>2, ElementOfSeq
    <2>6. /\ frames \in Seq(Bodies)
          /\ Len(frames) = IF k + 2 <= end THEN end - (k + 2) + 1 ELSE 0
          /\ \A i \in 1 .. end - (k + 2) + 1 : frames[i] = log.bodies[(k + 2) + i - 1]
      <3> DEFINE b == log.bodies
      <3>1. /\ b \in Seq(Bodies) /\ Len(b) = end /\ k + 2 \in 1 .. Len(b) + 1
            /\ \A i \in k + 2 .. end : b[i] \in Bodies
        BY <1>1, <1>2, <1>3, <2>2, <2>5
      <3> HIDE DEF b
      <3> QED
        BY <3>1, SubSeqProperties DEF b
    <2> HIDE DEF frames
    <2>7. Len(frames) = 2 * n \/ (n # 0 /\ Len(frames) = 2 * n - 1)
      <3>1. end = 1 + k + 2 * n \/ (n # 0 /\ end = 1 + k + 2 * n - 1)
        BY <1>3, <2>2
      <3> DEFINE length == Len(frames)
      <3>4. length = IF k + 2 <= end THEN end - (k + 2) + 1 ELSE 0
        BY <2>6
      <3> HIDE DEF length
      <3>2. CASE end = 1 + k + 2 * n
        <4>1. length = 2 * n
          BY <1>2, <2>2, <3>2, <3>4
        <4> QED
          BY <4>1 DEF length
      <3>3. CASE n # 0 /\ end = 1 + k + 2 * n - 1
        <4>1. length = 2 * n - 1
          BY <1>2, <2>2, <3>3, <3>4
        <4> QED
          BY <3>3, <4>1 DEF length
      <3> QED
        BY <3>1, <3>2, <3>3
    <2>8. ASSUME NEW i \in 1 .. n PROVE frames[2 * i - 1] = CommandFrame(h.done[0 + i])
      <3>1. /\ 2 * i - 1 \in 1 .. end - (k + 2) + 1
            /\ (k + 2) + (2 * i - 1) - 1 = k + 2 * i
        BY <1>2, <1>3, <2>2
      <3>2. frames[2 * i - 1] = log.bodies[k + 2 * i]
        BY <2>6, <3>1
      <3>3. CommandAt(h, i) = k + 2 * i /\ log.first < CommandAt(h, i)
        BY <2>2 DEF CommandAt
      <3>4. FrameAt(log, k + 2 * i) = CommandFrame(h.done[i])
        BY <3>3 DEF Tells, CommandsTold, n
      <3>5. FrameAt(log, k + 2 * i) = log.bodies[k + 2 * i]
        BY <2>2 DEF FrameAt
      <3> QED
        BY <3>2, <3>4, <3>5
    <2>9. SubSeq(h.done, 1, 0) \o CommandsIn(frames) = h.done
      <3>1. 0 \in Nat /\ Len(h.done) = 0 + n
        BY <1>2 DEF n
      <3> QED
        BY <1>2, <2>6, <2>7, <2>8, <3>1, CommandsRead
    <2>10. SubSeq(h.done, 1, 0) = <<>>
      BY SubSeqEmpty
    <2>11. CommandsIn(frames) = h.done
      <3>1. CommandsIn(frames) \in Seq(ShardCommands)
        <4>1. (Len(frames) + 1) \div 2 = n
          <5>1. (2 * n + 1) \div 2 = n /\ (2 * n) \div 2 = n
            BY <1>2
          <5>2. Len(frames) + 1 = 2 * n + 1 \/ Len(frames) + 1 = 2 * n
            BY <1>2, <2>7
          <5> QED
            BY <5>1, <5>2
        <4>2. CommandsIn(frames) = [i \in 1 .. n |-> frames[2 * i - 1].value]
          BY <4>1 DEF CommandsIn
        <4>3. ASSUME NEW i \in 1 .. n PROVE frames[2 * i - 1].value \in ShardCommands
          <5>1. frames[2 * i - 1] = CommandFrame(h.done[i])
            BY <2>8
          <5>2. h.done[i] \in ShardCommands
            BY <1>2, ElementOfSeq DEF n
          <5> QED
            BY <5>1, <5>2 DEF CommandFrame
        <4> DEFINE commands == [i \in 1 .. n |-> frames[2 * i - 1].value]
        <4>4. commands \in Seq(ShardCommands)
          BY <1>2, <4>3, IsASeq
        <4> QED
          BY <4>2, <4>4
      <3> QED
        BY <2>9, <2>10, <3>1, ConcatEmptySeq
    <2> QED
      BY <2>4, <2>11
  <1>5. CASE IsAnchor(log.bodies[1])
    <2> DEFINE anchor == log.bodies[1]
               checkpoint == anchor.sum
               j == Len(checkpoint.done)
               m == n - j
               frames == Tail(log.bodies)
    <2>1. /\ AnchorTold(log, h) /\ Begun(checkpoint, h)
          /\ checkpoint.generation = log.first
          /\ anchor.sequence = log.first /\ anchor.anchor \in Slots
      BY <1>1, <1>5, HeadIsDefinition DEF AnchorTold, AnchorTo
    <2>4. CommandsOf(log) = checkpoint.done \o CommandsIn(frames)
      BY <1>1, <1>5 DEF CommandsOf
    <2>5. /\ checkpoint.done = SubSeq(h.done, 1, j) /\ j \in Nat /\ j <= n
          /\ log.first = h.metadata + 2 * j
      BY <2>1, CheckpointTypes DEF Begun
    <2>6. /\ frames \in Seq(Bodies) /\ Len(frames) = Len(log.bodies) - 1
          /\ \A i \in 1 .. Len(frames) : frames[i] = log.bodies[i + 1]
      BY <1>1, HeadTailProperties
    <2> HIDE DEF n, end, frames, j, checkpoint, anchor
    <2>7. m \in Nat /\ (Len(frames) = 2 * m \/ (m # 0 /\ Len(frames) = 2 * m - 1))
      <3>1. Len(frames) = end - log.first
        BY <1>2, <2>6
      <3>2. end = h.metadata + 2 * n \/ (n # 0 /\ end = h.metadata + 2 * n - 1)
        BY <1>3
      <3>3. log.first <= end
        BY <1>2
      <3>4. CASE end = h.metadata + 2 * n
        BY <1>2, <2>5, <3>1, <3>4 DEF m
      <3>5. CASE n # 0 /\ end = h.metadata + 2 * n - 1
        BY <1>2, <2>5, <3>1, <3>3, <3>5 DEF m
      <3> QED
        BY <3>2, <3>4, <3>5
    <2>8. ASSUME NEW i \in 1 .. m PROVE frames[2 * i - 1] = CommandFrame(h.done[j + i])
      <3>1. /\ 2 * i - 1 \in 1 .. Len(frames) /\ (2 * i - 1) + 1 = 2 * i
            /\ j + i \in 1 .. n
        BY <1>2, <2>5, <2>7
      <3>2. frames[2 * i - 1] = log.bodies[2 * i]
        BY <2>6, <3>1
      <3>3. /\ CommandAt(h, j + i) = log.first + 2 * i - 1
            /\ log.first < CommandAt(h, j + i)
        <4>1. CommandAt(h, j + i) = h.metadata + 2 * (j + i) - 1
          BY DEF CommandAt
        <4> QED
          BY <1>2, <2>5, <4>1
      <3>4. FrameAt(log, log.first + 2 * i - 1) = CommandFrame(h.done[j + i])
        BY <3>1, <3>3 DEF Tells, CommandsTold, n
      <3>5. FrameAt(log, log.first + 2 * i - 1) = log.bodies[2 * i]
        <4>1. (log.first + 2 * i - 1) - log.first + 1 = 2 * i
          BY <1>2
        <4> QED
          BY <4>1 DEF FrameAt
      <3> QED
        BY <3>2, <3>4, <3>5
    <2>9. Len(h.done) = j + m
      BY <1>2, <2>5 DEF n
    <2> HIDE DEF m
    <2>10. SubSeq(h.done, 1, j) \o CommandsIn(frames) = h.done
      BY <1>2, <2>5, <2>6, <2>7, <2>8, <2>9, CommandsRead
    <2> QED
      BY <2>4, <2>5, <2>10
  <1> QED
    BY <1>4, <1>5

\* Reading the visible log back gives the history it tells.
LEMMA ReadBack ==
  ASSUME NEW h, Tells(visible, h), SlotHolds(visible, slots)
  PROVE /\ LoggedConfig = h.config /\ LoggedCommands = h.done
        /\ Anchored <=> IsAnchor(visible.bodies[1])
        /\ Anchored => AnchorFits(visible, slots)
  <1>1. visible.bodies # <<>> /\ h \in Histories /\ (Anchored <=> IsAnchor(visible.bodies[1]))
    BY DEF Tells, Anchored
  <1>2. CommandsOf(visible) = h.done
    BY CommandsTell
  <1>3. CASE ~Anchored
    <2>1. PersistedProfiles(visible) = h.config.profiles
      BY <1>1, <1>3, ProfilesFound
    <2>2. LoggedConfig = h.config
      BY <1>1, <1>3, <2>1, HistoryTypes, HeadIsDefinition DEF LoggedConfig
    <2>3. LoggedCommands = CommandsOf(visible)
      BY <1>1, <1>3 DEF LoggedCommands, CommandsOf
    <2> QED
      BY <1>1, <1>2, <1>3, <2>2, <2>3
  <1>4. CASE Anchored
    <2> DEFINE anchor == visible.bodies[1]
    <2>1. /\ AnchorTold(visible, h) /\ Begun(anchor.sum, h)
          /\ anchor.sequence = visible.first /\ anchor.anchor \in Slots
      BY <1>1, <1>4, HeadIsDefinition DEF AnchorTold, AnchorTo
    <2>2. AnchorFits(visible, slots)
      BY <1>1, <1>4, <2>1 DEF AnchorFits, SlotHolds
    <2>3. LoggedConfig = h.config
      BY <1>4, <2>1 DEF LoggedConfig, Begun
    <2>4. LoggedCommands = CommandsOf(visible)
      BY <1>1, <1>4, <2>2 DEF LoggedCommands, CommandsOf
    <2> QED
      BY <1>1, <1>2, <2>2, <2>3, <2>4
  <1> QED
    BY <1>3, <1>4

\* A log that begins another tells no more commands.
LEMMA BeginsTells ==
  ASSUME NEW log, NEW h, Tells(log, h), NEW image, NEW part, Tells(image, part),
         Begins(image, log)
  PROVE Len(part.done) <= Len(h.done)
  <1> DEFINE b == log.bodies
             c == image.bodies
             m == Len(c)
             k == Len(part.config.profiles)
             n == Len(h.done)
             i == Len(part.done)
  <1>1. /\ b \in Seq(Bodies) /\ c \in Seq(Bodies) /\ Len(b) \in Nat \ {0} /\ m \in Nat \ {0}
        /\ n \in Nat /\ i \in Nat /\ h \in Histories /\ part \in Histories
    BY LogTypes, HistoryTypes, LenProperties, ToldEnds DEF Tells
  <1>2. m <= Len(b) /\ SubSeq(c, 1, m) = SubSeq(b, 1, m) /\ image.first = log.first
    BY DEF Begins, IsPrefix
  <1>3. ASSUME NEW j \in 1 .. m PROVE c[j] = b[j]
    <2>1. SubSeq(c, 1, m)[j] = c[j] /\ SubSeq(b, 1, m)[j] = b[j]
      BY <1>1, <1>2
    <2> QED
      BY <1>2, <2>1
  <1>4. LastSequence(image) <= LastSequence(log)
    <2>1. image.first \in Nat
      BY LogTypes DEF Tells
    <2> QED
      BY <1>1, <1>2, <2>1 DEF LastSequence
  <1>5. b[1] = c[1]
    BY <1>1, <1>3
  <1>6. part.metadata = h.metadata => i <= n
    <2> SUFFICES ASSUME part.metadata = h.metadata PROVE i <= n
      OBVIOUS
    <2>1. h.metadata \in Nat /\ LastSequence(image) \in Int /\ LastSequence(log) \in Int
      BY <1>1, HistoryTypes, LogTypes DEF Tells
    <2>2. LastSequence(log) <= h.metadata + 2 * n
      BY <1>1, <2>1 DEF Tells, Whole, Dangling
    <2>3. LastSequence(image) >= part.metadata + 2 * i - 1
      BY <1>1, <2>1 DEF Tells, Whole, Dangling
    <2> HIDE DEF n, i
    <2> QED
      BY <1>1, <1>4, <2>1, <2>2, <2>3
  <1>7. CASE IsAnchor(b[1])
    <2>1. AnchorTold(log, h) /\ AnchorTold(image, part)
      BY <1>5, <1>7, HeadIsDefinition
    <2>2. part.metadata = h.metadata
      BY <1>5, <2>1 DEF AnchorTold, Begun
    <2> QED
      BY <1>6, <2>2
  <1>8. CASE ~IsAnchor(b[1])
    <2>1. CASE part.done = <<>>
      BY <1>1, <2>1
    <2>2. CASE part.done # <<>>
      <3>1. /\ MetadataTold(image, part) /\ EndsProfiles(image, k)
            /\ ProfileCount(image) = k /\ HasData(image)
        BY <1>5, <1>8, <2>2, ProfilesFound
      <3>2. k \in Nat /\ k + 1 < m
        BY <1>1, <3>1, HistoryTypes, LenProperties DEF HasData
      <3> HIDE DEF k
      <3>3. EndsProfiles(log, k)
        <4>1. \A j \in 1 .. k : c[j + 1] = b[j + 1]
          BY <1>1, <1>3, <3>2
        <4>2. c[k + 2] = b[k + 2]
          BY <1>1, <1>3, <3>2
        <4>3. /\ \A j \in 1 .. k : IsProfile(c[j + 1])
              /\ ~IsProfile(c[k + 2])
          BY <3>1, <3>2 DEF EndsProfiles
        <4> QED
          BY <4>1, <4>2, <4>3 DEF EndsProfiles
      <3>4. k \in 0 .. Len(b) - 1
        BY <1>1, <1>2, <3>2
      <3>5. k = Len(h.config.profiles) /\ MetadataTold(log, h)
        BY <1>8, <3>3, <3>4, ProfilesFound
      <3>6. part.metadata = h.metadata
        BY <3>1, <3>5 DEF MetadataTold, k
      <3> QED
        BY <1>6, <3>6
    <2> QED
      BY <2>1, <2>2
  <1> QED
    BY <1>7, <1>8

\* A log opens under the configuration it holds.
LEMMA OpensAsLogged ==
  ASSUME NEW h, Tells(visible, h), SlotHolds(visible, slots), product \in Products
  PROVE Opens(visible, slots, LoggedConfig, Anchored)
  <1>1. /\ LoggedConfig = h.config /\ (Anchored <=> IsAnchor(visible.bodies[1]))
        /\ (Anchored => AnchorFits(visible, slots))
    BY ReadBack
  <1>2. CASE Anchored
    <2> DEFINE anchor == visible.bodies[1]
               checkpoint == anchor.sum
    <2>1. /\ Begun(checkpoint, h) /\ checkpoint.generation = visible.first
          /\ anchor.generation = visible.first
      <3>1. AnchorTold(visible, h)
        BY <1>1, <1>2, HeadIsDefinition
      <3> QED
        BY <3>1 DEF AnchorTold, AnchorTo
    <2>2. checkpoint.generation = anchor.generation /\ checkpoint.config = h.config
      BY <2>1 DEF Begun
    <2> HIDE DEF checkpoint
    <2>3. /\ RiskOpens(visible, slots, h.config, TRUE)
          /\ AuctionOpens(visible, slots, h.config, TRUE)
          /\ CoupledOpens(visible, slots, h.config, TRUE)
      BY <1>1, <1>2, <2>2
         DEF RiskOpens, RiskBinding, AuctionOpens, CoupledOpens, CoupledAnchorOpens,
             CoupledBinding, checkpoint
    <2> QED
      BY <1>1, <1>2, <2>3 DEF Opens, Products
  <1>3. CASE ~Anchored
    <2>1. DefinedAs(visible, h.config) /\ PersistedProfiles(visible) = h.config.profiles
      BY <1>1, <1>3, HeadIsDefinition, ProfilesFound DEF DefinedAs
    <2>2. /\ RiskOpens(visible, slots, h.config, FALSE)
          /\ AuctionOpens(visible, slots, h.config, FALSE)
          /\ CoupledOpens(visible, slots, h.config, FALSE)
      BY <1>1, <1>3, <2>1 DEF RiskOpens, AuctionOpens, CoupledOpens
    <2> QED
      <3>1. Anchored = FALSE
        BY <1>3 DEF Anchored
      <3>2. Opens(visible, slots, h.config, FALSE)
        BY <2>2 DEF Opens, Products
      <3> QED
        BY <1>1, <3>1, <3>2
  <1> QED
    BY <1>2, <1>3

----------------------------------------------------------------------------
(* What a log keeps *)

LEMMA KeptLater ==
  ASSUME NEW log, NEW h \in Histories, NEW files, NEW given, Kept(log, h, files, given),
         NEW longer, NEW next, GoesOn(h, next),
         LastSequence(log) \in Int, LastSequence(longer) \in Int,
         LastSequence(log) <= LastSequence(longer)
  PROVE Kept(longer, next, files, given)
  <1> DEFINE n == Len(h.done)
  <1>1. /\ n \in Nat /\ Len(next.done) \in Nat /\ n <= Len(next.done)
        /\ next.done \in Seq(ShardCommands)
        /\ h.done = SubSeq(next.done, 1, n) /\ next.config = h.config
    BY HistoryTypes DEF GoesOn
  <1>2. \A i \in 1 .. n : SubSeq(next.done, 1, n)[i] = next.done[i]
    BY <1>1, Beginning
  <1>3. \A i \in 1 .. n : h.done[i] = next.done[i] /\ i \in 1 .. Len(next.done)
    <2> HIDE DEF n
    <2> QED
      BY <1>1, <1>2
  <1>4. ASSUME NEW a \in given
        PROVE a.under = next.config /\ a.at \in 1 .. Len(next.done) /\ next.done[a.at] = a.cmd
    BY <1>1, <1>3 DEF Kept
  <1>5. ASSUME NEW checkpoint \in BaseContents(files) \ {None}, checkpoint.done # <<>>
        PROVE Begun(checkpoint, next) /\ checkpoint.generation <= LastSequence(longer)
    <2>1. Begun(checkpoint, h) /\ checkpoint.generation <= LastSequence(log)
      BY <1>5 DEF Kept
    <2>2. checkpoint.generation \in Nat
      BY <2>1, CheckpointTypes DEF Begun
    <2> QED
      BY <2>1, <2>2, BegunLater
  <1> QED
    BY <1>4, <1>5 DEF Kept

\* A history without commands keeps nothing.
LEMMA KeptNothing ==
  ASSUME NEW log, NEW h \in Histories, h.done = <<>>, NEW files, NEW given,
         Kept(log, h, files, given)
  PROVE Unused(files, given)
  <1>1. Len(h.done) = 0
    OBVIOUS
  <1>2. given = {}
    BY <1>1 DEF Kept
  <1>3. ASSUME NEW checkpoint \in BaseContents(files) \ {None} PROVE checkpoint.done = <<>>
    <2>1. SUFFICES ASSUME checkpoint.done # <<>> PROVE FALSE
      OBVIOUS
    <2>2. Begun(checkpoint, h)
      BY <2>1 DEF Kept
    <2>3. Len(checkpoint.done) = 0 /\ checkpoint.done \in Seq(ShardCommands)
      BY <1>1, <2>2, CheckpointTypes DEF Begun
    <2> QED
      BY <2>1, <2>3, EmptySeq
  <1> QED
    BY <1>2, <1>3 DEF Unused

LEMMA UnusedKept ==
  ASSUME NEW log, NEW h, NEW files, NEW given, Unused(files, given)
  PROVE Kept(log, h, files, given)
  BY DEF Unused, Kept

\* A log that is extended keeps its head.
LEMMA ExtendedSlot ==
  ASSUME NEW log, NEW h, Tells(log, h), NEW body \in Bodies
  PROVE LET longer == Extended(log, <<body>>) IN
        /\ \A files : SlotHolds(log, files) => SlotHolds(longer, files)
        /\ AnchorSlot(longer) = AnchorSlot(log) /\ longer.first = log.first
        /\ longer.bodies[1] = log.bodies[1]
        /\ PartsOf(log, longer) = {log, longer}
        /\ LastSequence(longer) = LastSequence(log) + 1
        /\ longer \in Logs
  <1> DEFINE longer == Extended(log, <<body>>)
  <1>1. log \in Logs /\ log.bodies # <<>> /\ Len(log.bodies) \in Nat \ {0}
    BY ToldEnds DEF Tells
  <1>2. /\ longer.bodies # <<>> /\ longer.first = log.first
        /\ LastSequence(longer) = LastSequence(log) + 1
        /\ \A i \in 1 .. Len(log.bodies) : longer.bodies[i] = log.bodies[i]
        /\ longer \in Logs
    BY <1>1, ExtendedLog
  <1>3. longer.bodies[1] = log.bodies[1]
    BY <1>1, <1>2
  <1>4. PartsOf(log, longer) = {log, longer}
    BY <1>1, ExtendedParts
  <1> HIDE DEF longer
  <1> QED
    BY <1>1, <1>2, <1>3, <1>4 DEF SlotHolds, AnchorSlot, longer

\* What fits a log fits the log with its next frame.
LEMMA FittingCommand ==
  ASSUME NEW kind, NEW log, NEW h, NEW files, NEW given, Fitting(kind, log, h, files, given),
         Whole(log, h), NEW c \in ShardCommands, \A i \in 1 .. Len(h.done) : h.done[i] # c
  PROVE LET longer == Extended(log, <<CommandFrame(c)>>) IN
        /\ Fitting(kind, longer, With(h, c), files, given)
        /\ Dangling(longer, With(h, c))
        /\ longer.first = log.first /\ AnchorSlot(longer) = AnchorSlot(log)
        /\ PartsOf(log, longer) = {log, longer}
  <1> DEFINE longer == Extended(log, <<CommandFrame(c)>>)
  <1>1. Tells(log, h) /\ SlotHolds(log, files) /\ Kept(log, h, files, given) /\ h \in Histories
    BY DEF Fitting, Tells
  <1>2. Tells(longer, With(h, c)) /\ Dangling(longer, With(h, c))
    BY <1>1, CommandTold
  <1>3. CommandFrame(c) \in Bodies
    BY FrameTypes
  <1>4. /\ SlotHolds(longer, files) /\ AnchorSlot(longer) = AnchorSlot(log)
        /\ longer.first = log.first /\ PartsOf(log, longer) = {log, longer}
        /\ LastSequence(longer) = LastSequence(log) + 1
    BY <1>1, <1>3, ExtendedSlot
  <1>5. GoesOn(h, With(h, c)) /\ With(h, c).config = h.config
    BY <1>1, WithGoesOn
  <1> HIDE DEF longer
  <1>6. LastSequence(log) \in Nat
    BY <1>1, ToldEnds
  <1>7. /\ LastSequence(log) \in Int /\ LastSequence(longer) \in Int
        /\ LastSequence(log) <= LastSequence(longer)
    BY <1>4, <1>6
  <1>8. Kept(longer, With(h, c), files, given)
    BY <1>1, <1>5, <1>7, KeptLater
  <1>9. kind = "auction" => With(h, c).config.profiles = <<>>
    BY <1>5 DEF Fitting
  <1> QED
    BY <1>2, <1>4, <1>8, <1>9 DEF Fitting, longer

LEMMA FittingReport ==
  ASSUME NEW kind, NEW log, NEW h, NEW files, NEW given, Fitting(kind, log, h, files, given),
         Dangling(log, h)
  PROVE LET longer == Extended(log, <<ReportFrame(ReportOf(h, Len(h.done)))>>) IN
        /\ Fitting(kind, longer, h, files, given)
        /\ Whole(longer, h)
        /\ longer.first = log.first /\ AnchorSlot(longer) = AnchorSlot(log)
        /\ PartsOf(log, longer) = {log, longer}
  <1> DEFINE n == Len(h.done)
             longer == Extended(log, <<ReportFrame(ReportOf(h, n))>>)
  <1>1. Tells(log, h) /\ SlotHolds(log, files) /\ Kept(log, h, files, given) /\ h \in Histories
    BY DEF Fitting, Tells
  <1>2. Tells(longer, h) /\ Whole(longer, h)
    BY <1>1, ReportTold
  <1>3. ReportFrame(ReportOf(h, n)) \in Bodies
    <2>1. /\ h.config \in Configurations /\ h.done \in Seq(ShardCommands) /\ n \in Nat
          /\ h.done # <<>>
      BY <1>1, HistoryTypes DEF Dangling
    <2>2. n \in 1 .. n
      <3>1. n # 0
        BY <2>1, EmptySeq
      <3> QED
        BY <2>1, <3>1
    <2> HIDE DEF n
    <2>3. h.done[n] \in ShardCommands /\ n - 1 \in 0 .. n
      BY <2>1, <2>2, ElementOfSeq DEF n
    <2>4. SubSeq(h.done, 1, n - 1) \in Seq(ShardCommands)
      BY <2>1, <2>3, Beginning DEF n
    <2> QED
      BY <2>1, <2>3, <2>4, ReportTypes, FrameTypes DEF ReportOf
  <1>4. /\ SlotHolds(longer, files) /\ AnchorSlot(longer) = AnchorSlot(log)
        /\ longer.first = log.first /\ PartsOf(log, longer) = {log, longer}
        /\ LastSequence(longer) = LastSequence(log) + 1
    BY <1>1, <1>3, ExtendedSlot
  <1>5. GoesOn(h, h)
    BY <1>1, HistoryGoesOn
  <1> HIDE DEF longer
  <1>6. LastSequence(log) \in Nat
    BY <1>1, ToldEnds
  <1>7. /\ LastSequence(log) \in Int /\ LastSequence(longer) \in Int
        /\ LastSequence(log) <= LastSequence(longer)
    BY <1>4, <1>6
  <1>8. Kept(longer, h, files, given)
    BY <1>1, <1>5, <1>7, KeptLater
  <1> QED
    BY <1>2, <1>4, <1>8 DEF Fitting, longer, n

\* Other files suit a log as well as long as they hold its snapshot and their
\* base checkpoints stand for its history.
LEMMA FittingFiles ==
  ASSUME NEW kind, NEW log, NEW h, NEW files, NEW given, Fitting(kind, log, h, files, given),
         NEW after,
         IsAnchor(log.bodies[1]) => after[log.bodies[1].anchor] = files[log.bodies[1].anchor],
         \A checkpoint \in BaseContents(after) \ {None} :
            \/ checkpoint \in BaseContents(files)
            \/ Begun(checkpoint, h) /\ checkpoint.generation <= LastSequence(log)
  PROVE Fitting(kind, log, h, after, given)
  <1>1. SlotHolds(log, after)
    BY DEF Fitting, SlotHolds
  <1>2. Kept(log, h, after, given)
    BY DEF Fitting, Kept
  <1> QED
    BY <1>1, <1>2 DEF Fitting

\* The anchor of a log that tells a history names one of the two slots.
LEMMA AnchorNamed ==
  ASSUME NEW log, NEW h, Tells(log, h), IsAnchor(log.bodies[1])
  PROVE log.bodies[1].anchor \in Slots /\ AnchorSlot(log) = log.bodies[1].anchor
  <1>1. AnchorTold(log, h)
    BY HeadIsDefinition
  <1>2. log.bodies # <<>>
    BY DEF Tells
  <1> QED
    BY <1>1, <1>2 DEF AnchorTold, AnchorSlot

\* A crash reads what a process could find at a path.
LEMMA FilesAfterPowerLoss ==
  ASSUME NEW files, NEW after \in SlotsAfterPowerLoss(files)
  PROVE /\ FilesForm(after)
        /\ BaseContents(after) \subseteq BaseContents(files)
        /\ \A s \in SnapshotPaths : \A c :
             files[s] = [now |-> c, may |-> {c}] => after[s] = files[s]
  <1> DEFINE All == UNION {files[s].may : s \in SnapshotPaths}
  <1>1. /\ after \in [SnapshotPaths -> {[now |-> c, may |-> {c}] : c \in All}]
        /\ \A s \in SnapshotPaths : after[s].now \in files[s].may
    BY DEF SlotsAfterPowerLoss
  <1> HIDE DEF All
  <1>2. \A s \in SnapshotPaths : after[s] = [now |-> after[s].now, may |-> {after[s].now}]
    BY <1>1
  <1>3. FilesForm(after)
    BY <1>1, <1>2 DEF FilesForm
  <1>4. "base" \in SnapshotPaths
    BY DEF SnapshotPaths
  <1>5. after["base"].now \in files["base"].may /\ after["base"].may = {after["base"].now}
    BY <1>1, <1>2, <1>4
  <1>6. BaseContents(after) \subseteq BaseContents(files)
    BY <1>5 DEF BaseContents
  <1>7. ASSUME NEW s \in SnapshotPaths, NEW c, files[s] = [now |-> c, may |-> {c}]
        PROVE after[s] = files[s]
    <2>1. files[s].may = {c}
      BY <1>7
    <2>2. after[s].now = c
      BY <1>1, <2>1
    <2> QED
      BY <1>2, <1>7, <2>2
  <1> QED
    BY <1>3, <1>6, <1>7

LEMMA SoundAfterPowerLoss ==
  ASSUME NEW kind, NEW log, NEW files, NEW given, Sound(kind, log, files, given),
         NEW after \in SlotsAfterPowerLoss(files)
  PROVE Sound(kind, log, after, given)
  <1>1. BaseContents(after) \subseteq BaseContents(files)
    BY FilesAfterPowerLoss
  <1>2. CASE Blank(log, files, given)
    BY <1>1, <1>2 DEF Sound, Blank, Unused
  <1>3. ASSUME NEW h \in Histories, Fitting(kind, log, h, files, given)
        PROVE Fitting(kind, log, h, after, given)
    <2>1. Tells(log, h) /\ SlotHolds(log, files)
      BY <1>3 DEF Fitting
    <2>2. IsAnchor(log.bodies[1]) => after[log.bodies[1].anchor] = files[log.bodies[1].anchor]
      <3>1. SUFFICES ASSUME IsAnchor(log.bodies[1])
                     PROVE after[log.bodies[1].anchor] = files[log.bodies[1].anchor]
        OBVIOUS
      <3>2. log.bodies[1].anchor \in SnapshotPaths
        BY <2>1, <3>1, AnchorNamed DEF SnapshotPaths
      <3>3. files[log.bodies[1].anchor] = [now |-> log.bodies[1].sum, may |-> {log.bodies[1].sum}]
        BY <2>1, <3>1 DEF SlotHolds
      <3> QED
        BY <3>2, <3>3, FilesAfterPowerLoss
    <2> QED
      BY <1>1, <1>3, <2>2, FittingFiles
  <1> QED
    BY <1>2, <1>3 DEF Sound

----------------------------------------------------------------------------
(* The logs a step leaves *)

\* Every call of the storage but a new write leaves logs that were there.
StorageStep ==
    OpenLog \/ Acknowledge \/ Fail \/ Refuse \/ SyncLog \/ SyncLogFails \/ CloseLog \/ DropLog
    \/ LosePower

LEMMA FewerLogs ==
  ASSUME WholeParts, StorageStep
  PROVE Candidates' \subseteq Candidates /\ WholeParts'
  <1>1. CASE OpenLog
    BY <1>1 DEF OpenLog, Candidates, WholeParts
  <1>2. CASE Acknowledge
    BY <1>2 DEF Acknowledge, Candidates, WholeParts
  <1>3. CASE Fail
    BY <1>3 DEF Fail, Candidates, WholeParts
  <1>4. CASE Refuse
    BY <1>4 DEF Refuse, Candidates, WholeParts
  <1>5. CASE SyncLog
    BY <1>5 DEF SyncLog, Candidates, WholeParts
  <1>6. CASE SyncLogFails
    BY <1>6 DEF SyncLogFails, Candidates, WholeParts
  <1>7. CASE CloseLog
    BY <1>7 DEF CloseLog, Candidates, WholeParts
  <1>8. CASE DropLog
    BY <1>8 DEF DropLog, Candidates, WholeParts
  <1>9. CASE LosePower
    BY <1>9 DEF LosePower, Candidates, WholeParts
  <1> QED
    BY <1>1, <1>2, <1>3, <1>4, <1>5, <1>6, <1>7, <1>8, <1>9 DEF StorageStep

LEMMA StorageKeeps ==
  ASSUME LogsSound, WholeParts, StorageStep, UNCHANGED <<product, slots, answers>>
  PROVE LogsSound' /\ WholeParts'
  <1>1. Candidates' \subseteq Candidates /\ WholeParts'
    BY FewerLogs
  <1>2. LogsSound'
    BY <1>1 DEF LogsSound
  <1> QED
    BY <1>1, <1>2

LEMMA WriteKeeps ==
  ASSUME LogsSound, NEW log, Write(log), PartsOf(visible, log) = {visible, log},
         Sound(product, log, slots, answers), UNCHANGED <<product, slots, answers>>
  PROVE LogsSound' /\ WholeParts'
  <1>1. Candidates' \subseteq Candidates \cup {log}
    BY DEF Write, Candidates
  <1>2. LogsSound'
    BY <1>1 DEF LogsSound
  <1>3. WholeParts'
    BY DEF WholeParts, Write
  <1> QED
    BY <1>2, <1>3

\* After a synchronization one log is left.
LEMMA SyncKeeps ==
  ASSUME SyncLog, Sound(product, visible, slots', answers'), UNCHANGED product
  PROVE LogsSound' /\ WholeParts'
  <1>1. Candidates' = {visible} /\ mode' = "open"
    BY DEF SyncLog, Candidates
  <1> QED
    BY <1>1 DEF LogsSound, WholeParts

LEMMA FilesKept ==
  ASSUME FilesHold, UNCHANGED <<slots, product>>
  PROVE FilesHold'
  BY DEF FilesHold, FilesForm, BaseVerified, BaseContents, Verifies

----------------------------------------------------------------------------
(* Beginning, ending and failing *)

LEMMA InvAtInit ==
  ASSUME ShardInit
  PROVE Inv
  <1>1. /\ visible = EmptyLog /\ images = {EmptyLog} /\ mode = "closed"
        /\ slots = [s \in SnapshotPaths |-> [now |-> None, may |-> {None}]]
        /\ answers = {} /\ step = "down" /\ product \in Products
        /\ shard = NoShard /\ captured = None
    BY DEF ShardInit, AnchoredInit, LogInit
  <1>2. BaseContents(slots) = {None}
    BY <1>1 DEF BaseContents, SnapshotPaths
  <1>3. Candidates = {EmptyLog}
    BY <1>1 DEF Candidates
  <1>4. Sound(product, EmptyLog, slots, answers)
    BY <1>1, <1>2 DEF Sound, Blank, Unused
  <1>5. LogsSound
    BY <1>3, <1>4 DEF LogsSound
  <1>6. WholeParts /\ FilesHold /\ ModeOf /\ CaptureKnows
    BY <1>1, <1>2 DEF WholeParts, FilesHold, FilesForm, BaseVerified, ModeOf, CaptureKnows, OpenSteps
  <1>7. ShardForm /\ ProcessKnows /\ SlotKnows
    BY <1>1 DEF ShardForm, NoShard, ProcessKnows, SlotKnows, OpenSteps
  <1> QED
    BY <1>5, <1>6, <1>7 DEF Inv

LEMMA DownKeeps ==
  ASSUME Ended, LogsSound', WholeParts', FilesHold', mode' = "closed", product' \in Products
  PROVE Inv'
  <1>1. step' = "down" /\ shard' = NoShard /\ captured' = None
    BY DEF Ended
  <1>2. ModeOf' /\ CaptureKnows' /\ SlotKnows'
    BY <1>1 DEF ModeOf, CaptureKnows, SlotKnows, OpenSteps
  <1>3. ShardForm'
    BY <1>1 DEF ShardForm, NoShard
  <1>4. ProcessKnows'
    BY <1>1 DEF ProcessKnows
  <1> QED
    BY <1>2, <1>3, <1>4 DEF Inv

LEMMA HaltedKeeps ==
  ASSUME step' = "halted", LogsSound', WholeParts', FilesHold', ShardForm',
         mode' \in {"open", "poisoned"}, product' \in Products
  PROVE Inv'
  <1>1. ModeOf' /\ CaptureKnows' /\ SlotKnows'
    BY DEF ModeOf, CaptureKnows, SlotKnows, OpenSteps
  <1>2. ProcessKnows'
    BY DEF ProcessKnows
  <1> QED
    BY <1>1, <1>2 DEF Inv

LEMMA InvParts ==
  ASSUME Inv
  PROVE /\ LogsSound /\ WholeParts /\ FilesHold /\ ModeOf /\ ShardForm
        /\ ProcessKnows /\ CaptureKnows /\ SlotKnows /\ product \in Products
  BY DEF Inv, ModeOf

LEMMA OpenShardKeeps ==
  ASSUME Inv, UNCHANGED product, NEW config \in Requested[product], NEW source \in BOOLEAN,
         OpenShard(config, source)
  PROVE Inv'
  <1>1. LogsSound' /\ WholeParts' /\ FilesHold'
    BY InvParts, StorageKeeps, FilesKept DEF OpenShard, StorageStep
  <1>2. PICK profiles \in Canonical(config.profiles) :
          shard' = [NoShard EXCEPT !.config = [config EXCEPT !.profiles = profiles],
                                   !.source = source]
    BY DEF OpenShard
  <1>3. mode' = "open" /\ step' = "opening" /\ UNCHANGED captured /\ step = "down"
    BY DEF OpenShard, OpenLog
  <1>4. ModeOf' /\ CaptureKnows' /\ SlotKnows'
    BY <1>3, InvParts DEF ModeOf, CaptureKnows, SlotKnows, OpenSteps
  <1>5. ShardForm'
    BY <1>2 DEF ShardForm, NoShard
  <1>6. config \in Configurations /\ (product = "auction" => config.profiles = <<>>)
    BY RequestedAssumption, InvParts
  <1>7. profiles \in Seq(Profiles) /\ (config.profiles = <<>> => profiles = <<>>)
    <2>1. config.profiles \in Seq(Profiles) /\ profiles \in [DOMAIN config.profiles -> Range(config.profiles)]
      BY <1>6 DEF Configurations, Canonical
    <2>2. Range(config.profiles) \subseteq Profiles
      BY <2>1, ElementOfSeq DEF Range
    <2>3. DOMAIN config.profiles = 1 .. Len(config.profiles) /\ Len(config.profiles) \in Nat
      BY <2>1, LenProperties
    <2>4. profiles \in [1 .. Len(config.profiles) -> Profiles]
      BY <2>1, <2>2, <2>3
    <2>5. profiles \in Seq(Profiles) /\ Len(profiles) = Len(config.profiles)
      BY <2>3, <2>4, SeqDef
    <2>6. config.profiles = <<>> => Len(profiles) = 0
      BY <2>5
    <2> QED
      BY <2>5, <2>6, EmptySeq
  <1>8. OpeningKnows'
    <2>1. shard'.config = [config EXCEPT !.profiles = profiles] /\ shard'.pending = None
          /\ shard'.epoch = 0
      BY <1>2 DEF NoShard
    <2>2. [config EXCEPT !.profiles = profiles] \in Configurations
      BY <1>6, <1>7 DEF Configurations
    <2>3. [config EXCEPT !.profiles = profiles].profiles = profiles
      BY <1>6 DEF Configurations
    <2>4. product' = "auction" => shard'.config.profiles = <<>>
      BY <1>6, <1>7, <2>1, <2>3
    <2> QED
      BY <2>1, <2>2, <2>4 DEF OpeningKnows
  <1>9. ProcessKnows'
    BY <1>3, <1>8 DEF ProcessKnows
  <1> QED
    BY <1>1, <1>4, <1>5, <1>9 DEF Inv

LEMMA EndsKeep ==
  ASSUME Inv, UNCHANGED product, CloseShard \/ StopShard
  PROVE Inv'
  <1>1. /\ CloseLog \/ DropLog
        /\ Ended /\ UNCHANGED <<slots, answers>> /\ mode' = "closed"
    BY DEF CloseShard, StopShard, CloseLog, DropLog
  <1>2. LogsSound' /\ WholeParts' /\ FilesHold'
    BY <1>1, InvParts, StorageKeeps, FilesKept DEF StorageStep
  <1> QED
    BY <1>1, <1>2, InvParts, DownKeeps

LEMMA ShardLosesPowerKeeps ==
  ASSUME Inv, UNCHANGED product, ShardLosesPower
  PROVE Inv'
  <1>1. /\ LosePower /\ Ended /\ slots' \in SlotsAfterPowerLoss(slots)
        /\ UNCHANGED answers /\ mode' = "closed"
    BY DEF ShardLosesPower, LosePower
  <1>2. Candidates' \subseteq Candidates /\ WholeParts'
    BY <1>1, InvParts, FewerLogs DEF StorageStep
  <1>3. LogsSound'
    <2>1. ASSUME NEW log \in Candidates PROVE Sound(product, log, slots', answers)
      BY <1>1, <2>1, InvParts, SoundAfterPowerLoss DEF LogsSound
    <2>2. \A log \in Candidates' : Sound(product', log, slots', answers')
      BY <1>1, <1>2, <2>1
    <2> QED
      BY <2>2 DEF LogsSound
  <1>4. FilesHold'
    <2>1. FilesForm(slots')
          /\ BaseContents(slots') \subseteq BaseContents(slots)
      BY <1>1, FilesAfterPowerLoss
    <2>2. BaseVerified(slots')
      BY <2>1, InvParts DEF FilesHold, BaseVerified, Verifies
    <2>3. BaseVerified(slots)'
      BY <2>2 DEF BaseVerified, BaseContents, Verifies
    <2> QED
      BY <2>1, <2>3 DEF FilesHold, FilesForm
  <1> QED
    BY <1>1, <1>2, <1>3, <1>4, InvParts, DownKeeps

LEMMA StopsKeep ==
  ASSUME Inv, UNCHANGED product, OpeningFails \/ ReportFails \/ SyncShardFails
  PROVE Inv'
  <1>1. /\ step' = "halted" /\ mode' \in {"open", "poisoned"}
        /\ Fail \/ Refuse \/ SyncLogFails
        /\ UNCHANGED <<shardVars, slots, answers>>
    BY DEF OpeningFails, ReportFails, SyncShardFails, Fail, Refuse, SyncLogFails
  <1>2. LogsSound' /\ WholeParts' /\ FilesHold'
    BY <1>1, InvParts, StorageKeeps, FilesKept DEF StorageStep
  <1>3. ShardForm'
    BY <1>1, InvParts DEF ShardForm, shardVars
  <1> QED
    BY <1>1, <1>2, <1>3, InvParts, HaltedKeeps

\* A shard that is ready again, with all of its log as it was.
LEMMA ReadyAgain ==
  ASSUME Inv, UNCHANGED <<product, captured, slots, slot, answers, visible>>,
         step \in {"logging", "cutting"}, step' = "ready", mode' = "open",
         LogsSound', WholeParts', shard' = [shard EXCEPT !.pending = None]
  PROVE Inv'
  <1>1. ShardForm
    BY InvParts
  <1>2. /\ shard'.config = shard.config /\ shard'.metadata = shard.metadata
        /\ shard'.done = shard.done /\ shard'.pending = None /\ shard'.epoch = shard.epoch
        /\ shard'.first = shard.first /\ ShardForm'
    BY <1>1 DEF ShardForm
  <1>3. Current' = Current
    BY <1>2 DEF Current
  <1>4. FilesHold' /\ ModeOf'
    BY InvParts, FilesKept DEF ModeOf, OpenSteps
  <1>5. Stands(visible, Current) /\ Whole(visible, Current)
    BY InvParts DEF ProcessKnows, LoggingKnows, CuttingKnows, ReadyKnows
  <1>6. ReadyKnows'
    BY <1>2, <1>3, <1>5 DEF ReadyKnows, Stands
  <1>7. ProcessKnows'
    BY <1>6 DEF ProcessKnows
  <1>8. step \in OpenSteps /\ CaptureKnows /\ SlotKnows
    BY InvParts DEF OpenSteps
  <1>9. CaptureKnows'
    BY <1>2, <1>3, <1>8 DEF CaptureKnows
  <1>10. SlotKnows'
    BY <1>2, <1>8 DEF SlotKnows
  <1> QED
    BY <1>2, <1>4, <1>7, <1>9, <1>10 DEF Inv

LEMMA CommandFailsKeeps ==
  ASSUME Inv, UNCHANGED product, CommandFails
  PROVE Inv'
  <1>1. /\ step = "logging" /\ shard' = [shard EXCEPT !.pending = None]
        /\ UNCHANGED <<captured, slots, slot, answers>> /\ (Fail \/ Refuse)
    BY DEF CommandFails
  <1>2. LogsSound' /\ WholeParts' /\ FilesHold'
    BY <1>1, InvParts, StorageKeeps, FilesKept DEF StorageStep
  <1>3. CASE Refuse /\ step' = "ready"
    <2>1. UNCHANGED visible /\ mode' = "open"
      BY <1>3 DEF Refuse
    <2> QED
      BY <1>1, <1>2, <1>3, <2>1, ReadyAgain
  <1>4. CASE Fail /\ step' = "halted"
    <2>1. mode' = "poisoned"
      BY <1>4 DEF Fail
    <2>2. ShardForm'
      BY <1>1, InvParts DEF ShardForm
    <2> QED
      BY <1>2, <1>4, <2>1, <2>2, InvParts, HaltedKeeps
  <1> QED
    BY <1>3, <1>4 DEF CommandFails

LEMMA ShardCutOverFailsKeeps ==
  ASSUME Inv, UNCHANGED product, ShardCutOverFails
  PROVE Inv'
  <1>1. /\ step = "cutting" /\ UNCHANGED <<shardVars, slots, slot, answers>> /\ (Fail \/ Refuse)
    BY DEF ShardCutOverFails
  <1>2. LogsSound' /\ WholeParts' /\ FilesHold'
    BY <1>1, InvParts, StorageKeeps, FilesKept DEF StorageStep
  <1>3. CASE Refuse /\ step' = "ready"
    <2>1. UNCHANGED visible /\ mode' = "open"
      BY <1>3 DEF Refuse
    <2>2. shard' = [shard EXCEPT !.pending = None] /\ UNCHANGED captured
      <3>1. shard' = shard /\ ShardForm /\ shard.pending = None /\ UNCHANGED captured
        BY <1>1, InvParts DEF ProcessKnows, CuttingKnows, ReadyKnows, shardVars
      <3> QED
        BY <3>1 DEF ShardForm
    <2> QED
      BY <1>1, <1>2, <1>3, <2>1, <2>2, ReadyAgain
  <1>4. CASE Fail /\ step' = "halted"
    <2>1. mode' = "poisoned"
      BY <1>4 DEF Fail
    <2>2. ShardForm'
      BY <1>1, InvParts DEF ShardForm, shardVars
    <2> QED
      BY <1>2, <1>4, <2>1, <2>2, InvParts, HaltedKeeps
  <1> QED
    BY <1>3, <1>4 DEF ShardCutOverFails

----------------------------------------------------------------------------
(* Calls that return *)

LEMMA MetadataWrittenKeeps ==
  ASSUME Inv, UNCHANGED product, MetadataWritten
  PROVE Inv'
  <1>1. /\ step = "defining" /\ Acknowledge /\ step' = "opening"
        /\ UNCHANGED <<shardVars, slots, slot, answers>> /\ mode' = "open"
    BY DEF MetadataWritten, Acknowledge
  <1>2. LogsSound' /\ WholeParts' /\ FilesHold'
    BY <1>1, InvParts, StorageKeeps, FilesKept DEF StorageStep
  <1>3. shard' = shard /\ captured' = captured
    BY <1>1 DEF shardVars
  <1>4. OpeningKnows'
    BY <1>1, <1>3, InvParts DEF ProcessKnows, OpeningKnows
  <1>5. ModeOf' /\ SlotKnows' /\ ProcessKnows'
    BY <1>1, <1>4, InvParts DEF ModeOf, SlotKnows, OpenSteps, ProcessKnows
  <1>6. CaptureKnows' /\ ShardForm'
    BY <1>1, <1>3, InvParts DEF CaptureKnows, OpenSteps, ShardForm
  <1> QED
    BY <1>2, <1>5, <1>6 DEF Inv

\* The report is on the device, whoever asked for it.
LEMMA ReportAcknowledged ==
  ASSUME Inv, UNCHANGED <<product, shard, captured, slots, slot>>,
         step \in {"completing", "reporting"}, Acknowledge, step' = "ready",
         \A a \in answers' \ answers :
            /\ a.under = shard.config /\ a.at \in 1 .. Len(shard.done)
            /\ shard.done[a.at] = a.cmd
  PROVE Inv'
  <1>1. /\ mode' = "open" /\ visible' = flight /\ images' = {flight} /\ flight' = None
    BY DEF Acknowledge
  <1>2. ReportingKnows /\ ShardForm /\ CaptureKnows /\ SlotKnows /\ FilesHold'
    BY InvParts, FilesKept DEF ProcessKnows
  <1>3. /\ Fitting(product, flight, Current, slots, answers) /\ Whole(flight, Current)
        /\ flight.first = visible.first /\ AnchorSlot(flight) = AnchorSlot(visible)
        /\ shard.pending = None
    BY <1>2 DEF ReportingKnows, Stands
  <1>4. Kept(flight, Current, slots, answers')
    <2>1. Kept(flight, Current, slots, answers)
      BY <1>3 DEF Fitting
    <2>2. \A a \in answers' :
            /\ a.under = Current.config /\ a.at \in 1 .. Len(Current.done)
            /\ Current.done[a.at] = a.cmd
      BY <2>1 DEF Kept, Current
    <2> QED
      BY <2>1, <2>2 DEF Kept
  <1>5. Fitting(product, flight, Current, slots, answers')
    BY <1>3, <1>4 DEF Fitting
  <1>6. Current' = Current
    BY DEF Current
  <1>7. ReadyKnows'
    BY <1>1, <1>3, <1>5, <1>6 DEF ReadyKnows, Stands
  <1>8. LogsSound' /\ WholeParts'
    <2>1. Candidates' = {flight}
      BY <1>1 DEF Candidates
    <2>2. Current \in Histories
      BY <1>5 DEF Fitting, Tells
    <2>3. Sound(product, flight, slots, answers')
      BY <1>5, <2>2 DEF Sound
    <2> QED
      BY <1>1, <2>1, <2>3 DEF LogsSound, WholeParts
  <1>9. ModeOf' /\ ProcessKnows'
    BY <1>1, <1>7, InvParts DEF ModeOf, OpenSteps, ProcessKnows
  <1>10. CaptureKnows'
    BY <1>1, <1>2, <1>3, <1>6 DEF CaptureKnows, OpenSteps
  <1>11. SlotKnows' /\ ShardForm'
    BY <1>1, <1>2, <1>3 DEF SlotKnows, OpenSteps, ShardForm
  <1> QED
    BY <1>2, <1>8, <1>9, <1>10, <1>11 DEF Inv

LEMMA DanglingCompletedKeeps ==
  ASSUME Inv, UNCHANGED product, DanglingCompleted
  PROVE Inv'
  BY ReportAcknowledged DEF DanglingCompleted, shardVars

LEMMA ReportWrittenKeeps ==
  ASSUME Inv, UNCHANGED product, ReportWritten
  PROVE Inv'
  <1>1. /\ step = "reporting" /\ Acknowledge /\ step' = "ready"
        /\ answers' = answers \cup {Receipt(Last(shard.done))}
        /\ UNCHANGED <<shard, captured, slots, slot>>
    BY DEF ReportWritten, shardVars
  <1>2. Current \in Histories /\ Current.done # <<>>
    BY <1>1, InvParts DEF ProcessKnows, ReportingKnows, Stands, Fitting, Tells, Dangling
  <1>3. shard.done \in Seq(ShardCommands) /\ Len(shard.done) \in Nat \ {0}
    <2>1. shard.done \in Seq(ShardCommands) /\ shard.done # <<>>
      BY <1>2, HistoryTypes DEF Current
    <2> QED
      BY <2>1, EmptySeq, LenProperties
  <1>4. Receipt(Last(shard.done)) =
          [cmd |-> shard.done[Len(shard.done)], at |-> Len(shard.done), under |-> shard.config]
    BY DEF Receipt, Last
  <1>5. ASSUME NEW a \in answers' \ answers
        PROVE /\ a.under = shard.config /\ a.at \in 1 .. Len(shard.done)
              /\ shard.done[a.at] = a.cmd
    BY <1>1, <1>3, <1>4
  <1> QED
    BY <1>1, <1>5, ReportAcknowledged

LEMMA CommandWrittenKeeps ==
  ASSUME Inv, UNCHANGED product, CommandWritten
  PROVE Inv'
  <1>1. /\ step = "logging" /\ Acknowledge /\ step' = "executing"
        /\ UNCHANGED <<slots, slot, answers>> /\ shard' = shard /\ captured' = captured
        /\ mode' = "open" /\ visible' = flight
    BY DEF CommandWritten, Acknowledge, shardVars
  <1>2. LogsSound' /\ WholeParts' /\ FilesHold'
    BY <1>1, InvParts, StorageKeeps, FilesKept DEF StorageStep
  <1>3. LoggingKnows /\ ShardForm /\ CaptureKnows /\ SlotKnows
    BY <1>1, InvParts DEF ProcessKnows
  <1>4. Current' = Current /\ With(Current, shard.pending)' = With(Current, shard.pending)
    BY <1>1 DEF Current, With
  <1>5. Current \in Histories
    BY <1>3 DEF LoggingKnows, Stands, Fitting, Tells
  <1>6. ExecutingKnows'
    BY <1>1, <1>3, <1>4, <1>5 DEF LoggingKnows, ExecutingKnows, Stands
  <1>7. ModeOf' /\ ProcessKnows'
    BY <1>1, <1>6, InvParts DEF ModeOf, OpenSteps, ProcessKnows
  <1>8. CaptureKnows' /\ SlotKnows' /\ ShardForm'
    BY <1>1, <1>3, <1>4 DEF CaptureKnows, SlotKnows, ShardForm, OpenSteps, LoggingKnows
  <1> QED
    BY <1>2, <1>7, <1>8 DEF Inv

LEMMA ShardCutOverKeeps ==
  ASSUME Inv, UNCHANGED product, ShardCutOver
  PROVE Inv'
  <1>1. /\ step = "cutting" /\ Acknowledge /\ step' = "ready" /\ slot' = NextSlot
        /\ shard' = [shard EXCEPT !.epoch = @ + 1]
        /\ UNCHANGED <<captured, slots, answers>>
        /\ mode' = "open" /\ visible' = flight
    BY DEF ShardCutOver, Acknowledge
  <1>2. LogsSound' /\ WholeParts' /\ FilesHold'
    BY <1>1, InvParts, StorageKeeps, FilesKept DEF StorageStep
  <1>3. CuttingKnows /\ ShardForm /\ CaptureKnows /\ SlotKnows
    BY <1>1, InvParts DEF ProcessKnows
  <1>4. /\ shard'.config = shard.config /\ shard'.metadata = shard.metadata
        /\ shard'.done = shard.done /\ shard'.pending = shard.pending
        /\ shard'.epoch = shard.epoch + 1 /\ shard'.first = shard.first /\ ShardForm'
    BY <1>1, <1>3 DEF ShardForm
  <1>5. Current' = Current
    BY <1>4 DEF Current
  <1>6. ReadyKnows'
    BY <1>1, <1>3, <1>4, <1>5 DEF CuttingKnows, ReadyKnows, Stands
  <1>7. ModeOf' /\ ProcessKnows'
    BY <1>1, <1>6, InvParts DEF ModeOf, OpenSteps, ProcessKnows
  <1>8. SlotKnows'
    BY <1>1, <1>3, <1>4 DEF SlotKnows, OpenSteps, CuttingKnows
  <1>9. CaptureKnows'
    <2>1. SUFFICES ASSUME captured # None
                   PROVE /\ Begun(captured.checkpoint, Current)
                         /\ captured.epoch \in Nat /\ captured.epoch <= shard'.epoch
                         /\ captured.epoch # shard'.epoch
      BY <1>1, <1>5 DEF CaptureKnows, OpenSteps
    <2>2. /\ Begun(captured.checkpoint, Current)
          /\ captured.epoch \in Nat /\ captured.epoch <= shard.epoch /\ shard.epoch \in Nat
      BY <1>1, <1>3, <2>1 DEF CaptureKnows, SlotKnows, OpenSteps
    <2> DEFINE before == shard.epoch
               now == shard'.epoch
    <2>3. now = before + 1 /\ before \in Nat /\ captured.epoch <= before /\ captured.epoch \in Nat
      BY <1>4, <2>2
    <2> HIDE DEF before, now
    <2>4. captured.epoch <= now /\ captured.epoch # now
      BY <2>3
    <2> QED
      BY <2>2, <2>4 DEF now
  <1> QED
    BY <1>2, <1>4, <1>7, <1>8, <1>9 DEF Inv

----------------------------------------------------------------------------
(* Commands *)

LEMMA SubmitCommandKeeps ==
  ASSUME Inv, UNCHANGED product, NEW c \in ShardCommands, SubmitCommand(c)
  PROVE Inv'
  <1> DEFINE log == Extended(visible, <<CommandFrame(c)>>)
             next == With(Current, c)
  <1>1. /\ step = "ready" /\ c \notin Range(shard.done) /\ Write(log)
        /\ shard' = [shard EXCEPT !.pending = c] /\ step' = "logging"
        /\ UNCHANGED <<captured, slots, slot, answers>>
        /\ mode' = "writing" /\ flight' = log /\ visible' = visible
    BY DEF SubmitCommand, Write
  <1>2. ReadyKnows /\ ShardForm /\ CaptureKnows /\ SlotKnows
    BY <1>1, InvParts DEF ProcessKnows
  <1>3. Fitting(product, visible, Current, slots, answers) /\ Whole(visible, Current)
    BY <1>2 DEF ReadyKnows, Stands
  <1>4. Current \in Histories /\ Current.done = shard.done
    BY <1>3 DEF Fitting, Tells, Current
  <1>5. \A i \in 1 .. Len(Current.done) : Current.done[i] # c
    <2>1. shard.done \in Seq(ShardCommands)
      BY <1>4, HistoryTypes
    <2>2. DOMAIN shard.done = 1 .. Len(shard.done)
      BY <2>1, LenProperties
    <2> QED
      BY <1>1, <1>4, <2>2 DEF Range
  <1>6. /\ Fitting(product, log, next, slots, answers) /\ Dangling(log, next)
        /\ log.first = visible.first /\ AnchorSlot(log) = AnchorSlot(visible)
        /\ PartsOf(visible, log) = {visible, log}
    BY <1>3, <1>5, FittingCommand
  <1>7. next \in Histories
    BY <1>4, WithGoesOn DEF GoesOn
  <1> HIDE DEF log, next
  <1>8. Sound(product, log, slots, answers)
    BY <1>6, <1>7 DEF Sound
  <1>9. LogsSound' /\ WholeParts' /\ FilesHold'
    BY <1>1, <1>6, <1>8, InvParts, WriteKeeps, FilesKept
  <1>10. /\ shard'.config = shard.config /\ shard'.metadata = shard.metadata
         /\ shard'.done = shard.done /\ shard'.pending = c
         /\ shard'.epoch = shard.epoch /\ shard'.first = shard.first /\ ShardForm'
    BY <1>1, <1>2 DEF ShardForm
  <1>11. Current' = Current /\ With(Current, shard.pending)' = next
    BY <1>10 DEF Current, With, next
  <1>12. LoggingKnows'
    BY <1>1, <1>3, <1>6, <1>10, <1>11 DEF LoggingKnows, Stands
  <1>13. ModeOf' /\ ProcessKnows'
    BY <1>1, <1>12, InvParts DEF ModeOf, OpenSteps, ProcessKnows
  <1>14. CaptureKnows' /\ SlotKnows'
    BY <1>1, <1>2, <1>10, <1>11 DEF CaptureKnows, SlotKnows, OpenSteps
  <1> QED
    BY <1>9, <1>10, <1>13, <1>14 DEF Inv

LEMMA AppendedReport ==
  ASSUME NEW h \in Histories, NEW c \in ShardCommands
  PROVE /\ ReportOf(With(h, c), Len(With(h, c).done)) = Report(h.config, h.done, c)
        /\ With(h, c) \in Histories
  <1> DEFINE n == Len(h.done)
             next == With(h, c)
  <1>1. h.done \in Seq(ShardCommands) /\ n \in Nat
    BY HistoryTypes
  <1>2. /\ next.done = Append(h.done, c) /\ next.config = h.config /\ next \in Histories
        /\ Len(h.done) <= Len(next.done) /\ h.done = SubSeq(next.done, 1, Len(h.done))
    BY WithGoesOn DEF GoesOn
  <1>3. Len(next.done) = n + 1 /\ next.done[n + 1] = c
    BY <1>1, <1>2, AppendProperties
  <1>4. SubSeq(next.done, 1, n) = h.done
    BY <1>2
  <1> HIDE DEF n, next
  <1>5. (n + 1) - 1 = n
    BY <1>1
  <1>6. ReportOf(next, Len(next.done)) = Report(next.config, SubSeq(next.done, 1, n), c)
    BY <1>3, <1>5 DEF ReportOf
  <1> QED
    BY <1>2, <1>4, <1>6 DEF next

LEMMA ExecuteKeeps ==
  ASSUME Inv, UNCHANGED product, Execute
  PROVE Inv'
  <1> DEFINE c == shard.pending
             report == Report(shard.config, shard.done, c)
             log == Extended(visible, <<ReportFrame(report)>>)
             next == With(Current, c)
  <1>1. /\ step = "executing" /\ Write(log)
        /\ shard' = [shard EXCEPT !.done = Append(@, c), !.pending = None]
        /\ step' = "reporting"
        /\ UNCHANGED <<captured, slots, slot, answers>>
        /\ mode' = "writing" /\ flight' = log /\ visible' = visible
    BY DEF Execute, Write
  <1>2. ExecutingKnows /\ ShardForm /\ CaptureKnows /\ SlotKnows
    BY <1>1, InvParts DEF ProcessKnows
  <1>3. /\ c \in ShardCommands /\ Current \in Histories
        /\ Fitting(product, visible, next, slots, answers) /\ Dangling(visible, next)
    BY <1>2 DEF ExecutingKnows, Stands
  <1>4. ReportOf(next, Len(next.done)) = report /\ next \in Histories
    BY <1>3, AppendedReport DEF Current
  <1>5. /\ Fitting(product, log, next, slots, answers) /\ Whole(log, next)
        /\ log.first = visible.first /\ AnchorSlot(log) = AnchorSlot(visible)
        /\ PartsOf(visible, log) = {visible, log}
    BY <1>3, <1>4, FittingReport
  <1> HIDE DEF log, next, report
  <1>6. Sound(product, log, slots, answers)
    BY <1>4, <1>5 DEF Sound
  <1>7. LogsSound' /\ WholeParts' /\ FilesHold'
    BY <1>1, <1>5, <1>6, InvParts, WriteKeeps, FilesKept
  <1>8. /\ shard'.config = shard.config /\ shard'.metadata = shard.metadata
        /\ shard'.done = Append(shard.done, c) /\ shard'.pending = None
        /\ shard'.epoch = shard.epoch /\ shard'.first = shard.first /\ ShardForm'
    BY <1>1, <1>2 DEF ShardForm
  <1>9. Current' = next
    BY <1>8 DEF Current, With, next
  <1>10. ReportingKnows'
    BY <1>1, <1>3, <1>5, <1>8, <1>9 DEF ReportingKnows, Stands
  <1>11. ModeOf' /\ ProcessKnows'
    BY <1>1, <1>10, InvParts DEF ModeOf, OpenSteps, ProcessKnows
  <1>12. CaptureKnows'
    <2>1. \A checkpoint : Begun(checkpoint, Current) => Begun(checkpoint, next)
      BY <1>3, WithGoesOn, BegunLater DEF next
    <2> QED
      BY <1>1, <1>2, <1>8, <1>9, <2>1 DEF CaptureKnows, OpenSteps
  <1>13. SlotKnows'
    BY <1>1, <1>2, <1>8 DEF SlotKnows, OpenSteps
  <1> QED
    BY <1>7, <1>8, <1>11, <1>12, <1>13 DEF Inv

----------------------------------------------------------------------------
(* Checkpoints *)

\* A checkpoint of the shard as it is stands for all of its history.
LEMMA BegunNow ==
  ASSUME Inv, step = "ready"
  PROVE /\ Begun(CheckpointNow, Current)
        /\ CheckpointNow.generation = LastSequence(visible)
        /\ visible.first <= LastSequence(visible) /\ LastSequence(visible) \in Nat
        /\ Capture.epoch = shard.epoch /\ shard.epoch \in Nat
        /\ Capture.checkpoint = CheckpointNow
  <1>1. /\ Tells(visible, Current) /\ Whole(visible, Current) /\ shard.first = 1
        /\ shard.epoch \in Nat
    BY InvParts DEF ProcessKnows, ReadyKnows, Stands, Fitting, SlotKnows, OpenSteps
  <1>2. /\ Current \in Histories /\ LastSequence(visible) \in Nat
        /\ visible.first <= LastSequence(visible)
    BY <1>1, ToldEnds DEF Tells
  <1>3. /\ shard.config \in Configurations /\ shard.metadata \in Nat
        /\ shard.done \in Seq(ShardCommands) /\ Len(shard.done) \in Nat
    BY <1>2, HistoryTypes DEF Current
  <1>4. SubSeq(shard.done, 1, Len(shard.done)) = shard.done
    BY <1>3, SubSeqFull
  <1>5. LastSequence(visible) = shard.metadata + 2 * Len(shard.done)
    BY <1>1 DEF Whole, Current
  <1>6. CheckpointNow \in Checkpoints
    BY <1>1, <1>2, <1>3 DEF CheckpointNow, Checkpoints
  <1>7. Begun(CheckpointNow, Current)
    BY <1>1, <1>3, <1>4, <1>5, <1>6 DEF Begun, CheckpointNow, Current
  <1> QED
    BY <1>1, <1>2, <1>7 DEF CheckpointNow, Capture

\* What a holder may use stands for a beginning of the history, behind which
\* the log still has every frame.
LEMMA UsableStands ==
  ASSUME Inv, step = "ready", NEW capture, Usable(capture)
  PROVE /\ Begun(capture.checkpoint, Current)
        /\ visible.first <= capture.checkpoint.generation
        /\ capture.checkpoint.generation <= LastSequence(visible)
  <1>1. CASE captured # None /\ capture = captured /\ ValidVerified(captured)
    BY <1>1, InvParts DEF CaptureKnows, OpenSteps, ValidVerified
  <1>2. CASE capture = Capture
    <2>1. LastSequence(visible) <= LastSequence(visible)
      BY BegunNow
    <2> QED
      BY <1>2, <2>1, BegunNow
  <1> QED
    BY <1>1, <1>2 DEF Usable

\* A shard that stays ready while its log is synchronized.
LEMMA ReadySynchronized ==
  ASSUME Inv, UNCHANGED <<product, shard, slot, answers>>, step = "ready", step' = "ready",
         SyncLog, FilesHold', Fitting(product, visible, Current, slots', answers), CaptureKnows'
  PROVE Inv'
  <1>1. visible' = visible /\ mode' = "open"
    BY DEF SyncLog
  <1>2. Current' = Current
    BY DEF Current
  <1>3. Current \in Histories
    BY DEF Fitting, Tells
  <1>4. Sound(product, visible, slots', answers')
    BY <1>3 DEF Sound
  <1>5. LogsSound' /\ WholeParts'
    BY <1>4, SyncKeeps
  <1>6. ReadyKnows'
    BY <1>1, <1>2, InvParts DEF ProcessKnows, ReadyKnows, Stands
  <1>7. ModeOf' /\ ProcessKnows' /\ SlotKnows' /\ ShardForm'
    BY <1>1, <1>6, InvParts DEF ModeOf, OpenSteps, ProcessKnows, SlotKnows, ShardForm
  <1> QED
    BY <1>5, <1>7 DEF Inv

LEMMA CaptureCheckpointKeeps ==
  ASSUME Inv, UNCHANGED product, CaptureCheckpoint
  PROVE Inv'
  <1>1. /\ step = "ready" /\ step' = "ready" /\ SyncLog /\ captured' = Capture
        /\ UNCHANGED <<shard, slots, slot, answers>> /\ visible' = visible
    BY DEF CaptureCheckpoint, SyncLog
  <1>2. FilesHold' /\ Fitting(product, visible, Current, slots', answers)
    BY <1>1, InvParts, FilesKept DEF ProcessKnows, ReadyKnows, Stands
  <1>3. CaptureKnows'
    <2>1. Current' = Current
      BY <1>1 DEF Current
    <2>2. /\ Begun(Capture.checkpoint, Current) /\ Capture.epoch = shard.epoch
          /\ shard.epoch \in Nat /\ visible.first <= Capture.checkpoint.generation
      BY <1>1, BegunNow
    <2>3. Capture.epoch <= shard.epoch
      BY <2>2
    <2> QED
      BY <1>1, <2>1, <2>2, <2>3 DEF CaptureKnows, OpenSteps
  <1> QED
    BY <1>1, <1>2, <1>3, ReadySynchronized

\* What a write leaves at the path it writes to, and elsewhere.
LEMMA WrittenFile ==
  ASSUME FilesHold, NEW path \in SnapshotPaths, NEW content,
         NEW after \in HalfStored(slots, path, content) \cup {Stored(slots, path, content)}
  PROVE /\ FilesForm(after)
        /\ \A other \in SnapshotPaths : other # path => after[other] = slots[other]
        /\ after[path].may \cup {after[path].now} \subseteq
              slots[path].may \cup {slots[path].now, content}
  <1>1. slots = [other \in SnapshotPaths |-> [now |-> slots[other].now, may |-> slots[other].may]]
    BY DEF FilesHold, FilesForm
  <1>2. CASE after = Stored(slots, path, content)
    <2>1. after = [slots EXCEPT ![path] = [now |-> content, may |-> {content}]]
      BY <1>2 DEF Stored
    <2>2. after[path] = [now |-> content, may |-> {content}]
      BY <1>1, <2>1
    <2>3. \A other \in SnapshotPaths : other # path => after[other] = slots[other]
      BY <1>1, <2>1
    <2>4. \A other \in SnapshotPaths : after[other] = [now |-> after[other].now, may |-> after[other].may]
      <3>1. \A other \in SnapshotPaths : slots[other] = [now |-> slots[other].now, may |-> slots[other].may]
        BY <1>1
      <3> QED
        BY <2>2, <2>3, <3>1
    <2>5. after = [other \in SnapshotPaths |-> after[other]]
      BY <1>1, <2>1
    <2> QED
      BY <2>2, <2>3, <2>4, <2>5 DEF FilesForm
  <1>3. CASE after \in HalfStored(slots, path, content)
    <2>1. PICK left \in {slots[path].now, content} :
            after = [slots EXCEPT ![path] = [now |-> left, may |-> @.may \cup {content}]]
      BY <1>3 DEF HalfStored
    <2>2. after[path] = [now |-> left, may |-> slots[path].may \cup {content}]
      BY <1>1, <2>1
    <2>3. \A other \in SnapshotPaths : other # path => after[other] = slots[other]
      BY <1>1, <2>1
    <2>4. \A other \in SnapshotPaths : after[other] = [now |-> after[other].now, may |-> after[other].may]
      <3>1. \A other \in SnapshotPaths : slots[other] = [now |-> slots[other].now, may |-> slots[other].may]
        BY <1>1
      <3> QED
        BY <2>2, <2>3, <3>1
    <2>5. after = [other \in SnapshotPaths |-> after[other]]
      BY <1>1, <2>1
    <2> QED
      BY <2>1, <2>2, <2>3, <2>4, <2>5 DEF FilesForm
  <1> QED
    BY <1>2, <1>3

\* A begun checkpoint verifies.
LEMMA BegunVerifies ==
  ASSUME NEW checkpoint, NEW h, Begun(checkpoint, h)
  PROVE checkpoint \in Checkpoints /\ checkpoint.first = 1 /\ Verifies(checkpoint)
  BY DEF Begun, Verifies

\* A log is not disturbed by a write to a slot it does not name.
LEMMA OtherSlotWritten ==
  ASSUME FilesHold, NEW log, NEW h, Fitting(product, log, h, slots, answers),
         NEW s \in Slots, AnchorSlot(log) # s, NEW content,
         NEW after \in HalfStored(slots, s, content) \cup {Stored(slots, s, content)}
  PROVE /\ Fitting(product, log, h, after, answers)
        /\ BaseContents(after) = BaseContents(slots)
        /\ FilesForm(after)
  <1>1. /\ FilesForm(after)
        /\ \A other \in SnapshotPaths : other # s => after[other] = slots[other]
    <2>1. s \in SnapshotPaths
      BY DEF SnapshotPaths
    <2> QED
      BY <2>1, WrittenFile
  <1>2. BaseContents(after) = BaseContents(slots)
    BY <1>1 DEF BaseContents, SnapshotPaths, Slots
  <1>3. IsAnchor(log.bodies[1]) => after[log.bodies[1].anchor] = slots[log.bodies[1].anchor]
    <2>1. Tells(log, h)
      BY DEF Fitting
    <2> QED
      BY <1>1, <2>1, AnchorNamed DEF SnapshotPaths
  <1>4. Fitting(product, log, h, after, answers)
    BY <1>2, <1>3, FittingFiles
  <1> QED
    BY <1>1, <1>2, <1>4

LEMMA NextSlotFree ==
  ASSUME Inv, step = "ready"
  PROVE NextSlot \in Slots /\ AnchorSlot(visible) # NextSlot
  <1>1. slot = AnchorSlot(visible)
    BY InvParts DEF SlotKnows, OpenSteps
  <1>2. NextSlot \in Slots /\ NextSlot # slot
    <2>1. None # "A"
      BY NoneAssumption DEF Slots
    <2> QED
      BY <2>1 DEF NextSlot, Alternate, Slots
  <1> QED
    BY <1>1, <1>2

LEMMA WriteVerifiedKeeps ==
  ASSUME Inv, UNCHANGED product, NEW capture, WriteVerified(capture)
  PROVE Inv'
  <1> DEFINE checkpoint == capture.checkpoint
  <1>1. /\ step = "ready" /\ step' = "ready" /\ SyncLog /\ Usable(capture)
        /\ slots' \in HalfStored(slots, "base", checkpoint) \cup {Stored(slots, "base", checkpoint)}
        /\ UNCHANGED <<shard, captured, slot, answers>> /\ visible' = visible
    BY DEF WriteVerified, SyncLog, shardVars
  <1>2. /\ Begun(checkpoint, Current) /\ checkpoint.generation <= LastSequence(visible)
        /\ FilesHold /\ Fitting(product, visible, Current, slots, answers)
    BY <1>1, UsableStands, InvParts DEF ProcessKnows, ReadyKnows, Stands
  <1> HIDE DEF checkpoint
  <1>3. /\ FilesForm(slots')
        /\ \A other \in SnapshotPaths : other # "base" => slots'[other] = slots[other]
        /\ slots'["base"].may \cup {slots'["base"].now} \subseteq
              slots["base"].may \cup {slots["base"].now, checkpoint}
    <2>1. "base" \in SnapshotPaths
      BY DEF SnapshotPaths
    <2> QED
      BY <1>1, <1>2, <2>1, WrittenFile
  <1>4. BaseContents(slots') \subseteq BaseContents(slots) \cup {checkpoint}
    BY <1>3 DEF BaseContents
  <1>5. FilesHold'
    <2>1. BaseVerified(slots')
      <3>1. product = "auction" => checkpoint.config.profiles = <<>>
        BY <1>2 DEF Begun, Fitting
      <3> QED
        BY <1>2, <1>4, <3>1, BegunVerifies DEF FilesHold, BaseVerified
    <2>2. BaseVerified(slots)'
      BY <2>1 DEF BaseVerified, BaseContents, Verifies
    <2> QED
      BY <1>3, <2>2 DEF FilesHold, FilesForm
  <1>6. IsAnchor(visible.bodies[1]) => slots'[visible.bodies[1].anchor] = slots[visible.bodies[1].anchor]
    <2>1. Tells(visible, Current) /\ \A s \in Slots : s \in SnapshotPaths /\ s # "base"
      BY <1>2 DEF Fitting, SnapshotPaths, Slots
    <2> QED
      BY <1>3, <2>1, AnchorNamed
  <1>7. Fitting(product, visible, Current, slots', answers)
    BY <1>2, <1>4, <1>6, FittingFiles
  <1>8. CaptureKnows'
    BY <1>1, InvParts DEF CaptureKnows, OpenSteps, Current
  <1> QED
    BY <1>1, <1>5, <1>7, <1>8, ReadySynchronized

LEMMA CompactVerifiedFailsKeeps ==
  ASSUME Inv, UNCHANGED product, NEW capture, CompactVerifiedFails(capture)
  PROVE Inv'
  <1>1. /\ step = "ready" /\ step' = "ready" /\ SyncLog
        /\ slots' \in HalfStored(slots, NextSlot, capture.checkpoint)
        /\ UNCHANGED <<shard, captured, slot, answers>> /\ visible' = visible
    BY DEF CompactVerifiedFails, SyncLog, shardVars
  <1>2. FilesHold /\ Fitting(product, visible, Current, slots, answers)
    BY <1>1, InvParts DEF ProcessKnows, ReadyKnows, Stands
  <1>3. /\ Fitting(product, visible, Current, slots', answers)
        /\ BaseContents(slots') = BaseContents(slots)
        /\ FilesForm(slots')
    BY <1>1, <1>2, NextSlotFree, OtherSlotWritten
  <1>4. FilesHold'
    <2>1. BaseVerified(slots')
      BY <1>2, <1>3 DEF FilesHold, BaseVerified
    <2>2. BaseVerified(slots)'
      BY <2>1 DEF BaseVerified, BaseContents, Verifies
    <2> QED
      BY <1>3, <2>2 DEF FilesHold, FilesForm
  <1>5. CaptureKnows'
    BY <1>1, InvParts DEF CaptureKnows, OpenSteps, Current
  <1> QED
    BY <1>1, <1>3, <1>4, <1>5, ReadySynchronized

LEMMA CompactVerifiedKeeps ==
  ASSUME Inv, UNCHANGED product, NEW capture, CompactVerified(capture)
  PROVE Inv'
  <1> DEFINE checkpoint == capture.checkpoint
             at == checkpoint.generation
             anchor == AnchorTo(NextSlot, checkpoint, at, at)
             log == Replaced(visible, at, anchor)
  <1>1. /\ step = "ready" /\ Usable(capture)
        /\ slots' = Stored(slots, NextSlot, checkpoint)
        /\ flight' = log /\ images' = {visible} /\ mode' = "writing" /\ visible' = visible
        /\ step' = "cutting" /\ UNCHANGED <<shard, captured, slot, answers>>
    BY DEF CompactVerified, shardVars
  <1> HIDE DEF checkpoint
  <1>2. /\ FilesHold /\ Fitting(product, visible, Current, slots, answers)
        /\ Whole(visible, Current) /\ shard.pending = None
        /\ Tells(visible, Current) /\ Current \in Histories
    BY <1>1, InvParts DEF ProcessKnows, ReadyKnows, Stands, Fitting, Tells
  <1>3. /\ Begun(checkpoint, Current) /\ visible.first <= at /\ at <= LastSequence(visible)
        /\ NextSlot \in Slots /\ AnchorSlot(visible) # NextSlot
    BY <1>1, UsableStands, NextSlotFree DEF checkpoint
  <1>4. /\ Tells(log, Current) /\ LastSequence(log) = LastSequence(visible)
        /\ log.bodies[1] = anchor /\ PartsOf(visible, log) = {visible, log}
    <2>1. log = CutTo(visible, NextSlot, checkpoint) /\ anchor = CutAnchor(NextSlot, checkpoint)
      BY DEF CutTo, CutAnchor
    <2> HIDE DEF log, anchor
    <2> QED
      BY <1>2, <1>3, <2>1, CutOverTold
  <1>5. /\ Fitting(product, visible, Current, slots', answers)
        /\ BaseContents(slots') = BaseContents(slots)
        /\ FilesForm(slots')
    BY <1>1, <1>2, <1>3, OtherSlotWritten
  <1>6. checkpoint \in Checkpoints /\ at \in Nat
    BY <1>3, CheckpointTypes DEF Begun
  <1>7. IsAnchor(anchor) /\ anchor.anchor = NextSlot /\ anchor.sum = checkpoint
    BY <1>3, <1>6, AnchorTypes
  <1> HIDE DEF log, anchor, at
  <1>8. Fitting(product, log, Current, slots', answers)
    <2>1. slots'[NextSlot] = [now |-> checkpoint, may |-> {checkpoint}]
      <3>1. NextSlot \in DOMAIN slots
        BY <1>2, <1>3 DEF FilesHold, FilesForm, SnapshotPaths
      <3> QED
        BY <1>1, <3>1 DEF Stored
    <2>2. SlotHolds(log, slots')
      BY <1>4, <1>7, <2>1 DEF SlotHolds
    <2>3. Kept(log, Current, slots', answers)
      BY <1>4, <1>5 DEF Fitting, Kept
    <2> QED
      BY <1>4, <1>5, <2>2, <2>3 DEF Fitting
  <1>9. Whole(log, Current)
    BY <1>2, <1>4 DEF Whole
  <1>10. AnchorSlot(log) = NextSlot
    BY <1>4, <1>7, AnchorNamed
  <1>11. FilesHold'
    <2>1. BaseVerified(slots')
      BY <1>2, <1>5 DEF FilesHold, BaseVerified
    <2>2. BaseVerified(slots)'
      BY <2>1 DEF BaseVerified, BaseContents, Verifies
    <2> QED
      BY <1>5, <2>2 DEF FilesHold, FilesForm
  <1>12. LogsSound' /\ WholeParts'
    <2>1. Candidates' = {visible, log}
      BY <1>1 DEF Candidates
    <2>2. Sound(product, visible, slots', answers) /\ Sound(product, log, slots', answers)
      BY <1>2, <1>5, <1>8 DEF Sound
    <2> QED
      BY <1>1, <1>4, <2>1, <2>2 DEF LogsSound, WholeParts
  <1>13. Current' = Current /\ NextSlot' = NextSlot
    BY <1>1 DEF Current, NextSlot
  <1>14. CuttingKnows'
    BY <1>1, <1>2, <1>5, <1>8, <1>9, <1>10, <1>13 DEF CuttingKnows, ReadyKnows, Stands
  <1>15. ModeOf' /\ ProcessKnows'
    BY <1>1, <1>14, InvParts DEF ModeOf, OpenSteps, ProcessKnows
  <1>16. CaptureKnows' /\ SlotKnows' /\ ShardForm'
    BY <1>1, <1>13, InvParts DEF CaptureKnows, SlotKnows, ShardForm, OpenSteps
  <1> QED
    BY <1>11, <1>12, <1>15, <1>16 DEF Inv

----------------------------------------------------------------------------
(* Opening *)

\* A log with a body in it tells a history.
LEMMA SoundTells ==
  ASSUME Inv, visible.bodies # <<>>
  PROVE \E h \in Histories : Stands(visible, h)
  <1>1. Sound(product, visible, slots, answers)
    BY InvParts DEF LogsSound, Candidates
  <1> QED
    BY <1>1 DEF Sound, Blank, EmptyLog, Stands

LEMMA DefiningKeeps ==
  ASSUME Inv, UNCHANGED <<product, shard, captured, slots, slot, answers>>,
         step = "opening", step' = "defining", NEW log, Write(log),
         PartsOf(visible, log) = {visible, log}, Sound(product, log, slots, answers)
  PROVE Inv'
  <1>1. mode' = "writing"
    BY DEF Write
  <1>2. LogsSound' /\ WholeParts' /\ FilesHold'
    BY InvParts, WriteKeeps, FilesKept
  <1>3. OpeningKnows'
    BY InvParts DEF ProcessKnows, OpeningKnows
  <1>4. ModeOf' /\ ProcessKnows' /\ CaptureKnows' /\ SlotKnows' /\ ShardForm'
    BY <1>1, <1>3, InvParts
       DEF ModeOf, OpenSteps, ProcessKnows, CaptureKnows, SlotKnows, ShardForm
  <1> QED
    BY <1>2, <1>4 DEF Inv

LEMMA WriteDefinitionKeeps ==
  ASSUME Inv, UNCHANGED product, WriteDefinition
  PROVE Inv'
  <1> DEFINE d == shard.config.definition
             log == Extended(EmptyLog, <<DefinitionFrame(d)>>)
             h == [config |-> [definition |-> d, profiles |-> <<>>], metadata |-> 1, done |-> <<>>]
  <1>1. /\ step = "opening" /\ visible.bodies = <<>> /\ step' = "defining"
        /\ Write(Extended(visible, <<DefinitionFrame(d)>>))
        /\ UNCHANGED <<shard, captured, slots, slot, answers>>
    BY DEF WriteDefinition, shardVars
  <1>2. visible = EmptyLog /\ Unused(slots, answers)
    <2>1. Sound(product, visible, slots, answers)
      BY InvParts DEF LogsSound, Candidates
    <2> QED
      BY <1>1, <2>1 DEF Sound, Blank, Fitting, Tells
  <1>3. d \in Definitions
    BY <1>1, InvParts DEF ProcessKnows, OpeningKnows, Configurations
  <1>4. Tells(log, h) /\ ~IsAnchor(log.bodies[1])
    BY <1>3, DefinitionTold
  <1>5. PartsOf(visible, log) = {visible, log}
    <2>1. EmptyLog \in Logs
      BY DEF EmptyLog, Logs, LogsOf
    <2> QED
      BY <1>2, <1>3, <2>1, FrameTypes, ExtendedParts
  <1>6. Kept(log, h, slots, answers)
    BY <1>2, UnusedKept
  <1>7. h.config.profiles = <<>>
    OBVIOUS
  <1>8. Write(log)
    BY <1>1, <1>2
  <1> HIDE DEF log, h
  <1>9. Sound(product, log, slots, answers)
    BY <1>4, <1>6, <1>7 DEF Sound, Fitting, SlotHolds, Tells
  <1> QED
    BY <1>1, <1>5, <1>8, <1>9, DefiningKeeps

LEMMA WriteProfileKeeps ==
  ASSUME Inv, UNCHANGED product, WriteProfile
  PROVE Inv'
  <1> DEFINE p == shard.config.profiles[Len(PersistedProfiles(visible)) + 1]
             log == Extended(visible, <<ProfileFrame(p)>>)
  <1>1. /\ step = "opening" /\ LacksProfiles(visible, shard.config) /\ step' = "defining"
        /\ Write(log) /\ UNCHANGED <<shard, captured, slots, slot, answers>>
    BY DEF WriteProfile, shardVars
  <1>2. /\ shard.config \in Configurations
        /\ product = "auction" => shard.config.profiles = <<>>
    BY <1>1, InvParts DEF ProcessKnows, OpeningKnows
  <1>3. PICK h \in Histories : Stands(visible, h)
    BY <1>1, SoundTells DEF LacksProfiles
  <1>4. Tells(visible, h) /\ Kept(visible, h, slots, answers)
    BY <1>3 DEF Stands, Fitting
  <1>5. /\ ~IsAnchor(visible.bodies[1]) /\ h.done = <<>>
        /\ shard.config.profiles # <<>> /\ p \in Profiles
    BY <1>1, <1>2, <1>4, ProfileLacking
  <1> HIDE DEF p
  <1>6. Tells(log, WithProfile(h, p)) /\ ~IsAnchor(log.bodies[1])
    BY <1>4, <1>5, ProfileTold
  <1>7. PartsOf(visible, log) = {visible, log}
    BY <1>4, <1>5, FrameTypes, ExtendedSlot
  <1> HIDE DEF log
  <1>8. Kept(log, WithProfile(h, p), slots, answers)
    BY <1>4, <1>5, KeptNothing, UnusedKept
  <1>9. product # "auction"
    BY <1>2, <1>5
  <1>10. Sound(product, log, slots, answers)
    BY <1>6, <1>8, <1>9 DEF Sound, Fitting, SlotHolds, Tells
  <1> QED
    BY <1>1, <1>7, <1>10, DefiningKeeps

\* What a log opens with is the configuration it tells, and the checkpoint
\* that replay starts from stands for a beginning of its history.
LEMMA OpenedAsTold ==
  ASSUME Inv, NEW h \in Histories, Stands(visible, h), visible.bodies # <<>>,
         shard.config \in Configurations,
         product = "auction" => shard.config.profiles = <<>>,
         Opens(visible, slots, shard.config, shard.source)
  PROVE LET checkpoint == Selected(visible, slots, shard.source) IN
        /\ shard.config = h.config
        /\ checkpoint # None =>
             Begun(checkpoint, h) /\ checkpoint.generation <= LastSequence(visible)
        /\ IsAnchor(visible.bodies[1]) =>
             checkpoint # None /\ checkpoint.generation = visible.first
        /\ ~IsAnchor(visible.bodies[1]) =>
             visible.first = 1 /\ h.metadata = visible.first + Len(shard.config.profiles)
  <1> DEFINE checkpoint == Selected(visible, slots, shard.source)
             head == visible.bodies[1]
  <1>1. /\ Tells(visible, h) /\ SlotHolds(visible, slots) /\ Kept(visible, h, slots, answers)
        /\ product = "auction" => h.config.profiles = <<>>
        /\ h.config \in Configurations /\ product \in Products
    BY InvParts, HistoryTypes DEF Stands, Fitting
  <1>2. CASE IsAnchor(head)
    <2>1. /\ head = AnchorTo(head.anchor, head.sum, visible.first, visible.first)
          /\ Begun(head.sum, h) /\ head.sum.generation = visible.first
      BY <1>1, <1>2, HeadIsDefinition DEF AnchorTold
    <2>2. checkpoint = head.sum
      BY <1>2 DEF Selected
    <2>3. head.sum.config = h.config /\ head.sum # None /\ visible.first <= LastSequence(visible)
      BY <1>1, <2>1, NoneAssumption, ToldEnds DEF Begun
    <2>4. shard.config.definition = h.config.definition
      BY <1>1, <1>2, <2>3
         DEF Opens, RiskOpens, AuctionOpens, CoupledOpens, CoupledAnchorOpens, RiskBinding,
             CoupledBinding, Products
    <2>5. shard.config.profiles = h.config.profiles
      BY <1>1, <1>2, <2>3
         DEF Opens, RiskOpens, AuctionOpens, CoupledOpens, CoupledAnchorOpens, RiskBinding,
             CoupledBinding, Products
    <2>6. shard.config = h.config
      BY <1>1, <2>4, <2>5, SameConfiguration
    <2> HIDE DEF checkpoint, head
    <2> QED
      BY <1>2, <2>1, <2>2, <2>3, <2>6 DEF checkpoint, head
  <1>3. CASE ~IsAnchor(head)
    <2>1. /\ MetadataTold(visible, h) /\ PersistedProfiles(visible) = h.config.profiles
          /\ head.kind = "definition" /\ head.value = h.config.definition
      BY <1>1, <1>3, ProfilesFound, HeadIsDefinition
    <2>2. shard.config.definition = h.config.definition
      BY <1>1, <1>3, <2>1
         DEF Opens, RiskOpens, AuctionOpens, CoupledOpens, DefinedAs, Products
    <2>3. shard.config.profiles = h.config.profiles
      BY <1>1, <1>3, <2>1
         DEF Opens, RiskOpens, AuctionOpens, CoupledOpens, DefinedAs, Products
    <2>4. shard.config = h.config
      BY <1>1, <2>2, <2>3, SameConfiguration
    <2>5. visible.first = 1 /\ h.metadata = visible.first + Len(shard.config.profiles)
      BY <2>1, <2>3 DEF MetadataTold
    <2>6. ASSUME checkpoint # None
          PROVE Begun(checkpoint, h) /\ checkpoint.generation <= LastSequence(visible)
      <3>1. shard.source /\ checkpoint = slots["base"].now
        BY <1>3, <2>6 DEF Selected
      <3> HIDE DEF checkpoint
      <3>2. checkpoint \in BaseContents(slots) \ {None}
        BY <2>6, <3>1 DEF BaseContents
      <3>3. /\ checkpoint \in Checkpoints /\ checkpoint.first = 1 /\ Verifies(checkpoint)
            /\ product = "auction" => checkpoint.config.profiles = <<>>
        BY <3>2, InvParts DEF FilesHold, BaseVerified
      <3>4. CASE checkpoint.done # <<>>
        BY <1>1, <3>2, <3>4 DEF Kept
      <3>5. CASE checkpoint.done = <<>>
        <4>1. checkpoint.config.definition = h.config.definition
          BY <1>1, <1>3, <2>2, <3>1
             DEF Opens, RiskOpens, AuctionOpens, CoupledOpens, RiskBinding, CoupledBinding, Products
        <4>2. checkpoint.config.profiles = h.config.profiles
          BY <1>1, <1>3, <2>3, <3>1, <3>3
             DEF Opens, RiskOpens, AuctionOpens, CoupledOpens, RiskBinding, CoupledBinding, Products
        <4>3. checkpoint.metadata = h.metadata
          <5>1. CASE product = "auction"
            <6>1. checkpoint.metadata = visible.first /\ Len(shard.config.profiles) = 0
              BY <1>3, <3>1, <5>1 DEF Opens, AuctionOpens
            <6> QED
              BY <2>5, <6>1
          <5>2. CASE product # "auction"
            BY <1>1, <1>3, <2>5, <3>1, <5>2
               DEF Opens, RiskOpens, CoupledOpens, RiskBinding, CoupledBinding, Products
          <5> QED
            BY <5>1, <5>2
        <4>4. checkpoint.config = h.config
          BY <1>1, <3>3, <4>1, <4>2, CheckpointTypes, SameConfiguration
        <4>5. /\ Len(checkpoint.done) = 0 /\ Len(h.done) \in Nat
              /\ h.done \in Seq(ShardCommands) /\ h.metadata \in Nat
          BY <3>5, HistoryTypes
        <4>6. SubSeq(h.done, 1, 0) = <<>>
          <5>1. 0 \in 0 .. Len(h.done)
            BY <4>5
          <5>2. SubSeq(h.done, 1, 0) \in Seq(ShardCommands) /\ Len(SubSeq(h.done, 1, 0)) = 0
            BY <4>5, <5>1, Beginning
          <5> QED
            BY <5>2, EmptySeq
        <4>7. checkpoint.generation = checkpoint.metadata + 2 * Len(checkpoint.done)
          BY <3>3 DEF Verifies
        <4>8. checkpoint.generation = h.metadata /\ h.metadata <= LastSequence(visible)
          BY <1>1, <4>3, <4>5, <4>7, ToldEnds
        <4>9. Begun(checkpoint, h)
          BY <3>3, <3>5, <4>3, <4>4, <4>5, <4>6, <4>7 DEF Begun
        <4> QED
          BY <4>8, <4>9
      <3> QED
        BY <3>4, <3>5
    <2> HIDE DEF checkpoint, head
    <2> QED
      BY <1>3, <2>4, <2>5, <2>6 DEF checkpoint, head
  <1> QED
    BY <1>2, <1>3

LEMMA ExamineKeeps ==
  ASSUME Inv, UNCHANGED product, Examine
  PROVE Inv'
  <1>1. /\ step = "opening" /\ visible.bodies # <<>>
        /\ UNCHANGED <<slots, answers>>
    BY DEF Examine
  <1>2. CASE ~Opens(visible, slots, shard.config, shard.source)
    <2>1. DropLog /\ Ended /\ mode' = "closed"
      BY <1>2 DEF Examine, DropLog
    <2>2. LogsSound' /\ WholeParts' /\ FilesHold'
      BY <1>1, <2>1, InvParts, StorageKeeps, FilesKept DEF StorageStep
    <2> QED
      BY <2>1, <2>2, InvParts, DownKeeps
  <1>3. CASE Opens(visible, slots, shard.config, shard.source)
    <2> DEFINE checkpoint == Selected(visible, slots, shard.source)
               head == visible.bodies[1]
               first == IF IsAnchor(head) THEN checkpoint.first ELSE visible.first
               metadata == IF IsAnchor(head) THEN checkpoint.metadata
                           ELSE visible.first + Len(shard.config.profiles)
               done == IF checkpoint = None THEN <<>> ELSE checkpoint.done
               at == 1 + IF IsAnchor(head) THEN visible.first ELSE metadata
    <2>1. /\ step' = "replaying" /\ slot' = AnchorSlot(visible)
          /\ shard' = [shard EXCEPT !.first = first, !.metadata = metadata, !.base = checkpoint,
                                    !.done = done, !.at = at]
          /\ UNCHANGED <<visible, images, flight, mode, captured>>
      BY <1>3 DEF Examine, logVars
    <2>2. ShardForm /\ OpeningKnows /\ CaptureKnows
      BY <1>1, InvParts DEF ProcessKnows
    <2> HIDE DEF checkpoint, head, first, metadata, done, at
    <2>3. /\ shard'.config = shard.config /\ shard'.first = first /\ shard'.metadata = metadata
          /\ shard'.base = checkpoint /\ shard'.done = done /\ shard'.at = at
          /\ shard'.pending = None /\ shard'.epoch = 0 /\ ShardForm'
      BY <2>1, <2>2 DEF ShardForm, OpeningKnows
    <2>4. PICK h \in Histories : Stands(visible, h)
      BY <1>1, SoundTells
    <2>5. /\ shard.config = h.config
          /\ checkpoint # None =>
               Begun(checkpoint, h) /\ checkpoint.generation <= LastSequence(visible)
          /\ IsAnchor(head) => checkpoint # None /\ checkpoint.generation = visible.first
          /\ ~IsAnchor(head) =>
               visible.first = 1 /\ h.metadata = visible.first + Len(shard.config.profiles)
      BY <1>1, <1>3, <2>2, <2>4, OpenedAsTold DEF OpeningKnows, checkpoint, head
    <2>6. metadata = h.metadata /\ first = 1
      BY <2>5 DEF metadata, first, Begun
    <2>7. /\ visible.first \in Nat \ {0} /\ LastSequence(visible) \in Nat /\ h.metadata \in Nat
          /\ visible.first <= LastSequence(visible) /\ h.metadata <= LastSequence(visible)
          /\ h.done \in Seq(ShardCommands) /\ Len(h.done) \in Nat /\ h.metadata >= 1
      <3>1. Tells(visible, h)
        BY <2>4 DEF Stands, Fitting
      <3>2. h.metadata \in Nat \ {0} /\ h.done \in Seq(ShardCommands) /\ Len(h.done) \in Nat
        BY HistoryTypes
      <3> QED
        BY <3>1, <3>2, ToldEnds
    <2> DEFINE n == Len(checkpoint.done)
               generation == checkpoint.generation
    <2>8. checkpoint # None =>
            /\ generation = h.metadata + 2 * n /\ n \in Nat /\ n <= Len(h.done)
            /\ checkpoint.done = SubSeq(h.done, 1, n)
      BY <2>5, CheckpointTypes DEF Begun
    <2> HIDE DEF n, generation
    <2>9. at = 1 + IF IsAnchor(head) THEN visible.first ELSE h.metadata
      BY <2>6 DEF at
    <2>10. /\ at \in Nat /\ visible.first < at /\ h.metadata < at
           /\ at <= LastSequence(visible) + 1
      <3>1. CASE IsAnchor(head)
        <4>1. /\ generation = visible.first /\ generation = h.metadata + 2 * n /\ n \in Nat
          BY <2>5, <2>8, <3>1 DEF generation
        <4>2. at = 1 + visible.first
          BY <2>9, <3>1
        <4>3. h.metadata <= visible.first
          BY <2>7, <4>1
        <4> QED
          BY <2>7, <4>2, <4>3
      <3>2. CASE ~IsAnchor(head)
        <4>1. at = 1 + h.metadata /\ visible.first = 1
          BY <2>5, <2>9, <3>2
        <4> QED
          BY <2>7, <4>1
      <3> QED
        BY <3>1, <3>2
    <2>11. ~(checkpoint # None /\ at - 1 < generation) =>
             \E k \in 0 .. Len(h.done) : at - 1 = ReportAt(h, k) /\ done = SubSeq(h.done, 1, k)
      <3> SUFFICES ASSUME ~(checkpoint # None /\ at - 1 < generation)
                   PROVE \E k \in 0 .. Len(h.done) :
                            at - 1 = ReportAt(h, k) /\ done = SubSeq(h.done, 1, k)
        OBVIOUS
      <3>1. CASE checkpoint = None
        <4>1. at = 1 + h.metadata /\ done = <<>>
          BY <2>5, <2>9, <3>1 DEF done
        <4>2. 0 \in 0 .. Len(h.done)
          BY <2>7
        <4>3. SubSeq(h.done, 1, 0) \in Seq(ShardCommands) /\ Len(SubSeq(h.done, 1, 0)) = 0
          BY <2>7, <4>2, Beginning
        <4>4. SubSeq(h.done, 1, 0) = <<>>
          BY <4>3, EmptySeq
        <4>5. at - 1 = ReportAt(h, 0)
          BY <2>7, <4>1 DEF ReportAt
        <4> QED
          BY <4>1, <4>2, <4>4, <4>5
      <3>2. CASE checkpoint # None
        <4>1. /\ generation = h.metadata + 2 * n /\ n \in Nat /\ n <= Len(h.done)
              /\ done = SubSeq(h.done, 1, n) /\ ~(at - 1 < generation)
          BY <2>8, <3>2 DEF done
        <4>2. n \in 0 .. Len(h.done)
          BY <2>7, <4>1
        <4>3. at - 1 = generation
          <5>1. CASE IsAnchor(head)
            <6>1. at = 1 + visible.first /\ generation = visible.first
              BY <2>5, <2>9, <5>1 DEF generation
            <6> QED
              BY <2>7, <6>1
          <5>2. CASE ~IsAnchor(head)
            <6>1. at = 1 + h.metadata
              BY <2>9, <5>2
            <6> QED
              BY <2>7, <4>1, <6>1
          <5> QED
            BY <5>1, <5>2
        <4>4. at - 1 = ReportAt(h, n)
          BY <4>1, <4>3 DEF ReportAt
        <4> QED
          BY <4>1, <4>2, <4>4
      <3> QED
        BY <3>1, <3>2
    <2>12. checkpoint # None => done = checkpoint.done
      BY DEF done
    <2>13. ReplayedTo(h)'
      BY <2>3, <2>11, <2>12 DEF ReplayedTo, generation
    <2>14. Replaying(h)'
      BY <1>1, <2>1, <2>3, <2>4, <2>5, <2>6, <2>10, <2>13 DEF Replaying, Stands
    <2>15. LogsSound' /\ WholeParts' /\ FilesHold'
      <3>1. Candidates' = Candidates
        BY <2>1 DEF Candidates
      <3>2. LogsSound'
        BY <1>1, <3>1, InvParts DEF LogsSound
      <3>3. WholeParts'
        BY <2>1, InvParts DEF WholeParts
      <3> QED
        BY <1>1, <3>2, <3>3, InvParts, FilesKept
    <2>16. ProcessKnows'
      BY <2>1, <2>14 DEF ProcessKnows
    <2>17. ModeOf' /\ CaptureKnows'
      BY <1>1, <2>1, <2>2, InvParts DEF ModeOf, OpenSteps, CaptureKnows
    <2>18. SlotKnows'
      BY <2>1, <2>3, <2>6 DEF SlotKnows, OpenSteps
    <2> QED
      BY <2>3, <2>15, <2>16, <2>17, <2>18 DEF Inv
  <1> QED
    BY <1>2, <1>3

----------------------------------------------------------------------------
(* Replay *)

LEMMA NextBeginning ==
  ASSUME NEW S, NEW s \in Seq(S), NEW k \in 1 .. Len(s)
  PROVE /\ Append(SubSeq(s, 1, k - 1), s[k]) = SubSeq(s, 1, k)
        /\ s[k] \in S
  <1> DEFINE part == SubSeq(s, 1, k - 1)
             more == Append(part, s[k])
             whole == SubSeq(s, 1, k)
  <1>1. /\ k - 1 \in 0 .. Len(s) /\ k \in 0 .. Len(s) /\ Len(s) \in Nat /\ s[k] \in S
    BY LenProperties, ElementOfSeq
  <1>2. part \in Seq(S) /\ Len(part) = k - 1 /\ \A i \in 1 .. k - 1 : part[i] = s[i]
    BY <1>1, Beginning
  <1>3. whole \in Seq(S) /\ Len(whole) = k /\ \A i \in 1 .. k : whole[i] = s[i]
    BY <1>1, Beginning
  <1> HIDE DEF part, whole
  <1>4. /\ more \in Seq(S) /\ Len(more) = Len(part) + 1
        /\ \A i \in 1 .. Len(part) : more[i] = part[i]
        /\ more[Len(part) + 1] = s[k]
    BY <1>1, <1>2, AppendProperties
  <1> HIDE DEF more
  <1>5. Len(more) = k /\ \A i \in 1 .. k : more[i] = whole[i]
    BY <1>1, <1>2, <1>3, <1>4
  <1>6. more = whole
    BY <1>3, <1>4, <1>5, SeqEqual
  <1> QED
    BY <1>1, <1>6 DEF part, more, whole

\* Behind its base checkpoint, replay is at a report, or at a command that
\* waits for its report.
ReplayedFrames(h, k) ==
    /\ shard.at - 1 = ReportAt(h, k)
    /\ shard.done = SubSeq(h.done, 1, k) /\ shard.pending = None
ReplayedCommand(h, k) ==
    /\ k > 0 /\ shard.at - 1 = CommandAt(h, k)
    /\ shard.done = SubSeq(h.done, 1, k - 1) /\ shard.pending = h.done[k]

LEMMA ReplayTypes ==
  ASSUME NEW h \in Histories, Replaying(h)
  PROVE /\ shard.at \in Nat /\ visible.first \in Nat \ {0} /\ LastSequence(visible) \in Nat
        /\ visible.first < shard.at /\ shard.at <= LastSequence(visible) + 1
        /\ h.metadata \in Nat /\ h.metadata < shard.at
        /\ h.done \in Seq(ShardCommands) /\ Len(h.done) \in Nat
        /\ \/ LastSequence(visible) = h.metadata + 2 * Len(h.done)
           \/ LastSequence(visible) = h.metadata + 2 * Len(h.done) - 1 /\ h.done # <<>>
        /\ shard.base # None =>
             /\ shard.base.generation \in Nat /\ shard.base.generation <= LastSequence(visible)
             /\ Len(shard.base.done) \in 0 .. Len(h.done)
             /\ shard.base.done = SubSeq(h.done, 1, Len(shard.base.done))
             /\ shard.base.generation = ReportAt(h, Len(shard.base.done))
  <1>1. Tells(visible, h)
    BY DEF Replaying, Stands, Fitting
  <1>2. h.metadata \in Nat /\ h.done \in Seq(ShardCommands) /\ Len(h.done) \in Nat
    BY HistoryTypes
  <1>3. visible.first \in Nat \ {0} /\ LastSequence(visible) \in Nat
    BY <1>1, ToldEnds
  <1>4. /\ shard.at \in Nat /\ visible.first < shard.at /\ shard.at <= LastSequence(visible) + 1
        /\ h.metadata < shard.at
    BY DEF Replaying
  <1>5. \/ LastSequence(visible) = h.metadata + 2 * Len(h.done)
        \/ LastSequence(visible) = h.metadata + 2 * Len(h.done) - 1 /\ h.done # <<>>
    BY <1>1 DEF Tells, Whole, Dangling
  <1>6. ASSUME shard.base # None
        PROVE /\ shard.base.generation \in Nat /\ shard.base.generation <= LastSequence(visible)
              /\ Len(shard.base.done) \in 0 .. Len(h.done)
              /\ shard.base.done = SubSeq(h.done, 1, Len(shard.base.done))
              /\ shard.base.generation = ReportAt(h, Len(shard.base.done))
    <2>1. Begun(shard.base, h) /\ shard.base.generation <= LastSequence(visible)
      BY <1>6 DEF Replaying
    <2>2. shard.base \in Checkpoints
      BY <2>1 DEF Begun
    <2>3. shard.base.generation \in Nat /\ Len(shard.base.done) \in Nat
      BY <2>2, CheckpointTypes
    <2> QED
      BY <1>2, <2>1, <2>3 DEF Begun, ReportAt
  <1> QED
    BY <1>2, <1>3, <1>4, <1>5, <1>6

\* Within its base checkpoint, replay holds that; behind it, what it has read.
LEMMA ReplayPlace ==
  ASSUME NEW h \in Histories, Replaying(h)
  PROVE /\ InPrefix(shard.at) =>
             /\ shard.base # None /\ shard.at <= shard.base.generation
             /\ shard.done = shard.base.done /\ shard.pending = None
        /\ ~InPrefix(shard.at) =>
             \E k \in 0 .. Len(h.done) : ReplayedFrames(h, k) \/ ReplayedCommand(h, k)
  <1>1. shard.at \in Nat /\ (shard.base # None => shard.base.generation \in Nat)
    BY ReplayTypes
  <1>2. ReplayedTo(h)
    BY DEF Replaying
  <1> DEFINE at == shard.at
             end == shard.base.generation
  <1>3. InPrefix(at) <=> shard.base # None /\ at <= end
    BY DEF InPrefix
  <1>4. at \in Nat /\ (shard.base # None => end \in Nat)
    BY <1>1
  <1> HIDE DEF at, end
  <1>5. shard.base # None => (at <= end <=> at - 1 < end)
    BY <1>4
  <1>6. IF shard.base # None /\ at - 1 < end
        THEN shard.done = shard.base.done /\ shard.pending = None
        ELSE \E k \in 0 .. Len(h.done) : ReplayedFrames(h, k) \/ ReplayedCommand(h, k)
    BY <1>2 DEF ReplayedTo, ReplayedFrames, ReplayedCommand, at, end
  <1>7. CASE shard.base # None /\ at <= end
    BY <1>3, <1>5, <1>6, <1>7 DEF at, end
  <1>8. CASE ~(shard.base # None /\ at <= end)
    BY <1>3, <1>5, <1>6, <1>8 DEF at, end
  <1> QED
    BY <1>7, <1>8

\* The frame that replay reads behind its base checkpoint.
LEMMA NextFrame ==
  ASSUME NEW h \in Histories, Replaying(h), shard.at <= LastSequence(visible),
         NEW k \in 0 .. Len(h.done)
  PROVE /\ ReplayedFrames(h, k) =>
             /\ k + 1 \in 1 .. Len(h.done) /\ shard.at = CommandAt(h, k + 1)
             /\ FrameAt(visible, shard.at) = CommandFrame(h.done[k + 1])
        /\ ReplayedCommand(h, k) =>
             /\ k \in 1 .. Len(h.done) /\ shard.at = ReportAt(h, k)
             /\ FrameAt(visible, shard.at) = ReportFrame(ReportOf(h, k))
  <1> DEFINE at == shard.at
             end == LastSequence(visible)
             n == Len(h.done)
  <1>1. Tells(visible, h)
    BY DEF Replaying, Stands, Fitting
  <1>2. /\ at \in Nat /\ visible.first \in Nat /\ visible.first < at /\ at <= end /\ end \in Nat
        /\ h.metadata \in Nat /\ n \in Nat
        /\ end = h.metadata + 2 * n \/ end = h.metadata + 2 * n - 1
    BY ReplayTypes
  <1>3. k \in 0 .. n
    OBVIOUS
  <1> HIDE DEF at, end, n
  <1>4. ASSUME ReplayedFrames(h, k)
        PROVE /\ k + 1 \in 1 .. n /\ at = CommandAt(h, k + 1)
              /\ FrameAt(visible, at) = CommandFrame(h.done[k + 1])
    <2>1. at - 1 = h.metadata + 2 * k
      BY <1>4 DEF ReplayedFrames, ReportAt, at
    <2>2. k + 1 \in 1 .. n /\ at = h.metadata + 2 * (k + 1) - 1
      BY <1>2, <1>3, <2>1
    <2>3. at = CommandAt(h, k + 1)
      BY <2>2 DEF CommandAt
    <2> QED
      BY <1>1, <1>2, <2>2, <2>3 DEF Tells, CommandsTold, n
  <1>5. ASSUME ReplayedCommand(h, k)
        PROVE /\ k \in 1 .. n /\ at = ReportAt(h, k)
              /\ FrameAt(visible, at) = ReportFrame(ReportOf(h, k))
    <2>1. at - 1 = h.metadata + 2 * k - 1 /\ k > 0
      BY <1>5 DEF ReplayedCommand, CommandAt, at
    <2>2. k \in 1 .. n /\ at = h.metadata + 2 * k
      BY <1>2, <1>3, <2>1
    <2>3. at = ReportAt(h, k)
      BY <2>2 DEF ReportAt
    <2> QED
      BY <1>1, <1>2, <2>2, <2>3 DEF Tells, ReportsTold, n, end
  <1> QED
    BY <1>4, <1>5 DEF at, n

\* A frame that was read takes replay one place further.
LEMMA ReplayStep ==
  ASSUME Inv, UNCHANGED product, ReplayFrame, NEW h \in Histories, Replaying(h)
  PROVE Replaying(h)' /\ ShardForm'
  <1> DEFINE at == shard.at
             end == LastSequence(visible)
             frame == FrameAt(visible, at)
  <1>1. /\ at <= end /\ ShardForm
        /\ UNCHANGED <<captured, visible, images, flight, mode, slots, step, slot, answers>>
    BY InvParts DEF ReplayFrame, anchoredVars, logVars
  <1>2. shard' = IF InPrefix(at) THEN [shard EXCEPT !.at = at + 1]
                 ELSE IF frame.kind = "command"
                 THEN [shard EXCEPT !.pending = frame.value, !.at = at + 1]
                 ELSE [shard EXCEPT !.done = Append(shard.done, shard.pending), !.pending = None,
                                    !.at = at + 1]
    BY DEF ReplayFrame
  <1>3. /\ at \in Nat /\ visible.first \in Nat /\ visible.first < at /\ end \in Nat
        /\ h.metadata \in Nat /\ h.metadata < at
        /\ h.done \in Seq(ShardCommands)
        /\ shard.base # None =>
             /\ shard.base.generation \in Nat /\ Len(shard.base.done) \in 0 .. Len(h.done)
             /\ shard.base.done = SubSeq(h.done, 1, Len(shard.base.done))
             /\ shard.base.generation = ReportAt(h, Len(shard.base.done))
    BY ReplayTypes
  <1> HIDE DEF at, end, frame
  <1>4. /\ shard'.config = shard.config /\ shard'.metadata = shard.metadata
        /\ shard'.base = shard.base /\ shard'.at = at + 1 /\ ShardForm'
    BY <1>1, <1>2 DEF ShardForm
  <1>5. /\ at + 1 \in Nat /\ visible.first < at + 1 /\ h.metadata < at + 1 /\ at + 1 <= end + 1
        /\ (at + 1) - 1 = at /\ at - 1 \in Int
    BY <1>1, <1>3
  <1>6. SUFFICES ReplayedTo(h)'
    <2>1. Stands(visible, h)'
      BY <1>1 DEF Replaying, Stands
    <2> QED
      BY <1>1, <1>4, <1>5, <2>1 DEF Replaying, end
  <1>7. CASE InPrefix(at)
    <2>1. /\ shard.base # None /\ at <= shard.base.generation
          /\ shard.done = shard.base.done /\ shard.pending = None
      BY <1>7, ReplayPlace DEF at
    <2>2. shard'.done = shard.done /\ shard'.pending = shard.pending
      BY <1>1, <1>2, <1>7 DEF ShardForm
    <2>3. CASE at < shard.base.generation
      BY <1>4, <1>5, <2>1, <2>2, <2>3 DEF ReplayedTo
    <2>4. CASE ~(at < shard.base.generation)
      <3>1. at = ReportAt(h, Len(shard.base.done))
        BY <1>3, <2>1, <2>4
      <3>2. shard'.at - 1 = ReportAt(h, Len(shard.base.done)) /\ ~(shard'.at - 1 < shard.base.generation)
        BY <1>4, <1>5, <2>4, <3>1
      <3> QED
        BY <1>3, <1>4, <2>1, <2>2, <3>2 DEF ReplayedTo
    <2> QED
      BY <2>3, <2>4
  <1>8. CASE ~InPrefix(at)
    <2>1. PICK k \in 0 .. Len(h.done) : ReplayedFrames(h, k) \/ ReplayedCommand(h, k)
      BY <1>8, ReplayPlace DEF at
    <2>2. ~(shard'.base # None /\ shard'.at - 1 < shard'.base.generation)
      <3>1. ~(shard.base # None /\ at <= shard.base.generation)
        BY <1>8 DEF InPrefix
      <3>2. ~(shard.base # None /\ at < shard.base.generation)
        BY <1>3, <3>1
      <3> QED
        BY <1>4, <1>5, <3>2
    <2>3. CASE ReplayedFrames(h, k)
      <3>1. /\ k + 1 \in 1 .. Len(h.done) /\ at = CommandAt(h, k + 1)
            /\ frame = CommandFrame(h.done[k + 1])
        BY <1>1, <2>3, NextFrame DEF at, end, frame
      <3>2. frame.kind = "command" /\ frame.value = h.done[k + 1]
        BY <3>1 DEF CommandFrame
      <3>3. shard'.pending = h.done[k + 1] /\ shard'.done = SubSeq(h.done, 1, k)
        BY <1>1, <1>2, <1>8, <2>3, <3>2 DEF ShardForm, ReplayedFrames
      <3>4. /\ k + 1 \in 0 .. Len(h.done) /\ k + 1 > 0 /\ (k + 1) - 1 = k
        BY <3>1
      <3>5. shard'.at - 1 = CommandAt(h, k + 1)
        BY <1>4, <1>5, <3>1
      <3> QED
        BY <2>2, <3>3, <3>4, <3>5 DEF ReplayedTo
    <2>4. CASE ReplayedCommand(h, k)
      <3>1. /\ k \in 1 .. Len(h.done) /\ at = ReportAt(h, k)
            /\ frame = ReportFrame(ReportOf(h, k))
        BY <1>1, <2>4, NextFrame DEF at, end, frame
      <3>2. frame.kind # "command"
        BY <3>1 DEF ReportFrame
      <3>3. /\ shard'.done = Append(SubSeq(h.done, 1, k - 1), h.done[k])
            /\ shard'.pending = None
        BY <1>1, <1>2, <1>8, <2>4, <3>2 DEF ShardForm, ReplayedCommand
      <3>4. shard'.done = SubSeq(h.done, 1, k)
        BY <1>3, <3>1, <3>3, NextBeginning
      <3>5. shard'.at - 1 = ReportAt(h, k)
        BY <1>4, <1>5, <3>1
      <3> QED
        BY <2>2, <3>3, <3>4, <3>5 DEF ReplayedTo
    <2> QED
      BY <2>1, <2>3, <2>4
  <1> QED
    BY <1>7, <1>8

LEMMA ReplayFrameKeeps ==
  ASSUME Inv, UNCHANGED product, ReplayFrame
  PROVE Inv'
  <1>1. /\ step = "replaying" /\ shard'.first = shard.first /\ shard'.epoch = shard.epoch
        /\ UNCHANGED <<captured, visible, images, flight, mode, slots, step, slot, answers>>
    BY InvParts DEF ReplayFrame, anchoredVars, logVars, ShardForm
  <1>2. PICK h \in Histories : Replaying(h)
    BY <1>1, InvParts DEF ProcessKnows
  <1>3. Replaying(h)' /\ ShardForm'
    BY <1>2, ReplayStep
  <1>4. LogsSound' /\ WholeParts' /\ FilesHold'
    <2>1. Candidates' = Candidates
      BY <1>1 DEF Candidates
    <2>2. LogsSound'
      BY <1>1, <2>1, InvParts DEF LogsSound
    <2>3. WholeParts'
      BY <1>1, InvParts DEF WholeParts
    <2> QED
      BY <1>1, <2>2, <2>3, InvParts, FilesKept
  <1>5. ProcessKnows'
    BY <1>1, <1>3 DEF ProcessKnows
  <1>6. ModeOf' /\ CaptureKnows' /\ SlotKnows'
    BY <1>1, InvParts DEF ModeOf, OpenSteps, CaptureKnows, SlotKnows
  <1> QED
    BY <1>3, <1>4, <1>5, <1>6 DEF Inv

\* At the end of the log, replay holds its history, or all of it but the
\* command that waits for its report.
LEMMA ReplayEnds ==
  ASSUME Inv, NEW h \in Histories, Replaying(h), Replayed, ~AheadOfLog
  PROVE /\ shard.pending = None => shard.done = h.done /\ Whole(visible, h)
        /\ shard.pending # None =>
             /\ Dangling(visible, h) /\ shard.pending \in ShardCommands
             /\ shard.done \in Seq(ShardCommands)
             /\ Append(shard.done, shard.pending) = h.done
             /\ Report(shard.config, shard.done, shard.pending) = ReportOf(h, Len(h.done))
  <1> DEFINE at == shard.at
             end == LastSequence(visible)
             n == Len(h.done)
  <1>1. /\ at \in Nat /\ end \in Nat /\ at <= end + 1 /\ h.metadata \in Nat
        /\ h.done \in Seq(ShardCommands) /\ n \in Nat
        /\ \/ end = h.metadata + 2 * n
           \/ end = h.metadata + 2 * n - 1 /\ h.done # <<>>
        /\ shard.base # None => shard.base.generation \in Nat
    BY ReplayTypes
  <1>2. at > end
    BY DEF Replayed
  <1> HIDE DEF at, end, n
  <1>3. at = end + 1 /\ at - 1 = end
    BY <1>1, <1>2
  <1>4. ~InPrefix(shard.at)
    <2>1. SUFFICES ASSUME shard.base # None, at <= shard.base.generation PROVE FALSE
      BY DEF InPrefix, at
    <2>2. ~(end < shard.base.generation)
      BY <2>1 DEF AheadOfLog, end
    <2> QED
      BY <1>1, <1>3, <2>1, <2>2
  <1>5. PICK k \in 0 .. n : ReplayedFrames(h, k) \/ ReplayedCommand(h, k)
    BY <1>4, ReplayPlace DEF n
  <1>6. CASE ReplayedFrames(h, k)
    <2>1. end = h.metadata + 2 * k
      BY <1>3, <1>6 DEF ReplayedFrames, ReportAt, at
    <2>2. k = n /\ end = h.metadata + 2 * n
      BY <1>1, <2>1
    <2>3. SubSeq(h.done, 1, n) = h.done
      BY <1>1, SubSeqFull DEF n
    <2> QED
      BY <1>6, <2>2, <2>3 DEF ReplayedFrames, Whole, end, n
  <1>7. CASE ReplayedCommand(h, k)
    <2>1. end = h.metadata + 2 * k - 1 /\ k > 0
      BY <1>3, <1>7 DEF ReplayedCommand, CommandAt, at
    <2>2. k = n /\ end = h.metadata + 2 * n - 1 /\ h.done # <<>> /\ n \in 1 .. n
      BY <1>1, <2>1
    <2>3. /\ shard.done = SubSeq(h.done, 1, n - 1) /\ shard.pending = h.done[n]
      BY <1>7, <2>2 DEF ReplayedCommand
    <2>4. /\ Append(SubSeq(h.done, 1, n - 1), h.done[n]) = SubSeq(h.done, 1, n)
          /\ h.done[n] \in ShardCommands
      BY <1>1, <2>2, NextBeginning DEF n
    <2>5. SubSeq(h.done, 1, n) = h.done
      BY <1>1, SubSeqFull DEF n
    <2>6. SubSeq(h.done, 1, n - 1) \in Seq(ShardCommands)
      <3>1. n - 1 \in 0 .. n
        BY <1>1, <2>2
      <3> QED
        BY <1>1, <3>1, Beginning DEF n
    <2>7. Dangling(visible, h)
      BY <2>2 DEF Dangling, end, n
    <2>8. shard.pending # None
      BY <2>3, <2>4, NoneAssumption
    <2>9. shard.config = h.config
      BY DEF Replaying
    <2> QED
      BY <2>3, <2>4, <2>5, <2>6, <2>7, <2>8, <2>9 DEF ReportOf, n
  <1> QED
    BY <1>5, <1>6, <1>7

LEMMA FinishReplayKeeps ==
  ASSUME Inv, UNCHANGED product, FinishReplay
  PROVE Inv'
  <1>1. /\ step = "replaying" /\ step' = "ready" /\ shard.pending = None /\ Replayed /\ ~AheadOfLog
        /\ shard' = [shard EXCEPT !.base = None, !.at = 0]
        /\ UNCHANGED <<captured, visible, images, flight, mode, slots, slot, answers>>
    BY DEF FinishReplay, Replayed, logVars
  <1>2. PICK h \in Histories : Replaying(h)
    BY <1>1, InvParts DEF ProcessKnows
  <1>3. shard.done = h.done /\ Whole(visible, h)
    BY <1>1, <1>2, ReplayEnds
  <1>4. shard.config = h.config /\ shard.metadata = h.metadata /\ Stands(visible, h)
    BY <1>2 DEF Replaying
  <1>5. /\ shard'.config = shard.config /\ shard'.metadata = shard.metadata
        /\ shard'.done = shard.done /\ shard'.pending = None
        /\ shard'.epoch = shard.epoch /\ shard'.first = shard.first /\ ShardForm'
    BY <1>1, InvParts DEF ShardForm
  <1>6. Current' = h
    BY <1>3, <1>4, <1>5, HistoryTypes DEF Current
  <1>7. ReadyKnows'
    BY <1>1, <1>3, <1>4, <1>5, <1>6 DEF ReadyKnows, Stands
  <1>8. LogsSound' /\ WholeParts' /\ FilesHold'
    <2>1. Candidates' = Candidates
      BY <1>1 DEF Candidates
    <2>2. LogsSound'
      BY <1>1, <2>1, InvParts DEF LogsSound
    <2>3. WholeParts'
      BY <1>1, InvParts DEF WholeParts
    <2> QED
      BY <1>1, <2>2, <2>3, InvParts, FilesKept
  <1>9. ModeOf' /\ ProcessKnows' /\ CaptureKnows' /\ SlotKnows'
    BY <1>1, <1>5, <1>7, InvParts DEF ModeOf, OpenSteps, ProcessKnows, CaptureKnows, SlotKnows
  <1> QED
    BY <1>5, <1>8, <1>9 DEF Inv

LEMMA CompleteDanglingKeeps ==
  ASSUME Inv, UNCHANGED product, CompleteDangling
  PROVE Inv'
  <1> DEFINE report == Report(shard.config, shard.done, shard.pending)
             log == Extended(visible, <<ReportFrame(report)>>)
  <1>1. /\ step = "replaying" /\ step' = "completing" /\ shard.pending # None
        /\ Replayed /\ ~AheadOfLog /\ Write(log)
        /\ shard' = [shard EXCEPT !.done = Append(@, shard.pending), !.pending = None,
                                  !.base = None, !.at = 0]
        /\ UNCHANGED <<captured, slots, slot, answers>>
        /\ mode' = "writing" /\ flight' = log /\ visible' = visible
    BY DEF CompleteDangling, Replayed, Write
  <1>2. PICK h \in Histories : Replaying(h)
    BY <1>1, InvParts DEF ProcessKnows
  <1>3. /\ Dangling(visible, h) /\ Append(shard.done, shard.pending) = h.done
        /\ report = ReportOf(h, Len(h.done))
    BY <1>1, <1>2, ReplayEnds
  <1>4. /\ shard.config = h.config /\ shard.metadata = h.metadata
        /\ Fitting(product, visible, h, slots, answers)
    BY <1>2 DEF Replaying, Stands
  <1>5. /\ Fitting(product, log, h, slots, answers) /\ Whole(log, h)
        /\ log.first = visible.first /\ AnchorSlot(log) = AnchorSlot(visible)
        /\ PartsOf(visible, log) = {visible, log}
    BY <1>3, <1>4, FittingReport
  <1> HIDE DEF log, report
  <1>6. Sound(product, log, slots, answers)
    BY <1>5 DEF Sound
  <1>7. LogsSound' /\ WholeParts' /\ FilesHold'
    BY <1>1, <1>5, <1>6, InvParts, WriteKeeps, FilesKept
  <1>8. /\ shard'.config = shard.config /\ shard'.metadata = shard.metadata
        /\ shard'.done = Append(shard.done, shard.pending) /\ shard'.pending = None
        /\ shard'.epoch = shard.epoch /\ shard'.first = shard.first /\ ShardForm'
    BY <1>1, InvParts DEF ShardForm
  <1>9. Current' = h
    BY <1>3, <1>4, <1>8, HistoryTypes DEF Current
  <1>10. ReportingKnows'
    BY <1>1, <1>3, <1>4, <1>5, <1>8, <1>9 DEF ReportingKnows, Stands
  <1>11. ModeOf' /\ ProcessKnows' /\ CaptureKnows' /\ SlotKnows'
    BY <1>1, <1>8, <1>10, InvParts DEF ModeOf, OpenSteps, ProcessKnows, CaptureKnows, SlotKnows
  <1> QED
    BY <1>7, <1>8, <1>11 DEF Inv

----------------------------------------------------------------------------
(* The theorem *)

LEMMA StutterKeeps ==
  ASSUME Inv, UNCHANGED <<anchoredVars, shardVars>>
  PROVE Inv'
  <1>1. UNCHANGED <<visible, images, flight, mode, product, slots, step, slot, answers, shard, captured>>
    BY DEF anchoredVars, shardVars, logVars
  <1>2. Candidates' = Candidates /\ Current' = Current
    BY <1>1 DEF Candidates, Current
  <1>3. LogsSound' /\ WholeParts' /\ FilesHold'
    BY <1>1, <1>2, InvParts, FilesKept DEF LogsSound, WholeParts
  <1>4. ModeOf' /\ ShardForm' /\ CaptureKnows' /\ SlotKnows'
    BY <1>1, <1>2, InvParts DEF ModeOf, OpenSteps, ShardForm, CaptureKnows, SlotKnows
  <1>5. ProcessKnows'
    <2>1. OpeningKnows => OpeningKnows'
      BY <1>1 DEF OpeningKnows
    <2>2. ASSUME NEW h \in Histories, Replaying(h) PROVE Replaying(h)'
      BY <1>1, <2>2 DEF Replaying, ReplayedTo, Stands
    <2>3. ReadyKnows => ReadyKnows'
      BY <1>1, <1>2 DEF ReadyKnows, Stands
    <2>4. ReportingKnows => ReportingKnows'
      BY <1>1, <1>2 DEF ReportingKnows, Stands
    <2>5. LoggingKnows => LoggingKnows'
      BY <1>1, <1>2 DEF LoggingKnows, Stands
    <2>6. ExecutingKnows => ExecutingKnows'
      BY <1>1, <1>2 DEF ExecutingKnows, Stands
    <2>7. CuttingKnows => CuttingKnows'
      BY <1>1, <1>2, <2>3 DEF CuttingKnows, Stands, NextSlot
    <2> QED
      BY <1>1, <2>1, <2>2, <2>3, <2>4, <2>5, <2>6, <2>7, InvParts DEF ProcessKnows
  <1> QED
    BY <1>3, <1>4, <1>5 DEF Inv

LEMMA StepKeeps ==
  ASSUME Inv, ShardNext
  PROVE Inv'
  <1>1. UNCHANGED product /\ ShardStep
    BY DEF ShardNext
  <1>2. ASSUME NEW config \in Requested[product], NEW source \in BOOLEAN,
               OpenShard(config, source)
        PROVE Inv'
    BY <1>1, <1>2, OpenShardKeeps
  <1>3. CASE WriteDefinition \/ WriteProfile \/ MetadataWritten \/ Examine
    BY <1>1, <1>3, WriteDefinitionKeeps, WriteProfileKeeps, MetadataWrittenKeeps, ExamineKeeps
  <1>4. CASE ReplayFrame \/ FinishReplay \/ CompleteDangling \/ DanglingCompleted
    BY <1>1, <1>4, ReplayFrameKeeps, FinishReplayKeeps, CompleteDanglingKeeps,
       DanglingCompletedKeeps
  <1>5. CASE OpeningFails \/ ReportFails \/ SyncShardFails
    BY <1>1, <1>5, StopsKeep
  <1>6. ASSUME NEW c \in ShardCommands, SubmitCommand(c) PROVE Inv'
    BY <1>1, <1>6, SubmitCommandKeeps
  <1>7. CASE CommandWritten \/ CommandFails \/ Execute \/ ReportWritten
    BY <1>1, <1>7, CommandWrittenKeeps, CommandFailsKeeps, ExecuteKeeps, ReportWrittenKeeps
  <1>8. CASE CaptureCheckpoint
    BY <1>1, <1>8, CaptureCheckpointKeeps
  <1>9. ASSUME NEW capture \in {captured, Capture} \ {None},
               WriteVerified(capture) \/ CompactVerified(capture) \/ CompactVerifiedFails(capture)
        PROVE Inv'
    BY <1>1, <1>9, WriteVerifiedKeeps, CompactVerifiedKeeps, CompactVerifiedFailsKeeps
  <1>10. CASE ShardCutOver \/ ShardCutOverFails
    BY <1>1, <1>10, ShardCutOverKeeps, ShardCutOverFailsKeeps
  <1>11. CASE CloseShard \/ StopShard \/ ShardLosesPower
    BY <1>1, <1>11, EndsKeep, ShardLosesPowerKeeps
  <1> QED
    BY <1>1, <1>2, <1>3, <1>4, <1>5, <1>6, <1>7, <1>8, <1>9, <1>10, <1>11 DEF ShardStep

\* At all times every log a crash may leave tells one history, which the open
\* shard holds, and every answer given is in it.
THEOREM ShardInvariant == ShardSpec => []Inv
  <1>1. ShardInit => Inv
    BY InvAtInit
  <1>2. Inv /\ [ShardNext]_<<anchoredVars, shardVars>> => Inv'
    BY StepKeeps, StutterKeeps
  <1> QED
    BY <1>1, <1>2, PTL DEF ShardSpec

----------------------------------------------------------------------------
(* What a shard promises *)

\* The frames a base checkpoint stands for are its commands and reports.
LEMMA PrefixFits ==
  ASSUME NEW h \in Histories, Replaying(h), shard.at <= LastSequence(visible), InPrefix(shard.at)
  PROVE PrefixFrameFits(shard.base, FrameAt(visible, shard.at), shard.at)
  <1> DEFINE at == shard.at
             base == shard.base
             n == Len(base.done)
             relative == at - base.metadata
             i == (relative - 1) \div 2 + 1
             frame == FrameAt(visible, at)
  <1>1. base # None /\ at <= base.generation
    BY ReplayPlace
  <1>2. Tells(visible, h) /\ Begun(base, h)
    BY <1>1 DEF Replaying, Stands, Fitting
  <1>3. base.metadata = h.metadata /\ base.config = h.config
    BY <1>2 DEF Begun
  <1>4. /\ at \in Nat /\ visible.first < at /\ h.metadata \in Nat /\ h.metadata < at
        /\ n \in 0 .. Len(h.done) /\ Len(h.done) \in Nat /\ h.done \in Seq(ShardCommands)
        /\ base.done = SubSeq(h.done, 1, n) /\ base.generation = h.metadata + 2 * n
    BY <1>1, ReplayTypes DEF ReportAt
  <1> HIDE DEF at, base, n, frame
  <1>5. relative \in 1 .. 2 * n
    BY <1>1, <1>3, <1>4
  <1>6. /\ i \in 1 .. n
        /\ relative % 2 = 1 => at = CommandAt(h, i)
        /\ relative % 2 # 1 => at = ReportAt(h, i)
    <2> DEFINE r == relative
    <2>1. r \in Nat /\ r >= 1 /\ r <= 2 * n /\ n \in Nat
      BY <1>4, <1>5
    <2>2. at = h.metadata + r
      BY <1>3, <1>4
    <2> HIDE DEF r
    <2> DEFINE j == (r - 1) \div 2 + 1
    <2>3. /\ j \in 1 .. n
          /\ r % 2 = 1 => r = 2 * j - 1
          /\ r % 2 # 1 => r = 2 * j
      BY <2>1
    <2>4. i = j
      BY DEF r
    <2> HIDE DEF j, i
    <2>5. r % 2 = 1 => at = h.metadata + 2 * j - 1
      BY <1>4, <2>1, <2>2, <2>3
    <2>6. r % 2 # 1 => at = h.metadata + 2 * j
      BY <1>4, <2>1, <2>2, <2>3
    <2> QED
      BY <2>3, <2>4, <2>5, <2>6 DEF CommandAt, ReportAt, r
  <1> HIDE DEF i
  <1>7. i \in 1 .. Len(h.done) /\ i - 1 \in 0 .. n /\ i - 1 \in 0 .. Len(h.done)
    BY <1>4, <1>6
  <1>8. base.done[i] = h.done[i] /\ SubSeq(base.done, 1, i - 1) = SubSeq(h.done, 1, i - 1)
    BY <1>4, <1>6, <1>7, Beginning, BeginningOfBeginning
  <1>9. CASE relative % 2 = 1
    <2>1. frame = CommandFrame(h.done[i])
      BY <1>2, <1>4, <1>6, <1>7, <1>9 DEF Tells, CommandsTold, frame
    <2>2. HistoryFrame(base, relative) = CommandFrame(base.done[i])
      BY <1>9 DEF HistoryFrame, i
    <2> HIDE DEF relative
    <2> QED
      BY <1>3, <1>5, <1>8, <2>1, <2>2, FrameKinds DEF PrefixFrameFits, relative, at, base, n, frame
  <1>10. CASE relative % 2 # 1
    <2>1. ReportAt(h, i) <= LastSequence(visible)
      BY <1>6, <1>10 DEF at
    <2>2. frame = ReportFrame(ReportOf(h, i))
      BY <1>2, <1>4, <1>6, <1>7, <1>10, <2>1 DEF Tells, ReportsTold, frame
    <2>3. HistoryFrame(base, relative) =
            ReportFrame(Report(base.config, SubSeq(base.done, 1, i - 1), base.done[i]))
      BY <1>10 DEF HistoryFrame, i
    <2>4. frame = HistoryFrame(base, relative)
      BY <1>3, <1>8, <2>2, <2>3 DEF ReportOf
    <2> HIDE DEF relative
    <2> QED
      BY <1>5, <2>2, <2>4, FrameKinds DEF PrefixFrameFits, relative, at, base, n, frame
  <1> QED
    BY <1>9, <1>10

\* Behind it, they are what replay has come to.
LEMMA SuffixFits ==
  ASSUME NEW h \in Histories, Replaying(h), shard.at <= LastSequence(visible),
         ~InPrefix(shard.at)
  PROVE NextFrameFits(FrameAt(visible, shard.at))
  <1> DEFINE frame == FrameAt(visible, shard.at)
  <1>1. PICK k \in 0 .. Len(h.done) : ReplayedFrames(h, k) \/ ReplayedCommand(h, k)
    BY ReplayPlace
  <1>2. CASE ReplayedFrames(h, k)
    <2>1. frame = CommandFrame(h.done[k + 1]) /\ shard.pending = None
      BY <1>2, NextFrame DEF ReplayedFrames
    <2>2. ~IsAnchor(frame) /\ frame.kind = "command"
      BY <2>1, FrameKinds DEF CommandFrame
    <2> QED
      BY <2>1, <2>2 DEF NextFrameFits, RiskFrameFits, AuctionFrameFits
  <1>3. CASE ReplayedCommand(h, k)
    <2>1. /\ frame = ReportFrame(ReportOf(h, k)) /\ k \in 1 .. Len(h.done)
          /\ shard.done = SubSeq(h.done, 1, k - 1) /\ shard.pending = h.done[k]
      BY <1>3, NextFrame DEF ReplayedCommand
    <2>2. shard.config = h.config /\ h.done \in Seq(ShardCommands) /\ Len(h.done) \in Nat
      BY HistoryTypes DEF Replaying
    <2>3. shard.pending # None
      <3>1. h.done[k] \in ShardCommands
        BY <2>1, <2>2, ElementOfSeq
      <3> QED
        BY <2>1, <3>1, NoneAssumption
    <2>4. ReportOf(h, k) = Report(shard.config, shard.done, shard.pending)
      BY <2>1, <2>2 DEF ReportOf
    <2>5. /\ ~IsAnchor(frame) /\ frame.kind = "report"
          /\ frame.value = Report(shard.config, shard.done, shard.pending)
      BY <2>1, <2>4, FrameKinds DEF ReportFrame
    <2>6. shard.pending \notin Range(shard.done)
      <3>1. Once(h.done)
        BY DEF Replaying, Stands, Fitting, Tells
      <3>2. k - 1 \in 0 .. Len(h.done)
        BY <2>1, <2>2
      <3>3. /\ shard.done \in Seq(ShardCommands) /\ Len(shard.done) = k - 1
            /\ \A i \in 1 .. k - 1 : shard.done[i] = h.done[i]
        BY <2>1, <2>2, <3>2, Beginning
      <3>4. DOMAIN shard.done = 1 .. k - 1
        BY <3>3, LenProperties
      <3>5. ASSUME NEW i \in 1 .. k - 1 PROVE shard.done[i] # shard.pending
        <4>1. i \in 1 .. Len(h.done) /\ i # k
          BY <2>1, <2>2
        <4> QED
          BY <2>1, <3>1, <3>3, <4>1 DEF Once
      <3> QED
        BY <3>4, <3>5 DEF Range
    <2>7. ~Report(shard.config, shard.done, shard.pending).replayed
      <3>1. Report(shard.config, shard.done, shard.pending).replayed =
              (shard.pending \in Range(shard.done))
        BY DEF Report
      <3> QED
        BY <2>6, <3>1
    <2> HIDE DEF frame
    <2>8. RiskFrameFits(frame)
      BY <2>3, <2>5 DEF RiskFrameFits
    <2>9. AuctionFrameFits(frame)
      BY <2>3, <2>5, <2>7 DEF AuctionFrameFits
    <2> QED
      BY <2>5, <2>8, <2>9 DEF NextFrameFits, frame
  <1> QED
    BY <1>1, <1>2, <1>3

\* A shard that is ready holds what its log says, one that is down opens with
\* what its log asks for, and each frame fits what replay has come to.
THEOREM ShardsComeBack == ShardSpec => []ShardComesBack
  <1>1. ASSUME Inv PROVE ShardComesBack
    <2>1. ASSUME step = "ready"
          PROVE /\ shard.done = LoggedCommands /\ shard.config = LoggedConfig
                /\ Verifies(CheckpointNow)
      <3>1. Tells(visible, Current) /\ SlotHolds(visible, slots)
        BY <1>1, <2>1, InvParts DEF ProcessKnows, ReadyKnows, Stands, Fitting
      <3>2. LoggedConfig = Current.config /\ LoggedCommands = Current.done
        BY <3>1, ReadBack
      <3>3. Verifies(CheckpointNow)
        BY <1>1, <2>1, BegunNow, BegunVerifies
      <3> QED
        BY <3>2, <3>3 DEF Current
    <2>2. ASSUME step = "down", visible.bodies # <<>>
          PROVE Opens(visible, slots, LoggedConfig, Anchored)
      <3>1. PICK h \in Histories : Stands(visible, h)
        BY <1>1, <2>2, SoundTells
      <3> QED
        BY <1>1, <3>1, InvParts, OpensAsLogged DEF Stands, Fitting
    <2>3. ASSUME step = "replaying"
          PROVE IF shard.at > LastSequence(visible) THEN ~AheadOfLog
                ELSE NextFrameFits(FrameAt(visible, shard.at))
      <3>1. PICK h \in Histories : Replaying(h)
        BY <1>1, <2>3, InvParts DEF ProcessKnows
      <3>2. ~AheadOfLog
        BY <3>1, ReplayTypes DEF AheadOfLog
      <3>3. ASSUME shard.at <= LastSequence(visible)
            PROVE NextFrameFits(FrameAt(visible, shard.at))
        BY <3>1, <3>3, PrefixFits, SuffixFits DEF NextFrameFits
      <3>4. shard.at \in Nat /\ LastSequence(visible) \in Nat
        BY <3>1, ReplayTypes
      <3> QED
        BY <3>2, <3>3, <3>4
    <2> QED
      BY <2>1, <2>2, <2>3 DEF ShardComesBack
  <1> QED
    BY <1>1, ShardInvariant, PTL

\* What was answered is in the log, at its place and under its configuration,
\* whatever the crash.
AnswersLogged ==
    \A a \in answers :
       /\ visible.bodies # <<>> /\ LoggedConfig = a.under
       /\ a.at \in 1 .. Len(LoggedCommands) /\ LoggedCommands[a.at] = a.cmd

LEMMA AnswersHeld ==
  ASSUME Inv
  PROVE AnswersLogged
  <1> SUFFICES ASSUME NEW a \in answers
               PROVE /\ visible.bodies # <<>> /\ LoggedConfig = a.under
                     /\ a.at \in 1 .. Len(LoggedCommands) /\ LoggedCommands[a.at] = a.cmd
    BY DEF AnswersLogged
  <1>1. Sound(product, visible, slots, answers)
    BY InvParts DEF LogsSound, Candidates
  <1>2. PICK h \in Histories : Fitting(product, visible, h, slots, answers)
    BY <1>1 DEF Sound, Blank, Unused
  <1>3. /\ Tells(visible, h) /\ SlotHolds(visible, slots) /\ Kept(visible, h, slots, answers)
    BY <1>2 DEF Fitting
  <1>4. LoggedConfig = h.config /\ LoggedCommands = h.done
    BY <1>3, ReadBack
  <1> QED
    BY <1>3, <1>4 DEF Kept, Tells

\* No answer given is ever lost, in whatever order shards are opened, stopped
\* and cut over and power fails.
THEOREM AnswersStayLogged == ShardSpec => []AnswersLogged
  BY AnswersHeld, ShardInvariant, PTL

\* No two answers were given under different definitions or profiles.
THEOREM ShardOneConfiguration == ShardSpec => []OneConfiguration
  <1>1. ASSUME Inv PROVE OneConfiguration
    BY <1>1, AnswersHeld DEF AnswersLogged, OneConfiguration
  <1> QED
    BY <1>1, ShardInvariant, PTL

----------------------------------------------------------------------------
(* What is posted in memory: a preparation held over other commits is      *)
(* committed only if it is what preparing it now would give, and the sums  *)
(* are exact                                                               *)

\* How a committed request is named in the ledger.
Names == {[form |-> request.form, ids |-> IdsOf(request.entries)] : request \in Requests}

TokenHolds(token) ==
    /\ token.request \in Requests
    /\ token.expected \in Nat /\ token.expected <= Len(ledger.records)
    /\ token.expected = Len(ledger.records) =>
         LET preparation == Preparation(ledger, token.request) IN
         /\ token = Token(ledger, token.request, preparation)
         /\ Accepts(ledger, Limits, token.request, preparation)

TokensHold ==
    /\ ledger.records \in Seq(Names)
    /\ \A token \in prepared : TokenHolds(token)

\* Committing a request, however it was prepared, names it behind the others.
LEMMA CommittedRecords ==
  ASSUME NEW l, l.records \in Seq(Names), NEW token, token.request \in Requests
  PROVE /\ Committed(l, token).records \in Seq(Names)
        /\ Len(Committed(l, token).records) = Len(l.records) + 1
  <1> DEFINE name == [form |-> token.request.form, ids |-> IdsOf(token.request.entries)]
  <1>1. name \in Names
    BY DEF Names
  <1>2. Committed(l, token).records = Append(l.records, name)
    BY DEF Committed
  <1> HIDE DEF name
  <1> QED
    BY <1>1, <1>2

LEMMA TokenRequest ==
  ASSUME NEW l, NEW request, NEW preparation
  PROVE /\ Token(l, request, preparation).request = request
        /\ Token(l, request, preparation).expected = Len(l.records)
  BY DEF Token

LEMMA InitTokens == LedgerInit => TokensHold
  BY DEF LedgerInit, EmptyLedger, TokensHold

\* A commit leaves every other preparation behind.
LEMMA GrownTokens ==
  ASSUME TokensHold, NEW token, token.request \in Requests,
         ledger' = Committed(ledger, token), prepared' \subseteq prepared
  PROVE TokensHold'
  <1>1. /\ ledger'.records \in Seq(Names)
        /\ Len(ledger'.records) = Len(ledger.records) + 1
    BY CommittedRecords DEF TokensHold
  <1>2. Len(ledger.records) \in Nat
    BY DEF TokensHold
  <1>3. ASSUME NEW other \in prepared' PROVE TokenHolds(other)'
    <2>1. /\ other.request \in Requests
          /\ other.expected \in Nat /\ other.expected <= Len(ledger.records)
      BY <1>3 DEF TokensHold, TokenHolds
    <2> DEFINE now == Len(ledger'.records)
    <2>2. now = Len(ledger.records) + 1
      BY <1>1
    <2> HIDE DEF now
    <2>3. other.expected <= now /\ other.expected # now
      BY <2>1, <2>2, <1>2
    <2> QED
      BY <2>1, <2>3 DEF TokenHolds, now
  <1> QED
    BY <1>1, <1>3 DEF TokensHold

LEMMA PostTokens ==
  ASSUME TokensHold, NEW request \in Requests, Post(request)
  PROVE /\ TokensHold'
        /\ Accepts(ledger, Limits, request, Preparation(ledger, request))
        /\ ledger' = Posted(ledger, request)
  <1> DEFINE token == Token(ledger, request, Preparation(ledger, request))
  <1>1. ledger' = Committed(ledger, token) /\ prepared' = prepared
    BY DEF Post, Posted
  <1>2. token.request \in Requests
    BY TokenRequest
  <1> HIDE DEF token
  <1>3. TokensHold'
    BY <1>1, <1>2, GrownTokens
  <1> QED
    BY <1>3 DEF Post

LEMMA PrepareTokens ==
  ASSUME TokensHold, NEW request \in Requests, Prepare(request)
  PROVE TokensHold'
  <1> DEFINE preparation == Preparation(ledger, request)
             token == Token(ledger, request, preparation)
  <1>1. /\ ledger' = ledger /\ prepared' = prepared \cup {token}
        /\ Accepts(ledger, Limits, request, preparation)
    BY DEF Prepare
  <1>2. token.request = request /\ token.expected = Len(ledger.records)
    BY TokenRequest
  <1>3. TokenHolds(token)
    BY <1>1, <1>2 DEF TokenHolds, TokensHold
  <1> HIDE DEF token
  <1>4. \A other \in prepared' : TokenHolds(other)
    BY <1>1, <1>3 DEF TokensHold
  <1> QED
    BY <1>1, <1>4 DEF TokensHold, TokenHolds

LEMMA CommitTokens ==
  ASSUME TokensHold, NEW token \in prepared, Commit(token)
  PROVE /\ TokensHold'
        /\ ledger' # ledger =>
             \E request \in Requests :
                /\ Accepts(ledger, Limits, request, Preparation(ledger, request))
                /\ ledger' = Posted(ledger, request)
  <1>1. prepared' \subseteq prepared /\ TokenHolds(token)
    BY DEF Commit, TokensHold
  <1>2. CASE Stale(ledger, token)
    <2>1. ledger' = ledger
      BY <1>2 DEF Commit
    <2> QED
      BY <1>1, <2>1 DEF TokensHold, TokenHolds
  <1>3. CASE ~Stale(ledger, token)
    <2>1. ledger' = Committed(ledger, token) /\ token.expected = Len(ledger.records)
      BY <1>3 DEF Commit, Stale
    <2>2. TokensHold'
      BY <1>1, <2>1, GrownTokens DEF TokenHolds
    <2>3. /\ token.request \in Requests
          /\ token = Token(ledger, token.request, Preparation(ledger, token.request))
          /\ Accepts(ledger, Limits, token.request, Preparation(ledger, token.request))
      BY <1>1, <2>1 DEF TokenHolds
    <2>4. ledger' = Posted(ledger, token.request)
      BY <2>1, <2>3 DEF Posted
    <2> QED
      BY <2>2, <2>3, <2>4
  <1> QED
    BY <1>2, <1>3

\* What one step may do to the ledger.
StepPosts ==
    ledger' # ledger =>
         \E request \in Requests :
            /\ Accepts(ledger, Limits, request, Preparation(ledger, request))
            /\ ledger' = Posted(ledger, request)

LEMMA StepTokens == ASSUME TokensHold, [LedgerNext]_ledgerVars PROVE TokensHold' /\ StepPosts
  <1>1. ASSUME NEW request \in Requests, Post(request) PROVE TokensHold' /\ StepPosts
    BY <1>1, PostTokens DEF StepPosts
  <1>2. ASSUME NEW request \in Requests, Prepare(request) PROVE TokensHold' /\ StepPosts
    BY <1>2, PrepareTokens DEF StepPosts, Prepare
  <1>3. ASSUME NEW token \in prepared, Commit(token) PROVE TokensHold' /\ StepPosts
    BY <1>3, CommitTokens DEF StepPosts
  <1>4. CASE UNCHANGED ledgerVars
    BY <1>4 DEF ledgerVars, TokensHold, TokenHolds, StepPosts
  <1> QED
    BY <1>1, <1>2, <1>3, <1>4 DEF LedgerNext

\* A preparation never brings back what the ledger was: each commit is the
\* posting of its request as the ledger is then.
THEOREM CommitsArePosts == LedgerSpec => OnlyPosts
  <1>1. LedgerInit => TokensHold
    BY InitTokens
  <1>2. TokensHold /\ [LedgerNext]_ledgerVars => TokensHold'
    BY StepTokens
  <1>3. TokensHold /\ [LedgerNext]_ledgerVars => StepPosts
    BY StepTokens
  <1> QED
    BY <1>1, <1>2, <1>3, PTL DEF LedgerSpec, OnlyPosts, StepPosts

\* checked_add_three finds an order of the terms that does not overflow
\* whenever their sum is an amount, of whatever width.
THEOREM AddThreeIsExact ==
  ASSUME NEW M \in Nat, NEW x \in -M .. M - 1, NEW y \in -M .. M - 1, NEW z \in -M .. M - 1,
         Amounts = -M .. M - 1
  PROVE AddThree(x, y, z).exact <=> x + y + z \in Amounts
  <1>1. x + y + z \in -M .. M - 1 =>
           \E partial \in {x + y, x + z, y + z} : partial \in -M .. M - 1
    <2> SUFFICES ASSUME x + y + z \in -M .. M - 1,
                        x + y \notin -M .. M - 1, x + z \notin -M .. M - 1,
                        y + z \notin -M .. M - 1
                 PROVE FALSE
      OBVIOUS
    <2> QED
      OBVIOUS
  <1> QED
    BY <1>1 DEF AddThree

----------------------------------------------------------------------------
(* Logs and the records they tell *)

\* A log no cutover replaced, and one that a cutover replaced.
Plain(done) == [first |-> 1, bodies |-> done]
Cut(s, first, sum, rest) ==
    [first |-> first, bodies |-> <<AnchorTo(s, sum, Len(sum), first)>> \o rest]

Told(log) ==
    IF AnchorSlot(log) = None THEN log.bodies ELSE log.bodies[1].sum \o Tail(log.bodies)

\* The snapshot of a log that was cut over is the only one its slot can hold.
Reads(log, files) ==
    \/ \E done \in Seq(DurableRequests) : log = Plain(done)
    \/ \E s \in Slots, first \in Nat \ {0},
          sum \in Seq(DurableRequests), rest \in Seq(DurableRequests) :
          log = Cut(s, first, sum, rest) /\ files[s] = [now |-> sum, may |-> {sum}]

\* The ledgers that posting the records leads to, each of them accepted.
Posts(run, done) ==
    /\ run[0] = EmptyLedger
    /\ \A i \in 1 .. Len(done) :
         /\ Accepts(run[i - 1], Limits, done[i], Preparation(run[i - 1], done[i]))
         /\ run[i] = Posted(run[i - 1], done[i])

Taken(done) == \E run : Posts(run, done)

\* Every receipt given names its record.
Named(done, given) ==
    \A a \in given : a.at \in 1 .. Len(done) /\ done[a.at] = a.cmd

Carries(log, files, given) ==
    Reads(log, files) /\ Taken(Told(log)) /\ Named(Told(log), given)

\* What a log says of any shard.
Sayings == DurableRequests \cup ShardCommands
Said(kind, log) == IF kind = "ledger" THEN Told(log) ELSE CommandsOf(log)

\* Histories of the same log: one begins the other, or has one saying more.
BeginsWith(done, part) == \E n \in 0 .. Len(done) : part = SubSeq(done, 1, n)
OneMore(done, more) == \E r \in Sayings \ Range(done) : more = Append(done, r)

----------------------------------------------------------------------------
(* The logs a crash may leave, of any shard *)

\* A log longer than the one a process reads is left only where the writer
\* stopped, and none follows it.
ImagesNear ==
    \A image \in images :
       \/ BeginsWith(Said(product, visible), Said(product, image))
       \/ /\ mode \in {"closed", "poisoned"}
          /\ OneMore(Said(product, visible), Said(product, image))

\* What is written is the history, or has one saying more.
FlightNear ==
    mode = "writing" =>
      \/ Said(product, flight) = Said(product, visible)
      \/ OneMore(Said(product, visible), Said(product, flight))

\* Every receipt stands in every log, and a log that begins the one a process
\* reads says no more.
HistoriesSaid ==
    /\ \A log \in Candidates :
         Said(product, log) \in Seq(Sayings) /\ Named(Said(product, log), answers)
    /\ \A image \in images :
         Begins(image, visible) => Len(Said(product, image)) <= Len(Said(product, visible))

----------------------------------------------------------------------------
(* The inductive invariant of the ledger *)

LogsCarry == \A log \in Candidates : Carries(log, slots, answers)

LedgerModes ==
    /\ step \in {"bare", "down", "replaying", "ready", "appending", "committing", "anchoring",
                 "halted"}
    /\ step \in {"bare", "down"} => mode = "closed"
    /\ step \in {"replaying", "ready", "committing"} => mode = "open"
    /\ step \in {"appending", "anchoring"} => mode = "writing"
    /\ step = "halted" => mode = "poisoned"

\* The indexes name the transactions of every record.
Indexed(l) ==
    /\ l.records \in Seq(Names)
    /\ \A i \in 1 .. Len(l.records) : \A j \in DOMAIN l.records[i].ids :
         LET id == l.records[i].ids[j] IN
         id \in DOMAIN l.entries /\ l.entries[id].entry.id = id

\* A ledger holds the first records of a history.
Holds(l, done) ==
    /\ Indexed(l) /\ Len(l.records) <= Len(done)
    /\ \E run : Posts(run, done) /\ l = run[Len(l.records)]
    /\ \A i \in 1 .. Len(l.records) : RecordAt(l, i) = done[i]

HoldsAll(l, done) == Holds(l, done) /\ Len(l.records) = Len(done)

\* What a caller prepares is what will be posted.
Readied(l, request, tokens) ==
    LET preparation == Preparation(l, request) IN
    /\ tokens = {Token(l, request, preparation)}
    /\ Accepts(l, Limits, request, preparation)

AppendingKnows ==
    /\ HoldsAll(ledger, Told(visible))
    /\ \E request \in DurableRequests :
         Readied(ledger, request, prepared) /\ flight = Extended(visible, <<request>>)

CommittingKnows ==
    \E done \in Seq(DurableRequests), request \in DurableRequests :
       /\ Told(visible) = Append(done, request)
       /\ HoldsAll(ledger, done) /\ Readied(ledger, request, prepared)
       /\ images = {visible}

AnchoringKnows ==
    /\ HoldsAll(ledger, Told(visible))
    /\ Told(flight) = Told(visible) /\ AnchorSlot(flight) = NextSlot

LedgerKnows ==
    /\ step = "down" => ledger = EmptyLedger
    /\ step = "replaying" => Holds(ledger, Told(visible))
    /\ step = "ready" => HoldsAll(ledger, Told(visible))
    /\ step = "appending" => AppendingKnows
    /\ step = "committing" => CommittingKnows
    /\ step = "anchoring" => AnchoringKnows
    /\ step \in {"replaying", "ready", "appending", "committing", "anchoring"} =>
         slot = AnchorSlot(visible)

\* The part of it that the storage keeps by itself.
LogsKeep ==
    product = "ledger" /\ LogsCarry /\ ImagesNear /\ WholeParts /\ DOMAIN slots = SnapshotPaths

LedgerInv == LogsKeep /\ LedgerModes /\ LedgerKnows

----------------------------------------------------------------------------
(* Requests and the records a ledger makes of them *)

LEMMA RequestParts ==
  ASSUME NEW request \in Requests
  PROVE /\ request \in Requests /\ ~IsAnchor(request)
        /\ request = [form |-> request.form, entries |-> request.entries]
        /\ request.entries \in Seq(Range(request.entries)) /\ Len(request.entries) \in Nat \ {0}
        /\ DOMAIN request.entries = 1 .. Len(request.entries)
        /\ \A i, j \in DOMAIN request.entries :
             i # j => request.entries[i].id # request.entries[j].id
  <1> DEFINE e == request.entries
  <1>1. request \in Requests /\ IsRequest(request) /\ ValidRequest(request)
    BY LedgerAssumption
  <1>2. request = [form |-> request.form, entries |-> e] /\ e \in Seq(Range(e))
    BY <1>1 DEF IsRequest
  <1>3. "anchor" \notin DOMAIN [form |-> request.form, entries |-> e]
    OBVIOUS
  <1>4. ~IsAnchor(request)
    BY <1>2, <1>3 DEF IsAnchor
  <1>5. DOMAIN e = 1 .. Len(e) /\ Len(e) \in Nat
    BY <1>2
  <1>6. CASE request.form = "entry"
    <2>1. Len(e) = 1
      BY <1>1, <1>6 DEF ValidRequest
    <2> QED
      BY <1>1, <1>2, <1>4, <1>5, <2>1
  <1>7. CASE request.form = "correction"
    <2>1. Len(e) = 2 /\ ValidCorrection(e[1], e[2])
      BY <1>1, <1>7 DEF ValidRequest
    <2>2. Cardinality({e[1].id, e[2].id, e[1].target}) = 3
      BY <2>1 DEF ValidCorrection
    <2>3. e[1].id # e[2].id
      <3> SUFFICES ASSUME e[1].id = e[2].id PROVE FALSE
        OBVIOUS
      <3> DEFINE x == e[2].id
                 y == e[1].target
      <3>1. {e[1].id, e[2].id, e[1].target} = {x} \cup {y}
        OBVIOUS
      <3>2. IsFiniteSet({x}) /\ Cardinality({x}) = 1
        BY FS_Singleton
      <3> HIDE DEF x, y
      <3>3. Cardinality({x} \cup {y}) = 1 \/ Cardinality({x} \cup {y}) = 1 + 1
        BY <3>2, FS_AddElement
      <3>4. Cardinality({x} \cup {y}) = 3
        BY <2>2, <3>1
      <3> QED
        BY <3>3, <3>4
    <2>4. DOMAIN e = {1, 2}
      BY <1>5, <2>1
    <2> QED
      BY <1>1, <1>2, <1>4, <1>5, <2>1, <2>3, <2>4
  <1>8. CASE request.form = "batch"
    <2>1. ValidBatch(e)
      BY <1>1, <1>8 DEF ValidRequest
    <2> QED
      BY <1>1, <1>2, <1>4, <1>5, <2>1 DEF ValidBatch
  <1> QED
    BY <1>1, <1>6, <1>7, <1>8 DEF IsRequest

\* A record is what was asked for, and stays so under the records behind it.
LEMMA PostedRecords ==
  ASSUME NEW l, Indexed(l), NEW request \in Requests, ~Known(l, request)
  PROVE LET after == Posted(l, request) IN
        /\ Indexed(after) /\ Len(l.records) \in Nat /\ Len(after.records) = Len(l.records) + 1
        /\ \A i \in 1 .. Len(l.records) : RecordAt(after, i) = RecordAt(l, i)
        /\ RecordAt(after, Len(l.records) + 1) = request
  <1> DEFINE after == Posted(l, request)
             e == request.entries
             n == Len(l.records)
             name == [form |-> request.form, ids |-> IdsOf(e)]
             new == [id \in Range(IdsOf(e)) |->
                      [entry |-> e[CHOOSE i \in DOMAIN e : e[i].id = id],
                       sequence |-> Token(l, request, Preparation(l, request)).expected + 1]]
  <1>1. /\ request \in Requests /\ request = [form |-> request.form, entries |-> e]
        /\ e \in Seq(Range(e)) /\ DOMAIN e = 1 .. Len(e)
        /\ \A i, j \in DOMAIN e : i # j => e[i].id # e[j].id
    BY RequestParts
  <1>2. Token(l, request, Preparation(l, request)).request = request
    BY TokenRequest
  <1>3. after.records = Append(l.records, name) /\ after.entries = Overridden(l.entries, new)
    BY <1>2 DEF Posted, Committed
  <1>4. l.records \in Seq(Names) /\ n \in Nat /\ name \in Names
    BY <1>1 DEF Indexed, Names
  <1>5. DOMAIN IdsOf(e) = DOMAIN e /\ \A i \in DOMAIN e : IdsOf(e)[i] = e[i].id
    BY DEF IdsOf
  <1>6. DOMAIN new = Range(IdsOf(e))
    OBVIOUS
  <1>7. Range(IdsOf(e)) = {e[i].id : i \in DOMAIN e}
    BY <1>5 DEF Range
  <1>8. \A i \in DOMAIN e : new[e[i].id].entry = e[i]
    BY <1>1, <1>7
  <1>9. \A i \in DOMAIN e : e[i].id \notin DOMAIN l.entries
    BY DEF Known
  <1> HIDE DEF new
  <1>10. /\ DOMAIN after.entries = DOMAIN new \cup DOMAIN l.entries
         /\ \A id \in DOMAIN new : after.entries[id] = new[id]
         /\ \A id \in DOMAIN l.entries : id \notin DOMAIN new => after.entries[id] = l.entries[id]
    BY <1>3 DEF Overridden
  <1> HIDE DEF after, name
  <1>11. /\ after.records \in Seq(Names) /\ Len(after.records) = n + 1
         /\ \A i \in 1 .. n : after.records[i] = l.records[i]
         /\ after.records[n + 1] = name
    BY <1>3, <1>4
  <1>12. ASSUME NEW i \in 1 .. n PROVE RecordAt(after, i) = RecordAt(l, i)
    <2>1. after.records[i] = l.records[i]
      BY <1>11
    <2>2. ASSUME NEW j \in DOMAIN l.records[i].ids
          PROVE after.entries[l.records[i].ids[j]] = l.entries[l.records[i].ids[j]]
      <3>1. l.records[i].ids[j] \in DOMAIN l.entries
        BY <2>2 DEF Indexed
      <3> QED
        BY <1>6, <1>7, <1>9, <1>10, <3>1
    <2> QED
      BY <2>1, <2>2 DEF RecordAt
  <1>13. RecordAt(after, n + 1) = request
    <2>1. RecordAt(after, n + 1) =
            [form |-> request.form,
             entries |-> [j \in DOMAIN IdsOf(e) |-> after.entries[IdsOf(e)[j]].entry]]
      BY <1>11 DEF RecordAt, name
    <2>2. [j \in DOMAIN IdsOf(e) |-> after.entries[IdsOf(e)[j]].entry] = [j \in DOMAIN e |-> e[j]]
      <3>1. ASSUME NEW j \in DOMAIN e PROVE after.entries[IdsOf(e)[j]].entry = e[j]
        BY <1>5, <1>6, <1>7, <1>8, <1>10
      <3> QED
        BY <1>5, <3>1
    <2>3. [j \in DOMAIN e |-> e[j]] = e
      BY <1>1
    <2> QED
      BY <1>1, <2>1, <2>2, <2>3
  <1>14. Indexed(after)
    <2> SUFFICES ASSUME NEW i \in 1 .. n + 1, NEW j \in DOMAIN after.records[i].ids
                 PROVE LET id == after.records[i].ids[j] IN
                       id \in DOMAIN after.entries /\ after.entries[id].entry.id = id
      BY <1>11 DEF Indexed
    <2>1. CASE i \in 1 .. n
      <3> DEFINE id == after.records[i].ids[j]
      <3>1. id \in DOMAIN l.entries /\ l.entries[id].entry.id = id
        BY <1>11, <2>1 DEF Indexed
      <3>2. id \notin DOMAIN new
        BY <1>6, <1>7, <1>9, <3>1
      <3> HIDE DEF id
      <3>3. id \in DOMAIN after.entries /\ after.entries[id] = l.entries[id]
        BY <1>10, <3>1, <3>2
      <3> QED
        BY <3>1, <3>3 DEF id
    <2>2. CASE i = n + 1
      <3>1. after.records[i].ids = IdsOf(e)
        BY <1>11, <2>2 DEF name
      <3>2. j \in DOMAIN e /\ after.records[i].ids[j] = e[j].id
        BY <1>5, <3>1
      <3>3. e[j].id \in DOMAIN new /\ new[e[j].id].entry.id = e[j].id
        BY <1>6, <1>7, <1>8, <3>2
      <3> QED
        BY <1>10, <3>2, <3>3
    <2> QED
      BY <1>4, <2>1, <2>2
  <1> QED
    BY <1>4, <1>11, <1>12, <1>13, <1>14 DEF after

----------------------------------------------------------------------------
(* Posting the records of a history *)

LEMMA NothingTaken == Taken(<<>>)
  <1> DEFINE run == [i \in {0} |-> EmptyLedger]
  <1>1. run[0] = EmptyLedger
    OBVIOUS
  <1>2. 1 .. Len(<<>>) = {}
    OBVIOUS
  <1> HIDE DEF run
  <1>3. Posts(run, <<>>)
    BY <1>1, <1>2 DEF Posts
  <1> QED
    BY <1>3 DEF Taken

LEMMA HoldsNothing ==
  ASSUME NEW done \in Seq(DurableRequests), Taken(done)
  PROVE Holds(EmptyLedger, done) /\ Len(EmptyLedger.records) = 0
  <1>1. EmptyLedger.records = <<>> /\ Len(EmptyLedger.records) = 0
    BY DEF EmptyLedger
  <1>2. Indexed(EmptyLedger)
    BY <1>1 DEF Indexed
  <1>3. PICK run : Posts(run, done)
    BY DEF Taken
  <1>4. EmptyLedger = run[Len(EmptyLedger.records)]
    BY <1>1, <1>3 DEF Posts
  <1> QED
    BY <1>1, <1>2, <1>3, <1>4 DEF Holds

\* The next record of a history is accepted, and held when it is posted.
LEMMA HoldsNext ==
  ASSUME NEW done \in Seq(DurableRequests), NEW l, Holds(l, done),
         Len(l.records) < Len(done)
  PROVE LET record == done[Len(l.records) + 1] IN
        /\ record \in DurableRequests /\ ~IsAnchor(record)
        /\ Accepts(l, Limits, record, Preparation(l, record))
        /\ Holds(Posted(l, record), done)
        /\ Len(Posted(l, record).records) = Len(l.records) + 1
  <1> DEFINE n == Len(l.records)
             record == done[n + 1]
             after == Posted(l, record)
  <1>1. Indexed(l) /\ \A i \in 1 .. n : RecordAt(l, i) = done[i]
    BY DEF Holds
  <1>2. n \in Nat /\ Len(done) \in Nat
    BY <1>1 DEF Indexed
  <1>3. PICK run : Posts(run, done) /\ l = run[n]
    BY DEF Holds
  <1>4. n + 1 \in 1 .. Len(done) /\ (n + 1) - 1 = n
    BY <1>2
  <1>5. record \in DurableRequests
    BY <1>4, ElementOfSeq
  <1>6. ~IsAnchor(record)
    BY <1>5, DurableAssumption, RequestParts
  <1>7. Accepts(l, Limits, record, Preparation(l, record)) /\ run[n + 1] = after
    BY <1>3, <1>4 DEF Posts
  <1>8. ~Known(l, record)
    BY <1>7 DEF Accepts
  <1> HIDE DEF record, after
  <1>9. /\ Indexed(after) /\ Len(after.records) = n + 1
        /\ \A i \in 1 .. n : RecordAt(after, i) = RecordAt(l, i)
        /\ RecordAt(after, n + 1) = record
    BY <1>1, <1>5, <1>8, DurableAssumption, PostedRecords DEF after
  <1>10. ASSUME NEW i \in 1 .. n + 1 PROVE RecordAt(after, i) = done[i]
    <2>1. CASE i \in 1 .. n
      BY <1>1, <1>9, <2>1
    <2>2. CASE i = n + 1
      BY <1>9, <2>2 DEF record
    <2> QED
      BY <1>2, <2>1, <2>2
  <1> HIDE DEF n
  <1>11. Holds(after, done)
    <2>1. Len(after.records) <= Len(done)
      BY <1>2, <1>4, <1>9
    <2> QED
      BY <1>3, <1>7, <1>9, <1>10, <2>1 DEF Holds
  <1> QED
    BY <1>5, <1>6, <1>7, <1>9, <1>11 DEF record, after, n

\* A record the ledger accepts is a new one, and may be the next of its history.
LEMMA HoldsMore ==
  ASSUME NEW done \in Seq(DurableRequests), NEW l, HoldsAll(l, done),
         NEW request \in DurableRequests, Accepts(l, Limits, request, Preparation(l, request))
  PROVE /\ Append(done, request) \in Seq(DurableRequests)
        /\ request \notin Range(done)
        /\ Taken(Append(done, request))
        /\ HoldsAll(Posted(l, request), Append(done, request))
  <1> DEFINE n == Len(l.records)
             after == Posted(l, request)
             more == Append(done, request)
  <1>1. /\ Indexed(l) /\ n \in Nat /\ n = Len(done) /\ Holds(l, done)
        /\ \A i \in 1 .. n : RecordAt(l, i) = done[i]
    BY DEF HoldsAll, Holds, Indexed
  <1>2. /\ more \in Seq(DurableRequests) /\ Len(more) = n + 1
        /\ \A i \in 1 .. n : more[i] = done[i]
        /\ more[n + 1] = request
    BY <1>1
  <1>3. ~Known(l, request)
    BY DEF Accepts
  <1>4. request \notin Range(done)
    <2> SUFFICES ASSUME request \in Range(done) PROVE FALSE
      OBVIOUS
    <2>1. DOMAIN done = 1 .. n
      BY <1>1
    <2>2. PICK i \in 1 .. n : request = done[i]
      BY <2>1 DEF Range
    <2>3. request = RecordAt(l, i)
      BY <1>1, <2>2
    <2> DEFINE ids == l.records[i].ids
    <2>4. request.entries = [j \in DOMAIN ids |-> l.entries[ids[j]].entry]
      BY <2>3 DEF RecordAt
    <2>5. 1 \in DOMAIN request.entries
      BY DurableAssumption, RequestParts
    <2>6. /\ request.entries[1] = l.entries[ids[1]].entry /\ 1 \in DOMAIN ids
      BY <2>4, <2>5
    <2>7. ids[1] \in DOMAIN l.entries /\ l.entries[ids[1]].entry.id = ids[1]
      BY <1>1, <2>6 DEF Indexed
    <2> HIDE DEF ids
    <2>8. request.entries[1].id \in DOMAIN l.entries
      BY <2>6, <2>7
    <2> QED
      BY <1>3, <2>5, <2>8 DEF Known
  <1>5. PICK run : Posts(run, done) /\ l = run[n]
    BY <1>1 DEF Holds
  <1> DEFINE longer == [i \in 0 .. n + 1 |-> IF i <= n THEN run[i] ELSE after]
  <1> HIDE DEF after, more
  <1>6. longer[n + 1] = after /\ \A i \in 0 .. n : longer[i] = run[i]
    BY <1>1
  <1> HIDE DEF longer, n
  <1>7. Posts(longer, more)
    <2>1. longer[0] = EmptyLedger
      BY <1>1, <1>5, <1>6 DEF Posts
    <2>2. ASSUME NEW i \in 1 .. n + 1
          PROVE /\ Accepts(longer[i - 1], Limits, more[i], Preparation(longer[i - 1], more[i]))
                /\ longer[i] = Posted(longer[i - 1], more[i])
      <3>1. CASE i \in 1 .. n
        <4>1. longer[i - 1] = run[i - 1] /\ longer[i] = run[i] /\ more[i] = done[i]
          BY <1>1, <1>2, <1>6, <3>1
        <4> QED
          BY <1>1, <1>5, <3>1, <4>1 DEF Posts
      <3>2. CASE i = n + 1
        <4>1. longer[i - 1] = l /\ longer[i] = after /\ more[i] = request
          BY <1>1, <1>2, <1>5, <1>6, <3>2
        <4> QED
          BY <4>1 DEF after
      <3> QED
        BY <1>1, <3>1, <3>2
    <2> QED
      BY <1>2, <2>1, <2>2 DEF Posts
  <1>8. /\ Indexed(after) /\ Len(after.records) = n + 1
        /\ \A i \in 1 .. n : RecordAt(after, i) = RecordAt(l, i)
        /\ RecordAt(after, n + 1) = request
    BY <1>1, <1>3, DurableAssumption, PostedRecords DEF after, n
  <1>9. ASSUME NEW i \in 1 .. n + 1 PROVE RecordAt(after, i) = more[i]
    <2>1. CASE i \in 1 .. n
      BY <1>1, <1>2, <1>8, <2>1
    <2>2. CASE i = n + 1
      BY <1>2, <1>8, <2>2
    <2> QED
      BY <1>1, <2>1, <2>2
  <1>10. Holds(after, more)
    BY <1>1, <1>2, <1>6, <1>7, <1>8, <1>9 DEF Holds
  <1> QED
    BY <1>2, <1>4, <1>7, <1>8, <1>10 DEF Taken, HoldsAll, after, more

\* The records of a ledger are the history it holds all of.
LEMMA HoldsTold ==
  ASSUME NEW done \in Seq(DurableRequests), NEW l, HoldsAll(l, done)
  PROVE RecordsOf(l) = done /\ Taken(done) /\ Len(l.records) \in Nat
  <1> DEFINE n == Len(l.records)
  <1>1. /\ n \in Nat /\ n = Len(done) /\ l.records \in Seq(Names)
        /\ \A i \in 1 .. n : RecordAt(l, i) = done[i]
    BY DEF HoldsAll, Holds, Indexed
  <1>2. RecordsOf(l) = [i \in 1 .. n |-> RecordAt(l, i)]
    BY <1>1 DEF RecordsOf
  <1>3. done = [i \in 1 .. n |-> done[i]]
    BY <1>1
  <1> QED
    BY <1>1, <1>2, <1>3 DEF HoldsAll, Holds, Taken

----------------------------------------------------------------------------
(* Logs of the ledger *)

\* What a log of the ledger is made of.
LedgerBodies ==
    DurableRequests \cup
    [anchor : Slots, generation : Nat, sum : Seq(DurableRequests), sequence : Nat \ {0}]

LEMMA PlainTold ==
  ASSUME NEW done \in Seq(DurableRequests)
  PROVE /\ Plain(done) \in LogsOf(LedgerBodies)
        /\ AnchorSlot(Plain(done)) = None /\ Told(Plain(done)) = done
        /\ Plain(done).first = 1 /\ Plain(done).bodies = done
  <1>1. Plain(done).first = 1 /\ Plain(done).bodies = done
    BY DEF Plain
  <1>2. done \in Seq(LedgerBodies)
    <2>1. DurableRequests \subseteq LedgerBodies
      BY DEF LedgerBodies
    <2> QED
      BY <2>1, SeqMonotonic
  <1>3. Plain(done) \in LogsOf(LedgerBodies)
    BY <1>2 DEF Plain, LogsOf
  <1>4. done # <<>> => ~IsAnchor(done[1])
    <2> SUFFICES ASSUME done # <<>> PROVE ~IsAnchor(done[1])
      OBVIOUS
    <2>1. done[1] \in DurableRequests
      BY EmptySeq, LenProperties, ElementOfSeq
    <2> QED
      BY <2>1, DurableAssumption, RequestParts
  <1> QED
    BY <1>1, <1>3, <1>4 DEF AnchorSlot, Told

SlotAnchor(s, first, sum) == AnchorTo(s, sum, Len(sum), first)

LEMMA CutTold ==
  ASSUME NEW s \in Slots, NEW first \in Nat \ {0},
         NEW sum \in Seq(DurableRequests), NEW rest \in Seq(DurableRequests)
  PROVE /\ Cut(s, first, sum, rest) \in LogsOf(LedgerBodies)
        /\ AnchorSlot(Cut(s, first, sum, rest)) = s /\ s # None
        /\ Told(Cut(s, first, sum, rest)) = sum \o rest
        /\ Cut(s, first, sum, rest).first = first
        /\ Len(Cut(s, first, sum, rest).bodies) = Len(rest) + 1
  <1> DEFINE anchor == SlotAnchor(s, first, sum)
             log == Cut(s, first, sum, rest)
             bodies == <<anchor>> \o rest
  <1>1. log.first = first /\ log.bodies = bodies /\ log = [first |-> first, bodies |-> bodies]
    BY DEF Cut, SlotAnchor
  <1>2. /\ IsAnchor(anchor) /\ anchor.sum = sum /\ anchor.generation = Len(sum)
        /\ anchor.anchor = s /\ anchor.sequence = first
    BY DEF AnchorTo, IsAnchor, SlotAnchor
  <1>3. anchor \in LedgerBodies
    BY LenProperties DEF LedgerBodies, AnchorTo, SlotAnchor
  <1> HIDE DEF anchor
  <1>4. rest \in Seq(LedgerBodies) /\ Len(rest) \in Nat
    <2>1. DurableRequests \subseteq LedgerBodies
      BY DEF LedgerBodies
    <2> QED
      BY <2>1, SeqMonotonic
  <1>5. bodies \in Seq(LedgerBodies) /\ Len(bodies) = Len(rest) + 1
    BY <1>3, <1>4
  <1>6. Head(bodies) = anchor /\ Tail(bodies) = rest /\ bodies[1] = anchor
    BY <1>3, <1>4
  <1>7. bodies # <<>>
    BY <1>4, <1>5
  <1> HIDE DEF bodies
  <1>8. log \in LogsOf(LedgerBodies)
    BY <1>1, <1>5 DEF LogsOf
  <1> HIDE DEF log
  <1>9. AnchorSlot(log) = s
    BY <1>1, <1>2, <1>6, <1>7 DEF AnchorSlot
  <1>10. s # None
    BY NoneAssumption
  <1>11. Told(log) = sum \o rest
    BY <1>1, <1>2, <1>6, <1>9, <1>10 DEF Told
  <1>12. Len(log.bodies) = Len(rest) + 1 /\ log.first = first
    BY <1>1, <1>5
  <1> QED
    BY <1>8, <1>9, <1>10, <1>11, <1>12 DEF log

LEMMA CutHead ==
  ASSUME NEW s \in Slots, NEW first \in Nat \ {0},
         NEW sum \in Seq(DurableRequests), NEW rest \in Seq(DurableRequests)
  PROVE /\ Cut(s, first, sum, rest).bodies[1] = SlotAnchor(s, first, sum)
        /\ Tail(Cut(s, first, sum, rest).bodies) = rest
  <1> DEFINE anchor == SlotAnchor(s, first, sum)
             B == {anchor} \cup DurableRequests
  <1>1. Cut(s, first, sum, rest).bodies = <<anchor>> \o rest
    BY DEF Cut, SlotAnchor
  <1>2. anchor \in B /\ rest \in Seq(B)
    <2>1. DurableRequests \subseteq B
      OBVIOUS
    <2> HIDE DEF B
    <2> QED
      BY <2>1, SeqMonotonic DEF B
  <1> HIDE DEF anchor, B
  <1>3. (<<anchor>> \o rest)[1] = anchor /\ Tail(<<anchor>> \o rest) = rest
    BY <1>2
  <1> QED
    BY <1>1, <1>3 DEF anchor

LEMMA AnchorParts ==
  ASSUME NEW s \in Slots, NEW first, NEW sum
  PROVE LET anchor == SlotAnchor(s, first, sum) IN
        /\ IsAnchor(anchor) /\ anchor.sum = sum /\ anchor.generation = Len(sum)
        /\ anchor.anchor = s /\ anchor.sequence = first
  BY DEF SlotAnchor, AnchorTo, IsAnchor

LEMMA ReadsTypes ==
  ASSUME NEW log, NEW files, Reads(log, files)
  PROVE log \in LogsOf(LedgerBodies) /\ Told(log) \in Seq(DurableRequests)
  <1>1. ASSUME NEW done \in Seq(DurableRequests), log = Plain(done)
        PROVE log \in LogsOf(LedgerBodies) /\ Told(log) \in Seq(DurableRequests)
    BY <1>1, PlainTold
  <1>2. ASSUME NEW s \in Slots, NEW first \in Nat \ {0},
               NEW sum \in Seq(DurableRequests), NEW rest \in Seq(DurableRequests),
               log = Cut(s, first, sum, rest)
        PROVE log \in LogsOf(LedgerBodies) /\ Told(log) \in Seq(DurableRequests)
    <2>1. /\ Cut(s, first, sum, rest) \in LogsOf(LedgerBodies)
          /\ Told(Cut(s, first, sum, rest)) = sum \o rest
      BY CutTold
    <2>2. sum \o rest \in Seq(DurableRequests)
      BY ConcatProperties
    <2> QED
      BY <1>2, <2>1, <2>2
  <1> QED
    BY <1>1, <1>2 DEF Reads

\* One record more behind a log is one more in its history.
LEMMA ExtendedTold ==
  ASSUME NEW log, NEW files, Reads(log, files), NEW request \in DurableRequests
  PROVE LET longer == Extended(log, <<request>>) IN
        /\ Reads(longer, files) /\ Told(longer) = Append(Told(log), request)
        /\ AnchorSlot(longer) = AnchorSlot(log)
        /\ PartsOf(log, longer) = {log, longer}
  <1> DEFINE longer == Extended(log, <<request>>)
  <1>1. log \in LogsOf(LedgerBodies) /\ request \in LedgerBodies
    BY ReadsTypes DEF LedgerBodies
  <1>2. PartsOf(log, longer) = {log, longer}
    BY <1>1, ExtendedPartsOf
  <1>3. longer = [first |-> log.first, bodies |-> log.bodies \o <<request>>]
    <2>1. log = [first |-> log.first, bodies |-> log.bodies]
      BY <1>1, LogOfTypes
    <2> DEFINE more == log.bodies \o <<request>>
    <2> HIDE DEF more
    <2>2. longer = [log EXCEPT !.bodies = more]
      BY DEF Extended, more
    <2>3. longer = [first |-> log.first, bodies |-> more]
      BY <2>1, <2>2
    <2> QED
      BY <2>3 DEF more
  <1>4. <<request>> \in Seq(DurableRequests)
    OBVIOUS
  <1> HIDE DEF longer
  <1>5. ASSUME NEW done \in Seq(DurableRequests), log = Plain(done)
        PROVE /\ Reads(longer, files) /\ Told(longer) = Append(Told(log), request)
              /\ AnchorSlot(longer) = AnchorSlot(log)
    <2> DEFINE more == Append(done, request)
    <2>1. more \in Seq(DurableRequests) /\ more = done \o <<request>>
      BY AppendProperties, AppendIsConcat
    <2> HIDE DEF more
    <2>2. longer = Plain(more)
      BY <1>3, <1>5, <2>1, PlainTold DEF Plain
    <2>3. /\ Told(longer) = more /\ AnchorSlot(longer) = None
          /\ Told(log) = done /\ AnchorSlot(log) = None
      BY <1>5, <2>1, <2>2, PlainTold
    <2>4. Reads(longer, files)
      BY <2>1, <2>2 DEF Reads
    <2> QED
      BY <2>3, <2>4 DEF more
  <1>6. ASSUME NEW s \in Slots, NEW first \in Nat \ {0},
               NEW sum \in Seq(DurableRequests), NEW rest \in Seq(DurableRequests),
               log = Cut(s, first, sum, rest), files[s] = [now |-> sum, may |-> {sum}]
        PROVE /\ Reads(longer, files) /\ Told(longer) = Append(Told(log), request)
              /\ AnchorSlot(longer) = AnchorSlot(log)
    <2> DEFINE more == rest \o <<request>>
               anchor == AnchorTo(s, sum, Len(sum), first)
    <2>1. more \in Seq(DurableRequests)
      BY <1>4, ConcatProperties
    <2>2. longer = Cut(s, first, sum, more)
      <3>1. log.first = first /\ log.bodies = <<anchor>> \o rest
        BY <1>6, CutTold DEF Cut
      <3>2. (<<anchor>> \o rest) \o <<request>> = <<anchor>> \o (rest \o <<request>>)
        <4> DEFINE B == {anchor} \cup DurableRequests
        <4>1. <<anchor>> \in Seq(B) /\ rest \in Seq(B) /\ <<request>> \in Seq(B)
          <5> HIDE DEF anchor
          <5>1. DurableRequests \subseteq B /\ anchor \in B /\ request \in B
            OBVIOUS
          <5> HIDE DEF B
          <5> QED
            BY <5>1, SeqMonotonic
        <4> HIDE DEF B, anchor
        <4> QED
          BY <4>1, ConcatAssociative
      <3> HIDE DEF anchor
      <3> QED
        BY <1>3, <3>1, <3>2 DEF Cut, anchor
    <2> HIDE DEF more
    <2>3. /\ Told(Cut(s, first, sum, more)) = sum \o more
          /\ AnchorSlot(Cut(s, first, sum, more)) = s
      BY <2>1, CutTold
    <2>4. Told(Cut(s, first, sum, rest)) = sum \o rest /\ AnchorSlot(Cut(s, first, sum, rest)) = s
      BY CutTold
    <2>5. sum \o more = Append(sum \o rest, request)
      <3>1. (sum \o rest) \o <<request>> = sum \o (rest \o <<request>>)
        BY <1>4, ConcatAssociative
      <3>2. sum \o rest \in Seq(DurableRequests)
        BY ConcatProperties
      <3>3. Append(sum \o rest, request) = (sum \o rest) \o <<request>>
        BY <3>2, AppendIsConcat
      <3> QED
        BY <3>1, <3>3 DEF more
    <2>6. Reads(longer, files)
      BY <1>6, <2>1, <2>2 DEF Reads
    <2> QED
      BY <1>6, <2>2, <2>3, <2>4, <2>5, <2>6
  <1> QED
    BY <1>2, <1>5, <1>6 DEF Reads, longer

\* A log may be replaced as a whole by the anchor of a snapshot of its history.
LEMMA ReplacedTold ==
  ASSUME NEW log, NEW files, Reads(log, files), Told(log) # <<>>,
         NEW s \in Slots, DOMAIN files = SnapshotPaths
  PROVE LET done == Told(log)
            last == LastSequence(log)
            anchored == Replaced(log, last, AnchorTo(s, done, Len(done), last)) IN
        /\ Reads(anchored, Stored(files, s, done)) /\ Told(anchored) = done
        /\ AnchorSlot(anchored) = s
        /\ PartsOf(log, anchored) = {log, anchored}
  <1> DEFINE done == Told(log)
             last == LastSequence(log)
             anchor == AnchorTo(s, done, Len(done), last)
             anchored == Replaced(log, last, anchor)
  <1>1. log \in LogsOf(LedgerBodies) /\ done \in Seq(DurableRequests)
    BY ReadsTypes
  <1>2. log.bodies # <<>>
    <2>1. ASSUME NEW all \in Seq(DurableRequests), log = Plain(all) PROVE log.bodies # <<>>
      BY <2>1, PlainTold
    <2>2. ASSUME NEW t \in Slots, NEW first \in Nat \ {0},
                 NEW sum \in Seq(DurableRequests), NEW rest \in Seq(DurableRequests),
                 log = Cut(t, first, sum, rest)
          PROVE log.bodies # <<>>
      <3>1. Len(Cut(t, first, sum, rest).bodies) = Len(rest) + 1 /\ Len(rest) \in Nat
        BY CutTold, LenProperties
      <3>2. Len(log.bodies) # 0
        BY <2>2, <3>1
      <3> QED
        BY <3>2
    <2> QED
      BY <2>1, <2>2 DEF Reads
  <1> DEFINE n == Len(log.bodies)
  <1>3. /\ n \in Nat \ {0} /\ log.first \in Nat \ {0} /\ log.bodies \in Seq(LedgerBodies)
        /\ last = log.first + n - 1
    <2>1. n \in Nat /\ log.bodies \in Seq(LedgerBodies)
      BY <1>1, LogOfTypes
    <2>2. n # 0
      BY <1>2, <2>1, EmptySeq
    <2> QED
      BY <1>1, <2>1, <2>2, LogOfTypes
  <1>4. last \in log.first .. last /\ last \in Nat \ {0}
    BY <1>3
  <1>5. anchor \in LedgerBodies
    BY <1>1, <1>4, LenProperties DEF LedgerBodies, AnchorTo
  <1> HIDE DEF n, last, done
  <1>6. PartsOf(log, anchored) = {log, anchored}
    BY <1>1, <1>4, <1>5, ReplacedPartsOf DEF last
  <1>7. anchored = Cut(s, last, done, <<>>)
    <2> DEFINE from == last - log.first + 2
    <2>1. from = n + 1 /\ n = Len(log.bodies)
      BY <1>3 DEF n
    <2> HIDE DEF from, n
    <2>2. SubSeq(log.bodies, from, n) = <<>>
      BY <1>3, <2>1, SubSeqEmpty
    <2> HIDE DEF anchor
    <2> QED
      BY <2>1, <2>2 DEF Replaced, Behind, Cut, from, anchor
  <1> HIDE DEF anchored, anchor
  <1>8. <<>> \in Seq(DurableRequests)
    OBVIOUS
  <1>9. done \o <<>> = done
    BY <1>1, ConcatEmptySeq
  <1>10. Told(anchored) = done /\ AnchorSlot(anchored) = s
    <2> DEFINE rest == <<>>
    <2>1. rest \in Seq(DurableRequests) /\ anchored = Cut(s, last, done, rest) /\ done \o rest = done
      BY <1>7, <1>8, <1>9
    <2> HIDE DEF rest
    <2>2. AnchorSlot(Cut(s, last, done, rest)) = s /\ Told(Cut(s, last, done, rest)) = done \o rest
      <3>1. last \in Nat \ {0} /\ done \in Seq(DurableRequests) /\ rest \in Seq(DurableRequests)
        BY <1>1, <1>4, <2>1
      <3> QED
        BY <3>1, CutTold
    <2> QED
      BY <2>1, <2>2
  <1>11. Stored(files, s, done)[s] = [now |-> done, may |-> {done}]
    BY DEF Stored, SnapshotPaths
  <1>12. Reads(anchored, Stored(files, s, done))
    BY <1>1, <1>4, <1>7, <1>8, <1>11 DEF Reads
  <1> QED
    BY <1>6, <1>10, <1>12 DEF anchored, anchor, done, last

\* What is written to another file leaves what a log tells.
LEMMA ReadsOther ==
  ASSUME NEW log, NEW files, NEW other, Reads(log, files),
         \A s \in Slots : AnchorSlot(log) = s => other[s] = files[s]
  PROVE Reads(log, other)
  <1>1. ASSUME NEW done \in Seq(DurableRequests), log = Plain(done) PROVE Reads(log, other)
    BY <1>1 DEF Reads
  <1>2. ASSUME NEW s \in Slots, NEW first \in Nat \ {0},
               NEW sum \in Seq(DurableRequests), NEW rest \in Seq(DurableRequests),
               log = Cut(s, first, sum, rest), files[s] = [now |-> sum, may |-> {sum}]
        PROVE Reads(log, other)
    <2>1. AnchorSlot(Cut(s, first, sum, rest)) = s
      BY CutTold
    <2>2. other[s] = [now |-> sum, may |-> {sum}]
      BY <1>2, <2>1
    <2> QED
      BY <1>2, <2>2 DEF Reads
  <1> QED
    BY <1>1, <1>2 DEF Reads

\* How many records a log tells.
LEMMA ReadsForm ==
  ASSUME NEW log, NEW files, Reads(log, files)
  PROVE IF AnchorSlot(log) = None THEN Told(log) = log.bodies
        ELSE /\ AnchorSlot(log) \in Slots /\ IsAnchor(log.bodies[1])
             /\ log.bodies # <<>>
             /\ log.bodies[1].sum \in Seq(DurableRequests)
             /\ Len(Told(log)) = Len(log.bodies[1].sum) + Len(log.bodies) - 1
  <1>1. ASSUME NEW done \in Seq(DurableRequests), log = Plain(done)
        PROVE AnchorSlot(log) = None /\ Told(log) = log.bodies
    BY <1>1, PlainTold
  <1>2. ASSUME NEW s \in Slots, NEW first \in Nat \ {0},
               NEW sum \in Seq(DurableRequests), NEW rest \in Seq(DurableRequests),
               log = Cut(s, first, sum, rest)
        PROVE /\ AnchorSlot(log) \in Slots /\ AnchorSlot(log) # None /\ IsAnchor(log.bodies[1])
              /\ log.bodies # <<>>
              /\ log.bodies[1].sum \in Seq(DurableRequests)
              /\ Len(Told(log)) = Len(log.bodies[1].sum) + Len(log.bodies) - 1
    <2>1. AnchorSlot(log) = s /\ s # None
      BY <1>2, CutTold
    <2>2. log.bodies[1].sum = sum /\ IsAnchor(log.bodies[1])
      <3>1. log.bodies[1] = SlotAnchor(s, first, sum)
        BY <1>2, CutHead
      <3> QED
        BY <3>1, AnchorParts
    <2>3. Told(log) = sum \o rest /\ Len(log.bodies) = Len(rest) + 1
      BY <1>2, CutTold
    <2>4. Len(sum \o rest) = Len(sum) + Len(rest) /\ Len(sum) \in Nat /\ Len(rest) \in Nat
      BY ConcatProperties, LenProperties
    <2>5. Len(Told(log)) = Len(sum) + Len(log.bodies) - 1
      BY <2>3, <2>4
    <2>6. log.bodies # <<>>
      <3>1. Len(log.bodies) # 0
        BY <2>3, <2>4
      <3> QED
        BY <3>1
    <2> QED
      BY <2>1, <2>2, <2>5, <2>6
  <1>3. (AnchorSlot(log) = None /\ Told(log) = log.bodies) \/
        (/\ AnchorSlot(log) \in Slots /\ AnchorSlot(log) # None /\ IsAnchor(log.bodies[1])
         /\ log.bodies # <<>>
         /\ log.bodies[1].sum \in Seq(DurableRequests)
         /\ Len(Told(log)) = Len(log.bodies[1].sum) + Len(log.bodies) - 1)
    BY <1>1, <1>2 DEF Reads
  <1> QED
    BY <1>3

\* A log that begins another tells no more.
LEMMA BeginsTold ==
  ASSUME NEW log, NEW image, NEW files, Reads(log, files), Reads(image, files),
         Begins(image, log)
  PROVE Len(Told(image)) <= Len(Told(log))
  <1> DEFINE b == log.bodies
             c == image.bodies
             m == Len(c)
  <1>1. /\ log \in LogsOf(LedgerBodies) /\ image \in LogsOf(LedgerBodies)
        /\ Told(log) \in Seq(DurableRequests)
    BY ReadsTypes
  <1>2. /\ b \in Seq(LedgerBodies) /\ c \in Seq(LedgerBodies) /\ m \in Nat /\ Len(b) \in Nat
    BY <1>1, LogOfTypes
  <1>3. m <= Len(b) /\ SubSeq(c, 1, m) = SubSeq(b, 1, m)
    BY DEF Begins, IsPrefix
  <1>4. c # <<>> => b # <<>> /\ c[1] = b[1]
    <2> SUFFICES ASSUME c # <<>> PROVE b # <<>> /\ c[1] = b[1]
      OBVIOUS
    <2>1. m >= 1
      BY <1>2, EmptySeq
    <2>2. SubSeq(c, 1, m)[1] = c[1]
      BY <1>2, <2>1
    <2>3. SubSeq(b, 1, m)[1] = b[1]
      BY <1>2, <1>3, <2>1
    <2>4. b # <<>>
      BY <1>2, <1>3, <2>1
    <2> QED
      BY <1>3, <2>2, <2>3, <2>4
  <1>5. Len(Told(log)) \in Nat
    BY <1>1, LenProperties
  <1> HIDE DEF b, c, m
  <1>6. c # <<>> => AnchorSlot(image) = AnchorSlot(log)
    BY <1>4 DEF AnchorSlot, b, c
  <1>7. CASE AnchorSlot(image) = None
    <2>1. Told(image) = c
      BY <1>7, ReadsForm DEF c
    <2>2. CASE c = <<>>
      <3>1. Len(Told(image)) = 0
        BY <2>1, <2>2
      <3> QED
        BY <1>5, <3>1
    <2>3. CASE c # <<>>
      <3>1. Told(log) = b
        BY <1>6, <1>7, <2>3, ReadsForm DEF b
      <3> QED
        BY <1>3, <2>1, <3>1 DEF m
    <2> QED
      BY <2>2, <2>3
  <1>8. CASE AnchorSlot(image) # None
    <2>1. /\ c # <<>> /\ Len(Told(image)) = Len(c[1].sum) + m - 1 /\ c[1].sum \in Seq(DurableRequests)
      BY <1>8, ReadsForm DEF c, m
    <2>2. Len(Told(log)) = Len(b[1].sum) + Len(b) - 1
      BY <1>6, <1>8, <2>1, ReadsForm DEF b
    <2>3. Len(c[1].sum) \in Nat /\ b[1].sum = c[1].sum
      BY <1>4, <2>1, LenProperties
    <2> QED
      BY <1>2, <1>3, <2>1, <2>2, <2>3
  <1> QED
    BY <1>7, <1>8

\* A log that can be read opens with the checkpoint it asks for.
LEMMA ReadsFits ==
  ASSUME NEW log, NEW files, Reads(log, files)
  PROVE /\ RecordsIn(log, files) = Told(log)
        /\ CheckpointFits(log, files, AnchorSlot(log) # None)
  <1>1. ASSUME NEW done \in Seq(DurableRequests), log = Plain(done)
        PROVE /\ RecordsIn(log, files) = Told(log)
              /\ CheckpointFits(log, files, AnchorSlot(log) # None)
    <2>1. AnchorSlot(log) = None
      BY <1>1, PlainTold
    <2> QED
      BY <2>1 DEF RecordsIn, CheckpointFits, Told
  <1>2. ASSUME NEW s \in Slots, NEW first \in Nat \ {0},
               NEW sum \in Seq(DurableRequests), NEW rest \in Seq(DurableRequests),
               log = Cut(s, first, sum, rest), files[s] = [now |-> sum, may |-> {sum}]
        PROVE /\ RecordsIn(log, files) = Told(log)
              /\ CheckpointFits(log, files, AnchorSlot(log) # None)
    <2> DEFINE anchor == log.bodies[1]
    <2>1. AnchorSlot(log) = s /\ s # None /\ log.first = first
      BY <1>2, CutTold
    <2>2. anchor = SlotAnchor(s, first, sum)
      BY <1>2, CutHead
    <2>3. /\ anchor.sum = sum /\ anchor.generation = Len(sum)
          /\ anchor.anchor = s /\ anchor.sequence = first
      BY <2>2, AnchorParts
    <2>4. files[s].now = sum
      BY <1>2
    <2> HIDE DEF anchor
    <2>5. RecordsIn(log, files) = Told(log)
      BY <2>1, <2>3, <2>4 DEF RecordsIn, Told, anchor
    <2>6. AnchorFits(log, files)
      BY <2>1, <2>3, <2>4 DEF AnchorFits, anchor
    <2> QED
      BY <2>1, <2>3, <2>5, <2>6 DEF CheckpointFits, anchor
  <1> QED
    BY <1>1, <1>2 DEF Reads

LEMMA LoggedTold ==
  ASSUME product = "ledger", Reads(visible, slots)
  PROVE Logged = Told(visible)
  BY ReadsFits DEF Logged

----------------------------------------------------------------------------
(* Histories of one log *)

LEMMA BeginsSelf ==
  ASSUME NEW done \in Seq(Sayings)
  PROVE BeginsWith(done, done)
  <1>1. Len(done) \in 0 .. Len(done) /\ done = SubSeq(done, 1, Len(done))
    BY LenProperties, SubSeqFull
  <1> QED
    BY <1>1 DEF BeginsWith

LEMMA BeginsMore ==
  ASSUME NEW done \in Seq(Sayings), NEW part, BeginsWith(done, part), NEW r \in Sayings
  PROVE BeginsWith(Append(done, r), part)
  <1>1. PICK n \in 0 .. Len(done) : part = SubSeq(done, 1, n)
    BY DEF BeginsWith
  <1> DEFINE more == Append(done, r)
  <1>2. /\ more \in Seq(Sayings) /\ Len(more) = Len(done) + 1 /\ Len(done) \in Nat
        /\ \A i \in 1 .. Len(done) : more[i] = done[i]
    BY AppendProperties, LenProperties
  <1> HIDE DEF more
  <1>3. SubSeq(done, 1, n) = SubSeq(more, 1, n)
    <2>1. /\ SubSeq(done, 1, n) = [i \in 1 .. n |-> done[i]]
          /\ SubSeq(more, 1, n) = [i \in 1 .. n |-> more[i]]
      BY <1>2
    <2>2. \A i \in 1 .. n : more[i] = done[i]
      BY <1>2
    <2> QED
      BY <2>1, <2>2
  <1>4. n \in 0 .. Len(more)
    BY <1>2
  <1> QED
    BY <1>1, <1>3, <1>4 DEF BeginsWith, more

LEMMA OneMoreLonger ==
  ASSUME NEW done \in Seq(Sayings), NEW more, OneMore(done, more)
  PROVE Len(more) = Len(done) + 1 /\ Len(done) \in Nat
  <1>1. PICK r \in Sayings : more = Append(done, r)
    BY DEF OneMore
  <1> QED
    BY <1>1, AppendProperties, LenProperties

LEMMA CandidateNear ==
  ASSUME HistoriesSaid, ImagesNear, FlightNear, NEW log \in Candidates
  PROVE \/ BeginsWith(Said(product, visible), Said(product, log))
        \/ OneMore(Said(product, visible), Said(product, log))
  <1>1. BeginsWith(Said(product, visible), Said(product, visible))
    BY BeginsSelf DEF HistoriesSaid, Candidates
  <1> QED
    BY <1>1 DEF ImagesNear, FlightNear, Candidates

\* When the log that is read becomes the one that was being written, what
\* others say still begins it.
LEMMA NearFlight ==
  ASSUME HistoriesSaid, ImagesNear, FlightNear, mode = "writing"
  PROVE \A log \in Candidates : BeginsWith(Said(product, flight), Said(product, log))
  <1> SUFFICES ASSUME NEW log \in Candidates
               PROVE BeginsWith(Said(product, flight), Said(product, log))
    OBVIOUS
  <1>1. flight \in Candidates /\ visible \in Candidates
    BY DEF Candidates
  <1>2. Said(product, flight) \in Seq(Sayings) /\ Said(product, visible) \in Seq(Sayings)
    BY <1>1 DEF HistoriesSaid
  <1>3. CASE log = flight
    BY <1>2, <1>3, BeginsSelf
  <1>4. CASE log # flight
    <2>1. BeginsWith(Said(product, visible), Said(product, log))
      <3>1. CASE log \in images
        BY <3>1 DEF ImagesNear
      <3>2. CASE log = visible
        BY <1>2, <3>2, BeginsSelf
      <3> QED
        BY <1>4, <3>1, <3>2 DEF Candidates
    <2>2. PICK done \in Seq(Sayings) : done = Said(product, visible)
      BY <1>2
    <2>3. CASE Said(product, flight) = Said(product, visible)
      BY <2>1, <2>3
    <2>4. CASE OneMore(Said(product, visible), Said(product, flight))
      <3>1. PICK r \in Sayings : Said(product, flight) = Append(done, r)
        BY <2>2, <2>4 DEF OneMore
      <3>2. BeginsWith(Append(done, r), Said(product, log))
        BY <2>1, <2>2, BeginsMore
      <3> QED
        BY <3>1, <3>2
    <2> QED
      BY <2>3, <2>4 DEF FlightNear
  <1> QED
    BY <1>3, <1>4

----------------------------------------------------------------------------
(* What a step of the storage keeps of the logs, whose shard it is *)

LEMMA SelfNear ==
  ASSUME HistoriesSaid, visible' \in Candidates, images' = {visible'}, UNCHANGED product
  PROVE ImagesNear'
  <1>1. Said(product, visible') \in Seq(Sayings)
    BY DEF HistoriesSaid
  <1>2. BeginsWith(Said(product, visible'), Said(product, visible'))
    BY <1>1, BeginsSelf
  <1> QED
    BY <1>2 DEF ImagesNear

\* The parts a failed call leaves: the log before it and the one it wrote.
LEMMA PartsNear ==
  ASSUME HistoriesSaid, ImagesNear, FlightNear, mode = "writing", visible' \in {visible, flight},
         images' = images \cup {visible, flight}, mode' \in {"closed", "poisoned"},
         UNCHANGED product
  PROVE ImagesNear'
  <1>1. images' \subseteq Candidates
    BY DEF Candidates
  <1>2. CASE visible' = visible
    <2>1. \A log \in Candidates :
             \/ BeginsWith(Said(product, visible), Said(product, log))
             \/ OneMore(Said(product, visible), Said(product, log))
      BY CandidateNear
    <2> QED
      BY <1>1, <1>2, <2>1 DEF ImagesNear
  <1>3. CASE visible' = flight
    <2>1. \A log \in Candidates : BeginsWith(Said(product, flight), Said(product, log))
      BY NearFlight
    <2> QED
      BY <1>1, <1>3, <2>1 DEF ImagesNear
  <1> QED
    BY <1>2, <1>3

LEMMA OpenedNear ==
  ASSUME HistoriesSaid, ImagesNear, UNCHANGED <<visible, product>>,
         images' = {image \in images : Begins(image, visible)}
  PROVE ImagesNear'
  <1> SUFFICES ASSUME NEW image \in images, Begins(image, visible)
               PROVE BeginsWith(Said(product, visible), Said(product, image))
    BY DEF ImagesNear
  <1>1. /\ Said(product, visible) \in Seq(Sayings) /\ Said(product, image) \in Seq(Sayings)
        /\ Len(Said(product, image)) <= Len(Said(product, visible))
    BY DEF HistoriesSaid, Candidates
  <1>2. Len(Said(product, image)) \in Nat /\ Len(Said(product, visible)) \in Nat
    BY <1>1, LenProperties
  <1>3. ~OneMore(Said(product, visible), Said(product, image))
    <2> SUFFICES ASSUME OneMore(Said(product, visible), Said(product, image)) PROVE FALSE
      OBVIOUS
    <2>1. Len(Said(product, image)) = Len(Said(product, visible)) + 1
      BY <1>1, OneMoreLonger
    <2> QED
      BY <1>1, <1>2, <2>1
  <1> QED
    BY <1>3 DEF ImagesNear

LEMMA StorageNear ==
  ASSUME HistoriesSaid, ImagesNear, FlightNear, WholeParts, StorageStep, UNCHANGED product
  PROVE ImagesNear'
  <1>1. CASE OpenLog
    BY <1>1, OpenedNear DEF OpenLog
  <1>2. CASE Acknowledge
    <2>1. visible' \in Candidates /\ images' = {visible'}
      BY <1>2 DEF Acknowledge, Candidates
    <2> QED
      BY <2>1, SelfNear
  <1>3. CASE Fail
    <2>1. PartsOf(visible, flight) = {visible, flight}
      BY <1>3 DEF Fail, WholeParts
    <2> QED
      BY <1>3, <2>1, PartsNear DEF Fail
  <1>4. CASE Refuse
    BY <1>4 DEF Refuse, ImagesNear
  <1>5. CASE SyncLog
    <2>1. visible' \in Candidates /\ images' = {visible'}
      BY <1>5 DEF SyncLog, Candidates
    <2> QED
      BY <2>1, SelfNear
  <1>6. CASE SyncLogFails
    BY <1>6 DEF SyncLogFails, ImagesNear
  <1>7. CASE CloseLog
    <2>1. CASE images' = {visible}
      <3>1. visible' \in Candidates /\ images' = {visible'}
        BY <1>7, <2>1 DEF CloseLog, Candidates
      <3> QED
        BY <3>1, SelfNear
    <2>2. CASE images' = images
      BY <1>7, <2>2 DEF CloseLog, ImagesNear
    <2> QED
      BY <1>7, <2>1, <2>2 DEF CloseLog
  <1>8. CASE DropLog
    <2>1. CASE mode = "writing"
      <3>1. PartsOf(visible, flight) = {visible, flight}
        BY <2>1 DEF WholeParts
      <3> QED
        BY <1>8, <2>1, <3>1, PartsNear DEF DropLog
    <2>2. CASE mode # "writing"
      BY <1>8, <2>2 DEF DropLog, ImagesNear
    <2> QED
      BY <2>1, <2>2
  <1>9. CASE LosePower
    <2>1. visible' \in Candidates
      BY <1>9 DEF LosePower, Candidates, WholeParts
    <2> QED
      BY <1>9, <2>1, SelfNear DEF LosePower
  <1> QED
    BY <1>1, <1>2, <1>3, <1>4, <1>5, <1>6, <1>7, <1>8, <1>9 DEF StorageStep

----------------------------------------------------------------------------
(* What a step of the storage keeps of the ledger *)

LEMMA CarriesTypes ==
  ASSUME LogsCarry, NEW log \in Candidates
  PROVE /\ Reads(log, slots) /\ Told(log) \in Seq(DurableRequests)
        /\ Taken(Told(log)) /\ Named(Told(log), answers)
  BY ReadsTypes DEF LogsCarry, Carries

LEMMA LedgerSays ==
  ASSUME LogsKeep
  PROVE HistoriesSaid
  <1>1. LogsCarry /\ product = "ledger"
    BY DEF LogsKeep
  <1>2. ASSUME NEW log \in Candidates
        PROVE Said(product, log) \in Seq(Sayings) /\ Named(Said(product, log), answers)
    <2>1. DurableRequests \subseteq Sayings
      BY DEF Sayings
    <2>2. Told(log) \in Seq(Sayings)
      BY <1>1, <2>1, CarriesTypes, SeqMonotonic
    <2> QED
      BY <1>1, <2>2, CarriesTypes DEF Said
  <1>3. ASSUME NEW image \in images, Begins(image, visible)
        PROVE Len(Said(product, image)) <= Len(Said(product, visible))
    <2>1. image \in Candidates /\ visible \in Candidates
      BY DEF Candidates
    <2>2. Reads(image, slots) /\ Reads(visible, slots)
      BY <1>1, <2>1, CarriesTypes
    <2> QED
      BY <1>1, <1>3, <2>2, BeginsTold DEF Said
  <1> QED
    BY <1>2, <1>3 DEF HistoriesSaid

LEMMA AppendingFlight ==
  ASSUME LogsCarry, AppendingKnows
  PROVE \E request \in DurableRequests \ Range(Told(visible)) :
          /\ Readied(ledger, request, prepared)
          /\ flight = Extended(visible, <<request>>)
          /\ Told(flight) = Append(Told(visible), request)
          /\ AnchorSlot(flight) = AnchorSlot(visible)
  <1>1. PICK request \in DurableRequests :
          Readied(ledger, request, prepared) /\ flight = Extended(visible, <<request>>)
    BY DEF AppendingKnows
  <1>2. visible \in Candidates
    BY DEF Candidates
  <1>3. Reads(visible, slots) /\ Told(visible) \in Seq(DurableRequests)
    BY <1>2, CarriesTypes
  <1>4. Told(flight) = Append(Told(visible), request) /\ AnchorSlot(flight) = AnchorSlot(visible)
    BY <1>1, <1>3, ExtendedTold
  <1>5. PICK done \in Seq(DurableRequests) : done = Told(visible)
    BY <1>3
  <1>6. HoldsAll(ledger, done) /\ Accepts(ledger, Limits, request, Preparation(ledger, request))
    BY <1>1, <1>5 DEF AppendingKnows, Readied
  <1>7. request \notin Range(done)
    BY <1>6, HoldsMore
  <1> QED
    BY <1>1, <1>4, <1>5, <1>7

LEMMA LedgerFlight ==
  ASSUME LedgerInv
  PROVE FlightNear
  <1> SUFFICES ASSUME mode = "writing"
               PROVE Told(flight) = Told(visible) \/ OneMore(Told(visible), Told(flight))
    BY DEF FlightNear, Said, LedgerInv, LogsKeep
  <1>1. step \in {"appending", "anchoring"}
    BY DEF LedgerInv, LedgerModes
  <1>2. CASE step = "appending"
    <2>1. PICK request \in DurableRequests \ Range(Told(visible)) :
            Told(flight) = Append(Told(visible), request)
      BY <1>2, AppendingFlight DEF LedgerInv, LogsKeep, LedgerKnows
    <2> QED
      BY <2>1 DEF OneMore, Sayings
  <1>3. CASE step = "anchoring"
    BY <1>3 DEF LedgerInv, LedgerKnows, AnchoringKnows
  <1> QED
    BY <1>1, <1>2, <1>3

LEMMA LedgerParts ==
  ASSUME LedgerInv
  PROVE /\ LogsKeep /\ LogsCarry /\ ImagesNear /\ WholeParts /\ LedgerModes /\ LedgerKnows
        /\ FlightNear /\ HistoriesSaid /\ product = "ledger"
        /\ DOMAIN slots = SnapshotPaths
        /\ visible \in Candidates /\ Reads(visible, slots)
        /\ Told(visible) \in Seq(DurableRequests)
        /\ Taken(Told(visible)) /\ Named(Told(visible), answers)
  <1>1. LogsCarry /\ visible \in Candidates
    BY DEF LedgerInv, LogsKeep, Candidates
  <1> QED
    BY <1>1, LedgerFlight, LedgerSays, CarriesTypes DEF LedgerInv, LogsKeep

LEMMA StorageCarries ==
  ASSUME LedgerInv, StorageStep, UNCHANGED <<product, slots, answers>>
  PROVE LogsKeep'
  <1>1. Candidates' \subseteq Candidates /\ WholeParts'
    BY LedgerParts, FewerLogs
  <1>2. LogsCarry'
    BY <1>1, LedgerParts DEF LogsCarry
  <1>3. ImagesNear'
    BY LedgerParts, StorageNear
  <1> QED
    BY <1>1, <1>2, <1>3, LedgerParts DEF LogsKeep

----------------------------------------------------------------------------
(* Beginning, ending and failing *)

LEMMA DownAgain ==
  ASSUME LogsKeep', step' = "down", mode' = "closed", ledger' = EmptyLedger
  PROVE LedgerInv'
  <1>1. LedgerModes' /\ LedgerKnows'
    BY DEF LedgerModes, LedgerKnows
  <1> QED
    BY <1>1 DEF LedgerInv

LEMMA HaltedNow ==
  ASSUME LogsKeep', step' = "halted", mode' = "poisoned"
  PROVE LedgerInv'
  <1>1. LedgerModes' /\ LedgerKnows'
    BY DEF LedgerModes, LedgerKnows
  <1> QED
    BY <1>1 DEF LedgerInv

LEMMA ReadyNow ==
  ASSUME LogsKeep', step' = "ready", mode' = "open", HoldsAll(ledger', Told(visible')),
         slot' = AnchorSlot(visible')
  PROVE LedgerInv'
  <1>1. LedgerModes' /\ LedgerKnows'
    BY DEF LedgerModes, LedgerKnows
  <1> QED
    BY <1>1 DEF LedgerInv

LEMMA LedgerInvAtInit ==
  ASSUME DurableLedgerInit
  PROVE LedgerInv
  <1>1. /\ visible = EmptyLog /\ images = {EmptyLog} /\ mode = "closed"
        /\ slots = [s \in SnapshotPaths |-> [now |-> None, may |-> {None}]]
        /\ answers = {} /\ step \in {"bare", "down"} /\ ledger = EmptyLedger /\ product = "ledger"
    BY DEF DurableLedgerInit, AnchoredInit, LogInit, LedgerInit
  <1>2. EmptyLog = Plain(<<>>) /\ <<>> \in Seq(DurableRequests)
    BY DEF EmptyLog, Plain
  <1>3. Told(EmptyLog) = <<>> /\ Reads(EmptyLog, slots)
    BY <1>2, PlainTold DEF Reads
  <1>4. Carries(EmptyLog, slots, answers)
    BY <1>1, <1>3, NothingTaken DEF Carries, Named
  <1>5. Candidates = {EmptyLog}
    BY <1>1 DEF Candidates
  <1>6. LogsCarry /\ WholeParts /\ LedgerModes /\ LedgerKnows /\ DOMAIN slots = SnapshotPaths
    BY <1>1, <1>4, <1>5 DEF LogsCarry, WholeParts, LedgerModes, LedgerKnows
  <1>7. <<>> \in Seq(Sayings)
    OBVIOUS
  <1>8. ImagesNear
    BY <1>1, <1>3, <1>7, BeginsSelf DEF ImagesNear, Said
  <1> QED
    BY <1>1, <1>6, <1>8 DEF LedgerInv, LogsKeep

LEMMA OpenKeeps ==
  ASSUME LedgerInv, UNCHANGED product, NEW source \in BOOLEAN, Open(source)
  PROVE LedgerInv'
  <1>1. /\ step = "down" /\ mode = "closed" /\ ledger = EmptyLedger
        /\ UNCHANGED <<ledger, slots, answers>>
    BY LedgerParts DEF Open, ledgerVars, LedgerModes, LedgerKnows
  <1>2. CASE OpenLog /\ step' = "replaying" /\ slot' = AnchorSlot(visible)
    <2>1. LogsKeep'
      BY <1>1, <1>2, StorageCarries DEF StorageStep
    <2>2. visible' = visible /\ mode' = "open" /\ ledger' = EmptyLedger
      BY <1>1, <1>2 DEF OpenLog
    <2>3. Holds(EmptyLedger, Told(visible))
      BY LedgerParts, HoldsNothing
    <2>4. LedgerModes' /\ LedgerKnows'
      BY <1>2, <2>2, <2>3 DEF LedgerModes, LedgerKnows
    <2> QED
      BY <2>1, <2>4 DEF LedgerInv
  <1>3. CASE images' = {image \in images : Begins(image, visible)}
             /\ UNCHANGED <<visible, flight, mode, step, slot>>
    <2>1. Candidates' \subseteq Candidates /\ WholeParts'
      BY <1>1, <1>3 DEF Candidates, WholeParts
    <2>2. LogsCarry'
      BY <1>1, <2>1, LedgerParts DEF LogsCarry
    <2>3. ImagesNear'
      BY <1>3, LedgerParts, OpenedNear
    <2>4. LogsKeep'
      BY <1>1, <2>1, <2>2, <2>3, LedgerParts DEF LogsKeep
    <2> QED
      BY <1>1, <1>3, <2>4, DownAgain
  <1> QED
    BY <1>2, <1>3 DEF Open

LEMMA LedgerEndsKeeps ==
  ASSUME LedgerInv, UNCHANGED product, Close \/ Stop
  PROVE LedgerInv'
  <1>1. /\ CloseLog \/ DropLog
        /\ Forgotten /\ UNCHANGED <<slots, answers>> /\ mode' = "closed"
    BY DEF Close, Stop, CloseLog, DropLog
  <1>2. LogsKeep'
    BY <1>1, StorageCarries DEF StorageStep
  <1> QED
    BY <1>1, <1>2, DownAgain DEF Forgotten

\* A crash leaves the snapshot that a log was cut over to.
LEMMA ReadsAfterPowerLoss ==
  ASSUME NEW log, NEW files, Reads(log, files), NEW after \in SlotsAfterPowerLoss(files)
  PROVE Reads(log, after)
  <1>1. ASSUME NEW done \in Seq(DurableRequests), log = Plain(done) PROVE Reads(log, after)
    BY <1>1 DEF Reads
  <1>2. ASSUME NEW s \in Slots, NEW first \in Nat \ {0},
               NEW sum \in Seq(DurableRequests), NEW rest \in Seq(DurableRequests),
               log = Cut(s, first, sum, rest), files[s] = [now |-> sum, may |-> {sum}]
        PROVE Reads(log, after)
    <2>1. s \in SnapshotPaths
      BY DEF SnapshotPaths
    <2>2. after[s] = [now |-> sum, may |-> {sum}]
      BY <1>2, <2>1, FilesAfterPowerLoss
    <2> QED
      BY <1>2, <2>2 DEF Reads
  <1> QED
    BY <1>1, <1>2 DEF Reads

LEMMA LedgerLosesPowerKeeps ==
  ASSUME LedgerInv, UNCHANGED product, PowerLoss
  PROVE LedgerInv'
  <1>1. /\ LosePower /\ Forgotten /\ slots' \in SlotsAfterPowerLoss(slots)
        /\ UNCHANGED answers /\ mode' = "closed"
    BY DEF PowerLoss, LosePower
  <1>2. Candidates' \subseteq Candidates /\ WholeParts'
    BY <1>1, LedgerParts, FewerLogs DEF StorageStep
  <1>3. LogsCarry'
    <2>1. ASSUME NEW log \in Candidates PROVE Carries(log, slots', answers')
      <3>1. Carries(log, slots, answers)
        BY <2>1, LedgerParts DEF LogsCarry
      <3> QED
        BY <1>1, <3>1, ReadsAfterPowerLoss DEF Carries
    <2> QED
      BY <1>2, <2>1 DEF LogsCarry
  <1>4. ImagesNear'
    BY <1>1, LedgerParts, StorageNear DEF StorageStep
  <1>5. DOMAIN slots' = SnapshotPaths
    BY <1>1, FilesAfterPowerLoss DEF FilesForm
  <1>6. LogsKeep'
    BY <1>2, <1>3, <1>4, <1>5, LedgerParts DEF LogsKeep
  <1> QED
    BY <1>1, <1>6, DownAgain DEF Forgotten

LEMMA LedgerStopsKeeps ==
  ASSUME LedgerInv, UNCHANGED product, AppendFails \/ SyncFails
  PROVE LedgerInv'
  <1>1. /\ Fail \/ SyncLogFails
        /\ UNCHANGED <<slots, answers>> /\ mode' = "poisoned" /\ step' = "halted"
    BY DEF AppendFails, SyncFails, Fail, SyncLogFails
  <1>2. LogsKeep'
    BY <1>1, StorageCarries DEF StorageStep
  <1> QED
    BY <1>1, <1>2, HaltedNow

LEMMA LedgerStutters ==
  ASSUME LedgerInv, UNCHANGED <<ledgerVars, anchoredVars>>
  PROVE LedgerInv'
  <1>1. UNCHANGED <<ledger, prepared, visible, images, flight, mode, product, slots, step, slot,
                    answers>>
    BY DEF ledgerVars, anchoredVars, logVars
  <1>2. LogsCarry'
    BY <1>1, LedgerParts DEF LogsCarry, Candidates
  <1>3. ImagesNear' /\ WholeParts' /\ LedgerModes' /\ DOMAIN slots' = SnapshotPaths
    BY <1>1, LedgerParts DEF ImagesNear, WholeParts, LedgerModes
  <1>4. LedgerKnows'
    BY <1>1 DEF LedgerInv, LedgerKnows, AppendingKnows, CommittingKnows, AnchoringKnows, NextSlot
  <1> QED
    BY <1>1, <1>2, <1>3, <1>4, LedgerParts DEF LedgerInv, LogsKeep

\* A ledger without storage leaves the storage alone.
LEMMA BareKeeps ==
  ASSUME LedgerInv, UNCHANGED product, Bare
  PROVE LedgerInv'
  <1>1. step = "bare" /\ UNCHANGED <<visible, images, flight, mode, slots, step, answers>>
    BY DEF Bare, logVars
  <1>2. LogsCarry'
    BY <1>1, LedgerParts DEF LogsCarry, Candidates
  <1>3. ImagesNear' /\ WholeParts' /\ LedgerModes' /\ DOMAIN slots' = SnapshotPaths
    BY <1>1, LedgerParts DEF ImagesNear, WholeParts, LedgerModes
  <1>4. LedgerKnows'
    BY <1>1 DEF LedgerKnows
  <1> QED
    BY <1>1, <1>2, <1>3, <1>4, LedgerParts DEF LedgerInv, LogsKeep

----------------------------------------------------------------------------
(* Opening *)

LEMMA ReplayRecordKeeps ==
  ASSUME LedgerInv, UNCHANGED product, ReplayRecord
  PROVE LedgerInv'
  <1>1. /\ step = "replaying" /\ Len(ledger.records) < Len(RecordsIn(visible, slots))
        /\ ledger' = Posted(ledger, RecordsIn(visible, slots)[Len(ledger.records) + 1])
        /\ UNCHANGED <<visible, images, flight, mode, slots, step, slot, answers>>
    BY DEF ReplayRecord, logVars
  <1>2. PICK done \in Seq(DurableRequests) : done = Told(visible)
    BY LedgerParts
  <1>3. RecordsIn(visible, slots) = done
    BY <1>2, LedgerParts, ReadsFits
  <1>4. Holds(ledger, done)
    BY <1>1, <1>2, LedgerParts DEF LedgerKnows
  <1>5. Holds(ledger', done)
    BY <1>1, <1>3, <1>4, HoldsNext
  <1>6. LogsCarry'
    BY <1>1, LedgerParts DEF LogsCarry, Candidates
  <1>7. ImagesNear' /\ WholeParts' /\ LedgerModes' /\ DOMAIN slots' = SnapshotPaths
    BY <1>1, LedgerParts DEF ImagesNear, WholeParts, LedgerModes
  <1>8. slot' = AnchorSlot(visible') /\ Holds(ledger', Told(visible'))
    BY <1>1, <1>2, <1>5, LedgerParts DEF LedgerKnows
  <1>9. LedgerKnows'
    BY <1>1, <1>8 DEF LedgerKnows
  <1> QED
    BY <1>6, <1>7, <1>9, LedgerParts DEF LedgerInv, LogsKeep

LEMMA OpenedKeeps ==
  ASSUME LedgerInv, UNCHANGED product, Opened
  PROVE LedgerInv'
  <1>1. /\ step = "replaying" /\ Len(ledger.records) = Len(RecordsIn(visible, slots))
        /\ step' = "ready" /\ mode = "open"
        /\ UNCHANGED <<ledger, visible, images, flight, mode, slots, slot, answers>>
    BY LedgerParts DEF Opened, logVars, ledgerVars, LedgerModes
  <1>2. HoldsAll(ledger, Told(visible)) /\ slot = AnchorSlot(visible)
    BY <1>1, LedgerParts, ReadsFits DEF LedgerKnows, HoldsAll
  <1>3. LogsKeep'
    BY <1>1, LedgerParts DEF LogsCarry, Candidates, ImagesNear, WholeParts, LogsKeep
  <1> QED
    BY <1>1, <1>2, <1>3, ReadyNow

----------------------------------------------------------------------------
(* Posting *)

LEMMA NamedMore ==
  ASSUME NEW done \in Seq(DurableRequests), NEW given, Named(done, given),
         NEW request \in DurableRequests
  PROVE Named(Append(done, request), given)
  <1>1. /\ Len(Append(done, request)) = Len(done) + 1 /\ Len(done) \in Nat
        /\ \A i \in 1 .. Len(done) : Append(done, request)[i] = done[i]
    BY AppendProperties, LenProperties
  <1> QED
    BY <1>1 DEF Named

LEMMA SubmitKeeps ==
  ASSUME LedgerInv, UNCHANGED product, NEW request \in DurableRequests, Submit(request)
  PROVE LedgerInv'
  <1> DEFINE longer == Extended(visible, <<request>>)
  <1>1. /\ step = "ready" /\ mode = "open" /\ step' = "appending"
        /\ mode' = "writing" /\ flight' = longer
        /\ UNCHANGED <<ledger, visible, images, slots, slot, answers>>
    BY DEF Submit, Write
  <1>2. Readied(ledger, request, prepared')
    BY DEF Submit, Readied
  <1>3. PICK done \in Seq(DurableRequests) : done = Told(visible)
    BY LedgerParts
  <1>4. HoldsAll(ledger, done) /\ slot = AnchorSlot(visible)
    BY <1>1, <1>3, LedgerParts DEF LedgerKnows
  <1>5. Taken(Append(done, request))
    BY <1>2, <1>4, HoldsMore DEF Readied
  <1>6. /\ Reads(longer, slots) /\ Told(longer) = Append(done, request)
        /\ PartsOf(visible, longer) = {visible, longer}
    BY <1>3, LedgerParts, ExtendedTold
  <1> HIDE DEF longer
  <1>7. Carries(longer, slots, answers)
    BY <1>3, <1>5, <1>6, LedgerParts, NamedMore DEF Carries
  <1>8. Candidates' \subseteq Candidates \cup {longer} /\ WholeParts'
    BY <1>1, <1>6 DEF Candidates, WholeParts
  <1>9. LogsCarry'
    BY <1>1, <1>7, <1>8, LedgerParts DEF LogsCarry
  <1>10. ImagesNear'
    BY <1>1, LedgerParts DEF ImagesNear
  <1>11. AppendingKnows'
    BY <1>1, <1>2, <1>3, <1>4 DEF AppendingKnows, longer
  <1>12. LedgerModes' /\ LedgerKnows'
    BY <1>1, <1>4, <1>11 DEF LedgerModes, LedgerKnows
  <1> QED
    BY <1>1, <1>8, <1>9, <1>10, <1>12, LedgerParts DEF LedgerInv, LogsKeep

LEMMA AppendedKeeps ==
  ASSUME LedgerInv, UNCHANGED product, Appended
  PROVE LedgerInv'
  <1>1. /\ step = "appending" /\ step' = "committing" /\ Acknowledge
        /\ UNCHANGED <<ledger, prepared, slots, slot, answers>>
    BY DEF Appended, ledgerVars
  <1>2. visible' = flight /\ images' = {visible'} /\ mode' = "open"
    BY <1>1 DEF Acknowledge
  <1>3. LogsKeep'
    BY <1>1, StorageCarries DEF StorageStep
  <1>4. AppendingKnows /\ slot = AnchorSlot(visible)
    BY <1>1, LedgerParts DEF LedgerKnows
  <1>5. PICK request \in DurableRequests \ Range(Told(visible)) :
          /\ Readied(ledger, request, prepared)
          /\ Told(flight) = Append(Told(visible), request)
          /\ AnchorSlot(flight) = AnchorSlot(visible)
    BY <1>4, LedgerParts, AppendingFlight
  <1>6. PICK done \in Seq(DurableRequests) : done = Told(visible)
    BY LedgerParts
  <1>7. CommittingKnows'
    <2>1. HoldsAll(ledger, done)
      BY <1>4, <1>6 DEF AppendingKnows
    <2> QED
      BY <1>1, <1>2, <1>5, <1>6, <2>1 DEF CommittingKnows
  <1>8. LedgerModes' /\ LedgerKnows'
    BY <1>1, <1>2, <1>4, <1>5, <1>7 DEF LedgerModes, LedgerKnows
  <1> QED
    BY <1>3, <1>8 DEF LedgerInv

LEMMA RefusedKeeps ==
  ASSUME LedgerInv, UNCHANGED product, AppendRefused \/ (CutOverFails /\ Refuse)
  PROVE LedgerInv'
  <1>1. /\ step \in {"appending", "anchoring"} /\ step' = "ready" /\ Refuse
        /\ UNCHANGED <<ledger, slots, slot, answers>>
    BY DEF AppendRefused, CutOverFails, ledgerVars, Refuse, Fail
  <1>2. visible' = visible /\ mode' = "open"
    BY <1>1 DEF Refuse
  <1>3. LogsKeep'
    BY <1>1, StorageCarries DEF StorageStep
  <1>4. HoldsAll(ledger, Told(visible)) /\ slot = AnchorSlot(visible)
    BY <1>1, LedgerParts DEF LedgerKnows, AppendingKnows, AnchoringKnows
  <1> QED
    BY <1>1, <1>2, <1>3, <1>4, ReadyNow

\* The commit behind an append is never stale: it posts the record appended.
LEMMA CommitPosts ==
  ASSUME LedgerInv, CommitAppended
  PROVE \E done \in Seq(DurableRequests), request \in DurableRequests :
          /\ Told(visible) = Append(done, request) /\ HoldsAll(ledger, done)
          /\ Accepts(ledger, Limits, request, Preparation(ledger, request))
          /\ ledger' = Posted(ledger, request) /\ step' = "ready" /\ images = {visible}
          /\ answers' = answers \cup {[cmd |-> request, at |-> Len(done) + 1]}
  <1>1. step = "committing"
    BY DEF CommitAppended
  <1>2. PICK done \in Seq(DurableRequests), request \in DurableRequests :
          /\ Told(visible) = Append(done, request)
          /\ HoldsAll(ledger, done) /\ Readied(ledger, request, prepared)
          /\ images = {visible}
    BY <1>1, LedgerParts DEF LedgerKnows, CommittingKnows
  <1> DEFINE token == Token(ledger, request, Preparation(ledger, request))
  <1>3. prepared = {token} /\ Accepts(ledger, Limits, request, Preparation(ledger, request))
    BY <1>2 DEF Readied
  <1>4. token.request = request /\ token.expected = Len(ledger.records)
    BY TokenRequest
  <1>5. Len(ledger.records) = Len(done)
    BY <1>2 DEF HoldsAll
  <1>6. Posted(ledger, request) = Committed(ledger, token)
    BY DEF Posted
  <1> HIDE DEF token
  <1>7. ~Stale(ledger, token)
    BY <1>3, <1>4 DEF Stale, Accepts
  <1>8. /\ ledger' = Committed(ledger, token) /\ step' = "ready"
        /\ answers' = answers \cup {[cmd |-> token.request, at |-> token.expected + 1]}
    BY <1>3, <1>7 DEF CommitAppended
  <1> QED
    BY <1>2, <1>3, <1>4, <1>5, <1>6, <1>8

LEMMA CommitAppendedKeeps ==
  ASSUME LedgerInv, UNCHANGED product, CommitAppended
  PROVE LedgerInv'
  <1>1. PICK done \in Seq(DurableRequests), request \in DurableRequests :
          /\ Told(visible) = Append(done, request) /\ HoldsAll(ledger, done)
          /\ Accepts(ledger, Limits, request, Preparation(ledger, request))
          /\ ledger' = Posted(ledger, request) /\ step' = "ready" /\ images = {visible}
          /\ answers' = answers \cup {[cmd |-> request, at |-> Len(done) + 1]}
    BY CommitPosts
  <1>2. /\ mode = "open" /\ slot = AnchorSlot(visible)
        /\ UNCHANGED <<visible, images, flight, mode, slots, slot>>
    BY LedgerParts DEF CommitAppended, logVars, LedgerModes, LedgerKnows
  <1> DEFINE more == Append(done, request)
  <1>3. HoldsAll(Posted(ledger, request), more)
    BY <1>1, HoldsMore
  <1>4. /\ more \in Seq(DurableRequests) /\ Len(more) = Len(done) + 1
        /\ more[Len(done) + 1] = request /\ Len(done) \in Nat
    BY AppendProperties, LenProperties
  <1> HIDE DEF more
  <1>5. Named(more, answers')
    <2>1. Named(more, answers)
      BY <1>1, LedgerParts DEF more
    <2> QED
      BY <1>1, <1>4, <2>1 DEF Named
  <1>6. Candidates = {visible} /\ Candidates' = {visible}
    BY <1>1, <1>2 DEF Candidates
  <1>7. LogsCarry'
    <2>1. Reads(visible, slots) /\ Taken(Told(visible))
      BY LedgerParts
    <2> QED
      BY <1>1, <1>2, <1>5, <1>6, <2>1 DEF LogsCarry, Carries, more
  <1>8. LogsKeep'
    BY <1>2, <1>7, LedgerParts DEF LogsKeep, ImagesNear, WholeParts
  <1>9. HoldsAll(ledger', Told(visible'))
    BY <1>1, <1>2, <1>3 DEF more
  <1> QED
    BY <1>1, <1>2, <1>8, <1>9, ReadyNow

----------------------------------------------------------------------------
(* Checkpoints *)

\* A snapshot that no anchor names may be written, in whole or in part.
LEMMA OtherFile ==
  ASSUME LedgerInv, UNCHANGED product, step = "ready", SyncLog, UNCHANGED <<ledgerVars, step, slot, answers>>,
         NEW path \in SnapshotPaths, path \in Slots => path # AnchorSlot(visible), NEW content,
         slots' = Stored(slots, path, content) \/ slots' \in HalfStored(slots, path, content)
  PROVE LedgerInv'
  <1>1. /\ visible' = visible /\ images' = {visible} /\ flight' = flight
        /\ mode = "open" /\ mode' = "open"
    BY DEF SyncLog
  <1>2. /\ DOMAIN slots' = SnapshotPaths
        /\ \A s \in SnapshotPaths : s # path => slots'[s] = slots[s]
    BY LedgerParts DEF Stored, HalfStored
  <1>3. Reads(visible, slots')
    <2>1. ASSUME NEW s \in Slots, AnchorSlot(visible) = s PROVE slots'[s] = slots[s]
      BY <1>2, <2>1 DEF SnapshotPaths
    <2> QED
      BY <2>1, LedgerParts, ReadsOther
  <1>4. Candidates' = {visible} /\ WholeParts'
    BY <1>1 DEF Candidates, WholeParts
  <1>5. LogsCarry'
    BY <1>3, <1>4, LedgerParts DEF LogsCarry, Carries
  <1>6. ImagesNear'
    BY <1>1, LedgerParts, SelfNear
  <1>7. HoldsAll(ledger, Told(visible)) /\ slot = AnchorSlot(visible)
    BY LedgerParts DEF LedgerKnows
  <1>8. LogsKeep'
    BY <1>2, <1>4, <1>5, <1>6, LedgerParts DEF LogsKeep
  <1> QED
    BY <1>1, <1>7, <1>8, ReadyNow DEF ledgerVars

LEMMA NextSlotOther == NextSlot \in Slots /\ NextSlot # slot
  BY NoneAssumption DEF NextSlot, Alternate, Slots

LEMMA CheckpointKeeps ==
  ASSUME LedgerInv, UNCHANGED product, WriteCheckpoint \/ CompactFails
  PROVE LedgerInv'
  <1>1. step = "ready" /\ SyncLog /\ UNCHANGED <<ledgerVars, step, slot, answers>>
    BY DEF WriteCheckpoint, CompactFails
  <1>2. slot = AnchorSlot(visible) /\ (AnchorSlot(visible) = None \/ AnchorSlot(visible) \in Slots)
    BY <1>1, LedgerParts, ReadsForm DEF LedgerKnows
  <1>3. CASE WriteCheckpoint
    <2>1. "base" \in SnapshotPaths /\ "base" \notin Slots
      BY DEF SnapshotPaths, Slots
    <2> QED
      BY <1>1, <1>3, <2>1, OtherFile DEF WriteCheckpoint
  <1>4. CASE CompactFails
    <2>1. NextSlot \in SnapshotPaths /\ NextSlot # AnchorSlot(visible)
      BY <1>2, NextSlotOther DEF SnapshotPaths
    <2> QED
      BY <1>1, <1>4, <2>1, OtherFile DEF CompactFails
  <1> QED
    BY <1>3, <1>4

LEMMA CompactKeeps ==
  ASSUME LedgerInv, UNCHANGED product, Compact
  PROVE LedgerInv'
  <1> DEFINE done == Told(visible)
             last == LastSequence(visible)
             anchored == Replaced(visible, last, AnchorTo(NextSlot, done, Len(done), last))
  <1>1. /\ step = "ready" /\ mode = "open" /\ HoldsAll(ledger, done)
        /\ slot = AnchorSlot(visible)
    BY LedgerParts DEF Compact, LedgerModes, LedgerKnows
  <1>2. CheckpointOf(ledger) = done /\ Len(done) \in Nat
    BY <1>1, LedgerParts, HoldsTold, LenProperties DEF CheckpointOf
  <1>3. /\ slots' = Stored(slots, NextSlot, done) /\ flight' = anchored
        /\ images' = {visible} /\ mode' = "writing" /\ step' = "anchoring"
        /\ UNCHANGED <<visible, ledger, slot, answers>>
    BY <1>2 DEF Compact, ledgerVars
  <1>4. done # <<>>
    <2>1. Len(ledger.records) = Len(done) /\ ledger.records # <<>> /\ ledger.records \in Seq(Names)
      BY <1>1 DEF Compact, HoldsAll, Holds, Indexed
    <2>2. Len(ledger.records) # 0
      BY <2>1, EmptySeq
    <2> QED
      BY <2>1, <2>2
  <1>5. NextSlot \in Slots /\ NextSlot # AnchorSlot(visible)
    BY <1>1, NextSlotOther
  <1>6. /\ Reads(anchored, Stored(slots, NextSlot, done)) /\ Told(anchored) = done
        /\ AnchorSlot(anchored) = NextSlot
        /\ PartsOf(visible, anchored) = {visible, anchored}
    BY <1>4, <1>5, LedgerParts, ReplacedTold
  <1>7. /\ DOMAIN slots' = SnapshotPaths
        /\ \A s \in SnapshotPaths : s # NextSlot => slots'[s] = slots[s]
    BY <1>3, LedgerParts DEF Stored
  <1>8. Reads(visible, slots')
    BY <1>5, <1>7, LedgerParts, ReadsOther DEF SnapshotPaths
  <1> HIDE DEF anchored
  <1>9. Candidates' = {visible, anchored} /\ WholeParts'
    BY <1>3, <1>6 DEF Candidates, WholeParts
  <1>10. LogsCarry'
    BY <1>3, <1>6, <1>8, <1>9, LedgerParts DEF LogsCarry, Carries
  <1>11. ImagesNear'
    BY <1>3, LedgerParts, SelfNear
  <1>12. AnchoringKnows'
    <2>1. NextSlot' = NextSlot
      BY <1>3 DEF NextSlot
    <2> QED
      BY <1>1, <1>3, <1>6, <2>1 DEF AnchoringKnows
  <1>13. LedgerModes' /\ LedgerKnows'
    BY <1>1, <1>3, <1>12 DEF LedgerModes, LedgerKnows
  <1> QED
    BY <1>7, <1>9, <1>10, <1>11, <1>13, LedgerParts DEF LedgerInv, LogsKeep

LEMMA CutOverKeeps ==
  ASSUME LedgerInv, UNCHANGED product, CutOver
  PROVE LedgerInv'
  <1>1. /\ step = "anchoring" /\ step' = "ready" /\ Acknowledge /\ slot' = NextSlot
        /\ UNCHANGED <<ledger, slots, answers>>
    BY DEF CutOver, ledgerVars
  <1>2. visible' = flight /\ mode' = "open"
    BY <1>1 DEF Acknowledge
  <1>3. LogsKeep'
    BY <1>1, StorageCarries DEF StorageStep
  <1>4. AnchoringKnows
    BY <1>1, LedgerParts DEF LedgerKnows
  <1> QED
    BY <1>1, <1>2, <1>3, <1>4, ReadyNow DEF AnchoringKnows

LEMMA CutOverFailsKeeps ==
  ASSUME LedgerInv, UNCHANGED product, CutOverFails
  PROVE LedgerInv'
  <1>1. CASE Refuse
    BY <1>1, RefusedKeeps
  <1>2. CASE Fail /\ step' = "halted"
    <2>1. UNCHANGED <<slots, answers>> /\ mode' = "poisoned"
      BY <1>2 DEF CutOverFails, Fail
    <2>2. LogsKeep'
      BY <1>2, <2>1, StorageCarries DEF StorageStep
    <2> QED
      BY <1>2, <2>1, <2>2, HaltedNow
  <1> QED
    BY <1>1, <1>2 DEF CutOverFails

LEMMA LedgerStepKeeps ==
  ASSUME LedgerInv, DurableLedgerNext
  PROVE LedgerInv'
  <1> USE DEF DurableLedgerNext
  <1>1. ASSUME NEW source \in BOOLEAN, Open(source) PROVE LedgerInv'
    BY <1>1, OpenKeeps
  <1>2. CASE ReplayRecord \/ Opened
    BY <1>2, ReplayRecordKeeps, OpenedKeeps
  <1>3. ASSUME NEW request \in DurableRequests, Submit(request) PROVE LedgerInv'
    BY <1>3, SubmitKeeps
  <1>4. CASE Appended \/ AppendRefused \/ AppendFails \/ CommitAppended
    BY <1>4, AppendedKeeps, RefusedKeeps, LedgerStopsKeeps, CommitAppendedKeeps
  <1>5. CASE WriteCheckpoint \/ Compact \/ CompactFails \/ CutOver \/ CutOverFails \/ SyncFails
    BY <1>5, CheckpointKeeps, CompactKeeps, CutOverKeeps, CutOverFailsKeeps, LedgerStopsKeeps
  <1>6. CASE Close \/ Stop \/ PowerLoss
    BY <1>6, LedgerEndsKeeps, LedgerLosesPowerKeeps
  <1>7. CASE Bare
    BY <1>7, BareKeeps
  <1> QED
    BY <1>1, <1>2, <1>3, <1>4, <1>5, <1>6, <1>7 DEF DurableLedgerNext, DurableNext

----------------------------------------------------------------------------
(* The logs of the other shards *)

\* Metadata is written while nothing was executed.
DefiningKnows == step = "defining" => CommandsOf(visible) = <<>> /\ CommandsOf(flight) = <<>>

ShardInv == Inv /\ ImagesNear /\ DefiningKnows

LEMMA StandsSays ==
  ASSUME product \in Products, NEW log, NEW h, Stands(log, h)
  PROVE /\ Said(product, log) = h.done /\ h.done \in Seq(ShardCommands)
        /\ Named(Said(product, log), answers)
  <1>1. Tells(log, h) /\ Kept(log, h, slots, answers)
    BY DEF Stands, Fitting
  <1>2. CommandsOf(log) = h.done /\ h.done \in Seq(ShardCommands)
    BY <1>1, CommandsTell, HistoryTypes DEF Tells
  <1>3. Said(product, log) = h.done
    BY <1>2 DEF Said, Products
  <1> QED
    BY <1>1, <1>2, <1>3 DEF Kept, Named

LEMMA BlankSays ==
  ASSUME product \in Products, NEW log, Blank(log, slots, answers)
  PROVE Said(product, log) = <<>> /\ Named(Said(product, log), answers)
  <1>1. log = EmptyLog /\ answers = {}
    BY DEF Blank, Unused
  <1>2. Said(product, log) = <<>>
    BY <1>1 DEF Said, CommandsOf, EmptyLog, Products
  <1> QED
    BY <1>1, <1>2 DEF Named

LEMMA ShardSays ==
  ASSUME Inv
  PROVE HistoriesSaid
  <1>1. ASSUME NEW log \in Candidates
        PROVE Blank(log, slots, answers) \/ \E h \in Histories : Stands(log, h)
    BY InvParts DEF LogsSound, Sound, Stands
  <1>2. ShardCommands \subseteq Sayings
    BY DEF Sayings
  <1>3. ASSUME NEW log \in Candidates
        PROVE Said(product, log) \in Seq(Sayings) /\ Named(Said(product, log), answers)
    <2>1. CASE Blank(log, slots, answers)
      <3>1. <<>> \in Seq(Sayings)
        OBVIOUS
      <3> QED
        BY <2>1, <3>1, InvParts, BlankSays
    <2>2. ASSUME NEW h \in Histories, Stands(log, h)
          PROVE Said(product, log) \in Seq(Sayings) /\ Named(Said(product, log), answers)
      BY <1>2, <2>2, InvParts, StandsSays, SeqMonotonic
    <2> QED
      BY <1>1, <2>1, <2>2
  <1>4. ASSUME NEW image \in images, Begins(image, visible)
        PROVE Len(Said(product, image)) <= Len(Said(product, visible))
    <2>1. image \in Candidates /\ visible \in Candidates
      BY DEF Candidates
    <2>2. Len(Said(product, visible)) \in Nat
      BY <1>3, <2>1, LenProperties
    <2>3. CASE Blank(image, slots, answers)
      <3>1. Said(product, image) = <<>>
        BY <2>3, InvParts, BlankSays
      <3>2. Len(Said(product, image)) = 0
        BY <3>1
      <3> QED
        BY <2>2, <3>2
    <2>4. ASSUME NEW part \in Histories, Stands(image, part)
          PROVE Len(Said(product, image)) <= Len(Said(product, visible))
      <3>1. Tells(image, part) /\ Said(product, image) = part.done
        BY <2>4, InvParts, StandsSays DEF Stands, Fitting
      <3>2. visible.bodies # <<>>
        <4> SUFFICES ASSUME visible.bodies = <<>> PROVE FALSE
          OBVIOUS
        <4>1. Len(image.bodies) \in Nat \ {0}
          BY <3>1, ToldEnds
        <4>2. Len(image.bodies) <= Len(<<>>)
          BY <1>4 DEF Begins, IsPrefix
        <4> QED
          BY <4>1, <4>2
      <3>3. PICK h \in Histories : Stands(visible, h)
        BY <3>2, SoundTells
      <3>4. Tells(visible, h) /\ Said(product, visible) = h.done
        BY <3>3, InvParts, StandsSays DEF Stands, Fitting
      <3>5. Len(part.done) <= Len(h.done)
        BY <1>4, <3>1, <3>4, BeginsTells
      <3> QED
        BY <3>1, <3>4, <3>5
    <2> QED
      BY <1>1, <2>1, <2>3, <2>4
  <1> QED
    BY <1>3, <1>4 DEF HistoriesSaid

LEMMA ShardFlight ==
  ASSUME ShardInv
  PROVE FlightNear
  <1>1. Inv /\ DefiningKnows /\ product \in Products
    BY InvParts DEF ShardInv
  <1> SUFFICES ASSUME mode = "writing"
               PROVE \/ Said(product, flight) = Said(product, visible)
                     \/ OneMore(Said(product, visible), Said(product, flight))
    BY DEF FlightNear
  <1>2. step \in {"defining", "completing", "logging", "reporting", "cutting"}
    BY <1>1, InvParts DEF ModeOf, OpenSteps
  <1>3. CASE step = "defining"
    BY <1>1, <1>3 DEF DefiningKnows, Said, Products
  <1>4. CASE step \in {"completing", "reporting", "cutting"}
    <2>1. Stands(visible, Current) /\ Stands(flight, Current)
      BY <1>1, <1>4, InvParts DEF ProcessKnows, ReportingKnows, CuttingKnows, ReadyKnows
    <2> QED
      BY <1>1, <2>1, StandsSays
  <1>5. CASE step = "logging"
    <2> DEFINE c == shard.pending
               next == With(Current, c)
    <2>1. /\ c \in ShardCommands /\ Stands(visible, Current) /\ Stands(flight, next)
      BY <1>1, <1>5, InvParts DEF ProcessKnows, LoggingKnows
    <2>2. /\ Said(product, visible) = Current.done /\ Current.done \in Seq(ShardCommands)
          /\ Said(product, flight) = next.done
      BY <1>1, <2>1, StandsSays
    <2>3. next.done = Append(Current.done, c) /\ Once(next.done)
      BY <2>1 DEF Stands, Fitting, Tells, With
    <2> DEFINE done == Current.done
    <2> HIDE DEF done, c, next
    <2>4. c \notin Range(done)
      <3> SUFFICES ASSUME c \in Range(done) PROVE FALSE
        OBVIOUS
      <3>1. /\ Len(done) \in Nat /\ DOMAIN done = 1 .. Len(done)
            /\ Len(next.done) = Len(done) + 1 /\ next.done[Len(done) + 1] = c
            /\ \A i \in 1 .. Len(done) : next.done[i] = done[i]
        BY <2>1, <2>2, <2>3, LenProperties, AppendProperties DEF done
      <3>2. PICK i \in 1 .. Len(done) : done[i] = c
        BY <3>1 DEF Range
      <3>3. /\ i \in 1 .. Len(next.done) /\ Len(done) + 1 \in 1 .. Len(next.done)
            /\ next.done[i] = next.done[Len(done) + 1] /\ i # Len(done) + 1
        BY <3>1, <3>2
      <3> QED
        BY <2>3, <3>3 DEF Once
    <2>5. OneMore(done, Append(done, c))
      BY <2>1, <2>4 DEF OneMore, Sayings
    <2> QED
      BY <2>2, <2>3, <2>5 DEF done
  <1> QED
    BY <1>2, <1>3, <1>4, <1>5

\* A step of a shard leaves the log alone, takes a step of the storage, or
\* begins to write.
BeginsToWrite ==
    /\ UNCHANGED visible /\ mode' = "writing"
    /\ (images' = {visible}) \/ (mode = "open" /\ UNCHANGED images)

LogStep == StorageStep \/ UNCHANGED logVars \/ BeginsToWrite

LEMMA LogStepNear ==
  ASSUME HistoriesSaid, ImagesNear, FlightNear, WholeParts, LogStep, UNCHANGED product
  PROVE ImagesNear' /\ visible' \in Candidates
  <1>1. CASE StorageStep
    <2>1. Candidates' \subseteq Candidates
      BY <1>1, FewerLogs
    <2>2. visible' \in Candidates'
      BY DEF Candidates
    <2> QED
      BY <1>1, <2>1, <2>2, StorageNear
  <1>2. CASE UNCHANGED logVars
    BY <1>2 DEF logVars, ImagesNear, Candidates
  <1>3. CASE BeginsToWrite
    <2>1. visible' \in Candidates
      BY <1>3 DEF BeginsToWrite, Candidates
    <2>2. CASE images' = {visible}
      BY <1>3, <2>1, <2>2, SelfNear DEF BeginsToWrite
    <2>3. CASE mode = "open" /\ UNCHANGED images
      <3>1. visible' = visible /\ images' = images /\ product' = product
        BY <1>3, <2>3 DEF BeginsToWrite
      <3>2. \A image \in images : BeginsWith(Said(product, visible), Said(product, image))
        BY <2>3 DEF ImagesNear
      <3> QED
        BY <2>1, <3>1, <3>2 DEF ImagesNear
    <2> QED
      BY <1>3, <2>1, <2>2, <2>3 DEF BeginsToWrite
  <1> QED
    BY <1>1, <1>2, <1>3 DEF LogStep

LEMMA ShardLogStep ==
  ASSUME ShardStep
  PROVE LogStep /\ (UNCHANGED answers \/ ReportWritten)
  <1>1. ASSUME NEW log, Write(log) PROVE LogStep
    BY <1>1 DEF Write, LogStep, BeginsToWrite
  <1>2. ASSUME NEW config \in Requested[product], NEW source \in BOOLEAN,
               OpenShard(config, source)
        PROVE LogStep /\ UNCHANGED answers
    BY <1>2 DEF OpenShard, LogStep, StorageStep
  <1>3. CASE WriteDefinition \/ WriteProfile \/ Execute \/ CompleteDangling
    <2>1. UNCHANGED answers
      BY <1>3 DEF WriteDefinition, WriteProfile, Execute, CompleteDangling
    <2>2. \E log : Write(log)
      BY <1>3 DEF WriteDefinition, WriteProfile, Execute, CompleteDangling
    <2> QED
      BY <1>1, <2>1, <2>2
  <1>4. CASE MetadataWritten \/ Examine \/ DanglingCompleted \/ OpeningFails
    BY <1>4 DEF MetadataWritten, Examine, DanglingCompleted, OpeningFails, LogStep, StorageStep
  <1>5. CASE ReplayFrame \/ FinishReplay
    BY <1>5 DEF ReplayFrame, FinishReplay, anchoredVars, LogStep
  <1>6. ASSUME NEW c \in ShardCommands, SubmitCommand(c) PROVE LogStep /\ UNCHANGED answers
    BY <1>1, <1>6 DEF SubmitCommand
  <1>7. CASE CommandWritten \/ CommandFails \/ ReportFails
    BY <1>7 DEF CommandWritten, CommandFails, ReportFails, LogStep, StorageStep
  <1>8. CASE ReportWritten
    BY <1>8 DEF ReportWritten, LogStep, StorageStep
  <1>9. CASE CaptureCheckpoint
    BY <1>9 DEF CaptureCheckpoint, LogStep, StorageStep
  <1>10. ASSUME NEW capture, WriteVerified(capture) \/ CompactVerifiedFails(capture)
         PROVE LogStep /\ UNCHANGED answers
    BY <1>10 DEF WriteVerified, CompactVerifiedFails, LogStep, StorageStep
  <1>11. ASSUME NEW capture, CompactVerified(capture) PROVE LogStep /\ UNCHANGED answers
    BY <1>11 DEF CompactVerified, LogStep, BeginsToWrite
  <1>12. CASE ShardCutOver \/ ShardCutOverFails \/ SyncShardFails
    BY <1>12 DEF ShardCutOver, ShardCutOverFails, SyncShardFails, LogStep, StorageStep
  <1>13. CASE CloseShard \/ StopShard \/ ShardLosesPower
    BY <1>13 DEF CloseShard, StopShard, ShardLosesPower, LogStep, StorageStep
  <1> QED
    BY <1>2, <1>3, <1>4, <1>5, <1>6, <1>7, <1>8, <1>9, <1>10, <1>11, <1>12, <1>13 DEF ShardStep

\* What metadata is written behind tells no commands, and neither does it then.
LEMMA DefiningStarts ==
  ASSUME Inv, WriteDefinition \/ WriteProfile
  PROVE DefiningKnows'
  <1>1. CASE WriteDefinition
    <2> DEFINE d == shard.config.definition
    <2>1. /\ step = "opening" /\ visible.bodies = <<>> /\ visible' = visible
          /\ flight' = Extended(visible, <<DefinitionFrame(d)>>)
      BY <1>1 DEF WriteDefinition, Write
    <2>2. visible = EmptyLog
      <3>1. Sound(product, visible, slots, answers)
        BY InvParts DEF LogsSound, Candidates
      <3> QED
        BY <2>1, <3>1 DEF Sound, Blank, Fitting, Tells
    <2>3. d \in Definitions
      BY <2>1, InvParts DEF ProcessKnows, OpeningKnows, Configurations
    <2> DEFINE h == [config |-> [definition |-> d, profiles |-> <<>>], metadata |-> 1,
                     done |-> <<>>]
    <2>4. Tells(flight', h) /\ h.done = <<>>
      BY <2>1, <2>2, <2>3, DefinitionTold
    <2> HIDE DEF h
    <2>5. CommandsOf(flight') = <<>>
      BY <2>4, CommandsTell
    <2>6. CommandsOf(visible') = <<>>
      BY <2>1 DEF CommandsOf
    <2> QED
      BY <2>5, <2>6 DEF DefiningKnows
  <1>2. CASE WriteProfile
    <2> DEFINE p == shard.config.profiles[Len(PersistedProfiles(visible)) + 1]
    <2>1. /\ step = "opening" /\ LacksProfiles(visible, shard.config) /\ visible' = visible
          /\ flight' = Extended(visible, <<ProfileFrame(p)>>)
      BY <1>2 DEF WriteProfile, Write
    <2>2. shard.config \in Configurations
      BY <2>1, InvParts DEF ProcessKnows, OpeningKnows
    <2>3. PICK h \in Histories : Stands(visible, h)
      BY <2>1, SoundTells DEF LacksProfiles
    <2>4. Tells(visible, h)
      BY <2>3 DEF Stands, Fitting
    <2>5. ~IsAnchor(visible.bodies[1]) /\ h.done = <<>> /\ p \in Profiles
      BY <2>1, <2>2, <2>4, ProfileLacking
    <2> HIDE DEF p
    <2>6. Tells(flight', WithProfile(h, p))
      BY <2>1, <2>4, <2>5, ProfileTold
    <2>7. WithProfile(h, p).done = <<>>
      BY DEF WithProfile
    <2>8. CommandsOf(flight') = <<>> /\ CommandsOf(visible') = <<>>
      BY <2>1, <2>4, <2>5, <2>6, <2>7, CommandsTell
    <2> QED
      BY <2>8 DEF DefiningKnows
  <1> QED
    BY <1>1, <1>2

LEMMA NoDefining ==
  ASSUME ShardStep, ~(WriteDefinition \/ WriteProfile)
  PROVE step' # "defining"
  <1>1. ASSUME NEW config \in Requested[product], NEW source \in BOOLEAN,
               OpenShard(config, source)
        PROVE step' # "defining"
    BY <1>1 DEF OpenShard
  <1>2. ASSUME MetadataWritten \/ Examine \/ DanglingCompleted \/ OpeningFails
        PROVE step' # "defining"
    BY <1>2 DEF MetadataWritten, Examine, DanglingCompleted, OpeningFails, Ended
  <1>3. ASSUME ReplayFrame \/ FinishReplay \/ CompleteDangling
        PROVE step' # "defining"
    BY <1>3 DEF ReplayFrame, FinishReplay, CompleteDangling, anchoredVars
  <1>4. ASSUME NEW c \in ShardCommands, SubmitCommand(c) PROVE step' # "defining"
    BY <1>4 DEF SubmitCommand
  <1>5. ASSUME CommandWritten \/ CommandFails \/ Execute \/ ReportWritten \/ ReportFails
        PROVE step' # "defining"
    BY <1>5 DEF CommandWritten, CommandFails, Execute, ReportWritten, ReportFails
  <1>6. ASSUME CaptureCheckpoint PROVE step' # "defining"
    BY <1>6 DEF CaptureCheckpoint
  <1>7. ASSUME NEW capture,
               WriteVerified(capture) \/ CompactVerified(capture) \/ CompactVerifiedFails(capture)
        PROVE step' # "defining"
    BY <1>7 DEF WriteVerified, CompactVerified, CompactVerifiedFails
  <1>8. ASSUME ShardCutOver \/ ShardCutOverFails \/ SyncShardFails PROVE step' # "defining"
    BY <1>8 DEF ShardCutOver, ShardCutOverFails, SyncShardFails
  <1>9. ASSUME CloseShard \/ StopShard \/ ShardLosesPower PROVE step' # "defining"
    BY <1>9 DEF CloseShard, StopShard, ShardLosesPower, Ended
  <1> QED
    BY <1>1, <1>2, <1>3, <1>4, <1>5, <1>6, <1>7, <1>8, <1>9 DEF ShardStep

LEMMA ShardStepKeeps ==
  ASSUME ShardInv, ShardNext
  PROVE ShardInv' /\ visible' \in Candidates /\ (UNCHANGED answers \/ ReportWritten)
  <1>1. Inv /\ ImagesNear /\ WholeParts /\ UNCHANGED product /\ ShardStep
    BY InvParts DEF ShardInv, ShardNext
  <1>2. Inv'
    BY <1>1, StepKeeps
  <1>3. LogStep /\ (UNCHANGED answers \/ ReportWritten)
    BY <1>1, ShardLogStep
  <1>4. ImagesNear' /\ visible' \in Candidates
    BY <1>1, <1>3, ShardSays, ShardFlight, LogStepNear
  <1>5. DefiningKnows'
    <2>1. CASE WriteDefinition \/ WriteProfile
      BY <1>1, <2>1, DefiningStarts
    <2>2. CASE ~(WriteDefinition \/ WriteProfile)
      BY <1>1, <2>2, NoDefining DEF ShardInv, DefiningKnows
    <2> QED
      BY <2>1, <2>2
  <1> QED
    BY <1>2, <1>3, <1>4, <1>5 DEF ShardInv

----------------------------------------------------------------------------
(* Every shard *)

ShardsInv == LedgerInv \/ ShardInv

LEMMA ShardsInvAtInit ==
  ASSUME \/ DurableLedgerInit /\ shard = NoShard /\ captured = None
         \/ ShardInit /\ LedgerInit
  PROVE ShardsInv
  <1>1. CASE DurableLedgerInit
    BY <1>1, LedgerInvAtInit DEF ShardsInv
  <1>2. CASE ShardInit
    <2>1. Inv /\ product \in Products
      BY <1>2, InvAtInit, InvParts
    <2>2. visible = EmptyLog /\ images = {EmptyLog} /\ step = "down"
      BY <1>2 DEF ShardInit, AnchoredInit, LogInit
    <2>3. visible \in Candidates /\ Said(product, visible) \in Seq(Sayings)
      BY <2>1, ShardSays DEF HistoriesSaid, Candidates
    <2>4. ImagesNear /\ DefiningKnows
      BY <2>2, <2>3, BeginsSelf DEF ImagesNear, DefiningKnows
    <2> QED
      BY <2>1, <2>4 DEF ShardsInv, ShardInv
  <1> QED
    BY <1>1, <1>2

LEMMA ShardsStepKeeps ==
  ASSUME ShardsInv,
         \/ DurableLedgerNext /\ UNCHANGED shardVars
         \/ ShardNext /\ UNCHANGED ledgerVars
         \/ UNCHANGED shardsVars
  PROVE ShardsInv'
  <1>1. "ledger" \notin Products
    BY DEF Products
  <1>2. CASE DurableLedgerNext
    <2>1. LedgerInv
      BY <1>1, <1>2, InvParts DEF ShardsInv, ShardInv, DurableLedgerNext
    <2> QED
      BY <1>2, <2>1, LedgerStepKeeps DEF ShardsInv
  <1>3. CASE ShardNext
    <2>1. ShardInv
      BY <1>1, <1>3, LedgerParts DEF ShardsInv, ShardNext
    <2> QED
      BY <1>3, <2>1, ShardStepKeeps DEF ShardsInv
  <1>4. CASE UNCHANGED shardsVars
    <2>1. UNCHANGED <<ledgerVars, anchoredVars>> /\ UNCHANGED <<anchoredVars, shardVars>>
      BY <1>4 DEF shardsVars
    <2>2. CASE LedgerInv
      BY <2>1, <2>2, LedgerStutters DEF ShardsInv
    <2>3. CASE ShardInv
      <3>1. Inv'
        BY <2>1, <2>3, StutterKeeps DEF ShardInv
      <3>2. ImagesNear' /\ DefiningKnows'
        BY <2>1, <2>3 DEF ShardInv, ImagesNear, DefiningKnows, anchoredVars, logVars
      <3> QED
        BY <3>1, <3>2 DEF ShardsInv, ShardInv
    <2> QED
      BY <2>2, <2>3 DEF ShardsInv
  <1> QED
    BY <1>2, <1>3, <1>4

\* At all times the logs a crash may leave any shard carry its receipts and
\* begin the one it reads, but for one record or command more behind a
\* failure.
THEOREM ShardsInvariant == Spec => []ShardsInv
  <1>1. /\ ShardsInv
        /\ [ (DurableLedgerNext /\ UNCHANGED shardVars)
             \/ (ShardNext /\ UNCHANGED ledgerVars) ]_shardsVars
        => ShardsInv'
    BY ShardsStepKeeps
  <1>2. (\/ DurableLedgerInit /\ shard = NoShard /\ captured = None
         \/ ShardInit /\ LedgerInit) => ShardsInv
    BY ShardsInvAtInit
  <1> QED
    BY <1>1, <1>2, PTL DEF Spec

LEMMA LedgerCarried ==
  ASSUME LedgerInv
  PROVE StorageCarriesLedger /\ Logged = Told(visible)
  <1>1. PICK done \in Seq(DurableRequests) : done = Told(visible)
    BY LedgerParts
  <1>2. /\ Reads(visible, slots) /\ Taken(done) /\ product = "ledger" /\ LedgerKnows
        /\ CheckpointFits(visible, slots, AnchorSlot(visible) # None)
        /\ Logged = done
    BY <1>1, LedgerParts, ReadsFits, LoggedTold
  <1>3. ASSUME step \in {"ready", "anchoring"} PROVE RecordsOf(ledger) = done
    <2>1. HoldsAll(ledger, done)
      BY <1>1, <1>2, <1>3 DEF LedgerKnows, AnchoringKnows
    <2> QED
      BY <2>1, HoldsTold
  <1>4. ASSUME step = "replaying", Len(ledger.records) < Len(done)
        PROVE LET record == done[Len(ledger.records) + 1] IN
              ~IsAnchor(record) /\ Accepts(ledger, Limits, record, Preparation(ledger, record))
    <2>1. Holds(ledger, done)
      BY <1>1, <1>2, <1>4 DEF LedgerKnows
    <2> QED
      BY <1>4, <2>1, HoldsNext
  <1> QED
    BY <1>1, <1>2, <1>3, <1>4 DEF StorageCarriesLedger, MemoryIsTheLog, OpensAgain

\* Between calls memory holds the records that are on storage, a ledger that is
\* down opens with the checkpoint its log asks for, and replay takes each record
\* back: whatever fails, and however often the log was cut over.
THEOREM StorageCarriesTheLedger == Spec => []StorageCarriesLedger
  <1>1. ASSUME ShardsInv PROVE StorageCarriesLedger
    <2>1. CASE ShardInv
      <3>1. product # "ledger"
        BY <2>1, InvParts DEF ShardInv, Products
      <3> QED
        BY <3>1 DEF StorageCarriesLedger, MemoryIsTheLog, OpensAgain
    <2> QED
      BY <1>1, <2>1, LedgerCarried DEF ShardsInv
  <1> QED
    BY <1>1, ShardsInvariant, PTL

----------------------------------------------------------------------------
(* The shards implement ShardLog *)

\* The log and the answers as ShardLog knows them.
LogNow == IF product = "ledger" THEN Logged ELSE LoggedCommands
AnswersNow == {[cmd |-> answer.cmd, at |-> answer.at] : answer \in answers}

LEMMA LogIsSaid ==
  ASSUME ShardsInv
  PROVE /\ LogNow = Said(product, visible) /\ HistoriesSaid /\ ImagesNear /\ FlightNear
        /\ visible \in Candidates
  <1>1. CASE LedgerInv
    BY <1>1, LedgerParts, LedgerCarried DEF LogNow, Said
  <1>2. CASE ShardInv
    <2>1. Inv /\ ImagesNear /\ FlightNear /\ HistoriesSaid /\ product \in Products
      BY <1>2, InvParts, ShardSays, ShardFlight DEF ShardInv
    <2>2. visible \in Candidates
      BY DEF Candidates
    <2>3. LoggedCommands = Said(product, visible)
      <3>1. CASE visible.bodies = <<>>
        BY <2>1, <3>1 DEF LoggedCommands, Said, CommandsOf, Products
      <3>2. CASE visible.bodies # <<>>
        <4>1. PICK h \in Histories : Stands(visible, h)
          BY <2>1, <3>2, SoundTells
        <4>2. LoggedCommands = h.done
          BY <4>1, ReadBack DEF Stands, Fitting
        <4> QED
          BY <2>1, <4>1, <4>2, StandsSays
      <3> QED
        BY <3>1, <3>2
    <2> QED
      BY <2>1, <2>2, <2>3 DEF LogNow, Products
  <1> QED
    BY <1>1, <1>2 DEF ShardsInv

LEMMA LogIsSaidNext == ShardsInv' => (LogNow = Said(product, visible))'
  <1>1. ShardsInv => LogNow = Said(product, visible)
    BY LogIsSaid
  <1> QED
    BY <1>1, PTL

\* No anchored log is lost.
LEMMA LogIsKept == Abstract!IsKept
  BY DEF Abstract!IsKept

\* A step that gives no answer sequences one command, or forgets some.
LEMMA LogMoves ==
  ASSUME ShardsInv, ShardsInv', visible' \in Candidates, UNCHANGED <<product, answers>>
  PROVE [Abstract!Next]_(Abstract!vars)
  <1> DEFINE H == Said(product, visible)
             G == Said(product, visible')
  <1>1. LogNow = H /\ LogNow' = G /\ AnswersNow' = AnswersNow
    BY LogIsSaid, LogIsSaidNext DEF AnswersNow
  <1>2. BeginsWith(H, G) \/ OneMore(H, G)
    BY LogIsSaid, CandidateNear
  <1>3. H \in Seq(Sayings) /\ G \in Seq(Sayings) /\ Named(G, answers)
    BY LogIsSaid DEF HistoriesSaid
  <1> HIDE DEF H, G
  <1>4. ASSUME NEW r \in Sayings \ Range(H), G = Append(H, r) PROVE Abstract!Next
    <2>1. Abstract!Sequence(r)
      BY <1>1, <1>4 DEF Abstract!Sequence, Abstract!Range, Range, LogNow, AnswersNow
    <2> QED
      BY <2>1, LogIsKept DEF Abstract!Next, Sayings
  <1>5. ASSUME NEW n \in 0 .. Len(H), G = SubSeq(H, 1, n) PROVE Abstract!Next
    <2>1. Len(G) = n
      BY <1>3, <1>5, SubSeqProperties
    <2>2. \A a \in AnswersNow : a.at <= n
      BY <1>3, <2>1 DEF Named, AnswersNow
    <2>3. PICK lost : lost = Len(H) - n
      OBVIOUS
    <2>4. lost \in 0 .. Len(H) /\ Len(H) - lost = n
      <3>1. Len(H) \in Nat
        BY <1>3, LenProperties
      <3> QED
        BY <1>5, <2>3, <3>1
    <2>5. Abstract!Forget(lost)
      BY <1>1, <1>5, <2>2, <2>4 DEF Abstract!Forget, LogNow, AnswersNow
    <2> QED
      BY <1>1, <2>4, <2>5, LogIsKept DEF Abstract!Next, LogNow
  <1> QED
    BY <1>2, <1>4, <1>5 DEF BeginsWith, OneMore

\* An answer names a place of the log.
LEMMA AnswerGiven ==
  ASSUME ShardsInv, LogNow' = LogNow, NEW answer, answers' = answers \cup {answer},
         answer.at \in 1 .. Len(LogNow), answer.cmd = LogNow[answer.at]
  PROVE Abstract!Next
  <1>1. AnswersNow' = AnswersNow \cup {[cmd |-> LogNow[answer.at], at |-> answer.at]}
    BY DEF AnswersNow
  <1>2. Abstract!Answer(answer.at)
    BY <1>1 DEF Abstract!Answer, LogNow, AnswersNow
  <1> QED
    BY <1>2, LogIsKept DEF Abstract!Next, LogNow

LEMMA LedgerVisible ==
  ASSUME LedgerInv, DurableLedgerNext
  PROVE visible' \in Candidates /\ (UNCHANGED answers \/ CommitAppended)
  <1>1. visible \in Candidates /\ WholeParts
    BY LedgerParts
  <1>2. ASSUME StorageStep PROVE visible' \in Candidates
    <2>1. Candidates' \subseteq Candidates
      BY <1>1, <1>2, FewerLogs
    <2>2. visible' \in Candidates'
      BY DEF Candidates
    <2> QED
      BY <2>1, <2>2
  <1>3. ASSUME NEW source \in BOOLEAN, Open(source)
        PROVE visible' \in Candidates /\ UNCHANGED answers
    BY <1>1, <1>3 DEF Open, OpenLog
  <1>4. CASE ReplayRecord \/ Opened \/ Bare \/ Compact
    BY <1>1, <1>4 DEF ReplayRecord, Opened, Bare, Compact, logVars
  <1>5. ASSUME NEW request \in DurableRequests, Submit(request)
        PROVE visible' \in Candidates /\ UNCHANGED answers
    BY <1>1, <1>5 DEF Submit, Write
  <1>6. CASE Appended \/ AppendRefused \/ AppendFails
    BY <1>2, <1>6 DEF Appended, AppendRefused, AppendFails, StorageStep
  <1>7. CASE CommitAppended
    BY <1>1, <1>7 DEF CommitAppended, logVars
  <1>8. CASE WriteCheckpoint \/ CompactFails
    BY <1>2, <1>8 DEF WriteCheckpoint, CompactFails, StorageStep
  <1>9. CASE CutOver \/ CutOverFails \/ SyncFails
    BY <1>2, <1>9 DEF CutOver, CutOverFails, SyncFails, StorageStep
  <1>10. CASE Close \/ Stop \/ PowerLoss
    BY <1>2, <1>10 DEF Close, Stop, PowerLoss, StorageStep
  <1> QED
    BY <1>3, <1>4, <1>5, <1>6, <1>7, <1>8, <1>9, <1>10 DEF DurableLedgerNext, DurableNext

LEMMA LedgerMoves ==
  ASSUME LedgerInv, DurableLedgerNext
  PROVE [Abstract!Next]_(Abstract!vars)
  <1>1. ShardsInv /\ ShardsInv' /\ UNCHANGED product
    BY LedgerStepKeeps DEF ShardsInv, DurableLedgerNext
  <1>2. visible' \in Candidates /\ (UNCHANGED answers \/ CommitAppended)
    BY LedgerVisible
  <1>3. CASE UNCHANGED answers
    BY <1>1, <1>2, <1>3, LogMoves
  <1>4. CASE CommitAppended
    <2>1. PICK done \in Seq(DurableRequests), request \in DurableRequests :
            /\ Told(visible) = Append(done, request)
            /\ answers' = answers \cup {[cmd |-> request, at |-> Len(done) + 1]}
      BY <1>4, CommitPosts
    <2>2. UNCHANGED visible
      BY <1>4 DEF CommitAppended, logVars
    <2>3. LogNow = Append(done, request) /\ LogNow' = LogNow
      BY <1>1, <2>1, <2>2, LogIsSaid, LogIsSaidNext, LedgerParts DEF Said
    <2>4. /\ Len(Append(done, request)) = Len(done) + 1 /\ Len(done) \in Nat
          /\ Append(done, request)[Len(done) + 1] = request
      BY AppendProperties, LenProperties
    <2> DEFINE answer == [cmd |-> request, at |-> Len(done) + 1]
    <2>5. answer.at = Len(done) + 1 /\ answer.cmd = request
      OBVIOUS
    <2> HIDE DEF answer
    <2>6. answer.at \in 1 .. Len(LogNow) /\ answer.cmd = LogNow[answer.at]
      BY <2>3, <2>4, <2>5
    <2>7. answers' = answers \cup {answer}
      BY <2>1 DEF answer
    <2> QED
      BY <1>1, <2>3, <2>6, <2>7, AnswerGiven
  <1> QED
    BY <1>2, <1>3, <1>4

LEMMA ShardMoves ==
  ASSUME ShardInv, ShardNext
  PROVE [Abstract!Next]_(Abstract!vars)
  <1>1. /\ ShardsInv /\ ShardsInv' /\ UNCHANGED product /\ product \in Products /\ Inv
        /\ visible' \in Candidates /\ (UNCHANGED answers \/ ReportWritten)
    BY ShardStepKeeps DEF ShardsInv, ShardNext, ShardInv
  <1>2. CASE UNCHANGED answers
    BY <1>1, <1>2, LogMoves
  <1>3. CASE ReportWritten
    <2> DEFINE done == shard.done
               answer == Receipt(Last(done))
    <2>1. /\ step = "reporting" /\ visible' = flight /\ answers' = answers \cup {answer}
      BY <1>3 DEF ReportWritten, Acknowledge
    <2>2. Stands(visible, Current) /\ Stands(flight, Current) /\ Dangling(visible, Current)
      BY <1>1, <2>1, InvParts DEF ProcessKnows, ReportingKnows
    <2>3. /\ Said(product, visible) = done /\ Said(product, flight) = done
          /\ done \in Seq(ShardCommands) /\ done # <<>>
      BY <1>1, <2>2, StandsSays DEF Current, Dangling
    <2>4. LogNow = done /\ LogNow' = LogNow
      BY <1>1, <2>1, <2>3, LogIsSaid, LogIsSaidNext
    <2>5. answer.at = Len(done) /\ answer.cmd = done[Len(done)]
      BY DEF Receipt, Last
    <2> HIDE DEF done, answer
    <2>6. Len(done) \in 1 .. Len(done)
      BY <2>3, LenProperties, EmptySeq
    <2>7. answer.at \in 1 .. Len(LogNow) /\ answer.cmd = LogNow[answer.at]
      BY <2>4, <2>5, <2>6
    <2> QED
      BY <1>1, <2>1, <2>4, <2>7, AnswerGiven
  <1> QED
    BY <1>1, <1>2, <1>3

\* Every durable shard implements ShardLog: a record or command takes one place,
\* a receipt names it, and what a failure forgets was not answered.
THEOREM ShardsImplementLog == Spec => ImplementsShardLog
  <1> DEFINE Starts == \/ DurableLedgerInit /\ shard = NoShard /\ captured = None
                       \/ ShardInit /\ LedgerInit
             Steps == [ (DurableLedgerNext /\ UNCHANGED shardVars)
                        \/ (ShardNext /\ UNCHANGED ledgerVars) ]_shardsVars
  <1>1. Starts => Abstract!Init
    <2> SUFFICES ASSUME Starts PROVE Abstract!Init
      OBVIOUS
    <2>1. visible = EmptyLog /\ answers = {} /\ AnswersNow = {}
      BY DEF DurableLedgerInit, ShardInit, AnchoredInit, LogInit, AnswersNow
    <2>2. ShardsInv
      BY ShardsInvAtInit
    <2>3. Said(product, EmptyLog) = <<>>
      BY NoneAssumption DEF Said, Told, AnchorSlot, CommandsOf, EmptyLog
    <2>4. LogNow = <<>>
      BY <2>1, <2>2, <2>3, LogIsSaid
    <2> QED
      BY <2>1, <2>4 DEF Abstract!Init, LogNow, AnswersNow
  <1>2. ShardsInv /\ Steps => [Abstract!Next]_(Abstract!vars)
    <2> SUFFICES ASSUME ShardsInv, Steps PROVE [Abstract!Next]_(Abstract!vars)
      OBVIOUS
    <2>1. CASE DurableLedgerNext
      <3>1. LedgerInv
        BY <2>1, InvParts DEF ShardsInv, ShardInv, DurableLedgerNext, Products
      <3> QED
        BY <2>1, <3>1, LedgerMoves
    <2>2. CASE ShardNext
      <3>1. ShardInv
        BY <2>2, LedgerParts DEF ShardsInv, ShardNext, Products
      <3> QED
        BY <2>2, <3>1, ShardMoves
    <2>3. CASE UNCHANGED shardsVars
      <3>1. UNCHANGED <<product, visible, slots, answers>>
        BY <2>3 DEF shardsVars, anchoredVars, logVars
      <3>2. LogNow' = LogNow /\ AnswersNow' = AnswersNow
        BY <2>3, <3>1 DEF LogNow, AnswersNow, Logged, LoggedCommands, Anchored
      <3> QED
        BY <3>2 DEF Abstract!vars, LogNow, AnswersNow
    <2> QED
      BY <2>1, <2>2, <2>3
  <1> QED
    BY <1>1, <1>2, ShardsInvariant, PTL DEF Spec, ImplementsShardLog, Abstract!Spec

----------------------------------------------------------------------------
(* A closed period stands: what is posted on a closed day is not changed,   *)
(* since entries are dated behind the last closed period, and the ledger's *)
(* entries grow at their end only                                           *)

\* A set of numbers has a least one.
LEMMA LeastOf ==
  ASSUME NEW S \in SUBSET Nat, S # {}
  PROVE \E n \in S : \A other \in S : n <= other
  <1>1. PICK n \in S : \A other \in S : ~(<<other, n>> \in OpToRel(<, Nat))
    BY NatLessThanWellFounded, WFMin
  <1>2. ASSUME NEW other \in S PROVE n <= other
    <2>1. ~(other < n)
      BY <1>1 DEF OpToRel
    <2> QED
      BY <2>1
  <1> QED
    BY <1>2

\* FlattenSeq of the first n.
Flattened(seqs, n, f) ==
    f = [i \in 1 .. n |-> IF i = 1 THEN seqs[i] ELSE f[i - 1] \o seqs[i]]

\* There is such a function, so the one FlattenSeq chooses is one.
LEMMA FlattenedExists ==
  ASSUME NEW seqs, NEW n \in Nat
  PROVE \E f : Flattened(seqs, n, f)
  <1> DEFINE bad == {k \in Nat : ~\E f : Flattened(seqs, k, f)}
  <1> SUFFICES ASSUME bad # {} PROVE FALSE
    OBVIOUS
  <1>1. PICK m \in bad : \A other \in bad : m <= other
    <2> HIDE DEF bad
    <2>1. bad \in SUBSET Nat
      BY DEF bad
    <2> QED
      BY <2>1, LeastOf
  <1>2. CASE m = 0
    <2> DEFINE f == [i \in 1 .. 0 |-> 0]
    <2>1. 1 .. 0 = {}
      OBVIOUS
    <2>2. f = [i \in 1 .. 0 |-> IF i = 1 THEN seqs[i] ELSE f[i - 1] \o seqs[i]]
      BY <2>1
    <2> HIDE DEF f
    <2> QED
      BY <1>2, <2>2 DEF Flattened
  <1>3. CASE m # 0
    <2>1. m \in Nat /\ m - 1 \in Nat /\ m - 1 \notin bad
      BY <1>1, <1>3
    <2>2. PICK g : Flattened(seqs, m - 1, g)
      BY <2>1
    <2> DEFINE f == [i \in 1 .. m |-> IF i = 1 THEN seqs[i] ELSE g[i - 1] \o seqs[i]]
    <2>3. ASSUME NEW i \in 1 .. m - 1 PROVE g[i] = f[i]
      <3>1. g = [j \in 1 .. m - 1 |-> IF j = 1 THEN seqs[j] ELSE g[j - 1] \o seqs[j]]
        BY <2>2 DEF Flattened
      <3>2. g[i] = IF i = 1 THEN seqs[i] ELSE g[i - 1] \o seqs[i]
        BY <3>1
      <3>3. i \in 1 .. m
        BY <2>1
      <3> QED
        BY <3>2, <3>3
    <2>4. \A i \in 1 .. m : i # 1 => i - 1 \in 1 .. m - 1
      BY <2>1
    <2>5. f = [i \in 1 .. m |-> IF i = 1 THEN seqs[i] ELSE f[i - 1] \o seqs[i]]
      <3>1. \A i \in 1 .. m : i # 1 => g[i - 1] = f[i - 1]
        BY <2>3, <2>4
      <3> QED
        BY <3>1
    <2> HIDE DEF f
    <2> QED
      BY <1>1, <2>5 DEF Flattened
  <1> QED
    BY <1>2, <1>3

\* The last value of it is the flattening.
LEMMA FlattenedSeq ==
  ASSUME NEW seqs, Len(seqs) \in Nat \ {0}
  PROVE \E f : Flattened(seqs, Len(seqs), f) /\ FlattenSeq(seqs) = f[Len(seqs)]
  <1> DEFINE f == CHOOSE g : Flattened(seqs, Len(seqs), g)
  <1>1. Flattened(seqs, Len(seqs), f)
    BY FlattenedExists
  <1>2. FlattenSeq(seqs) = f[Len(seqs)]
    BY DEF FlattenSeq, Flattened
  <1> QED
    BY <1>1, <1>2

\* Two flattenings of the same beginning agree, and are sequences.
LEMMA FlattenedAgree ==
  ASSUME NEW S, NEW n \in Nat, NEW m \in Nat, n <= m,
         NEW seqs, NEW more, \A i \in 1 .. n : seqs[i] \in Seq(S) /\ seqs[i] = more[i],
         NEW f, NEW g, Flattened(seqs, n, f), Flattened(more, m, g)
  PROVE \A i \in 1 .. n : f[i] = g[i] /\ f[i] \in Seq(S)
  <1> DEFINE bad == {i \in 1 .. n : ~(f[i] = g[i] /\ f[i] \in Seq(S))}
  <1> SUFFICES ASSUME bad # {} PROVE FALSE
    OBVIOUS
  <1>1. PICK k \in bad : \A other \in bad : k <= other
    <2> HIDE DEF bad
    <2>1. bad \in SUBSET Nat
      BY DEF bad
    <2> QED
      BY <2>1, LeastOf
  <1>2. f[k] = (IF k = 1 THEN seqs[k] ELSE f[k - 1] \o seqs[k]) /\ k \in 1 .. n
    <2>1. f = [i \in 1 .. n |-> IF i = 1 THEN seqs[i] ELSE f[i - 1] \o seqs[i]]
      BY DEF Flattened
    <2> QED
      BY <2>1
  <1>3. g[k] = IF k = 1 THEN more[k] ELSE g[k - 1] \o more[k]
    <2>1. g = [i \in 1 .. m |-> IF i = 1 THEN more[i] ELSE g[i - 1] \o more[i]]
      BY DEF Flattened
    <2>2. k \in 1 .. m
      BY <1>2
    <2> QED
      BY <2>1, <2>2
  <1>4. k # 1 => f[k - 1] = g[k - 1] /\ f[k - 1] \in Seq(S)
    <2>1. k # 1 => k - 1 \in 1 .. n /\ ~(k <= k - 1)
      BY <1>2
    <2> QED
      BY <1>1, <2>1
  <1>5. seqs[k] \in Seq(S) /\ seqs[k] = more[k]
    BY <1>2
  <1>6. f[k] = g[k] /\ f[k] \in Seq(S)
    <2>1. CASE k = 1
      BY <1>2, <1>3, <1>5, <2>1
    <2>2. CASE k # 1
      <3> DEFINE x == f[k - 1]
      <3>1. x \in Seq(S) /\ f[k] = x \o seqs[k] /\ g[k] = x \o seqs[k]
        BY <1>2, <1>3, <1>4, <1>5, <2>2
      <3> HIDE DEF x
      <3> QED
        BY <1>5, <3>1
    <2> QED
      BY <2>1, <2>2
  <1> QED
    BY <1>6

\* One part more is appended to what the others flatten to.
LEMMA FlattenAppend ==
  ASSUME NEW S, NEW seqs \in Seq(Seq(S)), NEW t \in Seq(S)
  PROVE /\ FlattenSeq(seqs) \in Seq(S)
        /\ FlattenSeq(Append(seqs, t)) = FlattenSeq(seqs) \o t
  <1> DEFINE n == Len(seqs)
             more == Append(seqs, t)
  <1>1. n \in Nat /\ Len(more) = n + 1 /\ more[n + 1] = t
        /\ \A i \in 1 .. n : seqs[i] \in Seq(S) /\ more[i] = seqs[i]
    BY ElementOfSeq
  <1> HIDE DEF more
  <1>2. PICK g : Flattened(more, n + 1, g) /\ FlattenSeq(more) = g[n + 1]
    <2>1. Len(more) \in Nat \ {0}
      BY <1>1
    <2> QED
      BY <1>1, <2>1, FlattenedSeq
  <1>3. g[n + 1] = IF n + 1 = 1 THEN more[n + 1] ELSE g[(n + 1) - 1] \o more[n + 1]
    <2>1. g = [i \in 1 .. n + 1 |-> IF i = 1 THEN more[i] ELSE g[i - 1] \o more[i]]
      BY <1>2 DEF Flattened
    <2>2. n + 1 \in 1 .. n + 1
      BY <1>1
    <2> QED
      BY <2>1, <2>2
  <1>4. CASE n = 0
    <2>1. seqs = <<>> /\ FlattenSeq(seqs) = <<>> /\ <<>> \in Seq(S)
      <3>1. seqs = <<>>
        BY <1>4, EmptySeq
      <3> QED
        BY <1>4, <3>1, EmptySeq DEF FlattenSeq
    <2>2. <<>> \o t = t
      BY ConcatEmptySeq
    <2>3. FlattenSeq(more) = t
      <3>1. n + 1 = 1
        BY <1>4
      <3> HIDE DEF n
      <3> QED
        BY <1>1, <1>2, <1>3, <3>1
    <2> QED
      BY <2>1, <2>2, <2>3 DEF more
  <1>5. CASE n # 0
    <2>1. PICK f : Flattened(seqs, n, f) /\ FlattenSeq(seqs) = f[n]
      BY <1>1, <1>5, FlattenedSeq
    <2>2. n + 1 \in Nat /\ n \in 1 .. n /\ n <= n + 1 /\ (n + 1) - 1 = n /\ n + 1 # 1
      BY <1>1, <1>5
    <2> HIDE DEF n
    <2>3. f[n] = g[n] /\ f[n] \in Seq(S)
      <3>1. \A i \in 1 .. n : f[i] = g[i] /\ f[i] \in Seq(S)
        BY <1>1, <1>2, <2>1, <2>2, FlattenedAgree
      <3> QED
        BY <2>2, <3>1
    <2> QED
      BY <1>1, <1>2, <1>3, <2>1, <2>2, <2>3 DEF more
  <1> QED
    BY <1>4, <1>5

\* BatchRun on all parts of the first n entries.
BatchFold(l, s, n, fold) ==
    fold = [T \in SUBSET (1 .. n) |->
              IF T = {} THEN BatchStart(l)
              ELSE BatchStep(l, fold[T \ {Max(T)}], s[Max(T)])]

\* The greatest of a set that the numbers from 1 bound.
LEMMA GreatestOf ==
  ASSUME NEW n \in Nat, NEW T \in SUBSET (1 .. n + 1)
  PROVE /\ n + 1 \in T => Max(T) = n + 1
        /\ T \ {Max(T)} \in SUBSET (1 .. n)
  <1>1. ASSUME n + 1 \in T PROVE Max(T) = n + 1
    <2>1. \A x \in T : (\A y \in T : x >= y) <=> x = n + 1
      <3>1. \A y \in T : n + 1 >= y
        OBVIOUS
      <3>2. ASSUME NEW x \in T, x >= n + 1 PROVE x = n + 1
        BY <3>2
      <3> QED
        BY <1>1, <3>1, <3>2
    <2> QED
      BY <1>1, <2>1 DEF Max
  <1>2. \A x \in T : x # n + 1 => x \in 1 .. n
    OBVIOUS
  <1> QED
    BY <1>1, <1>2

\* A batch folds over its entries, however long it is.
LEMMA BatchFoldExists ==
  ASSUME NEW l, NEW s, NEW n \in Nat
  PROVE \E fold : BatchFold(l, s, n, fold)
  <1> DEFINE bad == {k \in Nat : ~\E fold : BatchFold(l, s, k, fold)}
  <1> SUFFICES ASSUME bad # {} PROVE FALSE
    OBVIOUS
  <1>1. PICK m \in bad : \A other \in bad : m <= other
    <2> HIDE DEF bad
    <2>1. bad \in SUBSET Nat
      BY DEF bad
    <2> QED
      BY <2>1, LeastOf
  <1>2. CASE m = 0
    <2> DEFINE f == [T \in SUBSET (1 .. 0) |-> BatchStart(l)]
    <2>1. \A T \in SUBSET (1 .. 0) : T = {}
      OBVIOUS
    <2>2. f = [T \in SUBSET (1 .. 0) |->
                 IF T = {} THEN BatchStart(l) ELSE BatchStep(l, f[T \ {Max(T)}], s[Max(T)])]
      BY <2>1
    <2> HIDE DEF f
    <2> QED
      BY <1>2, <2>2 DEF BatchFold
  <1>3. CASE m # 0
    <2>1. m \in Nat /\ m - 1 \in Nat /\ m - 1 \notin bad /\ (m - 1) + 1 = m
      BY <1>1, <1>3
    <2>2. PICK g : BatchFold(l, s, m - 1, g)
      BY <2>1
    <2> DEFINE f == [T \in SUBSET (1 .. m) |->
                       IF T = {} THEN BatchStart(l)
                       ELSE BatchStep(l, g[T \ {Max(T)}], s[Max(T)])]
    <2>3. ASSUME NEW T \in SUBSET (1 .. m - 1) PROVE g[T] = f[T]
      <3>1. g = [U \in SUBSET (1 .. m - 1) |->
                   IF U = {} THEN BatchStart(l) ELSE BatchStep(l, g[U \ {Max(U)}], s[Max(U)])]
        BY <2>2 DEF BatchFold
      <3>2. g[T] = IF T = {} THEN BatchStart(l) ELSE BatchStep(l, g[T \ {Max(T)}], s[Max(T)])
        BY <3>1
      <3>3. T \in SUBSET (1 .. m)
        BY <2>1
      <3> QED
        BY <3>2, <3>3
    <2>4. \A T \in SUBSET (1 .. m) : T \ {Max(T)} \in SUBSET (1 .. m - 1)
      BY <2>1, GreatestOf
    <2>5. f = [T \in SUBSET (1 .. m) |->
                 IF T = {} THEN BatchStart(l) ELSE BatchStep(l, f[T \ {Max(T)}], s[Max(T)])]
      <3>1. \A T \in SUBSET (1 .. m) : g[T \ {Max(T)}] = f[T \ {Max(T)}]
        BY <2>3, <2>4
      <3> QED
        BY <3>1
    <2> HIDE DEF f
    <2> QED
      BY <1>1, <2>5 DEF BatchFold
  <1> QED
    BY <1>2, <1>3

\* What a batch comes to, entry by entry.
BatchRuns(l, s, run) ==
    /\ run[0] = BatchStart(l)
    /\ \A i \in 1 .. Len(s) : run[i] = BatchStep(l, run[i - 1], s[i])
    /\ BatchRun(l, s) = run[Len(s)]

\* A batch's run takes its entries one after the other.
LEMMA BatchRunSteps ==
  ASSUME NEW l, NEW S, NEW s \in Seq(S)
  PROVE \E run : BatchRuns(l, s, run)
  <1> DEFINE n == Len(s)
             fold == CHOOSE f : BatchFold(l, s, n, f)
             run == [i \in 0 .. n |-> fold[1 .. i]]
  <1>1. n \in Nat /\ DOMAIN s = 1 .. n
    OBVIOUS
  <1>2. BatchFold(l, s, n, fold)
    BY <1>1, BatchFoldExists
  <1>3. BatchRun(l, s) = fold[DOMAIN s]
    BY <1>1 DEF BatchRun, FoldLeft, MapThenFoldSet, BatchFold
  <1> HIDE DEF fold
  <1>4. fold = [T \in SUBSET (1 .. n) |->
                  IF T = {} THEN BatchStart(l) ELSE BatchStep(l, fold[T \ {Max(T)}], s[Max(T)])]
    BY <1>2 DEF BatchFold
  <1>5. run[0] = BatchStart(l)
    <2>1. 1 .. 0 = {} /\ 0 \in 0 .. n
      BY <1>1
    <2>2. fold[{}] = BatchStart(l)
      BY <1>4
    <2> QED
      BY <2>1, <2>2
  <1>6. ASSUME NEW i \in 1 .. n PROVE run[i] = BatchStep(l, run[i - 1], s[i])
    <2>1. i - 1 \in Nat /\ (i - 1) + 1 = i /\ i - 1 \in 0 .. n /\ i \in 0 .. n
      BY <1>1
    <2>2. 1 .. i \in SUBSET (1 .. n) /\ i \in 1 .. i /\ 1 .. i # {}
      <3>1. i \in Nat /\ 1 <= i /\ i <= n
        BY <1>1
      <3>2. i \in 1 .. i
        BY <3>1
      <3>3. \A j \in 1 .. i : j \in 1 .. n
        BY <1>1, <3>1
      <3> QED
        BY <3>2, <3>3
    <2>3. Max(1 .. i) = i
      BY <2>1, <2>2, GreatestOf
    <2>4. (1 .. i) \ {i} = 1 .. i - 1
      BY <1>1
    <2>5. fold[1 .. i] = BatchStep(l, fold[(1 .. i) \ {Max(1 .. i)}], s[Max(1 .. i)])
      BY <1>4, <2>2
    <2> QED
      BY <2>1, <2>3, <2>4, <2>5
  <1>7. BatchRun(l, s) = run[n]
    <2>1. n \in 0 .. n
      BY <1>1
    <2> QED
      BY <1>1, <1>3, <2>1
  <1> HIDE DEF run
  <1> QED
    BY <1>5, <1>6, <1>7 DEF BatchRuns

\* The entries requests consist of.
AllEntries == UNION {Range(request.entries) : request \in Requests}

\* Every record of a ledger is a request.
Recorded(l) ==
    /\ Indexed(l) /\ l.closed \in Nat
    /\ \A i \in 1 .. Len(l.records) : RecordAt(l, i) \in Requests

\* A request's entries are a sequence of them.
LEMMA RequestEntries ==
  ASSUME NEW request \in Requests
  PROVE request.entries \in Seq(AllEntries)
  <1>1. request.entries \in Seq(Range(request.entries))
    BY RequestParts
  <1>2. Range(request.entries) \subseteq AllEntries
    BY DEF AllEntries
  <1> HIDE DEF AllEntries
  <1> DEFINE e == request.entries
             R == Range(request.entries)
  <1>3. e \in Seq(R) /\ R \subseteq AllEntries
    BY <1>1, <1>2
  <1> HIDE DEF e, R
  <1>4. e \in Seq(AllEntries)
    BY <1>3, SeqMonotonic
  <1> QED
    BY <1>4 DEF e

\* A posted record's entries come behind those of the records before it.
LEMMA EntriesGrow ==
  ASSUME NEW l, Recorded(l), NEW request \in Requests, ~Known(l, request)
  PROVE /\ Entries(l) \in Seq(AllEntries)
        /\ Entries(Posted(l, request)) = Entries(l) \o request.entries
  <1> DEFINE n == Len(l.records)
             after == Posted(l, request)
             parts == [i \in DOMAIN l.records |-> RecordAt(l, i).entries]
             more == [i \in DOMAIN after.records |-> RecordAt(after, i).entries]
  <1>1. /\ Indexed(after) /\ n \in Nat /\ Len(after.records) = n + 1
        /\ \A i \in 1 .. n : RecordAt(after, i) = RecordAt(l, i)
        /\ RecordAt(after, n + 1) = request
    BY PostedRecords DEF Recorded
  <1> HIDE DEF after
  <1>2. DOMAIN l.records = 1 .. n /\ DOMAIN after.records = 1 .. n + 1
    BY <1>1 DEF Recorded, Indexed
  <1>3. \A i \in 1 .. n : RecordAt(l, i).entries \in Seq(AllEntries)
    BY RequestEntries DEF Recorded
  <1>4. parts \in Seq(Seq(AllEntries))
    <2> HIDE DEF n
    <2>1. parts = [i \in 1 .. n |-> RecordAt(l, i).entries]
      BY <1>2
    <2> QED
      BY <1>1, <1>3, <2>1, IsASeq
  <1>5. more = Append(parts, request.entries)
    <2> HIDE DEF n
    <2>1. /\ more = [i \in 1 .. n + 1 |-> RecordAt(after, i).entries]
          /\ parts = [i \in 1 .. n |-> RecordAt(l, i).entries]
      BY <1>2
    <2> DEFINE longer == Append(parts, request.entries)
    <2>2. Len(parts) = n
      BY <1>1, <2>1, <1>4
    <2> HIDE DEF parts, more
    <2>3. /\ longer \in Seq(Seq(AllEntries)) /\ Len(longer) = n + 1
          /\ \A i \in 1 .. n : longer[i] = parts[i]
          /\ longer[n + 1] = request.entries
      BY <1>4, <2>2, RequestEntries, AppendProperties
    <2> HIDE DEF longer
    <2>4. longer = [i \in 1 .. n + 1 |-> longer[i]]
      BY <2>3
    <2>5. \A i \in 1 .. n + 1 : longer[i] = RecordAt(after, i).entries
      <3>1. \A i \in 1 .. n : longer[i] = RecordAt(after, i).entries
        BY <1>1, <2>1, <2>3
      <3>2. longer[n + 1] = RecordAt(after, n + 1).entries
        BY <1>1, <2>3
      <3>3. \A i \in 1 .. n + 1 : i \in 1 .. n \/ i = n + 1
        BY <1>1
      <3> QED
        BY <3>1, <3>2, <3>3
    <2> QED
      BY <2>1, <2>4, <2>5 DEF longer
  <1>6. Entries(l) = FlattenSeq(parts) /\ Entries(after) = FlattenSeq(more)
    BY DEF Entries
  <1> HIDE DEF parts, more
  <1> QED
    BY <1>4, <1>5, <1>6, RequestEntries, FlattenAppend DEF after

\* What is requested is an entry that posts, a close or a reopening.
LEMMA EntryKinds ==
  ASSUME NEW request \in Requests, NEW i \in DOMAIN request.entries
  PROVE LET entry == request.entries[i] IN
        /\ entry.kind \in Financial \cup {"close", "reopen"}
        /\ entry.date \in Nat
        /\ entry.kind \notin Financial => entry.date = 0 /\ entry.through \in Nat
  <1>1. IsRequest(request) /\ ValidRequest(request)
    BY LedgerAssumption
  <1>2. WellFormed(request.entries[i])
    BY <1>1 DEF ValidRequest
  <1> QED
    BY <1>1, <1>2 DEF IsRequest, WellFormed, NothingClosed

\* Entries that meet a period are dated behind it, and move it on.
LEMMA FitsPeriod ==
  ASSUME NEW entry, NEW closed \in Nat, NEW last, NEW posted, NEW reversals,
         entry.kind \in Financial \cup {"close", "reopen"}, entry.kind # "reopen",
         entry.date \in Nat, entry.kind \notin Financial => entry.through \in Nat,
         EntryFits(entry, closed, last, posted, reversals)
  PROVE /\ entry.kind \in Financial => entry.date > closed
        /\ ClosedAfter(entry, closed) \in Nat /\ ClosedAfter(entry, closed) >= closed
  <1>1. CASE entry.kind \in Financial
    <2>1. entry.date > closed
      BY <1>1, Zenon DEF EntryFits, Financial
    <2> QED
      BY <1>1, <2>1 DEF ClosedAfter
  <1>2. CASE entry.kind \notin Financial
    <2>1. entry.kind = "close"
      BY <1>2
    <2>2. entry.through > closed
      BY <1>2, <2>1, Zenon DEF EntryFits
    <2>3. ClosedAfter(entry, closed) = entry.through
      BY <1>2 DEF ClosedAfter
    <2> QED
      BY <1>2, <2>2, <2>3
  <1> QED
    BY <1>1, <1>2

\* A batch fits as far as all its entries do.
LEMMA BatchStepFits ==
  ASSUME NEW l, NEW run, NEW entry, BatchStep(l, run, entry).fits
  PROVE /\ run.fits
        /\ EntryFits(entry, run.closed, run.last, run.posted,
                     Overridden(l.reversals, run.reversals))
  <1> DEFINE fits == run.fits /\ EntryFits(entry, run.closed, run.last, run.posted,
                                           Overridden(l.reversals, run.reversals))
  <1>1. BatchStep(l, run, entry).fits = fits
    BY DEF BatchStep
  <1>2. fits
    BY <1>1, Zenon
  <1> QED
    BY <1>2

\* A batch that fits posts nothing to a day that was closed before it.
LEMMA BatchPeriod ==
  ASSUME NEW l, l.closed \in Nat, NEW request \in Requests, ~Reopens(request),
         BatchRun(l, request.entries).fits
  PROVE \A i \in DOMAIN request.entries :
           request.entries[i].kind \in Financial => request.entries[i].date > l.closed
  <1> DEFINE e == request.entries
  <1>1. e \in Seq(AllEntries) /\ DOMAIN e = 1 .. Len(e) /\ Len(e) \in Nat
    BY RequestEntries
  <1>2. PICK run : BatchRuns(l, e, run)
    BY <1>1, BatchRunSteps
  <1>3. /\ run[0] = BatchStart(l) /\ run[Len(e)].fits
        /\ \A i \in 1 .. Len(e) : run[i] = BatchStep(l, run[i - 1], e[i])
    BY <1>2 DEF BatchRuns
  <1> DEFINE Good(k) == /\ run[k].closed \in Nat /\ run[k].closed >= l.closed
                        /\ \A i \in 1 .. k : e[i].kind \in Financial => e[i].date > l.closed
             bad == {k \in 0 .. Len(e) : run[k].fits /\ ~Good(k)}
  <1>4. bad = {}
    <2> SUFFICES ASSUME bad # {} PROVE FALSE
      OBVIOUS
    <2>1. PICK k \in bad : \A other \in bad : k <= other
      <3> HIDE DEF bad
      <3>1. bad \in SUBSET Nat
        BY DEF bad
      <3> QED
        BY <3>1, LeastOf
    <2>2. k \in 0 .. Len(e) /\ run[k].fits /\ ~Good(k)
      BY <2>1
    <2>3. k # 0
      <3>1. run[0].closed = l.closed
        BY <1>3 DEF BatchStart
      <3>2. 1 .. 0 = {}
        OBVIOUS
      <3> QED
        BY <2>2, <3>1, <3>2
    <2>4. k \in 1 .. Len(e) /\ k - 1 \in 0 .. Len(e) /\ ~(k <= k - 1)
      BY <1>1, <2>2, <2>3
    <2> DEFINE entry == e[k]
               before == run[k - 1]
    <2>5. run[k] = BatchStep(l, before, entry)
      BY <1>3, <2>4
    <2>6. /\ before.fits
          /\ EntryFits(entry, before.closed, before.last, before.posted,
                       Overridden(l.reversals, before.reversals))
          /\ run[k].closed = ClosedAfter(entry, before.closed)
      <3> HIDE DEF before, entry
      <3> QED
        <4>1. run[k].closed = ClosedAfter(entry, before.closed)
          BY <2>5 DEF BatchStep
        <4> QED
          BY <2>2, <2>5, <4>1, BatchStepFits
    <2>7. Good(k - 1)
      BY <2>1, <2>4, <2>6
    <2>8. /\ entry.kind \in Financial \cup {"close", "reopen"} /\ entry.date \in Nat
          /\ entry.kind \notin Financial => entry.through \in Nat
      BY <1>1, <2>4, EntryKinds
    <2>9. entry.kind # "reopen"
      BY <1>1, <2>4 DEF Reopens
    <2>10. before.closed \in Nat /\ before.closed >= l.closed
      BY <2>7
    <2>11. /\ entry.kind \in Financial => entry.date > before.closed
           /\ ClosedAfter(entry, before.closed) \in Nat
           /\ ClosedAfter(entry, before.closed) >= before.closed
      <3> HIDE DEF before, entry
      <3> QED
        BY <2>6, <2>8, <2>9, <2>10, FitsPeriod
    <2>12. run[k].closed \in Nat /\ run[k].closed >= l.closed
      <3> HIDE DEF before, entry
      <3> QED
        BY <2>6, <2>10, <2>11
    <2>13. entry.kind \in Financial => entry.date > l.closed
      <3> HIDE DEF before, entry
      <3> QED
        BY <2>8, <2>10, <2>11
    <2>14. ASSUME NEW i \in 1 .. k PROVE e[i].kind \in Financial => e[i].date > l.closed
      <3>1. i = k \/ i \in 1 .. k - 1
        BY <2>4
      <3> QED
        BY <2>7, <2>13, <3>1
    <2> QED
      BY <2>2, <2>12, <2>14
  <1>5. Len(e) \in 0 .. Len(e)
    BY <1>1
  <1> QED
    BY <1>1, <1>3, <1>4, <1>5

\* No entry of an accepted record is posted to a closed period.
LEMMA PeriodRespected ==
  ASSUME NEW l, l.closed \in Nat, NEW request \in Requests, ~Reopens(request),
         Preparation(l, request).fits
  PROVE \A i \in DOMAIN request.entries : request.entries[i].date \notin 1 .. l.closed
  <1> DEFINE e == request.entries
  <1>1. DOMAIN e = 1 .. Len(e) /\ Len(e) \in Nat
    BY RequestParts
  <1>2. IsRequest(request) /\ ValidRequest(request)
    BY LedgerAssumption
  <1>3. \A i \in DOMAIN e : e[i].kind \in Financial => e[i].date > l.closed
    <2>1. CASE request.form = "entry"
      <3>1. Len(e) = 1
        BY <1>2, <2>1 DEF ValidRequest
      <3>2. EntryPreparation(l, e[1]).fits
        BY <2>1 DEF Preparation
      <3> DEFINE entry == e[1]
      <3>3. 1 \in DOMAIN e
        BY <1>1, <3>1
      <3>4. /\ entry.kind \in Financial \cup {"close", "reopen"} /\ entry.date \in Nat
            /\ entry.kind \notin Financial => entry.through \in Nat
            /\ entry.kind # "reopen"
        BY <3>3, EntryKinds DEF Reopens
      <3> HIDE DEF entry
      <3>5. EntryFits(entry, l.closed, l.last, PostedEntries(l), l.reversals)
        BY <3>2, Zenon DEF EntryPreparation, entry
      <3>6. entry.kind \in Financial => entry.date > l.closed
        BY <3>4, <3>5, FitsPeriod
      <3> QED
        BY <1>1, <3>1, <3>6 DEF entry
    <2>2. CASE request.form = "correction"
      <3>1. Len(e) = 2 /\ ValidCorrection(e[1], e[2])
        BY <1>2, <2>2 DEF ValidRequest
      <3>2. CorrectionPreparation(l, e[1], e[2]).fits
        BY <2>2 DEF Preparation
      <3> DEFINE reversal == e[1]
                 replacement == e[2]
      <3>3. 1 \in DOMAIN e /\ 2 \in DOMAIN e
        BY <1>1, <3>1
      <3>4. /\ reversal.kind \in Financial \cup {"close", "reopen"} /\ reversal.date \in Nat
            /\ reversal.kind \notin Financial => reversal.through \in Nat
            /\ reversal.kind # "reopen"
        BY <3>3, EntryKinds DEF Reopens
      <3>5. CorrectionFits(l, reversal, replacement)
        <4> HIDE DEF reversal, replacement
        <4>1. CorrectionPreparation(l, reversal, replacement).fits
          BY <3>2 DEF reversal, replacement
        <4> QED
          BY <4>1, Zenon DEF CorrectionPreparation
      <3> HIDE DEF reversal, replacement
      <3>6. /\ EntryFits(reversal, l.closed, l.last, PostedEntries(l), l.reversals)
            /\ replacement.date > l.closed
        BY <3>5 DEF CorrectionFits
      <3>7. reversal.kind \in Financial => reversal.date > l.closed
        BY <3>4, <3>6, FitsPeriod
      <3>8. \A i \in DOMAIN e : i = 1 \/ i = 2
        BY <1>1, <3>1
      <3> QED
        BY <3>6, <3>7, <3>8 DEF reversal, replacement
    <2>3. CASE request.form = "batch"
      <3>1. BatchPreparation(l, e, BatchRun(l, e)).fits
        BY <2>3 DEF Preparation
      <3> HIDE DEF e
      <3>2. BatchRun(l, e).fits
        BY <3>1, Zenon DEF BatchPreparation
      <3> QED
        BY <3>2, BatchPeriod DEF e
    <2> QED
      BY <1>2, <2>1, <2>2, <2>3 DEF IsRequest
  <1>4. ASSUME NEW i \in DOMAIN e PROVE e[i].date \notin 1 .. l.closed
    <2>1. e[i].date \in Nat /\ (e[i].kind \notin Financial => e[i].date = 0)
      BY EntryKinds
    <2>2. e[i].kind \in Financial => e[i].date > l.closed
      BY <1>3
    <2> HIDE DEF e
    <2> QED
      BY <2>1, <2>2
  <1> QED
    BY <1>4

\* A record leaves the period closed through a day.
LEMMA ClosedNumber ==
  ASSUME NEW l, l.closed \in Nat, NEW request \in Requests
  PROVE Posted(l, request).closed \in Nat
  <1> DEFINE e == request.entries
             preparation == Preparation(l, request)
             closed == preparation.closed
  <1>1. DOMAIN e = 1 .. Len(e) /\ Len(e) \in Nat /\ IsRequest(request) /\ ValidRequest(request)
        /\ e \in Seq(AllEntries)
    BY RequestParts, LedgerAssumption, RequestEntries
  <1>2. closed = Unchanged \/ closed \in Nat
    <2>1. CASE request.form = "entry"
      <3>1. Len(e) = 1
        BY <1>1, <2>1 DEF ValidRequest
      <3>2. closed = IF e[1].kind \in Financial THEN Unchanged ELSE e[1].through
        BY <2>1 DEF Preparation, EntryPreparation
      <3>3. 1 \in DOMAIN e
        BY <1>1, <3>1
      <3> QED
        BY <3>2, <3>3, EntryKinds
    <2>2. CASE request.form = "correction"
      BY <2>2 DEF Preparation, CorrectionPreparation
    <2>3. CASE request.form = "batch"
      <3>1. closed = BatchRun(l, e).closed
        BY <2>3 DEF Preparation, BatchPreparation
      <3>2. PICK run : BatchRuns(l, e, run)
        BY <1>1, BatchRunSteps
      <3> DEFINE bad == {k \in 0 .. Len(e) : run[k].closed \notin Nat}
      <3>3. bad = {}
        <4> SUFFICES ASSUME bad # {} PROVE FALSE
          OBVIOUS
        <4>1. PICK k \in bad : \A other \in bad : k <= other
          <5> HIDE DEF bad
          <5>1. bad \in SUBSET Nat
            BY DEF bad
          <5> QED
            BY <5>1, LeastOf
        <4>2. k # 0
          BY <3>2, <4>1 DEF BatchRuns, BatchStart
        <4>3. k \in 1 .. Len(e) /\ k - 1 \in 0 .. Len(e) /\ ~(k <= k - 1)
          BY <1>1, <4>1, <4>2
        <4>4. run[k - 1].closed \in Nat
          BY <4>1, <4>3
        <4>5. run[k] = BatchStep(l, run[k - 1], e[k])
          BY <3>2, <4>3 DEF BatchRuns
        <4>6. run[k].closed = ClosedAfter(e[k], run[k - 1].closed)
          BY <4>5 DEF BatchStep
        <4>7. e[k].kind \notin Financial => e[k].through \in Nat
          BY <1>1, <4>3, EntryKinds
        <4>8. run[k].closed \in Nat
          BY <4>4, <4>6, <4>7 DEF ClosedAfter
        <4> QED
          BY <4>1, <4>8
      <3>4. run[Len(e)].closed \in Nat
        BY <1>1, <3>3
      <3> QED
        BY <3>1, <3>2, <3>4 DEF BatchRuns
    <2> QED
      BY <1>1, <2>1, <2>2, <2>3 DEF IsRequest
  <1> HIDE DEF closed
  <1>3. Posted(l, request).closed = IF closed = Unchanged THEN l.closed ELSE closed
    BY DEF Posted, Committed, Token, closed
  <1> QED
    BY <1>2, <1>3

\* Posting a new request leaves every record a request.
LEMMA RecordedMore ==
  ASSUME NEW l, Recorded(l), NEW request \in Requests, ~Known(l, request)
  PROVE Recorded(Posted(l, request))
  <1> DEFINE n == Len(l.records)
             after == Posted(l, request)
  <1>1. /\ Indexed(after) /\ n \in Nat /\ Len(after.records) = n + 1
        /\ \A i \in 1 .. n : RecordAt(after, i) = RecordAt(l, i)
        /\ RecordAt(after, n + 1) = request
    BY PostedRecords DEF Recorded
  <1>2. after.closed \in Nat
    BY ClosedNumber DEF Recorded
  <1>3. \A i \in 1 .. n + 1 : i \in 1 .. n \/ i = n + 1
    BY <1>1
  <1> HIDE DEF after
  <1>4. \A i \in 1 .. n + 1 : RecordAt(after, i) \in Requests
    BY <1>1, <1>3 DEF Recorded
  <1> QED
    BY <1>1, <1>2, <1>4 DEF Recorded, after

\* What is posted on a day is the same if no entry behind is of that day.
LEMMA PostedOnKept ==
  ASSUME NEW l, NEW after, NEW date, NEW key, NEW S, NEW more \in Seq(S),
         Entries(l) \in Seq(S), Entries(after) = Entries(l) \o more,
         \A i \in DOMAIN more : more[i].date # date
  PROVE PostedOn(after, date, key) = PostedOn(l, date, key)
  <1> DEFINE old == Entries(l)
             new == Entries(after)
             Posting(entries) == {i \in DOMAIN entries : entries[i].date = date
                                                         /\ key \in DOMAIN entries[i].postings}
             Terms(entries) == [i \in Posting(entries) |-> entries[i].postings[key]]
  <1>1. /\ Len(old) \in Nat /\ Len(more) \in Nat /\ DOMAIN old = 1 .. Len(old)
        /\ DOMAIN more = 1 .. Len(more) /\ DOMAIN new = 1 .. Len(old) + Len(more)
        /\ \A i \in 1 .. Len(old) : new[i] = old[i]
        /\ \A i \in Len(old) + 1 .. Len(old) + Len(more) :
             new[i] = more[i - Len(old)] /\ i - Len(old) \in 1 .. Len(more)
    BY ConcatProperties
  <1> HIDE DEF old, new
  <1>2. \A i \in DOMAIN new : i \in DOMAIN old \/ new[i].date # date
    <2> SUFFICES ASSUME NEW i \in DOMAIN new, i \notin DOMAIN old PROVE new[i].date # date
      OBVIOUS
    <2>1. i \in Len(old) + 1 .. Len(old) + Len(more)
      BY <1>1
    <2>2. new[i] = more[i - Len(old)] /\ i - Len(old) \in DOMAIN more
      BY <1>1, <2>1
    <2> QED
      BY <2>2
  <1>3. \A i \in DOMAIN old : i \in DOMAIN new /\ new[i] = old[i]
    BY <1>1
  <1>4. Posting(new) = Posting(old)
    BY <1>2, <1>3
  <1>5. \A i \in Posting(old) : new[i] = old[i]
    BY <1>3
  <1>6. Terms(new) = Terms(old)
    <2> HIDE DEF Posting
    <2> QED
      BY <1>4, <1>5
  <1>7. /\ PostedOn(l, date, key) = Total(Terms(old))
        /\ PostedOn(after, date, key) = Total(Terms(new))
    BY DEF PostedOn, old, new
  <1> HIDE DEF Terms
  <1> QED
    BY <1>6, <1>7

\* Posting an accepted record that is no reopening leaves closed days alone.
LEMMA PeriodStands ==
  ASSUME NEW l, Recorded(l), NEW request \in Requests,
         Accepts(l, Limits, request, Preparation(l, request)),
         ~(/\ Len(Posted(l, request).records) > Len(l.records)
           /\ Reopens(RecordAt(Posted(l, request), Len(Posted(l, request).records))))
  PROVE \A date \in 1 .. l.closed : \A key : PostedOn(Posted(l, request), date, key) = PostedOn(l, date, key)
  <1> DEFINE n == Len(l.records)
             after == Posted(l, request)
  <1>1. ~Known(l, request) /\ Preparation(l, request).fits
    BY DEF Accepts
  <1>2. /\ n \in Nat /\ Len(after.records) = n + 1
        /\ RecordAt(after, n + 1) = request
    BY <1>1, PostedRecords DEF Recorded
  <1>3. ~Reopens(request)
    BY <1>2
  <1>4. \A i \in DOMAIN request.entries : request.entries[i].date \notin 1 .. l.closed
    BY <1>1, <1>3, PeriodRespected DEF Recorded
  <1>5. /\ Entries(l) \in Seq(AllEntries) /\ Entries(after) = Entries(l) \o request.entries
        /\ request.entries \in Seq(AllEntries)
    BY <1>1, EntriesGrow, RequestEntries
  <1> HIDE DEF after
  <1>6. ASSUME NEW date \in 1 .. l.closed, NEW key
        PROVE PostedOn(after, date, key) = PostedOn(l, date, key)
    <2> DEFINE more == request.entries
    <2>1. \A i \in DOMAIN more : more[i].date # date
      BY <1>4
    <2>2. more \in Seq(AllEntries) /\ Entries(after) = Entries(l) \o more
      BY <1>5
    <2> HIDE DEF more
    <2> QED
      BY <1>5, <2>1, <2>2, PostedOnKept
  <1> QED
    BY <1>6 DEF after

\* What a step that posts may do to the closed days.
StepKeepsPeriods ==
    \/ Len(ledger'.records) > Len(ledger.records)
         /\ Reopens(RecordAt(ledger', Len(ledger'.records)))
    \/ \A date \in 1 .. ledger.closed : \A key \in KeysOf(Entries(ledger')) :
         PostedOn(ledger', date, key) = PostedOn(ledger, date, key)

\* However entries, corrections, batches, closes and reopenings follow each
\* other, and whenever they were prepared, only a record that reopens a
\* period changes what is posted to a closed one.
THEOREM ClosedPeriodsAlwaysStand == LedgerSpec => ClosedPeriodsStand
  <1> DEFINE RecordsInv == TokensHold /\ Recorded(ledger)
  <1>1. LedgerInit => RecordsInv
    <2>1. LedgerInit => TokensHold
      BY InitTokens
    <2>2. LedgerInit => Recorded(ledger)
      BY DEF LedgerInit, EmptyLedger, Recorded, Indexed, NothingClosed
    <2> QED
      BY <2>1, <2>2
  <1>2. RecordsInv /\ [LedgerNext]_ledgerVars => RecordsInv' /\ [StepKeepsPeriods]_ledger
    <2> SUFFICES ASSUME TokensHold, Recorded(ledger), [LedgerNext]_ledgerVars
                 PROVE RecordsInv' /\ [StepKeepsPeriods]_ledger
      OBVIOUS
    <2>1. TokensHold' /\ StepPosts
      BY StepTokens
    <2>2. CASE ledger' = ledger
      BY <2>1, <2>2
    <2>3. CASE ledger' # ledger
      <3>1. PICK request \in Requests :
              /\ Accepts(ledger, Limits, request, Preparation(ledger, request))
              /\ ledger' = Posted(ledger, request)
        BY <2>1, <2>3 DEF StepPosts
      <3>2. Recorded(ledger')
        <4>1. ~Known(ledger, request)
          BY <3>1 DEF Accepts
        <4> QED
          BY <3>1, <4>1, RecordedMore
      <3>3. StepKeepsPeriods
        BY <3>1, PeriodStands DEF StepKeepsPeriods
      <3> QED
        BY <2>1, <3>2, <3>3
    <2> QED
      BY <2>2, <2>3
  <1> HIDE DEF RecordsInv
  <1>3. RecordsInv /\ [LedgerNext]_ledgerVars => RecordsInv'
    BY <1>2
  <1>4. RecordsInv /\ [LedgerNext]_ledgerVars => [StepKeepsPeriods]_ledger
    BY <1>2
  <1> QED
    BY <1>1, <1>3, <1>4, PTL DEF LedgerSpec, ClosedPeriodsStand, StepKeepsPeriods

=============================================================================
