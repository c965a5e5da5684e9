--------------------------- MODULE DurableLedger ---------------------------
(***************************************************************************)
(* The ledger on storage (src/src/durable_ledger.rs).  A record is         *)
(* prepared, appended, and only then committed to memory; the log is cut   *)
(* over to a checkpoint, in one of two slots, named by an anchor.  Its     *)
(* storage keeps the promises of RecordLog, and a snapshot file is         *)
(* replaced as a whole.                                                    *)
(*                                                                         *)
(* A ledger may also be used without storage: then step is "bare" and its  *)
(* caller prepares and commits at will (Ledger).                           *)
(***************************************************************************)
EXTENDS Ledger, AnchoredLog

CONSTANTS
    DurableRequests,    \* records asked of a ledger on storage
    MaxSequence,        \* bound: the last sequence number of its log
    MaxSnapshots        \* bound: snapshots ever written

ASSUME DurableAssumption == DurableRequests \subseteq Requests

durableLedgerVars == <<ledgerVars, anchoredVars>>

\* A checkpoint is the ledger's records; its balances follow from them.
CheckpointOf(l) == RecordsOf(l)

DurableLedgerInit ==
    /\ LedgerInit /\ AnchoredInit /\ product = "ledger"
    /\ step \in {"bare", "down"}

----------------------------------------------------------------------------
(* Recovery *)

\* The records a log stands for: those of the snapshot its anchor names, then
\* the ones behind it.
RecordsIn(log, files) ==
    IF AnchorSlot(log) = None THEN log.bodies
    ELSE files[AnchorSlot(log)].now \o Tail(log.bodies)

\* The checkpoint a log is read with, from the slot its anchor names or from
\* the path the caller names.
CheckpointFits(log, files, source) ==
    IF AnchorSlot(log) # None
    THEN /\ source /\ AnchorFits(log, files)
         /\ Len(log.bodies[1].sum) = log.bodies[1].generation
    ELSE source => /\ files["base"].now # None
                   /\ IsPrefix(files["base"].now, log.bodies)

\* open_storage up to the first record.  A refused opening has opened the
\* storage and lets go of it again.
Open(source) ==
    /\ step = "down"
    /\ IF CheckpointFits(visible, slots, source)
       THEN OpenLog /\ step' = "replaying" /\ slot' = AnchorSlot(visible)
       ELSE /\ images' = {image \in images : Begins(image, visible)}
            /\ UNCHANGED <<visible, flight, mode, step, slot>>
    /\ UNCHANGED <<ledgerVars, slots, answers, snapshots>>

\* One record of the checkpoint or behind it is posted to memory; one that
\* is refused, or is an anchor, or repeats another fails the opening.
ReplayRecord ==
    /\ step = "replaying" /\ Len(ledger.records) < Len(RecordsIn(visible, slots))
    /\ LET record == RecordsIn(visible, slots)[Len(ledger.records) + 1] IN
         /\ ~IsAnchor(record)
         /\ Accepts(ledger, Limits, record, Preparation(ledger, record))
         /\ ledger' = Posted(ledger, record)
    /\ UNCHANGED <<logVars, prepared, slots, step, slot, answers, snapshots>>

\* What validate looks for then is what RestoresFromRecords rules out.
Opened ==
    /\ step = "replaying" /\ Len(ledger.records) = Len(RecordsIn(visible, slots))
    /\ step' = "ready"
    /\ UNCHANGED <<ledgerVars, logVars, slots, slot, answers, snapshots>>

----------------------------------------------------------------------------
(* Posting *)

\* Mutant of Submit: the receipt before the append.
SubmitAnswered(request) ==
    /\ step = "ready"
    /\ LastSequence(visible) < MaxSequence
    /\ LET preparation == Preparation(ledger, request) IN
         /\ Accepts(ledger, Limits, request, preparation)
         /\ prepared' = {Token(ledger, request, preparation)}
    /\ Write(Extended(visible, <<request>>))
    /\ step' = "appending"
    /\ answers' = answers \cup {[cmd |-> request, at |-> Len(ledger.records) + 1]}
    /\ UNCHANGED <<ledger, slots, slot, snapshots>>

\* post, correct and post_batch up to the append.
Submit(request) ==
    /\ step = "ready"
    /\ LastSequence(visible) < MaxSequence
    /\ LET preparation == Preparation(ledger, request) IN
         /\ Accepts(ledger, Limits, request, preparation)
         /\ prepared' = {Token(ledger, request, preparation)}
    /\ Write(Extended(visible, <<request>>))
    /\ step' = "appending"
    /\ UNCHANGED <<ledger, slots, slot, answers, snapshots>>

Appended ==
    /\ step = "appending" /\ Acknowledge
    /\ step' = "committing"
    /\ UNCHANGED <<ledgerVars, slots, slot, answers, snapshots>>

\* The journal refused the record and wrote nothing of it.
AppendRefused ==
    /\ step = "appending" /\ Refuse
    /\ step' = "ready" /\ prepared' = {}
    /\ UNCHANGED <<ledger, slots, slot, answers, snapshots>>

\* Mutant of AppendFails: the ledger goes on.
AppendFailsForgiven ==
    /\ step = "appending" /\ Fail
    /\ step' = "ready" /\ prepared' = {}
    /\ UNCHANGED <<ledger, slots, slot, answers, snapshots>>

AppendFails ==
    /\ step = "appending" /\ Fail
    /\ step' = "halted" /\ prepared' = {}
    /\ UNCHANGED <<ledger, slots, slot, answers, snapshots>>

\* A stale preparation halts the ledger; the exclusive borrow of the call
\* leaves no room for one.
CommitAppended ==
    /\ step = "committing"
    /\ \E token \in prepared :
         IF Stale(ledger, token)
         THEN step' = "halted" /\ UNCHANGED <<ledger, answers>>
         ELSE /\ ledger' = Committed(ledger, token)
              /\ answers' = answers \cup {[cmd |-> token.request, at |-> token.expected + 1]}
              /\ step' = "ready"
    /\ prepared' = {}
    /\ UNCHANGED <<logVars, slots, slot, snapshots>>

----------------------------------------------------------------------------
(* Checkpoints *)

\* write_checkpoint, to the path the caller opens with.
WriteCheckpoint ==
    /\ step = "ready" /\ snapshots < MaxSnapshots /\ SyncLog
    /\ \/ slots' = Stored(slots, "base", CheckpointOf(ledger))
       \/ slots' \in HalfStored(slots, "base", CheckpointOf(ledger))
    /\ UNCHANGED <<ledgerVars, step, slot, answers>>
    /\ snapshots' = snapshots + 1

\* compact_to_checkpoint up to the anchor.
Compact ==
    /\ step = "ready" /\ snapshots < MaxSnapshots /\ ledger.records # <<>>
    /\ LET records == CheckpointOf(ledger) IN
         /\ slots' = Stored(slots, NextSlot, records)
         /\ flight' = Replaced(visible, LastSequence(visible),
                              AnchorTo(NextSlot, records, Len(records), LastSequence(visible)))
    /\ images' = {visible} /\ mode' = "writing" /\ UNCHANGED visible
    /\ step' = "anchoring"
    /\ UNCHANGED <<ledgerVars, slot, answers>>
    /\ snapshots' = snapshots + 1

\* The snapshot could not be written; the ledger goes on.
CompactFails ==
    /\ step = "ready" /\ snapshots < MaxSnapshots /\ ledger.records # <<>> /\ SyncLog
    /\ slots' \in HalfStored(slots, NextSlot, CheckpointOf(ledger))
    /\ UNCHANGED <<ledgerVars, step, slot, answers>>
    /\ snapshots' = snapshots + 1

CutOver ==
    /\ step = "anchoring" /\ Acknowledge
    /\ step' = "ready" /\ slot' = NextSlot
    /\ UNCHANGED <<ledgerVars, slots, answers, snapshots>>

\* The journal is poisoned once it began to replace its file.
CutOverFails ==
    /\ step = "anchoring"
    /\ \/ Fail /\ step' = "halted"
       \/ Refuse /\ step' = "ready"
    /\ UNCHANGED <<ledgerVars, slots, slot, answers, snapshots>>

\* A segmented journal that selected its new generation and then could not
\* list its directory returns an error and is not poisoned: the ledger goes on
\* with the slot it knew.
CutOverUnlisted ==
    /\ step = "anchoring" /\ FailReplaced
    /\ step' = "ready"
    /\ UNCHANGED <<ledgerVars, slots, slot, answers, snapshots>>

\* sync_all, by itself or on the way to a checkpoint.
SyncFails ==
    /\ step = "ready" /\ SyncLogFails
    /\ step' = "halted"
    /\ UNCHANGED <<ledgerVars, slots, slot, answers, snapshots>>

----------------------------------------------------------------------------
(* Stopping *)

Forgotten ==
    /\ step' = "down" /\ ledger' = EmptyLedger /\ prepared' = {} /\ slot' = None

Close ==
    /\ step = "ready" /\ CloseLog /\ Forgotten
    /\ UNCHANGED <<slots, answers, snapshots>>

\* The process ends, or drops a halted ledger.
Stop ==
    /\ step \notin {"bare", "down"} /\ DropLog /\ Forgotten
    /\ UNCHANGED <<slots, answers, snapshots>>

PowerLoss ==
    /\ step # "bare" /\ LosePower /\ Forgotten
    /\ slots' \in SlotsAfterPowerLoss(slots)
    /\ UNCHANGED <<answers, snapshots>>

Bare ==
    /\ step = "bare" /\ LedgerNext
    /\ UNCHANGED <<logVars, slots, step, slot, answers, snapshots>>

DurableNext ==
    \/ \E source \in BOOLEAN : Open(source)
    \/ ReplayRecord \/ Opened
    \/ \E request \in DurableRequests : Submit(request)
    \/ Appended \/ AppendRefused \/ AppendFails \/ CommitAppended
    \/ WriteCheckpoint \/ Compact \/ CompactFails \/ CutOver \/ CutOverFails \/ SyncFails
    \/ Close \/ Stop \/ PowerLoss

DurableLedgerNext == product = "ledger" /\ UNCHANGED product /\ (Bare \/ DurableNext)

----------------------------------------------------------------------------
(* Properties *)

\* What is on storage, as far as it can be read back.
Logged ==
    IF product = "ledger" /\ CheckpointFits(visible, slots, AnchorSlot(visible) # None)
    THEN RecordsIn(visible, slots) ELSE <<>>

\* Between calls memory is neither ahead of storage nor behind it.
MemoryIsTheLog ==
    product = "ledger" /\ step \in {"ready", "anchoring"} => RecordsOf(ledger) = Logged

\* A ledger that is down opens again with the checkpoint its log asks for,
\* and takes each of its records back.
OpensAgain ==
  product = "ledger" =>
    /\ step = "down" => CheckpointFits(visible, slots, AnchorSlot(visible) # None)
    /\ step = "replaying" /\ Len(ledger.records) < Len(Logged) =>
         LET record == Logged[Len(ledger.records) + 1] IN
         ~IsAnchor(record) /\ Accepts(ledger, Limits, record, Preparation(ledger, record))

\* Both: storage and memory hold the same records, and what is on storage
\* opens again.
StorageCarriesLedger == MemoryIsTheLog /\ OpensAgain

============================================================================
