---------------------------- MODULE SnapshotFile ----------------------------
(***************************************************************************)
(* Atomic replacement of semantic snapshot files (src/src/snapshot.rs).    *)
(* One directory holds the targets: two cutover slots and any path a       *)
(* checkpoint is written to.  A write stages <target>.pending, renames it  *)
(* over the target and synchronizes the directory; recover_pending decides *)
(* what becomes of a staging file a dead or failed writer left.            *)
(*                                                                         *)
(* `current' is what a process reads at each name; `device' what the name  *)
(* means after a power loss.  Taking or releasing a target's writer lease  *)
(* synchronizes the directory, which settles every earlier rename in it.   *)
(* A lease left by a dead writer is recovered first (see WriterLease).     *)
(*                                                                         *)
(* A directory entry says nothing of the bytes behind it: a file whose own *)
(* barrier was never passed reads well until a power loss tears it,        *)
(* whatever name it has by then.                                           *)
(*                                                                         *)
(* A snapshot's content is its generation and the history it stands for; a *)
(* content succeeds another when its generation is not lower and its       *)
(* history extends the other's.                                            *)
(***************************************************************************)
EXTENDS Integers, Sequences, SequencesExt

CONSTANTS
    Targets,    \* snapshot paths
    Items,      \* what histories are made of
    NoFile,     \* an absent file
    Partial     \* a file whose content does not validate

VARIABLES
    current,    \* the file at each target, as processes read it
    device,     \* the file at each target after a power loss
    pending,    \* the file at each <target>.pending
    write,      \* the write in progress: target, value, step
    promoted    \* history: targets that recover_pending gave a never synchronized
                \* file, until a synchronized one is there

vars == <<current, device, pending, write, promoted>>

Contents == [gen : Nat, history : Seq(Items)]

\* A valid file: its content, and whether its bytes passed a barrier.
Files == [gen : Nat, history : Seq(Items), synced : BOOLEAN]

Stored(value, synced) == [gen |-> value.gen, history |-> value.history, synced |-> synced]

IsValid(file) == file \notin {NoFile, Partial}
Unsynchronized(file) == IsValid(file) /\ ~ file.synced

\* What reading a file returns: its content, or nothing that can be used.
Read(file) ==
    IF IsValid(file) THEN [gen |-> file.gen, history |-> file.history] ELSE NoFile

Steps == {"idle", "stage", "rename", "sync", "done", "failed"}

NoWrite == [target |-> NoFile, value |-> NoFile, step |-> "idle"]

TypeOK ==
    /\ current \in [Targets -> Files \cup {NoFile, Partial}]
    /\ device \in [Targets -> Files \cup {NoFile, Partial}]
    /\ pending \in [Targets -> Files \cup {NoFile, Partial}]
    /\ write \in [target : Targets \cup {NoFile}, value : Contents \cup {NoFile},
                  step : Steps]
    /\ promoted \subseteq Targets

Init ==
    /\ current = [t \in Targets |-> NoFile]
    /\ device = current
    /\ pending = current
    /\ write = NoWrite
    /\ promoted = {}

IsSuccessor(value, previous) ==
    /\ value.gen >= previous.gen
    /\ IsPrefix(previous.history, value.history)

----------------------------------------------------------------------------
(* SnapshotFile::write *)

\* What the target's present file says to the proposed value.  A file that reads
\* as the same snapshot is taken for the finished write.
Verdict(t, value) ==
    IF pending[t] # NoFile \/ current[t] = Partial THEN "failed"
    ELSE IF current[t] = NoFile THEN "stage"
    ELSE IF value.gen < current[t].gen THEN "failed"
    ELSE IF value.gen = current[t].gen
         THEN IF value = Read(current[t]) THEN "done" ELSE "failed"
    ELSE IF IsSuccessor(value, current[t]) THEN "stage" ELSE "failed"

\* The lease is taken, then the staging name and the present file are examined.
WriteBegin(t, value) ==
    /\ write.step = "idle"
    /\ write' = [target |-> t, value |-> value, step |-> Verdict(t, value)]
    /\ device' = current
    /\ UNCHANGED <<current, pending, promoted>>

\* write_all and sync_all succeed.
Stage ==
    /\ write.step = "stage"
    /\ pending' = [pending EXCEPT ![write.target] = Stored(write.value, TRUE)]
    /\ write' = [write EXCEPT !.step = "rename"]
    /\ UNCHANGED <<current, device, promoted>>

\* One of them fails, or the process dies between them: part of the bytes is
\* staged, or all of them with no barrier behind.
StageFails ==
    /\ write.step = "stage"
    /\ \E left \in {Partial, Stored(write.value, FALSE)} :
          pending' = [pending EXCEPT ![write.target] = left]
    /\ write' = [write EXCEPT !.step = "failed"]
    /\ UNCHANGED <<current, device, promoted>>

Rename ==
    /\ write.step = "rename"
    /\ current' = [current EXCEPT ![write.target] = pending[write.target]]
    /\ pending' = [pending EXCEPT ![write.target] = NoFile]
    /\ write' = [write EXCEPT !.step = "sync"]
    /\ UNCHANGED <<device, promoted>>

RenameFails ==
    /\ write.step = "rename"
    /\ write' = [write EXCEPT !.step = "failed"]
    /\ UNCHANGED <<current, device, pending, promoted>>

\* The release of the lease after the barrier can still fail the call.
DirectorySync ==
    /\ write.step = "sync"
    /\ device' = current
    /\ promoted' = promoted \ {write.target}
    /\ \E result \in {"done", "failed"} : write' = [write EXCEPT !.step = result]
    /\ UNCHANGED <<current, pending>>

DirectorySyncFails ==
    /\ write.step = "sync"
    /\ write' = [write EXCEPT !.step = "failed"]
    /\ UNCHANGED <<current, device, pending, promoted>>

\* The caller takes the result.
Return ==
    /\ write.step \in {"done", "failed"}
    /\ write' = NoWrite
    /\ UNCHANGED <<current, device, pending, promoted>>

----------------------------------------------------------------------------
(* recover_pending, by an operator with a lease of its own *)

\* The file takes the name as it is: promote_and_sync renames it and
\* synchronizes the directory, never the file.
Promote(t) ==
    /\ current' = [current EXCEPT ![t] = pending[t]]
    /\ pending' = [pending EXCEPT ![t] = NoFile]
    /\ \/ device' = current'
       \/ device' = current     \* the last directory barrier failed
    /\ promoted' = IF Unsynchronized(pending[t]) THEN promoted \cup {t} ELSE promoted

Discard(t) ==
    /\ pending' = [pending EXCEPT ![t] = NoFile]
    /\ device' = current
    /\ UNCHANGED <<current, promoted>>

Supersedes(value, previous) ==
    value.gen > previous.gen /\ IsSuccessor(value, previous)

\* Content that proves invalid goes; valid content is promoted over an absent
\* file or one it succeeds, and discarded when it is stale or redundant.  In
\* every other case, an invalid present file among them, both files stay for a
\* person to look at.
RecoverPending(t) ==
    /\ write.step = "idle" /\ pending[t] # NoFile
    /\ \/ pending[t] = Partial /\ Discard(t)
       \/ /\ IsValid(pending[t])
          /\ \/ current[t] = NoFile
             \/ IsValid(current[t]) /\ Supersedes(pending[t], current[t])
          /\ Promote(t)
       \/ /\ IsValid(pending[t]) /\ IsValid(current[t])
          /\ \/ Read(pending[t]) = Read(current[t])
             \/ Supersedes(current[t], pending[t])
          /\ Discard(t)
    /\ UNCHANGED write

----------------------------------------------------------------------------
(* Process death and power loss *)

ProcessEnds ==
    /\ write' = NoWrite
    /\ UNCHANGED <<current, device, pending, promoted>>

\* What is left of the files when power returns: those of `torn' lose bytes that
\* passed no barrier, all others are on the device.
Remaining(names, torn) ==
    [t \in Targets |-> IF t \in torn THEN Partial
                      ELSE IF IsValid(names[t]) THEN Stored(names[t], TRUE) ELSE names[t]]

MayTear(names) == SUBSET {t \in Targets : Unsynchronized(names[t])}

\* Targets whose last rename is not settled, and what the names mean when some
\* of these renames are undone.
Unsettled == {t \in Targets : device[t] # current[t]}
Fallen(undone) == [t \in Targets |-> IF t \in undone THEN device[t] ELSE current[t]]

\* Each name falls back or not; a staging file that was not yet renamed on the
\* device, or never synchronized in its directory, is there or gone.
PowerLoss ==
    /\ \E undone \in SUBSET Unsettled :
          /\ \E torn \in MayTear(Fallen(undone)) : current' = Remaining(Fallen(undone), torn)
          /\ \E gone \in SUBSET {t \in Targets : t \in undone \/ pending[t] # NoFile} :
                LET staged == [t \in Targets |-> IF t \in gone THEN NoFile
                                                ELSE IF t \in undone THEN current[t]
                                                ELSE pending[t]]
                IN  \E torn \in MayTear(staged) : pending' = Remaining(staged, torn)
    /\ device' = current'
    /\ promoted' = {t \in promoted : current'[t] = Partial}
    /\ write' = NoWrite

============================================================================
