---------------------------- MODULE WriterLease ----------------------------
(***************************************************************************)
(* The sidecar lease file that admits one writer to a canonical path       *)
(* (WriterLease in src/src/journal.rs; segmented WAL directories and       *)
(* snapshot targets use the same type).  The file system's atomic          *)
(* create-new is the only lock: everything else is separate reads, writes  *)
(* and removals of that file, done by opener handles and by an operator    *)
(* who recovers what a dead process left.                                  *)
(*                                                                         *)
(* An opener is one attempt to own the path and the handle it yields; a    *)
(* process may have several.  The owner identity (process, time, nonce) is *)
(* a number no two acquisitions share.                                     *)
(***************************************************************************)
EXTENDS Integers, FiniteSets

CONSTANTS
    Openers,        \* handles that compete for the path
    MaxNonce        \* bound: acquisitions ever attempted

ASSUME WriterLeaseAssumption == MaxNonce \in Nat

VARIABLES
    lease,      \* the file: who created it and whether its record is complete
    pc,         \* what each opener is doing
    owner,      \* each opener's owner identity
    nonce,      \* the next unused identity
    observed,   \* the owner a refused acquisition reported last, or 0
    operator    \* the owner whose lease a recovery is about to remove, or 0

leaseVars == <<lease, pc, owner, nonce, observed, operator>>

\* "removing" has read its own identity in the file and will remove it;
\* "closed" released explicitly and will release again when it is dropped.
States == {"idle", "created", "holding", "removing", "closed", "dropRemoving"}

LeaseOf(n, complete) == [owner |-> n, complete |-> complete]

\* The lease file is absent; identities start at 1.
NoLease == LeaseOf(0, FALSE)

LeaseTypeOK ==
    /\ lease \in [owner : 0 .. MaxNonce, complete : BOOLEAN]
    /\ pc \in [Openers -> States]
    /\ owner \in [Openers -> 0 .. MaxNonce]
    /\ nonce \in 1 .. MaxNonce + 1
    /\ observed \in 0 .. MaxNonce
    /\ operator \in 0 .. MaxNonce

LeaseInit ==
    /\ lease = NoLease
    /\ pc = [o \in Openers |-> "idle"]
    /\ owner = [o \in Openers |-> 0]
    /\ nonce = 1
    /\ observed = 0
    /\ operator = 0

\* The identities of handles that still exist.
Live == {owner[o] : o \in {p \in Openers : pc[p] # "idle"}}

----------------------------------------------------------------------------
(* acquire *)

\* create_new succeeds only on an absent file.  An operator who recovers an
\* abandoned lease keeps new writers from starting until it returns.
Create(o) ==
    /\ pc[o] = "idle" /\ lease = NoLease
    /\ operator = 0
    /\ nonce <= MaxNonce
    /\ lease' = LeaseOf(nonce, FALSE)
    /\ owner' = [owner EXCEPT ![o] = nonce]
    /\ nonce' = nonce + 1
    /\ pc' = [pc EXCEPT ![o] = "created"]
    /\ UNCHANGED <<observed, operator>>

\* The record is written to the created file, synchronized, and the directory
\* with it; the path shows it as long as it still names that file.
WriteOwner(o) ==
    /\ pc[o] = "created"
    /\ lease' = IF lease.owner = owner[o] THEN LeaseOf(owner[o], TRUE) ELSE lease
    /\ pc' = [pc EXCEPT ![o] = "holding"]
    /\ UNCHANGED <<owner, nonce, observed, operator>>

\* Any of that fails: the file is removed again, whoever it names.
WriteFails(o) ==
    /\ pc[o] = "created"
    /\ lease' = NoLease
    /\ pc' = [pc EXCEPT ![o] = "idle"]
    /\ UNCHANGED <<owner, nonce, observed, operator>>

\* The file exists: a complete record is reported as WriterLeaseHeld.
Refused(o) ==
    /\ pc[o] = "idle" /\ lease.complete
    /\ observed' = lease.owner
    /\ UNCHANGED <<lease, pc, owner, nonce, operator>>

----------------------------------------------------------------------------
(* release: read, compare, remove; close releases and drop releases again *)

NamesMe(o) == lease = LeaseOf(owner[o], TRUE)

\* The path is free for others between the two releases of a closed handle.
CloseReads(o) ==
    /\ pc[o] = "holding"
    /\ pc' = [pc EXCEPT ![o] = IF NamesMe(o) THEN "removing" ELSE "closed"]
    /\ UNCHANGED <<lease, owner, nonce, observed, operator>>

CloseRemoves(o) ==
    /\ pc[o] = "removing"
    /\ lease' = NoLease
    /\ pc' = [pc EXCEPT ![o] = "closed"]
    /\ UNCHANGED <<owner, nonce, observed, operator>>

\* A file that is absent, malformed or names another owner is left alone.
DropReads(o) ==
    /\ pc[o] \in {"holding", "closed"}
    /\ pc' = [pc EXCEPT ![o] = IF NamesMe(o) THEN "dropRemoving" ELSE "idle"]
    /\ UNCHANGED <<lease, owner, nonce, observed, operator>>

DropRemoves(o) ==
    /\ pc[o] = "dropRemoving"
    /\ lease' = NoLease
    /\ pc' = [pc EXCEPT ![o] = "idle"]
    /\ UNCHANGED <<owner, nonce, observed, operator>>

\* The process dies: its handle is gone and the file stays as it is.
Dies(o) ==
    /\ pc[o] # "idle"
    /\ pc' = [pc EXCEPT ![o] = "idle"]
    /\ UNCHANGED <<lease, owner, nonce, observed, operator>>

----------------------------------------------------------------------------
(* Recovery by an operator, who first establishes that no process can still *)
(* act as the observed owner, or for a malformed file that no writer is     *)
(* left at all, and keeps new writers from starting until it returns.  The  *)
(* read and the removal are separate file-system operations.                *)

\* Mutant of RecoverReads: any complete lease is taken for the observed one.
RecoverAnyOwner ==
    /\ operator = 0
    /\ observed # 0 /\ observed \notin Live
    /\ \A o \in Openers : pc[o] # "created"
    /\ lease.complete
    /\ operator' = lease.owner
    /\ UNCHANGED <<lease, pc, owner, nonce, observed>>

\* The file must still name the observed owner.
RecoverReads ==
    /\ operator = 0
    /\ observed # 0 /\ observed \notin Live
    /\ \A o \in Openers : pc[o] # "created"
    /\ lease = LeaseOf(observed, TRUE)
    /\ operator' = lease.owner
    /\ UNCHANGED <<lease, pc, owner, nonce, observed>>

\* The file must still be malformed.
RecoverInvalidReads ==
    /\ operator = 0
    /\ Live = {}
    /\ lease # NoLease /\ ~ lease.complete
    /\ operator' = lease.owner
    /\ UNCHANGED <<lease, pc, owner, nonce, observed>>

RecoverRemoves ==
    /\ operator # 0
    /\ lease' = NoLease
    /\ operator' = 0
    /\ UNCHANGED <<pc, owner, nonce, observed>>

LeaseNext ==
    \/ \E o \in Openers :
          \/ Create(o) \/ WriteOwner(o) \/ WriteFails(o) \/ Refused(o)
          \/ CloseReads(o) \/ CloseRemoves(o) \/ DropReads(o) \/ DropRemoves(o)
          \/ Dies(o)
    \/ RecoverReads \/ RecoverInvalidReads \/ RecoverRemoves

LeaseSpec == LeaseInit /\ [][LeaseNext]_leaseVars

----------------------------------------------------------------------------
Writers == {o \in Openers : pc[o] = "holding"}

\* Two handles never own the path at once, whatever the interleaving of their
\* creations, failed writes, double releases and the operator's recovery.
OneWriter == \A o, p \in Writers : o = p

\* While a handle owns the path the file names it: neither a second release by
\* an earlier owner nor a recovery takes a live owner's lease away.
LeaseNamesWriter == \A o \in Writers : NamesMe(o)

\* Both: there is at most one writer and the file is its own.
LeaseHeld == OneWriter /\ LeaseNamesWriter

============================================================================
