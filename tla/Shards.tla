------------------------------- MODULE Shards -------------------------------
(***************************************************************************)
(* The shards over RecordLog, one per behaviour: the ledger, with storage  *)
(* or bare, and the ones of DurableShard.                                  *)
(***************************************************************************)
EXTENDS DurableLedger, DurableShard

shardsVars == <<ledgerVars, anchoredVars, shardVars>>

Spec ==
    /\ \/ DurableLedgerInit /\ shard = NoShard /\ captured = None
       \/ ShardInit /\ LedgerInit
    /\ [][ \/ DurableLedgerNext /\ UNCHANGED shardVars
           \/ ShardNext /\ UNCHANGED ledgerVars ]_shardsVars

\* The ledger over a segmented journal, its directory listing included.
SegmentedSpec ==
    /\ DurableLedgerInit /\ shard = NoShard /\ captured = None
    /\ [][ \/ DurableLedgerNext /\ UNCHANGED shardVars
           \/ CutOverUnlisted /\ UNCHANGED <<product, shardVars>> ]_shardsVars

Abstract == INSTANCE ShardLog WITH
    log <- IF product = "ledger" THEN Logged ELSE LoggedCommands,
    answers <- {[cmd |-> answer.cmd, at |-> answer.at] : answer \in answers},
    Commands <- DurableRequests \cup ShardCommands,
    Lost <- None, MayBeLost <- FALSE

\* Every shard is a log of records or commands on which each receipt names
\* the place of its own for good: what fails between an append and a commit,
\* between a command and its report, or in a cutover loses at most what was
\* not answered.
ImplementsShardLog == Abstract!Spec

=============================================================================
