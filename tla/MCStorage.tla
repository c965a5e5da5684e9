----------------------------- MODULE MCStorage -----------------------------
(***************************************************************************)
(* What the rest stands on, part by part: the lease of one path, one       *)
(* single-file log, one directory of segments, the hash index and the      *)
(* ordered index of the state in memory, the history of an order book, and *)
(* the payloads that are logged.  They share nothing; a behaviour is one   *)
(* of one part.                                                            *)
(***************************************************************************)
EXTENDS Journal, WriterLease, SegmentedJournal, ProbeTable, IndexedTree, BookHistory, Codec

CONSTANTS x1, x2, x3

Command(id, kind, target) == [id |-> id, kind |-> kind, target |-> target]

\* Two orders that a book has room for, each way to be rid of them, one that
\* is refused, and identifiers two commands compete for.
FewCommands ==
    {Command(1, "new", x1), Command(2, "new", x2), Command(3, "trigger", {x1}),
     Command(3, "cancel", x1), Command(3, "control", {}), Command(4, "sweep", {x1, x2}),
     Command(4, "cancel", x3)}

VARIABLE part

storageVars ==
    <<part, vars, leaseVars, segmentVars, tableVars, treeVars, historyVars, payload>>

StorageInit ==
    /\ Init /\ LeaseInit /\ SegmentInit /\ TableInit /\ TreeInit /\ HistoryInit /\ CodecInit
    /\ part \in {"lease", "file", "directory", "table", "tree", "history", "codec"}
    /\ part # "directory" => barrier = "SyncAll"
    /\ part # "table" => hashOf = [key \in TableKeys |-> CHOOSE hash \in Hashes : TRUE]

Others(name) ==
    /\ part = name
    /\ UNCHANGED part
    /\ name # "lease" => UNCHANGED leaseVars
    /\ name # "file" => UNCHANGED vars
    /\ name # "directory" => UNCHANGED segmentVars
    /\ name # "table" => UNCHANGED tableVars
    /\ name # "tree" => UNCHANGED treeVars
    /\ name # "history" => UNCHANGED historyVars
    /\ name # "codec" => UNCHANGED payload

LeaseStep == Others("lease") /\ LeaseNext
FileStep == Others("file") /\ Next
DirectoryStep == Others("directory") /\ SegmentNext
TableStep == Others("table") /\ TableNext
TreeStep == Others("tree") /\ TreeNext
HistoryStep == Others("history") /\ HistoryNext
CodecStep == Others("codec") /\ CodecNext

StorageSpec ==
    /\ StorageInit
    /\ [][\/ LeaseStep \/ FileStep \/ DirectoryStep \/ TableStep \/ TreeStep
          \/ HistoryStep \/ CodecStep]_storageVars

============================================================================
