------------------------------ MODULE ShardLog ------------------------------
(***************************************************************************)
(* What a durable shard promises its clients, with no files in it: each    *)
(* command takes one place in a log; an answer names that place; a failure *)
(* may forget commands at the end of the log, but none at or before an     *)
(* answered place.  A log that may be lost is lost as a whole: no answer   *)
(* is ever contradicted by what remains.                                   *)
(***************************************************************************)
EXTENDS Integers, Sequences, SequencesExt

CONSTANTS
    Commands,
    Lost,       \* a log that can no longer be read
    MayBeLost   \* whether a log may end so

VARIABLES
    log,        \* the commands in the order they take effect
    answers     \* the answers given: command and place

vars == <<log, answers>>

TypeOK ==
    /\ log \in Seq(Commands) \/ (MayBeLost /\ log = Lost)
    /\ answers \subseteq [cmd : Commands, at : Nat \ {0}]

IsKept == MayBeLost => log # Lost

Init == log = <<>> /\ answers = {}

\* A command is sequenced once, behind everything else.
Sequence(c) ==
    /\ UNCHANGED answers
    /\ c \notin Range(log)
    /\ log' = Append(log, c)

\* An answer is given for a place the log has.
Answer(at) ==
    /\ answers' = answers \cup {[cmd |-> log[at], at |-> at]}
    /\ UNCHANGED log

\* Losing unanswered commands at the end.
Forget(lost) ==
    /\ \A a \in answers : a.at <= Len(log) - lost
    /\ log' = SubSeq(log, 1, Len(log) - lost)
    /\ UNCHANGED answers

\* And losing everything, for good.
Lose ==
    /\ UNCHANGED answers
    /\ log' = Lost

Next ==
    \/ /\ IsKept
       /\ \/ \E lost \in 0 .. Len(log) : Forget(lost)
          \/ \E c \in Commands : Sequence(c)
          \/ \E at \in 1 .. Len(log) : Answer(at)
    \/ MayBeLost /\ Lose

Spec == Init /\ [][Next]_vars

============================================================================
