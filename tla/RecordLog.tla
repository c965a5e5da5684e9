----------------------------- MODULE RecordLog -----------------------------
(***************************************************************************)
(* What storage under SyncAll promises the shard that writes to it: a log  *)
(* of bodies with consecutive sequence numbers that is extended, or        *)
(* replaced up to a number by one body, one call at a time.                *)
(* A call that returns has made its log the only one a crash can leave; a  *)
(* call that fails or never returns may or may not have, in whole or, of a *)
(* batch, in part.                                                         *)
(***************************************************************************)
EXTENDS Integers, Sequences, SequencesExt

CONSTANT None

VARIABLES
    visible,    \* the log a process reads
    images,     \* the logs a power failure may leave
    flight,     \* the log a running call is writing, or None
    mode        \* of the writer: "closed", "open", "writing" or "poisoned"

logVars == <<visible, images, flight, mode>>

\* A log and the sequence number of its first body.
EmptyLog == [first |-> 1, bodies |-> <<>>]
LastSequence(log) == log.first + Len(log.bodies) - 1
Extended(log, bodies) == [log EXCEPT !.bodies = @ \o bodies]
Behind(log, at) == SubSeq(log.bodies, at - log.first + 2, Len(log.bodies))
Replaced(log, at, body) == [first |-> at, bodies |-> <<body>> \o Behind(log, at)]
Begins(part, log) == part.first = log.first /\ IsPrefix(part.bodies, log.bodies)

\* What a call that writes `written' over `log' may have written of it.
PartsOf(log, written) ==
    {log, written} \cup
    IF Begins(log, written)
    THEN {[written EXCEPT !.bodies = SubSeq(@, 1, n)] : n \in Len(log.bodies) .. Len(written.bodies)}
    ELSE {}

LogInit == visible = EmptyLog /\ images = {EmptyLog} /\ flight = None /\ mode = "closed"

\* Opening decides between a log and its replacement: only the one that is
\* visible, or the beginning of it, is left to a power failure.
OpenLog ==
    /\ mode = "closed"
    /\ mode' = "open"
    /\ images' = {image \in images : Begins(image, visible)}
    /\ UNCHANGED <<visible, flight>>

Write(log) ==
    /\ mode = "open"
    /\ mode' = "writing" /\ flight' = log
    /\ UNCHANGED <<visible, images>>

Acknowledge ==
    /\ mode = "writing"
    /\ mode' = "open" /\ flight' = None
    /\ visible' = flight /\ images' = {flight}

\* Refused before anything was written.
Refuse ==
    /\ mode = "writing"
    /\ mode' = "open" /\ flight' = None
    /\ UNCHANGED <<visible, images>>

Fail ==
    /\ mode = "writing"
    /\ mode' = "poisoned" /\ flight' = None
    /\ visible' \in PartsOf(visible, flight)
    /\ images' = images \cup PartsOf(visible, flight)

\* Replaced on the device, and an error returned by a writer that goes on: a
\* segmented journal whose directory cannot be listed after a cutover.
FailReplaced ==
    /\ mode = "writing" /\ ~Begins(visible, flight)
    /\ mode' = "open" /\ flight' = None
    /\ visible' = flight /\ images' = {flight}

SyncLog ==
    /\ mode = "open"
    /\ images' = {visible}
    /\ UNCHANGED <<visible, flight, mode>>

SyncLogFails ==
    /\ mode = "open"
    /\ mode' = "poisoned"
    /\ UNCHANGED <<visible, images, flight>>

CloseLog ==
    /\ mode = "open"
    /\ mode' = "closed"
    /\ images' \in {{visible}, images}
    /\ UNCHANGED <<visible, flight>>

\* The process ends, whatever it was doing.
DropLog ==
    /\ mode' = "closed" /\ flight' = None
    /\ IF mode = "writing"
       THEN /\ visible' \in PartsOf(visible, flight)
            /\ images' = images \cup PartsOf(visible, flight)
       ELSE UNCHANGED <<visible, images>>

LosePower ==
    /\ mode' = "closed" /\ flight' = None
    /\ visible' \in images \cup (IF mode = "writing" THEN PartsOf(visible, flight) ELSE {})
    /\ images' = {visible'}

LogNext(Bodies, Anchors, MaxBatch) ==
    \/ OpenLog \/ Acknowledge \/ Refuse \/ Fail \/ FailReplaced \/ SyncLog \/ SyncLogFails
    \/ CloseLog \/ DropLog \/ LosePower
    \/ \E batch \in SeqOf(Bodies, MaxBatch) : Write(Extended(visible, batch))
    \/ \E anchor \in Anchors : \E at \in visible.first .. LastSequence(visible) :
         Write(Replaced(visible, at, anchor))

============================================================================
