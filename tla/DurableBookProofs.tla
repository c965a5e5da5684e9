------------------------- MODULE DurableBookProofs -------------------------
(***************************************************************************)
(* The durable matching shard for all commands, bounds, targets and        *)
(* environments that ShardAssumption admits: what every crash leaves can   *)
(* be opened, answers are in it, and the shard implements ShardLog.        *)
(***************************************************************************)
EXTENDS DurableBook, TLAPS

Bodies == {Definition} \cup [kind : {"Command"}, cmd : Commands]
          \cup [kind : {"Report"}, cmd : Commands, at : Nat] \cup Anchors
Frames == [seq : Nat \ {0}, body : Bodies]

\* Behind the definition a history takes two numbers a command: 2k for the
\* command at place k and 2k + 1 for its report.
LastOf(file) == IF file = <<>> THEN 0 ELSE file[1].seq + Len(file) - 1

Distinct(H) == \A i, j \in 1 .. Len(H) : H[i] = H[j] => i = j

\* A file tells a history: it begins at the definition, or at an anchor that
\* stands for a part of the history, and ends with the last command or its
\* report.
Tells(file, H) ==
    /\ file \in Seq(Frames) /\ file # <<>>
    /\ \A i \in 1 .. Len(file) : file[i].seq = file[1].seq + i - 1
    /\ \A i \in 2 .. Len(file), k \in 1 .. Len(H) :
          /\ file[i].seq = 2 * k => file[i].body = CommandRecord(H[k])
          /\ file[i].seq = 2 * k + 1 => file[i].body = Report(H[k], k)
    /\ LastOf(file) \in {2 * Len(H), 2 * Len(H) + 1}
    /\ \/ file[1] = [seq |-> 1, body |-> Definition]
       \/ \E s \in {"A", "B"}, k \in 0 .. Len(H) :
             file[1] = [seq |-> 2 * k + 1,
                        body |-> AnchorTo(s, [gen |-> 2 * k + 1, history |-> SubSeq(H, 1, k)])]

FileTells(file, H) == IF file = <<>> THEN H = <<>> ELSE Tells(file, H)

\* A checkpoint within the history, at the report of its last command.
CheckpointWithin(checkpoint, H, last) ==
    /\ checkpoint \in S!Contents
    /\ checkpoint.gen = 2 * Len(checkpoint.history) + 1 /\ checkpoint.gen <= last
    /\ Len(checkpoint.history) <= Len(H)
    /\ checkpoint.history = SubSeq(H, 1, Len(checkpoint.history))

HeadIsAnchor(file) == file # <<>> /\ file[1].body.kind = "Anchor"
HeadSlot(file) == IF HeadIsAnchor(file) THEN file[1].body.slot ELSE NoFile

\* Replay of a file from a checkpoint within it.
Behind(file, base) == SubSeq(file, 2 * Len(base) + 3 - file[1].seq, Len(file))

----------------------------------------------------------------------------
(* Reading back *)

\* Every number is even or odd.
LEMMA Halves ==
    ASSUME NEW n \in Nat
    PROVE  /\ n \div 2 \in Nat
           /\ n % 2 = 1 => n = 2 * (n \div 2) + 1 /\ (n + 1) \div 2 = n \div 2 + 1
           /\ n % 2 # 1 => n = 2 * (n \div 2) /\ (n + 1) \div 2 = n \div 2
OBVIOUS

\* The frames behind a checkpoint are the commands and reports that follow it.
LEMMA BehindFrames ==
    ASSUME NEW H \in Histories, NEW file, Tells(file, H),
           NEW n \in 0 .. Len(H), 2 * n + 1 >= file[1].seq, 2 * n + 1 <= LastOf(file),
           NEW base \in Histories, Len(base) = n
    PROVE  /\ Behind(file, base) \in Seq(Frames)
           /\ Len(Behind(file, base)) \in {2 * (Len(H) - n), 2 * (Len(H) - n) - 1}
           /\ Len(Behind(file, base)) = LastOf(file) - (2 * n + 1)
           /\ \A k \in 1 .. Len(H) - n :
                 /\ 2 * k - 1 <= Len(Behind(file, base)) =>
                        Behind(file, base)[2 * k - 1].body = CommandRecord(H[n + k])
                 /\ 2 * k <= Len(Behind(file, base)) =>
                        Behind(file, base)[2 * k].body = Report(H[n + k], n + k)
<1> DEFINE start == 2 * n + 3 - file[1].seq
           suffix == SubSeq(file, start, Len(file))
<1>9. Len(H) \in Nat /\ n \in Nat /\ n <= Len(H)
    BY DEF Histories
<1>1. /\ file \in Seq(Frames) /\ file # <<>> /\ Len(file) \in Nat /\ Len(file) > 0
      /\ file[1].seq \in Nat \ {0}
    <2>1. file \in Seq(Frames) /\ file # <<>>
        BY DEF Tells
    <2>2. Len(file) \in Nat /\ Len(file) > 0 /\ file[1] \in Frames
        BY <2>1
    <2> QED
        BY <2>1, <2>2 DEF Frames
<1>2. LastOf(file) = file[1].seq + Len(file) - 1
    BY <1>1 DEF LastOf
<1>3. start \in 2 .. Len(file) + 1
    BY <1>1, <1>2
<1> DEFINE from == file[1].seq
<1>0. start = 2 * n + 3 - from /\ from \in Nat /\ n \in Nat /\ start \in Nat
    BY <1>1, <1>3, <1>9
<1> HIDE DEF start
<1>4. /\ suffix \in Seq(Frames) /\ Len(suffix) = Len(file) - start + 1
      /\ \A i \in 1 .. Len(suffix) : suffix[i] = file[start + i - 1]
    BY <1>1, <1>3
<1> HIDE DEF suffix
<1>5. Len(suffix) = LastOf(file) - (2 * n + 1)
    <2>1. LastOf(file) = from + Len(file) - 1 /\ Len(file) \in Nat
        BY <1>1, <1>2
    <2>2. Len(suffix) = Len(file) - start + 1
        BY <1>4
    <2> HIDE DEF from
    <2> QED
        BY <1>0, <2>1, <2>2
<1>6. ASSUME NEW i \in 1 .. Len(suffix)
      PROVE  start + i - 1 \in 2 .. Len(file) /\ file[start + i - 1].seq = 2 * n + 1 + i
    <2>1. start + i - 1 \in 2 .. Len(file) /\ start + i - 1 \in 1 .. Len(file)
        BY SMTT(30), <1>1, <1>3, <1>4
    <2>2. \A j \in 1 .. Len(file) : file[j].seq = file[1].seq + j - 1
        BY DEF Tells
    <2>3. file[start + i - 1].seq = file[1].seq + (start + i - 1) - 1
        BY <2>1, <2>2
    <2>5. i \in Nat
        BY <1>1, <1>3, <1>4
    <2>4. from + (start + i - 1) - 1 = 2 * n + 1 + i
        <3> HIDE DEF from
        <3> QED
            BY <1>0, <2>5
    <2> QED
        BY <2>1, <2>3, <2>4
<1>7. Len(suffix) \in {2 * (Len(H) - n), 2 * (Len(H) - n) - 1}
    BY <1>5 DEF Tells, Histories
<1>8. ASSUME NEW k \in 1 .. Len(H) - n
      PROVE  /\ 2 * k - 1 <= Len(suffix) => suffix[2 * k - 1].body = CommandRecord(H[n + k])
             /\ 2 * k <= Len(suffix) => suffix[2 * k].body = Report(H[n + k], n + k)
    <2>1. n + k \in 1 .. Len(H)
        BY DEF Histories
    <2>2. ASSUME 2 * k - 1 <= Len(suffix) PROVE suffix[2 * k - 1].body = CommandRecord(H[n + k])
        <3>1. 2 * k - 1 \in 1 .. Len(suffix)
            BY <1>4, <2>2
        <3>2. /\ start + (2 * k - 1) - 1 \in 2 .. Len(file)
              /\ file[start + (2 * k - 1) - 1].seq = 2 * (n + k)
            <4>1. file[start + (2 * k - 1) - 1].seq = 2 * n + 1 + (2 * k - 1)
                BY <1>6, <3>1
            <4>2. 2 * n + 1 + (2 * k - 1) = 2 * (n + k) /\ k \in Nat
                BY <1>9
            <4> QED
                BY <1>6, <3>1, <4>1, <4>2
        <3>3. file[start + (2 * k - 1) - 1].body = CommandRecord(H[n + k])
            BY <2>1, <3>2 DEF Tells
        <3>4. suffix[2 * k - 1] = file[start + (2 * k - 1) - 1]
            BY <1>4, <3>1
        <3> QED
            BY <3>3, <3>4
    <2>3. ASSUME 2 * k <= Len(suffix) PROVE suffix[2 * k].body = Report(H[n + k], n + k)
        <3>1. 2 * k \in 1 .. Len(suffix)
            BY <1>4, <2>3
        <3>2. /\ start + (2 * k) - 1 \in 2 .. Len(file)
              /\ file[start + (2 * k) - 1].seq = 2 * (n + k) + 1
            <4>1. file[start + (2 * k) - 1].seq = 2 * n + 1 + (2 * k)
                BY <1>6, <3>1
            <4> QED
                BY <1>6, <1>9, <3>1, <4>1
        <3>3. file[start + (2 * k) - 1].body = Report(H[n + k], n + k)
            BY <2>1, <3>2 DEF Tells
        <3>4. suffix[2 * k] = file[start + (2 * k) - 1]
            BY <1>4, <3>1
        <3> QED
            BY <3>3, <3>4
    <2> QED
        BY <2>2, <2>3
<1> QED
    <2>1. Behind(file, base) = suffix
        BY DEF Behind, suffix, start
    <2> QED
        BY <1>4, <1>5, <1>7, <1>8, <2>1

\* What replay makes of the frames behind a checkpoint: the rest of the
\* history, up to a last command without its report.
LEMMA ReadBack ==
    ASSUME NEW H \in Histories, Distinct(H), NEW file, Tells(file, H),
           NEW base \in Histories, Len(base) <= Len(H), base = SubSeq(H, 1, Len(base)),
           2 * Len(base) + 1 >= file[1].seq, 2 * Len(base) + 1 <= LastOf(file)
    PROVE  /\ Alternates(Behind(file, base), base)
           /\ base \o CompletedIn(Behind(file, base)) =
                 IF LastOf(file) = 2 * Len(H) THEN SubSeq(H, 1, Len(H) - 1) ELSE H
           /\ DanglingIn(Behind(file, base)) =
                 IF LastOf(file) = 2 * Len(H) THEN H[Len(H)] ELSE NoFile
           /\ LastOf(file) = 2 * Len(H) => Len(H) > 0
<1> DEFINE n == Len(base)
           suffix == Behind(file, base)
           len == Len(suffix)
           rest == Len(H) - n
<1>1. /\ Len(H) \in Nat /\ n \in Nat /\ n <= Len(H) /\ n \in 0 .. Len(H)
      /\ \A i \in 1 .. n : base[i] = H[i]
    BY DEF Histories
<1>2. /\ suffix \in Seq(Frames) /\ len \in {2 * rest, 2 * rest - 1}
      /\ len = LastOf(file) - (2 * n + 1)
      /\ \A k \in 1 .. rest :
            /\ 2 * k - 1 <= len => suffix[2 * k - 1].body = CommandRecord(H[n + k])
            /\ 2 * k <= len => suffix[2 * k].body = Report(H[n + k], n + k)
    <2>1. /\ suffix \in Seq(Frames)
          /\ len \in {2 * rest, 2 * rest - 1} /\ len = LastOf(file) - (2 * n + 1)
        BY <1>1, BehindFrames
    <2>2. \A k \in 1 .. rest :
             /\ 2 * k - 1 <= len => suffix[2 * k - 1].body = CommandRecord(H[n + k])
             /\ 2 * k <= len => suffix[2 * k].body = Report(H[n + k], n + k)
        BY <1>1, BehindFrames
    <2> QED
        BY <2>1, <2>2
<1> HIDE DEF suffix
<1>3. len \in Nat /\ rest \in Nat
    BY <1>1, <1>2
<1>4. LastOf(file) \in {2 * Len(H), 2 * Len(H) + 1}
    BY DEF Tells
<1> HIDE DEF n, len
<1>5. LastOf(file) = len + 2 * n + 1
    <2>1. LastOf(file) \in Nat /\ len = LastOf(file) - (2 * n + 1)
        BY <1>1, <1>2, <1>4
    <2> QED
        BY <1>1, <2>1
<1>6. /\ LastOf(file) = 2 * Len(H) => len = 2 * rest - 1 /\ rest > 0 /\ Len(H) > 0
      /\ LastOf(file) # 2 * Len(H) => len = 2 * rest
    <2>1. rest = Len(H) - n /\ len + 2 * n + 1 = LastOf(file)
        BY <1>5
    <2>2. LastOf(file) = 2 * Len(H) \/ LastOf(file) = 2 * Len(H) + 1
        BY <1>4
    <2> HIDE DEF rest
    <2> DEFINE last == LastOf(file)
    <2> HIDE DEF last
    <2>3. /\ last = 2 * Len(H) => len = 2 * rest - 1 /\ rest > 0 /\ Len(H) > 0
          /\ last # 2 * Len(H) => len = 2 * rest
        <3>1. last = 2 * Len(H) \/ last = 2 * Len(H) + 1
            BY <2>2 DEF last
        <3>2. len + 2 * n + 1 = last
            BY <2>1 DEF last
        <3> QED
            BY <1>1, <1>3, <2>1, <3>1, <3>2
    <2> QED
        BY <2>3 DEF last
<1> HIDE DEF rest
<1>7. Alternates(suffix, base)
    <2> SUFFICES ASSUME NEW i \in 1 .. len
                 PROVE  IF i % 2 = 1
                        THEN /\ suffix[i].body.kind = "Command"
                             /\ suffix[i].body.cmd \notin Range(base)
                             /\ \A j \in 1 .. i - 1 : suffix[j].body.cmd # suffix[i].body.cmd
                        ELSE suffix[i].body = Report(suffix[i - 1].body.cmd,
                                                     n + (i + 1) \div 2)
        BY DEF Alternates, len, n
    <2>1. i \in Nat /\ i > 0 /\ i <= len
        BY <1>3
    \* The command at each place.
    <2>2. ASSUME NEW j \in 1 .. len
          PROVE  \E k \in 1 .. rest : (j = 2 * k - 1 \/ j = 2 * k)
                                      /\ suffix[j].body.cmd = H[n + k]
        <3>1. j \in Nat /\ j > 0 /\ j <= len
            BY <1>3
        <3>2. CASE j % 2 = 1
            <4> DEFINE k == j \div 2 + 1
            <4>1. j = 2 * k - 1 /\ k \in Nat /\ k > 0
                BY <3>1, <3>2, Halves
            <4> HIDE DEF k
            <4>2. k \in 1 .. rest
                BY <1>2, <1>3, <3>1, <4>1
            <4>3. suffix[j].body = CommandRecord(H[n + k])
                BY <1>2, <3>1, <4>1, <4>2
            <4> QED
                BY <4>1, <4>2, <4>3 DEF CommandRecord
        <3>3. CASE j % 2 # 1
            <4> DEFINE k == j \div 2
            <4>1. j = 2 * k /\ k \in Nat /\ k > 0
                BY <3>1, <3>3, Halves
            <4> HIDE DEF k
            <4>2. k \in 1 .. rest
                BY <1>2, <1>3, <3>1, <4>1
            <4>3. suffix[j].body = Report(H[n + k], n + k)
                BY <1>2, <3>1, <4>1, <4>2
            <4> QED
                BY <4>1, <4>2, <4>3 DEF Report
        <3> QED
            BY <3>2, <3>3
    <2>3. CASE i % 2 = 1
        <3> DEFINE k == i \div 2 + 1
        <3>1. i = 2 * k - 1 /\ k \in Nat /\ k > 0
            <4>1. i \div 2 \in Nat /\ i = 2 * (i \div 2) + 1
                BY <2>1, <2>3, Halves
            <4> QED
                BY <4>1
        <3> HIDE DEF k
        <3>2. k \in 1 .. rest
            BY <1>2, <1>3, <2>1, <3>1
        <3>3. suffix[i].body = CommandRecord(H[n + k])
            BY <1>2, <2>1, <3>1, <3>2
        <3>4. n + k \in 1 .. Len(H) /\ n + k > n
            BY <1>1, <3>2 DEF rest
        <3>5. H[n + k] \notin Range(base)
            <4> SUFFICES ASSUME NEW m \in 1 .. n, base[m] = H[n + k] PROVE FALSE
                BY DEF Range, n, Histories
            <4>1. m \in 1 .. Len(H) /\ H[m] = H[n + k] /\ m # n + k
                BY <1>1, <3>2, <3>4
            <4> QED
                BY <3>4, <4>1 DEF Distinct
        <3>6. ASSUME NEW j \in 1 .. i - 1 PROVE suffix[j].body.cmd # H[n + k]
            <4>1. j \in 1 .. len
                BY <1>3, <2>1
            <4>2. PICK m \in 1 .. rest : (j = 2 * m - 1 \/ j = 2 * m)
                                         /\ suffix[j].body.cmd = H[n + m]
                BY <2>2, <4>1
            <4>3. m \in Nat /\ m # k /\ j \in Nat /\ j < i
                BY <1>3, <2>1, <3>1, <4>2
            <4>4. n + m \in 1 .. Len(H) /\ n + m # n + k
                BY <1>1, <3>1, <4>3 DEF rest
            <4> QED
                BY <3>4, <4>2, <4>4 DEF Distinct
        <3> QED
            BY <2>3, <3>3, <3>5, <3>6 DEF CommandRecord
    <2>4. CASE i % 2 # 1
        <3> DEFINE k == i \div 2
        <3>1. i = 2 * k /\ k \in Nat /\ k > 0 /\ (i + 1) \div 2 = k
            BY <2>1, <2>4, Halves
        <3> HIDE DEF k
        <3>2. k \in 1 .. rest
            BY <1>2, <1>3, <2>1, <3>1
        <3>3. suffix[i].body = Report(H[n + k], n + k)
            BY <1>2, <2>1, <3>1, <3>2
        <3>4. suffix[i - 1].body = CommandRecord(H[n + k])
            <4>1. i - 1 = 2 * k - 1 /\ 2 * k - 1 <= len
                BY <2>1, <3>1, <1>3
            <4> QED
                BY <1>2, <3>2, <4>1
        <3> QED
            BY <2>4, <3>1, <3>3, <3>4 DEF CommandRecord
    <2> QED
        BY <2>3, <2>4

<1>8. len \div 2 = IF LastOf(file) = 2 * Len(H) THEN rest - 1 ELSE rest
    BY <1>3, <1>6
<1>9. /\ CompletedIn(suffix) \in Seq(Commands)
      /\ Len(CompletedIn(suffix)) = len \div 2
      /\ \A k \in 1 .. len \div 2 : CompletedIn(suffix)[k] = H[n + k]
    <2> DEFINE done == len \div 2
    <2>1. done \in Nat /\ done <= rest /\ 2 * done <= len
        BY <1>3, <1>6
    <2>2. CompletedIn(suffix) = [k \in 1 .. done |-> suffix[2 * k].body.cmd]
        BY DEF CompletedIn, len
    <2> HIDE DEF done
    <2>3. \A k \in 1 .. done : suffix[2 * k].body.cmd = H[n + k] /\ H[n + k] \in Commands
        <3> SUFFICES ASSUME NEW k \in 1 .. done
                     PROVE  suffix[2 * k].body.cmd = H[n + k] /\ H[n + k] \in Commands
            OBVIOUS
        <3>1. k \in 1 .. rest /\ 2 * k <= len /\ n + k \in 1 .. Len(H)
            BY <1>1, <1>3, <2>1 DEF rest
        <3>2. suffix[2 * k].body = Report(H[n + k], n + k)
            BY <1>2, <3>1
        <3> QED
            BY <3>1, <3>2 DEF Report, Histories
    <2>4. CompletedIn(suffix) = [k \in 1 .. done |-> H[n + k]]
        BY <2>2, <2>3
    <2>5. /\ CompletedIn(suffix) \in Seq(Commands) /\ Len(CompletedIn(suffix)) = done
          /\ \A k \in 1 .. done : CompletedIn(suffix)[k] = H[n + k]
        BY <2>1, <2>3, <2>4
    <2> QED
        BY <2>5 DEF done
<1>10. base \o CompletedIn(suffix) =
          IF LastOf(file) = 2 * Len(H) THEN SubSeq(H, 1, Len(H) - 1) ELSE H
    <2> DEFINE done == CompletedIn(suffix)
               whole == base \o done
               goal == IF LastOf(file) = 2 * Len(H) THEN SubSeq(H, 1, Len(H) - 1) ELSE H
    <2>1. /\ whole \in Seq(Commands) /\ Len(whole) = n + Len(done)
          /\ \A i \in 1 .. n : whole[i] = base[i]
          /\ \A i \in 1 .. Len(done) : whole[n + i] = done[i]
        <3> HIDE DEF done
        <3>1. base \in Seq(Commands) /\ done \in Seq(Commands)
            BY <1>9 DEF Histories, done
        <3> QED
            BY <3>1 DEF n
    <2>2. /\ goal \in Seq(Commands)
          /\ Len(goal) = n + len \div 2
          /\ \A i \in 1 .. Len(goal) : goal[i] = H[i]
        <3>1. CASE LastOf(file) = 2 * Len(H)
            <4>0. len \div 2 = Len(H) - n - 1 /\ Len(H) > 0
                BY <1>6, <1>8, <3>1 DEF rest
            <4>1. Len(H) - 1 \in 0 .. Len(H) /\ Len(H) - 1 = n + len \div 2
                BY <1>1, <4>0
            <4> QED
                BY <3>1, <4>1 DEF Histories
        <3>2. CASE LastOf(file) # 2 * Len(H)
            BY <1>1, <1>8, <3>2 DEF rest, Histories
        <3> QED
            BY <3>1, <3>2
    <2>3. \A i \in 1 .. Len(done) : whole[n + i] = H[n + i]
        BY <1>9, <2>1
    <2> HIDE DEF whole, goal, done
    <2>4. Len(whole) = Len(goal)
        BY <1>9, <2>1, <2>2 DEF done
    <2>5. ASSUME NEW i \in 1 .. Len(whole) PROVE whole[i] = goal[i]
        <3>0. len \div 2 \in Nat /\ Len(done) = len \div 2
            BY <1>3, <1>9 DEF done
        <3>1. CASE i <= n
            BY <1>1, <2>1, <2>2, <2>4, <3>1
        <3>2. CASE i > n
            <4>1. i - n \in 1 .. Len(done) /\ n + (i - n) = i
                BY <1>1, <2>1, <3>0, <3>2
            <4> QED
                BY <2>2, <2>3, <2>4, <4>1
        <3> QED
            BY <1>1, <2>1, <3>0, <3>1, <3>2
    <2>6. whole = goal
        BY <2>1, <2>2, <2>4, <2>5
    <2> QED
        BY <2>6 DEF whole, goal, done
<1>11. DanglingIn(suffix) = IF LastOf(file) = 2 * Len(H) THEN H[Len(H)] ELSE NoFile
    <2>1. CASE LastOf(file) = 2 * Len(H)
        <3>1. len = 2 * rest - 1 /\ rest \in 1 .. rest /\ n + rest = Len(H) /\ len % 2 = 1
            BY <1>1, <1>3, <1>6, <2>1 DEF rest
        <3>2. suffix[len].body = CommandRecord(H[Len(H)])
            BY SMTT(30), <1>2, <1>3, <3>1
        <3> QED
            BY <2>1, <3>1, <3>2 DEF DanglingIn, CommandRecord, len
    <2>2. CASE LastOf(file) # 2 * Len(H)
        <3>1. len % 2 # 1
            BY <1>3, <1>6, <2>2
        <3> QED
            BY <2>2, <3>1 DEF DanglingIn, len
    <2> QED
        BY <2>1, <2>2
<1> QED
    BY <1>6, <1>7, <1>10, <1>11 DEF suffix

\* The commands a reader of the file finds executed, and the one it finds
\* without a report.
BookOf(file, H) == IF LastOf(file) = 2 * Len(H) THEN SubSeq(H, 1, Len(H) - 1) ELSE H
DanglingOf(file, H) == IF LastOf(file) = 2 * Len(H) THEN H[Len(H)] ELSE NoFile

\* The slot that an anchor names holds the checkpoint the anchor was made for.
AnchorHolds(file, snapshots) ==
    HeadIsAnchor(file) =>
        /\ file[1].body.slot \in Targets
        /\ S!Read(snapshots[file[1].body.slot]) =
              [gen |-> file[1].body.gen, history |-> file[1].body.sum]

\* Or a power loss tore the file there.
Torn(file, snapshots) == HeadIsAnchor(file) /\ snapshots[file[1].body.slot] = Partial

\* What is read of a file, and of a file that stores a snapshot.
LEMMA FileFacts ==
    /\ \A f \in S!Files : /\ f # NoFile /\ f # Partial /\ S!IsValid(f)
                          /\ S!Read(f) \in S!Contents /\ S!Read(f) # NoFile
                          /\ S!Read(f).gen = f.gen /\ S!Read(f).history = f.history
    /\ \A c \in S!Contents, b \in BOOLEAN :
          /\ S!Stored(c, b) \in S!Files /\ S!Read(S!Stored(c, b)) = c
          /\ S!Stored(c, b).synced = b
    /\ S!Read(NoFile) = NoFile /\ S!Read(Partial) = NoFile
<1>1. ASSUME NEW f \in S!Files
      PROVE  /\ f # NoFile /\ f # Partial /\ S!IsValid(f)
             /\ S!Read(f) \in S!Contents /\ S!Read(f) # NoFile
             /\ S!Read(f).gen = f.gen /\ S!Read(f).history = f.history
    <2>1. f # NoFile /\ f # Partial /\ S!IsValid(f)
        BY ShardAssumption DEF ShardAssumption, S!IsValid
    <2>2. S!Read(f) = [gen |-> f.gen, history |-> f.history]
        BY <2>1 DEF S!Read
    <2>3. S!Read(f) \in S!Contents
        BY <2>2 DEF S!Contents, S!Files
    <2> QED
        BY <2>1, <2>2, <2>3, ShardAssumption DEF ShardAssumption
<1>2. ASSUME NEW c \in S!Contents, NEW b \in BOOLEAN
      PROVE  /\ S!Stored(c, b) \in S!Files /\ S!Read(S!Stored(c, b)) = c
             /\ S!Stored(c, b).synced = b
    <2>1. S!Stored(c, b) = [gen |-> c.gen, history |-> c.history, synced |-> b]
        BY DEF S!Stored
    <2>2. S!Stored(c, b) \in S!Files
        BY <2>1 DEF S!Files, S!Contents
    <2>3. S!Read(S!Stored(c, b)) = [gen |-> c.gen, history |-> c.history]
        BY <1>1, <2>1, <2>2 DEF S!Read
    <2> QED
        BY <2>1, <2>2, <2>3 DEF S!Contents
<1>3. S!Read(NoFile) = NoFile /\ S!Read(Partial) = NoFile
    BY DEF S!Read, S!IsValid
<1> QED
    BY <1>1, <1>2, <1>3

\* No opening gets past a slot that cannot be read.
LEMMA RefusesTorn ==
    ASSUME NEW file, NEW snapshots, Torn(file, snapshots), NEW withCheckpoint \in BOOLEAN
    PROVE  Recovery(file, snapshots, withCheckpoint).ok = FALSE
BY FileFacts DEF Recovery, Torn, HeadIsAnchor

\* The checkpoint at the head of a file ends at its sequence, within the history.
LEMMA HeadOf ==
    ASSUME NEW H \in Histories, NEW file, Tells(file, H)
    PROVE  /\ file \in Seq(Frames) /\ file # <<>> /\ Len(file) \in Nat \ {0}
           /\ file[1].seq \in Nat \ {0} /\ LastOf(file) = file[1].seq + Len(file) - 1
           /\ ~ HeadIsAnchor(file) => /\ file[1] = [seq |-> 1, body |-> Definition]
                                      /\ HeadSlot(file) = NoFile
           /\ HeadIsAnchor(file) =>
                 /\ file[1].body.slot \in {"A", "B"} /\ HeadSlot(file) = file[1].body.slot
                 /\ file[1].body \in Anchors
                 /\ file[1].body.kind = "Anchor"
                 /\ file[1].body.gen = file[1].seq
                 /\ CheckpointWithin([gen |-> file[1].body.gen, history |-> file[1].body.sum],
                                     H, LastOf(file))
<1>1. /\ file \in Seq(Frames) /\ file # <<>> /\ Len(file) \in Nat \ {0}
      /\ file[1].seq \in Nat \ {0}
    <2>1. file \in Seq(Frames) /\ file # <<>>
        BY DEF Tells
    <2>2. Len(file) \in Nat \ {0} /\ file[1] \in Frames
        BY <2>1
    <2> QED
        BY <2>1, <2>2 DEF Frames
<1>2. LastOf(file) = file[1].seq + Len(file) - 1
    BY <1>1 DEF LastOf
<1>3. CASE file[1] = [seq |-> 1, body |-> Definition]
    <2>1. ~ HeadIsAnchor(file)
        BY <1>3 DEF HeadIsAnchor, Definition
    <2> QED
        BY <1>1, <1>2, <1>3, <2>1 DEF HeadSlot
<1>4. ASSUME NEW s \in {"A", "B"}, NEW k \in 0 .. Len(H),
             file[1] = [seq |-> 2 * k + 1,
                        body |-> AnchorTo(s, [gen |-> 2 * k + 1, history |-> SubSeq(H, 1, k)])]
      PROVE  /\ HeadIsAnchor(file)
             /\ file[1].body.slot \in {"A", "B"}
             /\ file[1].body \in Anchors
             /\ file[1].body.kind = "Anchor"
             /\ file[1].body.gen = file[1].seq
             /\ CheckpointWithin([gen |-> file[1].body.gen, history |-> file[1].body.sum],
                                 H, LastOf(file))
    <2> DEFINE sum == SubSeq(H, 1, k)
    <2>1. /\ Len(H) \in Nat /\ k \in Nat /\ k <= Len(H) /\ sum \in Histories /\ Len(sum) = k
        BY DEF Histories
    <2> HIDE DEF sum
    <2>2. file[1].body = [kind |-> "Anchor", slot |-> s, gen |-> 2 * k + 1, sum |-> sum]
        BY <1>4 DEF AnchorTo, sum
    <2>3. file[1].seq = 2 * k + 1 /\ 2 * k + 1 \in Nat
        BY <1>4, <2>1
    <2>4. HeadIsAnchor(file)
        BY <1>1, <2>2 DEF HeadIsAnchor
    <2>5. file[1].body \in Anchors
        BY <2>1, <2>2, <2>3 DEF Anchors
    <2>6. CheckpointWithin([gen |-> 2 * k + 1, history |-> sum], H, LastOf(file))
        BY <1>1, <1>2, <2>1, <2>3 DEF CheckpointWithin, S!Contents, Histories, sum
    <2> QED
        BY <2>2, <2>3, <2>4, <2>5, <2>6
<1> QED
    BY <1>1, <1>2, <1>3, <1>4 DEF Tells, HeadSlot

\* Replay from a checkpoint within a file's history.
LEMMA ReadBackWithin ==
    ASSUME NEW H \in Histories, Distinct(H), NEW file, Tells(file, H),
           NEW checkpoint, CheckpointWithin(checkpoint, H, LastOf(file)),
           checkpoint.gen >= file[1].seq
    PROVE  LET suffix == BehindGeneration(file, checkpoint.gen) IN
           /\ Alternates(suffix, checkpoint.history)
           /\ checkpoint.history \o CompletedIn(suffix) = BookOf(file, H)
           /\ DanglingIn(suffix) = DanglingOf(file, H)
<1> DEFINE base == checkpoint.history
<1>1. /\ base \in Histories /\ Len(base) <= Len(H) /\ base = SubSeq(H, 1, Len(base))
      /\ Len(base) \in Nat
      /\ checkpoint.gen = 2 * Len(base) + 1 /\ checkpoint.gen <= LastOf(file)
    BY DEF CheckpointWithin, S!Contents, Histories
<1>2. file[1].seq \in Nat
    BY HeadOf
<1> HIDE DEF base
<1>3. BehindGeneration(file, checkpoint.gen) = Behind(file, base)
    <2>1. checkpoint.gen - file[1].seq + 2 = 2 * Len(base) + 3 - file[1].seq
        BY <1>1, <1>2
    <2> QED
        BY <2>1 DEF BehindGeneration, Behind
<1>4. /\ Alternates(Behind(file, base), base)
      /\ base \o CompletedIn(Behind(file, base)) =
            IF LastOf(file) = 2 * Len(H) THEN SubSeq(H, 1, Len(H) - 1) ELSE H
      /\ DanglingIn(Behind(file, base)) =
            IF LastOf(file) = 2 * Len(H) THEN H[Len(H)] ELSE NoFile
    BY <1>1, ReadBack
<1> QED
    BY <1>3, <1>4 DEF BookOf, DanglingOf, base

\* Replay from the definition.
LEMMA ReadBackWhole ==
    ASSUME NEW H \in Histories, Distinct(H), NEW file, Tells(file, H), ~ HeadIsAnchor(file)
    PROVE  /\ Alternates(Tail(file), <<>>)
           /\ <<>> \o CompletedIn(Tail(file)) = BookOf(file, H)
           /\ DanglingIn(Tail(file)) = DanglingOf(file, H)
<1>1. /\ file \in Seq(Frames) /\ file # <<>> /\ file[1] = [seq |-> 1, body |-> Definition]
      /\ Len(file) \in Nat \ {0} /\ LastOf(file) = file[1].seq + Len(file) - 1
    BY HeadOf
<1>2. Tail(file) = Behind(file, <<>>)
    <2>1. 2 * Len(<<>>) + 3 - file[1].seq = 2
        BY <1>1
    <2>2. Tail(file) = SubSeq(file, 2, Len(file))
        BY <1>1
    <2> QED
        BY <2>1, <2>2 DEF Behind
<1>3. /\ <<>> \in Histories /\ Len(<<>>) <= Len(H) /\ <<>> = SubSeq(H, 1, Len(<<>>))
      /\ 2 * Len(<<>>) + 1 >= file[1].seq /\ 2 * Len(<<>>) + 1 <= LastOf(file)
    BY <1>1 DEF Histories
<1>4. /\ Alternates(Behind(file, <<>>), <<>>)
      /\ <<>> \o CompletedIn(Behind(file, <<>>)) =
            IF LastOf(file) = 2 * Len(H) THEN SubSeq(H, 1, Len(H) - 1) ELSE H
      /\ DanglingIn(Behind(file, <<>>)) =
            IF LastOf(file) = 2 * Len(H) THEN H[Len(H)] ELSE NoFile
    BY <1>3, ReadBack
<1> QED
    BY <1>2, <1>4 DEF BookOf, DanglingOf

\* What an opening that succeeds comes to, and which one does succeed.
LEMMA RecoveryReads ==
    ASSUME NEW H \in Histories, Distinct(H), NEW file, Tells(file, H),
           NEW snapshots, AnchorHolds(file, snapshots),
           "base" \in Targets /\ S!Read(snapshots["base"]) # NoFile =>
               S!Read(snapshots["base"]) \in S!Contents
               /\ CheckpointWithin(S!Read(snapshots["base"]), H, LastOf(file)),
           NEW withCheckpoint \in BOOLEAN
    PROVE  LET recovered == Recovery(file, snapshots, withCheckpoint) IN
           /\ recovered.ok =>
                 /\ recovered.book = BookOf(file, H)
                 /\ recovered.dangling = DanglingOf(file, H)
                 /\ recovered.slot = HeadSlot(file)
           /\ (withCheckpoint <=> HeadIsAnchor(file)) => recovered.ok
           /\ HeadIsAnchor(file) /\ ~ withCheckpoint => ~ recovered.ok
<1> DEFINE head == file[1].body
           checkpoint == IF head.kind = "Anchor" THEN S!Read(snapshots[head.slot])
                         ELSE IF withCheckpoint THEN Base(snapshots) ELSE NoFile
           base == IF checkpoint = NoFile THEN <<>> ELSE checkpoint.history
           suffix == IF checkpoint = NoFile THEN Tail(file)
                     ELSE BehindGeneration(file, checkpoint.gen)
           opens == /\ file # <<>>
                    /\ head.kind \in {"Definition", "Anchor"}
                    /\ (head.kind = "Anchor") => withCheckpoint
                    /\ withCheckpoint => checkpoint # NoFile
                    /\ (head.kind = "Anchor") =>
                           CheckpointOf(checkpoint) = [gen |-> head.gen, history |-> head.sum]
                    /\ checkpoint # NoFile => /\ PrefixAgrees(Tail(file), checkpoint)
                                              /\ file[Len(file)].seq >= checkpoint.gen
                    /\ Alternates(suffix, base)
           recovered == Recovery(file, snapshots, withCheckpoint)
<1>1. recovered = IF opens
                  THEN [ok |-> TRUE, book |-> base \o CompletedIn(suffix),
                        dangling |-> DanglingIn(suffix),
                        slot |-> IF head.kind = "Anchor" THEN head.slot ELSE NoFile]
                  ELSE [ok |-> FALSE, book |-> <<>>, dangling |-> NoFile, slot |-> NoFile]
    BY DEF Recovery
<1>2. /\ file \in Seq(Frames) /\ file # <<>> /\ Len(file) \in Nat \ {0}
      /\ file[1].seq \in Nat \ {0} /\ LastOf(file) = file[1].seq + Len(file) - 1
      /\ HeadIsAnchor(file) <=> head.kind = "Anchor"
    BY HeadOf DEF HeadIsAnchor
<1>3. HeadSlot(file) = IF head.kind = "Anchor" THEN head.slot ELSE NoFile
    BY <1>2 DEF HeadSlot
<1>4. CASE HeadIsAnchor(file)
    <2>1. checkpoint = [gen |-> head.gen, history |-> head.sum]
        BY <1>2, <1>4 DEF AnchorHolds
    <2>2. /\ CheckpointWithin(checkpoint, H, LastOf(file)) /\ checkpoint.gen = file[1].seq
          /\ checkpoint # NoFile
        <3>1. CheckpointWithin([gen |-> head.gen, history |-> head.sum], H, LastOf(file))
              /\ head.gen = file[1].seq
            BY <1>4, HeadOf
        <3> HIDE DEF checkpoint
        <3>2. CheckpointWithin(checkpoint, H, LastOf(file)) /\ checkpoint.gen = file[1].seq
            BY <2>1, <3>1
        <3> QED
            BY <3>2, ShardAssumption DEF ShardAssumption, CheckpointWithin
    <2> HIDE DEF checkpoint
    <2>3. /\ Alternates(suffix, base)
          /\ base \o CompletedIn(suffix) = BookOf(file, H)
          /\ DanglingIn(suffix) = DanglingOf(file, H)
        <3>1. checkpoint.gen >= file[1].seq
            BY <1>2, <2>2
        <3> QED
            BY <2>2, <3>1, ReadBackWithin
    <2>4. PrefixAgrees(Tail(file), checkpoint)
        <3>1. \A i \in 1 .. Len(Tail(file)) :
                 Tail(file)[i] = file[i + 1] /\ i \in Nat /\ i > 0 /\ i + 1 \in 1 .. Len(file)
            BY <1>2
        <3>2. ASSUME NEW i \in 1 .. Len(Tail(file)) PROVE ~ Tail(file)[i].seq <= checkpoint.gen
            <4>1. Tail(file)[i].seq = file[1].seq + (i + 1) - 1
                BY <3>1 DEF Tells
            <4> QED
                BY <1>2, <2>2, <3>1, <4>1
        <3> QED
            BY <3>2 DEF PrefixAgrees
    <2>5. file[Len(file)].seq >= checkpoint.gen
        <3>1. file[Len(file)].seq = file[1].seq + Len(file) - 1
            BY <1>2 DEF Tells
        <3> QED
            BY <1>2, <2>2, <3>1
    <2>6. CheckpointOf(checkpoint) = [gen |-> head.gen, history |-> head.sum]
        BY <2>1 DEF CheckpointOf
    <2>7. opens <=> withCheckpoint
        <3> HIDE DEF suffix, base
        <3> QED
            BY <1>2, <1>4, <2>2, <2>3, <2>4, <2>5, <2>6
    <2> HIDE DEF opens, suffix, base
    <2> QED
        BY <1>1, <1>2, <1>3, <1>4, <2>3, <2>7
<1>5. CASE ~ HeadIsAnchor(file)
    <2>0. file[1] = [seq |-> 1, body |-> Definition] /\ head.kind = "Definition"
        <3>1. file[1] = [seq |-> 1, body |-> Definition]
            BY <1>5, HeadOf
        <3> QED
            BY <3>1 DEF Definition
    <2>1. CASE ~ withCheckpoint
        <3>1. checkpoint = NoFile /\ base = <<>> /\ suffix = Tail(file)
            BY <1>2, <1>5, <2>1
        <3>2. /\ Alternates(suffix, base)
              /\ base \o CompletedIn(suffix) = BookOf(file, H)
              /\ DanglingIn(suffix) = DanglingOf(file, H)
            BY <1>5, <3>1, ReadBackWhole
        <3> HIDE DEF checkpoint, base, suffix
        <3>3. opens
            BY <1>2, <1>5, <2>0, <2>1, <3>1, <3>2
        <3> HIDE DEF opens
        <3> QED
            BY <1>1, <1>2, <1>3, <1>5, <2>1, <3>2, <3>3
    <2>2. CASE withCheckpoint
        <3>1. checkpoint = Base(snapshots)
            BY <1>2, <1>5, <2>2
        <3>2. ASSUME opens
              PROVE  /\ base \o CompletedIn(suffix) = BookOf(file, H)
                     /\ DanglingIn(suffix) = DanglingOf(file, H)
            <4>1. checkpoint # NoFile
                BY <2>2, <3>2
            <4>2. checkpoint = S!Read(snapshots["base"]) /\ "base" \in Targets
                BY <3>1, <4>1 DEF Base
            <4> HIDE DEF checkpoint
            <4>3. CheckpointWithin(checkpoint, H, LastOf(file))
                BY <4>1, <4>2
            <4>4. checkpoint.gen >= file[1].seq
                BY <2>0, <4>3 DEF CheckpointWithin, S!Contents, Histories
            <4> QED
                BY <4>1, <4>3, <4>4, ReadBackWithin
        <3> HIDE DEF opens, checkpoint, base, suffix
        <3> QED
            BY <1>1, <1>2, <1>3, <1>5, <2>2, <3>2
    <2> QED
        BY <2>1, <2>2
<1> QED
    BY <1>4, <1>5

\* The log that a file stands for is its history: what was executed, and the
\* command that lacks its report.
LEMMA ReopensTo ==
    ASSUME NEW H \in Histories, Distinct(H), NEW file, FileTells(file, H),
           NEW snapshots, AnchorHolds(file, snapshots),
           "base" \in Targets /\ S!Read(snapshots["base"]) # NoFile =>
               S!Read(snapshots["base"]) \in S!Contents
               /\ CheckpointWithin(S!Read(snapshots["base"]), H, LastOf(file))
    PROVE  LET recovered == Reopened(file, snapshots) IN
           /\ recovered.ok
           /\ recovered.book = BookOf(file, H)
           /\ recovered.book \o (IF recovered.dangling = NoFile THEN <<>>
                                 ELSE <<recovered.dangling>>) = H
<1>1. CASE file = <<>>
    <2>1. H = <<>> /\ Reopened(file, snapshots) =
                         [ok |-> TRUE, book |-> <<>>, dangling |-> NoFile, slot |-> NoFile]
        BY <1>1 DEF FileTells, Reopened
    <2>2. BookOf(file, H) = <<>>
        BY <1>1, <2>1 DEF BookOf
    <2> QED
        BY <2>1, <2>2
<1>2. CASE file # <<>>
    <2>1. Tells(file, H)
        BY <1>2 DEF FileTells
    <2> DEFINE recovered == Reopened(file, snapshots)
    <2>2. /\ recovered.ok /\ recovered.book = BookOf(file, H)
          /\ recovered.dangling = DanglingOf(file, H)
        <3>1. CASE HeadIsAnchor(file)
            <4>1. ~ Recovery(file, snapshots, FALSE).ok
                BY <2>1, <3>1, RecoveryReads
            <4>2. /\ Recovery(file, snapshots, TRUE).ok
                  /\ Recovery(file, snapshots, TRUE).book = BookOf(file, H)
                  /\ Recovery(file, snapshots, TRUE).dangling = DanglingOf(file, H)
                BY <2>1, <3>1, RecoveryReads
            <4> QED
                BY <1>2, <4>1, <4>2 DEF Reopened
        <3>2. CASE ~ HeadIsAnchor(file)
            <4>1. /\ Recovery(file, snapshots, FALSE).ok
                  /\ Recovery(file, snapshots, FALSE).book = BookOf(file, H)
                  /\ Recovery(file, snapshots, FALSE).dangling = DanglingOf(file, H)
                BY <2>1, <3>2, RecoveryReads
            <4> QED
                BY <1>2, <4>1 DEF Reopened
        <3> QED
            BY <3>1, <3>2
    <2> HIDE DEF recovered
    <2>3. BookOf(file, H) \o (IF DanglingOf(file, H) = NoFile THEN <<>>
                              ELSE <<DanglingOf(file, H)>>) = H
        <3>1. CASE LastOf(file) = 2 * Len(H)
            <4>1. Len(H) \in Nat /\ Len(H) > 0
                <5>1. LastOf(file) > 0
                    <6>1. /\ file[1].seq \in Nat \ {0} /\ Len(file) \in Nat \ {0}
                          /\ LastOf(file) = file[1].seq + Len(file) - 1
                        BY <2>1, HeadOf
                    <6> QED
                        BY <6>1
                <5> QED
                    BY <3>1, <5>1 DEF Histories
            <4>2. H[Len(H)] \in Commands /\ H[Len(H)] # NoFile
                BY <4>1, ShardAssumption DEF ShardAssumption, Histories
            <4>3. SubSeq(H, 1, Len(H) - 1) \o <<H[Len(H)]>> = H
                <5> DEFINE front == SubSeq(H, 1, Len(H) - 1)
                           whole == front \o <<H[Len(H)]>>
                <5>1. /\ front \in Seq(Commands) /\ Len(front) = Len(H) - 1
                      /\ \A i \in 1 .. Len(H) - 1 : front[i] = H[i]
                    <6> DEFINE m == Len(H) - 1
                    <6>1. H \in Seq(Commands) /\ m \in 0 .. Len(H)
                        BY <4>1 DEF Histories
                    <6> HIDE DEF m
                    <6>2. /\ SubSeq(H, 1, m) \in Seq(Commands) /\ Len(SubSeq(H, 1, m)) = m
                          /\ \A i \in 1 .. m : SubSeq(H, 1, m)[i] = H[i]
                        BY <6>1
                    <6> QED
                        BY <6>2 DEF m
                <5> HIDE DEF front
                <5>2. /\ whole \in Seq(Commands) /\ Len(whole) = Len(H)
                      /\ \A i \in 1 .. Len(H) - 1 : whole[i] = front[i]
                      /\ whole[Len(H)] = H[Len(H)]
                    BY <4>1, <4>2, <5>1
                <5> HIDE DEF whole
                <5>3. \A i \in 1 .. Len(H) : whole[i] = H[i]
                    <6> TAKE i \in 1 .. Len(H)
                    <6>1. i = Len(H) \/ i \in 1 .. Len(H) - 1
                        BY <4>1
                    <6> QED
                        BY <5>1, <5>2, <6>1
                <5>4. whole = H
                    BY <5>2, <5>3 DEF Histories
                <5> QED
                    BY <5>4 DEF whole, front
            <4> QED
                BY <3>1, <4>2, <4>3 DEF BookOf, DanglingOf
        <3>2. CASE LastOf(file) # 2 * Len(H)
            BY <3>2 DEF BookOf, DanglingOf, Histories
        <3> QED
            BY <3>1, <3>2
    <2> QED
        BY <2>2, <2>3 DEF recovered
<1> QED
    BY <1>1, <1>2

----------------------------------------------------------------------------
(* Files that grow, fall back and are cut over *)

\* A history that begins like another one, `kept' commands at least.
Begins(H, G, kept) ==
    kept <= Len(H) /\ kept <= Len(G) /\ \A i \in 1 .. kept : G[i] = H[i]

\* The frame that a history asks for next goes behind the last one.
LEMMA TellsMore ==
    ASSUME NEW H \in Histories, NEW G \in Histories, NEW file, Tells(file, H),
           Begins(H, G, Len(H)), NEW body \in Bodies,
           LastOf(file) + 1 \in {2 * Len(G), 2 * Len(G) + 1},
           \A k \in 1 .. Len(G) :
              /\ LastOf(file) + 1 = 2 * k => body = CommandRecord(G[k])
              /\ LastOf(file) + 1 = 2 * k + 1 => body = Report(G[k], k)
    PROVE  LET more == file \o <<[seq |-> LastOf(file) + 1, body |-> body]>> IN
           /\ Tells(more, G) /\ LastOf(more) = LastOf(file) + 1
           /\ more[1] = file[1] /\ Len(more) = Len(file) + 1
<1> DEFINE f == [seq |-> LastOf(file) + 1, body |-> body]
           more == file \o <<f>>
<1>1. /\ file \in Seq(Frames) /\ file # <<>> /\ Len(file) \in Nat \ {0}
      /\ file[1].seq \in Nat \ {0} /\ LastOf(file) = file[1].seq + Len(file) - 1
    BY HeadOf
<1>2. f \in Frames /\ f.seq = file[1].seq + Len(file) /\ f.body = body
      /\ f.seq = LastOf(file) + 1
    <2>1. LastOf(file) + 1 \in Nat \ {0} /\ LastOf(file) + 1 = file[1].seq + Len(file)
        BY <1>1
    <2> QED
        BY <2>1 DEF Frames
<1>3. Len(H) \in Nat /\ Len(G) \in Nat /\ Len(H) <= Len(G) /\ \A i \in 1 .. Len(H) : G[i] = H[i]
    BY DEF Histories, Begins
<1> HIDE DEF f
<1>4. /\ more \in Seq(Frames) /\ Len(more) = Len(file) + 1 /\ more # <<>>
      /\ more[1] = file[1]
      /\ \A i \in 1 .. Len(file) : more[i] = file[i]
      /\ more[Len(file) + 1] = f
    <2>1. <<f>> \in Seq(Frames) /\ Len(<<f>>) = 1 /\ <<f>>[1] = f
        BY <1>2
    <2>2. /\ more \in Seq(Frames) /\ Len(more) = Len(file) + 1
          /\ \A i \in 1 .. Len(file) : more[i] = file[i]
          /\ more[Len(file) + 1] = f
        BY <1>1, <2>1
    <2> HIDE DEF more
    <2> QED
        BY <1>1, <2>2
<1> HIDE DEF more
<1>5. LastOf(more) = LastOf(file) + 1
    <2>1. LastOf(more) = file[1].seq + (Len(file) + 1) - 1
        BY <1>4 DEF LastOf
    <2> QED
        BY <1>1, <2>1
<1>6. ASSUME NEW i \in 1 .. Len(more) PROVE more[i].seq = more[1].seq + i - 1
    <2>1. i \in 1 .. Len(file) \/ i = Len(file) + 1
        BY <1>1, <1>4
    <2>2. CASE i \in 1 .. Len(file)
        BY <1>4, <2>2 DEF Tells
    <2>3. CASE i = Len(file) + 1
        BY <1>1, <1>2, <1>4, <2>3
    <2> QED
        BY <2>1, <2>2, <2>3
<1>7. ASSUME NEW i \in 2 .. Len(more), NEW k \in 1 .. Len(G)
      PROVE  /\ more[i].seq = 2 * k => more[i].body = CommandRecord(G[k])
             /\ more[i].seq = 2 * k + 1 => more[i].body = Report(G[k], k)
    <2>1. i \in 2 .. Len(file) \/ i = Len(file) + 1
        BY <1>1, <1>4
    <2>2. CASE i \in 2 .. Len(file)
        <3>1. more[i] = file[i] /\ file[i].seq = file[1].seq + i - 1 /\ i \in Nat /\ i <= Len(file)
            BY <1>1, <1>4, <2>2 DEF Tells
        <3>2. file[i].seq <= LastOf(file)
            BY <1>1, <3>1
        <3>3. LastOf(file) <= 2 * Len(H) + 1
            BY <1>3 DEF Tells
        <3>4. k \in Nat /\ k > 0
            BY <1>3
        <3>5. CASE k <= Len(H)
            <4>1. k \in 1 .. Len(H) /\ G[k] = H[k]
                BY <1>3, <3>4, <3>5
            <4> QED
                BY <2>2, <3>1, <4>1 DEF Tells
        <3>6. CASE k > Len(H)
            <4>1. file[i].seq # 2 * k /\ file[i].seq # 2 * k + 1
                <5> DEFINE s == file[i].seq
                           last == LastOf(file)
                <5>1. s \in Nat /\ last \in Nat /\ s <= last /\ last <= 2 * Len(H) + 1
                    BY SMTT(30), <1>1, <3>1, <3>2, <3>3
                <5> HIDE DEF s, last
                <5>2. s # 2 * k /\ s # 2 * k + 1
                    BY <1>3, <3>4, <3>6, <5>1
                <5> QED
                    BY <5>2 DEF s
            <4> QED
                BY <3>1, <4>1
        <3> QED
            BY <1>3, <3>4, <3>5, <3>6
    <2>3. CASE i = Len(file) + 1
        BY <1>2, <1>4, <2>3
    <2> QED
        BY <2>1, <2>2, <2>3
<1>8. \/ more[1] = [seq |-> 1, body |-> Definition]
      \/ \E s \in {"A", "B"}, k \in 0 .. Len(G) :
            more[1] = [seq |-> 2 * k + 1,
                       body |-> AnchorTo(s, [gen |-> 2 * k + 1, history |-> SubSeq(G, 1, k)])]
    <2>1. CASE file[1] = [seq |-> 1, body |-> Definition]
        BY <1>4, <2>1
    <2>2. ASSUME NEW s \in {"A", "B"}, NEW k \in 0 .. Len(H),
                 file[1] = [seq |-> 2 * k + 1,
                            body |-> AnchorTo(s, [gen |-> 2 * k + 1, history |-> SubSeq(H, 1, k)])]
          PROVE  <1>8!2
        <3>1. k \in 0 .. Len(G) /\ SubSeq(G, 1, k) = SubSeq(H, 1, k)
            BY <1>3 DEF Histories
        <3> QED
            BY <1>4, <2>2, <3>1
    <2> QED
        BY <2>1, <2>2 DEF Tells
<1> QED
    BY <1>4, <1>5, <1>6, <1>7, <1>8 DEF Tells, more, f

\* A log that holds the definition tells nothing yet.
LEMMA TellsNothing ==
    LET file == <<[seq |-> 1, body |-> Definition]>> IN
    Tells(file, <<>>) /\ LastOf(file) = 1 /\ ~ HeadIsAnchor(file)
<1> DEFINE f == [seq |-> 1, body |-> Definition]
<1>1. f \in Frames /\ f.seq = 1 /\ f.body.kind # "Anchor"
    BY DEF Frames, Bodies, Definition
<1>2. f = [seq |-> 1, body |-> Definition]
    OBVIOUS
<1> HIDE DEF f
<1>3. <<f>> \in Seq(Frames) /\ Len(<<f>>) = 1 /\ <<f>>[1] = f /\ <<f>> # <<>>
    BY <1>1
<1>4. Tells(<<f>>, <<>>) /\ LastOf(<<f>>) = 1 /\ ~ HeadIsAnchor(<<f>>)
    BY <1>1, <1>2, <1>3 DEF Tells, LastOf, HeadIsAnchor
<1> QED
    BY <1>4 DEF f

\* What a crash leaves of a file tells what its frames number.
LEMMA TellsLess ==
    ASSUME NEW H \in Histories, NEW file, Tells(file, H), NEW kept \in 1 .. Len(file)
    PROVE  LET less == SubSeq(file, 1, kept)
               n == (file[1].seq + kept - 1) \div 2 IN
           /\ n \in 0 .. Len(H)
           /\ Tells(less, SubSeq(H, 1, n)) /\ LastOf(less) = file[1].seq + kept - 1
           /\ less[1] = file[1] /\ Len(less) = kept
<1> DEFINE less == SubSeq(file, 1, kept)
           last == file[1].seq + kept - 1
           n == last \div 2
           G == SubSeq(H, 1, n)
<1>1. /\ file \in Seq(Frames) /\ file # <<>> /\ Len(file) \in Nat \ {0}
      /\ file[1].seq \in Nat \ {0} /\ LastOf(file) = file[1].seq + Len(file) - 1
    BY HeadOf
<1>2. last \in Nat /\ last <= LastOf(file) /\ kept \in Nat /\ kept > 0 /\ kept <= Len(file)
    BY <1>1
<1>3. LastOf(file) <= 2 * Len(H) + 1 /\ Len(H) \in Nat /\ LastOf(file) \in Nat
    BY DEF Tells, Histories
<1>10. last = file[1].seq + kept - 1
    OBVIOUS
<1> HIDE DEF last
<1>4. n \in Nat /\ (last = 2 * n \/ last = 2 * n + 1)
    BY <1>2, Halves
<1> HIDE DEF n
<1>5. n \in 0 .. Len(H)
    <2> DEFINE whole == LastOf(file)
    <2>1. last <= whole /\ whole <= 2 * Len(H) + 1 /\ whole \in Nat
        BY <1>2, <1>3
    <2> HIDE DEF whole
    <2> QED
        BY <1>2, <1>3, <1>4, <2>1
<1>6. G \in Histories /\ Len(G) = n /\ \A i \in 1 .. n : G[i] = H[i]
    BY <1>5 DEF Histories
<1> HIDE DEF G
<1>7. /\ less \in Seq(Frames) /\ Len(less) = kept /\ less # <<>> /\ less[1] = file[1]
      /\ \A i \in 1 .. kept : less[i] = file[i]
    <2>1. /\ less \in Seq(Frames) /\ Len(less) = kept
          /\ \A i \in 1 .. kept : less[i] = file[i]
        BY <1>1, <1>2
    <2> HIDE DEF less
    <2> QED
        BY <1>2, <2>1
<1> HIDE DEF less
<1>8. LastOf(less) = last
    BY <1>7, <1>10 DEF LastOf
<1>9. Tells(less, G)
    <2>1. \A i \in 1 .. Len(less) : less[i].seq = less[1].seq + i - 1
        BY <1>2, <1>7 DEF Tells
    <2>2. ASSUME NEW i \in 2 .. Len(less), NEW k \in 1 .. Len(G)
          PROVE  /\ less[i].seq = 2 * k => less[i].body = CommandRecord(G[k])
                 /\ less[i].seq = 2 * k + 1 => less[i].body = Report(G[k], k)
        <3>1. /\ i \in 2 .. Len(file) /\ less[i] = file[i]
              /\ k \in 1 .. Len(H) /\ G[k] = H[k]
            BY <1>2, <1>3, <1>5, <1>6, <1>7
        <3> QED
            BY <3>1 DEF Tells
    <2>3. \/ less[1] = [seq |-> 1, body |-> Definition]
          \/ \E s \in {"A", "B"}, k \in 0 .. Len(G) :
                less[1] = [seq |-> 2 * k + 1,
                           body |-> AnchorTo(s, [gen |-> 2 * k + 1, history |-> SubSeq(G, 1, k)])]
        <3>1. CASE file[1] = [seq |-> 1, body |-> Definition]
            BY <1>7, <3>1
        <3>2. ASSUME NEW s \in {"A", "B"}, NEW k \in 0 .. Len(H),
                     file[1] = [seq |-> 2 * k + 1,
                                body |-> AnchorTo(s, [gen |-> 2 * k + 1, history |-> SubSeq(H, 1, k)])]
              PROVE  <2>3!2
            <4>1. 2 * k + 1 <= last /\ k \in Nat
                BY <1>2, <1>10, <3>2
            <4>2. k \in 0 .. Len(G)
                BY <1>4, <1>6, <4>1
            <4>3. SubSeq(G, 1, k) = SubSeq(H, 1, k)
                BY <1>3, <1>5, <1>6, <4>1, <4>2 DEF Histories
            <4> QED
                BY <1>7, <3>2, <4>2, <4>3
        <3> QED
            BY <3>1, <3>2 DEF Tells
    <2>4. LastOf(less) \in {2 * Len(G), 2 * Len(G) + 1}
        BY <1>4, <1>6, <1>8
    <2> QED
        BY <1>7, <2>1, <2>2, <2>3, <2>4 DEF Tells
<1> QED
    BY <1>5, <1>7, <1>8, <1>9, <1>10 DEF less, G, n, last

\* A cutover takes away frames the checkpoint stands for, and tells the same.
LEMMA TellsCut ==
    ASSUME NEW H \in Histories, NEW file, Tells(file, H),
           NEW checkpoint, CheckpointWithin(checkpoint, H, LastOf(file)),
           NEW at \in 1 .. Len(file), file[1].seq + at - 1 = checkpoint.gen,
           NEW s \in {"A", "B"}
    PROVE  LET cut == <<[seq |-> checkpoint.gen, body |-> AnchorTo(s, checkpoint)]>>
                         \o SubSeq(file, at + 1, Len(file)) IN
           /\ Tells(cut, H) /\ LastOf(cut) = LastOf(file)
           /\ cut[1] = [seq |-> checkpoint.gen, body |-> AnchorTo(s, checkpoint)]
<1> DEFINE k == Len(checkpoint.history)
           anchor == AnchorTo(s, checkpoint)
           f == [seq |-> checkpoint.gen, body |-> anchor]
           rest == SubSeq(file, at + 1, Len(file))
           cut == <<f>> \o rest
<1>1. /\ file \in Seq(Frames) /\ file # <<>> /\ Len(file) \in Nat \ {0}
      /\ file[1].seq \in Nat \ {0} /\ LastOf(file) = file[1].seq + Len(file) - 1
    BY HeadOf
<1>2. /\ checkpoint.gen = 2 * k + 1 /\ k \in Nat /\ k <= Len(H) /\ Len(H) \in Nat
      /\ checkpoint.history = SubSeq(H, 1, k) /\ checkpoint.history \in Histories
    BY DEF CheckpointWithin, S!Contents, Histories
<1>3. /\ anchor = AnchorTo(s, [gen |-> 2 * k + 1, history |-> SubSeq(H, 1, k)])
      /\ anchor.kind = "Anchor"
    BY <1>2 DEF AnchorTo
<1>4. anchor \in Anchors
    BY <1>2 DEF AnchorTo, Anchors
<1> HIDE DEF anchor, k
<1>5. f \in Frames /\ f.seq = 2 * k + 1 /\ f.body = anchor
    BY <1>2, <1>4 DEF Frames, Bodies
<1>6. /\ rest \in Seq(Frames) /\ Len(rest) = Len(file) - at
      /\ \A i \in 1 .. Len(file) - at : rest[i] = file[at + i]
    BY SMTT(30), <1>1
<1>12. f = [seq |-> 2 * k + 1, body |-> anchor]
    BY <1>2
<1> HIDE DEF f, rest
<1>7. /\ cut \in Seq(Frames) /\ cut # <<>> /\ Len(cut) = Len(file) - at + 1
      /\ cut[1] = f
      /\ \A i \in 2 .. Len(file) - at + 1 : cut[i] = rest[i - 1]
    <2>1. <<f>> \in Seq(Frames) /\ Len(<<f>>) = 1 /\ <<f>>[1] = f
        BY <1>5
    <2>0. rest \in Seq(Frames) /\ Len(rest) \in Nat
        BY <1>6
    <2>4. cut \in Seq(Frames) /\ Len(cut) = 1 + Len(rest)
        BY <2>0, <2>1
    <2>5. cut[1] = f
        BY <2>0, <2>1
    <2>6. \A i \in 1 .. Len(rest) : cut[1 + i] = rest[i]
        BY <2>0, <2>1
    <2>2. /\ cut \in Seq(Frames) /\ Len(cut) = 1 + Len(rest)
          /\ cut[1] = f
          /\ \A i \in 1 .. Len(rest) : cut[1 + i] = rest[i]
        BY <2>4, <2>5, <2>6
    <2> HIDE DEF cut
    <2>3. \A i \in 2 .. Len(file) - at + 1 : i - 1 \in 1 .. Len(rest) /\ 1 + (i - 1) = i
        BY <1>1, <1>6
    <2> QED
        BY <1>1, <1>6, <2>2, <2>3
<1> HIDE DEF cut
<1>8. ASSUME NEW i \in 2 .. Len(cut)
      PROVE  /\ at + i - 1 \in 2 .. Len(file) /\ cut[i] = file[at + i - 1]
             /\ cut[i].seq = cut[1].seq + i - 1
    <2>1. i - 1 \in 1 .. Len(file) - at /\ at + (i - 1) = at + i - 1 /\ i \in Nat
        BY <1>1, <1>7
    <2>2. at + i - 1 \in 2 .. Len(file) /\ at + i - 1 \in 1 .. Len(file)
        BY <1>1, <2>1
    <2>3. cut[i] = file[at + i - 1]
        BY <1>6, <1>7, <2>1
    <2>4. file[at + i - 1].seq = file[1].seq + (at + i - 1) - 1
        BY <2>2 DEF Tells
    <2>5. cut[1].seq = file[1].seq + at - 1
        BY <1>2, <1>5, <1>7
    <2> DEFINE from == file[1].seq
    <2>6. from \in Nat /\ at \in Nat /\ i \in Nat
        BY <1>1, <2>1
    <2>7. cut[1].seq = from + at - 1 /\ cut[i].seq = from + (at + i - 1) - 1
        BY <2>3, <2>4, <2>5
    <2> HIDE DEF from
    <2>8. cut[i].seq = cut[1].seq + i - 1
        BY <2>6, <2>7
    <2> QED
        BY <2>2, <2>3, <2>8
<1>9. LastOf(cut) = LastOf(file)
    <2> DEFINE from == file[1].seq
    <2>1. LastOf(cut) = (from + at - 1) + (Len(file) - at + 1) - 1
        BY <1>2, <1>5, <1>7 DEF LastOf
    <2>2. LastOf(file) = from + Len(file) - 1 /\ from \in Nat /\ Len(file) \in Nat /\ at \in Nat
        BY <1>1
    <2> HIDE DEF from
    <2> QED
        BY <2>1, <2>2
<1>10. Tells(cut, H)
    <2>1. \A i \in 1 .. Len(cut) : cut[i].seq = cut[1].seq + i - 1
        <3> TAKE i \in 1 .. Len(cut)
        <3>1. i = 1 \/ i \in 2 .. Len(cut)
            BY <1>1, <1>7
        <3>2. cut[1].seq \in Nat
            BY <1>2, <1>5, <1>7
        <3> QED
            BY <1>8, <3>1, <3>2
    <2>2. ASSUME NEW i \in 2 .. Len(cut), NEW m \in 1 .. Len(H)
          PROVE  /\ cut[i].seq = 2 * m => cut[i].body = CommandRecord(H[m])
                 /\ cut[i].seq = 2 * m + 1 => cut[i].body = Report(H[m], m)
        BY <1>8 DEF Tells
    <2>3. \E t \in {"A", "B"}, m \in 0 .. Len(H) :
             cut[1] = [seq |-> 2 * m + 1,
                       body |-> AnchorTo(t, [gen |-> 2 * m + 1, history |-> SubSeq(H, 1, m)])]
        <3>1. k \in 0 .. Len(H)
            BY <1>2
        <3>2. cut[1] = [seq |-> 2 * k + 1,
                        body |-> AnchorTo(s, [gen |-> 2 * k + 1, history |-> SubSeq(H, 1, k)])]
            BY <1>3, <1>7, <1>12
        <3> QED
            BY <3>1, <3>2
    <2> QED
        BY <1>7, <1>9, <2>1, <2>2, <2>3 DEF Tells
<1> QED
    BY <1>7, <1>9, <1>10 DEF cut, f, rest, anchor

----------------------------------------------------------------------------
(* What is on the device for good *)

\* A history takes the place of another, keeping what the first numbers up to
\* `last' stand for.
Keeps(H, G, last, now) ==
    /\ last <= now
    /\ \A k \in Nat : 2 * k + 1 <= last => Begins(H, G, k)

LEMMA KeepsMore ==
    ASSUME NEW H \in Histories, NEW G \in Histories, Begins(H, G, Len(H)),
           NEW last \in Nat, NEW now \in Nat, last <= now, last <= 2 * Len(H) + 1
    PROVE  Keeps(H, G, last, now)
<1> SUFFICES ASSUME NEW k \in Nat, 2 * k + 1 <= last PROVE Begins(H, G, k)
    BY DEF Keeps
<1>1. Len(H) \in Nat /\ Len(G) \in Nat
    BY DEF Histories
<1>2. k <= Len(H)
    BY <1>1
<1> QED
    BY <1>1, <1>2 DEF Begins

LEMMA KeepsLess ==
    ASSUME NEW H \in Histories, NEW n \in 0 .. Len(H),
           NEW last \in Nat, NEW now \in Nat, last <= now, now <= 2 * n + 1
    PROVE  Keeps(H, SubSeq(H, 1, n), last, now)
<1> SUFFICES ASSUME NEW k \in Nat, 2 * k + 1 <= last PROVE Begins(H, SubSeq(H, 1, n), k)
    BY DEF Keeps
<1>1. /\ Len(H) \in Nat /\ n \in Nat /\ n <= Len(H) /\ Len(SubSeq(H, 1, n)) = n
      /\ \A i \in 1 .. n : SubSeq(H, 1, n)[i] = H[i]
    BY DEF Histories
<1>2. k <= n
    BY <1>1
<1> QED
    BY <1>1, <1>2 DEF Begins

\* What is kept includes the checkpoints.
LEMMA WithinKept ==
    ASSUME NEW H \in Histories, NEW G \in Histories, NEW last \in Nat, NEW now \in Nat,
           Keeps(H, G, last, now), NEW checkpoint, CheckpointWithin(checkpoint, H, last)
    PROVE  CheckpointWithin(checkpoint, G, now)
<1> DEFINE h == checkpoint.history
<1>1. /\ h \in Histories /\ Len(h) \in Nat /\ checkpoint.gen = 2 * Len(h) + 1
      /\ checkpoint.gen <= last /\ Len(h) <= Len(H) /\ h = SubSeq(H, 1, Len(h))
    BY DEF CheckpointWithin, S!Contents, Histories
<1>2. Len(h) <= Len(G) /\ \A i \in 1 .. Len(h) : G[i] = H[i]
    BY <1>1 DEF Keeps, Begins
<1>3. h = SubSeq(G, 1, Len(h))
    BY <1>1, <1>2 DEF Histories
<1>4. checkpoint.gen <= now
    BY <1>1 DEF Keeps
<1> QED
    BY <1>1, <1>2, <1>3, <1>4 DEF CheckpointWithin

----------------------------------------------------------------------------
(* The inductive invariant *)

\* The last number that no failure takes from the device.
LastKept(file, kept) == IF kept = 0 THEN 0 ELSE file[1].seq + kept - 1
FloorLast == LastKept(wal, IF PowerFailures THEN synced ELSE Len(wal))

\* The log tells one history, also the file a power loss would put back.
LogTells(H) ==
    /\ FileTells(wal, H) /\ synced \in 0 .. Len(wal)
    /\ former # NoFile => /\ Tells(former, H) /\ LastOf(former) = LastOf(wal)
                          /\ wal # <<>> /\ synced = Len(wal)

\* The slot that an anchor names keeps its file, whatever falls back or is
\* recovered, unless that file is torn.
AnchorKept(file) ==
    /\ AnchorHolds(file, current) \/ Torn(file, current)
    /\ HeadIsAnchor(file) => /\ file[1].body.slot \in Targets
                             /\ device[file[1].body.slot] = current[file[1].body.slot]
                             /\ pending[file[1].body.slot] = NoFile
AnchorsKept == AnchorKept(wal) /\ (former # NoFile => AnchorKept(former))

\* All snapshots stand for what no failure takes back, and only a target that
\* an operator filled has a file that passed no barrier, or is torn.
Within(H) == {f \in S!Files : CheckpointWithin(S!Read(f), H, FloorLast)}
Sound(file) == file = NoFile \/ (file \in S!Files /\ file.synced)
SnapshotsWithin(H) ==
    /\ current \in [Targets -> Within(H) \cup {NoFile, Partial}]
    /\ device \in [Targets -> Within(H) \cup {NoFile, Partial}]
    /\ pending \in [Targets -> Within(H) \cup {NoFile, Partial}]
    /\ \A t \in Targets \ promoted : Sound(current[t]) /\ Sound(device[t])

AnswersWithin(H) ==
    \A a \in answers :
        a.at \in 1 .. Len(H) /\ 2 * a.at + 1 <= FloorLast /\ H[a.at] = a.cmd

\* The process stands `written' frames before the end of the log.
AtTail(written) ==
    /\ tail = "clean" /\ former = NoFile
    /\ first = J!EffectiveFirst(wal)
    /\ next = first + end
    /\ end \in Nat /\ end + written = Len(wal)

JournalKnows ==
    /\ phase # "idle" => ~ poisoned
    /\ phase = "leased" => former = NoFile
    /\ J!Healthy => AtTail(0)
    /\ phase = "barrier" => AtTail(1) /\ inflight = 1

\* A capture of this opening and epoch names a frame of the log.
CaptureStands(capture, H) ==
    /\ CheckpointWithin(CheckpointOf(capture), H, FloorLast)
    /\ capture.boundary.first = first
    /\ capture.boundary.end \in 1 .. end
    /\ capture.boundary.seq = capture.gen
    /\ capture.gen = first + capture.boundary.end - 1

CapturesWithin(H) ==
    /\ captures \subseteq Captures /\ epoch \in Nat
    /\ step \in {"down", "opening", "defining", "resuming"} =>
          \A capture \in captures : ~ capture.mine
    /\ \A capture \in captures :
          capture.mine => /\ capture.epoch <= epoch
                          /\ capture.epoch = epoch => CaptureStands(capture, H)

\* A shard between two calls has logged all it executed.
Logged(H) ==
    wal # <<>> /\ book = H /\ LastOf(wal) = 2 * Len(H) + 1

Settled(H) == J!Healthy /\ Logged(H) /\ slot = HeadSlot(wal)

\* A command is logged, and executed or not.
Committing(H) ==
    /\ wal # <<>> /\ H # <<>> /\ LastOf(wal) = 2 * Len(H)
    /\ command = H[Len(H)] /\ slot = HeadSlot(wal)
    /\ book = H \/ book = SubSeq(H, 1, Len(H) - 1)

\* What the snapshot write of a call has come to.
Writing ==
    /\ write \in [target : Targets, value : S!Contents, step : S!Steps]
    /\ write.value = CheckpointOf(using)
    /\ write.target = IF step = "writing" THEN "base" ELSE Alternate
    /\ write.step = "rename" => pending[write.target] = S!Stored(write.value, TRUE)
    /\ write.step = "sync" => current[write.target] = S!Stored(write.value, TRUE)
    /\ write.step \in {"sync", "done"} => pending[write.target] = NoFile
    /\ write.step = "done" => /\ S!Read(current[write.target]) = write.value
                              /\ device[write.target] = current[write.target]

SlotWritten ==
    /\ Alternate \in Targets
    /\ S!Read(current[Alternate]) = CheckpointOf(using)
    /\ device[Alternate] = current[Alternate]
    /\ pending[Alternate] = NoFile

TheHead == [seq |-> using.gen, body |-> TheAnchor]

Anchoring(H) ==
    /\ Logged(H) /\ boundary = using.boundary
    /\ phase \in {"stage", "publish"} => AtTail(0) /\ slot = HeadSlot(wal)
    /\ phase = "publish" => /\ Tells(staging, H) /\ LastOf(staging) = LastOf(wal)
                            /\ staging[1] = TheHead
    /\ phase = "dirsync" => /\ tail = "clean" /\ next = LastOf(wal) + 1
                            /\ wal[1] = TheHead

StepKnows(H) ==
    /\ (step = "ready" /\ ~ halted) \/ step \in {"writing", "snapshot", "cutover"} => Settled(H)
    /\ step \in {"writing", "snapshot", "cutover", "anchoring"} =>
          using \in Captures /\ CaptureStands(using, H)
    /\ step \in {"writing", "snapshot"} => Writing
    /\ step \in {"cutover", "anchoring"} => SlotWritten
    /\ step = "anchoring" => Anchoring(H)
    /\ step \in {"report", "resuming"} => Logged(H) /\ slot = HeadSlot(wal)
    /\ step = "report" => H # <<>> /\ command = H[Len(H)]
    /\ step = "command" => Committing(H)

ShardStands(H) ==
    /\ Distinct(H)
    /\ LogTells(H)
    /\ AnchorsKept
    /\ SnapshotsWithin(H)
    /\ AnswersWithin(H)
    /\ JournalKnows
    /\ CapturesWithin(H)
    /\ StepKnows(H)

\* There is one history that all files, snapshots, captures and answers agree
\* with.
BookInv == \E H \in Histories : ShardStands(H)

----------------------------------------------------------------------------
(* What a step leaves of the invariant *)

\* Numbers of a file, and of a part of it.
LEMMA Numbers ==
    ASSUME NEW H \in Histories, NEW file, FileTells(file, H), NEW kept \in 0 .. Len(file)
    PROVE  /\ file \in Seq(Frames) /\ Len(file) \in Nat /\ Len(H) \in Nat
           /\ LastOf(file) \in Nat /\ LastOf(file) <= 2 * Len(H) + 1
           /\ LastKept(file, kept) \in Nat /\ LastKept(file, kept) <= LastOf(file)
           /\ LastKept(file, Len(file)) = LastOf(file)
           /\ \A more \in kept .. Len(file) : /\ LastKept(file, more) \in Nat
                                              /\ LastKept(file, kept) <= LastKept(file, more)
<1>0. Len(H) \in Nat
    BY DEF Histories
<1>1. CASE file = <<>>
    <2>1. Len(file) = 0 /\ kept = 0 /\ file \in Seq(Frames)
        BY <1>1
    <2> QED
        BY <1>0, <1>1, <2>1 DEF LastOf, LastKept
<1>2. CASE file # <<>>
    <2>1. Tells(file, H)
        BY <1>2 DEF FileTells
    <2> DEFINE from == file[1].seq
    <2>2. /\ file \in Seq(Frames) /\ Len(file) \in Nat \ {0} /\ from \in Nat \ {0}
          /\ LastOf(file) = from + Len(file) - 1
        BY <2>1, HeadOf
    <2>3. LastOf(file) <= 2 * Len(H) + 1
        BY <1>0, <2>1 DEF Tells
    <2>4. \A n \in 0 .. Len(file) : LastKept(file, n) = IF n = 0 THEN 0 ELSE from + n - 1
        BY DEF LastKept
    <2> HIDE DEF from
    <2>5. ASSUME NEW n \in 0 .. Len(file), NEW m \in n .. Len(file)
          PROVE  /\ LastKept(file, n) \in Nat /\ LastKept(file, m) \in Nat
                 /\ LastKept(file, n) <= LastKept(file, m)
        <3>1. /\ n \in Nat /\ m \in Nat /\ n <= m /\ m \in 0 .. Len(file)
            BY <2>2
        <3> QED
            BY <2>2, <2>4, <3>1
    <2>6. LastKept(file, Len(file)) = LastOf(file)
        BY <2>2, <2>4
    <2>7. Len(file) \in kept .. Len(file) /\ kept \in kept .. Len(file)
        BY <2>2
    <2>8. LastKept(file, kept) \in Nat /\ LastKept(file, kept) <= LastOf(file)
        BY <2>5, <2>6, <2>7
    <2>9. LastOf(file) \in Nat
        BY <2>2
    <2> QED
        BY <1>0, <2>2, <2>3, <2>5, <2>6, <2>8, <2>9
<1> QED
    BY <1>1, <1>2

\* A scan expects the number that the first frame carries.
LEMMA FirstOf ==
    ASSUME NEW H \in Histories, NEW file, FileTells(file, H)
    PROVE  J!EffectiveFirst(file) = IF file = <<>> THEN 1 ELSE file[1].seq
<1>1. CASE file = <<>>
    BY <1>1 DEF J!EffectiveFirst
<1>2. CASE file # <<>>
    <2>1. Tells(file, H)
        BY <1>2 DEF FileTells
    <2>2. CASE HeadIsAnchor(file)
        <3>1. file[1].body \in Anchors
            BY <2>1, <2>2, HeadOf
        <3> QED
            BY <1>2, <3>1 DEF J!EffectiveFirst, J!IsAnchor
    <2>3. CASE ~ HeadIsAnchor(file)
        <3>1. file[1] = [seq |-> 1, body |-> Definition]
            BY <2>1, <2>3, HeadOf
        <3> QED
            BY <1>2, <3>1 DEF J!EffectiveFirst, J!IsAnchor
    <2> QED
        BY <2>2, <2>3
<1> QED
    BY <1>1, <1>2

\* Before and behind every step.
LEMMA FloorFacts ==
    ASSUME NEW H \in Histories, LogTells(H)
    PROVE  /\ FloorLast \in Nat /\ FloorLast <= LastOf(wal)
           /\ LastOf(wal) \in Nat /\ LastOf(wal) <= 2 * Len(H) + 1
           /\ wal \in Seq(Frames) /\ Len(wal) \in Nat /\ Len(H) \in Nat
           /\ synced \in 0 .. Len(wal)
           /\ J!EffectiveFirst(wal) = IF wal = <<>> THEN 1 ELSE wal[1].seq
<1>1. FileTells(wal, H) /\ synced \in 0 .. Len(wal)
    BY DEF LogTells
<1>2. Len(wal) \in 0 .. Len(wal) /\ wal \in Seq(Frames) /\ Len(wal) \in Nat
    <2>1. wal \in Seq(Frames)
        BY <1>1, Numbers
    <2> QED
        BY <2>1
<1> DEFINE kept == IF PowerFailures THEN synced ELSE Len(wal)
<1>3. kept \in 0 .. Len(wal)
    BY <1>1, <1>2
<1>4. FloorLast = LastKept(wal, kept)
    BY DEF FloorLast
<1> HIDE DEF kept
<1>5. /\ LastKept(wal, kept) \in Nat /\ LastKept(wal, kept) <= LastOf(wal)
      /\ LastOf(wal) \in Nat /\ LastOf(wal) <= 2 * Len(H) + 1 /\ Len(H) \in Nat
    BY <1>1, <1>3, Numbers
<1>6. J!EffectiveFirst(wal) = IF wal = <<>> THEN 1 ELSE wal[1].seq
    BY <1>1, FirstOf
<1> QED
    BY <1>1, <1>2, <1>4, <1>5, <1>6

\* A longer part of the same log on the device keeps the history.
LEMMA FloorRises ==
    ASSUME NEW H \in Histories, LogTells(H), wal' = wal,
           synced' \in synced .. Len(wal)
    PROVE  /\ FloorLast' \in Nat /\ Keeps(H, H, FloorLast, FloorLast')
           /\ FloorLast' <= LastOf(wal)
<1> DEFINE kept == IF PowerFailures THEN synced ELSE Len(wal)
           now == IF PowerFailures THEN synced' ELSE Len(wal)
<1>1. FileTells(wal, H) /\ synced \in 0 .. Len(wal) /\ Len(wal) \in Nat
    BY FloorFacts DEF LogTells
<1>2. kept \in 0 .. Len(wal) /\ now \in kept .. Len(wal) /\ now \in 0 .. Len(wal)
    BY <1>1
<1>3. FloorLast = LastKept(wal, kept) /\ FloorLast' = LastKept(wal, now)
    BY DEF FloorLast, LastKept
<1> HIDE DEF kept, now
<1>4. /\ LastKept(wal, kept) \in Nat /\ LastKept(wal, now) \in Nat
      /\ LastKept(wal, kept) <= LastKept(wal, now)
      /\ LastKept(wal, now) <= LastOf(wal)
      /\ LastKept(wal, kept) <= LastOf(wal) /\ LastOf(wal) <= 2 * Len(H) + 1
      /\ LastOf(wal) \in Nat /\ Len(H) \in Nat
    BY <1>1, <1>2, Numbers
<1> DEFINE a == LastKept(wal, kept)
           b == LastKept(wal, now)
           c == LastOf(wal)
<1>5. /\ a \in Nat /\ b \in Nat /\ a <= b /\ a <= c /\ c <= 2 * Len(H) + 1 /\ c \in Nat
      /\ b <= c
    BY <1>4
<1>6. FloorLast = a /\ FloorLast' = b
    BY <1>3
<1> HIDE DEF a, b, c
<1>7. Begins(H, H, Len(H)) /\ a <= 2 * Len(H) + 1
    BY <1>4, <1>5 DEF Begins
<1>8. Keeps(H, H, a, b)
    BY <1>5, <1>7, KeepsMore
<1> QED
    BY <1>5, <1>6, <1>8 DEF c

\* The parts of the invariant behind a step that keeps the history.
LEMMA SnapshotsKept ==
    ASSUME NEW H \in Histories, NEW G \in Histories, SnapshotsWithin(H),
           FloorLast \in Nat, FloorLast' \in Nat, Keeps(H, G, FloorLast, FloorLast')
    PROVE  /\ Within(H) \subseteq Within(G)'
           /\ UNCHANGED <<current, device, pending, promoted>> => SnapshotsWithin(G)'
<1>1. Within(H) \subseteq Within(G)'
    <2> SUFFICES ASSUME NEW c, CheckpointWithin(c, H, FloorLast)
                 PROVE  CheckpointWithin(c, G, FloorLast')
        BY DEF Within
    <2> DEFINE last == FloorLast
               now == FloorLast'
    <2>1. last \in Nat /\ now \in Nat /\ Keeps(H, G, last, now) /\ CheckpointWithin(c, H, last)
        OBVIOUS
    <2> HIDE DEF last, now
    <2>2. CheckpointWithin(c, G, now)
        BY <2>1, WithinKept
    <2> QED
        BY <2>2 DEF now
<1>2. ASSUME UNCHANGED <<current, device, pending, promoted>> PROVE SnapshotsWithin(G)'
    BY <1>1, <1>2 DEF SnapshotsWithin
<1> QED
    BY <1>1, <1>2

LEMMA AnswersKept ==
    ASSUME NEW H \in Histories, NEW G \in Histories, AnswersWithin(H),
           FloorLast \in Nat, FloorLast' \in Nat, Keeps(H, G, FloorLast, FloorLast'),
           UNCHANGED answers
    PROVE  AnswersWithin(G)'
<1> SUFFICES ASSUME NEW a \in answers
             PROVE  a.at \in 1 .. Len(G) /\ 2 * a.at + 1 <= FloorLast' /\ G[a.at] = a.cmd
    BY DEF AnswersWithin
<1>1. a.at \in 1 .. Len(H) /\ 2 * a.at + 1 <= FloorLast /\ H[a.at] = a.cmd
    BY DEF AnswersWithin
<1>2. Len(H) \in Nat /\ Len(G) \in Nat /\ a.at \in Nat /\ a.at > 0
    BY <1>1 DEF Histories
<1>3. FloorLast <= FloorLast' /\ Begins(H, G, a.at)
    BY <1>1, <1>2 DEF Keeps
<1>4. a.at <= Len(G) /\ G[a.at] = H[a.at]
    BY <1>2, <1>3 DEF Begins
<1> DEFINE last == FloorLast
           now == FloorLast'
<1>5. last \in Nat /\ now \in Nat /\ last <= now /\ 2 * a.at + 1 <= last
    BY <1>1, <1>3
<1> HIDE DEF last, now
<1>6. 2 * a.at + 1 <= now
    BY <1>2, <1>5
<1> QED
    BY <1>1, <1>2, <1>4, <1>6 DEF now

EndGrows == end' = end \/ (end \in Nat /\ end' \in Nat /\ end <= end')

LEMMA CaptureKept ==
    ASSUME NEW H \in Histories, NEW G \in Histories,
           FloorLast \in Nat, FloorLast' \in Nat, Keeps(H, G, FloorLast, FloorLast'),
           NEW capture, CaptureStands(capture, H), first' = first, EndGrows
    PROVE  CaptureStands(capture, G)'
<1>1. CheckpointWithin(CheckpointOf(capture), G, FloorLast')
    <2> DEFINE last == FloorLast
               now == FloorLast'
               checkpoint == CheckpointOf(capture)
    <2>1. last \in Nat /\ now \in Nat /\ Keeps(H, G, last, now)
          /\ CheckpointWithin(checkpoint, H, last)
        BY DEF CaptureStands
    <2> HIDE DEF last, now, checkpoint
    <2>2. CheckpointWithin(checkpoint, G, now)
        BY <2>1, WithinKept
    <2> QED
        BY <2>2 DEF now, checkpoint
<1>2. capture.boundary.end \in 1 .. end'
    BY DEF CaptureStands, EndGrows
<1> QED
    BY <1>1, <1>2 DEF CaptureStands

LEMMA CapturesKept ==
    ASSUME NEW H \in Histories, NEW G \in Histories, CapturesWithin(H),
           FloorLast \in Nat, FloorLast' \in Nat, Keeps(H, G, FloorLast, FloorLast'),
           captures' \subseteq captures, UNCHANGED epoch,
           \/ step \in {"down", "opening", "defining", "resuming"}
           \/ /\ step' \notin {"down", "opening", "defining", "resuming"}
              /\ first' = first /\ EndGrows
    PROVE  CapturesWithin(G)'
<1>1. CASE step \in {"down", "opening", "defining", "resuming"}
    BY <1>1 DEF CapturesWithin
<1>2. CASE /\ step' \notin {"down", "opening", "defining", "resuming"}
           /\ first' = first /\ EndGrows
    <2>1. ASSUME NEW capture \in captures, capture.mine
          PROVE  /\ capture.epoch <= epoch
                 /\ capture.epoch = epoch => CaptureStands(capture, G)'
        <3>1. capture.epoch <= epoch /\ (capture.epoch = epoch => CaptureStands(capture, H))
            BY <2>1 DEF CapturesWithin
        <3>2. ASSUME CaptureStands(capture, H) PROVE CaptureStands(capture, G)'
            BY <1>2, <3>2, CaptureKept
        <3> QED
            BY <3>1, <3>2
    <2>2. captures' \subseteq Captures /\ epoch' \in Nat
        BY DEF CapturesWithin
    <2>3. \A capture \in captures' :
             capture.mine => /\ capture.epoch <= epoch'
                             /\ capture.epoch = epoch' => CaptureStands(capture, G)'
        BY <2>1
    <2> QED
        BY <1>2, <2>2, <2>3 DEF CapturesWithin
<1> QED
    BY <1>1, <1>2

\* The log as it was, more of it on the device, a rename settled.
LogRests == wal' = wal /\ synced' \in synced .. Len(wal) /\ former' \in {former, NoFile}

LEMMA LogKept ==
    ASSUME NEW H \in Histories, LogTells(H), LogRests
    PROVE  /\ LogTells(H)'
           /\ FloorLast \in Nat /\ FloorLast' \in Nat /\ Keeps(H, H, FloorLast, FloorLast')
<1>1. /\ FloorLast \in Nat /\ Len(wal) \in Nat /\ synced \in 0 .. Len(wal)
    BY FloorFacts
<1>2. FloorLast' \in Nat /\ Keeps(H, H, FloorLast, FloorLast')
    BY FloorRises DEF LogRests
<1>3. synced' \in 0 .. Len(wal)
    BY <1>1 DEF LogRests
<1>4. synced = Len(wal) => synced' = Len(wal)
    BY <1>1 DEF LogRests
<1>5. LogTells(H)'
    BY <1>3, <1>4 DEF LogTells, LogRests
<1> QED
    BY <1>1, <1>2, <1>5

LEMMA FilesKept ==
    ASSUME NEW H \in Histories, ShardStands(H), LogRests,
           UNCHANGED <<current, device, pending, promoted>>
    PROVE  /\ Distinct(H) /\ LogTells(H)' /\ AnchorsKept' /\ SnapshotsWithin(H)'
           /\ UNCHANGED answers => AnswersWithin(H)'
           /\ FloorLast \in Nat /\ FloorLast' \in Nat /\ Keeps(H, H, FloorLast, FloorLast')
<1>1. /\ Distinct(H) /\ LogTells(H) /\ AnchorsKept /\ SnapshotsWithin(H) /\ AnswersWithin(H)
    BY DEF ShardStands
<1>2. /\ LogTells(H)' /\ FloorLast \in Nat /\ FloorLast' \in Nat
      /\ Keeps(H, H, FloorLast, FloorLast')
    BY <1>1, LogKept
<1>3. AnchorsKept'
    BY <1>1 DEF AnchorsKept, AnchorKept, AnchorHolds, Torn, LogRests
<1>4. SnapshotsWithin(H)'
    BY <1>1, <1>2, SnapshotsKept
<1>5. UNCHANGED answers => AnswersWithin(H)'
    BY <1>1, <1>2, AnswersKept
<1> QED
    BY <1>1, <1>2, <1>3, <1>4, <1>5

\* Nothing is written.
LEMMA NothingWritten ==
    ASSUME NEW H \in Histories, LogTells(H), NEW body, NEW cut,
           J!AppendWriteFails(<<body>>, 0, cut)
    PROVE  /\ wal' = wal /\ tail' = cut /\ poisoned' = TRUE /\ J!Healthy
           /\ UNCHANGED <<synced, former, staging, phase, next, first, end, inflight,
                          boundary, promised>>
<1>1. wal \in Seq(Frames)
    BY FloorFacts
<1>2. SubSeq(J!FramesOf(<<body>>), 1, 0) = <<>>
    BY DEF J!FramesOf
<1>3. wal \o <<>> = wal
    BY <1>1
<1> QED
    BY <1>2, <1>3 DEF J!AppendWriteFails

\* One frame is written behind the last.
LEMMA FrameWritten ==
    ASSUME NEW H \in Histories, ShardStands(H), NEW body,
           J!AppendWrite(<<body>>)
    PROVE  /\ wal' = wal \o <<[seq |-> LastOf(wal) + 1, body |-> body]>>
           /\ wal = <<>> => wal' = <<[seq |-> 1, body |-> body]>>
           /\ inflight' = 1 /\ phase' = "barrier" /\ J!Healthy /\ AtTail(0)
           /\ UNCHANGED <<tail, synced, former, staging, poisoned, next, first, end,
                          boundary, promised>>
<1>1. AtTail(0) /\ J!Healthy
    BY DEF J!AppendWrite, ShardStands, JournalKnows
<1>2. wal \in Seq(Frames) /\ Len(wal) \in Nat
      /\ J!EffectiveFirst(wal) = IF wal = <<>> THEN 1 ELSE wal[1].seq
    BY FloorFacts DEF ShardStands
<1>3. next = LastOf(wal) + 1
    <2>1. next = J!EffectiveFirst(wal) + Len(wal)
        BY <1>1, <1>2 DEF AtTail
    <2>2. CASE wal = <<>>
        BY <1>2, <2>1, <2>2 DEF LastOf
    <2>3. CASE wal # <<>>
        <3>1. Tells(wal, H)
            BY <2>3 DEF ShardStands, LogTells, FileTells
        <3>2. LastOf(wal) = wal[1].seq + Len(wal) - 1 /\ wal[1].seq \in Nat
            BY <3>1, HeadOf
        <3> QED
            BY <1>2, <2>1, <2>3, <3>2
    <2> QED
        BY <2>2, <2>3
<1>4. J!FramesOf(<<body>>) = <<[seq |-> next, body |-> body]>>
    <2>1. next \in Nat
        <3>1. LastOf(wal) \in Nat
            BY FloorFacts DEF ShardStands
        <3> QED
            BY <1>3, <3>1
    <2> QED
        BY <2>1 DEF J!FramesOf
<1>5. Len(<<body>>) = 1
    OBVIOUS
<1>6. wal' = wal \o <<[seq |-> LastOf(wal) + 1, body |-> body]>>
    BY <1>3, <1>4 DEF J!AppendWrite
<1>7. wal = <<>> => wal' = <<[seq |-> 1, body |-> body]>>
    BY <1>6 DEF LastOf
<1> QED
    BY <1>1, <1>5, <1>6, <1>7 DEF J!AppendWrite, J!handle

\* Steps of the journal that leave its frames alone.
LEMMA JournalGoesOn ==
    ASSUME NEW H \in Histories, ShardStands(H),
           \/ J!AcquireLease \/ J!OpenClean \/ J!OpenRepair \/ J!OpenFails
           \/ J!AppendBarrier \/ J!AppendBarrierFails \/ J!Sync \/ J!SyncFails
           \/ J!RecoverPending \/ J!Close \/ J!ProcessEnds
           \/ \E body, cut : J!AppendWriteFails(<<body>>, 0, cut)
    PROVE  LogRests /\ JournalKnows'
<1>1. /\ LogTells(H) /\ JournalKnows
    BY DEF ShardStands
<1>2. /\ synced \in 0 .. Len(wal) /\ Len(wal) \in Nat
      /\ synced \in synced .. Len(wal) /\ Len(wal) \in synced .. Len(wal)
    BY <1>1, FloorFacts
<1>3. CASE J!AcquireLease
    BY <1>1, <1>2, <1>3 DEF J!AcquireLease, J!handle, LogRests, JournalKnows, J!Healthy
<1>4. CASE J!OpenClean \/ J!OpenRepair
    <2>1. /\ wal' = wal /\ synced' \in {synced, Len(wal)} /\ former' = former /\ former = NoFile
          /\ phase' = "idle" /\ tail' = "clean"
          /\ first' = J!EffectiveFirst(wal) /\ next' = first' + Len(wal) /\ end' = Len(wal)
        BY <1>1, <1>4 DEF J!OpenClean, J!OpenRepair, J!ScanAccepts, J!files, JournalKnows
    <2>2. AtTail(0)'
        <3>1. J!EffectiveFirst(wal)' = J!EffectiveFirst(wal)
            BY <2>1 DEF J!EffectiveFirst, J!IsAnchor
        <3> QED
            BY <1>2, <2>1, <3>1 DEF AtTail
    <2> QED
        BY <1>2, <2>1, <2>2 DEF LogRests, JournalKnows, J!Healthy
<1>5. CASE J!OpenFails \/ J!RecoverPending \/ J!Close \/ J!ProcessEnds
    <2>1. wal' = wal /\ synced' \in {synced, Len(wal)} /\ former' \in {former, NoFile}
          /\ phase' = "closed" /\ poisoned' \in {FALSE, poisoned}
        BY <1>5 DEF J!OpenFails, J!RecoverPending, J!Close, J!ProcessEnds, J!ProcessGone, J!handle
    <2>2. phase = "closed" => ~ poisoned
        BY <1>1 DEF JournalKnows
    <2>3. ~ poisoned'
        BY <1>1, <1>5 DEF J!OpenFails, J!RecoverPending, J!Close, J!ProcessEnds, J!ProcessGone,
                          J!handle, JournalKnows
    <2> QED
        BY <1>2, <2>1, <2>3 DEF LogRests, JournalKnows, J!Healthy
<1>6. CASE J!AppendBarrier
    <2>1. /\ wal' = wal /\ synced' \in {synced, Len(wal)} /\ former' = former /\ tail' = tail
          /\ first' = first /\ next' = next + 1 /\ end' = end + 1 /\ phase' = "idle"
          /\ AtTail(1)
        BY <1>1, <1>6 DEF J!AppendBarrier, JournalKnows
    <2>2. AtTail(0)'
        <3>1. J!EffectiveFirst(wal)' = J!EffectiveFirst(wal)
            BY <2>1 DEF J!EffectiveFirst, J!IsAnchor
        <3>2. J!EffectiveFirst(wal) \in Nat
            <4>1. wal # <<>> => Tells(wal, H)
                BY <1>1 DEF LogTells, FileTells
            <4>2. wal # <<>> => wal[1].seq \in Nat
                BY <4>1, HeadOf
            <4>3. J!EffectiveFirst(wal) = IF wal = <<>> THEN 1 ELSE wal[1].seq
                BY <1>1, FloorFacts
            <4> QED
                BY <4>2, <4>3
        <3>3. /\ tail' = "clean" /\ former' = NoFile
              /\ first' = J!EffectiveFirst(wal)'
            BY <2>1, <3>1 DEF AtTail
        <3>4. end \in Nat /\ end + 1 = Len(wal) /\ next = first + end /\ first \in Nat
            BY <2>1, <3>2 DEF AtTail
        <3>5. next + 1 = first + (end + 1) /\ end + 1 \in Nat /\ (end + 1) + 0 = Len(wal)
            BY <3>4
        <3> QED
            BY <2>1, <3>3, <3>5 DEF AtTail
    <2> QED
        BY <1>2, <2>1, <2>2 DEF LogRests, JournalKnows, J!Healthy
<1>7. CASE J!AppendBarrierFails
    BY <1>2, <1>7 DEF J!AppendBarrierFails, J!files, LogRests, JournalKnows, J!Healthy
<1>8. CASE J!Sync
    <2>1. /\ wal' = wal /\ synced' = Len(wal) /\ former' = former /\ tail' = tail
          /\ first' = first /\ next' = next /\ end' = end /\ phase' = "idle"
          /\ AtTail(0)
        BY <1>1, <1>8 DEF J!Sync, JournalKnows, J!handle, J!Healthy
    <2>2. AtTail(0)'
        BY <2>1 DEF AtTail, J!EffectiveFirst, J!IsAnchor
    <2> QED
        BY <1>2, <2>1, <2>2 DEF LogRests, JournalKnows, J!Healthy
<1>9. CASE J!SyncFails
    BY <1>2, <1>9 DEF J!SyncFails, J!files, LogRests, JournalKnows, J!Healthy
<1>10. CASE \E body, cut : J!AppendWriteFails(<<body>>, 0, cut)
    <2>1. PICK body, cut : J!AppendWriteFails(<<body>>, 0, cut)
        BY <1>10
    <2>2. /\ wal' = wal /\ poisoned' = TRUE /\ J!Healthy
          /\ UNCHANGED <<synced, former, phase>>
        BY <1>1, <2>1, NothingWritten
    <2> QED
        BY <1>2, <2>2 DEF LogRests, JournalKnows, J!Healthy
<1> QED
    BY <1>3, <1>4, <1>5, <1>6, <1>7, <1>8, <1>9, <1>10

----------------------------------------------------------------------------
(* Steps that leave the frames of the log alone *)

LEMMA QuietStep ==
    ASSUME NEW H \in Histories, ShardStands(H), UNCHANGED <<current, device, pending, promoted>>,
           \/ J!AcquireLease \/ J!OpenClean \/ J!OpenRepair \/ J!OpenFails
           \/ J!AppendBarrier \/ J!AppendBarrierFails \/ J!Sync \/ J!SyncFails
           \/ J!RecoverPending \/ J!Close \/ J!ProcessEnds
           \/ \E body, cut : J!AppendWriteFails(<<body>>, 0, cut)
           \/ UNCHANGED journalVars
    PROVE  /\ Distinct(H) /\ LogTells(H)' /\ AnchorsKept' /\ SnapshotsWithin(H)'
           /\ JournalKnows' /\ wal' = wal
           /\ UNCHANGED answers => AnswersWithin(H)'
           /\ FloorLast \in Nat /\ FloorLast' \in Nat /\ Keeps(H, H, FloorLast, FloorLast')
           /\ LogTells(H) /\ JournalKnows /\ CapturesWithin(H) /\ StepKnows(H)
<1>1. LogRests /\ JournalKnows'
    <2>1. CASE UNCHANGED journalVars
        <3>1. LogTells(H) /\ JournalKnows
            BY DEF ShardStands
        <3>2. synced \in synced .. Len(wal)
            BY <3>1, FloorFacts
        <3>3. JournalKnows'
            BY <2>1, <3>1 DEF journalVars, JournalKnows, AtTail, J!Healthy, J!EffectiveFirst,
                              J!IsAnchor
        <3> QED
            BY <2>1, <3>2, <3>3 DEF LogRests, journalVars
    <2> QED
        BY <2>1, JournalGoesOn
<1>2. /\ Distinct(H) /\ LogTells(H)' /\ AnchorsKept' /\ SnapshotsWithin(H)'
      /\ UNCHANGED answers => AnswersWithin(H)'
      /\ FloorLast \in Nat /\ FloorLast' \in Nat /\ Keeps(H, H, FloorLast, FloorLast')
    BY <1>1, FilesKept
<1> QED
    BY <1>1, <1>2 DEF LogRests, ShardStands

\* The shard is closed or coming up: nothing is known of its memory.
LEMMA DownStands ==
    ASSUME NEW H \in Histories,
           Distinct(H), LogTells(H)', AnchorsKept', SnapshotsWithin(H)', AnswersWithin(H)',
           JournalKnows', step' \in {"down", "opening", "defining"},
           captures' \subseteq Captures, epoch' \in Nat,
           \A capture \in captures' : ~ capture.mine
    PROVE  ShardStands(H)'
<1>1. CapturesWithin(H)'
    BY DEF CapturesWithin
<1>2. StepKnows(H)'
    BY DEF StepKnows
<1> QED
    BY <1>1, <1>2 DEF ShardStands

LEMMA ComesUp ==
    ASSUME NEW H \in Histories, ShardStands(H),
           \/ OpenStart \/ OpenScan \/ OpenScanFails \/ OpenDefined \/ RecoverStaging
    PROVE  ShardStands(H)' /\ UNCHANGED answers
<1>1. /\ UNCHANGED <<current, device, pending, promoted, answers, captures, epoch>>
      /\ step \in {"down", "defining"} /\ step' \in {"down", "opening"}
    BY DEF OpenStart, OpenScan, OpenScanFails, OpenDefined, RecoverStaging,
           snapshotVars, shardVars
<1>2. J!AcquireLease \/ J!OpenClean \/ J!OpenRepair \/ J!OpenFails
      \/ J!AppendBarrier \/ J!RecoverPending
    BY DEF OpenStart, OpenScan, OpenScanFails, OpenDefined, RecoverStaging
<1>3. /\ Distinct(H) /\ LogTells(H)' /\ AnchorsKept' /\ SnapshotsWithin(H)'
      /\ JournalKnows' /\ AnswersWithin(H)' /\ CapturesWithin(H)
    BY <1>1, <1>2, QuietStep
<1>4. captures' \subseteq Captures /\ epoch' \in Nat /\ \A capture \in captures' : ~ capture.mine
    BY <1>1, <1>3 DEF CapturesWithin
<1> QED
    BY <1>1, <1>3, <1>4, DownStands

LEMMA GoesDown ==
    ASSUME NEW H \in Histories, ShardStands(H), OpenAbandons \/ ProcessDies \/ Close
    PROVE  ShardStands(H)' /\ UNCHANGED answers
<1>1. /\ UNCHANGED <<current, device, pending, promoted, answers>> /\ step' = "down" /\ epoch' = 0
      /\ J!ProcessEnds \/ J!Close
    BY DEF OpenAbandons, ProcessDies, Close, ShardGone, S!ProcessEnds, snapshotVars
<1>2. /\ Distinct(H) /\ LogTells(H)' /\ AnchorsKept' /\ SnapshotsWithin(H)'
      /\ JournalKnows' /\ AnswersWithin(H)' /\ CapturesWithin(H)
    BY <1>1, QuietStep
<1>3. captures' \subseteq Captures /\ \A capture \in captures' : ~ capture.mine
    <2>1. CASE OpenAbandons
        BY <1>2, <2>1 DEF OpenAbandons, CapturesWithin
    <2>2. CASE ProcessDies
        BY <2>2 DEF ProcessDies
    <2>3. CASE Close
        <3>1. captures' = {[capture EXCEPT !.mine = FALSE] : capture \in captures}
            BY <2>3 DEF Close
        <3>2. captures \subseteq Captures
            BY <1>2 DEF CapturesWithin
        <3>3. \A capture \in Captures : /\ [capture EXCEPT !.mine = FALSE] \in Captures
                                        /\ ~ [capture EXCEPT !.mine = FALSE].mine
            BY DEF Captures
        <3> QED
            BY <3>1, <3>2, <3>3
    <2> QED
        BY <2>1, <2>2, <2>3
<1>4. epoch' \in Nat
    BY <1>1
<1> QED
    BY <1>1, <1>2, <1>3, <1>4, DownStands

\* The numbers a writer at the end of its log holds.
LEMMA TailNumbers ==
    ASSUME NEW H \in Histories, LogTells(H), wal # <<>>, AtTail(0)
    PROVE  /\ first = wal[1].seq /\ first \in Nat \ {0} /\ next - 1 = LastOf(wal)
           /\ end = Len(wal) /\ end \in Nat \ {0}
           /\ LastOf(wal) = first + end - 1 /\ LastOf(wal) \in Nat /\ next = LastOf(wal) + 1
<1>1. Tells(wal, H)
    BY DEF LogTells, FileTells
<1>2. /\ Len(wal) \in Nat \ {0} /\ wal[1].seq \in Nat \ {0}
      /\ LastOf(wal) = wal[1].seq + Len(wal) - 1
    BY <1>1, HeadOf
<1>3. first = wal[1].seq
    BY FloorFacts DEF AtTail
<1>4. end = Len(wal) /\ next = first + end
    BY <1>2 DEF AtTail
<1> QED
    BY <1>2, <1>3, <1>4

\* Behind a barrier no failure takes anything of the log.
LEMMA AllOnDevice ==
    ASSUME NEW H \in Histories, LogTells(H), wal' = wal,
           PowerFailures => synced' = Len(wal)
    PROVE  FloorLast' = LastOf(wal)
<1>1. FileTells(wal, H) /\ Len(wal) \in 0 .. Len(wal)
    BY FloorFacts DEF LogTells
<1>2. LastKept(wal, Len(wal)) = LastOf(wal)
    BY <1>1, Numbers
<1> QED
    BY <1>2 DEF FloorLast, LastKept

LEMMA BarrierOnDevice ==
    ASSUME J!AppendBarrier \/ J!Sync \/ \E b : J!CutoverBegin(b)
    PROVE  wal' = wal /\ (PowerFailures => synced' = Len(wal))
BY ShardAssumption DEF ShardAssumption, J!AppendBarrier, J!Sync, J!CutoverBegin, J!DeviceBarrier

\* A history is what precedes its last command, and that command.
LEMMA Extended ==
    ASSUME NEW H \in Histories, H # <<>>
    PROVE  /\ Len(H) \in Nat \ {0} /\ H[Len(H)] \in Commands /\ H[Len(H)] \in Range(H)
           /\ Append(SubSeq(H, 1, Len(H) - 1), H[Len(H)]) = H
<1>1. H \in Seq(Commands) /\ Len(H) \in Nat \ {0} /\ H[Len(H)] \in Commands
      /\ Len(H) \in DOMAIN H
    BY DEF Histories
<1> DEFINE m == Len(H) - 1
           front == SubSeq(H, 1, m)
           whole == Append(front, H[Len(H)])
<1>2. m \in 0 .. Len(H) /\ m + 1 = Len(H) /\ m \in Nat
    BY <1>1
<1> HIDE DEF m
<1>3. front \in Seq(Commands) /\ Len(front) = m /\ \A i \in 1 .. m : front[i] = H[i]
    BY <1>1, <1>2
<1> HIDE DEF front
<1>4. /\ whole \in Seq(Commands) /\ Len(whole) = Len(H)
      /\ \A i \in 1 .. m : whole[i] = front[i]
      /\ whole[Len(H)] = H[Len(H)]
    BY <1>1, <1>2, <1>3
<1> HIDE DEF whole
<1>5. \A i \in 1 .. Len(H) : whole[i] = H[i]
    <2> TAKE i \in 1 .. Len(H)
    <2>1. i = Len(H) \/ i \in 1 .. m
        BY <1>1, <1>2
    <2> QED
        BY <1>3, <1>4, <2>1
<1>6. whole = H
    BY <1>1, <1>4, <1>5
<1> QED
    BY <1>1, <1>6 DEF Range, whole, front, m

\* A shard that goes on with the captures it has.
LEMMA GoesOn ==
    ASSUME NEW H \in Histories,
           Distinct(H), LogTells(H)', AnchorsKept', SnapshotsWithin(H)', AnswersWithin(H)',
           JournalKnows', CapturesWithin(H),
           FloorLast \in Nat, FloorLast' \in Nat, Keeps(H, H, FloorLast, FloorLast'),
           captures' \subseteq captures, UNCHANGED epoch, StepKnows(H)',
           \/ step \in {"down", "opening", "defining", "resuming"}
           \/ /\ step' \notin {"down", "opening", "defining", "resuming"}
              /\ first' = first /\ EndGrows
    PROVE  ShardStands(H)'
<1>1. CapturesWithin(H)'
    BY CapturesKept
<1> QED
    BY <1>1 DEF ShardStands

LEMMA OpeningGoesOn ==
    ASSUME NEW H \in Histories, ShardStands(H),
           OpenResumed \/ \E withCheckpoint \in BOOLEAN : OpenResumeFails(withCheckpoint)
    PROVE  ShardStands(H)' /\ UNCHANGED answers
<1>1. /\ UNCHANGED <<current, device, pending, promoted, answers, captures, epoch, slot, book>>
      /\ step \in {"opening", "resuming"}
    BY DEF OpenResumed, OpenResumeFails, shardVars, snapshotVars
<1>2. J!AppendBarrier \/ \E body, cut : J!AppendWriteFails(<<body>>, 0, cut)
    BY DEF OpenResumed, OpenResumeFails
<1>3. /\ Distinct(H) /\ LogTells(H)' /\ AnchorsKept' /\ SnapshotsWithin(H)' /\ wal' = wal
      /\ JournalKnows' /\ AnswersWithin(H)' /\ CapturesWithin(H) /\ JournalKnows /\ StepKnows(H)
      /\ FloorLast \in Nat /\ FloorLast' \in Nat /\ Keeps(H, H, FloorLast, FloorLast')
    BY <1>1, <1>2, QuietStep
<1>4. StepKnows(H)'
    <2>1. CASE OpenResumed
        <3>1. step = "resuming" /\ step' = "ready" /\ phase = "barrier" /\ phase' = "idle"
              /\ poisoned' = poisoned
            BY <2>1 DEF OpenResumed, J!AppendBarrier
        <3>2. J!Healthy'
            BY <1>3, <3>1 DEF JournalKnows, J!Healthy
        <3>3. Logged(H)' /\ slot' = HeadSlot(wal)'
            BY <1>1, <1>3, <3>1 DEF StepKnows, Logged, LastOf, HeadSlot, HeadIsAnchor
        <3> QED
            BY <3>1, <3>2, <3>3 DEF StepKnows, Settled
    <2>2. CASE step' = "opening"
        BY <2>2 DEF StepKnows
    <2> QED
        BY <2>1, <2>2 DEF OpenResumeFails, shardVars
<1> QED
    BY <1>1, <1>3, <1>4, GoesOn

\* Calls that fail and halt the shard.
LEMMA CallsHalt ==
    ASSUME NEW H \in Histories, ShardStands(H),
           SubmitCommandFails \/ SubmitReportFails \/ SyncFails
    PROVE  ShardStands(H)' /\ UNCHANGED answers
<1>1. /\ UNCHANGED <<current, device, pending, promoted, answers, captures, epoch, slot, book>>
      /\ step \in {"ready", "command", "report"} /\ step' = "ready"
    BY DEF SubmitCommandFails, SubmitReportFails, SyncFails, Ready, Executed, snapshotVars
<1>2. /\ UNCHANGED <<first, end>> /\ halted' = TRUE
      /\ \/ J!AppendBarrierFails \/ J!SyncFails \/ UNCHANGED journalVars
         \/ \E body, cut : J!AppendWriteFails(<<body>>, 0, cut)
    BY DEF SubmitCommandFails, SubmitReportFails, SyncFails, J!AppendBarrierFails, J!SyncFails,
           J!AppendWriteFails, J!handle, journalVars
<1>3. /\ Distinct(H) /\ LogTells(H)' /\ AnchorsKept' /\ SnapshotsWithin(H)'
      /\ JournalKnows' /\ AnswersWithin(H)' /\ CapturesWithin(H)
      /\ FloorLast \in Nat /\ FloorLast' \in Nat /\ Keeps(H, H, FloorLast, FloorLast')
    BY <1>1, <1>2, QuietStep
<1>4. StepKnows(H)'
    BY <1>1, <1>2 DEF StepKnows
<1>5. EndGrows
    BY <1>2 DEF EndGrows
<1> QED
    BY <1>1, <1>2, <1>3, <1>4, <1>5, GoesOn

\* The command on the device is executed.
LEMMA Executes ==
    ASSUME NEW H \in Histories, ShardStands(H), SubmitExecutes
    PROVE  ShardStands(H)' /\ UNCHANGED answers
<1>1. /\ UNCHANGED <<current, device, pending, promoted, answers, captures, epoch, slot, command>>
      /\ step = "command" /\ step' = "command" /\ J!AppendBarrier
      /\ command \notin Range(book) /\ book' = Append(book, command)
    BY DEF SubmitExecutes, snapshotVars
<1>2. /\ Distinct(H) /\ LogTells(H)' /\ AnchorsKept' /\ SnapshotsWithin(H)' /\ wal' = wal
      /\ JournalKnows' /\ AnswersWithin(H)' /\ CapturesWithin(H) /\ JournalKnows /\ StepKnows(H)
      /\ FloorLast \in Nat /\ FloorLast' \in Nat /\ Keeps(H, H, FloorLast, FloorLast')
    BY <1>1, QuietStep
<1>3. Committing(H)
    BY <1>1, <1>2 DEF StepKnows
<1>4. book' = H
    <2>1. command \in Range(H) /\ Append(SubSeq(H, 1, Len(H) - 1), command) = H
        BY <1>3, Extended DEF Committing
    <2> QED
        BY <1>1, <1>3, <2>1 DEF Committing
<1>5. StepKnows(H)'
    <2>1. Committing(H)'
        BY <1>1, <1>2, <1>3, <1>4 DEF Committing, LastOf, HeadSlot, HeadIsAnchor
    <2> QED
        BY <1>1, <2>1 DEF StepKnows
<1>6. first' = first /\ EndGrows
    BY <1>1, <1>2 DEF J!AppendBarrier, JournalKnows, AtTail, EndGrows
<1> QED
    BY <1>1, <1>2, <1>5, <1>6, GoesOn

\* An answer is given for the last command, which no failure takes back now.
LEMMA Answers ==
    ASSUME NEW H \in Histories, ShardStands(H), SubmitAnswers
    PROVE  /\ ShardStands(H)' /\ H # <<>>
           /\ answers' = answers \cup {[cmd |-> H[Len(H)], at |-> Len(H)]}
<1>1. /\ UNCHANGED <<current, device, pending, promoted, captures, epoch, slot, book>>
      /\ step = "report" /\ step' = "ready" /\ J!AppendBarrier
      /\ answers' = answers \cup {[cmd |-> command, at |-> Len(book)]}
    BY DEF SubmitAnswers, snapshotVars
<1>2. /\ Distinct(H) /\ LogTells(H)' /\ AnchorsKept' /\ SnapshotsWithin(H)' /\ wal' = wal
      /\ JournalKnows' /\ CapturesWithin(H) /\ JournalKnows /\ StepKnows(H) /\ LogTells(H)
      /\ FloorLast \in Nat /\ FloorLast' \in Nat /\ Keeps(H, H, FloorLast, FloorLast')
    BY <1>1, QuietStep
<1>3. Logged(H) /\ slot = HeadSlot(wal) /\ H # <<>> /\ command = H[Len(H)]
    BY <1>1, <1>2 DEF StepKnows
<1>4. StepKnows(H)'
    <2>1. J!Healthy'
        BY <1>1, <1>2 DEF J!AppendBarrier, JournalKnows, J!Healthy
    <2>2. Logged(H)' /\ slot' = HeadSlot(wal)'
        BY <1>1, <1>2, <1>3 DEF Logged, LastOf, HeadSlot, HeadIsAnchor
    <2> QED
        BY <1>1, <2>1, <2>2 DEF StepKnows, Settled
<1>5. first' = first /\ EndGrows
    BY <1>1, <1>2 DEF J!AppendBarrier, JournalKnows, AtTail, EndGrows
<1>6. AnswersWithin(H)'
    <2>1. FloorLast' = 2 * Len(H) + 1 /\ Len(H) \in Nat \ {0}
        <3>1. FloorLast' = LastOf(wal)
            BY <1>1, <1>2, AllOnDevice, BarrierOnDevice
        <3> QED
            BY <1>3, <3>1, Extended DEF Logged
    <2>2. \A a \in answers : a.at \in 1 .. Len(H) /\ H[a.at] = a.cmd
        BY DEF ShardStands, AnswersWithin
    <2>3. ASSUME NEW at \in 1 .. Len(H) PROVE 2 * at + 1 <= FloorLast'
        BY <2>1
    <2>4. answers' = answers \cup {[cmd |-> H[Len(H)], at |-> Len(H)]}
        BY <1>1, <1>3 DEF Logged
    <2>5. Len(H) \in 1 .. Len(H)
        BY <2>1
    <2> QED
        BY <2>2, <2>3, <2>4, <2>5 DEF AnswersWithin
<1>7. ShardStands(H)'
    BY <1>1, <1>2, <1>4, <1>5, <1>6, GoesOn
<1> QED
    BY <1>1, <1>3, <1>7 DEF Logged

\* A capture stands for everything the shard executed.
LEMMA Captured ==
    ASSUME NEW H \in Histories, ShardStands(H), Capture
    PROVE  ShardStands(H)' /\ UNCHANGED answers
<1>0. PICK new : new = [gen |-> next - 1, history |-> book, boundary |-> J!CurrentBoundary,
                        epoch |-> epoch, mine |-> TRUE]
    OBVIOUS
<1>1. PICK kept \in SUBSET captures : captures' = kept \cup {new}
    BY <1>0 DEF Capture
<1>2. /\ UNCHANGED <<current, device, pending, promoted, answers, epoch, slot, book, halted>>
      /\ step = "ready" /\ step' = "ready" /\ J!Sync /\ ~ halted
      /\ UNCHANGED <<first, end, next, phase, poisoned>>
    BY DEF Capture, Ready, snapshotVars, J!Sync, J!handle
<1>3. /\ Distinct(H) /\ LogTells(H)' /\ AnchorsKept' /\ SnapshotsWithin(H)' /\ wal' = wal
      /\ JournalKnows' /\ AnswersWithin(H)' /\ CapturesWithin(H) /\ JournalKnows /\ StepKnows(H)
      /\ LogTells(H)
      /\ FloorLast \in Nat /\ FloorLast' \in Nat /\ Keeps(H, H, FloorLast, FloorLast')
    BY <1>2, QuietStep
<1>4. Settled(H)
    BY <1>2, <1>3 DEF StepKnows
<1>5. StepKnows(H)'
    BY <1>2, <1>3, <1>4 DEF StepKnows, Settled, Logged, LastOf, HeadSlot, HeadIsAnchor, J!Healthy
<1>6. /\ first \in Nat \ {0} /\ next - 1 = LastOf(wal) /\ end \in Nat \ {0}
      /\ LastOf(wal) = first + end - 1 /\ LastOf(wal) \in Nat
    BY <1>3, <1>4, TailNumbers DEF Settled, Logged, JournalKnows
<1>7. LastOf(wal) = 2 * Len(H) + 1 /\ FloorLast' = LastOf(wal) /\ book = H /\ Len(H) \in Nat
    BY <1>2, <1>3, <1>4, AllOnDevice, BarrierOnDevice DEF Settled, Logged, Histories
<1>8. new \in Captures
    BY <1>0, <1>3, <1>6, <1>7 DEF Captures, J!CurrentBoundary, J!Boundaries, CapturesWithin
<1>9. CaptureStands(new, H)'
    <2>1. CheckpointWithin(CheckpointOf(new), H, FloorLast')
        <3> DEFINE checkpoint == CheckpointOf(new)
        <3>1. /\ checkpoint = [gen |-> 2 * Len(H) + 1, history |-> H]
              /\ FloorLast' = 2 * Len(H) + 1
            BY <1>0, <1>6, <1>7 DEF CheckpointOf
        <3>2. SubSeq(H, 1, Len(H)) = H
            BY DEF Histories
        <3> HIDE DEF checkpoint
        <3>3. /\ checkpoint \in S!Contents /\ checkpoint.gen = 2 * Len(H) + 1
              /\ checkpoint.history = H /\ 2 * Len(H) + 1 <= 2 * Len(H) + 1
            BY <1>7, <3>1 DEF S!Contents, Histories
        <3>4. CheckpointWithin(checkpoint, H, 2 * Len(H) + 1)
            BY <1>7, <3>2, <3>3 DEF CheckpointWithin
        <3> QED
            BY <3>1, <3>4 DEF checkpoint
    <2>2. /\ new.boundary.first = first' /\ new.boundary.end \in 1 .. end'
          /\ new.boundary.seq = new.gen /\ new.gen = first' + new.boundary.end - 1
        BY <1>0, <1>2, <1>6 DEF J!CurrentBoundary
    <2> QED
        BY <2>1, <2>2 DEF CaptureStands
<1>10. CapturesWithin(H)'
    <2>1. EndGrows
        BY <1>2 DEF EndGrows
    <2>2. ASSUME NEW capture \in captures, capture.mine
          PROVE  /\ capture.epoch <= epoch
                 /\ capture.epoch = epoch => CaptureStands(capture, H)'
        <3>1. capture.epoch <= epoch /\ (capture.epoch = epoch => CaptureStands(capture, H))
            BY <1>3, <2>2 DEF CapturesWithin
        <3>2. ASSUME CaptureStands(capture, H) PROVE CaptureStands(capture, H)'
            BY <1>2, <1>3, <2>1, <3>2, CaptureKept
        <3> QED
            BY <3>1, <3>2
    <2>3. captures' \subseteq Captures /\ epoch \in Nat /\ new.epoch = epoch
        BY <1>0, <1>1, <1>3, <1>8 DEF CapturesWithin
    <2>4. \A capture \in captures' :
             capture.mine => /\ capture.epoch <= epoch
                             /\ capture.epoch = epoch => CaptureStands(capture, H)'
        BY <1>1, <1>2, <1>9, <2>2, <2>3
    <2> QED
        BY <1>2, <2>3, <2>4 DEF CapturesWithin
<1> QED
    BY <1>2, <1>3, <1>5, <1>10 DEF ShardStands

----------------------------------------------------------------------------
(* Steps that leave the journal alone *)

\* What an unmoved journal keeps.
LEMMA JournalRests ==
    ASSUME NEW H \in Histories, ShardStands(H), UNCHANGED journalVars
    PROVE  /\ Distinct(H) /\ LogTells(H) /\ LogTells(H)' /\ JournalKnows /\ JournalKnows'
           /\ UNCHANGED answers => AnswersWithin(H)'
           /\ SnapshotsWithin(H) /\ Within(H)' = Within(H) /\ AnchorsKept
           /\ CapturesWithin(H) /\ StepKnows(H)
           /\ FloorLast \in Nat /\ FloorLast' = FloorLast /\ Keeps(H, H, FloorLast, FloorLast')
<1>1. /\ Distinct(H) /\ LogTells(H) /\ JournalKnows /\ AnswersWithin(H) /\ SnapshotsWithin(H)
      /\ CapturesWithin(H) /\ StepKnows(H) /\ AnchorsKept
    BY DEF ShardStands
<1>2. FloorLast' = FloorLast
    BY DEF FloorLast, LastKept, journalVars
<1>3. synced \in synced .. Len(wal) /\ FloorLast \in Nat
    BY <1>1, FloorFacts
<1>4. LogTells(H)' /\ Keeps(H, H, FloorLast, FloorLast')
    BY <1>1, <1>3, LogKept DEF LogRests, journalVars
<1>5. JournalKnows'
    BY <1>1 DEF journalVars, JournalKnows, AtTail, J!Healthy, J!EffectiveFirst, J!IsAnchor
<1>6. Within(H)' = Within(H)
    BY <1>2 DEF Within
<1>7. UNCHANGED answers => AnswersWithin(H)'
    BY <1>1, <1>2 DEF AnswersWithin
<1> QED
    BY <1>1, <1>2, <1>3, <1>4, <1>5, <1>6, <1>7

LEMMA StoreGoesOn ==
    ASSUME NEW H \in Histories, ShardStands(H),
           UNCHANGED <<journalVars, answers, epoch>>, captures' \subseteq captures,
           SnapshotsWithin(H)', AnchorsKept', StepKnows(H)',
           \/ step \in {"down", "opening", "defining", "resuming"}
           \/ step' \notin {"down", "opening", "defining", "resuming"}
    PROVE  ShardStands(H)' /\ UNCHANGED answers
<1>1. first' = first /\ EndGrows /\ UNCHANGED <<answers, epoch>>
    BY DEF journalVars, EndGrows
<1>2. /\ Distinct(H) /\ LogTells(H)' /\ JournalKnows' /\ AnswersWithin(H)' /\ CapturesWithin(H)
      /\ FloorLast \in Nat /\ FloorLast' \in Nat /\ Keeps(H, H, FloorLast, FloorLast')
    BY <1>1, JournalRests
<1>3. ShardStands(H)'
    BY <1>1, <1>2, GoesOn
<1> QED
    BY <1>1, <1>3

\* A slot that no anchor names may change.
LEMMA AnchorsStay ==
    ASSUME AnchorsKept, UNCHANGED <<wal, former>>, NEW t,
           \A s \in Targets \ {t} : /\ current'[s] = current[s]
                                    /\ device'[s] \in {device[s], current[s]}
                                    /\ pending'[s] = pending[s],
           HeadIsAnchor(wal) => wal[1].body.slot # t,
           former # NoFile /\ HeadIsAnchor(former) => former[1].body.slot # t
    PROVE  AnchorsKept'
<1> DEFINE Stays(file) ==
              /\ AnchorHolds(file, current') \/ Torn(file, current')
              /\ HeadIsAnchor(file) => /\ file[1].body.slot \in Targets
                                       /\ device'[file[1].body.slot] = current'[file[1].body.slot]
                                       /\ pending'[file[1].body.slot] = NoFile
<1>1. ASSUME NEW file, AnchorKept(file), HeadIsAnchor(file) => file[1].body.slot # t
      PROVE  Stays(file)
    <2>1. CASE ~ HeadIsAnchor(file)
        BY <2>1 DEF AnchorHolds
    <2>2. CASE HeadIsAnchor(file)
        <3> DEFINE s == file[1].body.slot
        <3>1. /\ s \in Targets \ {t} /\ device[s] = current[s] /\ pending[s] = NoFile
              /\ AnchorHolds(file, current) \/ Torn(file, current)
            BY <1>1, <2>2 DEF AnchorKept
        <3>2. current'[s] = current[s] /\ device'[s] = current'[s] /\ pending'[s] = NoFile
            BY <3>1
        <3>3. AnchorHolds(file, current') \/ Torn(file, current')
            BY <3>1, <3>2 DEF AnchorHolds, Torn
        <3> QED
            BY <3>1, <3>2, <3>3
    <2> QED
        BY <2>1, <2>2
<1>2. Stays(wal)
    BY <1>1 DEF AnchorsKept
<1>3. former # NoFile => Stays(former)
    BY <1>1 DEF AnchorsKept
<1>4. wal' = wal /\ former' = former
    OBVIOUS
<1>5. Stays(wal) => AnchorKept(wal)'
    BY <1>4 DEF AnchorKept, AnchorHolds, Torn, HeadIsAnchor
<1>6. Stays(former) => AnchorKept(former)'
    BY <1>4 DEF AnchorKept, AnchorHolds, Torn, HeadIsAnchor
<1> QED
    BY <1>2, <1>3, <1>4, <1>5, <1>6 DEF AnchorsKept

\* Nothing moves, or a verification failed.
LEMMA ShardRests ==
    ASSUME NEW H \in Histories, ShardStands(H),
           UNCHANGED vars \/ \E capture \in captures : VerifyFails(capture)
    PROVE  ShardStands(H)' /\ UNCHANGED answers
<1>1. /\ UNCHANGED <<journalVars, current, device, pending, promoted, write, answers, epoch,
                     step, book, command, slot, using>>
      /\ captures' \subseteq captures
      /\ ~ halted' => ~ halted
    <2>1. CASE UNCHANGED vars
        BY <2>1 DEF vars, snapshotVars, shardVars
    <2>2. ASSUME NEW capture \in captures, VerifyFails(capture)
          PROVE  <1>1!1 /\ <1>1!2 /\ <1>1!3
        <3>1. halted' = (halted \/ capture.mine) /\ captures' = captures \ {capture}
            BY <2>2 DEF VerifyFails
        <3>2. ~ halted' => ~ halted
            BY <3>1
        <3> QED
            BY <2>2, <3>1, <3>2 DEF VerifyFails, snapshotVars
    <2> QED
        BY <2>1, <2>2
<1>3. /\ SnapshotsWithin(H) /\ AnchorsKept /\ StepKnows(H) /\ Within(H)' = Within(H)
      /\ FloorLast' = FloorLast
    BY <1>1, JournalRests
<1>4. SnapshotsWithin(H)'
    BY <1>1, <1>3 DEF SnapshotsWithin
<1>5. AnchorsKept'
    BY <1>1, <1>3 DEF AnchorsKept, AnchorKept, AnchorHolds, Torn, journalVars
<1>6. StepKnows(H)'
    <2>1. /\ UNCHANGED <<wal, tail, synced, former, staging, phase, poisoned, next, first, end,
                         boundary, current, device, pending, promoted, write,
                         step, book, command, slot, using>>
        BY <1>1 DEF journalVars
    <2>2. Settled(H) => Settled(H)'
        BY <2>1 DEF Settled, Logged, J!Healthy, LastOf, HeadSlot, HeadIsAnchor
    <2>3. CaptureStands(using, H) => CaptureStands(using, H)'
        BY <2>1, <1>3 DEF CaptureStands
    <2>4. Writing => Writing'
        BY <2>1 DEF Writing, Alternate
    <2>5. SlotWritten => SlotWritten'
        BY <2>1 DEF SlotWritten, Alternate
    <2>6. Anchoring(H) => Anchoring(H)'
        BY <2>1 DEF Anchoring, Logged, LastOf, HeadSlot, HeadIsAnchor, AtTail,
                    J!EffectiveFirst, J!IsAnchor, TheHead, TheAnchor, Alternate
    <2>7. Committing(H) => Committing(H)'
        BY <2>1 DEF Committing, LastOf, HeadSlot, HeadIsAnchor
    <2>8. Logged(H) /\ slot = HeadSlot(wal) => Logged(H)' /\ slot' = HeadSlot(wal)'
        BY <2>1 DEF Logged, LastOf, HeadSlot, HeadIsAnchor
    <2> QED
        BY <1>1, <1>3, <2>1, <2>2, <2>3, <2>4, <2>5, <2>6, <2>7, <2>8 DEF StepKnows
<1> QED
    BY <1>1, <1>4, <1>5, <1>6, StoreGoesOn

\* The slot a cutover writes is not the one the log selects.
LEMMA OtherSlot ==
    ASSUME NEW H \in Histories, ShardStands(H), Settled(H)
    PROVE  /\ former = NoFile /\ Tells(wal, H)
           /\ HeadIsAnchor(wal) => wal[1].body.slot # Alternate /\ wal[1].body.slot # "base"
<1>1. Tells(wal, H)
    BY DEF ShardStands, Settled, Logged, LogTells, FileTells
<1>2. former = NoFile
    BY DEF ShardStands, Settled, JournalKnows, AtTail
<1>3. ASSUME HeadIsAnchor(wal)
      PROVE  wal[1].body.slot # Alternate /\ wal[1].body.slot # "base"
    <2>1. slot = wal[1].body.slot /\ slot \in {"A", "B"}
        BY <1>1, <1>3, HeadOf DEF Settled
    <2> QED
        BY <2>1 DEF Alternate
<1> QED
    BY <1>1, <1>2, <1>3

\* A capture the shard accepts begins a snapshot.
LEMMA WriteBegins ==
    ASSUME NEW H \in Histories, ShardStands(H), NEW capture \in captures,
           WriteCheckpoint(capture) \/ CompactBegin(capture)
    PROVE  ShardStands(H)' /\ UNCHANGED answers
<1> DEFINE t == IF step' = "writing" THEN "base" ELSE Alternate
           value == CheckpointOf(capture)
<1>1. /\ UNCHANGED <<journalVars, answers, captures, epoch, book, command, slot, halted,
                     current, pending, promoted>>
      /\ step = "ready" /\ ~ halted /\ step' \in {"writing", "snapshot"} /\ using' = capture
      /\ Acceptable(capture) /\ t \in Targets
      /\ write' = [target |-> t, value |-> value, step |-> S!Verdict(t, value)]
      /\ device' = current
    BY DEF WriteCheckpoint, CompactBegin, Ready, S!WriteBegin
<1>2. /\ SnapshotsWithin(H) /\ AnchorsKept /\ StepKnows(H) /\ CapturesWithin(H)
      /\ Within(H)' = Within(H) /\ FloorLast' = FloorLast
    BY <1>1, JournalRests
<1>3. Settled(H)
    BY <1>1, <1>2 DEF StepKnows
<1>4. CaptureStands(capture, H) /\ capture \in Captures
    BY <1>1, <1>2 DEF Acceptable, CapturesWithin
<1>5. SnapshotsWithin(H)'
    BY <1>1, <1>2 DEF SnapshotsWithin
<1>6. AnchorsKept'
    BY <1>1, <1>2 DEF AnchorsKept, AnchorKept, AnchorHolds, Torn, journalVars
<1>7. /\ S!Verdict(t, value) \in {"failed", "stage", "done"}
      /\ S!Verdict(t, value) = "done" => S!Read(current[t]) = value /\ pending[t] = NoFile
    <2> HIDE DEF t, value
    <2> QED
        BY DEF S!Verdict
<1>8. value \in S!Contents
    BY <1>4 DEF CaptureStands, CheckpointWithin
<1>9. Writing'
    <2>1. /\ write' \in [target : Targets, value : S!Contents, step : S!Steps]
          /\ write'.value = CheckpointOf(using') /\ write'.step = S!Verdict(t, value)
          /\ write'.target = t
        <3> HIDE DEF t, value
        <3>1. write' \in [target : Targets, value : S!Contents, step : S!Steps]
            BY <1>1, <1>7, <1>8 DEF S!Steps
        <3> QED
            BY <1>1, <3>1 DEF value
    <2>2. t = IF step' = "writing" THEN "base" ELSE Alternate'
        BY <1>1 DEF Alternate
    <2>3. /\ write'.step \notin {"rename", "sync"}
          /\ write'.step = "done" => /\ S!Read(current'[write'.target]) = write'.value
                                     /\ device'[write'.target] = current'[write'.target]
                                     /\ pending'[write'.target] = NoFile
        <3> HIDE DEF t, value
        <3> QED
            BY <1>1, <1>7, <2>1
    <2> HIDE DEF t, value
    <2> QED
        BY <2>1, <2>2, <2>3 DEF Writing
<1>10. StepKnows(H)'
    <2>1. Settled(H)' /\ CaptureStands(capture, H)'
        BY <1>1, <1>2, <1>3, <1>4 DEF journalVars, Settled, Logged, J!Healthy, LastOf, HeadSlot,
                                     HeadIsAnchor, CaptureStands
    <2>2. CaptureStands(using, H)' /\ using' \in Captures
        BY <1>1, <1>4, <2>1 DEF CaptureStands
    <2> QED
        BY <1>1, <1>9, <2>1, <2>2 DEF StepKnows
<1>11. captures' \subseteq captures /\ UNCHANGED <<journalVars, answers, epoch>>
    BY <1>1
<1> QED
    BY <1>1, <1>5, <1>6, <1>10, <1>11, StoreGoesOn

\* A snapshot is on its way.
LEMMA WriteGoesOn ==
    ASSUME NEW H \in Histories, ShardStands(H), SnapshotStep
    PROVE  ShardStands(H)' /\ UNCHANGED answers
<1>0. PICK t, value : t = write.target /\ value = write.value
    OBVIOUS
<1>1. /\ UNCHANGED <<journalVars, answers, captures, epoch, step, book, command, slot, halted,
                     using>>
      /\ step \in {"writing", "snapshot"}
      /\ S!Stage \/ S!StageFails \/ S!Rename \/ S!RenameFails
         \/ S!DirectorySync \/ S!DirectorySyncFails
    BY DEF SnapshotStep, shardVars
<1>2. /\ SnapshotsWithin(H) /\ AnchorsKept /\ StepKnows(H)
      /\ Within(H)' = Within(H) /\ FloorLast' = FloorLast
    BY <1>1, JournalRests
<1>3. Settled(H) /\ CaptureStands(using, H) /\ using \in Captures /\ Writing
    BY <1>1, <1>2 DEF StepKnows
<1>4. /\ t \in Targets /\ value \in S!Contents /\ value = CheckpointOf(using)
      /\ \A b \in BOOLEAN : S!Stored(value, b) \in Within(H)
      /\ t = (IF step = "writing" THEN "base" ELSE Alternate)
      /\ write = [target |-> t, value |-> value, step |-> write.step]
    <2>1. t \in Targets /\ value \in S!Contents /\ value = CheckpointOf(using)
        BY <1>0, <1>3 DEF Writing
    <2>2. /\ t = (IF step = "writing" THEN "base" ELSE Alternate)
          /\ write = [target |-> t, value |-> value, step |-> write.step]
        BY <1>0, <1>3 DEF Writing
    <2>3. CheckpointWithin(value, H, FloorLast)
        BY <1>3, <2>1 DEF CaptureStands
    <2>4. \A b \in BOOLEAN : S!Stored(value, b) \in S!Files /\ S!Read(S!Stored(value, b)) = value
        BY <2>1, FileFacts
    <2>5. \A b \in BOOLEAN : S!Stored(value, b) \in Within(H)
        BY <2>3, <2>4 DEF Within
    <2> QED
        BY <2>1, <2>2, <2>5
<1>11. PICK file, part : file = S!Stored(value, TRUE) /\ part = S!Stored(value, FALSE)
    OBVIOUS
<1>12. /\ file \in Within(H) /\ part \in Within(H) /\ Sound(file) /\ S!Read(file) = value
       /\ file # NoFile
    <2>1. file \in S!Files /\ file.synced /\ S!Read(file) = value /\ file # NoFile
        BY <1>4, <1>11, FileFacts
    <2> QED
        BY <1>4, <1>11, <2>1 DEF Sound
<1>13. /\ write.step = "rename" => pending[t] = file
       /\ write.step = "sync" => current[t] = file /\ pending[t] = NoFile
    BY <1>0, <1>3, <1>11 DEF Writing
<1>5. /\ current' = current \/ (write.step = "rename" /\ current' = [current EXCEPT ![t] = file])
      /\ \/ device' = device /\ promoted' = promoted
         \/ write.step = "sync" /\ device' = current /\ current' = current
            /\ promoted' = promoted \ {t}
      /\ \E left \in {file, part, NoFile, Partial} :
            pending' \in {pending, [pending EXCEPT ![t] = left]}
      /\ \E s \in S!Steps : write' = [target |-> t, value |-> value, step |-> s]
    <2>1. CASE S!Stage
        BY <1>0, <1>4, <1>11, <2>1 DEF S!Stage, S!Steps
    <2>2. CASE S!StageFails
        BY <1>0, <1>4, <1>11, <2>2 DEF S!StageFails, S!Steps
    <2>3. CASE S!Rename
        BY <1>0, <1>4, <1>13, <2>3 DEF S!Rename, S!Steps
    <2>4. CASE S!RenameFails
        BY <1>0, <1>4, <2>4 DEF S!RenameFails, S!Steps
    <2>5. CASE S!DirectorySync
        <3>1. /\ write.step = "sync" /\ device' = current /\ current' = current
              /\ promoted' = promoted \ {t} /\ pending' = pending
              /\ \E result \in {"done", "failed"} : write' = [write EXCEPT !.step = result]
            BY <1>0, <2>5 DEF S!DirectorySync
        <3>2. PICK result \in {"done", "failed"} : write' = [write EXCEPT !.step = result]
            BY <3>1
        <3>3. write' = [target |-> t, value |-> value, step |-> result]
            BY <1>4, <3>2
        <3> QED
            BY <3>1, <3>3 DEF S!Steps
    <2>6. CASE S!DirectorySyncFails
        BY <1>0, <1>4, <2>6 DEF S!DirectorySyncFails, S!Steps
    <2> QED
        BY <1>1, <2>1, <2>2, <2>3, <2>4, <2>5, <2>6
<1>6. SnapshotsWithin(H)'
    <2>1. /\ current' \in [Targets -> Within(H) \cup {NoFile, Partial}]
          /\ device' \in [Targets -> Within(H) \cup {NoFile, Partial}]
        BY <1>2, <1>4, <1>5, <1>12 DEF SnapshotsWithin
    <2>2. pending' \in [Targets -> Within(H) \cup {NoFile, Partial}]
        BY <1>2, <1>4, <1>5, <1>12 DEF SnapshotsWithin
    <2>3. ASSUME NEW s \in Targets \ promoted' PROVE Sound(current'[s]) /\ Sound(device'[s])
        <3>1. CASE device' = device /\ promoted' = promoted
            <4>1. Sound(current[s]) /\ Sound(device[s])
                BY <1>2, <2>3, <3>1 DEF SnapshotsWithin
            <4>2. current'[s] \in {current[s], file}
                BY <1>2, <1>5, <2>3 DEF SnapshotsWithin
            <4> QED
                BY <1>12, <3>1, <4>1, <4>2
        <3>2. CASE write.step = "sync" /\ device' = current /\ current' = current
                   /\ promoted' = promoted \ {t}
            <4>1. s = t \/ s \in Targets \ promoted
                BY <2>3, <3>2
            <4>2. Sound(current[s])
                BY <1>2, <1>12, <1>13, <3>2, <4>1 DEF SnapshotsWithin
            <4> QED
                BY <3>2, <4>2
        <3> QED
            BY <1>5, <3>1, <3>2
    <2>4. /\ current' \in [Targets -> Within(H)' \cup {NoFile, Partial}]
          /\ device' \in [Targets -> Within(H)' \cup {NoFile, Partial}]
          /\ pending' \in [Targets -> Within(H)' \cup {NoFile, Partial}]
        BY <1>2, <2>1, <2>2
    <2> QED
        BY <2>3, <2>4 DEF SnapshotsWithin, Sound
<1>7. AnchorsKept'
    <2>1. /\ former = NoFile
          /\ HeadIsAnchor(wal) => wal[1].body.slot # t
          /\ UNCHANGED <<wal, former>>
        BY <1>1, <1>3, <1>4, OtherSlot DEF journalVars
    <2>2. \A s \in Targets \ {t} : /\ current'[s] = current[s]
                                   /\ device'[s] \in {device[s], current[s]}
                                   /\ pending'[s] = pending[s]
        BY <1>2, <1>5 DEF SnapshotsWithin
    <2> QED
        BY <1>2, <2>1, <2>2, AnchorsStay
<1>8. Writing'
    <2>1. /\ write' \in [target : Targets, value : S!Contents, step : S!Steps]
          /\ write'.value = CheckpointOf(using') /\ write'.target = t /\ write'.value = value
        BY <1>1, <1>4, <1>5
    <2>2. t = IF step' = "writing" THEN "base" ELSE Alternate'
        BY <1>1, <1>4 DEF Alternate
    <2>3. /\ write'.step = "rename" => pending'[t] = file
          /\ write'.step = "sync" => current'[t] = file
          /\ write'.step \in {"sync", "done"} => pending'[t] = NoFile
          /\ write'.step = "done" => S!Read(current'[t]) = value /\ device'[t] = current'[t]
        <3>0. DOMAIN pending = Targets /\ DOMAIN current = Targets
            BY <1>2 DEF SnapshotsWithin
        <3>1. CASE S!StageFails \/ S!RenameFails \/ S!DirectorySyncFails
            BY <1>4, <3>1 DEF S!StageFails, S!RenameFails, S!DirectorySyncFails
        <3>2. CASE S!Stage
            BY <1>0, <1>4, <1>11, <3>0, <3>2 DEF S!Stage
        <3>3. CASE S!Rename
            BY <1>0, <1>4, <1>13, <3>0, <3>3 DEF S!Rename
        <3>4. CASE S!DirectorySync
            <4>1. /\ current' = current /\ device' = current /\ pending' = pending
                  /\ write.step = "sync" /\ write'.step \in {"done", "failed"}
                BY <1>4, <3>4 DEF S!DirectorySync
            <4> QED
                BY <1>12, <1>13, <4>1
        <3> QED
            BY <1>1, <3>1, <3>2, <3>3, <3>4
    <2>4. S!Stored(value, TRUE) = file
        BY <1>11
    <2> QED
        BY <2>1, <2>2, <2>3, <2>4 DEF Writing
<1>9. StepKnows(H)'
    <2>1. Settled(H)' /\ CaptureStands(using, H)'
        BY <1>1, <1>2, <1>3 DEF journalVars, Settled, Logged, J!Healthy, LastOf, HeadSlot,
                               HeadIsAnchor, CaptureStands
    <2> QED
        BY <1>1, <1>3, <1>8, <2>1 DEF StepKnows
<1>10. captures' \subseteq captures /\ UNCHANGED <<journalVars, answers, epoch>>
    BY <1>1
<1> QED
    BY <1>1, <1>6, <1>7, <1>9, <1>10, StoreGoesOn

LEMMA WriteReturns ==
    ASSUME NEW H \in Histories, ShardStands(H), SnapshotReturns
    PROVE  ShardStands(H)' /\ UNCHANGED answers
<1>1. /\ UNCHANGED <<journalVars, answers, captures, epoch, book, command, slot, halted,
                     current, device, pending, promoted>>
      /\ step \in {"writing", "snapshot"} /\ step' \in {"ready", "cutover"}
      /\ step' = "cutover" => step = "snapshot" /\ write.step = "done" /\ using' = using
    BY DEF SnapshotReturns, S!Return
<1>2. /\ SnapshotsWithin(H) /\ AnchorsKept /\ StepKnows(H)
      /\ Within(H)' = Within(H) /\ FloorLast' = FloorLast
    BY <1>1, JournalRests
<1>3. Settled(H) /\ CaptureStands(using, H) /\ using \in Captures /\ Writing
    BY <1>1, <1>2 DEF StepKnows
<1>4. SnapshotsWithin(H)' /\ AnchorsKept'
    <2>1. SnapshotsWithin(H)'
        BY <1>1, <1>2 DEF SnapshotsWithin, Sound
    <2>2. AnchorsKept'
        BY <1>1, <1>2 DEF AnchorsKept, AnchorKept, AnchorHolds, Torn, journalVars
    <2> QED
        BY <2>1, <2>2
<1>5. StepKnows(H)'
    <2>1. Settled(H)'
        BY <1>1, <1>3 DEF journalVars, Settled, Logged, J!Healthy, LastOf, HeadSlot, HeadIsAnchor
    <2>2. ASSUME step' = "cutover"
          PROVE  using' \in Captures /\ CaptureStands(using, H)' /\ SlotWritten'
        <3>1. using' = using /\ step = "snapshot" /\ write.step = "done"
            BY <1>1, <2>2
        <3>2. CaptureStands(using, H)'
            BY <1>1, <1>2, <1>3, <3>1 DEF journalVars, CaptureStands
        <3>3. SlotWritten'
            BY <1>1, <1>3, <3>1 DEF Writing, SlotWritten, Alternate
        <3> QED
            BY <1>3, <3>1, <3>2, <3>3
    <2> QED
        BY <1>1, <2>1, <2>2 DEF StepKnows
<1>6. captures' \subseteq captures /\ UNCHANGED <<journalVars, answers, epoch>>
    BY <1>1
<1> QED
    BY <1>1, <1>4, <1>5, <1>6, StoreGoesOn

\* An operator decides about a staged snapshot: no anchor names its slot.
LEMMA SnapshotRecovered ==
    ASSUME NEW H \in Histories, ShardStands(H), NEW t \in Targets, RecoverSnapshot(t)
    PROVE  ShardStands(H)' /\ UNCHANGED answers
<1>1. /\ UNCHANGED <<journalVars, answers, captures, epoch, step>> /\ step = "down"
      /\ pending[t] # NoFile
      /\ \/ S!Discard(t)
         \/ S!IsValid(pending[t]) /\ S!Promote(t)
    BY DEF RecoverSnapshot, shardVars, S!RecoverPending
<1>2. /\ SnapshotsWithin(H) /\ AnchorsKept /\ Within(H)' = Within(H)
    BY <1>1, JournalRests
<1>8. PICK file : file = pending[t]
    OBVIOUS
<1>3. /\ \/ current' = current /\ promoted' = promoted
         \/ /\ current' = [current EXCEPT ![t] = file]
            /\ S!IsValid(file)
            /\ promoted' = IF S!Unsynchronized(file) THEN promoted \cup {t} ELSE promoted
      /\ device' \in {current, current'} /\ pending' = [pending EXCEPT ![t] = NoFile]
    BY <1>1, <1>8 DEF S!Discard, S!Promote
<1>9. /\ file \in Within(H) \cup {NoFile, Partial}
      /\ S!IsValid(file) => file \in S!Files
    BY <1>2, <1>8 DEF SnapshotsWithin, S!IsValid, Within
<1>4. SnapshotsWithin(H)'
    <2>1. /\ current' \in [Targets -> Within(H) \cup {NoFile, Partial}]
          /\ device' \in [Targets -> Within(H) \cup {NoFile, Partial}]
        BY <1>2, <1>3, <1>9 DEF SnapshotsWithin
    <2>2. pending' \in [Targets -> Within(H) \cup {NoFile, Partial}]
        BY <1>2, <1>3 DEF SnapshotsWithin
    <2>3. ASSUME NEW s \in Targets \ promoted' PROVE Sound(current'[s]) /\ Sound(device'[s])
        <3>1. s \in Targets \ promoted
            BY <1>3, <2>3
        <3>2. Sound(current[s])
            BY <1>2, <3>1 DEF SnapshotsWithin
        <3>3. Sound(current'[s])
            <4>1. CASE current' = current
                BY <3>2, <4>1
            <4>2. CASE /\ current' = [current EXCEPT ![t] = file]
                       /\ S!IsValid(file)
                       /\ promoted' = IF S!Unsynchronized(file) THEN promoted \cup {t} ELSE promoted
                <5>1. s = t => ~ S!Unsynchronized(file)
                    BY <2>3, <4>2
                <5>2. s = t => Sound(file)
                    BY <1>9, <4>2, <5>1 DEF S!Unsynchronized, Sound, S!Files
                <5>3. current'[s] = IF s = t THEN file ELSE current[s]
                    BY <1>2, <3>1, <4>2 DEF SnapshotsWithin
                <5> QED
                    BY <3>2, <5>2, <5>3
            <4> QED
                BY <1>3, <4>1, <4>2
        <3> QED
            BY <1>3, <3>2, <3>3
    <2>4. /\ current' \in [Targets -> Within(H)' \cup {NoFile, Partial}]
          /\ device' \in [Targets -> Within(H)' \cup {NoFile, Partial}]
          /\ pending' \in [Targets -> Within(H)' \cup {NoFile, Partial}]
        BY <1>2, <2>1, <2>2
    <2> QED
        BY <2>3, <2>4 DEF SnapshotsWithin, Sound
<1>5. AnchorsKept'
    <2>1. /\ HeadIsAnchor(wal) => wal[1].body.slot # t
          /\ former # NoFile /\ HeadIsAnchor(former) => former[1].body.slot # t
          /\ UNCHANGED <<wal, former>>
        BY <1>1, <1>2 DEF AnchorsKept, AnchorKept, journalVars
    <2>2. \A s \in Targets \ {t} : /\ current'[s] = current[s]
                                   /\ device'[s] \in {device[s], current[s]}
                                   /\ pending'[s] = pending[s]
        BY <1>2, <1>3 DEF SnapshotsWithin
    <2> QED
        BY <1>2, <2>1, <2>2, AnchorsStay
<1>6. StepKnows(H)'
    BY <1>1 DEF StepKnows
<1>7. captures' \subseteq captures /\ UNCHANGED <<journalVars, answers, epoch>>
    BY <1>1
<1> QED
    BY <1>1, <1>4, <1>5, <1>6, <1>7, StoreGoesOn

----------------------------------------------------------------------------
(* Steps that write a frame *)

\* A frame more, which the history asks for.
LEMMA FrameStands ==
    ASSUME NEW H \in Histories, NEW G \in Histories, ShardStands(H), NEW body,
           J!AppendWrite(<<body>>), Tells(wal', G), LastOf(wal') = LastOf(wal) + 1,
           Len(wal') = Len(wal) + 1, Begins(H, G, Len(H)), Distinct(G),
           wal # <<>> => wal'[1] = wal[1],
           wal = <<>> => ~ HeadIsAnchor(wal') /\ wal'[1].seq = 1,
           UNCHANGED <<current, device, pending, promoted, answers, captures, epoch>>,
           step' \in {"defining", "resuming", "command", "report"},
           step' \in {"defining", "resuming"} => step = "opening",
           StepKnows(G)'
    PROVE  ShardStands(G)'
<1>1. /\ LogTells(H) /\ SnapshotsWithin(H) /\ AnswersWithin(H) /\ CapturesWithin(H)
      /\ AnchorsKept /\ JournalKnows
    BY DEF ShardStands
<1>2. /\ inflight' = 1 /\ phase' = "barrier" /\ J!Healthy /\ AtTail(0)
      /\ UNCHANGED <<tail, synced, former, staging, poisoned, next, first, end,
                     boundary, promised>>
    BY FrameWritten
<1>3. /\ FloorLast \in Nat /\ FloorLast <= LastOf(wal) /\ LastOf(wal) \in Nat
      /\ LastOf(wal) <= 2 * Len(H) + 1 /\ Len(wal) \in Nat /\ synced \in 0 .. Len(wal)
      /\ Len(H) \in Nat
      /\ J!EffectiveFirst(wal) = IF wal = <<>> THEN 1 ELSE wal[1].seq
      /\ wal = <<>> <=> Len(wal) = 0
    BY <1>1, FloorFacts
<1>10. FileTells(wal', G) /\ wal' # <<>>
    BY DEF FileTells, Tells
<1>11. Len(wal') \in Nat /\ synced' \in 0 .. Len(wal') /\ Len(wal') \in 0 .. Len(wal')
    BY <1>2, <1>3
<1>4. LogTells(G)'
    <2>1. FileTells(wal', G) /\ synced' \in 0 .. Len(wal')
        BY <1>10, <1>11
    <2>2. former' = NoFile
        BY <1>2 DEF AtTail
    <2> QED
        BY <2>1, <2>2 DEF LogTells
<1>5. FloorLast' \in Nat /\ Keeps(H, G, FloorLast, FloorLast')
    <2>1. FloorLast' \in Nat /\ FloorLast <= FloorLast'
        <3>1. CASE PowerFailures
            <4>1. FloorLast' = FloorLast
                BY <1>2, <1>3, <3>1 DEF FloorLast, LastKept
            <4> QED
                BY <1>3, <4>1
        <3>2. CASE ~ PowerFailures
            <4>2. LastKept(wal', Len(wal')) = LastOf(wal')
                BY <1>10, <1>11, Numbers
            <4>3. FloorLast' = LastOf(wal) + 1
                BY <3>2, <4>2 DEF FloorLast, LastKept
            <4> QED
                BY <1>3, <4>3
        <3> QED
            BY <3>1, <3>2
    <2> DEFINE last == FloorLast
               now == FloorLast'
    <2>2. last \in Nat /\ now \in Nat /\ last <= now /\ last <= 2 * Len(H) + 1
        <3> DEFINE whole == LastOf(wal)
        <3>1. last <= whole /\ whole <= 2 * Len(H) + 1 /\ whole \in Nat
            BY <1>3
        <3> HIDE DEF whole
        <3> QED
            BY <1>3, <2>1, <3>1
    <2> HIDE DEF last, now
    <2>3. Keeps(H, G, last, now)
        BY <2>2, KeepsMore
    <2> QED
        BY <2>1, <2>3 DEF last, now
<1>6. JournalKnows'
    <2>1. J!EffectiveFirst(wal') = J!EffectiveFirst(wal)
        <3>1. J!EffectiveFirst(wal') = IF wal' = <<>> THEN 1 ELSE wal'[1].seq
            BY <1>10, FirstOf
        <3> QED
            BY <1>3, <1>10, <3>1
    <2>2. J!EffectiveFirst(wal)' = J!EffectiveFirst(wal')
        BY DEF J!EffectiveFirst, J!IsAnchor
    <2>3. AtTail(1)'
        BY <1>2, <1>3, <2>1, <2>2 DEF AtTail
    <2> QED
        BY <1>2, <2>3 DEF JournalKnows, J!Healthy
<1>7. AnchorsKept'
    <2>1. wal = <<>> => ~ HeadIsAnchor(wal)
        BY DEF HeadIsAnchor
    <2>2. HeadIsAnchor(wal') => HeadIsAnchor(wal) /\ wal'[1] = wal[1]
        BY DEF HeadIsAnchor
    <2>3. former' = NoFile
        BY <1>2 DEF AtTail
    <2>4. AnchorKept(wal)'
        <3>1. AnchorKept(wal)
            BY <1>1 DEF AnchorsKept
        <3>2. CASE HeadIsAnchor(wal')
            BY <2>2, <3>1, <3>2 DEF AnchorKept, AnchorHolds, Torn, HeadIsAnchor
        <3>3. CASE ~ HeadIsAnchor(wal')
            BY <3>3 DEF AnchorKept, AnchorHolds, HeadIsAnchor
        <3> QED
            BY <3>2, <3>3
    <2> QED
        BY <2>3, <2>4 DEF AnchorsKept
<1>8. SnapshotsWithin(G)' /\ AnswersWithin(G)'
    BY <1>1, <1>3, <1>5, SnapshotsKept, AnswersKept
<1>9. CapturesWithin(G)'
    <2>1. \/ step \in {"down", "opening", "defining", "resuming"}
          \/ step' \notin {"down", "opening", "defining", "resuming"}
        OBVIOUS
    <2>2. captures' \subseteq captures /\ UNCHANGED epoch /\ first' = first /\ EndGrows
        BY <1>2 DEF EndGrows
    <2> QED
        BY <1>1, <1>3, <1>5, <2>1, <2>2, CapturesKept
<1> QED
    BY <1>4, <1>6, <1>7, <1>8, <1>9 DEF ShardStands

\* An empty log begins with the definition.
LEMMA Defines ==
    ASSUME NEW H \in Histories, ShardStands(H), OpenDefines
    PROVE  ShardStands(H)' /\ UNCHANGED answers
<1>1. /\ UNCHANGED <<current, device, pending, promoted, answers, captures, epoch>> /\ step = "opening"
      /\ end = 0
    BY DEF OpenDefines, snapshotVars
<1>2. CASE J!AppendWriteFails(<<Definition>>, 0, "torn") /\ UNCHANGED step
    <2>1. /\ Distinct(H) /\ LogTells(H)' /\ AnchorsKept' /\ SnapshotsWithin(H)'
          /\ JournalKnows' /\ AnswersWithin(H)' /\ CapturesWithin(H)
        BY <1>1, <1>2, QuietStep
    <2>2. captures' \subseteq Captures /\ epoch' \in Nat /\ \A capture \in captures' : ~ capture.mine
        BY <1>1, <2>1 DEF CapturesWithin
    <2> QED
        BY <1>1, <1>2, <2>1, <2>2, DownStands
<1>3. CASE J!AppendWrite(<<Definition>>) /\ step' = "defining"
    <2>1. AtTail(0) /\ (wal = <<>> => wal' = <<[seq |-> 1, body |-> Definition]>>)
        BY <1>3, FrameWritten
    <2>2. wal = <<>> /\ H = <<>>
        <3>1. Len(wal) = 0 /\ wal \in Seq(Frames)
            BY <1>1, <2>1, FloorFacts DEF AtTail, ShardStands
        <3> QED
            BY <3>1 DEF ShardStands, LogTells, FileTells
    <2>3. /\ Tells(wal', H) /\ LastOf(wal') = 1 /\ ~ HeadIsAnchor(wal')
          /\ wal'[1].seq = 1 /\ Len(wal') = 1
        BY <2>1, <2>2, TellsNothing
    <2>4. LastOf(wal) = 0 /\ Len(wal) = 0 /\ Begins(H, H, Len(H)) /\ Distinct(H)
        BY <2>2 DEF LastOf, Begins, Distinct
    <2>5. StepKnows(H)'
        BY <1>3 DEF StepKnows
    <2>6. LastOf(wal') = LastOf(wal) + 1 /\ Len(wal') = Len(wal) + 1
        BY <2>3, <2>4
    <2>7. ShardStands(H)'
        BY <1>1, <1>3, <2>2, <2>3, <2>4, <2>5, <2>6, FrameStands
    <2> QED
        BY <1>1, <2>7
<1> QED
    BY <1>2, <1>3 DEF OpenDefines

\* A new command goes behind all others.
LEMMA CommandLogged ==
    ASSUME NEW H \in Histories, ShardStands(H), NEW c \in Commands, SubmitCommand(c)
    PROVE  /\ Append(H, c) \in Histories /\ ShardStands(Append(H, c))' /\ UNCHANGED answers
           /\ c \notin Range(H)
<1> DEFINE G == Append(H, c)
           body == CommandRecord(c)
<1>1. /\ UNCHANGED <<current, device, pending, promoted, answers, captures, epoch, slot, book>>
      /\ step = "ready" /\ ~ halted /\ step' = "command" /\ command' = c
      /\ c \notin Range(book) /\ J!AppendWrite(<<body>>)
    BY DEF SubmitCommand, Ready, snapshotVars
<1>2. Settled(H) /\ LogTells(H) /\ Distinct(H)
    BY <1>1 DEF ShardStands, StepKnows
<1>3. /\ book = H /\ wal # <<>> /\ LastOf(wal) = 2 * Len(H) + 1 /\ Tells(wal, H)
      /\ slot = HeadSlot(wal) /\ H \in Seq(Commands) /\ Len(H) \in Nat
    BY <1>2 DEF Settled, Logged, LogTells, FileTells, Histories
<1>4. /\ G \in Histories /\ Len(G) = Len(H) + 1 /\ G[Len(H) + 1] = c /\ G # <<>>
      /\ \A i \in 1 .. Len(H) : G[i] = H[i]
    BY <1>3 DEF Histories
<1>5. Begins(H, G, Len(H))
    BY <1>3, <1>4 DEF Begins
<1> HIDE DEF G
<1>6. Distinct(G)
    <2> SUFFICES ASSUME NEW i \in 1 .. Len(G), NEW j \in 1 .. Len(G), G[i] = G[j] PROVE i = j
        BY DEF Distinct
    <2>1. \A k \in 1 .. Len(G) : k \in 1 .. Len(H) \/ k = Len(H) + 1
        BY <1>3, <1>4
    <2>2. \A k \in 1 .. Len(H) : G[k] = H[k] /\ H[k] # c
        BY <1>1, <1>3, <1>4 DEF Range
    <2> QED
        BY <1>2, <1>4, <2>1, <2>2 DEF Distinct
<1>7. body \in Bodies
    BY DEF Bodies, CommandRecord
<1> HIDE DEF body
<1>8. LastOf(wal) + 1 = 2 * Len(G)
    BY <1>3, <1>4
<1>9. \A k \in 1 .. Len(G) :
         /\ LastOf(wal) + 1 = 2 * k => body = CommandRecord(G[k])
         /\ LastOf(wal) + 1 = 2 * k + 1 => body = Report(G[k], k)
    <2> SUFFICES ASSUME NEW k \in 1 .. Len(G)
                 PROVE  /\ 2 * Len(G) = 2 * k => body = CommandRecord(G[k])
                        /\ 2 * Len(G) = 2 * k + 1 => body = Report(G[k], k)
        BY <1>8
    <2>1. 2 * Len(G) # 2 * k + 1 /\ (2 * Len(G) = 2 * k => k = Len(H) + 1)
        BY <1>3, <1>4
    <2> QED
        BY <1>4, <2>1 DEF body
<1>10. wal' = wal \o <<[seq |-> LastOf(wal) + 1, body |-> body]>>
    BY <1>1, FrameWritten
<1>11. /\ Tells(wal', G) /\ LastOf(wal') = LastOf(wal) + 1
       /\ wal'[1] = wal[1] /\ Len(wal') = Len(wal) + 1
    BY <1>3, <1>4, <1>5, <1>7, <1>8, <1>9, <1>10, TellsMore
<1>12. StepKnows(G)'
    <2>1. HeadSlot(wal)' = HeadSlot(wal) /\ wal' # <<>>
        BY <1>3, <1>11 DEF HeadSlot, HeadIsAnchor, Tells
    <2>2. LastOf(wal)' = 2 * Len(G)
        BY <1>8, <1>11 DEF LastOf
    <2>3. SubSeq(G, 1, Len(G) - 1) = H
        <3>1. Len(G) - 1 = Len(H)
            BY <1>3, <1>4
        <3>2. SubSeq(G, 1, Len(H)) = H
            BY <1>3, <1>4 DEF Histories
        <3> QED
            BY <3>1, <3>2
    <2>4. Committing(G)'
        BY <1>1, <1>3, <1>4, <2>1, <2>2, <2>3 DEF Committing
    <2> QED
        BY <1>1, <2>4 DEF StepKnows
<1>13. ShardStands(G)'
    BY <1>1, <1>3, <1>4, <1>5, <1>6, <1>11, <1>12, FrameStands
<1> QED
    BY <1>1, <1>3, <1>4, <1>13 DEF G

\* The report of the last command is written behind it.
LEMMA ReportLogged ==
    ASSUME NEW H \in Histories, ShardStands(H), wal # <<>>, H # <<>>, LastOf(wal) = 2 * Len(H),
           J!AppendWrite(<<Report(H[Len(H)], Len(H))>>),
           UNCHANGED <<current, device, pending, promoted, answers, captures, epoch>>,
           step' \in {"resuming", "report"}, step' = "resuming" => step = "opening",
           book' = H, slot' = HeadSlot(wal), step' = "report" => command' = H[Len(H)]
    PROVE  ShardStands(H)'
<1> DEFINE body == Report(H[Len(H)], Len(H))
<1>1. Tells(wal, H) /\ Distinct(H)
    BY DEF ShardStands, LogTells, FileTells
<1>2. Len(H) \in Nat \ {0} /\ H[Len(H)] \in Commands
    BY Extended
<1>3. body \in Bodies
    BY <1>2 DEF Bodies, Report
<1>4. wal' = wal \o <<[seq |-> LastOf(wal) + 1, body |-> body]>>
    BY FrameWritten
<1> HIDE DEF body
<1>5. Begins(H, H, Len(H)) /\ LastOf(wal) + 1 = 2 * Len(H) + 1
    BY <1>2 DEF Begins
<1>6. \A k \in 1 .. Len(H) :
         /\ LastOf(wal) + 1 = 2 * k => body = CommandRecord(H[k])
         /\ LastOf(wal) + 1 = 2 * k + 1 => body = Report(H[k], k)
    <2> SUFFICES ASSUME NEW k \in 1 .. Len(H)
                 PROVE  /\ 2 * Len(H) + 1 = 2 * k => body = CommandRecord(H[k])
                        /\ 2 * Len(H) + 1 = 2 * k + 1 => body = Report(H[k], k)
        BY <1>5
    <2>1. 2 * Len(H) + 1 # 2 * k /\ (2 * Len(H) + 1 = 2 * k + 1 => k = Len(H))
        BY <1>2
    <2> QED
        BY <2>1 DEF body
<1>7. /\ Tells(wal', H) /\ LastOf(wal') = LastOf(wal) + 1
      /\ wal'[1] = wal[1] /\ Len(wal') = Len(wal) + 1
    BY <1>1, <1>3, <1>4, <1>5, <1>6, TellsMore
<1>8. StepKnows(H)'
    <2>1. HeadSlot(wal)' = HeadSlot(wal) /\ wal' # <<>>
        BY <1>7 DEF HeadSlot, HeadIsAnchor, Tells
    <2>2. LastOf(wal)' = 2 * Len(H) + 1
        BY <1>5, <1>7 DEF LastOf
    <2>3. Logged(H)' /\ slot' = HeadSlot(wal)'
        BY <2>1, <2>2 DEF Logged
    <2> QED
        BY <2>3 DEF StepKnows
<1>9. J!AppendWrite(<<body>>)
    BY DEF body
<1> QED
    BY <1>1, <1>5, <1>7, <1>8, <1>9, FrameStands

LEMMA Reports ==
    ASSUME NEW H \in Histories, ShardStands(H), SubmitReport
    PROVE  ShardStands(H)' /\ UNCHANGED answers
<1>1. /\ UNCHANGED <<current, device, pending, promoted, answers, captures, epoch, slot, book, command>>
      /\ step = "command" /\ step' = "report" /\ command \in Range(book)
      /\ J!AppendWrite(<<Report(command, Len(book))>>)
    BY DEF SubmitReport, Executed, ReportFrame, snapshotVars
<1>2. Committing(H) /\ Distinct(H)
    BY <1>1 DEF ShardStands, StepKnows
<1>3. book = H
    <2> SUFFICES ASSUME book = SubSeq(H, 1, Len(H) - 1) PROVE FALSE
        BY <1>2 DEF Committing
    <2> DEFINE m == Len(H) - 1
    <2>1. m \in 0 .. Len(H) /\ m + 1 = Len(H) /\ Len(H) \in Nat /\ Len(H) \in 1 .. Len(H)
        BY <1>2, Extended DEF Committing
    <2> HIDE DEF m
    <2>2. Range(SubSeq(H, 1, m)) = {H[i] : i \in 1 .. m}
        <3>1. Len(SubSeq(H, 1, m)) = m /\ DOMAIN SubSeq(H, 1, m) = 1 .. m
              /\ \A i \in 1 .. m : SubSeq(H, 1, m)[i] = H[i]
            BY <2>1 DEF Histories
        <3> QED
            BY <3>1 DEF Range
    <2>3. PICK i \in 1 .. m : H[i] = command
        BY <1>1, <2>2 DEF m
    <2>4. i \in 1 .. Len(H) /\ i # Len(H)
        BY <2>1
    <2> QED
        BY <1>2, <2>1, <2>3, <2>4 DEF Committing, Distinct
<1>4. J!AppendWrite(<<Report(H[Len(H)], Len(H))>>) /\ wal # <<>> /\ H # <<>>
      /\ LastOf(wal) = 2 * Len(H) /\ slot' = HeadSlot(wal) /\ command' = H[Len(H)] /\ book' = H
    BY <1>1, <1>2, <1>3 DEF Committing
<1>5. ShardStands(H)'
    BY <1>1, <1>4, ReportLogged
<1> QED
    BY <1>1, <1>5

\* What the files of a standing shard are read back as.
LEMMA BaseWithin ==
    ASSUME NEW H \in Histories, ShardStands(H)
    PROVE  \A t \in Targets : S!Read(current[t]) # NoFile =>
              /\ S!Read(current[t]) \in S!Contents
              /\ CheckpointWithin(S!Read(current[t]), H, LastOf(wal))
<1> SUFFICES ASSUME NEW t \in Targets, S!Read(current[t]) # NoFile
             PROVE  /\ S!Read(current[t]) \in S!Contents
                    /\ CheckpointWithin(S!Read(current[t]), H, LastOf(wal))
    OBVIOUS
<1>1. CheckpointWithin(S!Read(current[t]), H, FloorLast) /\ current[t] \in S!Files
    <2>1. current[t] \in Within(H) \cup {NoFile, Partial}
        BY DEF ShardStands, SnapshotsWithin
    <2> QED
        BY <2>1, FileFacts DEF Within
<1>2. S!Read(current[t]) \in S!Contents
    BY <1>1, FileFacts
<1> DEFINE c == S!Read(current[t])
           a == FloorLast
           b == LastOf(wal)
           g == c.gen
<1>3. c \in S!Contents /\ CheckpointWithin(c, H, a)
    BY <1>1, <1>2
<1> HIDE DEF c
<1>4. a \in Nat /\ b \in Nat /\ a <= b /\ g \in Nat /\ g <= a
    BY <1>3, FloorFacts DEF ShardStands, S!Contents, CheckpointWithin
<1>5. g <= b
    <2> HIDE DEF a, b, g
    <2> QED
        BY <1>4
<1>6. CheckpointWithin(c, H, b)
    BY <1>3, <1>5 DEF CheckpointWithin
<1> QED
    BY <1>2, <1>6 DEF c

LEMMA OpeningReads ==
    ASSUME NEW H \in Histories, ShardStands(H), wal # <<>>, NEW withCheckpoint \in BOOLEAN,
           Recovery(wal, current, withCheckpoint).ok
    PROVE  LET recovered == Recovery(wal, current, withCheckpoint) IN
           /\ recovered.book = BookOf(wal, H) /\ recovered.dangling = DanglingOf(wal, H)
           /\ recovered.slot = HeadSlot(wal)
<1>1. Distinct(H) /\ Tells(wal, H) /\ AnchorHolds(wal, current)
    <2>1. Distinct(H) /\ Tells(wal, H) /\ (AnchorHolds(wal, current) \/ Torn(wal, current))
        BY DEF ShardStands, LogTells, FileTells, AnchorsKept, AnchorKept
    <2> QED
        BY <2>1, RefusesTorn
<1>2. "base" \in Targets /\ S!Read(current["base"]) # NoFile =>
         /\ S!Read(current["base"]) \in S!Contents
         /\ CheckpointWithin(S!Read(current["base"]), H, LastOf(wal))
    BY BaseWithin
<1> QED
    BY <1>1, <1>2, RecoveryReads

\* The shard comes up with the history of its log.
LEMMA Replays ==
    ASSUME NEW H \in Histories, ShardStands(H), NEW withCheckpoint \in BOOLEAN,
           OpenReplays(withCheckpoint)
    PROVE  ShardStands(H)' /\ UNCHANGED answers
<1>0. PICK recovered : recovered = Recovery(wal, current, withCheckpoint)
    OBVIOUS
<1>1. /\ UNCHANGED <<current, device, pending, promoted, answers, captures, epoch, halted>>
      /\ step = "opening" /\ J!Healthy /\ end # 0 /\ recovered.ok /\ slot' = recovered.slot
      /\ IF recovered.dangling = NoFile
         THEN book' = recovered.book /\ step' = "ready" /\ UNCHANGED journalVars
         ELSE /\ book' = Append(recovered.book, recovered.dangling) /\ step' = "resuming"
              /\ J!AppendWrite(<<Report(recovered.dangling, Len(recovered.book) + 1)>>)
    BY <1>0 DEF OpenReplays, snapshotVars
<1>2. wal # <<>>
    <2>1. AtTail(0)
        BY <1>1 DEF ShardStands, JournalKnows
    <2>2. end = Len(wal)
        BY <2>1 DEF AtTail
    <2> QED
        BY <1>1, <2>2
<1>3. /\ recovered.book = BookOf(wal, H) /\ recovered.dangling = DanglingOf(wal, H)
      /\ slot' = HeadSlot(wal)
    BY <1>0, <1>1, <1>2, OpeningReads
<1>4. /\ Tells(wal, H) /\ LastOf(wal) \in {2 * Len(H), 2 * Len(H) + 1}
      /\ LastOf(wal) = 2 * Len(H) => H # <<>>
    <2>1. Tells(wal, H)
        BY <1>2 DEF ShardStands, LogTells, FileTells
    <2>2. LastOf(wal) # 0
        <3>1. /\ wal[1].seq \in Nat \ {0} /\ Len(wal) \in Nat \ {0}
              /\ LastOf(wal) = wal[1].seq + Len(wal) - 1
            BY <2>1, HeadOf
        <3> QED
            BY <3>1
    <2>3. LastOf(wal) = 2 * Len(H) => H # <<>>
        <3>1. Len(<<>>) = 0
            OBVIOUS
        <3> QED
            BY <2>2, <3>1
    <2>4. LastOf(wal) \in {2 * Len(H), 2 * Len(H) + 1}
        BY <2>1 DEF Tells
    <2> QED
        BY <2>1, <2>3, <2>4
<1>5. CASE recovered.dangling = NoFile
    <2>1. LastOf(wal) = 2 * Len(H) + 1
        <3>1. LastOf(wal) = 2 * Len(H) => H[Len(H)] # NoFile
            BY <1>4, Extended, ShardAssumption DEF ShardAssumption
        <3> QED
            BY <1>3, <1>4, <1>5, <3>1 DEF DanglingOf
    <2>2. book' = H
        <3>1. LastOf(wal) # 2 * Len(H)
            BY <2>1 DEF Histories
        <3> QED
            BY <1>1, <1>3, <1>5, <3>1 DEF BookOf
    <2>3. UNCHANGED journalVars /\ step' = "ready"
        BY <1>1, <1>5
    <2>4. /\ SnapshotsWithin(H) /\ AnchorsKept /\ Within(H)' = Within(H)
        BY <2>3, JournalRests
    <2>5. SnapshotsWithin(H)' /\ AnchorsKept'
        BY <1>1, <2>3, <2>4 DEF SnapshotsWithin, AnchorsKept, AnchorKept, AnchorHolds, Torn, journalVars
    <2>6. StepKnows(H)'
        <3>1. Settled(H)'
            BY <1>1, <1>2, <1>3, <2>1, <2>2, <2>3 DEF journalVars, Settled, Logged, J!Healthy,
                                                 LastOf, HeadSlot, HeadIsAnchor
        <3> QED
            BY <2>3, <3>1 DEF StepKnows
    <2>7. captures' \subseteq captures /\ UNCHANGED <<journalVars, answers, epoch>>
        BY <1>1, <2>3
    <2> QED
        BY <1>1, <2>5, <2>6, <2>7, StoreGoesOn
<1>6. CASE recovered.dangling # NoFile
    <2>1. LastOf(wal) = 2 * Len(H) /\ recovered.dangling = H[Len(H)] /\ H # <<>>
          /\ recovered.book = SubSeq(H, 1, Len(H) - 1)
        BY <1>3, <1>4, <1>6 DEF DanglingOf, BookOf
    <2>2. book' = H
        BY <1>1, <1>6, <2>1, Extended
    <2>3. Len(recovered.book) + 1 = Len(H)
        <3> DEFINE m == Len(H) - 1
        <3>1. H \in Seq(Commands) /\ m \in 0 .. Len(H) /\ m + 1 = Len(H)
            BY <2>1, Extended DEF Histories
        <3> HIDE DEF m
        <3>2. Len(SubSeq(H, 1, m)) = m
            BY <3>1
        <3> QED
            BY <2>1, <3>1, <3>2 DEF m
    <2>4. /\ J!AppendWrite(<<Report(H[Len(H)], Len(H))>>) /\ step' = "resuming"
        BY <1>1, <1>6, <2>1, <2>3
    <2>5. ShardStands(H)'
        BY <1>1, <1>2, <1>3, <2>1, <2>2, <2>4, ReportLogged
    <2> QED
        BY <1>1, <2>5
<1> QED
    BY <1>5, <1>6

----------------------------------------------------------------------------
(* The cutover *)

\* What no failure takes back is in the log.
LEMMA WithinLog ==
    ASSUME NEW H \in Histories, LogTells(H), NEW checkpoint,
           CheckpointWithin(checkpoint, H, FloorLast)
    PROVE  CheckpointWithin(checkpoint, H, LastOf(wal))
<1> DEFINE a == FloorLast
           b == LastOf(wal)
           g == checkpoint.gen
<1>1. a \in Nat /\ b \in Nat /\ a <= b /\ g \in Nat /\ g <= a
    BY FloorFacts DEF S!Contents, CheckpointWithin
<1> HIDE DEF a, b, g
<1>2. g <= b
    BY <1>1
<1> QED
    BY <1>2 DEF CheckpointWithin, g, b

\* The shard in a cutover.
LEMMA CutoverFacts ==
    ASSUME NEW H \in Histories, ShardStands(H), step \in {"cutover", "anchoring"}
    PROVE  /\ Tells(wal, H) /\ Logged(H) /\ LogTells(H)
           /\ using \in Captures /\ CaptureStands(using, H) /\ SlotWritten
           /\ Alternate \in {"A", "B"}
           /\ step = "cutover" => Settled(H)
           /\ step = "anchoring" => Anchoring(H)
           /\ JournalKnows
<1>1. StepKnows(H) /\ LogTells(H) /\ JournalKnows
    BY DEF ShardStands
<1>2. Logged(H)
    BY <1>1 DEF StepKnows, Settled, Anchoring
<1>3. Tells(wal, H)
    BY <1>1, <1>2 DEF Logged, LogTells, FileTells
<1>4. Alternate \in {"A", "B"}
    BY DEF Alternate
<1> QED
    BY <1>1, <1>2, <1>3, <1>4 DEF StepKnows

\* The log rests while the shard is in a cutover.
LEMMA CutoverRests ==
    ASSUME NEW H \in Histories, ShardStands(H), step \in {"cutover", "anchoring"}, LogRests,
           UNCHANGED <<current, device, pending, promoted, captures, epoch, first, end>>,
           step' \in {"ready", "anchoring"}, UNCHANGED answers, JournalKnows', StepKnows(H)'
    PROVE  ShardStands(H)' /\ UNCHANGED answers
<1>1. /\ Distinct(H) /\ LogTells(H)' /\ AnchorsKept' /\ SnapshotsWithin(H)' /\ AnswersWithin(H)'
      /\ FloorLast \in Nat /\ FloorLast' \in Nat /\ Keeps(H, H, FloorLast, FloorLast')
    BY FilesKept
<1>2. CapturesWithin(H) /\ EndGrows /\ captures' \subseteq captures
    BY DEF ShardStands, EndGrows
<1>3. ShardStands(H)'
    BY <1>1, <1>2, GoesOn
<1> QED
    BY <1>3

LEMMA Begun ==
    ASSUME NEW H \in Histories, ShardStands(H), CutoverBegins
    PROVE  ShardStands(H)' /\ UNCHANGED answers
<1>1. /\ UNCHANGED <<current, device, pending, promoted, captures, epoch, first, end, answers, slot, using,
                     book, wal, tail, former, next>>
      /\ step = "cutover" /\ step' = "anchoring" /\ boundary' = using.boundary
      /\ synced' = Len(wal) /\ phase' = "stage" /\ poisoned' = poisoned /\ J!Healthy
    BY DEF CutoverBegins, snapshotVars, J!CutoverBegin
<1>2. /\ LogTells(H) /\ using \in Captures /\ CaptureStands(using, H) /\ SlotWritten /\ Settled(H)
      /\ JournalKnows
    BY <1>1, CutoverFacts
<1>3. LogRests /\ FloorLast' \in Nat /\ Keeps(H, H, FloorLast, FloorLast') /\ FloorLast \in Nat
    <2>1. synced \in 0 .. Len(wal) /\ Len(wal) \in Nat
        BY <1>2, FloorFacts
    <2>2. LogRests
        BY <1>1, <2>1 DEF LogRests
    <2> QED
        BY <1>2, <2>2, LogKept
<1>4. JournalKnows'
    BY <1>1 DEF JournalKnows, J!Healthy
<1>5. StepKnows(H)'
    <2>1. CaptureStands(using, H)'
        <3>0. PICK capture : capture = using
            OBVIOUS
        <3>1. CaptureStands(capture, H)'
            BY <1>1, <1>2, <1>3, <3>0, CaptureKept DEF EndGrows
        <3> QED
            BY <1>1, <3>0, <3>1 DEF CaptureStands
    <2>2. SlotWritten'
        BY <1>1, <1>2 DEF SlotWritten, Alternate
    <2>3. Anchoring(H)'
        BY <1>1, <1>2 DEF Anchoring, Settled, Logged, LastOf, HeadSlot, HeadIsAnchor, AtTail,
                          J!EffectiveFirst, J!IsAnchor, JournalKnows
    <2> QED
        BY <1>1, <1>2, <2>1, <2>2, <2>3 DEF StepKnows
<1>6. UNCHANGED <<current, device, pending, promoted, captures, epoch, first, end>> /\ UNCHANGED answers
    BY <1>1
<1> QED
    BY <1>1, <1>3, <1>4, <1>5, <1>6, CutoverRests

\* The file that is to take the log's place tells the same.
LEMMA Stages ==
    ASSUME NEW H \in Histories, ShardStands(H), step = "anchoring",
           J!StageCutover(TheAnchor), UNCHANGED <<shardVars, snapshotVars, answers>>
    PROVE  ShardStands(H)' /\ UNCHANGED answers
<1>1. /\ UNCHANGED <<current, device, pending, promoted, captures, epoch, first, end, answers, slot, using,
                     book, wal, tail, former, next, step, halted, boundary, synced, poisoned>>
      /\ phase = "stage" /\ phase' = "publish" /\ staging' = J!Staged(TheAnchor)
    BY DEF shardVars, snapshotVars, J!StageCutover, J!handle
<1>2. /\ LogTells(H) /\ using \in Captures /\ CaptureStands(using, H) /\ SlotWritten
      /\ Anchoring(H) /\ JournalKnows /\ Tells(wal, H) /\ Alternate \in {"A", "B"}
    BY CutoverFacts
<1>3. AtTail(0) /\ boundary = using.boundary /\ wal # <<>>
    BY <1>1, <1>2 DEF Anchoring, Logged
<1>4. /\ first = wal[1].seq /\ end = Len(wal) /\ first \in Nat
    BY <1>2, <1>3, TailNumbers
<1> DEFINE checkpoint == CheckpointOf(using)
           at == boundary.end
<1>5. /\ CheckpointWithin(checkpoint, H, LastOf(wal)) /\ at \in 1 .. Len(wal)
      /\ wal[1].seq + at - 1 = checkpoint.gen /\ boundary.seq = checkpoint.gen
      /\ checkpoint.gen = using.gen
    <2>1. CheckpointWithin(checkpoint, H, LastOf(wal))
        BY <1>2, WithinLog DEF CaptureStands
    <2>2. /\ at \in 1 .. Len(wal) /\ wal[1].seq + at - 1 = using.gen /\ boundary.seq = using.gen
        BY <1>2, <1>3, <1>4 DEF CaptureStands
    <2> QED
        BY <2>1, <2>2 DEF CheckpointOf
<1>6. /\ staging' = <<[seq |-> checkpoint.gen, body |-> AnchorTo(Alternate, checkpoint)]>>
                       \o SubSeq(wal, at + 1, Len(wal))
      /\ TheAnchor = AnchorTo(Alternate, checkpoint)
    BY <1>1, <1>5 DEF J!Staged, J!SuffixBehind, TheAnchor
<1> HIDE DEF checkpoint, at
<1>7. /\ Tells(staging', H) /\ LastOf(staging') = LastOf(wal)
      /\ staging'[1] = [seq |-> checkpoint.gen, body |-> TheAnchor]
    BY ZenonT(60), <1>2, <1>5, <1>6, TellsCut
<1>9. staging'[1] = TheHead /\ TheHead' = TheHead
    BY <1>1, <1>5, <1>6, <1>7 DEF TheHead, TheAnchor, Alternate
<1>10. LogRests /\ FloorLast' \in Nat /\ Keeps(H, H, FloorLast, FloorLast') /\ FloorLast \in Nat
    <2>1. synced \in 0 .. Len(wal) /\ Len(wal) \in Nat
        BY <1>2, FloorFacts
    <2>2. LogRests
        BY <1>1, <2>1 DEF LogRests
    <2> QED
        BY <1>2, <2>2, LogKept
<1>11. JournalKnows'
    BY <1>1, <1>2 DEF JournalKnows, J!Healthy
<1>12. StepKnows(H)'
    <2>1. CaptureStands(using, H)'
        <3>0. PICK capture : capture = using
            OBVIOUS
        <3>1. CaptureStands(capture, H)'
            BY <1>1, <1>2, <1>10, <3>0, CaptureKept DEF EndGrows
        <3> QED
            BY <1>1, <3>0, <3>1 DEF CaptureStands
    <2>2. SlotWritten'
        BY <1>1, <1>2 DEF SlotWritten, Alternate
    <2>4. Logged(H)' /\ LastOf(wal)' = LastOf(wal) /\ HeadSlot(wal)' = HeadSlot(wal) /\ AtTail(0)'
          /\ LastOf(staging)' = LastOf(staging')
        BY <1>1, <1>2, <1>3 DEF Anchoring, Logged, LastOf, HeadSlot, HeadIsAnchor, AtTail,
                                J!EffectiveFirst, J!IsAnchor
    <2>5. Anchoring(H)'
        BY <1>1, <1>2, <1>7, <1>9, <2>4 DEF Anchoring
    <2> QED
        BY <1>1, <1>2, <2>1, <2>2, <2>5 DEF StepKnows
<1>13. UNCHANGED <<current, device, pending, promoted, captures, epoch, first, end>> /\ UNCHANGED answers
    BY <1>1
<1>14. step' \in {"ready", "anchoring"}
    BY <1>1
<1> QED
    BY <1>10, <1>11, <1>12, <1>13, <1>14, CutoverRests

\* The name moves to the new file; a power loss may still undo it.
LEMMA Renames ==
    ASSUME NEW H \in Histories, ShardStands(H), step = "anchoring",
           J!PublishRename, UNCHANGED <<shardVars, snapshotVars, answers>>
    PROVE  ShardStands(H)' /\ UNCHANGED answers
<1>1. /\ UNCHANGED <<current, device, pending, promoted, captures, epoch, first, end, answers, slot, using,
                     book, tail, next, step, halted, boundary, poisoned>>
      /\ phase = "publish" /\ phase' = "dirsync" /\ former' = wal /\ wal' = staging
      /\ synced' = Len(staging)
    BY DEF shardVars, snapshotVars, J!PublishRename, J!handle
<1>2. /\ LogTells(H) /\ using \in Captures /\ CaptureStands(using, H) /\ SlotWritten
      /\ Anchoring(H) /\ JournalKnows /\ Tells(wal, H) /\ Logged(H) /\ Alternate \in {"A", "B"}
    BY CutoverFacts
<1>3. /\ Tells(wal', H) /\ LastOf(wal') = LastOf(wal) /\ wal'[1] = TheHead
      /\ AtTail(0) /\ wal # <<>> /\ boundary = using.boundary /\ wal' # <<>>
    BY <1>1, <1>2 DEF Anchoring, Logged, Tells
<1>4. FileTells(wal', H) /\ Len(wal') \in 0 .. Len(wal') /\ synced' = Len(wal')
    <2>1. FileTells(wal', H)
        BY <1>3 DEF FileTells
    <2>2. Len(wal') \in Nat
        BY <1>3, HeadOf
    <2> QED
        BY <1>1, <2>1, <2>2
<1>5. LogTells(H)'
    <2>1. former' # NoFile => Tells(former', H) /\ LastOf(former') = LastOf(wal')
        BY <1>1, <1>2, <1>3
    <2> QED
        BY <1>3, <1>4, <2>1 DEF LogTells
<1>6. FloorLast \in Nat /\ FloorLast' \in Nat /\ Keeps(H, H, FloorLast, FloorLast')
    <2>1. FloorLast' = LastOf(wal)
        <3>1. LastKept(wal', Len(wal')) = LastOf(wal')
            BY <1>4, Numbers
        <3> QED
            BY <1>3, <1>4, <3>1 DEF FloorLast, LastKept
    <2>2. /\ FloorLast \in Nat /\ LastOf(wal) \in Nat /\ FloorLast <= LastOf(wal)
          /\ LastOf(wal) <= 2 * Len(H) + 1 /\ Len(H) \in Nat
        BY <1>2, FloorFacts
    <2> DEFINE last == FloorLast
               now == LastOf(wal)
    <2>3. last \in Nat /\ now \in Nat /\ last <= now /\ now <= 2 * Len(H) + 1
        BY <2>2
    <2>4. last <= 2 * Len(H) + 1 /\ Begins(H, H, Len(H))
        <3> HIDE DEF last, now
        <3> QED
            BY <2>2, <2>3 DEF Begins
    <2> HIDE DEF last, now
    <2>5. Keeps(H, H, last, now)
        BY <2>3, <2>4, KeepsMore
    <2> QED
        BY <2>1, <2>2, <2>5 DEF last, now
<1>7. AnchorsKept'
    <2>1. AnchorKept(wal) /\ former' = wal
        BY <1>1 DEF ShardStands, AnchorsKept
    <2>2. AnchorKept(former)'
        BY <1>1, <2>1 DEF AnchorKept, AnchorHolds, Torn, HeadIsAnchor
    <2>3. AnchorKept(wal)'
        <3>1. wal'[1].body = AnchorTo(Alternate, CheckpointOf(using))
            BY <1>3 DEF TheHead, TheAnchor
        <3>2. /\ wal'[1].body.slot = Alternate /\ wal'[1].body.gen = using.gen
              /\ wal'[1].body.sum = using.history
            BY <3>1 DEF AnchorTo, CheckpointOf
        <3>3. /\ Alternate \in Targets /\ S!Read(current'[Alternate]) = CheckpointOf(using)
              /\ device'[Alternate] = current'[Alternate] /\ pending'[Alternate] = NoFile
            BY <1>1, <1>2 DEF SlotWritten
        <3>4. AnchorHolds(wal, current)'
            BY <3>2, <3>3 DEF AnchorHolds, CheckpointOf
        <3> QED
            BY <3>2, <3>3, <3>4 DEF AnchorKept
    <2> QED
        BY <2>2, <2>3 DEF AnchorsKept
<1>8. SnapshotsWithin(H)' /\ AnswersWithin(H)' /\ CapturesWithin(H)'
    <2>1. SnapshotsWithin(H) /\ AnswersWithin(H) /\ CapturesWithin(H)
        BY DEF ShardStands
    <2>2. SnapshotsWithin(H)' /\ AnswersWithin(H)'
        BY <1>1, <1>6, <2>1, SnapshotsKept, AnswersKept
    <2>3. /\ captures' \subseteq captures /\ UNCHANGED epoch /\ first' = first /\ EndGrows
          /\ step' \notin {"down", "opening", "defining", "resuming"}
        BY <1>1 DEF EndGrows
    <2>4. CapturesWithin(H)'
        BY <1>6, <2>1, <2>3, CapturesKept
    <2> QED
        BY <2>2, <2>4
<1>9. JournalKnows'
    BY <1>1, <1>2 DEF JournalKnows, J!Healthy
<1>10. StepKnows(H)'
    <2>1. CaptureStands(using, H)'
        <3>0. PICK capture : capture = using
            OBVIOUS
        <3>1. CaptureStands(capture, H)'
            BY <1>1, <1>2, <1>6, <3>0, CaptureKept DEF EndGrows
        <3> QED
            BY <1>1, <3>0, <3>1 DEF CaptureStands
    <2>2. SlotWritten' /\ TheHead' = TheHead
        BY <1>1, <1>2 DEF SlotWritten, Alternate, TheHead, TheAnchor
    <2>3. next = LastOf(wal) + 1
        BY <1>2, <1>3, TailNumbers
    <2>4. LastOf(wal)' = LastOf(wal') /\ LastOf(wal) = 2 * Len(H) + 1 /\ book = H
        BY <1>2 DEF LastOf, Logged
    <2>5. Logged(H)'
        BY <1>1, <1>3, <2>4 DEF Logged
    <2>6. Anchoring(H)'
        BY <1>1, <1>3, <2>2, <2>3, <2>4, <2>5 DEF Anchoring, AtTail
    <2> QED
        BY <1>1, <1>2, <2>1, <2>2, <2>6 DEF StepKnows
<1>11. Distinct(H)
    BY DEF ShardStands
<1>12. ShardStands(H)'
    BY <1>5, <1>7, <1>8, <1>9, <1>10, <1>11 DEF ShardStands
<1> QED
    BY <1>12

LEMMA CutoverStands ==
    ASSUME NEW H \in Histories, ShardStands(H), CutoverStep
    PROVE  ShardStands(H)' /\ UNCHANGED answers
BY Stages, Renames DEF CutoverStep

\* The directory is synchronized: captures taken before are of an earlier epoch.
LEMMA Succeeds ==
    ASSUME NEW H \in Histories, ShardStands(H), CutoverSucceeds
    PROVE  ShardStands(H)' /\ UNCHANGED answers
<1>1. /\ UNCHANGED <<current, device, pending, promoted, captures, answers, book, halted, wal, tail, synced,
                     poisoned, next, boundary>>
      /\ step = "anchoring" /\ step' = "ready" /\ phase = "dirsync" /\ phase' = "idle"
      /\ former' = NoFile /\ first' = boundary.seq /\ end' = Len(wal)
      /\ slot' = Alternate /\ epoch' = epoch + 1
    BY DEF CutoverSucceeds, snapshotVars, J!PublishDirectorySync
<1>2. /\ LogTells(H) /\ CaptureStands(using, H) /\ Anchoring(H) /\ JournalKnows /\ Tells(wal, H)
      /\ Logged(H)
    BY <1>1, CutoverFacts
<1>3. /\ boundary = using.boundary /\ tail = "clean" /\ next = LastOf(wal) + 1
      /\ wal[1] = TheHead /\ wal # <<>>
    BY <1>1, <1>2 DEF Anchoring, Logged
<1>4. LogRests
    <2>1. synced \in synced .. Len(wal)
        BY <1>2, FloorFacts
    <2> QED
        BY <1>1, <2>1 DEF LogRests
<1>5. /\ Distinct(H) /\ LogTells(H)' /\ AnchorsKept' /\ SnapshotsWithin(H)' /\ AnswersWithin(H)'
    BY <1>1, <1>4, FilesKept
<1>6. AtTail(0)'
    <2>1. /\ LastOf(wal) = wal[1].seq + Len(wal) - 1 /\ wal[1].seq \in Nat /\ Len(wal) \in Nat
        BY <1>2, HeadOf
    <2>2. boundary.seq = wal[1].seq
        BY <1>2, <1>3 DEF CaptureStands, TheHead
    <2>3. J!EffectiveFirst(wal) = wal[1].seq
        BY <1>2, <1>3, FloorFacts
    <2>4. J!EffectiveFirst(wal)' = J!EffectiveFirst(wal)
        BY <1>1 DEF J!EffectiveFirst, J!IsAnchor
    <2> DEFINE from == wal[1].seq
    <2>5. next = from + Len(wal) /\ Len(wal) \in Nat /\ Len(wal) + 0 = Len(wal)
        <3>1. LastOf(wal) = from + Len(wal) - 1 /\ from \in Nat /\ Len(wal) \in Nat
            BY <2>1
        <3> HIDE DEF from
        <3> QED
            BY <1>3, <3>1
    <2>6. first' = from /\ J!EffectiveFirst(wal)' = from
        BY <1>1, <2>2, <2>3, <2>4
    <2> HIDE DEF from
    <2> QED
        BY <1>1, <1>3, <2>5, <2>6 DEF AtTail
<1>7. JournalKnows'
    BY <1>1, <1>2, <1>6 DEF JournalKnows, J!Healthy
<1>8. CapturesWithin(H)'
    <2>1. CapturesWithin(H)
        BY DEF ShardStands
    <2>2. epoch \in Nat /\ captures \subseteq Captures
        BY <2>1 DEF CapturesWithin
    <2>3. \A capture \in captures :
             capture.mine => capture.epoch <= epoch + 1 /\ capture.epoch # epoch + 1
        <3> SUFFICES ASSUME NEW capture \in captures, capture.mine
                     PROVE  capture.epoch <= epoch + 1 /\ capture.epoch # epoch + 1
            OBVIOUS
        <3>1. capture.epoch <= epoch /\ capture.epoch \in Nat
            BY <2>1, <2>2 DEF CapturesWithin, Captures
        <3> QED
            BY <2>2, <3>1
    <2> QED
        BY <1>1, <2>2, <2>3 DEF CapturesWithin
<1>9. StepKnows(H)'
    <2>1. J!Healthy'
        BY <1>1, <1>2 DEF JournalKnows, J!Healthy
    <2>2. Logged(H)'
        BY <1>1, <1>2 DEF Logged, LastOf
    <2>3. HeadSlot(wal)' = Alternate
        <3>1. wal[1].body = AnchorTo(Alternate, CheckpointOf(using))
            BY <1>3 DEF TheHead, TheAnchor
        <3>2. wal[1].body.kind = "Anchor" /\ wal[1].body.slot = Alternate
            BY <3>1 DEF AnchorTo
        <3> QED
            BY <1>1, <1>3, <3>2 DEF HeadSlot, HeadIsAnchor
    <2> QED
        BY <1>1, <2>1, <2>2, <2>3 DEF StepKnows, Settled
<1>10. ShardStands(H)'
    BY <1>5, <1>7, <1>8, <1>9 DEF ShardStands
<1> QED
    BY <1>1, <1>10

\* A cutover that fails leaves a log the journal stands behind, or a halted shard.
LEMMA Fails ==
    ASSUME NEW H \in Histories, ShardStands(H), CutoverFails
    PROVE  ShardStands(H)' /\ UNCHANGED answers
<1>1. /\ UNCHANGED <<current, device, pending, promoted, captures, answers, epoch, book, slot>>
      /\ step \in {"cutover", "anchoring"} /\ step' = "ready"
      /\ ~ halted' => ~ halted /\ ~ poisoned'
    BY DEF CutoverFails, snapshotVars
<1>2. /\ LogTells(H) /\ JournalKnows /\ Logged(H) /\ (step = "anchoring" => Anchoring(H))
    BY <1>1, CutoverFacts
<1>3. /\ UNCHANGED <<wal, tail, synced, former, next, first, end>>
      /\ phase' = "idle" \/ phase' = phase
      /\ \/ poisoned' = TRUE /\ (phase' = "idle")
         \/ step = "anchoring" /\ phase \in {"stage", "publish"} /\ phase' = "idle"
            /\ poisoned' = poisoned
    BY DEF CutoverFails, J!SyncFails, J!StageRefused, J!StageCleanupFails, J!PublishRenameFails,
           J!PublishDirectorySyncFails, J!files, J!handle, J!Healthy
<1>4. LogRests
    <2>1. synced \in synced .. Len(wal)
        BY <1>2, FloorFacts
    <2> QED
        BY <1>3, <2>1 DEF LogRests
<1>5. /\ UNCHANGED <<tail, former, first, next, end>>
      /\ J!EffectiveFirst(wal)' = J!EffectiveFirst(wal)
    BY <1>3 DEF J!EffectiveFirst, J!IsAnchor
<1>6. JournalKnows'
    <2>1. CASE poisoned' = TRUE
        BY <1>3, <2>1 DEF JournalKnows, J!Healthy
    <2>2. CASE step = "anchoring" /\ phase \in {"stage", "publish"} /\ phase' = "idle"
               /\ poisoned' = poisoned
        <3>1. AtTail(0)
            BY <1>2, <2>2 DEF Anchoring
        <3>2. AtTail(0)'
            BY <1>3, <1>5, <3>1 DEF AtTail
        <3> QED
            BY <1>2, <2>2, <3>2 DEF JournalKnows, J!Healthy
    <2> QED
        BY <1>3, <2>1, <2>2
<1>7. StepKnows(H)'
    <2>1. ASSUME ~ halted' PROVE Settled(H)'
        <3>1. step = "anchoring" /\ phase \in {"stage", "publish"} /\ phase' = "idle"
              /\ ~ poisoned'
            BY <1>1, <1>3, <2>1
        <3>2. slot = HeadSlot(wal)
            BY <1>2, <3>1 DEF Anchoring
        <3> QED
            BY <1>1, <1>2, <1>3, <3>1, <3>2 DEF Settled, Logged, LastOf, HeadSlot, HeadIsAnchor,
                                              J!Healthy
    <2> QED
        BY <1>1, <2>1 DEF StepKnows
<1>8. UNCHANGED <<current, device, pending, promoted, captures, epoch, first, end>> /\ UNCHANGED answers
    BY <1>1, <1>3
<1> QED
    BY <1>1, <1>4, <1>6, <1>7, <1>8, CutoverRests

----------------------------------------------------------------------------
(* Power loss *)

\* What is left of a file that stands for a part of the history does so too, if
\* it can be read; a synchronized file can.
LEMMA Remains ==
    ASSUME NEW H, NEW names \in [Targets -> Within(H) \cup {NoFile, Partial}],
           NEW torn \in S!MayTear(names), NEW left, left = S!Remaining(names, torn)
    PROVE  /\ left \in [Targets -> Within(H) \cup {NoFile, Partial}]
           /\ \A t \in Targets : /\ left[t] = Partial \/ Sound(left[t])
                                 /\ left[t] = Partial \/ S!Read(left[t]) = S!Read(names[t])
                                 /\ Sound(names[t]) => left[t] # Partial
                                 /\ names[t] \in {NoFile, Partial} => left[t] = names[t]
<1>1. ASSUME NEW t \in Targets
      PROVE  /\ left[t] \in Within(H) \cup {NoFile, Partial}
             /\ left[t] = Partial \/ Sound(left[t])
             /\ left[t] = Partial \/ S!Read(left[t]) = S!Read(names[t])
             /\ Sound(names[t]) => left[t] # Partial
             /\ names[t] \in {NoFile, Partial} => left[t] = names[t]
    <2>1. left[t] = IF t \in torn THEN Partial
                    ELSE IF S!IsValid(names[t]) THEN S!Stored(names[t], TRUE) ELSE names[t]
        BY DEF S!Remaining
    <2>2. t \in torn => S!Unsynchronized(names[t])
        BY DEF S!MayTear
    <2>3. CASE names[t] \in {NoFile, Partial}
        <3>1. ~ S!IsValid(names[t]) /\ ~ S!Unsynchronized(names[t])
            BY <2>3 DEF S!IsValid, S!Unsynchronized
        <3>2. left[t] = names[t]
            BY <2>1, <2>2, <3>1
        <3>3. NoFile # Partial /\ ~ Sound(Partial)
            BY ShardAssumption DEF ShardAssumption, Sound
        <3> QED
            BY <2>3, <3>2, <3>3 DEF Sound
    <2>4. CASE names[t] \in Within(H)
        <3>1. PICK f \in S!Files : f = names[t] /\ CheckpointWithin(S!Read(f), H, FloorLast)
            BY <2>4 DEF Within
        <3>2. /\ S!IsValid(f) /\ f # NoFile /\ f # Partial
              /\ S!Read(f) \in S!Contents /\ S!Read(f).gen = f.gen /\ S!Read(f).history = f.history
            BY <3>1, FileFacts
        <3>3. S!Stored(f, TRUE) = S!Stored(S!Read(f), TRUE)
            BY <3>2 DEF S!Stored
        <3>4. /\ S!Stored(f, TRUE) \in S!Files /\ S!Read(S!Stored(f, TRUE)) = S!Read(f)
              /\ S!Stored(f, TRUE).synced = TRUE
            BY <3>2, <3>3, FileFacts
        <3>5. S!Stored(f, TRUE) \in Within(H) /\ Sound(S!Stored(f, TRUE))
            BY <3>1, <3>4 DEF Within, Sound
        <3>6. left[t] = IF t \in torn THEN Partial ELSE S!Stored(f, TRUE)
            BY <2>1, <3>1, <3>2
        <3>7. Sound(f) => t \notin torn
            BY <2>2, <3>1, <3>2 DEF Sound, S!Unsynchronized
        <3>8. S!Stored(f, TRUE) # Partial
            BY <3>4, FileFacts
        <3> HIDE DEF Sound
        <3> QED
            BY <3>1, <3>2, <3>4, <3>5, <3>6, <3>7, <3>8
    <2> QED
        BY <2>3, <2>4
<1>2. left \in [Targets -> Within(H) \cup {NoFile, Partial}]
    <2>1. left = [t \in Targets |-> left[t]]
        BY DEF S!Remaining
    <2> QED
        BY <1>1, <2>1
<1> QED
    BY <1>1, <1>2

\* Names that fall back are names that were there.
LEMMA FallsBack ==
    ASSUME NEW H, SnapshotsWithin(H), NEW undone \in SUBSET S!Unsettled,
           NEW names, names = S!Fallen(undone)
    PROVE  /\ names \in [Targets -> Within(H) \cup {NoFile, Partial}]
           /\ \A t \in Targets : /\ names[t] \in {current[t], device[t]}
                                 /\ current[t] = device[t] => t \notin undone
BY DEF SnapshotsWithin, S!Unsettled, S!Fallen

\* Each name falls back or not, its file is torn or not, and what can be read
\* stays within what no failure takes back.
LEMMA NamesFall ==
    ASSUME NEW H \in Histories, SnapshotsWithin(H), S!PowerLoss
    PROVE  /\ current' \in [Targets -> Within(H) \cup {NoFile, Partial}] /\ device' = current'
           /\ pending' \in [Targets -> Within(H) \cup {NoFile, Partial}]
           /\ \A t \in Targets \ promoted' : Sound(current'[t])
           /\ \A t \in Targets : current[t] = device[t] =>
                 /\ current'[t] = Partial \/ S!Read(current'[t]) = S!Read(current[t])
                 /\ current[t] = Partial => current'[t] = Partial
                 /\ pending[t] = NoFile => pending'[t] = NoFile
<1>1. PICK undone \in SUBSET S!Unsettled :
         /\ \E torn \in S!MayTear(S!Fallen(undone)) :
               current' = S!Remaining(S!Fallen(undone), torn)
         /\ \E gone \in SUBSET {t \in Targets : t \in undone \/ pending[t] # NoFile} :
               LET staged == [t \in Targets |-> IF t \in gone THEN NoFile
                                               ELSE IF t \in undone THEN current[t]
                                               ELSE pending[t]]
               IN  \E torn \in S!MayTear(staged) : pending' = S!Remaining(staged, torn)
    BY DEF S!PowerLoss
<1>2. PICK gone \in SUBSET {t \in Targets : t \in undone \/ pending[t] # NoFile} :
         LET staged == [t \in Targets |-> IF t \in gone THEN NoFile
                                         ELSE IF t \in undone THEN current[t] ELSE pending[t]]
         IN  \E torn \in S!MayTear(staged) : pending' = S!Remaining(staged, torn)
    BY <1>1
<1>3. PICK names : names = S!Fallen(undone)
    OBVIOUS
<1>4. PICK staged : staged = [t \in Targets |-> IF t \in gone THEN NoFile
                                               ELSE IF t \in undone THEN current[t]
                                               ELSE pending[t]]
    OBVIOUS
<1>5. PICK torn \in S!MayTear(names) : current' = S!Remaining(names, torn)
    BY <1>1, <1>3
<1>6. PICK lost \in S!MayTear(staged) : pending' = S!Remaining(staged, lost)
    BY <1>2, <1>4
<1>7. device' = current' /\ promoted' = {t \in promoted : current'[t] = Partial}
    BY DEF S!PowerLoss
<1>8. /\ names \in [Targets -> Within(H) \cup {NoFile, Partial}]
      /\ \A t \in Targets : /\ names[t] \in {current[t], device[t]}
                            /\ current[t] = device[t] => t \notin undone
    BY <1>3, FallsBack
<1>9. staged \in [Targets -> Within(H) \cup {NoFile, Partial}]
    BY <1>4 DEF SnapshotsWithin
<1>10. /\ current' \in [Targets -> Within(H) \cup {NoFile, Partial}]
       /\ \A t \in Targets : /\ current'[t] = Partial \/ Sound(current'[t])
                             /\ current'[t] = Partial \/ S!Read(current'[t]) = S!Read(names[t])
                             /\ Sound(names[t]) => current'[t] # Partial
                             /\ names[t] \in {NoFile, Partial} => current'[t] = names[t]
    BY <1>5, <1>8, Remains
<1>11. /\ pending' \in [Targets -> Within(H) \cup {NoFile, Partial}]
       /\ \A t \in Targets : staged[t] \in {NoFile, Partial} => pending'[t] = staged[t]
    BY <1>6, <1>9, Remains
<1>12. ASSUME NEW t \in Targets \ promoted' PROVE Sound(current'[t])
    <2>1. CASE current'[t] # Partial
        BY <1>10, <2>1
    <2>2. CASE current'[t] = Partial
        <3>1. t \notin promoted
            BY <1>7, <2>2
        <3>2. Sound(current[t]) /\ Sound(device[t])
            BY <3>1 DEF SnapshotsWithin
        <3>3. Sound(names[t])
            BY <1>8, <3>2
        <3> QED
            BY <1>10, <2>2, <3>3
    <2> QED
        BY <2>1, <2>2
<1>13. ASSUME NEW t \in Targets, current[t] = device[t]
       PROVE  /\ current'[t] = Partial \/ S!Read(current'[t]) = S!Read(current[t])
              /\ current[t] = Partial => current'[t] = Partial
              /\ pending[t] = NoFile => pending'[t] = NoFile
    <2>1. names[t] = current[t] /\ t \notin undone
        BY <1>8, <1>13
    <2>2. pending[t] = NoFile => staged[t] = NoFile
        BY <1>4, <2>1
    <2> QED
        BY <1>10, <1>11, <2>1, <2>2
<1> QED
    BY <1>7, <1>10, <1>11, <1>12, <1>13

\* The slot an anchor names does not fall back.
LEMMA AnchorFalls ==
    ASSUME NEW H \in Histories, SnapshotsWithin(H), S!PowerLoss, NEW file, NEW left,
           HeadIsAnchor(left) => HeadIsAnchor(file) /\ left[1] = file[1], AnchorKept(file)
    PROVE  /\ AnchorHolds(left, current') \/ Torn(left, current')
           /\ HeadIsAnchor(left) => /\ left[1].body.slot \in Targets
                                    /\ device'[left[1].body.slot] = current'[left[1].body.slot]
                                    /\ pending'[left[1].body.slot] = NoFile
           /\ Torn(left, current) => Torn(left, current')
<1>1. CASE ~ HeadIsAnchor(left)
    BY <1>1 DEF AnchorHolds, Torn
<1>2. CASE HeadIsAnchor(left)
    <2> DEFINE s == left[1].body.slot
    <2>1. /\ s \in Targets /\ s = file[1].body.slot
          /\ current[s] = device[s] /\ pending[s] = NoFile
          /\ \/ S!Read(current[s]) = [gen |-> left[1].body.gen, history |-> left[1].body.sum]
             \/ current[s] = Partial
        BY <1>2 DEF AnchorKept, AnchorHolds, Torn
    <2>2. /\ current'[s] = Partial \/ S!Read(current'[s]) = S!Read(current[s])
          /\ current[s] = Partial => current'[s] = Partial
          /\ pending'[s] = NoFile /\ device' = current'
        BY <2>1, NamesFall
    <2> QED
        BY <1>2, <2>1, <2>2 DEF AnchorHolds, Torn
<1> QED
    BY <1>1, <1>2

\* What a power loss leaves stands for a history that keeps all answers.
LEMMA PowerStands ==
    ASSUME NEW H \in Histories, NEW G \in Histories, ShardStands(H), PowerLoss,
           Distinct(G), LogTells(G)', FloorLast' \in Nat, Keeps(H, G, FloorLast, FloorLast'),
           former' = NoFile, phase' = "closed", poisoned' = FALSE,
           NEW file, AnchorKept(file),
           HeadIsAnchor(wal') => HeadIsAnchor(file) /\ wal'[1] = file[1]
    PROVE  ShardStands(G)' /\ UNCHANGED answers
<1>1. /\ S!PowerLoss /\ ShardGone /\ captures' = {} /\ UNCHANGED answers
    BY DEF PowerLoss
<1>2. /\ SnapshotsWithin(H) /\ AnswersWithin(H) /\ LogTells(H)
    BY DEF ShardStands
<1>3. FloorLast \in Nat
    BY <1>2, FloorFacts
<1>4. SnapshotsWithin(G)'
    <2>1. Within(H) \subseteq Within(G)'
        BY <1>2, <1>3, SnapshotsKept
    <2>2. /\ current' \in [Targets -> Within(H) \cup {NoFile, Partial}] /\ device' = current'
          /\ pending' \in [Targets -> Within(H) \cup {NoFile, Partial}]
          /\ \A t \in Targets \ promoted' : Sound(current'[t])
        BY <1>1, <1>2, NamesFall
    <2>3. /\ current' \in [Targets -> Within(G)' \cup {NoFile, Partial}]
          /\ device' \in [Targets -> Within(G)' \cup {NoFile, Partial}]
          /\ pending' \in [Targets -> Within(G)' \cup {NoFile, Partial}]
        BY <2>1, <2>2
    <2> QED
        BY <2>2, <2>3 DEF SnapshotsWithin, Sound
<1>5. AnswersWithin(G)'
    BY <1>1, <1>2, <1>3, AnswersKept
<1>6. AnchorsKept'
    <2>1. /\ AnchorHolds(wal', current') \/ Torn(wal', current')
          /\ HeadIsAnchor(wal') => /\ wal'[1].body.slot \in Targets
                                   /\ device'[wal'[1].body.slot] = current'[wal'[1].body.slot]
                                   /\ pending'[wal'[1].body.slot] = NoFile
        BY <1>1, <1>2, AnchorFalls
    <2>2. AnchorKept(wal)'
        BY <2>1 DEF AnchorKept, AnchorHolds, Torn, HeadIsAnchor
    <2> QED
        BY <2>2 DEF AnchorsKept
<1>7. JournalKnows'
    BY DEF JournalKnows, J!Healthy
<1>8. CapturesWithin(G)' /\ StepKnows(G)'
    BY <1>1 DEF ShardGone, CapturesWithin, StepKnows
<1> QED
    BY <1>1, <1>4, <1>5, <1>6, <1>7, <1>8 DEF ShardStands

LEMMA PowerLossForgets ==
    ASSUME NEW H \in Histories, ShardStands(H), PowerLoss
    PROVE  \E n \in 0 .. Len(H) :
              /\ ShardStands(SubSeq(H, 1, n))' /\ SubSeq(H, 1, n) \in Histories
              /\ UNCHANGED answers /\ \A a \in answers : a.at <= n
<1>1. /\ LogTells(H) /\ Distinct(H) /\ AnchorsKept /\ FileTells(wal, H) /\ PowerFailures
    BY DEF ShardStands, LogTells, PowerLoss, J!PowerLoss, J!PowerLossUndoesRename
<1>2. /\ Len(wal) \in Nat /\ synced \in 0 .. Len(wal) /\ Len(H) \in Nat /\ FloorLast \in Nat
      /\ FloorLast = LastKept(wal, synced) /\ FloorLast' = LastKept(wal', synced')
    BY <1>1, FloorFacts DEF FloorLast, LastKept
\* All that counts is a part of the history that the invariant holds of.
<1>3. SUFFICES \E n \in 0 .. Len(H) :
                  ShardStands(SubSeq(H, 1, n))' /\ SubSeq(H, 1, n) \in Histories
                  /\ UNCHANGED answers
    <2>1. ASSUME NEW n \in 0 .. Len(H), ShardStands(SubSeq(H, 1, n))', UNCHANGED answers
          PROVE  \A a \in answers : a.at <= n
        <3>1. Len(SubSeq(H, 1, n)) = n
            BY DEF Histories
        <3>2. \A a \in answers : a.at \in 1 .. Len(SubSeq(H, 1, n))
            BY <2>1 DEF ShardStands, AnswersWithin
        <3> QED
            BY <3>1, <3>2
    <2> QED
        BY <2>1
<1>4. ASSUME NEW n \in 0 .. Len(H)
      PROVE  /\ SubSeq(H, 1, n) \in Histories /\ Distinct(SubSeq(H, 1, n))
             /\ Len(SubSeq(H, 1, n)) = n
    <2>1. /\ SubSeq(H, 1, n) \in Histories /\ Len(SubSeq(H, 1, n)) = n
          /\ \A i \in 1 .. n : SubSeq(H, 1, n)[i] = H[i] /\ i \in 1 .. Len(H)
        BY <1>2 DEF Histories
    <2> QED
        BY <1>1, <2>1 DEF Distinct
<1>5. ASSUME NEW kept \in synced .. Len(wal), NEW cut, J!PowerLoss(kept, cut)
      PROVE  \E n \in 0 .. Len(H) :
                ShardStands(SubSeq(H, 1, n))' /\ SubSeq(H, 1, n) \in Histories
                /\ UNCHANGED answers
    <2>1. /\ wal' = SubSeq(wal, 1, kept) /\ synced' = kept /\ former' = NoFile
          /\ phase' = "closed" /\ poisoned' = FALSE
          /\ kept \in 0 .. Len(wal)
        BY <1>2, <1>5 DEF J!PowerLoss, J!ProcessGone
    <2>2. AnchorKept(wal)
        BY <1>1 DEF AnchorsKept
    <2>3. CASE kept = 0
        <3> DEFINE G == SubSeq(H, 1, 0)
        <3>1. wal' = <<>> /\ G = <<>> /\ synced = 0
            <4>1. wal \in Seq(Frames)
                BY <1>1, FloorFacts
            <4> QED
                BY <1>2, <2>1, <2>3, <4>1
        <3>2. G \in Histories /\ Distinct(G) /\ 0 \in 0 .. Len(H)
            BY <1>2, <1>4
        <3> HIDE DEF G
        <3>3. LogTells(G)'
            BY <2>1, <2>3, <3>1 DEF LogTells, FileTells
        <3>4. FloorLast = 0 /\ FloorLast' = 0
            BY <1>2, <2>1, <2>3, <3>1 DEF LastKept
        <3>5. Keeps(H, G, FloorLast, FloorLast')
            BY <3>4 DEF Keeps
        <3>6. ~ HeadIsAnchor(wal')
            BY <3>1 DEF HeadIsAnchor
        <3>7. ShardStands(G)' /\ UNCHANGED answers
            BY <2>1, <2>2, <3>2, <3>3, <3>4, <3>5, <3>6, PowerStands
        <3> QED
            BY <3>2, <3>7 DEF G
    <2>4. CASE kept # 0
        <3>1. Tells(wal, H) /\ kept \in 1 .. Len(wal)
            <4>1. kept \in 1 .. Len(wal) /\ wal # <<>>
                BY <1>2, <2>1, <2>4
            <4> QED
                BY <1>1, <4>1 DEF FileTells
        <3>2. PICK last, n, G : last = wal[1].seq + kept - 1 /\ n = last \div 2 /\ G = SubSeq(H, 1, n)
            OBVIOUS
        <3>3. /\ n \in 0 .. Len(H) /\ Tells(wal', G) /\ LastOf(wal') = last
              /\ wal'[1] = wal[1] /\ Len(wal') = kept
            BY <2>1, <3>1, <3>2, TellsLess
        <3>4. last \in Nat /\ (last = 2 * n \/ last = 2 * n + 1) /\ n \in Nat
            <4>1. wal[1].seq \in Nat \ {0}
                BY <3>1, HeadOf
            <4>2. kept \in Nat \ {0}
                BY <1>2, <3>1
            <4>3. last \in Nat
                <5> DEFINE from == wal[1].seq
                <5>1. from \in Nat \ {0} /\ last = from + kept - 1
                    BY <3>2, <4>1
                <5> HIDE DEF from
                <5> QED
                    BY <4>2, <5>1
            <4> QED
                BY <3>2, <4>3, Halves
        <3>5. G \in Histories /\ Distinct(G) /\ Len(G) = n
            BY <1>4, <3>2, <3>3
        <3>6. FloorLast' = last /\ FloorLast <= last
            <4>1. FloorLast' = last
                BY <1>2, <2>1, <2>4, <3>2, <3>3 DEF LastKept
            <4>2. LastKept(wal, kept) = last
                BY <2>4, <3>2 DEF LastKept
            <4>3. LastKept(wal, synced) <= LastKept(wal, kept)
                BY <1>1, <1>2, Numbers
            <4> QED
                BY <1>2, <4>1, <4>2, <4>3
        <3>7. Keeps(H, G, FloorLast, FloorLast')
            <4> DEFINE before == FloorLast
            <4>1. before \in Nat /\ before <= last /\ last <= 2 * n + 1
                BY <1>2, <3>4, <3>6
            <4> HIDE DEF before
            <4>2. Keeps(H, SubSeq(H, 1, n), before, last)
                BY <3>3, <3>4, <4>1, KeepsLess
            <4> QED
                BY <3>2, <3>6, <4>2 DEF before
        <3>8. LogTells(G)'
            <4>1. FileTells(wal', G)
                BY <3>3 DEF FileTells, Tells
            <4>2. synced' \in 0 .. Len(wal')
                BY <1>2, <2>1, <3>1, <3>3
            <4> QED
                BY <2>1, <3>5, <4>1, <4>2 DEF LogTells
        <3>9. HeadIsAnchor(wal') => HeadIsAnchor(wal) /\ wal'[1] = wal[1]
            BY <3>1, <3>3 DEF HeadIsAnchor, Tells
        <3>10. ShardStands(G)' /\ UNCHANGED answers
            <4>1. FloorLast' \in Nat
                BY <3>4, <3>6
            <4> QED
                BY <2>1, <2>2, <3>5, <3>7, <3>8, <3>9, <4>1, PowerStands
        <3> QED
            BY <3>2, <3>3, <3>5, <3>10
    <2> QED
        BY <2>3, <2>4
<1>6. ASSUME J!PowerLossUndoesRename
      PROVE  \E n \in 0 .. Len(H) :
                ShardStands(SubSeq(H, 1, n))' /\ SubSeq(H, 1, n) \in Histories
                /\ UNCHANGED answers
    <2>1. /\ wal' = former /\ former # NoFile /\ synced' = Len(former) /\ former' = NoFile
          /\ phase' = "closed" /\ poisoned' = FALSE
        BY <1>6 DEF J!PowerLossUndoesRename, J!ProcessGone
    <2>2. /\ Tells(former, H) /\ LastOf(former) = LastOf(wal) /\ synced = Len(wal)
          /\ AnchorKept(former)
        BY <1>1, <2>1 DEF LogTells, AnchorsKept
    <2>3. FileTells(former, H) /\ Len(former) \in 0 .. Len(former)
        <3>1. Len(former) \in Nat /\ former # <<>>
            BY <2>2, HeadOf
        <3> QED
            BY <2>2, <3>1 DEF FileTells
    <2>4. FloorLast = LastOf(wal) /\ FloorLast' = LastOf(wal)
        <3>1. LastKept(former, Len(former)) = LastOf(former)
            BY <2>3, Numbers
        <3>2. LastKept(wal, Len(wal)) = LastOf(wal)
            BY <1>1, <1>2, Numbers
        <3> QED
            BY <1>2, <2>1, <2>2, <3>1, <3>2
    <2>5. LogTells(H)'
        BY <2>1, <2>3 DEF LogTells
    <2>6. Keeps(H, H, FloorLast, FloorLast')
        <3> DEFINE last == FloorLast
        <3>1. last \in Nat /\ last <= 2 * Len(H) + 1 /\ Begins(H, H, Len(H))
            BY <1>1, <1>2, <2>4, FloorFacts DEF Begins
        <3> HIDE DEF last
        <3>2. Keeps(H, H, last, last)
            BY <3>1, KeepsMore
        <3> QED
            BY <2>4, <3>2 DEF last
    <2>7. ShardStands(H)' /\ UNCHANGED answers
        BY <1>1, <1>2, <2>1, <2>2, <2>4, <2>5, <2>6, PowerStands
    <2>8. SubSeq(H, 1, Len(H)) = H /\ Len(H) \in 0 .. Len(H)
        BY <1>2 DEF Histories
    <2>9. ShardStands(SubSeq(H, 1, Len(H)))'
        BY <2>7, <2>8
    <2> QED
        BY <2>7, <2>8, <2>9
<1> QED
    BY <1>5, <1>6 DEF PowerLoss

----------------------------------------------------------------------------
(* Every step *)

\* What becomes of the history: nothing, a command more, an answer for its last
\* place, or the loss of commands that were not answered.
Moves(H, G) ==
    \/ G = H /\ UNCHANGED answers
    \/ \E c \in Commands : c \notin Range(H) /\ G = Append(H, c) /\ UNCHANGED answers
    \/ /\ G = H /\ H # <<>>
       /\ answers' = answers \cup {[cmd |-> H[Len(H)], at |-> Len(H)]}
    \/ \E n \in 0 .. Len(H) :
          G = SubSeq(H, 1, n) /\ UNCHANGED answers /\ \A a \in answers : a.at <= n

LEMMA Rests ==
    ASSUME NEW H \in Histories, ShardStands(H)', UNCHANGED answers
    PROVE  \E G \in Histories : ShardStands(G)' /\ Moves(H, G)
BY DEF Moves

LEMMA StepStands ==
    ASSUME NEW H \in Histories, ShardStands(H), [Next]_vars
    PROVE  \E G \in Histories : ShardStands(G)' /\ Moves(H, G)
<1>1. CASE OpenStart \/ OpenScan \/ OpenScanFails \/ OpenDefined \/ RecoverStaging
    BY <1>1, ComesUp, Rests
<1>2. CASE OpenDefines
    BY <1>2, Defines, Rests
<1>3. ASSUME NEW withCheckpoint \in BOOLEAN, OpenReplays(withCheckpoint)
      PROVE  \E G \in Histories : ShardStands(G)' /\ Moves(H, G)
    BY <1>3, Replays, Rests
<1>4. CASE OpenResumed \/ \E withCheckpoint \in BOOLEAN : OpenResumeFails(withCheckpoint)
    BY <1>4, OpeningGoesOn, Rests
<1>5. CASE OpenAbandons \/ ProcessDies \/ Close
    BY <1>5, GoesDown, Rests
<1>6. CASE UNCHANGED vars \/ \E capture \in captures : VerifyFails(capture)
    BY <1>6, ShardRests, Rests
<1>7. ASSUME NEW c \in Commands, SubmitReplay(c) \/ SubmitCommand(c)
      PROVE  \E G \in Histories : ShardStands(G)' /\ Moves(H, G)
    <2>1. CASE SubmitReplay(c)
        BY <1>6, <2>1 DEF SubmitReplay
    <2>2. CASE SubmitCommand(c)
        <3>1. /\ Append(H, c) \in Histories /\ ShardStands(Append(H, c))' /\ UNCHANGED answers
              /\ c \notin Range(H)
            BY <2>2, CommandLogged
        <3> QED
            BY <3>1 DEF Moves
    <2> QED
        BY <1>7, <2>1, <2>2
<1>8. CASE SubmitCommandFails \/ SubmitReportFails \/ SyncFails
    BY <1>8, CallsHalt, Rests
<1>9. CASE SubmitExecutes
    BY <1>9, Executes, Rests
<1>10. CASE SubmitReport
    BY <1>10, Reports, Rests
<1>11. CASE SubmitAnswers
    <2>1. /\ ShardStands(H)' /\ H # <<>>
          /\ answers' = answers \cup {[cmd |-> H[Len(H)], at |-> Len(H)]}
        BY <1>11, Answers
    <2> QED
        BY <2>1 DEF Moves
<1>12. CASE Capture
    BY <1>12, Captured, Rests
<1>13. ASSUME NEW capture \in captures, WriteCheckpoint(capture) \/ CompactBegin(capture)
       PROVE  \E G \in Histories : ShardStands(G)' /\ Moves(H, G)
    BY <1>13, WriteBegins, Rests
<1>14. CASE SnapshotStep \/ SnapshotReturns
    BY <1>14, WriteGoesOn, WriteReturns, Rests
<1>15. CASE CutoverBegins \/ CutoverStep \/ CutoverSucceeds \/ CutoverFails
    BY <1>15, Begun, CutoverStands, Succeeds, Fails, Rests
<1>16. ASSUME NEW t \in Targets, RecoverSnapshot(t)
       PROVE  \E G \in Histories : ShardStands(G)' /\ Moves(H, G)
    BY <1>16, SnapshotRecovered, Rests
<1>17. CASE PowerLoss
    <2>1. PICK n \in 0 .. Len(H) :
             /\ ShardStands(SubSeq(H, 1, n))' /\ SubSeq(H, 1, n) \in Histories
             /\ UNCHANGED answers /\ \A a \in answers : a.at <= n
        BY <1>17, PowerLossForgets
    <2> QED
        BY <2>1 DEF Moves
<1> QED
    BY <1>1, <1>2, <1>3, <1>4, <1>5, <1>6, <1>7, <1>8, <1>9, <1>10, <1>11, <1>12, <1>13,
       <1>14, <1>15, <1>16, <1>17 DEF Next

LEMMA InitStands ==
    ASSUME Init
    PROVE  <<>> \in Histories /\ ShardStands(<<>>)
<1>1. /\ wal = <<>> /\ synced = 0 /\ former = NoFile /\ tail = "clean" /\ phase = "closed"
      /\ ~ poisoned
    BY DEF Init, J!Init
<1>2. /\ current = [t \in Targets |-> NoFile] /\ device = current /\ pending = current
    BY DEF Init, S!Init
<1>3. step = "down" /\ epoch = 0 /\ captures = {} /\ answers = {}
    BY DEF Init
<1>4. <<>> \in Histories /\ Distinct(<<>>)
    BY DEF Histories, Distinct
<1>5. LogTells(<<>>)
    BY <1>1 DEF LogTells, FileTells
<1>6. AnchorsKept
    BY <1>1 DEF AnchorsKept, AnchorKept, AnchorHolds, HeadIsAnchor
<1>7. SnapshotsWithin(<<>>)
    BY <1>2 DEF SnapshotsWithin, Sound
<1>8. AnswersWithin(<<>>) /\ CapturesWithin(<<>>) /\ StepKnows(<<>>)
    BY <1>3 DEF AnswersWithin, CapturesWithin, StepKnows
<1>9. JournalKnows
    BY <1>1 DEF JournalKnows, J!Healthy
<1> QED
    BY <1>4, <1>5, <1>6, <1>7, <1>8, <1>9 DEF ShardStands

\* At every moment there is one history of distinct commands that the log, the
\* file a power loss would put back, all snapshots in place or staged, the live
\* captures, the answers given and the process agree with (durable.rs,
\* journal.rs and snapshot.rs together).
THEOREM BookInvariant == Spec => []BookInv
<1>1. Init => BookInv
    BY InitStands DEF BookInv
<1>2. BookInv /\ [Next]_vars => BookInv'
    <2> SUFFICES ASSUME NEW H \in Histories, ShardStands(H), [Next]_vars PROVE BookInv'
        BY DEF BookInv
    <2>1. \E G \in Histories : ShardStands(G)'
        BY StepStands
    <2> QED
        BY <2>1 DEF BookInv
<1> QED
    BY <1>1, <1>2, PTL DEF Spec

----------------------------------------------------------------------------
(* What the invariant gives *)

\* What a file holds the reports of is in the book that is recovered from it.
LEMMA InBook ==
    ASSUME NEW G \in Histories, NEW file, FileTells(file, G),
           NEW k \in Nat, 2 * k + 1 <= LastOf(file), k <= Len(G)
    PROVE  /\ BookOf(file, G) \in Histories /\ k <= Len(BookOf(file, G))
           /\ \A i \in 1 .. k : BookOf(file, G)[i] = G[i]
<1>1. Len(G) \in Nat /\ G \in Seq(Commands)
    BY DEF Histories
<1>2. CASE LastOf(file) = 2 * Len(G)
    <2> DEFINE n == Len(G) - 1
    <2>1. n \in 0 .. Len(G) /\ k <= n /\ n \in Nat
        BY <1>1, <1>2
    <2>2. BookOf(file, G) = SubSeq(G, 1, n)
        BY <1>2 DEF BookOf
    <2> HIDE DEF n
    <2>3. /\ SubSeq(G, 1, n) \in Seq(Commands) /\ Len(SubSeq(G, 1, n)) = n
          /\ \A i \in 1 .. n : SubSeq(G, 1, n)[i] = G[i]
        BY <1>1, <2>1
    <2> QED
        BY <2>1, <2>2, <2>3 DEF Histories
<1>3. CASE LastOf(file) # 2 * Len(G)
    BY <1>1, <1>3 DEF BookOf
<1> QED
    BY <1>2, <1>3

\* A checkpoint within a file is a prefix of the book recovered from it.
LEMMA PrefixOfBook ==
    ASSUME NEW G \in Histories, NEW file, FileTells(file, G),
           NEW checkpoint, CheckpointWithin(checkpoint, G, LastOf(file))
    PROVE  IsPrefix(checkpoint.history, BookOf(file, G))
<1> DEFINE h == checkpoint.history
           k == Len(h)
           whole == BookOf(file, G)
<1>1. /\ h \in Seq(Commands) /\ k \in Nat /\ 2 * k + 1 <= LastOf(file) /\ k <= Len(G)
      /\ h = SubSeq(G, 1, k)
    BY DEF CheckpointWithin, S!Contents
<1> HIDE DEF h
<1>2. whole \in Seq(Commands) /\ k <= Len(whole) /\ \A i \in 1 .. k : whole[i] = G[i]
    BY <1>1, InBook DEF Histories
<1> HIDE DEF whole
<1>3. \A i \in 1 .. k : h[i] = G[i]
    BY <1>1 DEF Histories
<1>4. SubSeq(h, 1, k) = SubSeq(whole, 1, k)
    BY <1>1, <1>2, <1>3
<1> QED
    BY <1>2, <1>4 DEF IsPrefix, h, whole

\* Every file that a later open may find tells what is kept of the history.
LEMMA ImagesTell ==
    ASSUME NEW H \in Histories, ShardStands(H), NEW file \in WalImages
    PROVE  \E G \in Histories :
              /\ Distinct(G) /\ FileTells(file, G)
              /\ LastOf(file) \in Nat /\ Keeps(H, G, FloorLast, LastOf(file))
              /\ AnchorKept(file)
<1>1. /\ Distinct(H) /\ LogTells(H) /\ AnchorsKept
    BY DEF ShardStands
<1>2. /\ FileTells(wal, H) /\ synced \in 0 .. Len(wal) /\ Len(wal) \in Nat /\ Len(H) \in Nat
      /\ LastOf(wal) \in Nat /\ FloorLast \in Nat
      /\ FloorLast <= LastOf(wal) /\ LastOf(wal) <= 2 * Len(H) + 1
    BY <1>1, FloorFacts DEF LogTells
<1>3. Keeps(H, H, FloorLast, LastOf(wal))
    <2> DEFINE a == FloorLast
               b == LastOf(wal)
    <2>1. a \in Nat /\ b \in Nat /\ a <= b /\ a <= 2 * Len(H) + 1 /\ Begins(H, H, Len(H))
        <3>1. a \in Nat /\ b \in Nat /\ a <= b /\ b <= 2 * Len(H) + 1
            BY <1>2
        <3> HIDE DEF a, b
        <3> QED
            BY <1>2, <3>1 DEF Begins
    <2> HIDE DEF a, b
    <2>2. Keeps(H, H, a, b)
        BY <2>1, KeepsMore
    <2> QED
        BY <2>2 DEF a, b
<1>4. CASE file = wal
    BY <1>1, <1>2, <1>3, <1>4 DEF AnchorsKept
<1>5. ASSUME PowerFailures, former # NoFile, file = former
      PROVE  \E G \in Histories :
                /\ Distinct(G) /\ FileTells(file, G)
                /\ LastOf(file) \in Nat /\ Keeps(H, G, FloorLast, LastOf(file))
                /\ AnchorKept(file)
    <2>1. Tells(former, H) /\ LastOf(former) = LastOf(wal) /\ AnchorKept(former)
        BY <1>1, <1>5 DEF LogTells, AnchorsKept
    <2>2. FileTells(file, H)
        BY <1>5, <2>1 DEF FileTells, Tells
    <2> QED
        BY <1>1, <1>2, <1>3, <1>5, <2>1, <2>2
<1>6. ASSUME PowerFailures, NEW kept \in synced .. Len(wal), file = SubSeq(wal, 1, kept)
      PROVE  \E G \in Histories :
                /\ Distinct(G) /\ FileTells(file, G)
                /\ LastOf(file) \in Nat /\ Keeps(H, G, FloorLast, LastOf(file))
                /\ AnchorKept(file)
    <2>0. kept \in 0 .. Len(wal) /\ kept \in Nat /\ FloorLast = LastKept(wal, synced)
        BY <1>2, <1>6 DEF FloorLast
    <2>1. CASE kept = 0
        <3>1. file = <<>> /\ synced = 0
            <4>1. wal \in Seq(Frames)
                BY <1>1, FloorFacts
            <4> QED
                BY <1>2, <1>6, <2>1, <4>1
        <3>2. /\ <<>> \in Histories /\ Distinct(<<>>) /\ FileTells(file, <<>>)
              /\ LastOf(file) = 0 /\ FloorLast = 0
              /\ AnchorKept(file)
            BY <2>0, <3>1 DEF Histories, Distinct, FileTells, LastOf, LastKept, AnchorKept,
                              AnchorHolds, HeadIsAnchor
        <3>3. Keeps(H, <<>>, FloorLast, LastOf(file))
            BY <3>2 DEF Keeps
        <3> QED
            BY <3>2, <3>3
    <2>2. CASE kept # 0
        <3>1. Tells(wal, H) /\ kept \in 1 .. Len(wal)
            <4>1. kept \in 1 .. Len(wal) /\ wal # <<>>
                BY <1>2, <2>0, <2>2
            <4> QED
                BY <1>2, <4>1 DEF FileTells
        <3>2. PICK last, n, G : /\ last = wal[1].seq + kept - 1 /\ n = last \div 2
                                /\ G = SubSeq(H, 1, n)
            OBVIOUS
        <3>3. /\ n \in 0 .. Len(H) /\ Tells(file, G) /\ LastOf(file) = last
              /\ file[1] = wal[1]
            BY <1>6, <3>1, <3>2, TellsLess
        <3>4. /\ LastKept(wal, kept) = last /\ LastKept(wal, synced) <= last /\ last \in Nat
            <4>1. LastKept(wal, kept) = last
                BY <2>2, <3>2 DEF LastKept
            <4>2. LastKept(wal, synced) <= LastKept(wal, kept) /\ LastKept(wal, kept) \in Nat
                BY <1>2, <1>6, <2>0, Numbers
            <4> QED
                BY <4>1, <4>2
        <3>5. last <= 2 * n + 1 /\ n \in Nat
            BY <3>2, <3>4, Halves
        <3>6. Keeps(H, G, FloorLast, LastOf(file))
            <4> DEFINE before == FloorLast
            <4>1. before \in Nat /\ before <= last
                BY <1>2, <2>0, <3>4
            <4> HIDE DEF before
            <4>2. Keeps(H, SubSeq(H, 1, n), before, last)
                BY <3>3, <3>4, <3>5, <4>1, KeepsLess
            <4> QED
                BY <3>2, <3>3, <4>2 DEF before
        <3>7. G \in Histories /\ Distinct(G)
            <4>0. H \in Seq(Commands) /\ Len(H) \in Nat /\ n \in 0 .. Len(H)
                BY <1>2, <3>3 DEF Histories
            <4>1. /\ G \in Histories /\ Len(G) = n
                  /\ \A i \in 1 .. n : G[i] = H[i] /\ i \in 1 .. Len(H)
                <5>1. /\ SubSeq(H, 1, n) \in Seq(Commands) /\ Len(SubSeq(H, 1, n)) = n
                      /\ \A i \in 1 .. n : SubSeq(H, 1, n)[i] = H[i] /\ i \in 1 .. Len(H)
                    BY <4>0
                <5> QED
                    BY <3>2, <5>1 DEF Histories
            <4> QED
                BY <1>1, <4>1 DEF Distinct
        <3>8. FileTells(file, G) /\ AnchorKept(file)
            <4>1. FileTells(file, G) /\ (HeadIsAnchor(file) <=> HeadIsAnchor(wal))
                BY <3>1, <3>3 DEF HeadIsAnchor, FileTells, Tells
            <4>2. AnchorKept(wal)
                BY <1>1 DEF AnchorsKept
            <4> QED
                BY <3>3, <4>1, <4>2 DEF AnchorKept, AnchorHolds, Torn
        <3> QED
            BY <3>3, <3>4, <3>6, <3>7, <3>8
    <2> QED
        BY <2>1, <2>2
<1> QED
    BY <1>4, <1>5, <1>6 DEF WalImages

\* Snapshots that a later open may find stand for what no failure takes back, or
\* are torn.  A torn file at a settled name is one that an operator put there.
LEMMA ImagesOfSnapshots ==
    ASSUME NEW H \in Histories, ShardStands(H), NEW snapshots \in SnapshotImages
    PROVE  /\ snapshots \in [Targets -> Within(H) \cup {NoFile, Partial}]
           /\ \A t \in Targets : current[t] = device[t] =>
                 /\ snapshots[t] = Partial \/ S!Read(snapshots[t]) = S!Read(current[t])
                 /\ current[t] = Partial => snapshots[t] = Partial
                 /\ snapshots[t] = Partial => t \in promoted
<1>1. SnapshotsWithin(H)
    BY DEF ShardStands
<1>2. ASSUME NEW t \in Targets \ promoted PROVE Sound(current[t]) /\ current[t] # Partial
    BY <1>1, ShardAssumption DEF ShardAssumption, SnapshotsWithin, Sound
<1>3. CASE ~ PowerFailures
    <2>1. snapshots = current
        BY <1>3 DEF SnapshotImages
    <2> QED
        BY <1>1, <1>2, <2>1 DEF SnapshotsWithin
<1>4. CASE PowerFailures
    <2>1. PICK undone \in SUBSET S!Unsettled :
             snapshots \in {S!Remaining(S!Fallen(undone), torn) :
                               torn \in S!MayTear(S!Fallen(undone))}
        BY <1>4 DEF SnapshotImages
    <2>2. PICK names : names = S!Fallen(undone)
        OBVIOUS
    <2>3. PICK torn \in S!MayTear(names) : snapshots = S!Remaining(names, torn)
        BY <2>1, <2>2
    <2>4. /\ names \in [Targets -> Within(H) \cup {NoFile, Partial}]
          /\ \A t \in Targets : /\ names[t] \in {current[t], device[t]}
                                /\ current[t] = device[t] => t \notin undone
        BY <1>1, <2>2, FallsBack
    <2>5. /\ snapshots \in [Targets -> Within(H) \cup {NoFile, Partial}]
          /\ \A t \in Targets :
                /\ snapshots[t] = Partial \/ S!Read(snapshots[t]) = S!Read(names[t])
                /\ Sound(names[t]) => snapshots[t] # Partial
                /\ names[t] \in {NoFile, Partial} => snapshots[t] = names[t]
        BY <2>3, <2>4, Remains
    <2>6. ASSUME NEW t \in Targets, current[t] = device[t]
          PROVE  /\ snapshots[t] = Partial \/ S!Read(snapshots[t]) = S!Read(current[t])
                 /\ current[t] = Partial => snapshots[t] = Partial
                 /\ snapshots[t] = Partial => t \in promoted
        <3>1. names[t] = current[t]
            BY <2>4, <2>6
        <3> QED
            BY <1>2, <2>5, <3>1
    <2> QED
        BY <2>5, <2>6
<1> QED
    BY <1>3, <1>4

\* Whatever files are left, the shard comes up with what is kept, unless the slot
\* of the log is torn.
LEMMA ImagesReopen ==
    ASSUME NEW H \in Histories, ShardStands(H),
           NEW file \in WalImages, NEW snapshots \in SnapshotImages
    PROVE  \E G \in Histories :
              /\ FileTells(file, G) /\ LastOf(file) \in Nat
              /\ Keeps(H, G, FloorLast, LastOf(file))
              /\ \/ SlotTorn(file, snapshots) /\ ~ Reopened(file, snapshots).ok
                 \/ /\ Reopened(file, snapshots).ok
                    /\ Reopened(file, snapshots).book = BookOf(file, G)
<1>1. PICK G \in Histories :
         /\ Distinct(G) /\ FileTells(file, G)
         /\ LastOf(file) \in Nat /\ Keeps(H, G, FloorLast, LastOf(file))
         /\ AnchorKept(file)
    BY ImagesTell
<1>2. CASE Torn(file, snapshots)
    <2>1. /\ HeadIsAnchor(file) /\ file # <<>> /\ file[1].body.slot \in Targets
          /\ snapshots[file[1].body.slot] = Partial
          /\ current[file[1].body.slot] = device[file[1].body.slot]
        BY <1>1, <1>2 DEF AnchorKept, Torn, HeadIsAnchor
    <2>2. SlotTorn(file, snapshots)
        BY <2>1, ImagesOfSnapshots DEF SlotTorn, HeadIsAnchor
    <2>3. ~ Reopened(file, snapshots).ok
        BY <1>2, <2>1, RefusesTorn DEF Reopened
    <2> QED
        BY <1>1, <2>2, <2>3
<1>3. CASE ~ Torn(file, snapshots)
    <2>1. AnchorHolds(file, snapshots)
        <3> SUFFICES ASSUME HeadIsAnchor(file) PROVE AnchorHolds(file, snapshots)
            BY DEF AnchorHolds
        <3> DEFINE s == file[1].body.slot
        <3>1. /\ s \in Targets /\ current[s] = device[s] /\ snapshots[s] # Partial
              /\ AnchorHolds(file, current) \/ current[s] = Partial
            BY <1>1, <1>3 DEF AnchorKept, Torn
        <3>2. S!Read(snapshots[s]) = S!Read(current[s]) /\ current[s] # Partial
            BY <3>1, ImagesOfSnapshots
        <3> QED
            BY <3>1, <3>2 DEF AnchorHolds
    <2>2. "base" \in Targets /\ S!Read(snapshots["base"]) # NoFile =>
             S!Read(snapshots["base"]) \in S!Contents
             /\ CheckpointWithin(S!Read(snapshots["base"]), G, LastOf(file))
        <3> SUFFICES ASSUME "base" \in Targets, S!Read(snapshots["base"]) # NoFile
                     PROVE  S!Read(snapshots["base"]) \in S!Contents
                            /\ CheckpointWithin(S!Read(snapshots["base"]), G, LastOf(file))
            OBVIOUS
        <3> DEFINE a == FloorLast
                   b == LastOf(file)
        <3>1. snapshots["base"] \in Within(H)
            <4>1. snapshots["base"] \in Within(H) \cup {NoFile, Partial}
                BY ImagesOfSnapshots
            <4> QED
                BY <4>1, FileFacts
        <3>2. /\ S!Read(snapshots["base"]) \in S!Contents
              /\ CheckpointWithin(S!Read(snapshots["base"]), H, a)
              /\ b \in Nat /\ Keeps(H, G, a, b) /\ a \in Nat
            BY <1>1, <3>1, FileFacts, FloorFacts DEF ShardStands, Within
        <3> HIDE DEF a, b
        <3>3. CheckpointWithin(S!Read(snapshots["base"]), G, b)
            BY <3>2, WithinKept
        <3> QED
            BY <3>2, <3>3 DEF b
    <2>3. /\ Reopened(file, snapshots).ok
          /\ Reopened(file, snapshots).book = BookOf(file, G)
        BY <1>1, <2>1, <2>2, ReopensTo
    <2> QED
        BY <1>1, <2>3
<1> QED
    BY <1>2, <1>3

LEMMA Recovers ==
    ASSUME NEW H \in Histories, ShardStands(H)
    PROVE  AlwaysRecoverable
<1> SUFFICES ASSUME NEW file \in WalImages, NEW snapshots \in SnapshotImages
             PROVE  \/ /\ Reopened(file, snapshots).ok
                       /\ SnapshotsBehind(snapshots, Reopened(file, snapshots).book)
                    \/ SlotTorn(file, snapshots)
    BY DEF AlwaysRecoverable
<1>1. PICK G \in Histories :
         /\ FileTells(file, G) /\ LastOf(file) \in Nat
         /\ Keeps(H, G, FloorLast, LastOf(file))
         /\ \/ SlotTorn(file, snapshots) /\ ~ Reopened(file, snapshots).ok
            \/ /\ Reopened(file, snapshots).ok
               /\ Reopened(file, snapshots).book = BookOf(file, G)
    BY ImagesReopen
<1>2. FloorLast \in Nat
    BY FloorFacts DEF ShardStands
<1>3. ASSUME NEW f \in Within(H) \cup {NoFile, Partial}, S!IsValid(f)
      PROVE  IsPrefix(f.history, BookOf(file, G))
    <2>1. f \in S!Files /\ CheckpointWithin(S!Read(f), H, FloorLast)
        BY <1>3 DEF S!IsValid, Within
    <2> DEFINE a == FloorLast
               b == LastOf(file)
    <2>2. a \in Nat /\ b \in Nat /\ Keeps(H, G, a, b) /\ CheckpointWithin(S!Read(f), H, a)
        BY <1>1, <1>2, <2>1
    <2> HIDE DEF a, b
    <2>3. CheckpointWithin(S!Read(f), G, b)
        BY <2>2, WithinKept
    <2>4. IsPrefix(S!Read(f).history, BookOf(file, G))
        BY <1>1, <2>3, PrefixOfBook DEF b
    <2> QED
        BY <2>1, <2>4, FileFacts
<1>4. ASSUME NEW t \in Targets
      PROVE  /\ S!IsValid(snapshots[t]) => IsPrefix(snapshots[t].history, BookOf(file, G))
             /\ S!IsValid(pending[t]) => IsPrefix(pending[t].history, BookOf(file, G))
    <2>1. snapshots[t] \in Within(H) \cup {NoFile, Partial}
        BY ImagesOfSnapshots
    <2>2. pending[t] \in Within(H) \cup {NoFile, Partial}
        BY DEF ShardStands, SnapshotsWithin
    <2> QED
        BY <1>3, <2>1, <2>2
<1>5. Reopened(file, snapshots).book = BookOf(file, G) =>
         SnapshotsBehind(snapshots, Reopened(file, snapshots).book)
    BY <1>4 DEF SnapshotsBehind
<1> QED
    BY <1>1, <1>5

LEMMA AnswersStand ==
    ASSUME NEW H \in Histories, ShardStands(H)
    PROVE  AnswersSurvive
<1> SUFFICES ASSUME NEW file \in WalImages, NEW snapshots \in SnapshotImages,
                    Reopened(file, snapshots).ok, NEW a \in answers
             PROVE  /\ a.at <= Len(Reopened(file, snapshots).book)
                    /\ Reopened(file, snapshots).book[a.at] = a.cmd
    BY DEF AnswersSurvive
<1>1. PICK G \in Histories :
         /\ FileTells(file, G) /\ LastOf(file) \in Nat
         /\ Keeps(H, G, FloorLast, LastOf(file))
         /\ Reopened(file, snapshots).book = BookOf(file, G)
    BY ImagesReopen
<1>2. /\ a.at \in 1 .. Len(H) /\ 2 * a.at + 1 <= FloorLast /\ H[a.at] = a.cmd
      /\ FloorLast \in Nat
    BY FloorFacts DEF ShardStands, AnswersWithin
<1>3. a.at \in Nat /\ a.at \in 1 .. a.at
    BY <1>2 DEF Histories
<1>4. a.at <= Len(G) /\ G[a.at] = a.cmd
    BY <1>1, <1>2, <1>3 DEF Keeps, Begins
<1>5. 2 * a.at + 1 <= LastOf(file)
    <2> DEFINE b == FloorLast
               c == LastOf(file)
    <2>1. b \in Nat /\ c \in Nat /\ b <= c /\ 2 * a.at + 1 <= b
        BY <1>1, <1>2 DEF Keeps
    <2> HIDE DEF b, c
    <2>2. 2 * a.at + 1 <= c
        BY <1>3, <2>1
    <2> QED
        BY <2>2 DEF c
<1>6. a.at <= Len(BookOf(file, G)) /\ BookOf(file, G)[a.at] = G[a.at]
    BY <1>1, <1>3, <1>4, <1>5, InBook
<1> QED
    BY <1>1, <1>4, <1>6

LEMMA CutsOver ==
    ASSUME NEW H \in Histories, ShardStands(H)
    PROVE  AcceptedCaptureCutsOver
<1> SUFFICES ASSUME step = "cutover"
             PROVE  /\ using.boundary.first = first
                    /\ using.boundary.end <= end
                    /\ IsPrefix(using.history, book)
                    /\ wal[using.boundary.end].seq = using.gen
    BY DEF AcceptedCaptureCutsOver
<1>1. /\ Tells(wal, H) /\ Logged(H) /\ LogTells(H) /\ CaptureStands(using, H) /\ Settled(H)
      /\ JournalKnows
    BY CutoverFacts
<1>2. AtTail(0) /\ wal # <<>>
    BY <1>1 DEF JournalKnows, Settled, Logged
<1>3. first = wal[1].seq /\ first \in Nat /\ end = Len(wal) /\ end \in Nat
    BY <1>1, <1>2, TailNumbers
<1>4. /\ using.boundary.first = first /\ using.boundary.end \in 1 .. end
      /\ using.gen = first + using.boundary.end - 1
    BY <1>1 DEF CaptureStands
<1>5. wal[using.boundary.end].seq = wal[1].seq + using.boundary.end - 1
    BY <1>1, <1>3, <1>4 DEF Tells
<1>6. IsPrefix(using.history, book)
    <2>1. CheckpointWithin(CheckpointOf(using), H, LastOf(wal))
        BY <1>1, WithinLog DEF CaptureStands
    <2>2. FileTells(wal, H) /\ book = H /\ LastOf(wal) = 2 * Len(H) + 1
        BY <1>1 DEF LogTells, Logged
    <2>3. BookOf(wal, H) = H
        BY <2>2 DEF BookOf, Histories
    <2>4. IsPrefix(CheckpointOf(using).history, BookOf(wal, H))
        BY <2>1, <2>2, PrefixOfBook
    <2> QED
        BY <2>2, <2>3, <2>4 DEF CheckpointOf
<1> QED
    BY <1>3, <1>4, <1>5, <1>6

\* After any sequence of calls, storage errors, process deaths, operator repairs
\* and power losses, whatever the device kept of the log and of the snapshots,
\* the shard opens from it and no snapshot is ahead of the book; only a slot that
\* recover_pending filled with a file whose bytes passed no barrier, and that a
\* power loss tore, keeps it from opening (durable.rs open_storage,
\* compact_verified_checkpoint; snapshot.rs promote_and_sync).
THEOREM ShardAlwaysRecovers == Spec => []AlwaysRecoverable
<1>1. BookInv => AlwaysRecoverable
    BY Recovers DEF BookInv
<1> QED
    BY <1>1, BookInvariant, PTL

\* A report that the committing call returned is in every book that can be
\* recovered, at its place (durable.rs commit_prepared).
THEOREM AnswersAreKept == Spec => []AnswersSurvive
<1>1. BookInv => AnswersSurvive
    BY AnswersStand DEF BookInv
<1> QED
    BY <1>1, BookInvariant, PTL

\* validate_verified_checkpoint lets no capture through that the journal cannot
\* cut over at.
THEOREM AcceptedCapturesCutOver == Spec => []AcceptedCaptureCutsOver
<1>1. BookInv => AcceptedCaptureCutsOver
    BY CutsOver DEF BookInv
<1> QED
    BY <1>1, BookInvariant, PTL

----------------------------------------------------------------------------
(* The shard implements its promise *)

\* Checkpoints in a file that the frames up to `last' cover.
FilesUpTo(H, last) == {f \in S!Files : CheckpointWithin(S!Read(f), H, last)}

\* The log of ShardLog is the history.
LEMMA ReadsTheHistory ==
    ASSUME NEW H \in Histories, Distinct(H), NEW file, FileTells(file, H),
           NEW kept \in 0 .. Len(file), NEW snapshots, AnchorHolds(file, snapshots),
           snapshots \in [Targets -> FilesUpTo(H, LastKept(file, kept)) \cup {NoFile, Partial}]
    PROVE  LET recovered == Reopened(file, snapshots) IN
           recovered.book \o (IF recovered.dangling = NoFile THEN <<>>
                              ELSE <<recovered.dangling>>) = H
<1>1. "base" \in Targets /\ S!Read(snapshots["base"]) # NoFile =>
         S!Read(snapshots["base"]) \in S!Contents
         /\ CheckpointWithin(S!Read(snapshots["base"]), H, LastOf(file))
    <2> SUFFICES ASSUME "base" \in Targets, S!Read(snapshots["base"]) # NoFile
                 PROVE  S!Read(snapshots["base"]) \in S!Contents
                        /\ CheckpointWithin(S!Read(snapshots["base"]), H, LastOf(file))
        OBVIOUS
    <2>1. /\ S!Read(snapshots["base"]) \in S!Contents
          /\ CheckpointWithin(S!Read(snapshots["base"]), H, LastKept(file, kept))
        <3>1. snapshots["base"] \in FilesUpTo(H, LastKept(file, kept))
            <4>1. snapshots["base"] \in FilesUpTo(H, LastKept(file, kept)) \cup {NoFile, Partial}
                OBVIOUS
            <4> QED
                BY <4>1, FileFacts
        <3> QED
            BY <3>1, FileFacts DEF FilesUpTo
    <2> DEFINE a == LastKept(file, kept)
               b == LastOf(file)
               g == S!Read(snapshots["base"]).gen
    <2>2. a \in Nat /\ b \in Nat /\ a <= b /\ g \in Nat /\ g <= a
        BY <2>1, Numbers DEF S!Contents, CheckpointWithin
    <2> HIDE DEF a, b, g
    <2>3. g <= b
        BY <2>2
    <2> QED
        BY <2>1, <2>3 DEF CheckpointWithin, g, b
<1> QED
    BY <1>1, ReopensTo

\* Whatever is read, a log whose slot is torn is lost.
LogOf(file, snapshots, filled) ==
    LET recovered == Reopened(file, snapshots) IN
    IF /\ file # <<>> /\ file[1].body.kind = "Anchor"
       /\ snapshots[file[1].body.slot] = Partial /\ file[1].body.slot \in filled
    THEN NoFile
    ELSE recovered.book \o IF recovered.dangling = NoFile THEN <<>> ELSE <<recovered.dangling>>

LEMMA LogReads ==
    ASSUME NEW H \in Histories, Distinct(H), NEW file, FileTells(file, H),
           NEW kept \in 0 .. Len(file), NEW snapshots, NEW filled,
           snapshots \in [Targets -> FilesUpTo(H, LastKept(file, kept)) \cup {NoFile, Partial}],
           AnchorHolds(file, snapshots) \/ Torn(file, snapshots),
           HeadIsAnchor(file) => file[1].body.slot \in Targets,
           \A t \in Targets \ filled : Sound(snapshots[t])
    PROVE  LogOf(file, snapshots, filled) = IF Torn(file, snapshots) THEN NoFile ELSE H
<1>1. CASE Torn(file, snapshots)
    <2>1. /\ file # <<>> /\ file[1].body.kind = "Anchor" /\ file[1].body.slot \in Targets
          /\ snapshots[file[1].body.slot] = Partial
        BY <1>1 DEF Torn, HeadIsAnchor
    <2>2. file[1].body.slot \in filled
        BY <2>1, ShardAssumption DEF ShardAssumption, Sound
    <2> QED
        BY <1>1, <2>1, <2>2 DEF LogOf
<1>2. CASE ~ Torn(file, snapshots)
    <2>1. LET recovered == Reopened(file, snapshots) IN
          recovered.book \o (IF recovered.dangling = NoFile THEN <<>>
                             ELSE <<recovered.dangling>>) = H
        BY <1>2, ReadsTheHistory
    <2> QED
        BY <1>2, <2>1 DEF LogOf, Torn, HeadIsAnchor
<1> QED
    BY <1>1, <1>2

LEMMA LogIs ==
    ASSUME NEW H \in Histories
    PROVE  /\ ShardStands(H) => RecoveredLog = IF Torn(wal, current) THEN NoFile ELSE H
           /\ ShardStands(H)' => RecoveredLog' = IF Torn(wal', current') THEN NoFile ELSE H
<1>1. ASSUME ShardStands(H) PROVE RecoveredLog = IF Torn(wal, current) THEN NoFile ELSE H
    <2> DEFINE kept == IF PowerFailures THEN synced ELSE Len(wal)
    <2>1. /\ Distinct(H) /\ FileTells(wal, H) /\ AnchorKept(wal)
          /\ SnapshotsWithin(H) /\ synced \in 0 .. Len(wal)
        BY <1>1 DEF ShardStands, LogTells, AnchorsKept
    <2>2. kept \in 0 .. Len(wal) /\ FloorLast = LastKept(wal, kept)
        <3>1. Len(wal) \in Nat
            BY <1>1, FloorFacts DEF ShardStands
        <3> QED
            BY <2>1, <3>1 DEF FloorLast
    <2> HIDE DEF kept
    <2>3. current \in [Targets -> FilesUpTo(H, LastKept(wal, kept)) \cup {NoFile, Partial}]
          /\ \A t \in Targets \ promoted : Sound(current[t])
        BY <2>1, <2>2 DEF SnapshotsWithin, Within, FilesUpTo
    <2>4. /\ AnchorHolds(wal, current) \/ Torn(wal, current)
          /\ HeadIsAnchor(wal) => wal[1].body.slot \in Targets
        BY <2>1 DEF AnchorKept
    <2>5. LogOf(wal, current, promoted) = IF Torn(wal, current) THEN NoFile ELSE H
        BY <2>1, <2>2, <2>3, <2>4, LogReads
    <2> QED
        BY <2>5 DEF RecoveredLog, LogOf, SlotTorn
<1>2. ASSUME ShardStands(H)' PROVE RecoveredLog' = IF Torn(wal', current') THEN NoFile ELSE H
    <2>0. PICK file, snapshots, kept, filled :
             /\ file = wal' /\ snapshots = current' /\ filled = promoted'
             /\ kept = IF PowerFailures THEN synced' ELSE Len(wal')
        OBVIOUS
    <2>1. /\ Distinct(H) /\ FileTells(file, H)
          /\ SnapshotsWithin(H)' /\ synced' \in 0 .. Len(file)
        BY <1>2, <2>0 DEF ShardStands, LogTells
    <2>2. kept \in 0 .. Len(file) /\ FloorLast' = LastKept(file, kept)
        <3>2. Len(file) \in Nat
            BY <2>1, Numbers
        <3> QED
            BY <2>0, <2>1, <3>2 DEF FloorLast, LastKept
    <2>3. /\ snapshots \in [Targets -> FilesUpTo(H, LastKept(file, kept)) \cup {NoFile, Partial}]
          /\ \A t \in Targets \ filled : Sound(snapshots[t])
        BY <2>0, <2>1, <2>2 DEF SnapshotsWithin, Within, FilesUpTo, Sound
    <2>4. /\ AnchorHolds(file, snapshots) \/ Torn(file, snapshots)
          /\ HeadIsAnchor(file) => file[1].body.slot \in Targets
        BY <1>2, <2>0 DEF ShardStands, AnchorsKept, AnchorKept, AnchorHolds, Torn, HeadIsAnchor
    <2>5. LogOf(file, snapshots, filled) = IF Torn(file, snapshots) THEN NoFile ELSE H
        BY <2>1, <2>2, <2>3, <2>4, LogReads
    <2> QED
        BY <2>0, <2>5 DEF RecoveredLog, LogOf, SlotTorn
<1> QED
    BY <1>1, <1>2

\* A step that keeps the head of the log and puts no unreadable file in place
\* tears nothing.
LEMMA TornAsBefore ==
    ASSUME Torn(wal', current'), HeadIsAnchor(wal') => HeadIsAnchor(wal) /\ wal'[1] = wal[1],
           \A t : current'[t] = Partial => current[t] = Partial
    PROVE  Torn(wal, current)
BY DEF Torn

\* A frame behind the log is no anchor.
LEMMA HeadStays ==
    ASSUME NEW H \in Histories, ShardStands(H), NEW body, body.kind # "Anchor",
           J!AppendWrite(<<body>>)
    PROVE  HeadIsAnchor(wal') => HeadIsAnchor(wal) /\ wal'[1] = wal[1]
<1>1. /\ wal' = wal \o <<[seq |-> LastOf(wal) + 1, body |-> body]>>
      /\ wal = <<>> => wal' = <<[seq |-> 1, body |-> body]>>
    BY FrameWritten
<1>2. CASE wal = <<>>
    BY <1>1, <1>2 DEF HeadIsAnchor
<1>3. CASE wal # <<>>
    <2>1. wal \in Seq(Frames)
        BY FloorFacts DEF ShardStands
    <2>2. wal'[1] = wal[1]
        BY <1>1, <1>3, <2>1
    <2> QED
        BY <1>3, <2>2 DEF HeadIsAnchor
<1> QED
    BY <1>2, <1>3

\* Only a power loss tears a file.
LEMMA OnlyPowerTears ==
    ASSUME NEW H \in Histories, ShardStands(H), Next, ~ PowerLoss, Torn(wal', current')
    PROVE  Torn(wal, current)
<1>1. LogTells(H) /\ SnapshotsWithin(H) /\ StepKnows(H)
    BY DEF ShardStands
<1>2. ASSUME UNCHANGED <<wal, current>> PROVE Torn(wal, current)
    BY <1>2
<1>3. ASSUME NEW body, body.kind # "Anchor", J!AppendWrite(<<body>>), UNCHANGED current
      PROVE  Torn(wal, current)
    <2>1. HeadIsAnchor(wal') => HeadIsAnchor(wal) /\ wal'[1] = wal[1]
        BY <1>3, HeadStays
    <2> QED
        BY <1>3, <2>1, TornAsBefore
<1>4. ASSUME NEW body, NEW cut, J!AppendWriteFails(<<body>>, 0, cut), UNCHANGED current
      PROVE  Torn(wal, current)
    <2>1. wal' = wal
        BY <1>1, <1>4, NothingWritten
    <2> QED
        BY <1>2, <1>4, <2>1
<1>5. CASE OpenStart \/ OpenScan \/ OpenScanFails \/ OpenDefined \/ OpenResumed \/ OpenAbandons
    BY <1>2, <1>5 DEF OpenStart, OpenScan, OpenScanFails, OpenDefined, OpenResumed, OpenAbandons,
                      snapshotVars, J!AcquireLease, J!OpenClean, J!OpenRepair, J!OpenFails,
                      J!files, J!AppendBarrier, J!ProcessEnds, S!ProcessEnds
<1>6. CASE OpenDefines
    BY <1>3, <1>4, <1>6 DEF OpenDefines, snapshotVars, Definition
<1>7. ASSUME NEW withCheckpoint \in BOOLEAN, OpenReplays(withCheckpoint)
      PROVE  Torn(wal, current)
    <2>1. CASE Recovery(wal, current, withCheckpoint).dangling = NoFile
        BY <1>2, <1>7, <2>1 DEF OpenReplays, snapshotVars, journalVars
    <2>2. CASE Recovery(wal, current, withCheckpoint).dangling # NoFile
        BY <1>3, <1>7, <2>2 DEF OpenReplays, snapshotVars, Report
    <2> QED
        BY <2>1, <2>2
<1>8. ASSUME NEW withCheckpoint \in BOOLEAN, OpenResumeFails(withCheckpoint)
      PROVE  Torn(wal, current)
    BY <1>4, <1>8 DEF OpenResumeFails, snapshotVars
<1>9. ASSUME NEW c \in Commands, SubmitReplay(c) \/ SubmitCommand(c)
      PROVE  Torn(wal, current)
    BY <1>2, <1>3, <1>9 DEF SubmitReplay, SubmitCommand, vars, journalVars, snapshotVars,
                            CommandRecord
<1>10. CASE SubmitCommandFails \/ SubmitReportFails
    BY <1>2, <1>4, <1>10 DEF SubmitCommandFails, SubmitReportFails, snapshotVars, journalVars,
                             J!AppendBarrierFails, J!files
<1>11. CASE SubmitReport
    BY <1>3, <1>11 DEF SubmitReport, ReportFrame, Report, snapshotVars
<1>12. CASE SubmitExecutes \/ SubmitAnswers \/ Capture \/ SyncFails
    BY <1>2, <1>12 DEF SubmitExecutes, SubmitAnswers, Capture, SyncFails, snapshotVars,
                       J!AppendBarrier, J!Sync, J!SyncFails, J!files
<1>13. ASSUME NEW capture \in captures,
              VerifyFails(capture) \/ WriteCheckpoint(capture) \/ CompactBegin(capture)
       PROVE  Torn(wal, current)
    BY <1>2, <1>13 DEF VerifyFails, WriteCheckpoint, CompactBegin, snapshotVars, journalVars,
                       S!WriteBegin
<1>14. CASE SnapshotStep
    <2>1. step \in {"writing", "snapshot"} /\ Writing /\ UNCHANGED wal
        BY <1>1, <1>14 DEF SnapshotStep, StepKnows, journalVars
    <2>2. CASE ~ S!Rename
        BY <1>2, <1>14, <2>1, <2>2 DEF SnapshotStep, S!Stage, S!StageFails, S!RenameFails,
                                       S!DirectorySync, S!DirectorySyncFails
    <2>3. CASE S!Rename
        <3>1. /\ current' = [current EXCEPT ![write.target] = pending[write.target]]
              /\ pending[write.target] = S!Stored(write.value, TRUE)
              /\ write.value \in S!Contents
            BY <2>1, <2>3 DEF S!Rename, Writing
        <3>2. pending[write.target] # Partial
            BY <3>1, FileFacts
        <3>3. DOMAIN current = Targets
            BY <1>1 DEF SnapshotsWithin
        <3>4. HeadIsAnchor(wal) => wal[1].body.slot \in Targets
            BY DEF ShardStands, AnchorsKept, AnchorKept
        <3> QED
            BY <2>1, <3>1, <3>2, <3>3, <3>4 DEF Torn
    <2> QED
        BY <2>2, <2>3
<1>15. CASE SnapshotReturns \/ CutoverBegins \/ CutoverSucceeds \/ CutoverFails
    BY <1>2, <1>15 DEF SnapshotReturns, S!Return, CutoverBegins, CutoverSucceeds, CutoverFails,
                       snapshotVars, journalVars, J!CutoverBegin, J!PublishDirectorySync,
                       J!SyncFails, J!StageRefused, J!StageCleanupFails, J!PublishRenameFails,
                       J!PublishDirectorySyncFails, J!files
<1>16. CASE CutoverStep
    <2>1. CASE J!StageCutover(TheAnchor)
        BY <1>2, <1>16, <2>1 DEF CutoverStep, snapshotVars, J!StageCutover
    <2>2. CASE J!PublishRename
        <3>1. /\ step = "anchoring" /\ phase = "publish" /\ wal' = staging /\ current' = current
            BY <1>16, <2>2 DEF CutoverStep, snapshotVars, J!PublishRename
        <3>2. staging[1] = TheHead /\ SlotWritten
            BY <1>1, <3>1 DEF StepKnows, Anchoring
        <3>3. wal'[1].body.slot = Alternate
            BY <3>1, <3>2 DEF TheHead, TheAnchor, AnchorTo
        <3>4. S!Read(current[Alternate]) # NoFile
            <4>1. S!Read(current[Alternate]) = [gen |-> using.gen, history |-> using.history]
                BY <3>2 DEF SlotWritten, CheckpointOf
            <4>2. using \in Captures
                BY <1>1, <3>1 DEF StepKnows
            <4>3. S!Read(current[Alternate]) \in S!Contents
                BY <4>1, <4>2 DEF Captures, S!Contents, Histories
            <4> QED
                BY <4>3, ShardAssumption DEF ShardAssumption
        <3>5. current[Alternate] # Partial
            BY <3>4, FileFacts
        <3> QED
            BY <3>1, <3>3, <3>5 DEF Torn
    <2> QED
        BY <1>16, <2>1, <2>2 DEF CutoverStep
<1>17. ASSUME NEW t \in Targets, RecoverSnapshot(t)
       PROVE  Torn(wal, current)
    <2>1. /\ UNCHANGED wal
          /\ \/ current' = current
             \/ /\ current' = [current EXCEPT ![t] = pending[t]]
                /\ S!IsValid(pending[t])
        BY <1>17 DEF RecoverSnapshot, journalVars, S!RecoverPending, S!Discard, S!Promote
    <2>2. DOMAIN current = Targets
        BY <1>1 DEF SnapshotsWithin
    <2>3. HeadIsAnchor(wal) => wal[1].body.slot \in Targets
        BY DEF ShardStands, AnchorsKept, AnchorKept
    <2> QED
        BY <2>1, <2>2, <2>3 DEF Torn, S!IsValid
<1>18. CASE RecoverStaging \/ Close \/ ProcessDies
    BY <1>2, <1>18 DEF RecoverStaging, Close, ProcessDies, snapshotVars, J!RecoverPending,
                       J!Close, J!ProcessEnds, S!ProcessEnds
<1> QED
    BY <1>5, <1>6, <1>7, <1>8, <1>9, <1>10, <1>11, <1>12, <1>13, <1>14, <1>15, <1>16, <1>17,
       <1>18 DEF Next

\* A shard whose slot is torn never comes up, and nothing takes back the log that
\* names the slot.
TornRests ==
    Torn(wal, current) =>
        step \in {"down", "opening"} /\ former = NoFile /\ synced # 0

\* What a power loss tears stays torn.
LEMMA PowerTears ==
    ASSUME NEW H \in Histories, ShardStands(H), TornRests, PowerLoss
    PROVE  TornRests' /\ (Torn(wal, current) => Torn(wal', current')) /\ UNCHANGED answers
<1>1. /\ S!PowerLoss /\ step' = "down" /\ former' = NoFile /\ UNCHANGED answers
      /\ \/ \E kept \in synced .. Len(wal) : wal' = SubSeq(wal, 1, kept) /\ synced' = kept
         \/ former # NoFile /\ wal' = former /\ synced' = Len(former)
    BY DEF PowerLoss, ShardGone, J!PowerLoss, J!PowerLossUndoesRename
<1>2. /\ LogTells(H) /\ SnapshotsWithin(H) /\ AnchorKept(wal)
      /\ wal \in Seq(Frames) /\ Len(wal) \in Nat /\ synced \in 0 .. Len(wal)
    BY FloorFacts DEF ShardStands, LogTells, AnchorsKept
<1>3. TornRests'
    <2> SUFFICES ASSUME Torn(wal', current') PROVE synced' # 0
        BY <1>1 DEF TornRests, Torn, HeadIsAnchor
    <2>1. wal' # <<>>
        BY DEF Torn, HeadIsAnchor
    <2>2. CASE \E kept \in synced .. Len(wal) : wal' = SubSeq(wal, 1, kept) /\ synced' = kept
        <3>1. PICK kept \in synced .. Len(wal) : wal' = SubSeq(wal, 1, kept) /\ synced' = kept
            BY <2>2
        <3>2. kept = 0 => SubSeq(wal, 1, kept) = <<>>
            BY <1>2
        <3> QED
            BY <2>1, <3>1, <3>2
    <2>3. CASE former # NoFile /\ wal' = former /\ synced' = Len(former)
        <3>1. former \in Seq(Frames) /\ former # <<>>
            BY <1>2, <2>3 DEF LogTells, Tells
        <3> QED
            BY <2>3, <3>1
    <2> QED
        BY <1>1, <2>2, <2>3
<1>4. ASSUME Torn(wal, current) PROVE Torn(wal', current')
    <2>1. PICK kept \in synced .. Len(wal) : wal' = SubSeq(wal, 1, kept)
        BY <1>1, <1>4 DEF TornRests
    <2>2. kept \in 1 .. Len(wal)
        BY <1>2, <1>4, <2>1 DEF TornRests
    <2>3. wal' # <<>> /\ wal'[1] = wal[1]
        BY <1>2, <2>1, <2>2
    <2>4. HeadIsAnchor(wal') /\ Torn(wal', current)
        BY <1>4, <2>3 DEF Torn, HeadIsAnchor
    <2>5. Torn(wal', current) => Torn(wal', current')
        BY <1>1, <1>2, <1>4, <2>3, AnchorFalls DEF Torn
    <2> QED
        BY <2>4, <2>5
<1> QED
    BY <1>1, <1>3, <1>4

\* No other step of the shard but those of an opening is taken then.
LEMMA TornShard ==
    ASSUME NEW H \in Histories, ShardStands(H), TornRests, Torn(wal, current), Next, ~ PowerLoss
    PROVE  TornRests' /\ Torn(wal', current') /\ UNCHANGED answers
<1>1. /\ step \in {"down", "opening"} /\ former = NoFile /\ synced # 0
      /\ HeadIsAnchor(wal) /\ current[wal[1].body.slot] = Partial
    BY DEF TornRests, Torn
<1>2. /\ wal \in Seq(Frames) /\ Len(wal) \in Nat /\ Len(wal) # 0
    <2>1. wal \in Seq(Frames) /\ wal # <<>>
        BY <1>1, FloorFacts DEF ShardStands, HeadIsAnchor
    <2> QED
        BY <2>1
<1>3. ASSUME UNCHANGED <<wal, current, answers>>, former' = NoFile,
             synced' \in {synced, Len(wal)}, step' \in {"down", "opening"}
      PROVE  TornRests' /\ Torn(wal', current') /\ UNCHANGED answers
    <2>1. Torn(wal', current')
        BY <1>3
    <2> QED
        BY <1>1, <1>2, <1>3, <2>1 DEF TornRests
<1>4. CASE OpenStart \/ OpenScan \/ OpenScanFails \/ RecoverStaging
    BY <1>1, <1>3, <1>4 DEF OpenStart, OpenScan, OpenScanFails, RecoverStaging, snapshotVars,
                           shardVars, J!AcquireLease, J!OpenClean, J!OpenRepair, J!OpenFails,
                           J!files, J!RecoverPending
<1>5. CASE OpenAbandons \/ ProcessDies
    BY <1>1, <1>3, <1>5 DEF OpenAbandons, ProcessDies, ShardGone, J!ProcessEnds, S!ProcessEnds
<1>6. ASSUME NEW capture \in captures, VerifyFails(capture)
      PROVE  TornRests' /\ Torn(wal', current') /\ UNCHANGED answers
    BY <1>1, <1>3, <1>6 DEF VerifyFails, journalVars, snapshotVars
<1>7. ASSUME NEW t \in Targets, RecoverSnapshot(t)
      PROVE  TornRests' /\ Torn(wal', current') /\ UNCHANGED answers
    <2>1. /\ UNCHANGED <<journalVars, answers, step>> /\ pending[t] # NoFile
          /\ current' = current \/ current' = [current EXCEPT ![t] = pending[t]]
        BY <1>7 DEF RecoverSnapshot, shardVars, S!RecoverPending, S!Discard, S!Promote
    <2>2. wal[1].body.slot # t /\ wal[1].body.slot \in Targets /\ DOMAIN current = Targets
        BY <1>1, <2>1 DEF ShardStands, AnchorsKept, AnchorKept, SnapshotsWithin
    <2>3. current'[wal[1].body.slot] = Partial
        BY <1>1, <2>1, <2>2
    <2>4. Torn(wal', current')
        BY <1>1, <2>1, <2>3 DEF Torn, journalVars
    <2> QED
        BY <1>1, <2>1, <2>4 DEF TornRests, journalVars
<1>8. ~ OpenDefines
    <2> SUFFICES ASSUME OpenDefines PROVE FALSE
        OBVIOUS
    <2>1. J!Healthy /\ end = 0
        BY DEF OpenDefines, J!AppendWrite, J!AppendWriteFails
    <2>2. AtTail(0)
        BY <2>1 DEF ShardStands, JournalKnows
    <2> QED
        BY <1>2, <2>1, <2>2 DEF AtTail
<1>9. ASSUME NEW withCheckpoint \in BOOLEAN
      PROVE  ~ OpenReplays(withCheckpoint) /\ ~ OpenResumeFails(withCheckpoint)
    <2>1. Recovery(wal, current, withCheckpoint).ok = FALSE
        BY RefusesTorn
    <2> QED
        BY <2>1 DEF OpenReplays, OpenResumeFails
<1>10. /\ ~ OpenDefined /\ ~ OpenResumed
       /\ \A c \in Commands : ~ SubmitReplay(c) /\ ~ SubmitCommand(c)
       /\ ~ SubmitCommandFails /\ ~ SubmitExecutes /\ ~ SubmitReport /\ ~ SubmitReportFails
       /\ ~ SubmitAnswers /\ ~ Capture /\ ~ SyncFails
    BY <1>1 DEF OpenDefined, OpenResumed, SubmitReplay, SubmitCommand, SubmitCommandFails,
                SubmitExecutes, SubmitReport, SubmitReportFails, SubmitAnswers, Capture,
                SyncFails, Ready, Executed
<1>11. /\ \A capture \in captures : ~ WriteCheckpoint(capture) /\ ~ CompactBegin(capture)
       /\ ~ SnapshotStep /\ ~ SnapshotReturns /\ ~ CutoverBegins /\ ~ CutoverStep
       /\ ~ CutoverSucceeds /\ ~ CutoverFails /\ ~ Close
    BY <1>1 DEF WriteCheckpoint, CompactBegin, SnapshotStep, SnapshotReturns, CutoverBegins,
                CutoverStep, CutoverSucceeds, CutoverFails, Close, Ready
<1> QED
    BY <1>4, <1>5, <1>6, <1>7, <1>8, <1>9, <1>10, <1>11 DEF Next

\* Torn is torn for good, and no step that tears or finds a slot torn answers.
LEMMA TornSteps ==
    ASSUME NEW H \in Histories, ShardStands(H), TornRests, [Next]_vars
    PROVE  /\ TornRests' /\ (Torn(wal, current) => Torn(wal', current'))
           /\ Torn(wal', current') => UNCHANGED answers
<1>1. CASE UNCHANGED vars
    BY <1>1 DEF vars, journalVars, snapshotVars, shardVars, TornRests, Torn, HeadIsAnchor
<1>2. CASE PowerLoss
    BY <1>2, PowerTears
<1>3. CASE Next /\ ~ PowerLoss /\ Torn(wal, current)
    BY <1>3, TornShard
<1>4. CASE Next /\ ~ PowerLoss /\ ~ Torn(wal, current)
    <2>1. ~ Torn(wal', current')
        BY <1>4, OnlyPowerTears
    <2> QED
        BY <1>4, <2>1 DEF TornRests, Torn, HeadIsAnchor
<1> QED
    BY <1>1, <1>2, <1>3, <1>4

\* Each step of the shard is a step of the log of commands, or none.
LEMMA StepsOfTheLog ==
    ASSUME NEW H \in Histories, NEW G \in Histories, RecoveredLog = H, RecoveredLog' = G,
           Moves(H, G)
    PROVE  [Abstract!Next]_(Abstract!vars)
<1>0. Abstract!IsKept /\ Len(H) \in Nat
    BY ShardAssumption DEF ShardAssumption, Abstract!IsKept, Histories
<1>1. CASE G = H /\ UNCHANGED answers
    BY <1>1 DEF Abstract!vars
<1>2. ASSUME NEW c \in Commands, c \notin Range(H), G = Append(H, c), UNCHANGED answers
      PROVE  Abstract!Next
    BY <1>0, <1>2 DEF Abstract!Next, Abstract!Sequence, Abstract!Range, Range
<1>3. CASE G = H /\ H # <<>> /\ answers' = answers \cup {[cmd |-> H[Len(H)], at |-> Len(H)]}
    <2>1. Len(H) \in 1 .. Len(H)
        BY <1>3, Extended
    <2>2. Abstract!Answer(Len(H))
        BY <1>3 DEF Abstract!Answer
    <2> QED
        BY <1>0, <2>1, <2>2 DEF Abstract!Next
<1>4. ASSUME NEW n \in 0 .. Len(H), G = SubSeq(H, 1, n), UNCHANGED answers,
             \A a \in answers : a.at <= n
      PROVE  Abstract!Next
    <2>1. PICK lost : lost = Len(H) - n
        OBVIOUS
    <2>2. lost \in 0 .. Len(H) /\ Len(H) - lost = n
        BY <1>0, <2>1
    <2>3. Abstract!Forget(lost)
        BY <1>4, <2>2 DEF Abstract!Forget
    <2> QED
        BY <1>0, <2>2, <2>3 DEF Abstract!Next
<1> QED
    BY <1>1, <1>2, <1>3, <1>4 DEF Moves

\* The durable shard implements ShardLog: a command takes one place, an answer
\* names it, and what a failure forgets was not answered.  A log whose slot a
\* power loss tore is lost as a whole and for good.
THEOREM ShardImplementsLog == Spec => ImplementsShardLog
<1>1. Init => Abstract!Init /\ TornRests
    <2> SUFFICES ASSUME Init PROVE Abstract!Init /\ TornRests
        OBVIOUS
    <2>1. ~ Torn(wal, current) /\ answers = {}
        BY DEF Init, J!Init, Torn, HeadIsAnchor
    <2>2. RecoveredLog = <<>>
        BY <2>1, InitStands, LogIs
    <2> QED
        BY <2>1, <2>2 DEF Abstract!Init, TornRests
<1>2. BookInv /\ TornRests /\ [Next]_vars => TornRests' /\ [Abstract!Next]_(Abstract!vars)
    <2> SUFFICES ASSUME NEW H \in Histories, ShardStands(H), TornRests, [Next]_vars
                 PROVE  TornRests' /\ [Abstract!Next]_(Abstract!vars)
        BY DEF BookInv
    <2>1. PICK G \in Histories : ShardStands(G)' /\ Moves(H, G)
        BY StepStands
    <2>2. /\ RecoveredLog = IF Torn(wal, current) THEN NoFile ELSE H
          /\ RecoveredLog' = IF Torn(wal', current') THEN NoFile ELSE G
        BY <2>1, LogIs
    <2>3. /\ TornRests' /\ (Torn(wal, current) => Torn(wal', current'))
          /\ Torn(wal', current') => UNCHANGED answers
        BY TornSteps
    <2>4. CASE Torn(wal', current')
        BY <2>2, <2>3, <2>4 DEF Abstract!Next, Abstract!Lose
    <2>5. CASE ~ Torn(wal', current')
        <3>1. RecoveredLog = H /\ RecoveredLog' = G
            BY <2>2, <2>3, <2>5
        <3> QED
            BY <2>1, <2>3, <3>1, StepsOfTheLog
    <2> QED
        BY <2>4, <2>5
<1> QED
    BY <1>1, <1>2, BookInvariant, PTL DEF Spec, ImplementsShardLog, Abstract!Spec

============================================================================
