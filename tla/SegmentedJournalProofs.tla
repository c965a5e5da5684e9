------------------------ MODULE SegmentedJournalProofs ------------------------
(***************************************************************************)
(* Proofs about the segmented journal: the invariant of the directory, its *)
(* device and the running call; that a power failure at any moment leaves  *)
(* a directory that opens with all that was settled; and that to its       *)
(* writer the directory is the log of RecordLog.                           *)
(*                                                                         *)
(* A chain of segments Holds a log if each of its frames is in the segment *)
(* its number falls in and each segment ends where the next begins.  Names *)
(* and files stand for a log if what reads as their chain holds it, and    *)
(* the synchronized frames of it hold a beginning of it (Stood).  A marker *)
(* is Safe if its segments so stand for a log that covers what was settled *)
(* and that, from the synchronized beginning on, may be left by a power    *)
(* failure.  An append lengthens the log, a rotation adds an empty end to  *)
(* the chain, a cutover builds a second chain beside the first; and what a *)
(* power failure leaves of a chain that stands holds a beginning of it.    *)
(***************************************************************************)
EXTENDS SegmentedJournal, TLAPS, WellFoundedInduction, SequenceTheorems

----------------------------------------------------------------------------
(* Least and greatest numbers *)

LEMMA LeastUnder ==
    ASSUME NEW R, \A x, y \in Nat : <<y, x>> \in R <=> y < x,
           NEW T, T \subseteq Nat, \E x \in T : \A y \in T : ~(<<y, x>> \in R)
    PROVE  \E x \in T : \A y \in T : x <= y
<1>1. PICK x \in T : \A y \in T : ~(<<y, x>> \in R) OBVIOUS
<1>2. \A y \in T : ~(y < x) BY <1>1
<1> QED BY <1>2

LEMMA LessThan == \A x, y \in Nat : <<y, x>> \in OpToRel(<, Nat) <=> y < x
BY DEF OpToRel

\* A set of natural numbers has a least one.
LEMMA HasLeast ==
    ASSUME NEW T, T \subseteq Nat, T # {}
    PROVE  \E x \in T : \A y \in T : x <= y
<1> DEFINE R == OpToRel(<, Nat)
<1>1. IsWellFoundedOn(R, Nat) BY NatLessThanWellFounded
<1>2. \A x, y \in Nat : <<y, x>> \in R <=> y < x BY LessThan
<1> HIDE DEF R
<1>3. \E x \in T : \A y \in T : ~(<<y, x>> \in R) BY <1>1, WFMin
<1> QED BY <1>2, <1>3, LeastUnder

\* A bounded one has a greatest, and that is Max.
LEMMA HasMax ==
    ASSUME NEW T, T \subseteq Nat, T # {}, NEW b \in Nat, \A x \in T : x <= b
    PROVE  Max(T) \in T /\ \A y \in T : y <= Max(T)
<1> DEFINE U == {b - x : x \in T}
<1>1. U \subseteq Nat
  <2>1. ASSUME NEW x \in T PROVE b - x \in Nat
    <3>1. x \in Nat /\ x <= b OBVIOUS
    <3> QED BY <3>1
  <2> QED BY <2>1
<1>2. U # {} OBVIOUS
<1>3. PICK u \in U : \A y \in U : u <= y
  <2> HIDE DEF U
  <2> QED BY <1>1, <1>2, HasLeast
<1>4. PICK x \in T : u = b - x OBVIOUS
<1>5. ASSUME NEW y \in T PROVE y <= x
  <2>1. b - y \in U OBVIOUS
  <2>2. x \in Nat /\ y \in Nat OBVIOUS
  <2>3. b - x <= b - y BY <1>3, <1>4, <2>1
  <2> QED BY <2>2, <2>3
<1>6. \E t \in T : \A y \in T : t >= y
  <2>1. \A y \in T : x >= y BY <1>5
  <2> QED BY <2>1
<1>7. Max(T) \in T /\ \A y \in T : Max(T) >= y BY <1>6 DEF Max
<1>8. \A y \in T : y \in Nat OBVIOUS
<1> QED BY <1>7, <1>8

----------------------------------------------------------------------------
(* A chain of segments and the log it holds *)

Top(log) == log.first + Len(log.bodies)

\* The frames of a chain, by the start of their segment, are those of a log.
Fills(chain, start, log) ==
    /\ chain[start] \in Seq(Bodies) /\ Len(chain[start]) <= SegmentFrames
    /\ log.first <= start /\ EndOf(chain, start) <= Top(log)
    /\ \A k \in 1 .. Len(chain[start]) : chain[start][k] = log.bodies[start - log.first + k]
    /\ \/ EndOf(chain, start) = Top(log)
       \/ start < EndOf(chain, start) /\ EndOf(chain, start) \in DOMAIN chain

Ordered(chain) ==
    \A s, t \in DOMAIN chain : s < t => s < EndOf(chain, s) /\ EndOf(chain, s) <= t

Holds(chain, log) ==
    /\ log \in Logs /\ DOMAIN chain \subseteq Nat /\ log.first \in DOMAIN chain
    /\ \A start \in DOMAIN chain : Fills(chain, start, log)
    /\ Ordered(chain)

LEMMA HoldsTypes ==
    ASSUME NEW chain, NEW log, Holds(chain, log)
    PROVE  /\ log.first \in Nat /\ log.bodies \in Seq(Bodies) /\ Len(log.bodies) \in Nat
           /\ Top(log) \in Nat
           /\ \A s \in DOMAIN chain : /\ s \in Nat /\ Len(chain[s]) \in Nat
                                      /\ chain[s] \in Seq(Bodies)
                                      /\ EndOf(chain, s) = s + Len(chain[s])
<1>1. log.first \in Nat /\ log.bodies \in Seq(Bodies) BY DEF Holds, Logs
<1>2. Len(log.bodies) \in Nat BY <1>1, LenProperties
<1>3. \A s \in DOMAIN chain : s \in Nat /\ chain[s] \in Seq(Bodies) BY DEF Holds, Fills
<1>4. \A s \in DOMAIN chain : Len(chain[s]) \in Nat BY <1>3, LenProperties
<1> QED BY <1>1, <1>2, <1>3, <1>4 DEF Top, EndOf

\* The last segment is the one with the greatest start; it ends with the log.
LEMMA LastOfChain ==
    ASSUME NEW chain, NEW log, Holds(chain, log)
    PROVE  /\ Max(DOMAIN chain) \in DOMAIN chain
           /\ \A s \in DOMAIN chain : s <= Max(DOMAIN chain)
           /\ EndOf(chain, Max(DOMAIN chain)) = Top(log)
<1> DEFINE l == Max(DOMAIN chain)
<1>1. \A s \in DOMAIN chain : s <= Top(log) BY HoldsTypes DEF Holds, Fills
<1>2. l \in DOMAIN chain /\ \A s \in DOMAIN chain : s <= l
      BY <1>1, HasMax, HoldsTypes DEF Holds
<1>3. EndOf(chain, l) = Top(log)
  <2>1. CASE l < EndOf(chain, l) /\ EndOf(chain, l) \in DOMAIN chain
    <3>1. EndOf(chain, l) <= l BY <1>2, <2>1
    <3>2. l \in Nat /\ EndOf(chain, l) \in Nat BY <1>2, <2>1, HoldsTypes
    <3> QED BY <2>1, <3>1, <3>2
  <2>2. Fills(chain, l, log) BY <1>2 DEF Holds
  <2> QED BY <2>1, <2>2 DEF Fills
<1> QED BY <1>2, <1>3

\* The frame with a number of the log is found in its segment.
LEMMA FrameOfChain ==
    ASSUME NEW chain, NEW log, Holds(chain, log),
           NEW i \in 1 .. Len(log.bodies)
    PROVE  FrameAt(chain, log.first + i - 1) = log.bodies[i]
<1> DEFINE seq == log.first + i - 1
           T == {at \in DOMAIN chain : at <= seq}
           s == Max(T)
<1>0. seq \in Nat /\ log.first <= seq /\ seq < Top(log) BY HoldsTypes DEF Top
<1>1. T \subseteq Nat /\ T # {} /\ \A at \in T : at <= seq
      BY <1>0 DEF Holds
<1>2. s \in T /\ \A t \in T : t <= s
  <2> HIDE DEF T, seq
  <2> QED BY <1>0, <1>1, HasMax
<1>3. s \in DOMAIN chain /\ s <= seq /\ s \in Nat BY <1>1, <1>2
<1>4. Fills(chain, s, log) BY <1>3 DEF Holds
<1>5. EndOf(chain, s) = s + Len(chain[s]) /\ Len(chain[s]) \in Nat BY <1>3, HoldsTypes
<1>6. seq < EndOf(chain, s)
  <2>1. SUFFICES ASSUME EndOf(chain, s) <= seq PROVE FALSE BY <1>0, <1>3, <1>5
  <2>2. EndOf(chain, s) # Top(log) BY <1>0, <1>3, <1>5, <2>1
  <2>3. s < EndOf(chain, s) /\ EndOf(chain, s) \in DOMAIN chain BY <1>4, <2>2 DEF Fills
  <2>4. EndOf(chain, s) \in T BY <2>1, <2>3
  <2>5. EndOf(chain, s) <= s BY <1>2, <2>4
  <2> QED BY <1>3, <1>5, <2>3, <2>5
<1>7. seq - s + 1 \in 1 .. Len(chain[s]) BY <1>0, <1>3, <1>5, <1>6
<1>8. chain[s][seq - s + 1] = log.bodies[s - log.first + (seq - s + 1)] BY <1>4, <1>7 DEF Fills
<1>9. s - log.first + (seq - s + 1) = i BY <1>0, <1>3, HoldsTypes
<1>10. FrameAt(chain, seq) = chain[s][seq - s + 1] BY DEF FrameAt
<1> QED BY <1>8, <1>9, <1>10

\* What is read of a chain is its log, and open accepts it.
LEMMA ReadsChain ==
    ASSUME NEW chain, NEW log, Holds(chain, log)
    PROVE  FramesIn(chain, log.first) = log.bodies
<1>1. DOMAIN chain # {} BY DEF Holds
<1>2. EndOf(chain, Max(DOMAIN chain)) - log.first = Len(log.bodies)
      BY LastOfChain, HoldsTypes DEF Top
<1> DEFINE read == [i \in 1 .. Len(log.bodies) |-> FrameAt(chain, log.first + i - 1)]
<1>3. FramesIn(chain, log.first) = read BY <1>1, <1>2 DEF FramesIn
<1>4. \A i \in 1 .. Len(log.bodies) : read[i] = log.bodies[i] BY FrameOfChain
<1>5. log.bodies \in Seq(Bodies) BY HoldsTypes
<1>6. log.bodies = [i \in 1 .. Len(log.bodies) |-> log.bodies[i]] BY <1>5
<1> QED BY <1>3, <1>4, <1>6

LEMMA FitsChain ==
    ASSUME NEW chain, NEW log, Holds(chain, log)
    PROVE  ChainFits(chain, log.first)
<1>1. ASSUME NEW s \in DOMAIN chain, NEW t \in DOMAIN chain, s < t
      PROVE  s < EndOf(chain, s) /\ EndOf(chain, s) \in DOMAIN chain
  <2>1. s < EndOf(chain, s) /\ EndOf(chain, s) <= t BY <1>1 DEF Holds, Ordered
  <2>2. CASE EndOf(chain, s) = Top(log)
    <3>1. t + Len(chain[t]) <= Top(log) /\ t \in Nat /\ Len(chain[t]) \in Nat
          BY HoldsTypes DEF Holds, Fills
    <3>2. t = EndOf(chain, s) BY <2>1, <2>2, <3>1, HoldsTypes
    <3> QED BY <2>1, <3>2
  <2> QED BY <2>1, <2>2 DEF Holds, Fills
<1>2. \A s, t \in DOMAIN chain : s < t => EndOf(chain, s) <= t BY DEF Holds, Ordered
<1>3. \A s \in DOMAIN chain : log.first <= s /\ Len(chain[s]) <= SegmentFrames
      BY DEF Holds, Fills
<1>4. log.first \in DOMAIN chain BY DEF Holds
<1> QED BY <1>1, <1>2, <1>3, <1>4 DEF ChainFits

----------------------------------------------------------------------------
(* Segments on the device *)

Cut(log, n) == [log EXCEPT !.bodies = SubSeq(@, 1, n)]

Contents(segs) == [start \in DOMAIN segs |-> segs[start].frames]

\* The segments of a marker hold a log: all but the last are synchronized and
\* have their names on the device, and so has the last unless it is empty and
\* not the only one.
Stands(segs, sure, log) ==
    /\ Holds(Contents(segs), log)
    /\ log.first \in sure
    /\ \A s \in DOMAIN segs : /\ segs[s].synced \in 0 .. Len(segs[s].frames)
                              /\ s \in sure \/ segs[s].frames = <<>>
    /\ \A s, t \in DOMAIN segs : s < t => segs[s].synced = Len(segs[s].frames) /\ s \in sure

\* So many bodies of the log are on the device.
DurableTo(segs, log, n) ==
    /\ n \in 0 .. Len(log.bodies)
    /\ log.first + n <= Max(DOMAIN segs) + segs[Max(DOMAIN segs)].synced

LEMMA CutIs ==
    ASSUME NEW log \in Logs, NEW n \in 0 .. Len(log.bodies)
    PROVE  /\ Cut(log, n) \in Logs /\ Cut(log, n).first = log.first
           /\ Cut(log, n).bodies = SubSeq(log.bodies, 1, n)
           /\ Len(Cut(log, n).bodies) = n
           /\ \A i \in 1 .. n : Cut(log, n).bodies[i] = log.bodies[i]
           /\ Top(Cut(log, n)) = log.first + n
<1>1. log.first \in Nat /\ log.bodies \in Seq(Bodies) BY DEF Logs
<1>2. Len(log.bodies) \in Nat BY <1>1, LenProperties
<1> DEFINE b == SubSeq(log.bodies, 1, n)
<1>3. Cut(log, n) = [log EXCEPT !.bodies = b] BY DEF Cut
<1>4. b \in Seq(Bodies) /\ Len(b) = n /\ \A i \in 1 .. n : b[i] = log.bodies[i]
      BY <1>1, <1>2, SubSeqProperties
<1> HIDE DEF b
<1>5. Cut(log, n) = [first |-> log.first, bodies |-> b] BY <1>3 DEF Logs
<1> QED BY <1>1, <1>4, <1>5 DEF Logs, Top, b

LEMMA CutAll == ASSUME NEW log \in Logs PROVE Cut(log, Len(log.bodies)) = log
<1>1. log.first \in Nat /\ log.bodies \in Seq(Bodies) BY DEF Logs
<1>2. SubSeq(log.bodies, 1, Len(log.bodies)) = log.bodies
  <2> DEFINE b == SubSeq(log.bodies, 1, Len(log.bodies))
  <2>1. Len(log.bodies) \in Nat BY <1>1, LenProperties
  <2>2. b \in Seq(Bodies) /\ Len(b) = Len(log.bodies) /\ \A i \in 1 .. Len(log.bodies) : b[i] = log.bodies[i]
        BY <1>1, <2>1, SubSeqProperties
  <2> HIDE DEF b
  <2>3. b = log.bodies BY <1>1, <2>2, SeqEqual
  <2> QED BY <2>3 DEF b
<1> QED BY <1>1, <1>2 DEF Cut, Logs

LEMMA CutAgain ==
    ASSUME NEW log \in Logs, NEW k \in 0 .. Len(log.bodies), NEW n \in 0 .. k
    PROVE  Cut(Cut(log, k), n) = Cut(log, n)
<1>1. log.bodies \in Seq(Bodies) BY DEF Logs
<1>2. Len(log.bodies) \in Nat BY <1>1, LenProperties
<1>3. n \in 0 .. Len(log.bodies) BY <1>2
<1>4. Cut(log, k) \in Logs /\ Len(Cut(log, k).bodies) = k /\ Cut(log, k).first = log.first
      /\ \A i \in 1 .. k : Cut(log, k).bodies[i] = log.bodies[i] BY CutIs
<1> DEFINE a == Cut(Cut(log, k), n)
           b == Cut(log, n)
<1>5. a \in Logs /\ a.first = log.first /\ Len(a.bodies) = n /\ \A i \in 1 .. n : a.bodies[i] = log.bodies[i]
      BY <1>4, CutIs
<1>6. b \in Logs /\ b.first = log.first /\ Len(b.bodies) = n /\ \A i \in 1 .. n : b.bodies[i] = log.bodies[i]
      BY <1>3, CutIs
<1> HIDE DEF a, b
<1>7. a.bodies = b.bodies BY <1>5, <1>6, SeqEqual DEF Logs
<1>8. a = b BY <1>5, <1>6, <1>7 DEF Logs
<1> QED BY <1>8 DEF a, b

LEMMA StandsTypes ==
    ASSUME NEW segs, NEW sure, NEW log, Stands(segs, sure, log)
    PROVE  /\ log \in Logs /\ log.first \in Nat /\ log.bodies \in Seq(Bodies)
           /\ Len(log.bodies) \in Nat /\ Top(log) = log.first + Len(log.bodies)
           /\ log.first \in DOMAIN segs
           /\ \A s \in DOMAIN segs :
                /\ s \in Nat /\ Len(segs[s].frames) \in Nat /\ segs[s].synced \in Nat
                /\ segs[s].frames \in Seq(Bodies) /\ segs[s].synced <= Len(segs[s].frames)
                /\ EndOf(Contents(segs), s) = s + Len(segs[s].frames)
                /\ Len(segs[s].frames) <= SegmentFrames
                /\ log.first <= s /\ s + Len(segs[s].frames) <= Top(log)
                /\ \A k \in 1 .. Len(segs[s].frames) : segs[s].frames[k] = log.bodies[s - log.first + k]
                /\ \/ s + Len(segs[s].frames) = Top(log)
                   \/ s < s + Len(segs[s].frames) /\ s + Len(segs[s].frames) \in DOMAIN segs
           /\ \A s, t \in DOMAIN segs : s < t => s < s + Len(segs[s].frames) /\ s + Len(segs[s].frames) <= t
<1> DEFINE c == Contents(segs)
<1>1. DOMAIN c = DOMAIN segs /\ \A s \in DOMAIN segs : c[s] = segs[s].frames BY DEF Contents
<1>2. Holds(c, log) BY DEF Stands
<1>3. \A s \in DOMAIN segs : segs[s].synced \in 0 .. Len(segs[s].frames) BY DEF Stands
<1> HIDE DEF c
<1>4. log \in Logs /\ log.first \in DOMAIN segs BY <1>1, <1>2 DEF Holds
<1>5. /\ log.first \in Nat /\ log.bodies \in Seq(Bodies) /\ Len(log.bodies) \in Nat
      /\ Top(log) = log.first + Len(log.bodies)
      BY <1>2, HoldsTypes DEF Top
<1>6. \A s \in DOMAIN segs : /\ s \in Nat /\ Len(segs[s].frames) \in Nat /\ segs[s].frames \in Seq(Bodies)
                             /\ EndOf(c, s) = s + Len(segs[s].frames)
      BY <1>1, <1>2, HoldsTypes
<1>7. \A s \in DOMAIN segs : Fills(c, s, log) BY <1>1, <1>2 DEF Holds
<1>8. \A s, t \in DOMAIN segs : s < t => s < s + Len(segs[s].frames) /\ s + Len(segs[s].frames) <= t
      BY <1>1, <1>2, <1>6 DEF Holds, Ordered
<1>9. \A s \in DOMAIN segs :
        /\ Len(segs[s].frames) <= SegmentFrames
        /\ log.first <= s /\ s + Len(segs[s].frames) <= Top(log)
        /\ \A k \in 1 .. Len(segs[s].frames) : segs[s].frames[k] = log.bodies[s - log.first + k]
        /\ \/ s + Len(segs[s].frames) = Top(log)
           \/ s < s + Len(segs[s].frames) /\ s + Len(segs[s].frames) \in DOMAIN segs
      BY <1>1, <1>6, <1>7 DEF Fills
<1>10. \A s \in DOMAIN segs : segs[s].synced \in Nat /\ segs[s].synced <= Len(segs[s].frames)
       BY <1>3, <1>6
<1> QED BY <1>4, <1>5, <1>6, <1>8, <1>9, <1>10 DEF c

LEMMA LastStands ==
    ASSUME NEW segs, NEW sure, NEW log, Stands(segs, sure, log)
    PROVE  /\ Max(DOMAIN segs) \in DOMAIN segs
           /\ \A s \in DOMAIN segs : s <= Max(DOMAIN segs)
           /\ Max(DOMAIN segs) + Len(segs[Max(DOMAIN segs)].frames) = Top(log)
<1>1. DOMAIN Contents(segs) = DOMAIN segs BY DEF Contents
<1>2. Holds(Contents(segs), log) BY DEF Stands
<1>3. Max(DOMAIN segs) \in DOMAIN segs /\ \A s \in DOMAIN segs : s <= Max(DOMAIN segs)
      BY <1>1, <1>2, LastOfChain
<1>4. EndOf(Contents(segs), Max(DOMAIN segs)) = Top(log) BY <1>1, <1>2, LastOfChain
<1> QED BY <1>3, <1>4, StandsTypes

\* The converse of StandsTypes and the definition of Stands: what there is to
\* show of segments.
LEMMA ToStand ==
    ASSUME NEW segs, NEW sure, NEW log,
           log \in Logs, log.first \in DOMAIN segs, log.first \in sure, DOMAIN segs \subseteq Nat,
           \A s \in DOMAIN segs :
                /\ segs[s].frames \in Seq(Bodies)
                /\ segs[s].synced \in 0 .. Len(segs[s].frames)
                /\ s \in sure \/ segs[s].frames = <<>>
                /\ Len(segs[s].frames) <= SegmentFrames
                /\ log.first <= s /\ s + Len(segs[s].frames) <= Top(log)
                /\ \A k \in 1 .. Len(segs[s].frames) : segs[s].frames[k] = log.bodies[s - log.first + k]
                /\ \/ s + Len(segs[s].frames) = Top(log)
                   \/ s < s + Len(segs[s].frames) /\ s + Len(segs[s].frames) \in DOMAIN segs,
           \A s, t \in DOMAIN segs :
                s < t => /\ s < s + Len(segs[s].frames) /\ s + Len(segs[s].frames) <= t
                         /\ segs[s].synced = Len(segs[s].frames) /\ s \in sure
    PROVE  Stands(segs, sure, log)
<1> DEFINE c == Contents(segs)
<1>1. DOMAIN c = DOMAIN segs /\ \A s \in DOMAIN segs : c[s] = segs[s].frames BY DEF Contents
<1> HIDE DEF c
<1>2. \A s \in DOMAIN segs : EndOf(c, s) = s + Len(segs[s].frames) BY <1>1 DEF EndOf
<1>3. \A s \in DOMAIN c : Fills(c, s, log) BY <1>1, <1>2 DEF Fills
<1>4. Ordered(c) BY <1>1, <1>2 DEF Ordered
<1>5. Holds(c, log) BY <1>1, <1>3, <1>4 DEF Holds
<1>6. Holds(Contents(segs), log) BY <1>5 DEF c
<1> QED BY <1>6 DEF Stands

----------------------------------------------------------------------------
(* What becomes of segments *)

\* What a power failure, or the removal of a name that was not yet on the
\* device, leaves of segments: the names that are sure and any of the others,
\* of each file what was synchronized and any more of it.
Remains(left, segs, sure) ==
    /\ DOMAIN left \subseteq DOMAIN segs
    /\ \A s \in DOMAIN segs : s \in sure => s \in DOMAIN left
    /\ \A s \in DOMAIN left :
         \E j \in segs[s].synced .. Len(segs[s].frames) :
            /\ left[s].frames = SubSeq(segs[s].frames, 1, j)
            /\ left[s].synced \in segs[s].synced .. j

LEMMA RemainsOf ==
    ASSUME NEW segs, NEW sure, NEW log, Stands(segs, sure, log),
           NEW left, Remains(left, segs, sure), NEW s \in DOMAIN left
    PROVE  /\ s \in DOMAIN segs
           /\ left[s].frames \in Seq(Bodies)
           /\ Len(left[s].frames) \in segs[s].synced .. Len(segs[s].frames)
           /\ left[s].synced \in segs[s].synced .. Len(left[s].frames)
           /\ \A k \in 1 .. Len(left[s].frames) : left[s].frames[k] = segs[s].frames[k]
           /\ Len(left[s].frames) = Len(segs[s].frames) => left[s].frames = segs[s].frames
<1>1. s \in DOMAIN segs BY DEF Remains
<1>2. PICK j \in segs[s].synced .. Len(segs[s].frames) :
          /\ left[s].frames = SubSeq(segs[s].frames, 1, j)
          /\ left[s].synced \in segs[s].synced .. j BY DEF Remains
<1> DEFINE f == segs[s].frames
           b == SubSeq(f, 1, j)
<1>3. f \in Seq(Bodies) /\ Len(f) \in Nat /\ segs[s].synced \in Nat BY <1>1, StandsTypes
<1>4. j \in 0 .. Len(f) BY <1>3
<1>5. b \in Seq(Bodies) /\ Len(b) = j /\ \A k \in 1 .. j : b[k] = f[k]
      BY <1>3, <1>4, SubSeqProperties
<1>6. left[s].frames = b BY <1>2
<1> HIDE DEF b, f
<1>7. j = Len(f) => b = f BY <1>3, <1>5, SeqEqual
<1>8. Len(left[s].frames) = j BY <1>5, <1>6
<1> QED BY <1>1, <1>2, <1>5, <1>6, <1>7, <1>8 DEF f

\* All but the last segment remain as they are, and the last remains unless
\* it is empty.
LEMMA RemainingStart ==
    ASSUME NEW segs, NEW sure, NEW log, Stands(segs, sure, log),
           NEW left, Remains(left, segs, sure)
    PROVE  /\ log.first \in DOMAIN left
           /\ \A s \in DOMAIN segs : s < Max(DOMAIN segs) =>
                 /\ s \in DOMAIN left
                 /\ left[s].frames = segs[s].frames /\ left[s].synced = Len(segs[s].frames)
           /\ Max(DOMAIN segs) \notin DOMAIN left =>
                 Max(DOMAIN segs) = Top(log) /\ segs[Max(DOMAIN segs)].frames = <<>>
<1> DEFINE l == Max(DOMAIN segs)
<1>1. l \in DOMAIN segs /\ \A s \in DOMAIN segs : s <= l BY LastStands
<1>2. log.first \in DOMAIN left BY StandsTypes DEF Stands, Remains
<1>3. ASSUME NEW s \in DOMAIN segs, s < l
      PROVE  s \in DOMAIN left /\ left[s].frames = segs[s].frames /\ left[s].synced = Len(segs[s].frames)
  <2>1. segs[s].synced = Len(segs[s].frames) /\ s \in sure BY <1>1, <1>3 DEF Stands
  <2>2. s \in DOMAIN left BY <2>1 DEF Remains
  <2>3. Len(segs[s].frames) \in Nat BY StandsTypes
  <2>4. Len(left[s].frames) = Len(segs[s].frames) BY <2>1, <2>2, <2>3, RemainsOf
  <2>5. left[s].synced = Len(segs[s].frames) BY <2>1, <2>2, <2>3, <2>4, RemainsOf
  <2> QED BY <2>2, <2>4, <2>5, RemainsOf
<1>4. ASSUME l \notin DOMAIN left PROVE l = Top(log) /\ segs[l].frames = <<>>
  <2>1. segs[l].frames = <<>> BY <1>1, <1>4 DEF Remains, Stands
  <2>2. Len(segs[l].frames) = 0 BY <2>1
  <2> QED BY <1>1, <2>1, <2>2, LastStands, StandsTypes
<1> QED BY <1>2, <1>3, <1>4

\* What remains is the log again, or the beginning of it, and no less than was
\* on the device.
LEMMA Survive ==
    ASSUME NEW segs, NEW sure, NEW log, Stands(segs, sure, log),
           NEW n, DurableTo(segs, log, n),
           NEW left, Remains(left, segs, sure)
    PROVE  \E k \in n .. Len(log.bodies) :
              /\ Stands(left, DOMAIN left, Cut(log, k))
              /\ DurableTo(left, Cut(log, k), n)
              /\ (\A s \in DOMAIN left : left[s].synced = Len(left[s].frames))
                    => DurableTo(left, Cut(log, k), k)
              /\ (\A s \in DOMAIN left : left[s].frames = segs[s].frames) => k = Len(log.bodies)
<1> DEFINE l == Max(DOMAIN segs)
           k == IF l \in DOMAIN left THEN l + Len(left[l].frames) - log.first ELSE Len(log.bodies)
           cut == Cut(log, k)
<1>1. /\ l \in DOMAIN segs /\ l \in Nat /\ \A s \in DOMAIN segs : s <= l
      /\ l + Len(segs[l].frames) = Top(log) /\ log.first <= l
      /\ log \in Logs /\ log.first \in Nat /\ Len(log.bodies) \in Nat
      /\ Top(log) = log.first + Len(log.bodies)
      /\ Len(segs[l].frames) \in Nat /\ segs[l].synced \in Nat /\ segs[l].synced <= Len(segs[l].frames)
      BY StandsTypes, LastStands
<1>2. n \in 0 .. Len(log.bodies) /\ log.first + n <= l + segs[l].synced BY DEF DurableTo
<1>a. /\ l \in DOMAIN left => k = l + Len(left[l].frames) - log.first
      /\ l \notin DOMAIN left => k = Len(log.bodies) OBVIOUS
<1>b. l \in DOMAIN left =>
         /\ Len(left[l].frames) \in segs[l].synced .. Len(segs[l].frames)
         /\ Len(left[l].frames) = Len(segs[l].frames) => left[l].frames = segs[l].frames BY RemainsOf
<1>3. k \in n .. Len(log.bodies)
  <2> HIDE DEF l, k
  <2>1. CASE l \in DOMAIN left
    <3>1. Len(left[l].frames) \in segs[l].synced .. Len(segs[l].frames) BY <1>b, <2>1
    <3> DEFINE j == Len(left[l].frames)
    <3>2. j \in Nat /\ segs[l].synced <= j /\ j <= Len(segs[l].frames) BY <1>1, <3>1
    <3>3. k = l + j - log.first BY <1>a, <2>1
    <3>4. n \in Nat /\ log.first + n <= l + segs[l].synced BY <1>1, <1>2
    <3> HIDE DEF j
    <3>5. k \in Int /\ n <= k /\ k <= Len(log.bodies) BY <1>1, <3>2, <3>3, <3>4, SMTT(30)
    <3> QED BY <1>1, <3>4, <3>5
  <2> QED BY <1>1, <1>2, <1>a, <2>1
<1>4. k \in 0 .. Len(log.bodies) BY <1>1, <1>2, <1>3
<1>5. /\ cut \in Logs /\ cut.first = log.first /\ Len(cut.bodies) = k
      /\ \A i \in 1 .. k : cut.bodies[i] = log.bodies[i]
      /\ Top(cut) = log.first + k
      BY <1>1, <1>4, CutIs
<1>6. /\ l \in DOMAIN left => Top(cut) = l + Len(left[l].frames) /\ l <= Top(cut)
      /\ l \notin DOMAIN left => Top(cut) = Top(log) /\ l = Top(log)
  <2>1. l \in DOMAIN left => Len(left[l].frames) \in Nat
    <3>1. l \in DOMAIN left => Len(left[l].frames) \in segs[l].synced .. Len(segs[l].frames) BY RemainsOf
    <3> QED BY <1>1, <3>1
  <2> QED BY <1>1, <1>5, <2>1, RemainingStart
<1>7. \A s \in DOMAIN segs : s < l => /\ s \in DOMAIN left
                                      /\ left[s].frames = segs[s].frames
                                      /\ left[s].synced = Len(segs[s].frames) BY RemainingStart
<1>8. DOMAIN left \subseteq DOMAIN segs /\ log.first \in DOMAIN left BY RemainingStart DEF Remains
<1> HIDE DEF cut, k
<1>9. Stands(left, DOMAIN left, cut)
  <2>0. \A s \in DOMAIN segs :
           \/ s + Len(segs[s].frames) = Top(log)
           \/ s < s + Len(segs[s].frames) /\ s + Len(segs[s].frames) \in DOMAIN segs
        BY StandsTypes, SMTT(30)
  <2>1. DOMAIN left \subseteq Nat BY <1>8, StandsTypes
  <2>2. ASSUME NEW s \in DOMAIN left
        PROVE  /\ left[s].frames \in Seq(Bodies)
               /\ left[s].synced \in 0 .. Len(left[s].frames)
               /\ Len(left[s].frames) <= SegmentFrames
               /\ cut.first <= s /\ s + Len(left[s].frames) <= Top(cut)
               /\ \A i \in 1 .. Len(left[s].frames) : left[s].frames[i] = cut.bodies[s - cut.first + i]
               /\ \/ s + Len(left[s].frames) = Top(cut)
                  \/ s < s + Len(left[s].frames) /\ s + Len(left[s].frames) \in DOMAIN left
    <3>1. s \in DOMAIN segs /\ s \in Nat BY <1>8, StandsTypes
    <3>2. /\ left[s].frames \in Seq(Bodies)
          /\ Len(left[s].frames) \in segs[s].synced .. Len(segs[s].frames)
          /\ left[s].synced \in segs[s].synced .. Len(left[s].frames)
          /\ \A i \in 1 .. Len(left[s].frames) : left[s].frames[i] = segs[s].frames[i]
          BY RemainsOf
    <3>3. /\ segs[s].synced \in Nat /\ Len(segs[s].frames) \in Nat /\ Len(segs[s].frames) <= SegmentFrames
          /\ log.first <= s /\ s + Len(segs[s].frames) <= Top(log)
          /\ \A i \in 1 .. Len(segs[s].frames) : segs[s].frames[i] = log.bodies[s - log.first + i]
          BY <3>1, StandsTypes, SMTT(30)
    <3>a. \/ s + Len(segs[s].frames) = Top(log)
          \/ s < s + Len(segs[s].frames) /\ s + Len(segs[s].frames) \in DOMAIN segs
          BY <2>0, <3>1
    <3>4. Len(left[s].frames) \in Nat /\ Len(left[s].frames) <= Len(segs[s].frames) BY <3>2, <3>3
    <3>5. left[s].synced \in 0 .. Len(left[s].frames) BY <3>2, <3>3, <3>4
    <3>6. s < l => s + Len(segs[s].frames) <= l BY <1>1, <3>1, StandsTypes
    <3>7. s + Len(left[s].frames) <= Top(cut)
      <4>1. CASE s = l BY <1>6, <4>1
      <4>2. CASE s < l BY <1>1, <1>5, <1>6, <1>7, <3>1, <3>6, <4>2
      <4> QED BY <1>1, <3>1, <4>1, <4>2
    <3>8. \A i \in 1 .. Len(left[s].frames) : left[s].frames[i] = cut.bodies[s - cut.first + i]
      <4>1. SUFFICES ASSUME NEW i \in 1 .. Len(left[s].frames)
                     PROVE  left[s].frames[i] = cut.bodies[s - cut.first + i] OBVIOUS
      <4>2. i \in 1 .. Len(segs[s].frames) BY <3>3, <3>4
      <4>3. s - log.first + i \in 1 .. k
        <5>1. k \in Nat BY <1>1, <1>4
        <5>2. s + Len(left[s].frames) <= log.first + k BY <1>5, <3>7
        <5>3. i \in Nat /\ 1 <= i /\ i <= Len(left[s].frames) BY <3>4
        <5>4. log.first <= s BY <3>3
        <5> HIDE DEF l
        <5> QED BY <1>1, <3>1, <3>4, <5>1, <5>2, <5>3, <5>4, SMTT(30)
      <4>4. left[s].frames[i] = log.bodies[s - log.first + i] BY <3>2, <3>3, <4>2
      <4> QED BY <1>5, <4>3, <4>4
    <3>9. \/ s + Len(left[s].frames) = Top(cut)
          \/ s < s + Len(left[s].frames) /\ s + Len(left[s].frames) \in DOMAIN left
      <4>1. CASE s = l BY <1>6, <4>1
      <4>2. CASE s < l
        <5>1. left[s].frames = segs[s].frames BY <1>7, <3>1, <4>2
        <5>2. s < s + Len(segs[s].frames) /\ s + Len(segs[s].frames) <= l
              BY <1>1, <3>1, <4>2, StandsTypes
        <5>3. CASE s + Len(segs[s].frames) = l BY <1>6, <5>1, <5>2, <5>3
        <5>4. CASE s + Len(segs[s].frames) < l
          <6>1. s + Len(segs[s].frames) # Top(log) BY <1>1, <5>4
          <6>2. s + Len(segs[s].frames) \in DOMAIN segs BY <3>a, <6>1
          <6> QED BY <1>7, <5>1, <5>2, <5>4, <6>2
        <5>5. s + Len(segs[s].frames) \in Nat BY <3>1, <3>3
        <5> QED BY <1>1, <5>2, <5>3, <5>4, <5>5
      <4> QED BY <1>1, <3>1, <4>1, <4>2
    <3>10. Len(left[s].frames) <= SegmentFrames
      <4>1. SegmentFrames \in Nat BY SegmentAssumption
      <4> QED BY <3>3, <3>4, <4>1
    <3>11. cut.first <= s BY <1>5, <3>3
    <3> QED BY <3>2, <3>5, <3>7, <3>8, <3>9, <3>10, <3>11
  <2>3. ASSUME NEW s \in DOMAIN left, NEW t \in DOMAIN left, s < t
        PROVE  /\ s < s + Len(left[s].frames) /\ s + Len(left[s].frames) <= t
               /\ left[s].synced = Len(left[s].frames)
    <3>1. s \in DOMAIN segs /\ t \in DOMAIN segs /\ s \in Nat /\ t \in Nat /\ t <= l
          BY <1>1, <1>8, StandsTypes
    <3>2. s < l BY <1>1, <2>3, <3>1
    <3>3. left[s].frames = segs[s].frames /\ left[s].synced = Len(segs[s].frames) BY <1>7, <3>1, <3>2
    <3> QED BY <2>3, <3>1, <3>3, StandsTypes
  <2>4. cut \in Logs /\ cut.first \in DOMAIN left BY <1>5, <1>8
  <2> QED BY <2>1, <2>2, <2>3, <2>4, ToStand
<1> DEFINE m == Max(DOMAIN left)
<1>10. /\ m \in DOMAIN left /\ \A s \in DOMAIN left : s <= m
       /\ m + Len(left[m].frames) = Top(cut) BY <1>9, LastStands
<1>11. m \in DOMAIN segs /\ m \in Nat /\ m <= l /\ Len(left[m].frames) \in Nat /\ left[m].synced \in Nat
       BY <1>1, <1>8, <1>9, <1>10, StandsTypes
<1>12. log.first + n <= m + left[m].synced
  <2>1. CASE m = l
    <3>1. segs[l].synced <= left[l].synced
      <4>1. left[l].synced \in segs[l].synced .. Len(left[l].frames) BY <1>10, <2>1, RemainsOf
      <4> QED BY <1>1, <1>11, <2>1, <4>1
    <3> QED BY <1>1, <1>2, <1>11, <2>1, <3>1
  <2>2. CASE m < l
    <3>1. l \notin DOMAIN left BY <1>1, <1>10, <1>11, <2>2
    <3>2. Top(cut) = Top(log) BY <1>6, <3>1
    <3>3. left[m].synced = Len(left[m].frames) BY <1>7, <1>11, <2>2
    <3> QED BY <1>1, <1>2, <1>10, <1>11, <3>2, <3>3
  <2> QED BY <1>1, <1>11, <2>1, <2>2
<1>13. DurableTo(left, cut, n)
  <2>1. n \in 0 .. Len(cut.bodies) BY <1>1, <1>2, <1>3, <1>5
  <2> QED BY <1>5, <1>12, <2>1 DEF DurableTo
<1>14. ASSUME \A s \in DOMAIN left : left[s].synced = Len(left[s].frames)
       PROVE  DurableTo(left, cut, k)
  <2>1. k \in 0 .. Len(cut.bodies) BY <1>4, <1>5
  <2>2. cut.first + k <= m + left[m].synced
    <3>1. left[m].synced = Len(left[m].frames) BY <1>10, <1>14
    <3> QED BY <1>1, <1>4, <1>5, <1>10, <1>11, <3>1
  <2> QED BY <2>1, <2>2 DEF DurableTo
<1>15. ASSUME \A s \in DOMAIN left : left[s].frames = segs[s].frames PROVE k = Len(log.bodies)
  <2>1. CASE l \in DOMAIN left
    <3>1. Len(left[l].frames) = Len(segs[l].frames) BY <1>15, <2>1
    <3>2. k = l + Len(segs[l].frames) - log.first BY <1>a, <2>1, <3>1
    <3> HIDE DEF l
    <3> QED BY <1>1, <3>2
  <2> QED BY <1>a, <2>1
<1> QED BY <1>3, <1>9, <1>13, <1>14, <1>15 DEF cut

Joined(log, more) == [log EXCEPT !.bodies = @ \o more]

LEMMA JoinedIs ==
    ASSUME NEW log \in Logs, NEW more \in Seq(Bodies)
    PROVE  /\ Joined(log, more) \in Logs /\ Joined(log, more).first = log.first
           /\ Joined(log, more).bodies = log.bodies \o more
           /\ Len(Joined(log, more).bodies) = Len(log.bodies) + Len(more)
           /\ Top(Joined(log, more)) = Top(log) + Len(more)
           /\ \A i \in 1 .. Len(log.bodies) : Joined(log, more).bodies[i] = log.bodies[i]
           /\ \A i \in 1 .. Len(more) : Joined(log, more).bodies[Len(log.bodies) + i] = more[i]
<1>1. log.first \in Nat /\ log.bodies \in Seq(Bodies) BY DEF Logs
<1>2. Len(log.bodies) \in Nat /\ Len(more) \in Nat BY <1>1, LenProperties
<1> DEFINE b == log.bodies \o more
<1>3. Joined(log, more) = [log EXCEPT !.bodies = b] BY DEF Joined
<1>4. b \in Seq(Bodies) BY <1>1
<1>5. Len(b) = Len(log.bodies) + Len(more) BY <1>1
<1>6. \A i \in 1 .. Len(log.bodies) : b[i] = log.bodies[i] BY <1>1
<1>7. \A i \in 1 .. Len(more) : b[Len(log.bodies) + i] = more[i] BY <1>1
<1> HIDE DEF b
<1>8. Joined(log, more) = [first |-> log.first, bodies |-> b] BY <1>3 DEF Logs
<1>9. Joined(log, more) \in Logs BY <1>1, <1>4, <1>8 DEF Logs
<1>10. Top(Joined(log, more)) = Top(log) + Len(more) 
  <2>1. Joined(log, more).first = log.first /\ Joined(log, more).bodies = b BY <1>8
  <2> QED BY <1>1, <1>2, <1>5, <2>1, SMTT(30) DEF Top
<1> QED BY <1>5, <1>6, <1>7, <1>8, <1>9, <1>10 DEF b

\* Frames appended to the last segment, and more of it synchronized.
Grown(after, segs, more) ==
    LET l == Max(DOMAIN segs) IN
    /\ DOMAIN after = DOMAIN segs
    /\ \A s \in DOMAIN segs \ {l} : after[s] = segs[s]
    /\ after[l].frames = segs[l].frames \o more
    /\ after[l].synced \in segs[l].synced .. Len(after[l].frames)

LEMMA Growth ==
    ASSUME NEW segs, NEW sure, NEW log, Stands(segs, sure, log), NEW n, DurableTo(segs, log, n),
           NEW more \in Seq(Bodies), NEW after, Grown(after, segs, more),
           Max(DOMAIN segs) \in sure,
           Len(segs[Max(DOMAIN segs)].frames) + Len(more) <= SegmentFrames
    PROVE  /\ Stands(after, sure, Joined(log, more))
           /\ DurableTo(after, Joined(log, more), n)
           /\ after[Max(DOMAIN segs)].synced = Len(after[Max(DOMAIN segs)].frames)
                => DurableTo(after, Joined(log, more), Len(log.bodies) + Len(more))
<1> DEFINE l == Max(DOMAIN segs)
           new == Joined(log, more)
<1>1. /\ l \in DOMAIN segs /\ l \in Nat /\ \A s \in DOMAIN segs : s <= l
      /\ l + Len(segs[l].frames) = Top(log) /\ log.first <= l
      /\ log \in Logs /\ log.first \in Nat /\ Len(log.bodies) \in Nat
      /\ Top(log) = log.first + Len(log.bodies)
      /\ Len(segs[l].frames) \in Nat /\ segs[l].synced \in Nat /\ segs[l].synced <= Len(segs[l].frames)
      /\ segs[l].frames \in Seq(Bodies)
      BY StandsTypes, LastStands
<1>2. n \in 0 .. Len(log.bodies) /\ log.first + n <= l + segs[l].synced BY DEF DurableTo
<1>3. /\ new \in Logs /\ new.first = log.first
      /\ Len(new.bodies) = Len(log.bodies) + Len(more)
      /\ Top(new) = Top(log) + Len(more)
      /\ \A i \in 1 .. Len(log.bodies) : new.bodies[i] = log.bodies[i]
      /\ \A i \in 1 .. Len(more) : new.bodies[Len(log.bodies) + i] = more[i]
      BY <1>1, JoinedIs
<1>4. Len(more) \in Nat BY LenProperties
<1>5. /\ DOMAIN after = DOMAIN segs
      /\ \A s \in DOMAIN segs \ {l} : after[s] = segs[s]
      /\ after[l].frames = segs[l].frames \o more
      /\ after[l].synced \in segs[l].synced .. Len(after[l].frames) BY DEF Grown
<1>6. l \in sure /\ Len(segs[l].frames) + Len(more) <= SegmentFrames OBVIOUS
<1>7. Stands(segs, sure, log) /\ DOMAIN segs \subseteq Nat /\ log.first \in DOMAIN segs /\ log.first \in sure
      BY StandsTypes DEF Stands
<1> HIDE DEF l, new
<1>8. /\ after[l].frames \in Seq(Bodies) /\ Len(after[l].frames) = Len(segs[l].frames) + Len(more)
      /\ \A i \in 1 .. Len(segs[l].frames) : after[l].frames[i] = segs[l].frames[i]
      /\ \A i \in 1 .. Len(more) : after[l].frames[Len(segs[l].frames) + i] = more[i]
      BY <1>1, <1>5
<1>9. Stands(after, sure, new)
  <2>1. ASSUME NEW s \in DOMAIN after, s # l
        PROVE  /\ s + Len(after[s].frames) = Top(new) => FALSE \/ Len(more) = 0
               /\ after[s] = segs[s] /\ s < l /\ s \in sure
               /\ s < s + Len(segs[s].frames) /\ s + Len(segs[s].frames) <= l
               /\ s + Len(segs[s].frames) \in DOMAIN segs
               /\ s + Len(segs[s].frames) <= Top(log)
    <3>1. s \in DOMAIN segs /\ after[s] = segs[s] /\ s \in Nat /\ s < l
          BY <1>1, <1>5, <1>7, <2>1
    <3>2. s < s + Len(segs[s].frames) /\ s + Len(segs[s].frames) <= l BY <1>1, <1>7, <3>1, StandsTypes
    <3>3. s \in sure BY <1>1, <1>7, <3>1 DEF Stands
    <3>4. Len(segs[s].frames) \in Nat BY <1>7, <3>1, StandsTypes
    <3>5. \/ s + Len(segs[s].frames) = Top(log)
          \/ s + Len(segs[s].frames) \in DOMAIN segs BY <1>7, <3>1, StandsTypes
    <3>6. s + Len(segs[s].frames) \in DOMAIN segs
      <4>1. CASE s + Len(segs[s].frames) = Top(log)
        <5>1. s + Len(segs[s].frames) = l BY <1>1, <3>1, <3>2, <3>4, <4>1
        <5> QED BY <1>1, <5>1
      <4> QED BY <3>5, <4>1
    <3>7. s + Len(segs[s].frames) <= Top(log) BY <1>1, <3>1, <3>2, <3>4
    <3> QED BY <1>1, <1>3, <1>4, <3>1, <3>2, <3>3, <3>4, <3>6, <3>7
  <2>2. ASSUME NEW s \in DOMAIN after
        PROVE  /\ after[s].frames \in Seq(Bodies)
               /\ after[s].synced \in 0 .. Len(after[s].frames)
               /\ s \in sure \/ after[s].frames = <<>>
               /\ Len(after[s].frames) <= SegmentFrames
               /\ new.first <= s /\ s + Len(after[s].frames) <= Top(new)
               /\ \A i \in 1 .. Len(after[s].frames) : after[s].frames[i] = new.bodies[s - new.first + i]
               /\ \/ s + Len(after[s].frames) = Top(new)
                  \/ s < s + Len(after[s].frames) /\ s + Len(after[s].frames) \in DOMAIN after
    <3>1. CASE s # l
      <4>1. /\ after[s] = segs[s] /\ s < l /\ s \in sure /\ s \in DOMAIN segs
            /\ s < s + Len(segs[s].frames) /\ s + Len(segs[s].frames) \in DOMAIN segs
            /\ s + Len(segs[s].frames) <= Top(log) BY <1>5, <2>1, <3>1
      <4>2. /\ s \in Nat /\ Len(segs[s].frames) \in Nat /\ segs[s].synced \in Nat
            /\ segs[s].frames \in Seq(Bodies) /\ segs[s].synced <= Len(segs[s].frames)
            /\ Len(segs[s].frames) <= SegmentFrames /\ log.first <= s
            BY <1>7, <4>1, StandsTypes
      <4>3. \A i \in 1 .. Len(segs[s].frames) : segs[s].frames[i] = log.bodies[s - log.first + i]
            BY <1>7, <4>1, StandsTypes
      <4>4. \A i \in 1 .. Len(segs[s].frames) : segs[s].frames[i] = new.bodies[s - new.first + i]
        <5>1. SUFFICES ASSUME NEW i \in 1 .. Len(segs[s].frames)
                       PROVE  segs[s].frames[i] = new.bodies[s - new.first + i] OBVIOUS
        <5>2. s - log.first + i \in 1 .. Len(log.bodies)
          <6> DEFINE a == Len(segs[s].frames)
                     b == Len(log.bodies)
          <6>1. a \in Nat /\ i \in 1 .. a /\ s + a <= log.first + b /\ b \in Nat BY <1>1, <4>1, <4>2
          <6> HIDE DEF a, b
          <6>3. i \in Nat /\ 1 <= i /\ i <= a BY <6>1
          <6>4. log.first \in Nat /\ s \in Nat /\ log.first <= s BY <1>1, <4>2
          <6>5. s - log.first + i \in Int BY <6>3, <6>4
          <6>6. s - log.first + i <= b BY <6>1, <6>3, <6>4
          <6>2. s - log.first + i \in 1 .. b BY <6>1, <6>3, <6>4, <6>5, <6>6
          <6> QED BY <6>2 DEF b
        <5> QED BY <1>3, <4>3, <5>2
      <4>5. s + Len(segs[s].frames) <= Top(new) BY <1>1, <1>3, <1>4, <4>1, <4>2
      <4>6. segs[s].synced \in 0 .. Len(segs[s].frames) BY <4>2
      <4> QED BY <1>3, <1>5, <4>1, <4>2, <4>4, <4>5, <4>6
    <3>2. CASE s = l
      <4>1. after[l].synced \in 0 .. Len(after[l].frames)  BY <1>1, <1>4, <1>5, <1>8
      <4>2. l + Len(after[l].frames) = Top(new) BY <1>1, <1>3, <1>4, <1>8
      <4>3. Len(after[l].frames) <= SegmentFrames BY <1>6, <1>8
      <4>4. \A i \in 1 .. Len(after[l].frames) : after[l].frames[i] = new.bodies[l - new.first + i]
        <5>1. SUFFICES ASSUME NEW i \in 1 .. Len(after[l].frames)
                       PROVE  after[l].frames[i] = new.bodies[l - new.first + i] OBVIOUS
        <5>2. CASE i <= Len(segs[l].frames)
          <6>1. i \in 1 .. Len(segs[l].frames) BY <1>1, <1>4, <1>8, <5>2
          <6>2. segs[l].frames[i] = log.bodies[l - log.first + i] BY <1>1, <1>7, <6>1, StandsTypes, SMTT(30)
          <6>3. l - log.first + i \in 1 .. Len(log.bodies) BY <1>1, <6>1
          <6> QED BY <1>3, <1>8, <6>1, <6>2, <6>3
        <5>3. CASE i > Len(segs[l].frames)
          <6> DEFINE j == i - Len(segs[l].frames)
          <6>1. j \in 1 .. Len(more) /\ i = Len(segs[l].frames) + j BY <1>1, <1>4, <1>8, <5>3
          <6>2. l - log.first + i = Len(log.bodies) + j
            <7> DEFINE a == Len(segs[l].frames)
                       b == Len(log.bodies)
            <7>1. j \in Int /\ i = a + j BY <6>1
            <7>2. a \in Nat /\ b \in Nat /\ l \in Nat /\ log.first \in Nat BY <1>1
            <7>3. l + a = log.first + b BY <1>1
            <7> HIDE DEF j, a, b
            <7>4. l - log.first + i = b + j BY <7>1, <7>2, <7>3, SMTT(30)
            <7> QED BY <7>4 DEF b
          <6>3. after[l].frames[i] = more[j] BY <1>8, <6>1
          <6>4. new.bodies[Len(log.bodies) + j] = more[j] BY <1>3, <6>1
          <6> QED BY <1>3, <6>2, <6>3, <6>4
        <5> QED BY <1>1, <1>4, <1>8, <5>2, <5>3
      <4>5. new.first <= l /\ l + Len(after[l].frames) <= Top(new) BY <1>1, <1>3, <1>4, <1>8
      <4> QED BY <1>6, <1>8, <3>2, <4>1, <4>2, <4>3, <4>4, <4>5
    <3> QED BY <3>1, <3>2
  <2>3. ASSUME NEW s \in DOMAIN after, NEW t \in DOMAIN after, s < t
        PROVE  /\ s < s + Len(after[s].frames) /\ s + Len(after[s].frames) <= t
               /\ after[s].synced = Len(after[s].frames) /\ s \in sure
    <3>1. s \in DOMAIN segs /\ t \in DOMAIN segs /\ s \in Nat /\ t \in Nat /\ t <= l
          BY <1>1, <1>5, <1>7
    <3>2. s # l BY <1>1, <2>3, <3>1
    <3>3. after[s] = segs[s] BY <1>5, <3>1, <3>2
    <3>4. s < s + Len(segs[s].frames) /\ s + Len(segs[s].frames) <= t BY <1>7, <2>3, <3>1, StandsTypes
    <3>5. segs[s].synced = Len(segs[s].frames) /\ s \in sure BY <1>7, <2>3, <3>1 DEF Stands
    <3> QED BY <3>3, <3>4, <3>5
  <2> QED BY <1>3, <1>5, <1>7, <2>2, <2>3, ToStand
<1>10. Max(DOMAIN after) = l BY <1>5 DEF l
<1>11. log.first + n <= l + after[l].synced /\ n \in 0 .. Len(new.bodies)
       /\ after[l].synced \in Nat
  <2>1. Len(after[l].frames) \in Nat BY <1>1, <1>4, <1>8
  <2>2. after[l].synced \in Nat /\ segs[l].synced <= after[l].synced BY <1>1, <1>5, <2>1
  <2>3. n \in Nat /\ n <= Len(new.bodies) BY <1>1, <1>2, <1>3, <1>4
  <2>4. Len(new.bodies) \in Nat BY <1>1, <1>3, <1>4
  <2> QED BY <1>1, <1>2, <2>2, <2>3, <2>4
<1>12. DurableTo(after, new, n) BY <1>3, <1>10, <1>11 DEF DurableTo
<1>13. ASSUME after[l].synced = Len(after[l].frames)
       PROVE  DurableTo(after, new, Len(log.bodies) + Len(more))
  <2>1. Len(log.bodies) + Len(more) \in 0 .. Len(new.bodies) BY <1>1, <1>3, <1>4
  <2>2. new.first + (Len(log.bodies) + Len(more)) <= l + after[l].synced
        BY <1>1, <1>3, <1>4, <1>8, <1>13, SMTT(30)
  <2> QED BY <1>10, <2>1, <2>2 DEF DurableTo
<1> QED BY <1>9, <1>12, <1>13 DEF l, new

\* A new segment behind the last, which is full or was closed.
LEMMA NextStands ==
    ASSUME NEW segs, NEW sure, NEW log, Stands(segs, sure, log),
           LET l == Max(DOMAIN segs) IN
             segs[l].frames # <<>> /\ segs[l].synced = Len(segs[l].frames) /\ l \in sure,
           NEW after, DOMAIN after = DOMAIN segs \cup {Top(log)},
           \A s \in DOMAIN segs : after[s] = segs[s], after[Top(log)] = Empty,
           NEW wider, \A s \in DOMAIN segs : s \in sure => s \in wider
    PROVE  /\ Stands(after, wider, log)
           /\ Max(DOMAIN after) = Top(log)
           /\ DurableTo(after, log, Len(log.bodies))
<1> DEFINE l == Max(DOMAIN segs)
           top == Top(log)
<1>1. /\ l \in DOMAIN segs /\ l \in Nat /\ \A s \in DOMAIN segs : s <= l
      /\ l + Len(segs[l].frames) = top /\ log.first <= l
      /\ log \in Logs /\ log.first \in Nat /\ Len(log.bodies) \in Nat
      /\ top = log.first + Len(log.bodies)
      /\ Len(segs[l].frames) \in Nat /\ segs[l].frames \in Seq(Bodies)
      BY StandsTypes, LastStands
<1>2. segs[l].frames # <<>> /\ segs[l].synced = Len(segs[l].frames) /\ l \in sure OBVIOUS
<1>3. /\ DOMAIN after = DOMAIN segs \cup {top} /\ after[top] = Empty
      /\ \A s \in DOMAIN segs : after[s] = segs[s] OBVIOUS
<1>4. /\ Stands(segs, sure, log) /\ DOMAIN segs \subseteq Nat /\ log.first \in DOMAIN segs
      /\ log.first \in sure
      BY StandsTypes DEF Stands
<1> HIDE DEF l
<1>5. Len(segs[l].frames) > 0 BY <1>1, <1>2
<1>6. l < top /\ top \in Nat /\ \A s \in DOMAIN segs : s < top
  <2> HIDE DEF top
  <2>1. l < top /\ top \in Nat BY <1>1, <1>5
  <2> QED BY <1>1, <1>4, <2>1
<1>7. \A s \in DOMAIN segs : segs[s].synced = Len(segs[s].frames) /\ s \in sure
  <2>1. SUFFICES ASSUME NEW s \in DOMAIN segs PROVE segs[s].synced = Len(segs[s].frames) /\ s \in sure
        OBVIOUS
  <2>2. s \in Nat /\ s <= l BY <1>1, <1>4
  <2>3. CASE s = l BY <1>2, <2>3
  <2>4. CASE s < l BY <1>1, <1>4, <2>4 DEF Stands
  <2> QED BY <1>1, <2>2, <2>3, <2>4
<1>8. after[top].frames = <<>> /\ after[top].synced = 0 /\ Len(after[top].frames) = 0
      BY <1>3 DEF Empty
<1>9. \A s \in DOMAIN segs : s < s + Len(segs[s].frames) /\ s + Len(segs[s].frames) <= top
  <2>1. SUFFICES ASSUME NEW s \in DOMAIN segs
                 PROVE  s < s + Len(segs[s].frames) /\ s + Len(segs[s].frames) <= top OBVIOUS
  <2>2. s \in Nat /\ s <= l BY <1>1, <1>4
  <2>3. s + Len(segs[s].frames) <= top BY <1>4, StandsTypes
  <2>4. CASE s = l
    <3> HIDE DEF top
    <3> QED BY <1>1, <1>5, <2>3, <2>4
  <2>5. CASE s < l BY <1>1, <1>4, <2>3, <2>5, StandsTypes
  <2> QED BY <1>1, <2>2, <2>4, <2>5
<1> HIDE DEF top
<1>10. ASSUME NEW s \in DOMAIN after
       PROVE  /\ after[s].frames \in Seq(Bodies)
              /\ after[s].synced \in 0 .. Len(after[s].frames)
              /\ s \in wider \/ after[s].frames = <<>>
              /\ Len(after[s].frames) <= SegmentFrames
              /\ log.first <= s /\ s + Len(after[s].frames) <= top
              /\ \A i \in 1 .. Len(after[s].frames) : after[s].frames[i] = log.bodies[s - log.first + i]
              /\ \/ s + Len(after[s].frames) = top
                 \/ s < s + Len(after[s].frames) /\ s + Len(after[s].frames) \in DOMAIN after
  <2>1. CASE s \in DOMAIN segs
    <3>1. after[s] = segs[s] BY <1>3, <2>1
    <3>2. s \in wider BY <1>7, <2>1
    <3>3. /\ Len(segs[s].frames) \in Nat /\ segs[s].synced \in Nat
          /\ segs[s].frames \in Seq(Bodies) /\ segs[s].synced <= Len(segs[s].frames)
          /\ Len(segs[s].frames) <= SegmentFrames /\ log.first <= s
          BY <1>4, <2>1, StandsTypes
    <3>4. \A i \in 1 .. Len(segs[s].frames) : segs[s].frames[i] = log.bodies[s - log.first + i]
          BY <1>4, <2>1, StandsTypes
    <3>5. s + Len(segs[s].frames) = top \/ s + Len(segs[s].frames) \in DOMAIN segs
          BY <1>4, <2>1, StandsTypes DEF top
    <3>6. segs[s].synced \in 0 .. Len(segs[s].frames) BY <3>3
    <3> QED BY <1>3, <1>9, <2>1, <3>1, <3>2, <3>3, <3>4, <3>5, <3>6
  <2>2. CASE s = top
    <3>1. SegmentFrames \in Nat BY SegmentAssumption
    <3>2. <<>> \in Seq(Bodies) OBVIOUS
    <3>3. 1 .. 0 = {} OBVIOUS
    <3>4. log.first <= top /\ top + 0 = top BY <1>1, <1>6
    <3>5. after[s].frames = <<>> /\ after[s].synced = 0 /\ Len(after[s].frames) = 0 BY <1>8, <2>2
    <3>6. 0 \in 0 .. 0 /\ 0 <= SegmentFrames BY <3>1
    <3>7. \A i \in 1 .. Len(after[s].frames) : after[s].frames[i] = log.bodies[s - log.first + i]
          BY <3>3, <3>5
    <3>8. log.first <= s /\ s + Len(after[s].frames) = top BY <1>1, <1>6, <2>2, <3>4, <3>5
    <3>9. s + Len(after[s].frames) <= top BY <1>6, <3>8
    <3> QED BY <3>2, <3>5, <3>6, <3>7, <3>8, <3>9
  <2> QED BY <1>3, <2>1, <2>2
<1>11. ASSUME NEW s \in DOMAIN after, NEW t \in DOMAIN after, s < t
       PROVE  /\ s < s + Len(after[s].frames) /\ s + Len(after[s].frames) <= t
              /\ after[s].synced = Len(after[s].frames) /\ s \in wider
  <2>1. s \in DOMAIN segs
    <3>1. t <= top /\ t \in Nat BY <1>3, <1>4, <1>6
    <3>2. s # top BY <1>6, <1>11, <3>1
    <3> QED BY <1>3, <3>2
  <2>2. after[s] = segs[s] /\ segs[s].synced = Len(segs[s].frames) /\ s \in wider BY <1>3, <1>7, <2>1
  <2>3. s < s + Len(segs[s].frames) BY <1>9, <2>1
  <2>4. CASE t = top BY <1>9, <2>1, <2>2, <2>4
  <2>5. CASE t \in DOMAIN segs
    <3>1. s + Len(segs[s].frames) <= t BY <1>4, <1>11, <2>1, <2>5, StandsTypes
    <3> QED BY <2>2, <2>3, <3>1
  <2> QED BY <1>3, <2>4, <2>5
<1>12. Stands(after, wider, log)
  <2>1. DOMAIN after \subseteq Nat /\ log.first \in DOMAIN after /\ log.first \in wider
        BY <1>3, <1>4, <1>6
  <2> QED BY <1>1, <1>10, <1>11, <2>1, ToStand DEF top
<1>13. Max(DOMAIN after) = top
  <2>1. /\ Max(DOMAIN after) \in DOMAIN after /\ top <= Max(DOMAIN after)
        BY <1>3, <1>12, LastStands
  <2> QED BY <1>3, <1>4, <1>6, <2>1
<1>14. DurableTo(after, log, Len(log.bodies))
  <2>1. Len(log.bodies) \in 0 .. Len(log.bodies) BY <1>1
  <2>2. log.first + Len(log.bodies) <= top + after[top].synced BY <1>1, <1>6, <1>8
  <2> QED BY <1>13, <2>1, <2>2 DEF DurableTo
<1> QED BY <1>12, <1>13, <1>14 DEF top

\* A first segment.
LEMMA FirstStands ==
    ASSUME NEW log \in Logs, Len(log.bodies) <= SegmentFrames,
           NEW segs, DOMAIN segs = {log.first}, segs[log.first].frames = log.bodies,
           segs[log.first].synced \in 0 .. Len(log.bodies),
           NEW sure, log.first \in sure
    PROVE  /\ Stands(segs, sure, log)
           /\ Max(DOMAIN segs) = log.first
           /\ DurableTo(segs, log, segs[log.first].synced)
<1> DEFINE first == log.first
           frames == log.bodies
<1>1. first \in Nat /\ frames \in Seq(Bodies) BY DEF Logs
<1>2. Len(frames) \in Nat /\ Top(log) = first + Len(frames) BY <1>1, LenProperties DEF Top
<1>4. \A i \in 1 .. Len(frames) : first - first + i = i BY <1>1, <1>2
<1>5. Stands(segs, sure, log)
  <2>1. \A s \in DOMAIN segs : s = first OBVIOUS
  <2>2. \A i \in 1 .. Len(frames) : frames[i] = log.bodies[first - log.first + i] BY <1>1, <1>4
  <2>3. first + Len(frames) = Top(log) /\ first + Len(frames) <= Top(log) /\ log.first <= first
        BY <1>1, <1>2
  <2>4. ~(first < first) BY <1>1
  <2> QED BY <1>1, <2>1, <2>2, <2>3, <2>4, ToStand
<1>6. Max(DOMAIN segs) = first BY <1>5, LastStands
<1>7. DurableTo(segs, log, segs[first].synced) BY <1>1, <1>2, <1>6 DEF DurableTo
<1> QED BY <1>5, <1>6, <1>7

----------------------------------------------------------------------------
(* What a marker selects of a directory *)

SegmentsOf(generation, names, files) ==
    [start \in Starts(names, generation) |-> files[<<generation, start>>]]

\* The names a process reads and those on the device select for a marker
\* segments that hold the log, so many bodies of it for certain.
Stood(marker, read, disk, files, log, n) ==
    /\ marker \in Markers /\ Readable(marker) /\ marker.first = log.first
    /\ read \subseteq Nat \X Nat /\ disk \subseteq Nat \X Nat
    /\ \A id \in read \cup disk : id[1] = marker.generation => id \in DOMAIN files
    /\ Stands(SegmentsOf(marker.generation, read \cup disk, files),
              Starts(read \cap disk, marker.generation), log)
    /\ DurableTo(SegmentsOf(marker.generation, read \cup disk, files), log, n)

\* ... and with that, what was settled, and nothing that no power failure may
\* leave.
Safe(marker, read, disk, files, kept, images) ==
    \E log \in Logs : \E n \in 0 .. Len(log.bodies) :
        /\ Stood(marker, read, disk, files, log, n)
        /\ Covers(Cut(log, n), kept)
        /\ \A k \in n .. Len(log.bodies) : Cut(log, k) \in images

LEMMA StartsAre ==
    ASSUME NEW names, names \subseteq Nat \X Nat, NEW g
    PROVE  /\ Starts(names, g) \subseteq Nat
           /\ \A s : s \in Starts(names, g) <=> <<g, s>> \in names
<1>1. ASSUME NEW s, s \in Starts(names, g) PROVE s \in Nat /\ <<g, s>> \in names
  <2>1. PICK id \in names : id[1] = g /\ s = id[2] BY <1>1 DEF Starts
  <2>2. id \in Nat \X Nat BY <2>1
  <2>3. id = <<id[1], id[2]>> /\ id[2] \in Nat BY <2>2
  <2> QED BY <2>1, <2>3
<1>2. ASSUME NEW s, <<g, s>> \in names PROVE s \in Starts(names, g)
  <2> DEFINE id == <<g, s>>
  <2>1. id \in {n \in names : n[1] = g} BY <1>2
  <2>2. id[2] = s OBVIOUS
  <2> QED BY <2>1, <2>2 DEF Starts
<1> QED BY <1>1, <1>2

\* The names with a generation and what their files hold are all that counts.
LEMMA StoodSame ==
    ASSUME NEW marker, NEW read, NEW disk, NEW files, NEW log, NEW n,
           Stood(marker, read, disk, files, log, n),
           NEW read2, NEW disk2, NEW files2,
           read2 \subseteq Nat \X Nat, disk2 \subseteq Nat \X Nat,
           \A id \in Nat \X Nat : id[1] = marker.generation =>
              /\ id \in read <=> id \in read2
              /\ id \in disk <=> id \in disk2
              /\ id \in read \cup disk => id \in DOMAIN files2 /\ files2[id] = files[id]
    PROVE  Stood(marker, read2, disk2, files2, log, n)
<1> DEFINE g == marker.generation
<1>1. read \subseteq Nat \X Nat /\ disk \subseteq Nat \X Nat /\ g \in Nat BY DEF Stood, Markers
<1>2. \A s \in Nat : <<g, s>> \in Nat \X Nat /\ <<g, s>>[1] = g BY <1>1
<1>3. Starts(read \cup disk, g) = Starts(read2 \cup disk2, g)
  <2>1. \A s : s \in Starts(read \cup disk, g) <=> s \in Nat /\ <<g, s>> \in read \cup disk
        BY <1>1, StartsAre
  <2>2. \A s : s \in Starts(read2 \cup disk2, g) <=> s \in Nat /\ <<g, s>> \in read2 \cup disk2
        BY StartsAre
  <2> QED BY <1>2, <2>1, <2>2
<1>4. Starts(read \cap disk, g) = Starts(read2 \cap disk2, g)
  <2>1. \A s : s \in Starts(read \cap disk, g) <=> s \in Nat /\ <<g, s>> \in read \cap disk
        BY <1>1, StartsAre
  <2>2. \A s : s \in Starts(read2 \cap disk2, g) <=> s \in Nat /\ <<g, s>> \in read2 \cap disk2
        BY StartsAre
  <2> QED BY <1>2, <2>1, <2>2
<1>5. SegmentsOf(g, read \cup disk, files) = SegmentsOf(g, read2 \cup disk2, files2)
  <2>1. \A s \in Starts(read \cup disk, g) : files[<<g, s>>] = files2[<<g, s>>]
        BY <1>1, <1>2, StartsAre
  <2> QED BY <1>3, <2>1 DEF SegmentsOf
<1>6. \A id \in read2 \cup disk2 : id[1] = g => id \in DOMAIN files2 OBVIOUS
<1> QED BY <1>4, <1>5, <1>6 DEF Stood

\* A directory of which some names and of the files some frames remain.
RemainOf(marker, read, disk, files, names, left) ==
    /\ read \cap disk \subseteq names /\ names \subseteq read \cup disk
    /\ \A id \in names : id[1] = marker.generation =>
         /\ id \in DOMAIN left
         /\ \E j \in files[id].synced .. Len(files[id].frames) :
              /\ left[id].frames = SubSeq(files[id].frames, 1, j)
              /\ left[id].synced \in files[id].synced .. j

LEMMA StoodSurvives ==
    ASSUME NEW marker, NEW read, NEW disk, NEW files, NEW log, NEW n,
           Stood(marker, read, disk, files, log, n),
           NEW names, NEW left, RemainOf(marker, read, disk, files, names, left)
    PROVE  \E k \in n .. Len(log.bodies) :
              /\ Stood(marker, names, names, left, Cut(log, k), n)
              /\ (\A id \in names : id[1] = marker.generation => left[id].synced = Len(left[id].frames))
                    => Stood(marker, names, names, left, Cut(log, k), k)
              /\ (\A id \in names : id[1] = marker.generation => left[id].frames = files[id].frames)
                    => k = Len(log.bodies)
<1> DEFINE g == marker.generation
           segs == SegmentsOf(g, read \cup disk, files)
           rest == SegmentsOf(g, names, left)
           sure == Starts(read \cap disk, g)
<1>1. /\ read \subseteq Nat \X Nat /\ disk \subseteq Nat \X Nat /\ g \in Nat
      /\ names \subseteq Nat \X Nat /\ read \cup disk \subseteq Nat \X Nat
      /\ read \cap disk \subseteq Nat \X Nat
      BY DEF Stood, Markers, RemainOf
<1>2. Stands(segs, sure, log) /\ DurableTo(segs, log, n) BY DEF Stood
<1>3. /\ DOMAIN segs = Starts(read \cup disk, g)
      /\ \A s : s \in Starts(read \cup disk, g) <=> <<g, s>> \in read \cup disk
      /\ \A s \in Starts(read \cup disk, g) : segs[s] = files[<<g, s>>]
  <2>1. \A s : s \in Starts(read \cup disk, g) <=> <<g, s>> \in read \cup disk BY <1>1, StartsAre
  <2> QED BY <2>1 DEF SegmentsOf
<1>4. /\ DOMAIN rest = Starts(names, g) /\ Starts(names, g) \subseteq Nat
      /\ \A s : s \in Starts(names, g) <=> <<g, s>> \in names
      /\ \A s \in Starts(names, g) : rest[s] = left[<<g, s>>]
  <2>1. /\ \A s : s \in Starts(names, g) <=> <<g, s>> \in names
        /\ Starts(names, g) \subseteq Nat BY <1>1, StartsAre
  <2> QED BY <2>1 DEF SegmentsOf
<1>5. \A s : s \in sure <=> <<g, s>> \in read \cap disk BY <1>1, StartsAre
<1>6. \A s : <<g, s>>[1] = g OBVIOUS
<1> HIDE DEF segs, rest, sure
<1>7. Remains(rest, segs, sure)
  <2>1. DOMAIN rest \subseteq DOMAIN segs BY <1>3, <1>4 DEF RemainOf
  <2>2. \A s \in DOMAIN segs : s \in sure => s \in DOMAIN rest BY <1>4, <1>5 DEF RemainOf
  <2>3. ASSUME NEW s \in DOMAIN rest
        PROVE  \E j \in segs[s].synced .. Len(segs[s].frames) :
                  /\ rest[s].frames = SubSeq(segs[s].frames, 1, j)
                  /\ rest[s].synced \in segs[s].synced .. j
    <3>1. <<g, s>> \in names /\ rest[s] = left[<<g, s>>] BY <1>4
    <3>2. segs[s] = files[<<g, s>>] BY <1>3, <2>1
    <3>3. \E j \in files[<<g, s>>].synced .. Len(files[<<g, s>>].frames) :
              /\ left[<<g, s>>].frames = SubSeq(files[<<g, s>>].frames, 1, j)
              /\ left[<<g, s>>].synced \in files[<<g, s>>].synced .. j
          BY <1>6, <3>1 DEF RemainOf
    <3> QED BY <3>1, <3>2, <3>3
  <2> QED BY <2>1, <2>2, <2>3 DEF Remains
<1>8. PICK k \in n .. Len(log.bodies) :
          /\ Stands(rest, DOMAIN rest, Cut(log, k))
          /\ DurableTo(rest, Cut(log, k), n)
          /\ (\A s \in DOMAIN rest : rest[s].synced = Len(rest[s].frames))
                => DurableTo(rest, Cut(log, k), k)
          /\ (\A s \in DOMAIN rest : rest[s].frames = segs[s].frames) => k = Len(log.bodies)
      BY <1>2, <1>7, Survive
<1>9. marker.first = Cut(log, k).first
  <2>1. log \in Logs /\ n \in 0 .. Len(log.bodies) /\ Len(log.bodies) \in Nat
        BY <1>2, StandsTypes DEF DurableTo
  <2>2. k \in 0 .. Len(log.bodies) BY <2>1
  <2> QED BY <2>1, <2>2, CutIs DEF Stood
<1>10. \A id \in names : id[1] = g => id \in DOMAIN left BY DEF RemainOf
<1>11. names \cap names = names /\ names \cup names = names OBVIOUS
<1>12. ASSUME NEW m, DurableTo(rest, Cut(log, k), m) PROVE Stood(marker, names, names, left, Cut(log, k), m)
  <2>1. marker \in Markers /\ Readable(marker) BY DEF Stood
  <2> QED BY <1>1, <1>4, <1>8, <1>9, <1>10, <1>11, <1>12, <2>1 DEF Stood, rest
<1>13. Stood(marker, names, names, left, Cut(log, k), n) BY <1>8, <1>12
<1>14. ASSUME \A id \in names : id[1] = g => left[id].synced = Len(left[id].frames)
       PROVE  Stood(marker, names, names, left, Cut(log, k), k)
  <2>1. \A s \in DOMAIN rest : rest[s].synced = Len(rest[s].frames) BY <1>4, <1>6, <1>14
  <2> QED BY <1>8, <1>12, <2>1
<1>15. ASSUME \A id \in names : id[1] = g => left[id].frames = files[id].frames
       PROVE  k = Len(log.bodies)
  <2>1. \A s \in DOMAIN rest : rest[s].frames = segs[s].frames
        BY <1>3, <1>4, <1>6, <1>7, <1>15 DEF Remains
  <2> QED BY <1>8, <2>1
<1> QED BY <1>13, <1>14, <1>15

\* What is read by a marker that stands.
LEMMA StoodReads ==
    ASSUME NEW marker, NEW names, NEW files, NEW log, NEW n,
           Stood(marker, names, names, files, log, n),
           NEW f, \A id \in names : id[1] = marker.generation => f[id] = files[id].frames
    PROVE  /\ LogIn(marker, names, f) = log
           /\ ChainFits(ChainOf(marker, names, f), marker.first)
           /\ DOMAIN ChainOf(marker, names, f) = Starts(names, marker.generation)
           /\ Holds(ChainOf(marker, names, f), log)
<1> DEFINE g == marker.generation
           segs == SegmentsOf(g, names, files)
<1>1. names \subseteq Nat \X Nat /\ g \in Nat /\ names \cup names = names /\ names \cap names = names
      BY DEF Stood, Markers
<1>2. Stands(segs, Starts(names, g), log) /\ Readable(marker) /\ marker.first = log.first
      BY <1>1 DEF Stood
<1>3. /\ DOMAIN segs = Starts(names, g)
      /\ \A s : s \in Starts(names, g) <=> <<g, s>> \in names
      /\ \A s \in Starts(names, g) : segs[s] = files[<<g, s>>]
  <2>1. \A s : s \in Starts(names, g) <=> <<g, s>> \in names BY <1>1, StartsAre
  <2> QED BY <2>1 DEF SegmentsOf
<1>4. ChainOf(marker, names, f) = Contents(segs)
  <2>1. \A s \in Starts(names, g) : f[<<g, s>>] = segs[s].frames
    <3>1. \A s : <<g, s>>[1] = g OBVIOUS
    <3> QED BY <1>3, <3>1
  <2> QED BY <1>3, <2>1 DEF ChainOf, Contents
<1>5. Holds(Contents(segs), log) BY <1>2 DEF Stands
<1>6. log = [first |-> log.first, bodies |-> log.bodies] BY <1>5 DEF Holds, Logs
<1>7. FramesIn(ChainOf(marker, names, f), marker.first) = log.bodies BY <1>2, <1>4, <1>5, ReadsChain
<1>8. LogIn(marker, names, f) = log BY <1>2, <1>6, <1>7 DEF LogIn
<1>9. ChainFits(ChainOf(marker, names, f), marker.first) BY <1>2, <1>4, <1>5, FitsChain
<1> QED BY <1>3, <1>4, <1>5, <1>8, <1>9 DEF Contents

\* The last segment a marker selects is the one that is appended to.
LEMMA StoodActive ==
    ASSUME NEW marker, NEW names, NEW files, NEW log, NEW n,
           Stood(marker, names, names, files, log, n)
    PROVE  LET g == marker.generation l == Max(Starts(names, g)) a == <<g, l>> IN
           /\ g \in Nat /\ l \in Nat /\ a \in names /\ a \in DOMAIN files
           /\ files[a].frames \in Seq(Bodies) /\ Len(files[a].frames) \in Nat
           /\ Len(files[a].frames) <= SegmentFrames
           /\ files[a].synced \in 0 .. Len(files[a].frames)
           /\ l + Len(files[a].frames) = Top(log) /\ log.first <= l
           /\ log \in Logs /\ log.first \in Nat /\ Len(log.bodies) \in Nat
           /\ Top(log) = log.first + Len(log.bodies)
           /\ n \in 0 .. Len(log.bodies) /\ log.first + n <= l + files[a].synced
<1> DEFINE g == marker.generation
           l == Max(Starts(names, g))
           segs == SegmentsOf(g, names, files)
<1>1. names \subseteq Nat \X Nat /\ g \in Nat /\ names \cup names = names /\ names \cap names = names
      BY DEF Stood, Markers
<1>2. Stands(segs, Starts(names, g), log) /\ DurableTo(segs, log, n) BY <1>1 DEF Stood
<1>3. /\ DOMAIN segs = Starts(names, g)
      /\ \A s : s \in Starts(names, g) <=> <<g, s>> \in names
      /\ \A s \in Starts(names, g) : segs[s] = files[<<g, s>>]
  <2>1. \A s : s \in Starts(names, g) <=> <<g, s>> \in names BY <1>1, StartsAre
  <2> QED BY <2>1 DEF SegmentsOf
<1>4. \A id \in names : id[1] = g => id \in DOMAIN files BY DEF Stood
<1> HIDE DEF segs
<1>5. l \in DOMAIN segs /\ l + Len(segs[l].frames) = Top(log) BY <1>2, <1>3, LastStands
<1>6. <<g, l>> \in names /\ <<g, l>>[1] = g /\ segs[l] = files[<<g, l>>] BY <1>3, <1>5
<1>7. /\ log \in Logs /\ log.first \in Nat /\ Len(log.bodies) \in Nat
      /\ Top(log) = log.first + Len(log.bodies) BY <1>2, StandsTypes
<1>8. /\ l \in Nat /\ log.first <= l /\ segs[l].frames \in Seq(Bodies) /\ Len(segs[l].frames) \in Nat
      /\ Len(segs[l].frames) <= SegmentFrames
      BY <1>2, <1>5, StandsTypes
<1>9. segs[l].synced \in 0 .. Len(segs[l].frames) BY <1>2, <1>5 DEF Stands
<1>10. n \in 0 .. Len(log.bodies) /\ log.first + n <= l + segs[l].synced BY <1>2, <1>3 DEF DurableTo
<1>11. <<g, l>> \in DOMAIN files BY <1>4, <1>6
<1> HIDE DEF l
<1>12. /\ g \in Nat /\ l \in Nat /\ <<g, l>> \in names /\ <<g, l>> \in DOMAIN files
       /\ files[<<g, l>>].frames \in Seq(Bodies) /\ Len(files[<<g, l>>].frames) \in Nat
       /\ Len(files[<<g, l>>].frames) <= SegmentFrames
       /\ files[<<g, l>>].synced \in 0 .. Len(files[<<g, l>>].frames)
       /\ l + Len(files[<<g, l>>].frames) = Top(log) /\ log.first <= l
       /\ log.first + n <= l + files[<<g, l>>].synced
       BY <1>1, <1>5, <1>6, <1>8, <1>9, <1>10, <1>11
<1> QED BY <1>7, <1>10, <1>12 DEF l

LEMMA StoodGrows ==
    ASSUME NEW marker, NEW names, NEW files, NEW log, NEW n,
           Stood(marker, names, names, files, log, n),
           NEW a, a = <<marker.generation, Max(Starts(names, marker.generation))>>,
           NEW more \in Seq(Bodies), Len(files[a].frames) + Len(more) <= SegmentFrames,
           NEW after,
           \A id \in names : id[1] = marker.generation =>
               id \in DOMAIN after /\ (id # a => after[id] = files[id]),
           after[a].frames = files[a].frames \o more,
           after[a].synced \in files[a].synced .. Len(after[a].frames)
    PROVE  /\ Stood(marker, names, names, after, Joined(log, more), n)
           /\ after[a].synced = Len(after[a].frames) =>
                 Stood(marker, names, names, after, Joined(log, more), Len(Joined(log, more).bodies))
<1> DEFINE g == marker.generation
           l == Max(Starts(names, g))
           segs == SegmentsOf(g, names, files)
           grown == SegmentsOf(g, names, after)
<1>1. names \subseteq Nat \X Nat /\ g \in Nat /\ names \cup names = names /\ names \cap names = names
      BY DEF Stood, Markers
<1>2. Stands(segs, Starts(names, g), log) /\ DurableTo(segs, log, n) BY <1>1 DEF Stood
<1>3. \A s : s \in Starts(names, g) <=> <<g, s>> \in names BY <1>1, StartsAre
<1>4. /\ DOMAIN segs = Starts(names, g)
      /\ \A s \in Starts(names, g) : segs[s] = files[<<g, s>>] BY DEF SegmentsOf
<1>5. /\ DOMAIN grown = Starts(names, g)
      /\ \A s \in Starts(names, g) : grown[s] = after[<<g, s>>] BY DEF SegmentsOf
<1>6. a = <<g, l>> /\ \A s : <<g, s>>[1] = g /\ (<<g, s>> = a <=> s = l) OBVIOUS
<1>7. l \in Starts(names, g) BY <1>2, <1>4, LastStands
<1> HIDE DEF segs, grown
<1>8. Grown(grown, segs, more)
  <2>1. Max(DOMAIN segs) = l BY <1>4
  <2> HIDE DEF l
  <2>2. \A s \in DOMAIN segs \ {l} : grown[s] = segs[s] BY <1>3, <1>4, <1>5, <1>6
  <2>3. grown[l] = after[a] /\ segs[l] = files[a] BY <1>4, <1>5, <1>6, <1>7
  <2> QED BY <1>4, <1>5, <2>1, <2>2, <2>3 DEF Grown
<1>9. /\ Max(DOMAIN segs) = l /\ l \in Starts(names, g)
      /\ segs[l] = files[a] /\ grown[l] = after[a] BY <1>4, <1>5, <1>6, <1>7
<1>10. Max(DOMAIN segs) \in Starts(names, g)
       /\ Len(segs[Max(DOMAIN segs)].frames) + Len(more) <= SegmentFrames BY <1>9
<1> HIDE DEF l
<1>11. /\ Stands(grown, Starts(names, g), Joined(log, more))
       /\ DurableTo(grown, Joined(log, more), n)
       /\ grown[l].synced = Len(grown[l].frames)
                => DurableTo(grown, Joined(log, more), Len(log.bodies) + Len(more))
       BY <1>2, <1>8, <1>9, <1>10, Growth
<1>12. marker \in Markers /\ Readable(marker) /\ marker.first = Joined(log, more).first
       BY <1>2, StandsTypes, JoinedIs DEF Stood
<1>13. \A id \in names : id[1] = g => id \in DOMAIN after OBVIOUS
<1>14. Len(Joined(log, more).bodies) = Len(log.bodies) + Len(more) BY <1>2, StandsTypes, JoinedIs
<1>15. grown[l].synced = Len(grown[l].frames)
                => DurableTo(grown, Joined(log, more), Len(Joined(log, more).bodies)) BY <1>11, <1>14
<1> QED BY <1>1, <1>9, <1>11, <1>12, <1>13, <1>15 DEF Stood, grown

IsLast(start, names, generation) == start = Max(Starts(names, generation))

Follows(marker, names, files, log, n, a, next, disk, after) ==
    /\ Stood(marker, names, names, files, log, n)
    /\ a = <<marker.generation, Max(Starts(names, marker.generation))>>
    /\ files[a].frames # <<>> /\ files[a].synced = Len(files[a].frames)
    /\ next = <<marker.generation, Top(log)>>
    /\ disk \in {names, names \cup {next}}
    /\ \A id \in names : id[1] = marker.generation => id \in DOMAIN after /\ after[id] = files[id]
    /\ next \in DOMAIN after /\ after[next] = Empty

LEMMA StoodNext ==
    ASSUME NEW marker, NEW names, NEW files, NEW log, NEW n, NEW a, NEW next, NEW disk, NEW after,
           Follows(marker, names, files, log, n, a, next, disk, after)
    PROVE  /\ Stood(marker, names \cup {next}, disk, after, log, Len(log.bodies))
           /\ IsLast(Top(log), names \cup {next}, marker.generation)
           /\ next \notin names /\ Top(log) \in Nat
<1> SUFFICES ASSUME Stood(marker, names, names, files, log, n),
                    a = <<marker.generation, Max(Starts(names, marker.generation))>>,
                    files[a].frames # <<>>, files[a].synced = Len(files[a].frames),
                    next = <<marker.generation, Top(log)>>,
                    disk \in {names, names \cup {next}},
                    \A id \in names : id[1] = marker.generation => id \in DOMAIN after /\ after[id] = files[id],
                    next \in DOMAIN after, after[next] = Empty
             PROVE  /\ Stood(marker, names \cup {next}, disk, after, log, Len(log.bodies))
                    /\ IsLast(Top(log), names \cup {next}, marker.generation)
                    /\ next \notin names /\ Top(log) \in Nat
    BY DEF Follows
<1> DEFINE g == marker.generation
           l == Max(Starts(names, g))
           all == names \cup {next}
           segs == SegmentsOf(g, names, files)
           more == SegmentsOf(g, all, after)
<1>1. names \subseteq Nat \X Nat /\ g \in Nat /\ names \cup names = names /\ names \cap names = names
      BY DEF Stood, Markers
<1>2. Stands(segs, Starts(names, g), log) /\ DurableTo(segs, log, n) BY <1>1 DEF Stood
<1>3. Top(log) \in Nat /\ next = <<g, Top(log)>> BY <1>2, StandsTypes
<1>4. all \subseteq Nat \X Nat BY <1>1, <1>3
<1>5. \A s : s \in Starts(names, g) <=> <<g, s>> \in names BY <1>1, StartsAre
<1>6. \A s : s \in Starts(all, g) <=> <<g, s>> \in all BY <1>4, StartsAre
<1>7. /\ DOMAIN segs = Starts(names, g)
      /\ \A s \in Starts(names, g) : segs[s] = files[<<g, s>>] BY DEF SegmentsOf
<1>8. /\ DOMAIN more = Starts(all, g)
      /\ \A s \in Starts(all, g) : more[s] = after[<<g, s>>] BY DEF SegmentsOf
<1>9. \A s : <<g, s>>[1] = g /\ (<<g, s>> = next <=> s = Top(log)) BY <1>3
<1>10. DOMAIN more = DOMAIN segs \cup {Top(log)} BY <1>5, <1>6, <1>7, <1>8, <1>9
<1>11. \A s \in DOMAIN segs : more[s] = segs[s] BY <1>5, <1>6, <1>7, <1>8, <1>9
<1>12. more[Top(log)] = Empty BY <1>3, <1>6, <1>8, <1>9
<1>13. l \in DOMAIN segs /\ l \in Starts(names, g) /\ segs[l] = files[a] BY <1>2, <1>7, LastStands
<1>14. \A s \in Starts(names, g) : s \in Starts(all \cap disk, g)
  <2>1. all \cap disk \subseteq Nat \X Nat BY <1>4
  <2>2. \A s : s \in Starts(all \cap disk, g) <=> <<g, s>> \in all \cap disk BY <2>1, StartsAre
  <2> QED BY <1>5, <2>2
<1>15. Max(DOMAIN segs) = l BY <1>7
<1> HIDE DEF segs, more
<1>16. /\ segs[Max(DOMAIN segs)].frames # <<>>
       /\ segs[Max(DOMAIN segs)].synced = Len(segs[Max(DOMAIN segs)].frames)
       /\ Max(DOMAIN segs) \in Starts(names, g) BY <1>13, <1>15
<1>17. \A s \in DOMAIN segs : s \in Starts(names, g) => s \in Starts(all \cap disk, g) BY <1>14
<1> HIDE DEF l
<1>18. /\ Stands(more, Starts(all \cap disk, g), log)
       /\ Max(DOMAIN more) = Top(log)
       /\ DurableTo(more, log, Len(log.bodies))
       BY <1>2, <1>10, <1>11, <1>12, <1>16, <1>17, NextStands
<1>19. all \cup disk = all /\ disk \subseteq Nat \X Nat BY <1>1, <1>4
<1>20. \A id \in all : id[1] = g => id \in DOMAIN after OBVIOUS
<1>21. marker \in Markers /\ Readable(marker) /\ marker.first = log.first BY DEF Stood
<1>22. Stood(marker, all, disk, after, log, Len(log.bodies))
       BY <1>4, <1>18, <1>19, <1>20, <1>21 DEF Stood, more
<1>23. next \notin names
  <2>1. SUFFICES ASSUME next \in names PROVE FALSE OBVIOUS
  <2>2. Top(log) \in DOMAIN segs BY <1>3, <1>5, <1>7, <2>1
  <2>3. segs[Top(log)].frames = <<>> BY <1>11, <1>12, <2>2 DEF Empty
  <2>4. Top(log) <= Max(DOMAIN segs) BY <1>2, <2>2, LastStands
  <2>5. Max(DOMAIN segs) + Len(segs[Max(DOMAIN segs)].frames) = Top(log) BY <1>2, LastStands
  <2>6. Max(DOMAIN segs) \in Nat /\ Len(segs[Max(DOMAIN segs)].frames) \in Nat
        BY <1>2, LastStands, StandsTypes
  <2>7. Max(DOMAIN segs) = Top(log) BY <1>3, <2>4, <2>5, <2>6
  <2> QED BY <1>16, <2>3, <2>7
<1> QED BY <1>3, <1>8, <1>18, <1>22, <1>23 DEF IsLast

LEMMA StoodFollows ==
    ASSUME NEW marker, NEW names, NEW files, NEW log, NEW n, NEW a, NEW next, NEW disk, NEW after,
           Follows(marker, names, files, log, n, a, next, disk, after)
    PROVE  /\ Stood(marker, names \cup {next}, disk, after, log, Len(log.bodies))
           /\ Stood(marker, names \cup {next}, names \cup {next}, after, log, Len(log.bodies))
           /\ IsLast(Top(log), names \cup {next}, marker.generation)
<1> DEFINE wide == names \cup {next}
<1>1. Follows(marker, names, files, log, n, a, next, wide, after) BY DEF Follows
<1>2. Stood(marker, wide, wide, after, log, Len(log.bodies)) BY <1>1, StoodNext
<1>0. Follows(marker, names, files, log, n, a, next, disk, after) OBVIOUS
<1>3. Stood(marker, wide, disk, after, log, Len(log.bodies)) BY <1>0, StoodNext
<1>4. IsLast(Top(log), wide, marker.generation) BY <1>0, StoodNext
<1> QED BY <1>2, <1>3, <1>4

LEMMA StoodFirst ==
    ASSUME NEW marker \in Markers, Readable(marker),
           NEW log \in Logs, log.first = marker.first, Len(log.bodies) <= SegmentFrames,
           NEW a, a = <<marker.generation, marker.first>>,
           NEW names, names \subseteq Nat \X Nat,
           \A id \in names : id[1] = marker.generation => id = a, a \in names,
           NEW files, a \in DOMAIN files, files[a].frames = log.bodies,
           files[a].synced \in 0 .. Len(log.bodies)
    PROVE  /\ Stood(marker, names, names, files, log, files[a].synced)
           /\ IsLast(marker.first, names, marker.generation)
<1> DEFINE g == marker.generation
           segs == SegmentsOf(g, names, files)
           sure == Starts(names, g)
<1>1. \A s : s \in sure <=> <<g, s>> \in names BY StartsAre
<1>2. g \in Nat /\ marker.first \in Nat BY DEF Markers
<1>3. sure = {log.first}
  <2>1. \A s : <<g, s>>[1] = g /\ (<<g, s>> = a <=> s = marker.first) OBVIOUS
  <2> HIDE DEF sure
  <2> QED BY <1>1, <2>1
<1>4. DOMAIN segs = {log.first} /\ segs[log.first] = files[a] BY <1>3 DEF SegmentsOf
<1>5. names \cup names = names /\ names \cap names = names OBVIOUS
<1>7. \A id \in names : id[1] = g => id \in DOMAIN files OBVIOUS
<1>9. log.first \in sure /\ segs[log.first].frames = log.bodies
      /\ segs[log.first].synced = files[a].synced
      /\ segs[log.first].synced \in 0 .. Len(log.bodies) BY <1>3, <1>4
<1> HIDE DEF segs, sure
<1>8. /\ Stands(segs, sure, log)
      /\ Max(DOMAIN segs) = log.first
      /\ DurableTo(segs, log, files[a].synced) BY <1>4, <1>9, FirstStands
<1>10. DOMAIN segs = sure BY <1>3, <1>4
<1>11. Max(sure) = marker.first BY <1>8, <1>10
<1>12. Stood(marker, names, names, files, log, files[a].synced)
       BY <1>5, <1>7, <1>8 DEF Stood, segs, sure
<1> QED BY <1>11, <1>12 DEF sure, IsLast

\* Removing names that are not on the device, or synchronizing the others,
\* changes nothing that stands.
LEMMA StoodWhole ==
    ASSUME NEW marker, NEW read, NEW disk, NEW files, NEW log, NEW n,
           Stood(marker, read, disk, files, log, n),
           NEW names, read \cap disk \subseteq names, names \subseteq read \cup disk
    PROVE  Stood(marker, names, names, files, log, n)
<1> DEFINE g == marker.generation
           segs == SegmentsOf(g, read \cup disk, files)
<1>1. /\ read \cup disk \subseteq Nat \X Nat /\ Stands(segs, Starts(read \cap disk, g), log)
      /\ \A id \in read \cup disk : id[1] = g => id \in DOMAIN files
      /\ DurableTo(segs, log, n) BY DEF Stood
<1>2. \A s : s \in Starts(read \cup disk, g) <=> <<g, s>> \in read \cup disk BY <1>1, StartsAre
<1>3. /\ DOMAIN segs = Starts(read \cup disk, g)
      /\ \A s \in Starts(read \cup disk, g) : segs[s] = files[<<g, s>>] BY DEF SegmentsOf
<1> HIDE DEF segs
<1>4. ASSUME NEW id \in names, id[1] = g
      PROVE  /\ id \in DOMAIN files
             /\ \E j \in files[id].synced .. Len(files[id].frames) :
                  /\ files[id].frames = SubSeq(files[id].frames, 1, j)
                  /\ files[id].synced \in files[id].synced .. j
  <2>1. id \in read \cup disk /\ id \in Nat \X Nat BY <1>1
  <2>2. id = <<g, id[2]>> BY <1>4, <2>1
  <2>3. id[2] \in DOMAIN segs /\ segs[id[2]] = files[id] BY <1>2, <1>3, <2>1, <2>2
  <2> DEFINE f == files[id].frames
             b == SubSeq(f, 1, Len(f))
  <2>4. f \in Seq(Bodies) /\ Len(f) \in Nat BY <1>1, <2>3, StandsTypes
  <2>5. files[id].synced \in Nat /\ files[id].synced <= Len(f) BY <1>1, <2>3, StandsTypes
  <2>6. b \in Seq(Bodies) /\ Len(b) = Len(f) /\ \A i \in 1 .. Len(f) : b[i] = f[i]
        BY <2>4, SubSeqProperties
  <2> HIDE DEF b
  <2>7. b = f
    <3> HIDE DEF f
    <3> QED BY <2>4, <2>6, SeqEqual
  <2>8. f = SubSeq(f, 1, Len(f)) BY <2>7 DEF b
  <2>9. Len(f) \in files[id].synced .. Len(f) /\ files[id].synced \in files[id].synced .. Len(f)
        BY <2>4, <2>5
  <2> QED BY <1>1, <1>4, <2>1, <2>8, <2>9
<1>5. RemainOf(marker, read, disk, files, names, files) BY <1>4 DEF RemainOf
<1>6. PICK k \in n .. Len(log.bodies) :
          Stood(marker, names, names, files, Cut(log, k), n) /\ k = Len(log.bodies)
      BY <1>5, StoodSurvives
<1>7. Cut(log, Len(log.bodies)) = log BY <1>1, StandsTypes, CutAll
<1> QED BY <1>6, <1>7

----------------------------------------------------------------------------
(* What a log still has of another *)

LEMMA CoversMore ==
    ASSUME NEW log \in Logs, NEW longer \in Logs, NEW kept \in Logs,
           longer.first = log.first, Len(log.bodies) <= Len(longer.bodies),
           \A i \in 1 .. Len(log.bodies) : longer.bodies[i] = log.bodies[i],
           Covers(log, kept)
    PROVE  Covers(longer, kept)
<1>1. /\ log.first \in Nat /\ log.bodies \in Seq(Bodies) /\ longer.bodies \in Seq(Bodies)
      /\ kept.first \in Nat /\ kept.bodies \in Seq(Bodies) BY DEF Logs
<1>2. Len(log.bodies) \in Nat /\ Len(longer.bodies) \in Nat /\ Len(kept.bodies) \in Nat
      BY <1>1, LenProperties
<1>3. SUFFICES ASSUME NEW seq \in kept.first .. LastLogged(kept)
               PROVE  \/ seq < longer.first
                      \/ seq = longer.first /\ longer.bodies # <<>> /\ longer.bodies[1] = SegmentAnchor
                      \/ /\ seq <= LastLogged(longer)
                         /\ longer.bodies[seq - longer.first + 1] = kept.bodies[seq - kept.first + 1]
      BY DEF Covers
<1>4. seq \in Int BY <1>1, <1>2 DEF LastLogged
<1>5. \/ seq < log.first
      \/ seq = log.first /\ log.bodies # <<>> /\ log.bodies[1] = SegmentAnchor
      \/ /\ seq <= LastLogged(log)
         /\ log.bodies[seq - log.first + 1] = kept.bodies[seq - kept.first + 1]
      BY DEF Covers
<1>6. CASE seq < log.first BY <1>6
<1>7. CASE seq = log.first /\ log.bodies # <<>> /\ log.bodies[1] = SegmentAnchor
  <2>1. Len(log.bodies) > 0 BY <1>1, <1>2, <1>7
  <2>2. 1 \in 1 .. Len(log.bodies) BY <1>2, <2>1
  <2>3. longer.bodies # <<>> BY <1>1, <1>2, <2>1
  <2> QED BY <1>7, <2>2, <2>3
<1>8. CASE /\ log.first <= seq /\ seq <= LastLogged(log)
           /\ log.bodies[seq - log.first + 1] = kept.bodies[seq - kept.first + 1]
  <2>1. seq - log.first + 1 \in 1 .. Len(log.bodies) BY <1>1, <1>2, <1>4, <1>8, SMTT(30) DEF LastLogged
  <2>2. seq <= LastLogged(longer) BY <1>1, <1>2, <1>4, <1>8, SMTT(30) DEF LastLogged
  <2> QED BY <1>8, <2>1, <2>2
<1> QED BY <1>1, <1>4, <1>5, <1>6, <1>7, <1>8

LEMMA CoversCut ==
    ASSUME NEW log \in Logs, NEW kept \in Logs, NEW k \in 0 .. Len(log.bodies), NEW n \in 0 .. k,
           Covers(Cut(log, n), kept)
    PROVE  Covers(Cut(log, k), kept)
<1>1. Len(log.bodies) \in Nat BY LenProperties DEF Logs
<1>2. n \in 0 .. Len(log.bodies) /\ n <= k BY <1>1
<1>3. /\ Cut(log, n) \in Logs /\ Cut(log, n).first = log.first /\ Len(Cut(log, n).bodies) = n
      /\ \A i \in 1 .. n : Cut(log, n).bodies[i] = log.bodies[i] BY <1>2, CutIs
<1>4. /\ Cut(log, k) \in Logs /\ Cut(log, k).first = log.first /\ Len(Cut(log, k).bodies) = k
      /\ \A i \in 1 .. k : Cut(log, k).bodies[i] = log.bodies[i] BY CutIs
<1>5. \A i \in 1 .. n : i \in 1 .. k BY <1>1, <1>2
<1> QED BY <1>2, <1>3, <1>4, <1>5, CoversMore

LEMMA CoversItself == ASSUME NEW log \in Logs PROVE Covers(log, log)
BY DEF Covers

LEMMA CoversFirst == ASSUME NEW log PROVE Covers(log, FirstLog)
<1>1. FirstLog.first = 1 /\ Len(FirstLog.bodies) = 0 BY DEF FirstLog
<1>2. 1 .. 0 = {} OBVIOUS
<1>3. LastLogged(FirstLog) = 0 BY <1>1 DEF LastLogged
<1> QED BY <1>1, <1>2, <1>3 DEF Covers

----------------------------------------------------------------------------
(* Safe markers *)

ContentsOf(files) == [id \in DOMAIN files |-> files[id].frames]

LEMMA SafeSame ==
    ASSUME NEW marker, NEW read, NEW disk, NEW files, NEW kept, NEW images,
           Safe(marker, read, disk, files, kept, images),
           NEW read2, NEW disk2, NEW files2, NEW images2,
           read2 \subseteq Nat \X Nat, disk2 \subseteq Nat \X Nat,
           \A id \in Nat \X Nat : id[1] = marker.generation =>
              /\ id \in read <=> id \in read2
              /\ id \in disk <=> id \in disk2
              /\ id \in read \cup disk => id \in DOMAIN files2 /\ files2[id] = files[id],
           images \subseteq images2
    PROVE  Safe(marker, read2, disk2, files2, kept, images2)
<1>0. PICK log \in Logs : \E n \in 0 .. Len(log.bodies) :
        /\ Stood(marker, read, disk, files, log, n)
        /\ Covers(Cut(log, n), kept)
        /\ \A k \in n .. Len(log.bodies) : Cut(log, k) \in images BY DEF Safe
<1>1. PICK n \in 0 .. Len(log.bodies) :
        /\ Stood(marker, read, disk, files, log, n)
        /\ Covers(Cut(log, n), kept)
        /\ \A k \in n .. Len(log.bodies) : Cut(log, k) \in images BY <1>0
<1>2. Stood(marker, read2, disk2, files2, log, n) BY <1>1, StoodSame
<1>3. \A k \in n .. Len(log.bodies) : Cut(log, k) \in images2 BY <1>1
<1> QED BY <1>1, <1>2, <1>3 DEF Safe

LEMMA SafeMore ==
    ASSUME NEW marker, NEW read, NEW disk, NEW files, NEW kept, NEW images,
           Safe(marker, read, disk, files, kept, images),
           NEW images2, images \subseteq images2
    PROVE  Safe(marker, read, disk, files, kept, images2)
BY DEF Safe

LEMMA SafeWhole ==
    ASSUME NEW marker, NEW read, NEW disk, NEW files, NEW kept, NEW images,
           Safe(marker, read, disk, files, kept, images),
           NEW names, read \cap disk \subseteq names, names \subseteq read \cup disk
    PROVE  Safe(marker, names, names, files, kept, images)
<1>0. PICK log \in Logs : \E n \in 0 .. Len(log.bodies) :
        /\ Stood(marker, read, disk, files, log, n)
        /\ Covers(Cut(log, n), kept)
        /\ \A k \in n .. Len(log.bodies) : Cut(log, k) \in images BY DEF Safe
<1>1. PICK n \in 0 .. Len(log.bodies) :
        /\ Stood(marker, read, disk, files, log, n)
        /\ Covers(Cut(log, n), kept)
        /\ \A k \in n .. Len(log.bodies) : Cut(log, k) \in images BY <1>0
<1>2. Stood(marker, names, names, files, log, n) BY <1>1, StoodWhole
<1> QED BY <1>1, <1>2 DEF Safe

LEMMA SafeLog ==
    ASSUME NEW marker, NEW read, NEW disk, NEW files, NEW log \in Logs,
           Stood(marker, read, disk, files, log, Len(log.bodies)),
           NEW kept, Covers(log, kept), NEW images, log \in images
    PROVE  Safe(marker, read, disk, files, kept, images)
<1>1. Len(log.bodies) \in Nat BY LenProperties DEF Logs
<1>2. Cut(log, Len(log.bodies)) = log BY CutAll
<1>3. \A k \in Len(log.bodies) .. Len(log.bodies) : Cut(log, k) \in images BY <1>1, <1>2
<1>4. Len(log.bodies) \in 0 .. Len(log.bodies) BY <1>1
<1> QED BY <1>2, <1>3, <1>4 DEF Safe

LEMMA SafeReads ==
    ASSUME NEW marker, NEW names, NEW files, NEW kept, NEW images,
           Safe(marker, names, names, files, kept, images)
    PROVE  LET log == LogIn(marker, names, ContentsOf(files))
               chain == ChainOf(marker, names, ContentsOf(files))
           IN /\ log \in Logs /\ Len(log.bodies) \in Nat /\ marker.first = log.first
              /\ DOMAIN chain = Starts(names, marker.generation)
              /\ ChainFits(chain, marker.first) /\ Holds(chain, log)
              /\ \E n \in 0 .. Len(log.bodies) :
                    /\ Stood(marker, names, names, files, log, n)
                    /\ Covers(Cut(log, n), kept)
                    /\ \A k \in n .. Len(log.bodies) : Cut(log, k) \in images
<1>0. PICK log \in Logs : \E n \in 0 .. Len(log.bodies) :
        /\ Stood(marker, names, names, files, log, n)
        /\ Covers(Cut(log, n), kept)
        /\ \A k \in n .. Len(log.bodies) : Cut(log, k) \in images BY DEF Safe
<1>1. PICK n \in 0 .. Len(log.bodies) :
        /\ Stood(marker, names, names, files, log, n)
        /\ Covers(Cut(log, n), kept)
        /\ \A k \in n .. Len(log.bodies) : Cut(log, k) \in images BY <1>0
<1>2. \A id \in names : id[1] = marker.generation => ContentsOf(files)[id] = files[id].frames
  <2>1. \A id \in names : id[1] = marker.generation => id \in DOMAIN files BY <1>1 DEF Stood
  <2> QED BY <2>1 DEF ContentsOf
<1>3. /\ LogIn(marker, names, ContentsOf(files)) = log
      /\ ChainFits(ChainOf(marker, names, ContentsOf(files)), marker.first)
      /\ DOMAIN ChainOf(marker, names, ContentsOf(files)) = Starts(names, marker.generation)
      /\ Holds(ChainOf(marker, names, ContentsOf(files)), log)
      BY <1>1, <1>2, StoodReads
<1>4. Len(log.bodies) \in Nat BY LenProperties DEF Logs
<1>5. marker.first = log.first BY <1>1 DEF Stood
<1> QED BY <1>1, <1>3, <1>4, <1>5

LEMMA StoodContents ==
    ASSUME NEW marker, NEW names, NEW files, NEW log, NEW n,
           Stood(marker, names, names, files, log, n)
    PROVE  /\ LogIn(marker, names, ContentsOf(files)) = log
           /\ DOMAIN ChainOf(marker, names, ContentsOf(files)) = Starts(names, marker.generation)
           /\ Holds(ChainOf(marker, names, ContentsOf(files)), log)
<1>2. \A id \in names : id[1] = marker.generation => ContentsOf(files)[id] = files[id].frames
  <2>1. \A id \in names : id[1] = marker.generation => id \in DOMAIN files BY DEF Stood
  <2> QED BY <2>1 DEF ContentsOf
<1> QED BY <1>2, StoodReads

LEMMA StoodFiles ==
    ASSUME NEW marker, NEW read, NEW disk, NEW files, NEW log, NEW n,
           Stood(marker, read, disk, files, log, n),
           NEW id \in read \cup disk, id[1] = marker.generation
    PROVE  /\ id \in DOMAIN files /\ files[id].frames \in Seq(Bodies) /\ Len(files[id].frames) \in Nat
           /\ files[id].synced \in Nat /\ files[id].synced <= Len(files[id].frames)
<1> DEFINE g == marker.generation
           segs == SegmentsOf(g, read \cup disk, files)
<1>1. /\ read \cup disk \subseteq Nat \X Nat /\ Stands(segs, Starts(read \cap disk, g), log)
      /\ id \in DOMAIN files BY DEF Stood
<1>2. \A s : s \in Starts(read \cup disk, g) <=> <<g, s>> \in read \cup disk BY <1>1, StartsAre
<1>3. /\ DOMAIN segs = Starts(read \cup disk, g)
      /\ \A s \in Starts(read \cup disk, g) : segs[s] = files[<<g, s>>] BY DEF SegmentsOf
<1> HIDE DEF segs
<1>4. id \in Nat \X Nat BY <1>1
<1>5. id = <<g, id[2]>> BY <1>4
<1>6. id[2] \in DOMAIN segs /\ segs[id[2]] = files[id] BY <1>2, <1>3, <1>5
<1> QED BY <1>1, <1>6, StandsTypes

\* What a power failure leaves of a safe marker's segments reads as a log that
\* has what was settled.
LEMMA SafeSurvives ==
    ASSUME NEW marker, NEW read, NEW disk, NEW files, NEW kept \in Logs, NEW images,
           Safe(marker, read, disk, files, kept, images),
           NEW names, read \cap disk \subseteq names, names \subseteq read \cup disk,
           NEW all, names \subseteq all, NEW f \in CrashFiles(files, all)
    PROVE  LET after == [id \in all |-> [frames |-> f[id], synced |-> Len(f[id])]]
               log == LogIn(marker, names, f)
           IN /\ log \in Logs /\ log \in images /\ Covers(log, kept) /\ Readable(marker)
              /\ ChainFits(ChainOf(marker, names, f), marker.first)
              /\ Stood(marker, names, names, after, log, Len(log.bodies))
<1> DEFINE after == [id \in all |-> [frames |-> f[id], synced |-> Len(f[id])]]
<1>0. PICK log \in Logs : \E n \in 0 .. Len(log.bodies) :
        /\ Stood(marker, read, disk, files, log, n)
        /\ Covers(Cut(log, n), kept)
        /\ \A k \in n .. Len(log.bodies) : Cut(log, k) \in images BY DEF Safe
<1>1. PICK n \in 0 .. Len(log.bodies) :
        /\ Stood(marker, read, disk, files, log, n)
        /\ Covers(Cut(log, n), kept)
        /\ \A k \in n .. Len(log.bodies) : Cut(log, k) \in images BY <1>0
<1>2. PICK saved \in [all -> 0 .. SegmentFrames] :
        /\ \A id \in all : files[id].synced <= saved[id] /\ saved[id] <= Len(files[id].frames)
        /\ f = [id \in all |-> SubSeq(files[id].frames, 1, saved[id])] BY DEF CrashFiles
<1>3. ASSUME NEW id \in names, id[1] = marker.generation
      PROVE  /\ id \in DOMAIN after /\ after[id].frames = f[id] /\ after[id].synced = Len(after[id].frames)
             /\ \E j \in files[id].synced .. Len(files[id].frames) :
                  /\ after[id].frames = SubSeq(files[id].frames, 1, j)
                  /\ after[id].synced \in files[id].synced .. j
  <2> DEFINE j == saved[id]
             b == SubSeq(files[id].frames, 1, j)
  <2>1. after[id].frames = f[id] /\ after[id].synced = Len(f[id]) /\ id \in DOMAIN after OBVIOUS
  <2>2. f[id] = b BY <1>2
  <2>3. id \in read \cup disk OBVIOUS
  <2>4. /\ files[id].frames \in Seq(Bodies) /\ Len(files[id].frames) \in Nat
        /\ files[id].synced \in Nat BY <1>1, <1>3, <2>3, StoodFiles
  <2>5. files[id].synced <= j /\ j <= Len(files[id].frames) BY <1>2
  <2>6. j \in Nat
    <3>1. j \in 0 .. SegmentFrames BY <1>2
    <3>2. SegmentFrames \in Nat BY SegmentAssumption
    <3> QED BY <3>1, <3>2
  <2>7. Len(b) = j BY <2>4, <2>5, <2>6, SubSeqProperties
  <2> HIDE DEF j, b
  <2>8. j \in files[id].synced .. Len(files[id].frames) /\ j \in files[id].synced .. j
        BY <2>4, <2>5, <2>6
  <2>9. after[id].frames = SubSeq(files[id].frames, 1, j) BY <2>1, <2>2 DEF b
  <2>10. after[id].synced = j BY <2>1, <2>2, <2>7
  <2> QED BY <2>1, <2>8, <2>9, <2>10
<1> HIDE DEF after
<1>4. RemainOf(marker, read, disk, files, names, after) BY <1>3 DEF RemainOf
<1>5. PICK k \in n .. Len(log.bodies) : Stood(marker, names, names, after, Cut(log, k), k)
  <2>1. \A id \in names : id[1] = marker.generation => after[id].synced = Len(after[id].frames) BY <1>3
  <2> QED BY <1>1, <1>4, <2>1, StoodSurvives
<1>6. Len(log.bodies) \in Nat BY LenProperties DEF Logs
<1>7. k \in 0 .. Len(log.bodies) /\ n \in 0 .. k BY <1>6
<1>8. Cut(log, k) \in Logs /\ Len(Cut(log, k).bodies) = k BY <1>7, CutIs
<1>9. /\ LogIn(marker, names, f) = Cut(log, k)
      /\ ChainFits(ChainOf(marker, names, f), marker.first)
  <2>1. \A id \in names : id[1] = marker.generation => f[id] = after[id].frames BY <1>3
  <2> QED BY <1>5, <2>1, StoodReads
<1>10. Covers(Cut(log, k), kept) BY <1>1, <1>7, CoversCut
<1>11. Cut(log, k) \in images BY <1>1
<1>12. Readable(marker) BY <1>1 DEF Stood
<1>13. Stood(marker, names, names, after, LogIn(marker, names, f), Len(LogIn(marker, names, f).bodies))
       BY <1>5, <1>8, <1>9
<1> QED BY <1>8, <1>9, <1>10, <1>11, <1>12, <1>13 DEF after

LEMMA CutsEqual ==
    ASSUME NEW a \in Logs, NEW b \in Logs, a.first = b.first,
           NEW k \in Nat, k <= Len(a.bodies), k <= Len(b.bodies),
           \A i \in 1 .. k : a.bodies[i] = b.bodies[i]
    PROVE  Cut(a, k) = Cut(b, k)
<1>1. k \in 0 .. Len(a.bodies) /\ k \in 0 .. Len(b.bodies)
  <2>1. Len(a.bodies) \in Nat /\ Len(b.bodies) \in Nat BY LenProperties DEF Logs
  <2> QED BY <2>1
<1> DEFINE x == Cut(a, k)
           y == Cut(b, k)
<1>2. x \in Logs /\ x.first = a.first /\ Len(x.bodies) = k /\ \A i \in 1 .. k : x.bodies[i] = a.bodies[i]
      BY <1>1, CutIs
<1>3. y \in Logs /\ y.first = b.first /\ Len(y.bodies) = k /\ \A i \in 1 .. k : y.bodies[i] = b.bodies[i]
      BY <1>1, CutIs
<1> HIDE DEF x, y
<1>4. x.bodies = y.bodies BY <1>2, <1>3, SeqEqual DEF Logs
<1>5. x = y BY <1>2, <1>3, <1>4 DEF Logs
<1> QED BY <1>5 DEF x, y

LEMMA CutJoined ==
    ASSUME NEW log \in Logs, NEW more \in Seq(Bodies), NEW k \in 0 .. Len(log.bodies)
    PROVE  Cut(Joined(log, more), k) = Cut(log, k)
<1>1. Len(log.bodies) \in Nat /\ Len(more) \in Nat BY LenProperties DEF Logs
<1> DEFINE new == Joined(log, more)
<1>2. /\ new \in Logs /\ new.first = log.first /\ Len(new.bodies) = Len(log.bodies) + Len(more)
      /\ \A i \in 1 .. Len(log.bodies) : new.bodies[i] = log.bodies[i] BY JoinedIs
<1> HIDE DEF new
<1>3. k \in Nat /\ k <= Len(log.bodies) /\ k <= Len(new.bodies) BY <1>1, <1>2
<1>4. \A i \in 1 .. k : new.bodies[i] = log.bodies[i] BY <1>1, <1>2, <1>3
<1>5. Cut(new, k) = Cut(log, k) BY <1>2, <1>3, <1>4, CutsEqual
<1> QED BY <1>5 DEF new

LEMMA JoinedNone == ASSUME NEW log \in Logs PROVE Joined(log, <<>>) = log
<1>1. log.bodies \o <<>> = log.bodies BY DEF Logs
<1> QED BY <1>1 DEF Joined, Logs

\* A call that appends may have written any beginning of its batch.
LEMMA PartOfBatch ==
    ASSUME NEW log \in Logs, NEW batch \in Seq(Bodies), NEW n \in 0 .. Len(batch),
           NEW k \in Len(log.bodies) .. Len(log.bodies) + n
    PROVE  Cut(Joined(log, SubSeq(batch, 1, n)), k) \in Parts(log, Joined(log, batch))
<1> DEFINE some == SubSeq(batch, 1, n)
           flight == Joined(log, batch)
           new == Joined(log, some)
<1>1. Len(log.bodies) \in Nat /\ Len(batch) \in Nat BY LenProperties DEF Logs
<1>2. some \in Seq(Bodies) /\ Len(some) = n /\ \A i \in 1 .. n : some[i] = batch[i]
      BY <1>1, SubSeqProperties
<1>3. /\ flight \in Logs /\ flight.first = log.first
      /\ Len(flight.bodies) = Len(log.bodies) + Len(batch)
      /\ \A i \in 1 .. Len(log.bodies) : flight.bodies[i] = log.bodies[i]
      /\ \A i \in 1 .. Len(batch) : flight.bodies[Len(log.bodies) + i] = batch[i] BY JoinedIs
<1> HIDE DEF some, flight
<1>4. /\ new \in Logs /\ new.first = log.first
      /\ Len(new.bodies) = Len(log.bodies) + n
      /\ \A i \in 1 .. Len(log.bodies) : new.bodies[i] = log.bodies[i]
      /\ \A i \in 1 .. n : new.bodies[Len(log.bodies) + i] = some[i] BY <1>2, JoinedIs
<1> HIDE DEF new
<1>5. n \in Nat /\ n <= Len(batch) /\ k \in Nat /\ k <= Len(new.bodies) /\ k <= Len(flight.bodies)
      /\ Len(log.bodies) <= k
      BY <1>1, <1>3, <1>4
<1>6. ASSUME NEW i \in 1 .. k PROVE new.bodies[i] = flight.bodies[i]
  <2>1. CASE i <= Len(log.bodies)
    <3>1. i \in 1 .. Len(log.bodies) BY <1>1, <1>5, <2>1
    <3> QED BY <1>3, <1>4, <3>1
  <2>2. CASE i > Len(log.bodies)
    <3> DEFINE j == i - Len(log.bodies)
    <3>1. j \in 1 .. n /\ j \in 1 .. Len(batch) /\ i = Len(log.bodies) + j
          BY <1>1, <1>4, <1>5, <2>2
    <3> HIDE DEF j
    <3> QED BY <1>2, <1>3, <1>4, <3>1
  <2> QED BY <1>1, <1>5, <2>1, <2>2
<1>7. Cut(new, k) = Cut(flight, k) BY <1>3, <1>4, <1>5, <1>6, CutsEqual, ZenonT(60)
<1>8. IsPrefix(log.bodies, flight.bodies)
  <2> DEFINE l == log.bodies
             m == Len(log.bodies)
             x == SubSeq(l, 1, m)
             y == SubSeq(flight.bodies, 1, m)
  <2>1. l \in Seq(Bodies) /\ flight.bodies \in Seq(Bodies) /\ Len(flight.bodies) \in Nat
        /\ m <= Len(flight.bodies) /\ m \in Nat BY <1>1, <1>3 DEF Logs
  <2>2. x \in Seq(Bodies) /\ Len(x) = m /\ \A i \in 1 .. m : x[i] = l[i]
        BY <2>1, SubSeqProperties
  <2>3. y \in Seq(Bodies) /\ Len(y) = m /\ \A i \in 1 .. m : y[i] = flight.bodies[i]
        BY <2>1, SubSeqProperties
  <2> HIDE DEF x, y
  <2>4. x = y BY <1>3, <2>1, <2>2, <2>3, SeqEqual
  <2> QED BY <2>1, <2>4 DEF x, y, IsPrefix
<1>9. k \in Len(log.bodies) .. Len(flight.bodies) BY <1>1, <1>3, <1>5
<1>10. Cut(flight, k) \in Parts(log, flight) BY <1>3, <1>8, <1>9 DEF Parts, Cut
<1> QED BY <1>7, <1>10 DEF new, some, flight

----------------------------------------------------------------------------
(* The invariant *)

Directories ==
    [marker : Markers \cup {Nothing}, names : SUBSET (Nat \X Nat),
     staging : (Nat \X Nat) \cup {Nothing}]

Calling == {"writing", "staging", "staged", "published", "installing"}
Cutting == {"staging", "staged", "published", "installing"}
Steady == {"open", "rotating", "writing"}

DirectoryTypes ==
    /\ directory \in Directories /\ onDisk \in Directories
    /\ doing \in Opening \cup Calling \cup Steady \cup {"poisoned"}
    /\ call \in Calls \cup {Nothing}
    /\ captured \in CutoverBoundaries \cup {Nothing}
    /\ barrier \in {"SyncAll", "Buffered"}
    /\ settled \in Logs

\* The logs a power failure may leave of what is on the device at this moment;
\* without a barrier, any.
Images ==
    IF barrier = "SyncAll"
    THEN survivors \cup (IF doing \in {"published", "installing"} THEN {call.flight} ELSE {})
    ELSE Logs

\* Nothing was logged yet.
Bare ==
    /\ directory.names = {} /\ onDisk.names = {}
    /\ directory.marker \in {Nothing, Torn, Marker(1, 1)}
    /\ onDisk.marker \in {Nothing, Torn, Marker(1, 1)}
    /\ settled = FirstLog /\ FirstLog \in Images

SafeMarker(marker) == Safe(marker, directory.names, onDisk.names, segments, settled, Images)

WhatStands ==
    \/ Bare /\ doing \in {"closed", "leased", "marking"}
    \/ SafeMarker(directory.marker) /\ SafeMarker(onDisk.marker) /\ doing # "marking"

\* While nothing is being published the device has every name.
DeviceFollows ==
    /\ doing \in {"leased", "cleaning", "staging", "staged", "installing"} \cup Steady => onDisk = directory
    /\ doing = "published" => onDisk = [directory EXCEPT !.marker = onDisk.marker]

CallsRun ==
    /\ call # Nothing <=> doing \in Calling
    /\ doing \in Opening => captured = Nothing

\* No segment is of a generation to come.
NoneYounger(names, generation) == \A id \in names : id[1] <= generation
Young ==
    /\ doing \in Steady \cup {"published", "installing"} =>
         NoneYounger(directory.names, directory.marker.generation)
    /\ doing \in {"staging", "staged"} =>
         NoneYounger(directory.names, directory.marker.generation + 1)

\* A boundary ends a frame of its generation's log.
BoundaryFits ==
    captured # Nothing =>
        /\ captured.marker.first <= captured.at
        /\ captured.start + captured.offset = captured.at + 1
        /\ captured.marker.generation <= directory.marker.generation
        /\ doing \in {"published", "installing"} =>
              captured.marker.generation < directory.marker.generation
        /\ doing \in Steady /\ captured.marker = directory.marker => captured.at <= LastLogged(Readout)

ActiveClosed == segments[ActiveId].synced = Len(Active)

RotationReady == doing = "rotating" => Active # <<>> /\ ActiveClosed

WriteFits ==
    doing = "writing" =>
        /\ call.log = Readout /\ call.flight = Joined(Readout, call.batch)
        /\ Len(Active) + Len(call.batch) <= SegmentFrames

\* The names of the new generation, with the staging file.
StagedNames == directory.names \cup ({directory.staging} \ {Nothing})

StagedLog(log) ==
    /\ Stood(NextMarker, StagedNames, StagedNames, segments, log, 0)
    /\ IsLast(call.staged[2], StagedNames, call.staged[1])
    /\ call.flight = Joined(log, call.rest)

Staging ==
    doing \in {"staging", "staged"} =>
        /\ call.log = Readout /\ ActiveClosed
        /\ call.staged \in Nat \X Nat
        /\ call.staged[1] = directory.marker.generation + 1
        /\ directory.staging \in {Nothing, call.staged}

StagedStands == doing = "staging" => \E log \in Logs : StagedLog(log)

FlightStands ==
    /\ doing \in Cutting => Covers(call.flight, settled)
    /\ doing \in {"staged", "published", "installing"} =>
         Stood(NextMarker, directory.names, directory.names, segments,
               call.flight, Len(call.flight.bodies))
    /\ doing \in {"published", "installing"} => directory.marker = NextMarker

DirectoryInv ==
    /\ DirectoryTypes /\ WhatStands /\ DeviceFollows /\ CallsRun /\ Young /\ BoundaryFits
    /\ RotationReady /\ WriteFits /\ Staging /\ StagedStands /\ FlightStands

----------------------------------------------------------------------------
(* What is known while the device follows *)

\* What the writer reads, where it appends, and that it is safe.
LEMMA LiveSafe ==
    ASSUME onDisk = directory, SafeMarker(directory.marker)
    PROVE  /\ Readout \in Logs /\ Len(Readout.bodies) \in Nat /\ Readout.first \in Nat
           /\ Readout.bodies \in Seq(Bodies)
           /\ directory.marker \in Markers /\ directory.marker.first = Readout.first
           /\ directory.names \subseteq Nat \X Nat
           /\ \E n \in 0 .. Len(Readout.bodies) :
                /\ Stood(directory.marker, directory.names, directory.names, segments, Readout, n)
                /\ Covers(Cut(Readout, n), settled)
                /\ \A k \in n .. Len(Readout.bodies) : Cut(Readout, k) \in Images
           /\ ActiveId = <<directory.marker.generation,
                           Max(Starts(directory.names, directory.marker.generation))>>
           /\ ActiveId \in directory.names /\ ActiveId \in DOMAIN segments
           /\ Active \in Seq(Bodies) /\ Len(Active) \in Nat /\ Len(Active) <= SegmentFrames
           /\ segments[ActiveId].synced \in 0 .. Len(Active)
           /\ Holds(Chain, Readout)
<1>1. Safe(directory.marker, directory.names, directory.names, segments, settled, Images)
      BY DEF SafeMarker
<1>2. Frames = ContentsOf(segments) BY DEF Frames, ContentsOf
<1> DEFINE log == LogIn(directory.marker, directory.names, ContentsOf(segments))
           chain == ChainOf(directory.marker, directory.names, ContentsOf(segments))
<1>3. /\ log \in Logs /\ Len(log.bodies) \in Nat /\ directory.marker.first = log.first
      /\ DOMAIN chain = Starts(directory.names, directory.marker.generation)
      /\ ChainFits(chain, directory.marker.first) /\ Holds(chain, log)
      /\ \E n \in 0 .. Len(log.bodies) :
            /\ Stood(directory.marker, directory.names, directory.names, segments, log, n)
            /\ Covers(Cut(log, n), settled)
            /\ \A k \in n .. Len(log.bodies) : Cut(log, k) \in Images
      BY <1>1, SafeReads
<1>4. Readout = log /\ Chain = chain BY <1>2 DEF Readout, Chain
<1> HIDE DEF log, chain
<1>5. ActiveId = <<directory.marker.generation,
                   Max(Starts(directory.names, directory.marker.generation))>>
      BY <1>3, <1>4 DEF ActiveId
<1>6. PICK n : Stood(directory.marker, directory.names, directory.names, segments, log, n) BY <1>3
<1>7. /\ ActiveId \in directory.names /\ ActiveId \in DOMAIN segments
      /\ segments[ActiveId].frames \in Seq(Bodies) /\ Len(segments[ActiveId].frames) \in Nat
      /\ Len(segments[ActiveId].frames) <= SegmentFrames
      /\ segments[ActiveId].synced \in 0 .. Len(segments[ActiveId].frames)
      BY <1>5, <1>6, StoodActive
<1>8. directory.marker \in Markers /\ directory.names \subseteq Nat \X Nat BY <1>6 DEF Stood
<1>9. log.first \in Nat /\ log.bodies \in Seq(Bodies) BY <1>3 DEF Logs
<1> QED BY <1>3, <1>4, <1>5, <1>7, <1>8, <1>9 DEF Active

LEMMA Live ==
    ASSUME DirectoryInv, onDisk = directory, doing \notin {"closed", "leased", "marking"}
    PROVE  /\ Readout \in Logs /\ Len(Readout.bodies) \in Nat /\ Readout.first \in Nat
           /\ Readout.bodies \in Seq(Bodies)
           /\ directory.marker \in Markers /\ directory.marker.first = Readout.first
           /\ directory.names \subseteq Nat \X Nat
           /\ \E n \in 0 .. Len(Readout.bodies) :
                /\ Stood(directory.marker, directory.names, directory.names, segments, Readout, n)
                /\ Covers(Cut(Readout, n), settled)
                /\ \A k \in n .. Len(Readout.bodies) : Cut(Readout, k) \in Images
           /\ ActiveId = <<directory.marker.generation,
                           Max(Starts(directory.names, directory.marker.generation))>>
           /\ ActiveId \in directory.names /\ ActiveId \in DOMAIN segments
           /\ Active \in Seq(Bodies) /\ Len(Active) \in Nat /\ Len(Active) <= SegmentFrames
           /\ segments[ActiveId].synced \in 0 .. Len(Active)
           /\ Holds(Chain, Readout)
BY LiveSafe DEF DirectoryInv, WhatStands

----------------------------------------------------------------------------
(* Power failures *)

\* A batch of which some frames were written: what stands, and the log.
LEMMA WrittenStands ==
    ASSUME DirectoryInv, doing = "writing", NEW n \in 0 .. Len(call.batch)
    PROVE  LET more == SubSeq(call.batch, 1, n) IN
           /\ more \in Seq(Bodies) /\ Len(more) = n /\ call.batch \in Seq(Bodies)
           /\ call.flight = Joined(Readout, call.batch) /\ call.log = Readout
           /\ \E m \in 0 .. Len(Readout.bodies) :
                /\ Stood(directory.marker, directory.names, directory.names, Written(n),
                         Joined(Readout, more), m)
                /\ Covers(Cut(Joined(Readout, more), m), settled)
                /\ \A k \in m .. Len(Joined(Readout, more).bodies) :
                      Cut(Joined(Readout, more), k)
                        \in (IF barrier = "SyncAll" THEN survivors \cup Parts(call.log, call.flight)
                             ELSE Logs)
           /\ DOMAIN Written(n) = DOMAIN segments
<1> DEFINE more == SubSeq(call.batch, 1, n)
           new == Joined(Readout, more)
           m == directory.marker
           names == directory.names
           after == Written(n)
           to == IF barrier = "SyncAll" THEN survivors \cup Parts(call.log, call.flight) ELSE Logs
<1>1. onDisk = directory BY DEF DirectoryInv, DeviceFollows, Steady
<1>2. call \in Calls
  <2>1. call # Nothing BY DEF DirectoryInv, CallsRun, Calling
  <2> QED BY <2>1 DEF DirectoryInv, DirectoryTypes
<1>3. call.batch \in Seq(Bodies) /\ Len(call.batch) \in Nat BY <1>2, LenProperties DEF Calls
<1>4. n \in Nat /\ n <= Len(call.batch) BY <1>3
<1>5. more \in Seq(Bodies) /\ Len(more) = n
  <2>1. n \in 0 .. Len(call.batch) OBVIOUS
  <2> QED BY <1>3, <1>4, SubSeqProperties
<1>6. call.log = Readout /\ call.flight = Joined(Readout, call.batch)
      /\ Len(Active) + Len(call.batch) <= SegmentFrames BY DEF DirectoryInv, WriteFits
<1>7. /\ Readout \in Logs /\ Len(Readout.bodies) \in Nat
      /\ ActiveId = <<m.generation, Max(Starts(names, m.generation))>>
      /\ ActiveId \in DOMAIN segments
      /\ Active \in Seq(Bodies) /\ Len(Active) \in Nat
      /\ segments[ActiveId].synced \in 0 .. Len(Active)
      BY <1>1, Live
<1>8. PICK l \in 0 .. Len(Readout.bodies) :
        /\ Stood(m, names, names, segments, Readout, l)
        /\ Covers(Cut(Readout, l), settled)
        /\ \A k \in l .. Len(Readout.bodies) : Cut(Readout, k) \in Images BY <1>1, Live
<1> HIDE DEF more, m, names
<1>9. /\ DOMAIN after = DOMAIN segments
      /\ \A id \in DOMAIN segments : id # ActiveId => after[id] = segments[id]
      /\ after[ActiveId].frames = segments[ActiveId].frames \o more
      /\ after[ActiveId].synced = segments[ActiveId].synced
  <2>1. after = [segments EXCEPT ![ActiveId] = WithFrames(@, more)] BY DEF Written, more
  <2>2. after[ActiveId] = WithFrames(segments[ActiveId], more) BY <1>7, <2>1
  <2> HIDE DEF after
  <2>3. after[ActiveId].frames = segments[ActiveId].frames \o more
        /\ after[ActiveId].synced = segments[ActiveId].synced BY <2>2 DEF WithFrames
  <2> QED BY <2>1, <2>3
<1> HIDE DEF after
<1>10. Len(segments[ActiveId].frames) + Len(more) <= SegmentFrames
       /\ after[ActiveId].synced \in segments[ActiveId].synced .. Len(after[ActiveId].frames)
  <2>1. SegmentFrames \in Nat BY SegmentAssumption
  <2> DEFINE frames == segments[ActiveId].frames
  <2>3. frames \in Seq(Bodies) /\ Len(frames) \in Nat /\ Len(frames) + Len(call.batch) <= SegmentFrames
        /\ segments[ActiveId].synced \in 0 .. Len(frames) BY <1>6, <1>7 DEF Active
  <2>4. after[ActiveId].frames = frames \o more BY <1>9
  <2> HIDE DEF frames
  <2>5. Len(frames \o more) = Len(frames) + Len(more) BY <1>5, <2>3
  <2>6. Len(after[ActiveId].frames) = Len(frames) + n BY <1>5, <2>4, <2>5
  <2> HIDE DEF frames
  <2>7. Len(frames) + Len(more) <= SegmentFrames BY <1>3, <1>4, <1>5, <2>1, <2>3
  <2>8. after[ActiveId].synced \in segments[ActiveId].synced .. Len(after[ActiveId].frames)
        BY <1>4, <1>9, <2>3, <2>6
  <2> QED BY <2>7, <2>8 DEF frames
<1>11. \A id \in names : id[1] = m.generation => id \in DOMAIN after /\ (id # ActiveId => after[id] = segments[id])
       BY <1>8, <1>9 DEF Stood
<1>12. Stood(m, names, names, after, new, l)
       BY <1>5, <1>7, <1>8, <1>9, <1>10, <1>11, StoodGrows
<1>13. Covers(Cut(new, l), settled)
       BY <1>5, <1>7, <1>8, CutJoined
<1>14. new \in Logs /\ Len(new.bodies) = Len(Readout.bodies) + n BY <1>5, <1>7, JoinedIs
<1>15. ASSUME NEW k \in l .. Len(new.bodies) PROVE Cut(new, k) \in to
  <2>1. k \in Nat /\ k \in 0 .. Len(new.bodies) BY <1>4, <1>7, <1>14
  <2>2. CASE k <= Len(Readout.bodies)
    <3>1. k \in 0 .. Len(Readout.bodies) /\ k \in l .. Len(Readout.bodies) BY <1>7, <2>1, <2>2
    <3>2. Cut(new, k) = Cut(Readout, k) BY <1>5, <1>7, <3>1, CutJoined
    <3>3. Cut(Readout, k) \in Images BY <1>8, <3>1
    <3> QED BY <3>2, <3>3 DEF Images
  <2>3. CASE k > Len(Readout.bodies)
    <3>1. k \in Len(Readout.bodies) .. Len(Readout.bodies) + n BY <1>7, <1>14, <2>1, <2>3
    <3>2. Cut(new, k) \in Parts(Readout, Joined(Readout, call.batch))
          BY <1>3, <1>7, <3>1, PartOfBatch DEF more
    <3>3. Cut(new, k) \in Logs BY <1>14, <2>1, CutIs
    <3> QED BY <1>6, <3>2, <3>3
  <2> QED BY <1>7, <2>1, <2>2, <2>3
<1>16. \E k \in 0 .. Len(Readout.bodies) :
                /\ Stood(m, names, names, after, new, k)
                /\ Covers(Cut(new, k), settled)
                /\ \A j \in k .. Len(new.bodies) : Cut(new, j) \in to
       BY <1>8, <1>12, <1>13, <1>15
<1> QED BY <1>3, <1>5, <1>6, <1>9, <1>16 DEF more, m, names, after

\* What may be lost and kept of this moment.
CrashImages ==
    IF barrier = "SyncAll"
    THEN survivors \cup (IF call = Nothing THEN {} ELSE Parts(call.log, call.flight))
    ELSE Logs

LEMMA ImagesLast == DirectoryInv => Images \subseteq CrashImages
<1> SUFFICES ASSUME DirectoryInv PROVE Images \subseteq CrashImages OBVIOUS
<1>1. doing \in {"published", "installing"} => call # Nothing BY DEF DirectoryInv, CallsRun, Calling
<1>2. call.flight \in Parts(call.log, call.flight) BY DEF Parts
<1> QED BY <1>1, <1>2 DEF Images, CrashImages

LEMMA MayBeWrittenIsSafe ==
    ASSUME DirectoryInv, ~Bare, NEW files \in MayBeWritten,
           NEW marker \in {directory.marker, onDisk.marker}
    PROVE  Safe(marker, directory.names, onDisk.names, files, settled, CrashImages)
<1>1. SafeMarker(marker) BY DEF DirectoryInv, WhatStands
<1>2. CASE doing # "writing"
  <2>1. files = segments BY <1>2 DEF MayBeWritten
  <2> QED BY <1>1, <2>1, ImagesLast, SafeMore DEF SafeMarker
<1>3. CASE doing = "writing"
  <2>1. onDisk = directory BY <1>3 DEF DirectoryInv, DeviceFollows, Steady
  <2>2. PICK n \in 0 .. Len(call.batch) : files = Written(n) BY <1>3 DEF MayBeWritten
  <2>3. call # Nothing BY <1>3 DEF DirectoryInv, CallsRun, Calling
  <2> DEFINE new == Joined(Readout, SubSeq(call.batch, 1, n))
  <2>4. PICK m \in 0 .. Len(Readout.bodies) :
          /\ Stood(directory.marker, directory.names, directory.names, Written(n), new, m)
          /\ Covers(Cut(new, m), settled)
          /\ \A k \in m .. Len(new.bodies) : Cut(new, k) \in CrashImages
        BY <1>3, <2>3, WrittenStands DEF CrashImages
  <2>5. new \in Logs /\ m \in 0 .. Len(new.bodies)
    <3>1. Readout \in Logs /\ Len(Readout.bodies) \in Nat BY <1>3, <2>1, Live
    <3>2. SubSeq(call.batch, 1, n) \in Seq(Bodies) BY <1>3, WrittenStands
    <3>3. new \in Logs /\ Len(new.bodies) = Len(Readout.bodies) + Len(SubSeq(call.batch, 1, n))
          BY <3>1, <3>2, JoinedIs
    <3>4. Len(SubSeq(call.batch, 1, n)) \in Nat BY <3>2, LenProperties
    <3>5. m \in 0 .. Len(new.bodies)
      <4> DEFINE a == Len(Readout.bodies)
                 b == Len(SubSeq(call.batch, 1, n))
      <4>1. a \in Nat /\ b \in Nat /\ m \in 0 .. a /\ Len(new.bodies) = a + b BY <3>1, <3>3, <3>4
      <4> HIDE DEF a, b, new
      <4> QED BY <4>1
    <3> QED BY <3>3, <3>5
  <2> HIDE DEF new
  <2>6. Safe(directory.marker, directory.names, directory.names, files, settled, CrashImages)
        BY <2>2, <2>4, <2>5 DEF Safe
  <2> QED BY <2>1, <2>6
<1> QED BY <1>2, <1>3

\* A marker that selects nothing, or whose segments do not exist yet, reads as
\* the empty log.
LEMMA BareReads ==
    ASSUME NEW marker \in {Nothing, Torn, Marker(1, 1)}, NEW f
    PROVE  LogIn(marker, {}, f) = FirstLog
<1>1. CASE Readable(marker)
  <2>1. marker = Marker(1, 1) BY <1>1 DEF Readable
  <2>2. Starts({}, marker.generation) = {} BY DEF Starts
  <2>3. DOMAIN ChainOf(marker, {}, f) = {} BY <2>2 DEF ChainOf
  <2>4. FramesIn(ChainOf(marker, {}, f), 1) = <<>> BY <2>3 DEF FramesIn
  <2>5. marker.first = 1 BY <2>1 DEF Marker
  <2> QED BY <1>1, <2>4, <2>5 DEF LogIn, FirstLog
<1> QED BY <1>1 DEF LogIn

LEMMA BareCrash ==
    ASSUME DirectoryInv, Bare, NEW d \in CrashDirectories, NEW f
    PROVE  /\ d.names = {} /\ d.marker \in {Nothing, Torn, Marker(1, 1)}
           /\ Acceptable(d.marker, d.names, f)
           /\ LogIn(d.marker, d.names, f) = FirstLog
<1>1. d.names = {} /\ d.marker \in {directory.marker, onDisk.marker} BY DEF CrashDirectories, Bare
<1>2. d.marker \in {Nothing, Torn, Marker(1, 1)} BY <1>1 DEF Bare
<1>3. \A g : Starts({}, g) = {} BY DEF Starts
<1>4. Acceptable(d.marker, d.names, f)
  <2>1. CASE ~Readable(d.marker) BY <1>1, <2>1 DEF Acceptable
  <2>2. CASE Readable(d.marker)
    <3>1. d.marker = Marker(1, 1) BY <1>2, <2>2 DEF Readable
    <3> QED BY <1>1, <1>3, <2>2, <3>1 DEF Acceptable
  <2> QED BY <2>1, <2>2
<1>5. LogIn(d.marker, d.names, f) = FirstLog BY <1>1, <1>2, BareReads
<1> QED BY <1>1, <1>2, <1>4, <1>5

LEMMA CrashOpens ==
    ASSUME DirectoryInv PROVE EveryCrashOpens
<1>1. SUFFICES ASSUME NEW files \in MayBeWritten, NEW d \in CrashDirectories,
                      NEW f \in CrashFiles(files, d.names)
               PROVE  Acceptable(d.marker, d.names, f) /\ Covers(LogIn(d.marker, d.names, f), settled)
      BY DEF EveryCrashOpens
<1>2. CASE Bare
  <2>1. settled = FirstLog BY <1>2 DEF Bare
  <2> QED BY <1>2, <2>1, BareCrash, CoversFirst
<1>3. CASE ~Bare
  <2>1. /\ d.marker \in {directory.marker, onDisk.marker}
        /\ directory.names \cap onDisk.names \subseteq d.names
        /\ d.names \subseteq directory.names \cup onDisk.names BY DEF CrashDirectories
  <2>2. Safe(d.marker, directory.names, onDisk.names, files, settled, CrashImages)
        BY <1>3, <2>1, MayBeWrittenIsSafe
  <2>3. settled \in Logs BY DEF DirectoryInv, DirectoryTypes
  <2>4. /\ Covers(LogIn(d.marker, d.names, f), settled) /\ Readable(d.marker)
        /\ ChainFits(ChainOf(d.marker, d.names, f), d.marker.first)
        BY <2>1, <2>2, <2>3, SafeSurvives
  <2> QED BY <2>4 DEF Acceptable
<1> QED BY <1>2, <1>3

----------------------------------------------------------------------------
(* The invariant is kept *)

LEMMA MarkersAre ==
    /\ Marker(1, 1) \in Markers /\ Torn \in Markers /\ Torn # Marker(1, 1)
    /\ Nothing \notin Markers /\ Nothing \notin Nat \X Nat /\ Nothing \notin Calls
    /\ Nothing \notin CutoverBoundaries
    /\ Readable(Marker(1, 1)) /\ ~Readable(Nothing) /\ ~Readable(Torn)
    /\ FirstLog \in Logs
<1>1. Marker(1, 1) \in Markers /\ Torn \in Markers BY DEF Marker, Torn, Markers
<1>2. Torn # Marker(1, 1)
  <2>1. Torn.generation = 0 /\ Marker(1, 1).generation = 1 BY DEF Torn, Marker
  <2> QED BY <2>1
<1>3. FirstLog \in Logs BY DEF FirstLog, Logs
<1> QED BY <1>1, <1>2, <1>3, NothingAssumption DEF Readable

\* A marker that is safe has at least the segment it names.
LEMMA SafeNotBare ==
    ASSUME NEW marker, NEW read, NEW disk, NEW files, NEW kept, NEW images,
           Safe(marker, read, disk, files, kept, images)
    PROVE  /\ Readable(marker) /\ marker \in Markers
           /\ read # {} /\ disk # {}
           /\ read \subseteq Nat \X Nat /\ disk \subseteq Nat \X Nat
<1>0. PICK log \in Logs : \E n \in 0 .. Len(log.bodies) :
          Stood(marker, read, disk, files, log, n) BY DEF Safe
<1>1. PICK n : Stood(marker, read, disk, files, log, n) BY <1>0
<1>2. read \cap disk \subseteq Nat \X Nat BY <1>1 DEF Stood
<1>3. log.first \in Starts(read \cap disk, marker.generation) BY <1>1 DEF Stood, Stands
<1>4. <<marker.generation, log.first>> \in read \cap disk BY <1>2, <1>3, StartsAre
<1> QED BY <1>1, <1>4 DEF Stood

LEMMA ToClosed ==
    ASSUME DirectoryTypes', WhatStands', doing' = "closed", call' = Nothing, captured' = Nothing
    PROVE  DirectoryInv'
<1>1. DeviceFollows' BY DEF DeviceFollows, Steady
<1>2. CallsRun' BY DEF CallsRun, Calling, Opening
<1>3. Young' BY DEF Young, Steady
<1>4. BoundaryFits' BY DEF BoundaryFits
<1>5. RotationReady' /\ WriteFits' /\ Staging' /\ StagedStands' BY DEF RotationReady, WriteFits, Staging, StagedStands
<1>6. FlightStands' BY DEF FlightStands, Cutting
<1> QED BY <1>1, <1>2, <1>3, <1>4, <1>5, <1>6 DEF DirectoryInv

LEMMA ToPoisoned ==
    ASSUME DirectoryInv, DirectoryTypes',
           SafeMarker(directory.marker)', SafeMarker(onDisk.marker)',
           doing' = "poisoned", call' = Nothing, captured' = captured,
           directory'.marker = directory.marker
    PROVE  DirectoryInv'
<1>1. DeviceFollows' BY DEF DeviceFollows, Steady
<1>2. CallsRun' BY DEF CallsRun, Calling, Opening
<1>3. Young' BY DEF Young, Steady
<1>4. BoundaryFits' BY DEF BoundaryFits, DirectoryInv, Steady
<1>5. RotationReady' /\ WriteFits' /\ Staging' /\ StagedStands' BY DEF RotationReady, WriteFits, Staging, StagedStands
<1>6. FlightStands' BY DEF FlightStands, Cutting
<1>7. WhatStands' BY DEF WhatStands
<1> QED BY <1>1, <1>2, <1>3, <1>4, <1>5, <1>6, <1>7 DEF DirectoryInv

LEMMA ToOpen ==
    ASSUME DirectoryTypes', SafeMarker(directory.marker)', onDisk' = directory',
           doing' = "open", call' = Nothing, BoundaryFits',
           NoneYounger(directory.names, directory.marker.generation)'
    PROVE  DirectoryInv'
<1>1. DeviceFollows' BY DEF DeviceFollows, Steady
<1>2. CallsRun' BY DEF CallsRun, Calling, Opening
<1>3. Young' BY DEF Young, Steady
<1>5. RotationReady' /\ WriteFits' /\ Staging' /\ StagedStands' BY DEF RotationReady, WriteFits, Staging, StagedStands
<1>6. FlightStands' BY DEF FlightStands, Cutting
<1>7. WhatStands' BY DEF WhatStands, SafeMarker
<1> QED BY <1>1, <1>2, <1>3, <1>5, <1>6, <1>7 DEF DirectoryInv

\* Opening and stopping: nothing but what stands is to be shown.
LEMMA ToOpening ==
    ASSUME DirectoryTypes', WhatStands', doing' \in {"leased", "marking", "cleaning"},
           call' = Nothing, captured' = Nothing,
           doing' # "marking" => onDisk' = directory'
    PROVE  DirectoryInv'
<1>1. DeviceFollows' BY DEF DeviceFollows, Steady
<1>2. CallsRun' BY DEF CallsRun, Calling, Opening
<1>3. Young' BY DEF Young, Steady
<1>4. BoundaryFits' BY DEF BoundaryFits
<1>5. RotationReady' /\ WriteFits' /\ Staging' /\ StagedStands' BY DEF RotationReady, WriteFits, Staging, StagedStands
<1>6. FlightStands' BY DEF FlightStands, Cutting
<1> QED BY <1>1, <1>2, <1>3, <1>4, <1>5, <1>6 DEF DirectoryInv

LEMMA AcquireKeeps == ASSUME DirectoryInv, AcquireDirectory PROVE DirectoryInv'
<1>1. /\ doing = "closed" /\ doing' = "leased" /\ onDisk' = directory
      /\ directory' = directory /\ segments' = segments /\ call' = call /\ captured' = captured
      /\ barrier' = barrier /\ settled' = settled /\ survivors' = survivors
      BY DEF AcquireDirectory, Unsettled
<1>2. call = Nothing /\ captured = Nothing BY <1>1 DEF DirectoryInv, CallsRun, Calling, Opening
<1>3. DirectoryTypes' BY <1>1 DEF DirectoryInv, DirectoryTypes, Opening
<1>4. Images' = Images BY <1>1 DEF Images
<1>5. WhatStands'
  <2>1. CASE Bare
    <3>1. Bare' BY <1>1, <1>4, <2>1 DEF Bare
    <3> QED BY <1>1, <3>1 DEF WhatStands
  <2>2. CASE SafeMarker(directory.marker)
    <3>1. Safe(directory.marker, directory.names, directory.names, segments, settled, Images)
          BY <2>2, SafeWhole DEF SafeMarker
    <3>2. SafeMarker(directory.marker)' /\ SafeMarker(onDisk.marker)'
          BY <1>1, <1>4, <3>1 DEF SafeMarker
    <3> QED BY <1>1, <3>2 DEF WhatStands
  <2> QED BY <2>1, <2>2 DEF DirectoryInv, WhatStands
<1> QED BY <1>1, <1>2, <1>3, <1>5, ToOpening

\* A directory without a log: what its marker becomes changes nothing.
LEMMA BareStep ==
    ASSUME DirectoryInv, Bare,
           directory'.names = {}, onDisk'.names = {},
           directory'.marker \in {Nothing, Torn, Marker(1, 1)},
           onDisk'.marker \in {Nothing, Torn, Marker(1, 1)},
           barrier' = barrier, settled' = settled, survivors' = survivors,
           doing \in {"closed", "leased", "marking"}, doing' \in {"closed", "leased", "marking"}
    PROVE  WhatStands'
<1>1. FirstLog \in Images' BY DEF Bare, Images
<1>2. Bare' BY <1>1 DEF Bare
<1> QED BY <1>2 DEF WhatStands

LEMMA UnmarkedIsBare ==
    ASSUME DirectoryInv, ~Readable(directory.marker) \/ doing = "marking"
    PROVE  Bare /\ doing \in {"closed", "leased", "marking"}
<1>1. CASE doing = "marking" BY <1>1 DEF DirectoryInv, WhatStands
<1>2. CASE ~Readable(directory.marker)
      BY <1>2, SafeNotBare DEF DirectoryInv, WhatStands, SafeMarker
<1> QED BY <1>1, <1>2

LEMMA CreateMarkerKeeps == ASSUME DirectoryInv, CreateMarker PROVE DirectoryInv'
<1>1. /\ doing = "leased" /\ doing' = "marking" /\ directory = NoDirectory
      /\ directory' = [directory EXCEPT !.marker = Torn] /\ onDisk' = onDisk
      /\ call' = call /\ captured' = captured
      /\ barrier' = barrier /\ settled' = settled /\ survivors' = survivors
      BY DEF CreateMarker, Unsettled
<1>2. call = Nothing /\ captured = Nothing BY <1>1 DEF DirectoryInv, CallsRun, Calling, Opening
<1>3. Bare
  <2>1. ~Readable(directory.marker) BY <1>1, MarkersAre DEF NoDirectory
  <2> QED BY <2>1, UnmarkedIsBare
<1>4. directory' \in Directories /\ directory'.names = {} /\ directory'.marker = Torn
      BY <1>1, MarkersAre DEF NoDirectory, Directories
<1>5. DirectoryTypes' BY <1>1, <1>4 DEF DirectoryInv, DirectoryTypes, Opening
<1>6. WhatStands' BY <1>1, <1>3, <1>4, BareStep DEF Bare
<1> QED BY <1>1, <1>2, <1>5, <1>6, ToOpening

LEMMA MarkerWrittenKeeps == ASSUME DirectoryInv, MarkerWritten PROVE DirectoryInv'
<1>1. /\ doing = "marking" /\ doing' = "leased"
      /\ directory' = [directory EXCEPT !.marker = Marker(1, 1)] /\ onDisk' = directory'
      /\ call' = call /\ captured' = captured
      /\ barrier' = barrier /\ settled' = settled /\ survivors' = survivors
      BY DEF MarkerWritten, Unsettled
<1>2. call = Nothing /\ captured = Nothing BY <1>1 DEF DirectoryInv, CallsRun, Calling, Opening
<1>3. Bare BY <1>1, UnmarkedIsBare
<1>4. directory' \in Directories /\ directory'.names = {} /\ directory'.marker = Marker(1, 1)
      BY <1>1, <1>3, MarkersAre DEF DirectoryInv, DirectoryTypes, Directories, Bare
<1>5. DirectoryTypes' BY <1>1, <1>4 DEF DirectoryInv, DirectoryTypes, Opening
<1>6. WhatStands' BY <1>1, <1>3, <1>4, BareStep
<1> QED BY <1>1, <1>2, <1>5, <1>6, ToOpening

LEMMA MarkerFailsKeeps == ASSUME DirectoryInv, MarkerFails PROVE DirectoryInv'
<1>1. /\ doing = "marking" /\ doing' = "closed"
      /\ onDisk' \in {onDisk, directory, directory'}
      /\ call' = call /\ captured' = captured
      /\ barrier' = barrier /\ settled' = settled /\ survivors' = survivors
      BY DEF MarkerFails, Unsettled
<1>2. call = Nothing /\ captured = Nothing BY <1>1 DEF DirectoryInv, CallsRun, Calling, Opening
<1>3. Bare BY <1>1, UnmarkedIsBare
<1>4. PICK left \in {Nothing, Torn, Marker(1, 1)} : directory' = [directory EXCEPT !.marker = left]
      BY DEF MarkerFails
<1>5. directory' \in Directories /\ directory'.names = {} /\ directory'.marker = left
      BY <1>3, <1>4, MarkersAre DEF DirectoryInv, DirectoryTypes, Directories, Bare
<1>6. DirectoryTypes' BY <1>1, <1>5 DEF DirectoryInv, DirectoryTypes, Opening
<1>7. onDisk'.names = {} /\ onDisk'.marker \in {Nothing, Torn, Marker(1, 1)}
      BY <1>1, <1>3, <1>5 DEF Bare
<1>8. WhatStands' BY <1>1, <1>3, <1>5, <1>7, BareStep
<1> QED BY <1>1, <1>2, <1>6, <1>8, ToClosed

LEMMA RecoverKeeps == ASSUME DirectoryInv, RecoverInitialization PROVE DirectoryInv'
<1>1. /\ doing = "closed" /\ doing' = doing /\ directory.marker = Torn
      /\ directory' = NoDirectory /\ onDisk' \in {directory, NoDirectory}
      /\ call' = call /\ captured' = captured
      /\ barrier' = barrier /\ settled' = settled /\ survivors' = survivors
      BY DEF RecoverInitialization, Unsettled
<1>2. call = Nothing /\ captured = Nothing BY <1>1 DEF DirectoryInv, CallsRun, Calling, Opening
<1>3. Bare BY <1>1, MarkersAre, UnmarkedIsBare
<1>4. NoDirectory \in Directories /\ NoDirectory.names = {} /\ NoDirectory.marker = Nothing
      BY MarkersAre DEF NoDirectory, Directories
<1>5. DirectoryTypes' BY <1>1, <1>4 DEF DirectoryInv, DirectoryTypes
<1>6. WhatStands' BY <1>1, <1>3, <1>4, BareStep DEF Bare
<1> QED BY <1>1, <1>2, <1>5, <1>6, ToClosed

\* The first segment of a directory holds the log without a frame.
LEMMA FirstStood ==
    ASSUME NEW files, <<1, 1>> \in DOMAIN files, files[<<1, 1>>] = Empty
    PROVE  Stood(Marker(1, 1), {<<1, 1>>}, {<<1, 1>>}, files, FirstLog, 0)
<1>1. /\ FirstLog \in Logs /\ FirstLog.first = 1 /\ FirstLog.bodies = <<>> /\ Len(FirstLog.bodies) = 0
      /\ Marker(1, 1) \in Markers /\ Readable(Marker(1, 1))
      /\ Marker(1, 1).generation = 1 /\ Marker(1, 1).first = 1
      BY MarkersAre DEF FirstLog, Marker
<1> DEFINE a == <<1, 1>>
           names == {a}
           m == Marker(1, 1)
<1>2. a = <<m.generation, m.first>> /\ names \subseteq Nat \X Nat BY <1>1
<1>3. files[a].frames = FirstLog.bodies /\ files[a].synced = 0 BY <1>1 DEF Empty
<1>4. a \in names /\ a \in DOMAIN files /\ \A id \in names : id[1] = m.generation => id = a OBVIOUS
<1>5. m \in Markers /\ Readable(m) /\ FirstLog.first = m.first /\ Len(FirstLog.bodies) <= SegmentFrames
      BY <1>1, SegmentAssumption
<1>6. files[a].synced \in 0 .. Len(FirstLog.bodies) BY <1>1, <1>3
<1> HIDE DEF a, names, m
<1>7. Stood(m, names, names, files, FirstLog, files[a].synced)
      BY <1>1, <1>2, <1>3, <1>4, <1>5, <1>6, StoodFirst
<1> QED BY <1>3, <1>7 DEF a, names, m

LEMMA NewIsBare ==
    ASSUME DirectoryInv, OpenNew
    PROVE  /\ Bare
           /\ directory' \in Directories /\ directory'.names = {<<1, 1>>} /\ directory'.marker = Marker(1, 1)
           /\ Stood(Marker(1, 1), {<<1, 1>>}, {<<1, 1>>}, segments', FirstLog, 0)
<1>1. /\ doing = "leased" /\ directory.marker = Marker(1, 1) /\ DOMAIN Chain = {}
      /\ directory' = [directory EXCEPT !.names = @ \cup {<<1, 1>>}]
      /\ segments' = WithFile(segments, <<1, 1>>, Empty)
      BY DEF OpenNew
<1>2. Bare
  <2>1. SUFFICES ASSUME ~Bare PROVE FALSE OBVIOUS
  <2>2. onDisk = directory BY <1>1 DEF DirectoryInv, DeviceFollows
  <2>3. SafeMarker(directory.marker) BY <2>1 DEF DirectoryInv, WhatStands
  <2>4. Holds(Chain, Readout) BY <2>2, <2>3, LiveSafe
  <2> QED BY <1>1, <2>4 DEF Holds
<1>3. directory' \in Directories /\ directory'.names = {<<1, 1>>} /\ directory'.marker = Marker(1, 1)
      BY <1>1, <1>2, MarkersAre DEF DirectoryInv, DirectoryTypes, Directories, Bare
<1>4. <<1, 1>> \in DOMAIN segments' /\ segments'[<<1, 1>>] = Empty BY <1>1 DEF WithFile
<1> QED BY <1>2, <1>3, <1>4, FirstStood

LEMMA OpenNewKeeps == ASSUME DirectoryInv, OpenNew PROVE DirectoryInv'
<1>1. /\ doing = "leased" /\ doing' = "cleaning" /\ onDisk' = directory'
      /\ call' = call /\ captured' = captured
      /\ barrier' = barrier /\ settled' = settled /\ survivors' = survivors
      BY DEF OpenNew, Unsettled
<1>2. call = Nothing /\ captured = Nothing BY <1>1 DEF DirectoryInv, CallsRun, Calling, Opening
<1>3. /\ Bare
      /\ directory' \in Directories /\ directory'.names = {<<1, 1>>} /\ directory'.marker = Marker(1, 1)
      /\ Stood(Marker(1, 1), {<<1, 1>>}, {<<1, 1>>}, segments', FirstLog, 0)
      BY NewIsBare
<1>4. DirectoryTypes' BY <1>1, <1>3 DEF DirectoryInv, DirectoryTypes, Opening
<1>5. /\ FirstLog \in Logs /\ Len(FirstLog.bodies) = 0 BY MarkersAre DEF FirstLog
<1>6. FirstLog \in Images' /\ settled' = FirstLog BY <1>1, <1>3 DEF Bare, Images
<1>7. Safe(Marker(1, 1), {<<1, 1>>}, {<<1, 1>>}, segments', settled', Images')
      BY <1>3, <1>5, <1>6, CoversItself, SafeLog
<1>8. SafeMarker(directory.marker)' /\ SafeMarker(onDisk.marker)'
      BY <1>1, <1>3, <1>7 DEF SafeMarker
<1>9. WhatStands' BY <1>1, <1>8 DEF WhatStands
<1> QED BY <1>1, <1>2, <1>4, <1>9, ToOpening

LEMMA OpenChainKeeps == ASSUME DirectoryInv, OpenChain PROVE DirectoryInv'
<1>1. /\ doing = "leased" /\ doing' = "cleaning" /\ ChainFits(Chain, directory.marker.first)
      /\ directory' = directory /\ onDisk' = onDisk /\ segments' = segments
      /\ call' = call /\ captured' = captured
      /\ barrier' = barrier /\ settled' = settled /\ survivors' = survivors
      BY DEF OpenChain, Unsettled
<1>2. call = Nothing /\ captured = Nothing BY <1>1 DEF DirectoryInv, CallsRun, Calling, Opening
<1>3. onDisk = directory BY <1>1 DEF DirectoryInv, DeviceFollows
<1>4. ~Bare
  <2>1. SUFFICES ASSUME Bare PROVE FALSE OBVIOUS
  <2>2. Starts(directory.names, directory.marker.generation) = {} BY <2>1 DEF Bare, Starts
  <2>3. DOMAIN Chain = {} BY <2>2 DEF Chain, ChainOf
  <2> QED BY <1>1, <2>3 DEF ChainFits
<1>5. Images' = Images BY <1>1 DEF Images
<1>6. SafeMarker(directory.marker)' /\ SafeMarker(onDisk.marker)'
      BY <1>1, <1>4, <1>5 DEF DirectoryInv, WhatStands, SafeMarker
<1>7. DirectoryTypes' BY <1>1 DEF DirectoryInv, DirectoryTypes, Opening
<1>8. WhatStands' BY <1>1, <1>6 DEF WhatStands
<1> QED BY <1>1, <1>2, <1>3, <1>7, <1>8, ToOpening

\* Opening keeps of the images those the log that was read begins with: all
\* that its own frames are.
LEMMA SafeOpened ==
    ASSUME NEW marker, NEW names, NEW files, NEW kept, NEW images,
           Safe(marker, names, names, files, kept, images),
           NEW log, log = LogIn(marker, names, ContentsOf(files)),
           NEW opened, \A image \in images :
               image.first = log.first /\ IsPrefix(image.bodies, log.bodies) => image \in opened
    PROVE  Safe(marker, names, names, files, kept, opened)
<1>1. /\ log \in Logs /\ Len(log.bodies) \in Nat
      /\ \E n \in 0 .. Len(log.bodies) :
                    /\ Stood(marker, names, names, files, log, n)
                    /\ Covers(Cut(log, n), kept)
                    /\ \A k \in n .. Len(log.bodies) : Cut(log, k) \in images
      BY SafeReads
<1>2. PICK n \in 0 .. Len(log.bodies) :
                    /\ Stood(marker, names, names, files, log, n)
                    /\ Covers(Cut(log, n), kept)
                    /\ \A k \in n .. Len(log.bodies) : Cut(log, k) \in images
      BY <1>1
<1>3. ASSUME NEW k \in n .. Len(log.bodies) PROVE Cut(log, k) \in opened
  <2>1. k \in 0 .. Len(log.bodies) /\ k \in Nat /\ k <= Len(log.bodies) BY <1>1
  <2> DEFINE b == Cut(log, k).bodies
             x == SubSeq(b, 1, k)
             y == SubSeq(log.bodies, 1, k)
  <2>2. Cut(log, k).first = log.first /\ b = y /\ b \in Seq(Bodies) /\ Len(b) = k
        BY <1>1, <2>1, CutIs DEF Logs
  <2>3. x \in Seq(Bodies) /\ Len(x) = k /\ \A i \in 1 .. k : x[i] = b[i]
        BY <2>1, <2>2, SubSeqProperties
  <2> HIDE DEF b, x, y
  <2>4. x = b BY <2>2, <2>3, SeqEqual
  <2>5. IsPrefix(b, log.bodies) BY <2>1, <2>2, <2>4 DEF x, y, IsPrefix
  <2>6. IsPrefix(Cut(log, k).bodies, log.bodies) BY <2>5 DEF b
  <2>7. Cut(log, k) \in images BY <1>2
  <2> QED BY <2>2, <2>6, <2>7
<1> QED BY <1>1, <1>2, <1>3 DEF Safe

LEMMA SelectedIs ==
    ASSUME NEW d \in Directories, d.marker \in Markers
    PROVE  /\ Selected(d) \in Directories /\ Selected(d).marker = d.marker
           /\ Selected(d).staging = Nothing
           /\ Selected(d).names = {id \in d.names : id[1] = d.marker.generation}
           /\ Selected(d).names \subseteq Nat \X Nat
           /\ NoneYounger(Selected(d).names, d.marker.generation)
<1>1. /\ Selected(d) \in Directories /\ Selected(d).marker = d.marker
      /\ Selected(d).staging = Nothing
      /\ Selected(d).names = {id \in d.names : id[1] = d.marker.generation}
  <2> DEFINE n == {id \in d.names : id[1] = d.marker.generation}
  <2>1. n \in SUBSET (Nat \X Nat) BY DEF Directories
  <2>2. Selected(d) = [d EXCEPT !.names = n, !.staging = Nothing] BY DEF Selected
  <2> HIDE DEF n
  <2>3. Selected(d) = [marker |-> d.marker, names |-> n, staging |-> Nothing] BY <2>2 DEF Directories
  <2> QED BY <2>1, <2>3 DEF Directories, n
<1>2. Selected(d).names \subseteq Nat \X Nat BY <1>1 DEF Directories
<1>3. \A id \in Selected(d).names : id[1] <= d.marker.generation
  <2>1. d.marker.generation \in Nat BY DEF Markers
  <2> QED BY <1>1, <2>1
<1> QED BY <1>1, <1>2, <1>3 DEF NoneYounger

\* Removing what the marker does not select changes nothing for the marker.
LEMMA SelectedSafe ==
    ASSUME DirectoryInv, onDisk = directory, SafeMarker(directory.marker),
           directory' = Selected(directory), onDisk' = directory',
           segments' = Kept(directory'.names), NEW kept, NEW images,
           Safe(directory.marker, directory.names, directory.names, segments, kept, images)
    PROVE  /\ directory' \in Directories /\ directory'.marker = directory.marker
           /\ Safe(directory'.marker, directory'.names, onDisk'.names, segments', kept, images)
           /\ NoneYounger(directory.names, directory.marker.generation)'
           /\ Readout' = Readout
<1>1. directory \in Directories /\ directory.marker \in Markers
      BY SafeNotBare DEF DirectoryInv, DirectoryTypes, SafeMarker
<1>2. /\ directory' \in Directories /\ directory'.marker = directory.marker
      /\ directory'.names = {id \in directory.names : id[1] = directory.marker.generation}
      /\ directory'.names \subseteq Nat \X Nat
      /\ NoneYounger(directory.names, directory.marker.generation)'
      BY <1>1, SelectedIs
<1>3. /\ DOMAIN segments' = directory'.names
      /\ \A id \in directory'.names : segments'[id] = segments[id] BY DEF Kept
<1>4. Safe(directory.marker, directory'.names, directory'.names, segments', kept, images)
  <2> DEFINE m == directory.marker
             new == directory'.names
             files == segments'
  <2>1. \A id \in Nat \X Nat : id[1] = m.generation =>
              /\ id \in directory.names <=> id \in new
              /\ id \in directory.names => id \in DOMAIN files /\ files[id] = segments[id]
        BY <1>2, <1>3
  <2>2. new \subseteq Nat \X Nat /\ Safe(m, directory.names, directory.names, segments, kept, images)
        BY <1>2
  <2> HIDE DEF m, new, files
  <2>3. Safe(m, new, new, files, kept, images) BY <2>1, <2>2, SafeSame
  <2> QED BY <2>3 DEF m, new, files
<1>5. Readout' = Readout
  <2>1. PICK log \in Logs : \E n \in 0 .. Len(log.bodies) :
          Stood(directory.marker, directory.names, directory.names, segments, log, n)
        BY DEF Safe
  <2>2. PICK n : Stood(directory.marker, directory.names, directory.names, segments, log, n) BY <2>1
  <2>3. Readout = log BY <2>2, StoodContents DEF Readout, Frames, ContentsOf
  <2>4. Stood(directory.marker, directory'.names, directory'.names, segments', log, n)
    <3> DEFINE m == directory.marker
               new == directory'.names
               files == segments'
    <3>1. \A id \in Nat \X Nat : id[1] = m.generation =>
              /\ id \in directory.names <=> id \in new
              /\ id \in directory.names => id \in DOMAIN files /\ files[id] = segments[id]
          BY <1>2, <1>3
    <3>2. new \subseteq Nat \X Nat /\ Stood(m, directory.names, directory.names, segments, log, n)
          BY <1>2, <2>2
    <3> HIDE DEF m, new, files
    <3>3. Stood(m, new, new, files, log, n) BY <3>1, <3>2, StoodSame
    <3> QED BY <3>3 DEF m, new, files
  <2>5. LogIn(directory.marker, directory'.names, ContentsOf(segments')) = log
        BY <2>4, StoodContents
  <2>6. Readout' = log BY <1>2, <2>5 DEF Readout, Frames, ContentsOf
  <2> QED BY <2>3, <2>6
<1> QED BY <1>2, <1>4, <1>5

LEMMA CleanedUpKeeps == ASSUME DirectoryInv, CleanedUp PROVE DirectoryInv' /\ Readout' = Readout
<1>1. /\ doing = "cleaning" /\ doing' = "open"
      /\ directory' = Selected(directory) /\ onDisk' = directory'
      /\ segments' = Kept(directory'.names)
      /\ call' = call /\ captured' = captured /\ barrier' = barrier /\ settled' = settled
      /\ IF barrier = "SyncAll" THEN Opened(Readout) ELSE survivors' = survivors
      BY DEF CleanedUp, Unsettled, Opened
<1>2. call = Nothing /\ captured = Nothing BY <1>1 DEF DirectoryInv, CallsRun, Calling, Opening
<1>3. onDisk = directory /\ SafeMarker(directory.marker)
      BY <1>1 DEF DirectoryInv, DeviceFollows, WhatStands
<1>4. Safe(directory.marker, directory.names, directory.names, segments, settled, Images')
  <2>1. Safe(directory.marker, directory.names, directory.names, segments, settled, Images)
        BY <1>3 DEF SafeMarker
  <2>2. Readout = LogIn(directory.marker, directory.names, ContentsOf(segments))
        BY DEF Readout, Frames, ContentsOf
  <2>3. \A image \in Images : image.first = Readout.first /\ IsPrefix(image.bodies, Readout.bodies)
             => image \in Images'
        BY <1>1 DEF Images, Opened
  <2> QED BY <2>1, <2>2, <2>3, SafeOpened
<1>5. /\ directory' \in Directories /\ directory'.marker = directory.marker
      /\ Safe(directory'.marker, directory'.names, onDisk'.names, segments', settled, Images')
      /\ NoneYounger(directory.names, directory.marker.generation)'
      /\ Readout' = Readout
      BY <1>1, <1>3, <1>4, SelectedSafe
<1>6. DirectoryTypes' BY <1>1, <1>5 DEF DirectoryInv, DirectoryTypes, Steady
<1>7. SafeMarker(directory.marker)' BY <1>1, <1>5 DEF SafeMarker
<1>8. BoundaryFits' BY <1>1, <1>2 DEF BoundaryFits
<1> QED BY <1>1, <1>2, <1>5, <1>6, <1>7, <1>8, ToOpen

LEMMA PartlyIs ==
    ASSUME NEW d \in Directories, d.marker \in Markers, NEW e \in PartlyCleaned(d)
    PROVE  /\ e \in Directories /\ e.marker = d.marker
           /\ \A id \in d.names : id[1] = d.marker.generation => id \in e.names
           /\ e.names \subseteq d.names
<1>1. /\ e \in [marker : {d.marker}, names : SUBSET d.names, staging : {d.staging, Nothing}]
      /\ Selected(d).names \subseteq e.names BY DEF PartlyCleaned
<1>2. e \in Directories BY <1>1 DEF Directories
<1>3. \A id \in d.names : id[1] = d.marker.generation => id \in e.names BY <1>1, SelectedIs
<1> QED BY <1>1, <1>2, <1>3

\* ... nor removing some of it.
LEMMA PartlySafe ==
    ASSUME DirectoryInv, onDisk = directory, SafeMarker(directory.marker),
           directory' \in PartlyCleaned(directory), NEW kept, NEW images,
           Safe(directory.marker, directory.names, directory.names, segments, kept, images)
    PROVE  /\ directory' \in Directories /\ directory'.marker = directory.marker
           /\ Safe(directory.marker, directory'.names, directory.names, segments, kept, images)
           /\ \A f : LogIn(directory.marker, directory'.names, f) = LogIn(directory.marker, directory.names, f)
<1>1. directory \in Directories /\ directory.marker \in Markers
      /\ directory.names \subseteq Nat \X Nat
      BY SafeNotBare DEF DirectoryInv, DirectoryTypes, SafeMarker
<1>2. /\ directory' \in Directories /\ directory'.marker = directory.marker
      /\ \A id \in directory.names : id[1] = directory.marker.generation => id \in directory'.names
      /\ directory'.names \subseteq directory.names
      BY <1>1, PartlyIs
<1> DEFINE m == directory.marker
           new == directory'.names
<1>3. /\ \A id \in directory.names : id[1] = m.generation => id \in new
      /\ new \subseteq directory.names /\ new \subseteq Nat \X Nat BY <1>1, <1>2
<1>4. Safe(m, directory.names, directory.names, segments, kept, images) OBVIOUS
<1>5. \A id \in directory.names : id[1] = m.generation => id \in DOMAIN segments BY <1>4 DEF Safe, Stood
<1> HIDE DEF m, new
<1>6. Safe(m, new, directory.names, segments, kept, images) BY <1>1, <1>3, <1>4, <1>5, SafeSame
<1>7. Starts(new, m.generation) = Starts(directory.names, m.generation) BY <1>3 DEF Starts
<1>8. \A f : ChainOf(m, new, f) = ChainOf(m, directory.names, f) BY <1>7 DEF ChainOf
<1>9. \A f : LogIn(m, new, f) = LogIn(m, directory.names, f) BY <1>8 DEF LogIn
<1> QED BY <1>2, <1>6, <1>9 DEF m, new

LEMMA CleanupFailsKeeps ==
    ASSUME DirectoryInv, CleanupFails PROVE DirectoryInv' /\ Readout' = Readout
<1>1. /\ doing = "cleaning" /\ doing' = "closed"
      /\ directory' \in PartlyCleaned(directory) /\ onDisk' = onDisk /\ segments' = segments
      /\ call' = call /\ captured' = captured
      /\ barrier' = barrier /\ settled' = settled /\ survivors' = survivors
      BY DEF CleanupFails, Unsettled
<1>2. call = Nothing /\ captured = Nothing BY <1>1 DEF DirectoryInv, CallsRun, Calling, Opening
<1>3. onDisk = directory /\ SafeMarker(directory.marker)
      BY <1>1 DEF DirectoryInv, DeviceFollows, WhatStands
<1>4. Images' = Images BY <1>1 DEF Images
<1>5. Safe(directory.marker, directory.names, directory.names, segments, settled, Images)
      BY <1>3 DEF SafeMarker
<1>6. /\ directory' \in Directories /\ directory'.marker = directory.marker
      /\ Safe(directory.marker, directory'.names, directory.names, segments, settled, Images)
      /\ \A f : LogIn(directory.marker, directory'.names, f) = LogIn(directory.marker, directory.names, f)
      BY <1>1, <1>3, <1>5, PartlySafe
<1>7. SafeMarker(directory.marker)' /\ SafeMarker(onDisk.marker)'
      BY <1>1, <1>3, <1>4, <1>6 DEF SafeMarker
<1>8. DirectoryTypes' BY <1>1, <1>6 DEF DirectoryInv, DirectoryTypes, Opening
<1>9. WhatStands' BY <1>1, <1>7 DEF WhatStands
<1>10. Readout' = Readout BY <1>1, <1>6 DEF Readout, Frames
<1> QED BY <1>1, <1>2, <1>8, <1>9, <1>10, ToClosed

----------------------------------------------------------------------------
(* Appending and synchronizing *)

LEMMA ActiveIs ==
    ActiveId = <<directory.marker.generation, Max(Starts(directory.names, directory.marker.generation))>>
<1>1. DOMAIN Chain = Starts(directory.names, directory.marker.generation) BY DEF Chain, ChainOf
<1> QED BY <1>1 DEF ActiveId

LEMMA ReadoutIs == Readout = LogIn(directory.marker, directory.names, ContentsOf(segments))
BY DEF Readout, Frames, ContentsOf

LEMMA StoodFlushed ==
    ASSUME NEW marker, NEW names, NEW files, NEW log, NEW n,
           Stood(marker, names, names, files, log, n),
           NEW a, a = <<marker.generation, Max(Starts(names, marker.generation))>>,
           NEW after,
           \A id \in names : id[1] = marker.generation =>
               id \in DOMAIN after /\ (id # a => after[id] = files[id]),
           after[a].frames = files[a].frames, after[a].synced = Len(files[a].frames)
    PROVE  Stood(marker, names, names, after, log, Len(log.bodies))
<1> DEFINE none == <<>>
<1>1. none \in Seq(Bodies) /\ Len(none) = 0 OBVIOUS
<1>2. /\ files[a].frames \in Seq(Bodies) /\ Len(files[a].frames) \in Nat
      /\ Len(files[a].frames) <= SegmentFrames
      /\ files[a].synced \in 0 .. Len(files[a].frames)
      /\ log \in Logs /\ Len(log.bodies) \in Nat
      BY StoodActive
<1>3. files[a].frames \o none = files[a].frames BY <1>2
<1>4. Joined(log, none) = log BY <1>2, JoinedNone
<1> HIDE DEF none
<1>5. Len(files[a].frames) + Len(none) <= SegmentFrames BY <1>1, <1>2
<1>6. after[a].frames = files[a].frames \o none BY <1>3
<1>7. after[a].synced \in files[a].synced .. Len(after[a].frames) BY <1>2
<1>8. after[a].synced = Len(after[a].frames) OBVIOUS
<1>a. Stood(marker, names, names, files, log, n) OBVIOUS
<1>b. a = <<marker.generation, Max(Starts(names, marker.generation))>> OBVIOUS
<1>c. \A id \in names : id[1] = marker.generation => id \in DOMAIN after /\ (id # a => after[id] = files[id])
      OBVIOUS
<1>9. Stood(marker, names, names, after, Joined(log, none), Len(Joined(log, none).bodies))
      BY <1>1, <1>5, <1>6, <1>7, <1>8, <1>a, <1>b, <1>c, StoodGrows, ZenonT(60)
<1> QED BY <1>1, <1>2, <1>4, <1>9

\* The active segment synchronized.
ActiveFlushed(after) ==
    /\ DOMAIN after = DOMAIN segments
    /\ \A id \in DOMAIN segments : id # ActiveId => after[id] = segments[id]
    /\ after[ActiveId].frames = segments[ActiveId].frames
    /\ after[ActiveId].synced = Len(segments[ActiveId].frames)

LEMMA FlushedIs ==
    ASSUME ActiveId \in DOMAIN segments
    PROVE  ActiveFlushed([segments EXCEPT ![ActiveId] = Flushed(@)])
BY DEF ActiveFlushed, Flushed

\* The active segment synchronized: all of the log is on the device.
LEMMA FlushedStands ==
    ASSUME onDisk = directory, SafeMarker(directory.marker),
           NEW after, ActiveFlushed(after)
    PROVE  /\ Stood(directory.marker, directory.names, directory.names, after, Readout, Len(Readout.bodies))
           /\ LogIn(directory.marker, directory.names, ContentsOf(after)) = Readout
           /\ after[ActiveId].frames = Active /\ after[ActiveId].synced = Len(Active)
<1>1. /\ Readout \in Logs /\ Len(Readout.bodies) \in Nat
      /\ ActiveId = <<directory.marker.generation,
                      Max(Starts(directory.names, directory.marker.generation))>>
      /\ ActiveId \in DOMAIN segments
      /\ Active \in Seq(Bodies) /\ Len(Active) \in Nat /\ Len(Active) <= SegmentFrames
      /\ segments[ActiveId].synced \in 0 .. Len(Active)
      BY LiveSafe
<1>2. PICK n \in 0 .. Len(Readout.bodies) :
         Stood(directory.marker, directory.names, directory.names, segments, Readout, n) BY LiveSafe
<1>3. /\ DOMAIN after = DOMAIN segments
      /\ \A id \in DOMAIN segments : id # ActiveId => after[id] = segments[id]
      /\ after[ActiveId].frames = segments[ActiveId].frames
      /\ after[ActiveId].synced = Len(segments[ActiveId].frames) BY DEF ActiveFlushed
<1>4. Active = segments[ActiveId].frames BY DEF Active
<1> DEFINE m == directory.marker
           names == directory.names
           a == ActiveId
<1>5. \A id \in names : id[1] = m.generation => id \in DOMAIN after /\ (id # a => after[id] = segments[id])
      BY <1>2, <1>3 DEF Stood
<1>6. /\ after[a].frames = segments[a].frames /\ after[a].synced = Len(segments[a].frames)
      /\ Len(segments[a].frames) \in Nat
      BY <1>1, <1>3, <1>4
<1>8. Stood(m, names, names, segments, Readout, n)
      /\ a = <<m.generation, Max(Starts(names, m.generation))>> BY <1>1, <1>2
<1> HIDE DEF m, names, a
<1>10. Stood(m, names, names, after, Readout, Len(Readout.bodies)) BY <1>5, <1>6, <1>8, StoodFlushed
<1>11. LogIn(m, names, ContentsOf(after)) = Readout BY <1>10, StoodContents
<1> QED BY <1>3, <1>4, <1>10, <1>11 DEF m, names, a

\* ... and what it settles is safe.
LEMMA FlushedSafe ==
    ASSUME DirectoryInv, onDisk = directory, SafeMarker(directory.marker),
           directory' = directory, onDisk' = onDisk, barrier' = barrier,
           ActiveFlushed(segments'),
           Settle(Readout), doing' \notin {"published", "installing"}
    PROVE  /\ SafeMarker(directory.marker)' /\ Readout' = Readout /\ settled' \in Logs
           /\ ActiveId' = ActiveId /\ Active' = Active /\ ActiveClosed'
<1>1. /\ Stood(directory.marker, directory.names, directory.names, segments', Readout, Len(Readout.bodies))
      /\ LogIn(directory.marker, directory.names, ContentsOf(segments')) = Readout
      /\ segments'[ActiveId].frames = Active /\ segments'[ActiveId].synced = Len(Active)
      BY FlushedStands
<1>2. Readout \in Logs BY LiveSafe
<1>3. settled' = Readout BY DEF Settle
<1>4. Readout \in Images' BY <1>2 DEF Settle, Images
<1>5. Covers(Readout, Readout) BY <1>2, CoversItself
<1>6. Safe(directory.marker, directory.names, directory.names, segments', Readout, Images')
      BY <1>1, <1>2, <1>4, <1>5, SafeLog
<1>7. SafeMarker(directory.marker)' BY <1>3, <1>6 DEF SafeMarker
<1>8. Readout' = Readout BY <1>1 DEF Readout, Frames, ContentsOf
<1>9. ActiveId' = ActiveId
  <2>1. DOMAIN Chain' = DOMAIN Chain BY DEF Chain, ChainOf
  <2> QED BY <2>1 DEF ActiveId
<1>10. Active' = Active BY <1>1, <1>9 DEF Active
<1>11. ActiveClosed' BY <1>1, <1>9, <1>10 DEF ActiveClosed
<1> QED BY <1>2, <1>3, <1>7, <1>8, <1>9, <1>10, <1>11

\* The boundary that is captured stays one as long as the log it is of grows.
LEMMA BoundaryStays ==
    ASSUME DirectoryInv, doing \in Steady, captured' = captured, directory'.marker = directory.marker,
           doing' \in Steady, Readout' = Readout
    PROVE  BoundaryFits'
BY DEF DirectoryInv, BoundaryFits, Steady

LEMMA CloseSegmentKeeps == ASSUME DirectoryInv, CloseSegment PROVE DirectoryInv' /\ Readout' = Readout
<1>1. /\ doing = "open" /\ doing' = "rotating" /\ Active # <<>>
      /\ segments' = [segments EXCEPT ![ActiveId] = Flushed(@)] /\ Settle(Readout)
      /\ directory' = directory /\ onDisk' = onDisk
      /\ call' = call /\ captured' = captured /\ barrier' = barrier
      BY DEF CloseSegment
<1>2. call = Nothing BY <1>1 DEF DirectoryInv, CallsRun, Calling
<1>3. onDisk = directory /\ SafeMarker(directory.marker)
      BY <1>1 DEF DirectoryInv, DeviceFollows, WhatStands, Steady
<1>a. ActiveFlushed(segments') BY <1>1, <1>3, LiveSafe, FlushedIs
<1>4. /\ SafeMarker(directory.marker)' /\ Readout' = Readout /\ settled' \in Logs
      /\ ActiveId' = ActiveId /\ Active' = Active /\ ActiveClosed'
      BY <1>1, <1>3, <1>a, FlushedSafe
<1>5. DirectoryTypes' BY <1>1, <1>4 DEF DirectoryInv, DirectoryTypes, Steady
<1>6. WhatStands' BY <1>1, <1>3, <1>4 DEF WhatStands, SafeMarker
<1>7. DeviceFollows' BY <1>1, <1>3 DEF DeviceFollows
<1>8. CallsRun' BY <1>1, <1>2 DEF CallsRun, Calling, Opening
<1>9. Young' BY <1>1 DEF DirectoryInv, Young, Steady
<1>10. BoundaryFits' BY <1>1, <1>4, BoundaryStays DEF Steady
<1>11. RotationReady' BY <1>1, <1>4 DEF RotationReady
<1>12. WriteFits' /\ Staging' /\ StagedStands' /\ FlightStands'
       BY <1>1 DEF WriteFits, Staging, StagedStands, FlightStands, Cutting
<1> QED BY <1>4, <1>5, <1>6, <1>7, <1>8, <1>9, <1>10, <1>11, <1>12 DEF DirectoryInv

LEMMA SyncSegmentKeeps == ASSUME DirectoryInv, SyncSegment PROVE DirectoryInv' /\ Readout' = Readout
<1>1. /\ doing = "open" /\ doing' = doing
      /\ segments' = [segments EXCEPT ![ActiveId] = Flushed(@)] /\ Settle(Readout)
      /\ directory' = directory /\ onDisk' = onDisk
      /\ call' = call /\ captured' = captured /\ barrier' = barrier
      BY DEF SyncSegment
<1>2. call = Nothing BY <1>1 DEF DirectoryInv, CallsRun, Calling
<1>3. onDisk = directory /\ SafeMarker(directory.marker)
      BY <1>1 DEF DirectoryInv, DeviceFollows, WhatStands, Steady
<1>a. ActiveFlushed(segments') BY <1>1, <1>3, LiveSafe, FlushedIs
<1>4. SafeMarker(directory.marker)' /\ Readout' = Readout /\ settled' \in Logs
      BY <1>1, <1>3, <1>a, FlushedSafe
<1>5. DirectoryTypes' BY <1>1, <1>4 DEF DirectoryInv, DirectoryTypes
<1>6. BoundaryFits' BY <1>1, <1>4, BoundaryStays DEF Steady
<1>7. NoneYounger(directory.names, directory.marker.generation)'
      BY <1>1 DEF DirectoryInv, Young, Steady, NoneYounger
<1> QED BY <1>1, <1>2, <1>3, <1>4, <1>5, <1>6, <1>7, ToOpen

LEMMA CloseDirectoryKeeps == ASSUME DirectoryInv, CloseDirectory PROVE DirectoryInv' /\ Readout' = Readout
<1>1. /\ doing = "open" /\ doing' = "closed" /\ captured' = Nothing
      /\ segments' = [segments EXCEPT ![ActiveId] = Flushed(@)] /\ Settle(Readout)
      /\ directory' = directory /\ onDisk' = onDisk
      /\ call' = call /\ barrier' = barrier
      BY DEF CloseDirectory
<1>2. call = Nothing BY <1>1 DEF DirectoryInv, CallsRun, Calling
<1>3. onDisk = directory /\ SafeMarker(directory.marker)
      BY <1>1 DEF DirectoryInv, DeviceFollows, WhatStands, Steady
<1>a. ActiveFlushed(segments') BY <1>1, <1>3, LiveSafe, FlushedIs
<1>4. SafeMarker(directory.marker)' /\ Readout' = Readout /\ settled' \in Logs
      BY <1>1, <1>3, <1>a, FlushedSafe
<1>5. DirectoryTypes' BY <1>1, <1>4 DEF DirectoryInv, DirectoryTypes, Opening
<1>6. WhatStands' BY <1>1, <1>3, <1>4 DEF WhatStands, SafeMarker
<1> QED BY <1>1, <1>2, <1>4, <1>5, <1>6, ToClosed

LEMMA SyncSegmentFailsKeeps ==
    ASSUME DirectoryInv, SyncSegmentFails PROVE DirectoryInv' /\ Readout' = Readout
<1>1. /\ doing = "open" /\ doing' = "poisoned"
      /\ directory' = directory /\ onDisk' = onDisk /\ segments' = segments
      /\ call' = call /\ captured' = captured
      /\ barrier' = barrier /\ settled' = settled /\ survivors' = survivors
      BY DEF SyncSegmentFails, Unsettled
<1>2. call = Nothing BY <1>1 DEF DirectoryInv, CallsRun, Calling
<1>3. SafeMarker(directory.marker) /\ SafeMarker(onDisk.marker)
      BY <1>1 DEF DirectoryInv, WhatStands
<1>4. Images' = Images BY <1>1 DEF Images
<1>5. SafeMarker(directory.marker)' /\ SafeMarker(onDisk.marker)' BY <1>1, <1>3, <1>4 DEF SafeMarker
<1>6. DirectoryTypes' BY <1>1 DEF DirectoryInv, DirectoryTypes
<1>7. Readout' = Readout BY <1>1 DEF Readout, Frames
<1> QED BY <1>1, <1>2, <1>5, <1>6, <1>7, ToPoisoned

----------------------------------------------------------------------------
(* The next segment *)

\* What the writer reads has what was settled, and a power failure may leave it.
LEMMA ReadoutSafe ==
    ASSUME DirectoryInv, onDisk = directory, SafeMarker(directory.marker)
    PROVE  Covers(Readout, settled) /\ Readout \in Images
<1>1. Readout \in Logs /\ Len(Readout.bodies) \in Nat BY LiveSafe
<1>2. PICK n \in 0 .. Len(Readout.bodies) :
         /\ Covers(Cut(Readout, n), settled)
         /\ \A k \in n .. Len(Readout.bodies) : Cut(Readout, k) \in Images BY LiveSafe
<1> DEFINE k == Len(Readout.bodies)
<1>3. k \in 0 .. Len(Readout.bodies) /\ k \in n .. Len(Readout.bodies) /\ n \in 0 .. k BY <1>1
<1>4. Cut(Readout, k) = Readout BY <1>1, CutAll
<1>5. settled \in Logs BY DEF DirectoryInv, DirectoryTypes
<1> HIDE DEF k
<1>6. Covers(Cut(Readout, k), settled) BY <1>1, <1>2, <1>3, <1>5, CoversCut
<1> QED BY <1>2, <1>3, <1>4, <1>6

LEMMA WiderIs ==
    ASSUME NEW d \in Directories, NEW id \in Nat \X Nat,
           NEW e, e = [d EXCEPT !.names = @ \cup {id}]
    PROVE  /\ e \in Directories /\ e.marker = d.marker /\ e.staging = d.staging
           /\ e.names = d.names \cup {id}
<1> DEFINE n == d.names \cup {id}
<1>1. n \in SUBSET (Nat \X Nat) BY DEF Directories
<1>2. e = [d EXCEPT !.names = n] OBVIOUS
<1> HIDE DEF n
<1>3. e = [marker |-> d.marker, names |-> n, staging |-> d.staging] BY <1>2 DEF Directories
<1> QED BY <1>1, <1>3 DEF Directories, n

LEMMA NextIs ==
    ASSUME DirectoryInv, doing = "rotating"
    PROVE  /\ NextSegment \in Nat \X Nat
           /\ NextSegment = <<directory.marker.generation, Top(Readout)>>
<1>1. onDisk = directory /\ SafeMarker(directory.marker)
      BY DEF DirectoryInv, DeviceFollows, WhatStands, Steady
<1>2. Readout \in Logs /\ Len(Readout.bodies) \in Nat /\ Readout.first \in Nat
      /\ directory.marker \in Markers BY <1>1, LiveSafe
<1>3. LastLogged(Readout) + 1 = Top(Readout) /\ Top(Readout) \in Nat
  <2> DEFINE a == Readout.first
             b == Len(Readout.bodies)
  <2>1. LastLogged(Readout) = a + b - 1 /\ Top(Readout) = a + b /\ a \in Nat /\ b \in Nat
        BY <1>2 DEF LastLogged, Top
  <2> HIDE DEF a, b
  <2> QED BY <2>1
<1>4. directory.marker.generation \in Nat BY <1>2 DEF Markers
<1> QED BY <1>3, <1>4 DEF NextSegment

\* The new segment, of which the device may not have the name yet.
NextNamed ==
    /\ doing = "rotating" /\ doing' \in {"open", "poisoned"}
    /\ directory'.marker = directory.marker
    /\ directory'.names = directory.names \cup {NextSegment}
    /\ onDisk' \in {directory, directory'}
    /\ segments' = WithFile(segments, NextSegment, Empty)
    /\ barrier' = barrier /\ settled' = settled /\ survivors' = survivors

LEMMA NextSafe ==
    ASSUME DirectoryInv, NextNamed
    PROVE  /\ SafeMarker(directory.marker)' /\ SafeMarker(onDisk.marker)'
           /\ Readout' = Readout
           /\ NoneYounger(directory.names, directory.marker.generation)'
<1> DEFINE m == directory.marker
           names == directory.names
           next == NextSegment
           disk == onDisk'.names
           after == segments'
           a == ActiveId
<1>1. onDisk = directory /\ SafeMarker(directory.marker)
      BY DEF DirectoryInv, DeviceFollows, WhatStands, Steady, NextNamed
<1>2. /\ Readout \in Logs
      /\ ActiveId = <<m.generation, Max(Starts(names, m.generation))>>
      /\ Active \in Seq(Bodies)
      BY <1>1, LiveSafe
<1>3. PICK n \in 0 .. Len(Readout.bodies) : Stood(m, names, names, segments, Readout, n)
      BY <1>1, LiveSafe
<1>4. segments[a].frames # <<>> /\ segments[a].synced = Len(segments[a].frames)
      BY DEF DirectoryInv, RotationReady, ActiveClosed, Active, NextNamed
<1>5. next = <<m.generation, Top(Readout)>> BY NextIs DEF NextNamed
<1>6. disk \in {names, names \cup {next}} BY DEF NextNamed
<1>7. /\ next \in DOMAIN after /\ after[next] = Empty
      /\ DOMAIN after = DOMAIN segments \cup {next}
      /\ \A id \in DOMAIN segments : id # next => after[id] = segments[id]
      BY DEF WithFile, NextNamed
<1>8. next \notin names
  <2>1. names \subseteq Nat \X Nat BY <1>3 DEF Stood
  <2>2. SUFFICES ASSUME next \in names PROVE FALSE OBVIOUS
  <2>3. Top(Readout) \in Starts(names, m.generation) BY <1>5, <2>1, <2>2, StartsAre
  <2>4. Stands(SegmentsOf(m.generation, names, segments), Starts(names, m.generation), Readout)
    <3>1. names \cup names = names /\ names \cap names = names OBVIOUS
    <3> QED BY <1>3, <3>1 DEF Stood
  <2> DEFINE l == Max(Starts(names, m.generation))
  <2>5. DOMAIN SegmentsOf(m.generation, names, segments) = Starts(names, m.generation) BY DEF SegmentsOf
  <2>6. Top(Readout) <= l BY <2>3, <2>4, <2>5, LastStands
  <2>7. l + Len(segments[a].frames) = Top(Readout) /\ l \in Nat /\ Len(segments[a].frames) \in Nat
    <3>1. a = <<m.generation, l>> BY <1>2
    <3>2. /\ l + Len(segments[<<m.generation, l>>].frames) = Top(Readout) /\ l \in Nat
          /\ Len(segments[<<m.generation, l>>].frames) \in Nat
          BY <1>3, StoodActive
    <3> QED BY <3>1, <3>2
  <2>8. Len(segments[a].frames) # 0 BY <1>2, <1>4 DEF Active
  <2> HIDE DEF l
  <2> QED BY <2>6, <2>7, <2>8
<1>9. \A id \in names : id[1] = m.generation => id \in DOMAIN after /\ after[id] = segments[id]
      BY <1>3, <1>7, <1>8 DEF Stood
<1> HIDE DEF m, names, next, disk, after, a
<1>10. a = <<m.generation, Max(Starts(names, m.generation))>> BY <1>2 DEF a
<1>11. Follows(m, names, segments, Readout, n, a, next, disk, after)
       BY <1>3, <1>4, <1>5, <1>6, <1>7, <1>9, <1>10 DEF Follows
<1>a. Stood(m, names \cup {next}, disk, after, Readout, Len(Readout.bodies))
      /\ Stood(m, names \cup {next}, names \cup {next}, after, Readout, Len(Readout.bodies))
      BY <1>11, StoodFollows
<1>12. Covers(Readout, settled) /\ Readout \in Images BY <1>1, ReadoutSafe
<1>13. Images' = Images BY DEF Images, NextNamed
<1>14. Safe(m, names \cup {next}, disk, after, settled, Images')
       BY <1>2, <1>a, <1>12, <1>13, SafeLog
<1>15. SafeMarker(directory.marker)' /\ SafeMarker(onDisk.marker)'
       BY <1>14 DEF NextNamed, SafeMarker, m, names, next, disk, after
<1>17. LogIn(m, names \cup {next}, ContentsOf(after)) = Readout BY <1>a, StoodContents
<1>18. Readout' = Readout BY <1>17 DEF NextNamed, Readout, Frames, ContentsOf, m, names, next, after
<1>19. NoneYounger(names \cup {next}, m.generation)
  <2>1. NoneYounger(names, m.generation) BY DEF DirectoryInv, Young, Steady, NextNamed, m, names
  <2>2. m.generation \in Nat BY <1>3 DEF Stood, Markers
  <2> QED BY <1>5, <2>1, <2>2 DEF NoneYounger
<1> QED BY <1>15, <1>18, <1>19 DEF NextNamed, NoneYounger, m, names, next

LEMMA CreateSegmentKeeps ==
    ASSUME DirectoryInv, CreateSegment PROVE DirectoryInv' /\ Readout' = Readout
<1>1. /\ doing = "rotating" /\ doing' = "open"
      /\ directory' = [directory EXCEPT !.names = @ \cup {NextSegment}] /\ onDisk' = directory'
      /\ segments' = WithFile(segments, NextSegment, Empty)
      /\ call' = call /\ captured' = captured
      /\ barrier' = barrier /\ settled' = settled /\ survivors' = survivors
      BY DEF CreateSegment, Unsettled
<1>2. call = Nothing BY <1>1 DEF DirectoryInv, CallsRun, Calling
<1>3. directory' \in Directories /\ directory'.marker = directory.marker
      /\ directory'.names = directory.names \cup {NextSegment}
      BY <1>1, NextIs, WiderIs DEF DirectoryInv, DirectoryTypes
<1>4. /\ SafeMarker(directory.marker)' /\ SafeMarker(onDisk.marker)' /\ Readout' = Readout
      /\ NoneYounger(directory.names, directory.marker.generation)'
      BY <1>1, <1>3, NextSafe DEF NextNamed
<1>5. DirectoryTypes' BY <1>1, <1>3 DEF DirectoryInv, DirectoryTypes, Steady
<1>6. BoundaryFits' BY <1>1, <1>3, <1>4, BoundaryStays DEF Steady
<1> QED BY <1>1, <1>2, <1>4, <1>5, <1>6, ToOpen

LEMMA RotationFailsKeeps ==
    ASSUME DirectoryInv, RotationFails PROVE DirectoryInv' /\ Readout' = Readout
<1>1. /\ doing \in {"rotating", "open"} /\ doing' = "poisoned" /\ onDisk' = onDisk
      /\ call' = call /\ captured' = captured
      /\ barrier' = barrier /\ settled' = settled /\ survivors' = survivors
      /\ \/ directory' = directory /\ segments' = segments
         \/ /\ doing = "rotating" /\ directory' # directory
            /\ directory' = [directory EXCEPT !.names = @ \cup {NextSegment}]
            /\ segments' = WithFile(segments, NextSegment, Empty)
      BY DEF RotationFails, Unsettled
<1>2. call = Nothing BY <1>1 DEF DirectoryInv, CallsRun, Calling
<1>3. onDisk = directory /\ SafeMarker(directory.marker)
      BY <1>1 DEF DirectoryInv, DeviceFollows, WhatStands, Steady
<1>4. CASE directory' = directory /\ segments' = segments
  <2>1. Images' = Images BY <1>1 DEF Images
  <2>2. SafeMarker(directory.marker)' /\ SafeMarker(onDisk.marker)'
        BY <1>1, <1>3, <1>4, <2>1 DEF SafeMarker
  <2>3. DirectoryTypes' BY <1>1, <1>4 DEF DirectoryInv, DirectoryTypes
  <2>4. Readout' = Readout BY <1>4 DEF Readout, Frames
  <2> QED BY <1>1, <1>2, <1>4, <2>2, <2>3, <2>4, ToPoisoned
<1>5. CASE /\ doing = "rotating" /\ directory' = [directory EXCEPT !.names = @ \cup {NextSegment}]
           /\ segments' = WithFile(segments, NextSegment, Empty)
  <2>1. directory' \in Directories /\ directory'.marker = directory.marker
        /\ directory'.names = directory.names \cup {NextSegment}
        BY <1>5, NextIs, WiderIs DEF DirectoryInv, DirectoryTypes
  <2>2. SafeMarker(directory.marker)' /\ SafeMarker(onDisk.marker)' /\ Readout' = Readout
        BY <1>1, <1>3, <1>5, <2>1, NextSafe DEF NextNamed
  <2>3. DirectoryTypes' BY <1>1, <2>1 DEF DirectoryInv, DirectoryTypes
  <2> QED BY <1>1, <1>2, <2>1, <2>2, <2>3, ToPoisoned
<1> QED BY <1>1, <1>4, <1>5

----------------------------------------------------------------------------
(* Appending *)

LEMMA BatchesAre == \A batch \in SegmentBatches : batch \in Seq(SegmentBodies) /\ batch \in Seq(Bodies)
<1>1. ASSUME NEW b \in SegmentBodies
      PROVE  /\ <<b>> \in Seq(SegmentBodies) /\ <<b>> \in Seq(Bodies)
             /\ <<b, b>> \in Seq(SegmentBodies) /\ <<b, b>> \in Seq(Bodies)
  <2>1. b \in Bodies BY DEF Bodies
  <2> QED BY <2>1
<1> QED BY <1>1 DEF SegmentBatches

\* Nothing of the directory changes but what the process does.
LEMMA SafeStill ==
    ASSUME DirectoryInv, SafeMarker(directory.marker), SafeMarker(onDisk.marker),
           directory' = directory, onDisk' = onDisk, segments' = segments, settled' = settled,
           Images \subseteq Images'
    PROVE  /\ SafeMarker(directory.marker)' /\ SafeMarker(onDisk.marker)' /\ Readout' = Readout
<1>1. \A marker : SafeMarker(marker) => Safe(marker, directory.names, onDisk.names, segments, settled, Images')
      BY SafeMore DEF SafeMarker
<1>2. Readout' = Readout BY DEF Readout, Frames
<1>3. SafeMarker(directory.marker)' /\ SafeMarker(onDisk.marker)' BY <1>1 DEF SafeMarker
<1> QED BY <1>2, <1>3

LEMMA AppendFramesKeeps ==
    ASSUME DirectoryInv, NEW batch \in SegmentBatches, AppendFrames(batch)
    PROVE  DirectoryInv' /\ Readout' = Readout
<1>1. /\ doing = "open" /\ doing' = "writing"
      /\ Len(batch) <= SegmentFrames /\ (Active = <<>> \/ Len(Active) + Len(batch) <= SegmentFrames)
      /\ call' = [log |-> Readout, flight |-> [Readout EXCEPT !.bodies = @ \o batch],
                batch |-> batch, rest |-> <<>>, staged |-> Nothing]
      /\ directory' = directory /\ onDisk' = onDisk /\ segments' = segments
      /\ captured' = captured
      /\ barrier' = barrier /\ settled' = settled /\ survivors' = survivors
      BY DEF AppendFrames, Unsettled
<1>2. onDisk = directory /\ SafeMarker(directory.marker) /\ SafeMarker(onDisk.marker)
      BY <1>1 DEF DirectoryInv, DeviceFollows, WhatStands, Steady
<1>3. Readout \in Logs /\ Active \in Seq(Bodies) BY <1>2, LiveSafe
<1>4. batch \in Seq(Bodies) /\ Len(batch) \in Nat BY BatchesAre, LenProperties
<1>5. call'.flight = Joined(Readout, batch) /\ call'.log = Readout /\ call'.batch = batch
      BY <1>1 DEF Joined
<1>6. call' \in Calls
  <2>1. Joined(Readout, batch) \in Logs BY <1>3, <1>4, JoinedIs
  <2>2. <<>> \in Seq(Bodies) OBVIOUS
  <2>3. call' = [log |-> Readout, flight |-> Joined(Readout, batch),
                 batch |-> batch, rest |-> <<>>, staged |-> Nothing] BY <1>1 DEF Joined
  <2> QED BY <1>3, <1>4, <2>1, <2>2, <2>3 DEF Calls
<1>7. call' # Nothing BY <1>6, MarkersAre
<1>8. Images' = Images BY <1>1 DEF Images
<1>9. SafeMarker(directory.marker)' /\ SafeMarker(onDisk.marker)' /\ Readout' = Readout
      BY <1>1, <1>2, <1>8, SafeStill
<1>10. DirectoryTypes' BY <1>1, <1>6 DEF DirectoryInv, DirectoryTypes, Calling
<1>11. WhatStands' BY <1>1, <1>9 DEF WhatStands
<1>12. DeviceFollows' BY <1>1, <1>2 DEF DeviceFollows
<1>13. CallsRun' BY <1>1, <1>7 DEF CallsRun, Calling, Opening
<1>14. Young' BY <1>1 DEF DirectoryInv, Young, Steady
<1>15. BoundaryFits' BY <1>1, <1>9, BoundaryStays DEF Steady
<1>16. WriteFits'
  <2>1. Active' = Active BY <1>1 DEF Active, ActiveId, Chain, Frames
  <2>2. Len(Active) + Len(batch) <= SegmentFrames
    <3>1. CASE Active = <<>>
      <4>1. Len(Active) = 0 BY <3>1
      <4> QED BY <1>1, <1>4, <4>1
    <3> QED BY <1>1, <3>1
  <2> QED BY <1>5, <1>9, <2>1, <2>2 DEF WriteFits
<1>17. RotationReady' /\ Staging' /\ StagedStands' /\ FlightStands'
       BY <1>1 DEF RotationReady, Staging, StagedStands, FlightStands, Cutting
<1> QED BY <1>9, <1>10, <1>11, <1>12, <1>13, <1>14, <1>15, <1>16, <1>17 DEF DirectoryInv

\* A boundary of a log is one of what extends the log.
LEMMA BoundaryGrows ==
    ASSUME DirectoryInv, doing = "writing", doing' = "open", captured' = captured,
           directory'.marker = directory.marker, NEW more \in Seq(Bodies), Readout' = Joined(Readout, more)
    PROVE  BoundaryFits'
<1>1. onDisk = directory /\ SafeMarker(directory.marker)
      BY DEF DirectoryInv, DeviceFollows, WhatStands, Steady
<1>2. Readout \in Logs /\ Readout.first \in Nat /\ Len(Readout.bodies) \in Nat BY <1>1, LiveSafe
<1>3. Readout'.first = Readout.first /\ Len(Readout'.bodies) = Len(Readout.bodies) + Len(more)
      BY <1>2, JoinedIs
<1>4. LastLogged(Readout) <= LastLogged(Readout')
      /\ LastLogged(Readout) \in Int /\ LastLogged(Readout') \in Int
  <2> DEFINE a == Readout.first
             b == Len(Readout.bodies)
             c == Len(more)
  <2>1. a \in Nat /\ b \in Nat /\ c \in Nat BY <1>2, LenProperties
  <2>2. LastLogged(Readout) = a + b - 1 /\ LastLogged(Readout') = a + (b + c) - 1 BY <1>3 DEF LastLogged
  <2> HIDE DEF a, b, c
  <2> QED BY <2>1, <2>2
<1>5. captured # Nothing => captured.at \in Nat BY DEF DirectoryInv, DirectoryTypes, CutoverBoundaries
<1>6. captured # Nothing /\ captured.marker = directory.marker => captured.at <= LastLogged(Readout)
      BY DEF DirectoryInv, BoundaryFits, Steady
<1>7. captured # Nothing /\ captured.marker = directory.marker => captured.at <= LastLogged(Readout')
      BY <1>4, <1>5, <1>6
<1> QED BY <1>7 DEF DirectoryInv, BoundaryFits, Steady

\* What the writer reads once some of the batch is written.
LEMMA WrittenReads ==
    ASSUME DirectoryInv, doing = "writing", NEW n \in 0 .. Len(call.batch)
    PROVE  /\ LogIn(directory.marker, directory.names, ContentsOf(Written(n)))
                = Joined(Readout, SubSeq(call.batch, 1, n))
           /\ LogIn(directory.marker, directory.names, ContentsOf(Written(n)))
                \in Parts(call.log, call.flight)
<1> DEFINE more == SubSeq(call.batch, 1, n)
           new == Joined(Readout, more)
<1>1. /\ more \in Seq(Bodies) /\ Len(more) = n /\ call.batch \in Seq(Bodies)
      /\ call.flight = Joined(Readout, call.batch) /\ call.log = Readout
      /\ \E m \in 0 .. Len(Readout.bodies) :
           Stood(directory.marker, directory.names, directory.names, Written(n), new, m)
      BY WrittenStands
<1>2. onDisk = directory BY DEF DirectoryInv, DeviceFollows, Steady
<1>3. Readout \in Logs /\ Len(Readout.bodies) \in Nat BY <1>2, Live
<1>4. LogIn(directory.marker, directory.names, ContentsOf(Written(n))) = new BY <1>1, StoodContents
<1>5. new \in Logs /\ Len(new.bodies) = Len(Readout.bodies) + n BY <1>1, <1>3, JoinedIs
<1>6. n \in Nat BY <1>1, LenProperties
<1>7. new \in Parts(call.log, call.flight)
  <2> DEFINE k == Len(Readout.bodies) + n
  <2>1. k \in Len(Readout.bodies) .. Len(Readout.bodies) + n BY <1>3, <1>6
  <2>2. Cut(new, k) = new
    <3>1. Cut(new, Len(new.bodies)) = new BY <1>5, CutAll
    <3> QED BY <1>5, <3>1
  <2> HIDE DEF k
  <2>3. Cut(Joined(Readout, SubSeq(call.batch, 1, n)), k) \in Parts(Readout, Joined(Readout, call.batch))
        BY <1>1, <1>3, <2>1, PartOfBatch
  <2> QED BY <1>1, <2>2, <2>3
<1> QED BY <1>4, <1>7

LEMMA WholeBatch == ASSUME NEW batch \in Seq(Bodies) PROVE SubSeq(batch, 1, Len(batch)) = batch
<1> DEFINE b == SubSeq(batch, 1, Len(batch))
<1>1. Len(batch) \in Nat BY LenProperties
<1>2. b \in Seq(Bodies) /\ Len(b) = Len(batch) /\ \A i \in 1 .. Len(batch) : b[i] = batch[i]
      BY <1>1, SubSeqProperties
<1> HIDE DEF b
<1>3. b = batch BY <1>2, SeqEqual
<1> QED BY <1>3 DEF b

LEMMA AppendedKeeps ==
    ASSUME DirectoryInv, Appended
    PROVE  DirectoryInv' /\ Readout' = call.flight /\ call.flight \in Logs
<1> DEFINE n == Len(call.batch)
           written == Written(n)
           m == directory.marker
           names == directory.names
           flight == call.flight
           after == segments'
<1>1. /\ doing = "writing" /\ doing' = "open" /\ call' = Nothing
      /\ segments' = IF barrier = "SyncAll" THEN [written EXCEPT ![ActiveId] = Flushed(@)] ELSE written
      /\ IF barrier = "SyncAll" THEN Settle(flight) ELSE settled' = settled /\ survivors' = survivors
      /\ directory' = directory /\ onDisk' = onDisk /\ captured' = captured /\ barrier' = barrier
      BY DEF Appended, Unsettled
<1>2. onDisk = directory /\ SafeMarker(directory.marker)
      BY <1>1 DEF DirectoryInv, DeviceFollows, WhatStands, Steady
<1>3. Readout \in Logs /\ Len(Readout.bodies) \in Nat /\ ActiveId \in DOMAIN segments
      /\ ActiveId = <<m.generation, Max(Starts(names, m.generation))>>
      BY <1>2, LiveSafe
<1>4. n \in 0 .. Len(call.batch) /\ call.batch \in Seq(Bodies)
  <2>1. call # Nothing BY <1>1 DEF DirectoryInv, CallsRun, Calling
  <2>2. call.batch \in Seq(Bodies) BY <2>1 DEF DirectoryInv, DirectoryTypes, Calls
  <2>3. n \in Nat BY <2>2, LenProperties
  <2> QED BY <2>2, <2>3
<1>5. SubSeq(call.batch, 1, n) = call.batch BY <1>4, WholeBatch
<1>6. flight = Joined(Readout, call.batch) BY <1>1 DEF DirectoryInv, WriteFits
<1>7. flight \in Logs BY <1>3, <1>4, <1>6, JoinedIs
<1> HIDE DEF n, written
<1>8. /\ Joined(Readout, SubSeq(call.batch, 1, n)) = flight
      /\ DOMAIN written = DOMAIN segments
      BY <1>1, <1>4, <1>5, <1>6, WrittenStands DEF written
<1>9. PICK p \in 0 .. Len(Readout.bodies) :
          /\ Stood(m, names, names, written, flight, p)
          /\ Covers(Cut(flight, p), settled)
          /\ \A k \in p .. Len(flight.bodies) : Cut(flight, k)
                \in (IF barrier = "SyncAll" THEN survivors \cup Parts(call.log, call.flight) ELSE Logs)
  <2>1. \E p \in 0 .. Len(Readout.bodies) :
          /\ Stood(m, names, names, Written(n), Joined(Readout, SubSeq(call.batch, 1, n)), p)
          /\ Covers(Cut(Joined(Readout, SubSeq(call.batch, 1, n)), p), settled)
          /\ \A k \in p .. Len(Joined(Readout, SubSeq(call.batch, 1, n)).bodies) :
                Cut(Joined(Readout, SubSeq(call.batch, 1, n)), k)
                \in (IF barrier = "SyncAll" THEN survivors \cup Parts(call.log, call.flight) ELSE Logs)
        BY <1>1, <1>4, WrittenStands
  <2> QED BY <1>8, <2>1 DEF written
<1>10. p \in 0 .. Len(flight.bodies)
  <2> DEFINE a == Len(Readout.bodies)
             b == Len(call.batch)
  <2>1. Len(flight.bodies) = a + b
    <3>1. Len(Joined(Readout, call.batch).bodies) = Len(Readout.bodies) + Len(call.batch)
          BY <1>3, <1>4, JoinedIs
    <3> QED BY <1>6, <3>1
  <2>2. a \in Nat /\ b \in Nat /\ p \in 0 .. a BY <1>3, <1>4, LenProperties
  <2> HIDE DEF a, b, flight
  <2> QED BY <2>1, <2>2
<1>11. ASSUME barrier = "SyncAll"
       PROVE  SafeMarker(directory.marker)' /\ Readout' = flight /\ settled' \in Logs
  <2>1. after = [written EXCEPT ![ActiveId] = Flushed(@)] BY <1>1, <1>11
  <2>2. /\ DOMAIN after = DOMAIN written
        /\ \A id \in DOMAIN written : id # ActiveId => after[id] = written[id]
        /\ after[ActiveId] = Flushed(written[ActiveId]) BY <1>3, <1>8, <2>1
  <2> HIDE DEF after
  <2>3. after[ActiveId].frames = written[ActiveId].frames
        /\ after[ActiveId].synced = Len(written[ActiveId].frames) BY <2>2 DEF Flushed
  <2>4. \A id \in names : id[1] = m.generation => id \in DOMAIN after /\ (id # ActiveId => after[id] = written[id])
        BY <1>9, <2>2 DEF Stood
  <2> DEFINE a == ActiveId
  <2>5. a = <<m.generation, Max(Starts(names, m.generation))>> BY <1>3
  <2> HIDE DEF m, names, flight, a
  <2>6. Stood(m, names, names, after, flight, Len(flight.bodies))
        BY <1>9, <2>3, <2>4, <2>5, StoodFlushed DEF a
  <2>7. settled' = flight /\ flight \in Images' BY <1>1, <1>11 DEF Settle, Images, flight
  <2>8. Safe(m, names, names, after, settled', Images')
        BY <1>7, <2>6, <2>7, CoversItself, SafeLog
  <2>9. SafeMarker(directory.marker)' BY <1>1, <1>2, <2>8 DEF SafeMarker, m, names, after
  <2>10. LogIn(m, names, ContentsOf(after)) = flight BY <2>6, StoodContents
  <2>11. Readout' = flight BY <1>1, <2>10 DEF Readout, Frames, ContentsOf, m, names, after
  <2>12. settled' \in Logs BY <1>7, <2>7
  <2> QED BY <2>9, <2>11, <2>12 DEF flight
<1>12. ASSUME barrier # "SyncAll"
       PROVE  SafeMarker(directory.marker)' /\ Readout' = flight /\ settled' \in Logs
  <2>1. after = written /\ settled' = settled /\ barrier' = barrier BY <1>1, <1>12
  <2>2. Images' = Logs BY <1>12, <2>1 DEF Images
  <2> HIDE DEF m, names, flight, after
  <2>3. \A k \in p .. Len(flight.bodies) : Cut(flight, k) \in Images' BY <1>9, <1>12, <2>2
  <2>4. Safe(m, names, names, after, settled', Images')
        BY <1>7, <1>9, <1>10, <2>1, <2>3 DEF Safe
  <2>5. SafeMarker(directory.marker)' BY <1>1, <1>2, <2>4 DEF SafeMarker, m, names, after
  <2>6. LogIn(m, names, ContentsOf(after)) = flight BY <1>9, <2>1, StoodContents
  <2>7. Readout' = flight BY <1>1, <2>6 DEF Readout, Frames, ContentsOf, m, names, after
  <2>8. settled' \in Logs BY <2>1 DEF DirectoryInv, DirectoryTypes
  <2> QED BY <2>5, <2>7, <2>8 DEF flight
<1>13. SafeMarker(directory.marker)' /\ Readout' = flight /\ settled' \in Logs BY <1>11, <1>12
<1>14. DirectoryTypes' BY <1>1, <1>13 DEF DirectoryInv, DirectoryTypes, Steady
<1>15. BoundaryFits' BY <1>1, <1>4, <1>6, <1>13, BoundaryGrows
<1>16. NoneYounger(directory.names, directory.marker.generation)'
       BY <1>1 DEF DirectoryInv, Young, Steady, NoneYounger
<1>17. onDisk' = directory' BY <1>1, <1>2
<1> QED BY <1>1, <1>7, <1>13, <1>14, <1>15, <1>16, <1>17, ToOpen

LEMMA AppendRefusedKeeps ==
    ASSUME DirectoryInv, AppendRefused PROVE DirectoryInv' /\ Readout' = Readout
<1>1. /\ doing = "writing" /\ doing' = "open" /\ call' = Nothing
      /\ directory' = directory /\ onDisk' = onDisk /\ segments' = segments
      /\ captured' = captured
      /\ barrier' = barrier /\ settled' = settled /\ survivors' = survivors
      BY DEF AppendRefused, Unsettled
<1>2. onDisk = directory /\ SafeMarker(directory.marker) /\ SafeMarker(onDisk.marker)
      BY <1>1 DEF DirectoryInv, DeviceFollows, WhatStands, Steady
<1>3. Images' = Images BY <1>1 DEF Images
<1>4. SafeMarker(directory.marker)' /\ Readout' = Readout BY <1>1, <1>2, <1>3, SafeStill
<1>5. DirectoryTypes' BY <1>1 DEF DirectoryInv, DirectoryTypes, Steady
<1>6. BoundaryFits' BY <1>1, <1>4, BoundaryStays DEF Steady
<1>7. NoneYounger(directory.names, directory.marker.generation)'
      BY <1>1 DEF DirectoryInv, Young, Steady, NoneYounger
<1> QED BY <1>1, <1>2, <1>4, <1>5, <1>6, <1>7, ToOpen

----------------------------------------------------------------------------
(* Calls that end without an answer *)

\* While a call runs its old log is read, and once it is published its new one.
LEMMA CallReads ==
    ASSUME DirectoryInv, call # Nothing
    PROVE  /\ call \in Calls /\ call.log \in Logs /\ call.flight \in Logs
           /\ Readout \in {call.log, call.flight}
           /\ doing \in {"writing", "staging", "staged"} => Readout = call.log
           /\ doing \in {"published", "installing"} => Readout = call.flight
<1>1. call \in Calls /\ doing \in Calling BY DEF DirectoryInv, DirectoryTypes, CallsRun
<1>2. call.log \in Logs /\ call.flight \in Logs BY <1>1 DEF Calls
<1>3. doing \in {"writing", "staging", "staged"} => Readout = call.log
      BY DEF DirectoryInv, WriteFits, Staging
<1>4. doing \in {"published", "installing"} => Readout = call.flight
  <2>1. SUFFICES ASSUME doing \in {"published", "installing"} PROVE Readout = call.flight OBVIOUS
  <2>2. /\ Stood(NextMarker, directory.names, directory.names, segments,
                 call.flight, Len(call.flight.bodies))
        /\ directory.marker = NextMarker BY <2>1 DEF DirectoryInv, FlightStands
  <2>3. Stood(directory.marker, directory.names, directory.names, segments,
              call.flight, Len(call.flight.bodies)) BY <2>2
  <2> QED BY <2>3, ReadoutIs, StoodContents
<1> QED BY <1>1, <1>2, <1>3, <1>4 DEF Calling

\* What it leaves was counted among what a power failure may leave.
LEMMA UnfinishedImages ==
    ASSUME DirectoryInv, barrier' = barrier, doing' \notin {"published", "installing"},
           IF call # Nothing THEN Unfinished ELSE survivors' = survivors
    PROVE  CrashImages \subseteq Images'
BY DEF CrashImages, Images, Unfinished

LEMMA EndedSafe ==
    ASSUME DirectoryInv, ~Bare, barrier' = barrier, doing' \notin {"published", "installing"},
           IF call # Nothing THEN Unfinished ELSE survivors' = survivors,
           directory' = directory, onDisk' = onDisk, segments' \in MayBeWritten, settled' = settled
    PROVE  SafeMarker(directory.marker)' /\ SafeMarker(onDisk.marker)'
<1>1. CrashImages \subseteq Images' BY UnfinishedImages
<1> DEFINE files == segments'
<1>2. files \in MayBeWritten OBVIOUS
<1> HIDE DEF files
<1>3. \A marker \in {directory.marker, onDisk.marker} :
        Safe(marker, directory.names, onDisk.names, files, settled, CrashImages)
      BY <1>2, MayBeWrittenIsSafe
<1>4. \A marker \in {directory.marker, onDisk.marker} :
        Safe(marker, directory.names, onDisk.names, files, settled, Images')
      BY <1>1, <1>3, SafeMore
<1> QED BY <1>4 DEF SafeMarker, files

LEMMA AppendFailsKeeps ==
    ASSUME DirectoryInv, AppendFails
    PROVE  DirectoryInv' /\ Readout' \in Parts(call.log, call.flight)
<1>1. /\ doing = "writing" /\ doing' = "poisoned" /\ call' = Nothing
      /\ Unfinished /\ settled' = settled
      /\ directory' = directory /\ onDisk' = onDisk
      /\ captured' = captured /\ barrier' = barrier
      BY DEF AppendFails
<1>2. PICK n \in 0 .. Len(call.batch) : segments' = Written(n) BY DEF AppendFails
<1>3. call # Nothing BY <1>1 DEF DirectoryInv, CallsRun, Calling
<1>4. ~Bare
  <2>1. SafeMarker(directory.marker) BY <1>1 DEF DirectoryInv, WhatStands
  <2> QED BY <2>1, SafeNotBare DEF SafeMarker, Bare
<1>5. segments' \in MayBeWritten BY <1>1, <1>2 DEF MayBeWritten
<1>6. SafeMarker(directory.marker)' /\ SafeMarker(onDisk.marker)'
      BY <1>1, <1>3, <1>4, <1>5, EndedSafe
<1>7. DirectoryTypes' BY <1>1 DEF DirectoryInv, DirectoryTypes
<1>8. Readout' \in Parts(call.log, call.flight)
  <2>1. LogIn(directory.marker, directory.names, ContentsOf(segments')) \in Parts(call.log, call.flight)
        BY <1>1, <1>2, WrittenReads
  <2> QED BY <1>1, <2>1 DEF Readout, Frames, ContentsOf
<1> QED BY <1>1, <1>6, <1>7, <1>8, ToPoisoned

LEMMA WriterDiesKeeps ==
    ASSUME DirectoryInv, WriterDies
    PROVE  /\ DirectoryInv'
           /\ call = Nothing => Readout' = Readout
           /\ call # Nothing => Readout' \in Parts(call.log, call.flight)
<1>1. /\ doing # "closed" /\ doing' = "closed" /\ call' = Nothing /\ captured' = Nothing
      /\ IF call # Nothing THEN Unfinished ELSE survivors' = survivors
      /\ settled' = settled
      /\ directory' = directory /\ onDisk' = onDisk /\ barrier' = barrier
      /\ segments' \in MayBeWritten
      BY DEF WriterDies, Unsettled, MayBeWritten
<1>2. DirectoryTypes' BY <1>1 DEF DirectoryInv, DirectoryTypes, Opening
<1>3. CASE Bare
  <2>1. doing \in {"closed", "leased", "marking"}
    <3>1. ~SafeMarker(directory.marker) BY <1>3, SafeNotBare DEF SafeMarker, Bare
    <3> QED BY <3>1 DEF DirectoryInv, WhatStands
  <2>2. call = Nothing BY <2>1 DEF DirectoryInv, CallsRun, Calling
  <2>3. segments' = segments BY <1>1, <2>1 DEF MayBeWritten
  <2>4. FirstLog \in Images' BY <1>1, <1>3, <2>1, <2>2 DEF Bare, Images
  <2>5. WhatStands' BY <1>1, <1>3, <2>4 DEF Bare, WhatStands
  <2>6. Readout' = Readout BY <1>1, <2>3 DEF Readout, Frames
  <2> QED BY <1>1, <1>2, <2>2, <2>5, <2>6, ToClosed
<1>4. CASE ~Bare
  <2>1. SafeMarker(directory.marker)' /\ SafeMarker(onDisk.marker)' BY <1>1, <1>4, EndedSafe
  <2>2. WhatStands' BY <1>1, <2>1 DEF WhatStands
  <2>3. call = Nothing => Readout' = Readout
    <3>1. call = Nothing => doing # "writing" BY DEF DirectoryInv, CallsRun, Calling
    <3> QED BY <1>1, <3>1 DEF MayBeWritten, Readout, Frames
  <2>4. ASSUME call # Nothing PROVE Readout' \in Parts(call.log, call.flight)
    <3>1. CASE doing = "writing"
      <4>1. PICK n \in 0 .. Len(call.batch) : segments' = Written(n) BY <1>1, <3>1 DEF MayBeWritten
      <4>2. LogIn(directory.marker, directory.names, ContentsOf(segments')) \in Parts(call.log, call.flight)
            BY <3>1, <4>1, WrittenReads
      <4> QED BY <1>1, <4>2 DEF Readout, Frames, ContentsOf
    <3>2. CASE doing # "writing"
      <4>1. Readout' = Readout BY <1>1, <3>2 DEF MayBeWritten, Readout, Frames
      <4>2. Readout \in {call.log, call.flight} BY <2>4, CallReads
      <4> QED BY <4>1, <4>2 DEF Parts
    <3> QED BY <3>1, <3>2
  <2> QED BY <1>1, <1>2, <2>2, <2>3, <2>4, ToClosed
<1> QED BY <1>3, <1>4

LEMMA CrashDirectoriesAre ==
    ASSUME DirectoryInv, NEW d \in CrashDirectories
    PROVE  /\ d \in Directories
           /\ d.marker \in {directory.marker, onDisk.marker}
           /\ directory.names \cap onDisk.names \subseteq d.names
           /\ d.names \subseteq directory.names \cup onDisk.names
           /\ d.staging \in {directory.staging, onDisk.staging}
<1>1. /\ d.marker \in {directory.marker, onDisk.marker}
      /\ directory.names \cap onDisk.names \subseteq d.names
      /\ d.names \subseteq directory.names \cup onDisk.names
      /\ d.staging \in {directory.staging, onDisk.staging}
      /\ d = [marker |-> d.marker, names |-> d.names, staging |-> d.staging]
      BY DEF CrashDirectories
<1>2. /\ directory.marker \in Markers \cup {Nothing} /\ onDisk.marker \in Markers \cup {Nothing}
      /\ directory.names \subseteq Nat \X Nat /\ onDisk.names \subseteq Nat \X Nat
      /\ directory.staging \in (Nat \X Nat) \cup {Nothing}
      /\ onDisk.staging \in (Nat \X Nat) \cup {Nothing}
      BY DEF DirectoryInv, DirectoryTypes, Directories
<1>3. d.names \in SUBSET (Nat \X Nat) BY <1>1, <1>2
<1>4. d.marker \in Markers \cup {Nothing} /\ d.staging \in (Nat \X Nat) \cup {Nothing} BY <1>1, <1>2
<1>5. d \in Directories BY <1>1, <1>3, <1>4 DEF Directories
<1> QED BY <1>1, <1>5

LEMMA LosePowerKeeps ==
    ASSUME DirectoryInv, LosePowerOfDirectory
    PROVE  /\ DirectoryInv'
           /\ Readout' \in CrashImages
           /\ barrier = "SyncAll" => survivors' = {Readout'}
<1>1. PICK files \in MayBeWritten, d \in CrashDirectories :
        LET names == d.names \cup ({d.staging} \ {Nothing}) IN
        \E f \in CrashFiles(files, names) :
            /\ directory' = d /\ onDisk' = d
            /\ segments' = [id \in names |-> [frames |-> f[id], synced |-> Len(f[id])]]
            /\ doing' = "closed" /\ call' = Nothing /\ captured' = Nothing
            /\ survivors' = IF barrier = "SyncAll" THEN {LogIn(d.marker, d.names, f)} ELSE survivors
            /\ UNCHANGED <<barrier, settled>>
      BY DEF LosePowerOfDirectory
<1> DEFINE all == d.names \cup ({d.staging} \ {Nothing})
<1>2. PICK f \in CrashFiles(files, all) :
            /\ directory' = d /\ onDisk' = d
            /\ segments' = [id \in all |-> [frames |-> f[id], synced |-> Len(f[id])]]
            /\ doing' = "closed" /\ call' = Nothing /\ captured' = Nothing
            /\ survivors' = IF barrier = "SyncAll" THEN {LogIn(d.marker, d.names, f)} ELSE survivors
            /\ barrier' = barrier /\ settled' = settled
      BY <1>1
<1>3. /\ d \in Directories
      /\ d.marker \in {directory.marker, onDisk.marker}
      /\ directory.names \cap onDisk.names \subseteq d.names
      /\ d.names \subseteq directory.names \cup onDisk.names
      BY CrashDirectoriesAre
<1>4. d.names \subseteq all OBVIOUS
<1>5. DirectoryTypes' BY <1>2, <1>3 DEF DirectoryInv, DirectoryTypes, Opening
<1> DEFINE log == LogIn(d.marker, d.names, f)
           after == [id \in all |-> [frames |-> f[id], synced |-> Len(f[id])]]
<1> HIDE DEF all
<1>6. LogIn(d.marker, d.names, ContentsOf(after)) = log
  <2> DEFINE g == ContentsOf(after)
  <2>1. \A id \in d.names : g[id] = f[id] BY <1>4 DEF ContentsOf
  <2> HIDE DEF g
  <2>2. \A id \in Starts(d.names, d.marker.generation) : <<d.marker.generation, id>> \in d.names
        BY <1>3, StartsAre DEF Directories
  <2>3. ChainOf(d.marker, d.names, g) = ChainOf(d.marker, d.names, f) BY <2>1, <2>2 DEF ChainOf
  <2> QED BY <2>3 DEF LogIn, g
<1>7. Readout' = log BY <1>2, <1>6 DEF Readout, Frames, ContentsOf
<1>8. CASE Bare
  <2>1. d.names = {} /\ d.marker \in {Nothing, Torn, Marker(1, 1)} /\ log = FirstLog
        BY <1>8, BareCrash
  <2>2. FirstLog \in CrashImages BY <1>8, ImagesLast DEF Bare
  <2>3. FirstLog \in Images' BY <1>2, <1>8, <2>1, MarkersAre DEF Images
  <2>4. Bare' BY <1>2, <1>8, <2>1, <2>3 DEF Bare
  <2>5. WhatStands' BY <1>2, <2>4 DEF WhatStands
  <2> QED BY <1>2, <1>5, <1>7, <2>1, <2>2, <2>5, ToClosed
<1>9. CASE ~Bare
  <2>1. Safe(d.marker, directory.names, onDisk.names, files, settled, CrashImages)
        BY <1>3, <1>9, MayBeWrittenIsSafe
  <2>2. settled \in Logs BY DEF DirectoryInv, DirectoryTypes
  <2>3. /\ log \in Logs /\ log \in CrashImages /\ Covers(log, settled)
        /\ Stood(d.marker, d.names, d.names, after, log, Len(log.bodies))
        BY <1>3, <1>4, <2>1, <2>2, SafeSurvives, ZenonT(60)
  <2>4. log \in Images' BY <1>2, <2>3 DEF Images
  <2> HIDE DEF log, after
  <2>5. Safe(d.marker, d.names, d.names, after, settled, Images') BY <2>3, <2>4, SafeLog
  <2>6. SafeMarker(directory.marker)' /\ SafeMarker(onDisk.marker)'
        BY <1>2, <2>5 DEF SafeMarker, after
  <2>7. WhatStands' BY <1>2, <2>6 DEF WhatStands
  <2> QED BY <1>2, <1>5, <1>7, <2>3, <2>7, ToClosed DEF log
<1> QED BY <1>8, <1>9

----------------------------------------------------------------------------
(* Cutover: what is captured and begun *)

CapturedFits ==
    /\ captured' \in CutoverBoundaries
    /\ captured'.marker = directory.marker
    /\ directory.marker.first <= captured'.at
    /\ captured'.start + captured'.offset = captured'.at + 1
    /\ captured'.at = LastLogged(Readout)

LEMMA CapturedIs ==
    ASSUME DirectoryInv, CaptureCutover
    PROVE  CapturedFits
<1>1. PICK start \in DOMAIN Chain :
         /\ Chain[start] # <<>>
         /\ \A later \in DOMAIN Chain : start < later => Chain[later] = <<>>
         /\ captured' = [marker |-> directory.marker, start |-> start,
                         offset |-> Len(Chain[start]), at |-> LastLogged(Readout)]
      BY DEF CaptureCutover
<1>2. onDisk = directory /\ SafeMarker(directory.marker)
      BY DEF CaptureCutover, DirectoryInv, DeviceFollows, WhatStands, Steady
<1>3. /\ Readout \in Logs /\ Len(Readout.bodies) \in Nat /\ Readout.first \in Nat
      /\ Holds(Chain, Readout) /\ directory.marker \in Markers
      /\ directory.marker.first = Readout.first
      BY <1>2, LiveSafe
<1> DEFINE c == Chain
           log == Readout
<1>4. /\ Top(log) = log.first + Len(log.bodies) /\ LastLogged(log) = log.first + Len(log.bodies) - 1
      BY DEF Top, LastLogged
<1> HIDE DEF c, log
<1>5. /\ start \in DOMAIN c /\ Holds(c, log) /\ c[start] # <<>>
      /\ \A later \in DOMAIN c : start < later => c[later] = <<>> BY <1>1, <1>3 DEF c, log
<1>6. /\ \A s \in DOMAIN c : s \in Nat /\ c[s] \in Seq(Bodies) /\ Len(c[s]) \in Nat /\ EndOf(c, s) = s + Len(c[s])
      /\ Top(log) \in Nat /\ log.first \in Nat /\ Len(log.bodies) \in Nat
      BY <1>5, HoldsTypes
<1>7. Len(c[start]) # 0 BY <1>5, <1>6
<1>8. Fills(c, start, log) /\ log.first <= start BY <1>5 DEF Holds, Fills
<1>9. EndOf(c, start) = Top(log)
  <2>1. SUFFICES ASSUME EndOf(c, start) # Top(log) PROVE FALSE OBVIOUS
  <2> DEFINE e == EndOf(c, start)
  <2>2. start < e /\ e \in DOMAIN c BY <1>8, <2>1 DEF Fills
  <2>3. c[e] = <<>> BY <1>5, <2>2
  <2>4. e \in Nat /\ EndOf(c, e) = e
    <3>1. Len(c[e]) = 0 BY <2>3
    <3>2. e \in Nat /\ EndOf(c, e) = e + Len(c[e]) BY <1>6, <2>2
    <3> HIDE DEF e
    <3> QED BY <3>1, <3>2
  <2>5. Fills(c, e, log) BY <1>5, <2>2 DEF Holds
  <2> HIDE DEF e
  <2>6. EndOf(c, e) # Top(log) BY <2>1, <2>4 DEF e
  <2>7. e < EndOf(c, e) BY <2>5, <2>6 DEF Fills
  <2> QED BY <2>4, <2>7
<1>10. start + Len(c[start]) = Top(log) /\ start \in Nat /\ Len(c[start]) \in Nat
       /\ Len(c[start]) >= 1
       BY <1>5, <1>6, <1>7, <1>9
<1> DEFINE a == log.first
           b == Len(log.bodies)
           l == Len(c[start])
           at == LastLogged(log)
<1>11. at \in Nat /\ a <= at /\ start + l = at + 1
  <2>1. /\ start + l = a + b /\ at = a + b - 1 /\ a <= start
        /\ a \in Nat /\ b \in Nat /\ l \in Nat /\ l >= 1 /\ start \in Nat
        BY <1>4, <1>6, <1>8, <1>10
  <2> HIDE DEF a, b, l, at
  <2> QED BY <2>1
<1>12. captured' = [marker |-> directory.marker, start |-> start, offset |-> l, at |-> at]
       BY <1>1 DEF c, log
<1>13. directory.marker.first = a BY <1>3 DEF log
<1>14. start \in Nat /\ l \in Nat /\ at = LastLogged(Readout) BY <1>10 DEF log
<1> HIDE DEF a, l, at
<1>15. captured' \in CutoverBoundaries BY <1>3, <1>11, <1>12, <1>14 DEF CutoverBoundaries
<1> QED BY <1>11, <1>12, <1>13, <1>14, <1>15 DEF CapturedFits

LEMMA CaptureCutoverKeeps ==
    ASSUME DirectoryInv, CaptureCutover PROVE DirectoryInv' /\ Readout' = Readout
<1>1. /\ doing = "open" /\ doing' = doing
      /\ directory' = directory /\ onDisk' = onDisk /\ segments' = segments /\ call' = call
      /\ barrier' = barrier /\ settled' = settled /\ survivors' = survivors
      BY DEF CaptureCutover, Unsettled
<1>2. onDisk = directory /\ SafeMarker(directory.marker) /\ SafeMarker(onDisk.marker)
      BY <1>1 DEF DirectoryInv, DeviceFollows, WhatStands, Steady
<1>3. call = Nothing BY <1>1 DEF DirectoryInv, CallsRun, Calling
<1>4. Images' = Images BY <1>1 DEF Images
<1>5. SafeMarker(directory.marker)' /\ Readout' = Readout BY <1>1, <1>2, <1>4, SafeStill
<1>6. /\ captured' \in CutoverBoundaries
      /\ captured'.marker = directory.marker
      /\ directory.marker.first <= captured'.at
      /\ captured'.start + captured'.offset = captured'.at + 1
      /\ captured'.at = LastLogged(Readout) BY CapturedIs DEF CapturedFits
<1>7. DirectoryTypes' BY <1>1, <1>6 DEF DirectoryInv, DirectoryTypes
<1>8. directory.marker.generation \in Nat /\ captured'.at \in Nat
  <2>1. directory.marker \in Markers BY <1>2, LiveSafe
  <2> QED BY <1>6, <2>1 DEF Markers, CutoverBoundaries
<1>9. BoundaryFits' BY <1>1, <1>5, <1>6, <1>8 DEF BoundaryFits, Steady
<1>10. NoneYounger(directory.names, directory.marker.generation)'
      BY <1>1 DEF DirectoryInv, Young, Steady, NoneYounger
<1> QED BY <1>1, <1>2, <1>3, <1>5, <1>7, <1>9, <1>10, ToOpen

\* What is behind a boundary: a number of the log and all that follows.
Behind(log, at) == SubSeq(log.bodies, at - log.first + 2, Len(log.bodies))
NewLog(log, at) == [first |-> at, bodies |-> <<SegmentAnchor>> \o Behind(log, at)]

LEMMA BehindIs ==
    ASSUME NEW log \in Logs, NEW at \in Nat, log.first <= at, at <= LastLogged(log)
    PROVE  /\ Behind(log, at) \in Seq(Bodies)
           /\ NewLog(log, at) \in Logs /\ NewLog(log, at).first = at
           /\ NewLog(log, at).bodies = <<SegmentAnchor>> \o Behind(log, at)
           /\ LastLogged(NewLog(log, at)) = LastLogged(log)
           /\ NewLog(log, at).bodies # <<>> /\ NewLog(log, at).bodies[1] = SegmentAnchor
           /\ \A seq \in Nat : at < seq /\ seq <= LastLogged(log) =>
                 NewLog(log, at).bodies[seq - at + 1] = log.bodies[seq - log.first + 1]
<1> DEFINE f == log.first
           n == Len(log.bodies)
           m == at - f + 2
           b == Behind(log, at)
           one == <<SegmentAnchor>>
           all == one \o b
           new == NewLog(log, at)
<1>1. f \in Nat /\ log.bodies \in Seq(Bodies) /\ n \in Nat BY LenProperties DEF Logs
<1>2. LastLogged(log) = f + n - 1 BY DEF LastLogged
<1>3. m \in Int /\ 2 <= m /\ m <= n + 1
  <2>1. f <= at /\ at <= f + n - 1 BY <1>2
  <2> HIDE DEF f, n
  <2> QED BY <1>1, <2>1
<1>4. b = SubSeq(log.bodies, m, n) BY DEF Behind
<1> HIDE DEF m, n, f
<1>5. \A i \in m .. n : log.bodies[i] \in Bodies
  <2>1. \A i \in 1 .. n : log.bodies[i] \in Bodies BY <1>1 DEF n
  <2>2. \A i \in m .. n : i \in 1 .. n BY <1>1, <1>3
  <2> QED BY <2>1, <2>2
<1> DEFINE sub == SubSeq(log.bodies, m, n)
<1>6. /\ sub \in Seq(Bodies) /\ Len(sub) = IF m <= n THEN n - m + 1 ELSE 0
      /\ \A i \in 1 .. n - m + 1 : sub[i] = log.bodies[m + i - 1]
      BY <1>1, <1>3, <1>5, SubSeqProperties
<1> HIDE DEF b, sub
<1>7. /\ b \in Seq(Bodies) /\ Len(b) = n - m + 1
      /\ \A i \in 1 .. n - m + 1 : b[i] = log.bodies[m + i - 1]
  <2>1. b = sub BY <1>4 DEF sub
  <2>2. Len(b) = n - m + 1 BY <1>1, <1>3, <1>6, <2>1
  <2> QED BY <1>6, <2>1, <2>2
<1>8. one \in Seq(Bodies) /\ Len(one) = 1 /\ one[1] = SegmentAnchor BY DEF Bodies
<1> HIDE DEF one
<1>9. /\ all \in Seq(Bodies) /\ Len(all) = Len(b) + 1 /\ all[1] = SegmentAnchor
      /\ \A i \in 1 .. Len(b) : all[i + 1] = b[i]
  <2>1. Len(b) \in Nat BY <1>7, LenProperties
  <2>2. all \in Seq(Bodies) /\ Len(all) = Len(one) + Len(b)
        /\ \A i \in 1 .. Len(one) + Len(b) : all[i] = IF i <= Len(one) THEN one[i] ELSE b[i - Len(one)]
        BY <1>7, <1>8, ConcatProperties
  <2> HIDE DEF all
  <2>3. Len(all) = Len(b) + 1 BY <1>8, <2>1, <2>2
  <2>4. all[1] = SegmentAnchor BY <1>8, <2>1, <2>2
  <2>5. ASSUME NEW i \in 1 .. Len(b) PROVE all[i + 1] = b[i]
    <3>1. i + 1 \in 1 .. Len(one) + Len(b) /\ ~(i + 1 <= Len(one)) /\ i + 1 - Len(one) = i
          BY <1>8, <2>1
    <3> QED BY <2>2, <3>1
  <2> QED BY <2>2, <2>3, <2>4, <2>5
<1>10. new = [first |-> at, bodies |-> all] BY DEF NewLog, b, one
<1> HIDE DEF all, new
<1>11. new \in Logs /\ new.first = at /\ new.bodies = all BY <1>9, <1>10 DEF Logs
<1>12. LastLogged(new) = LastLogged(log)
  <2>1. LastLogged(new) = at + (Len(b) + 1) - 1 BY <1>9, <1>11 DEF LastLogged
  <2>2. m = at - f + 2 BY DEF m
  <2> QED BY <1>1, <1>2, <1>3, <1>7, <2>1, <2>2, SMTT(30)
<1>13. all # <<>>
  <2>1. Len(b) \in Nat BY <1>7, LenProperties
  <2>2. Len(all) # 0 BY <1>9, <2>1
  <2> QED BY <2>2
<1>14. ASSUME NEW seq \in Nat, at < seq, seq <= LastLogged(log)
       PROVE  all[seq - at + 1] = log.bodies[seq - f + 1]
  <2> DEFINE i == seq - at
  <2>1. m = at - f + 2 BY DEF m
  <2>2. i \in 1 .. n - m + 1 /\ m + i - 1 = seq - f + 1 BY <1>1, <1>2, <1>14, <2>1
  <2>3. all[i + 1] = b[i] BY <1>7, <1>9, <2>2
  <2>4. b[i] = log.bodies[m + i - 1] BY <1>7, <2>2
  <2> QED BY <2>2, <2>3, <2>4
<1>15. b = Behind(log, at) /\ all = <<SegmentAnchor>> \o Behind(log, at) BY DEF b, all, one
<1> QED BY <1>7, <1>9, <1>11, <1>12, <1>13, <1>14, <1>15 DEF new, f

LEMMA CoversNew ==
    ASSUME NEW log \in Logs, NEW kept \in Logs, Covers(log, kept),
           NEW at \in Nat, log.first <= at, at <= LastLogged(log)
    PROVE  Covers(NewLog(log, at), kept)
<1> DEFINE new == NewLog(log, at)
<1>1. /\ new.first = at /\ LastLogged(new) = LastLogged(log)
      /\ new.bodies # <<>> /\ new.bodies[1] = SegmentAnchor
      /\ \A seq \in Nat : at < seq /\ seq <= LastLogged(log) =>
                 new.bodies[seq - at + 1] = log.bodies[seq - log.first + 1]
      BY BehindIs
<1> HIDE DEF new
<1>2. ASSUME NEW seq \in kept.first .. LastLogged(kept)
      PROVE  \/ seq < new.first
             \/ seq = new.first /\ new.bodies # <<>> /\ new.bodies[1] = SegmentAnchor
             \/ seq <= LastLogged(new) /\ new.bodies[seq - new.first + 1] = kept.bodies[seq - kept.first + 1]
  <2>1. seq \in Nat /\ log.first \in Nat
    <3>1. kept.first \in Nat /\ log.first \in Nat BY DEF Logs
    <3>2. Len(kept.bodies) \in Nat BY LenProperties DEF Logs
    <3>3. LastLogged(kept) \in Int BY <3>1, <3>2 DEF LastLogged
    <3> QED BY <3>1, <3>3
  <2>2. CASE seq <= at BY <1>1, <2>1, <2>2
  <2>3. CASE at < seq
    <3>1. \/ seq < log.first
          \/ seq = log.first /\ log.bodies # <<>> /\ log.bodies[1] = SegmentAnchor
          \/ seq <= LastLogged(log) /\ log.bodies[seq - log.first + 1] = kept.bodies[seq - kept.first + 1]
          BY DEF Covers
    <3>2. seq <= LastLogged(log) /\ log.bodies[seq - log.first + 1] = kept.bodies[seq - kept.first + 1]
          BY <2>1, <2>3, <3>1
    <3> QED BY <1>1, <2>1, <2>3, <3>2
  <2> QED BY <2>1, <2>2, <2>3
<1>3. Covers(new, kept) BY <1>2 DEF Covers
<1> QED BY <1>3 DEF new

----------------------------------------------------------------------------
(* Cutover: the new generation is staged *)

\* Files of other generations come, and nothing of the selected one changes.
OldStays ==
    /\ directory'.marker = directory.marker /\ onDisk'.marker = directory.marker
    /\ directory'.names \subseteq Nat \X Nat /\ onDisk'.names \in {directory.names, directory'.names}
    /\ \A id \in Nat \X Nat : id[1] = directory.marker.generation =>
          /\ id \in directory.names <=> id \in directory'.names
          /\ id \in directory.names => id \in DOMAIN segments' /\ segments'[id] = segments[id]
    /\ settled' = settled /\ Images \subseteq Images'

LEMMA OldSafe ==
    ASSUME DirectoryInv, onDisk = directory, SafeMarker(directory.marker), OldStays
    PROVE  /\ SafeMarker(directory.marker)' /\ SafeMarker(onDisk.marker)'
           /\ Readout' = Readout /\ ActiveId' = ActiveId /\ Active' = Active
           /\ ActiveClosed => ActiveClosed'
<1> DEFINE m == directory.marker
           old == directory.names
           new == directory'.names
           disk == onDisk'.names
           files == segments'
<1>1. /\ new \subseteq Nat \X Nat /\ disk \in {old, new}
      /\ \A id \in Nat \X Nat : id[1] = m.generation =>
            /\ id \in old <=> id \in new
            /\ id \in old => id \in DOMAIN files /\ files[id] = segments[id]
      BY DEF OldStays
<1>2. old \subseteq Nat \X Nat /\ Readout \in Logs /\ m \in Markers BY LiveSafe
<1>3. PICK n \in 0 .. Len(Readout.bodies) : Stood(m, old, old, segments, Readout, n) BY LiveSafe
<1>4. Safe(m, old, old, segments, settled, Images) BY DEF SafeMarker
<1>5. Images \subseteq Images' BY DEF OldStays
<1>6. ActiveId = <<m.generation, Max(Starts(old, m.generation))>> /\ ActiveId \in old
      /\ ActiveId \in DOMAIN segments BY LiveSafe
<1> HIDE DEF m, old, new, disk, files
<1>7. disk \subseteq Nat \X Nat BY <1>1, <1>2
<1>8. \A id \in Nat \X Nat : id[1] = m.generation =>
              /\ id \in old <=> id \in new
              /\ id \in old <=> id \in disk
              /\ id \in old \cup old => id \in DOMAIN files /\ files[id] = segments[id]
      BY <1>1
<1>9. Safe(m, new, disk, files, settled, Images') BY <1>1, <1>4, <1>5, <1>7, <1>8, SafeSame
<1>10. Stood(m, new, new, files, Readout, n) BY <1>1, <1>3, <1>8, StoodSame
<1>11. LogIn(m, new, ContentsOf(files)) = Readout BY <1>10, StoodContents
<1>12. SafeMarker(directory.marker)' /\ SafeMarker(onDisk.marker)'
       BY <1>9 DEF OldStays, SafeMarker, m, new, disk, files
<1>13. Readout' = Readout BY <1>11 DEF OldStays, Readout, Frames, ContentsOf, m, new, files
<1>14. Starts(new, m.generation) = Starts(old, m.generation)
  <2>1. \A s : s \in Starts(new, m.generation) <=> s \in Nat /\ <<m.generation, s>> \in new BY <1>1, StartsAre
  <2>2. \A s : s \in Starts(old, m.generation) <=> s \in Nat /\ <<m.generation, s>> \in old BY <1>2, StartsAre
  <2>3. m.generation \in Nat BY <1>2 DEF Markers
  <2>4. \A s \in Nat : <<m.generation, s>> \in Nat \X Nat /\ <<m.generation, s>>[1] = m.generation BY <2>3
  <2> QED BY <1>1, <2>1, <2>2, <2>4
<1>15. ActiveId' = <<m.generation, Max(Starts(new, m.generation))>>
  <2>1. DOMAIN Chain' = Starts(new, m.generation) BY DEF OldStays, Chain, ChainOf, m, new
  <2> QED BY <2>1 DEF OldStays, ActiveId, m
<1>16. ActiveId' = ActiveId BY <1>6, <1>14, <1>15
<1>17. ActiveId \in Nat \X Nat /\ ActiveId[1] = m.generation BY <1>2, <1>6
<1>18. files[ActiveId] = segments[ActiveId] BY <1>1, <1>6, <1>17
<1>19. segments'[ActiveId'] = segments[ActiveId] BY <1>16, <1>18 DEF files
<1>20. Active' = Active BY <1>19 DEF Active
<1>21. ActiveClosed => ActiveClosed' BY <1>19, <1>20 DEF ActiveClosed
<1> QED BY <1>12, <1>13, <1>16, <1>20, <1>21

\* The boundary of a cutover that begins.
LEMMA CutIsBegun ==
    ASSUME DirectoryInv, captured # Nothing, BeginCutover(captured)
    PROVE  /\ captured \in CutoverBoundaries /\ captured.at \in Nat
           /\ captured.marker = directory.marker
           /\ Readout.first <= captured.at /\ captured.at <= LastLogged(Readout)
           /\ FramesBehind(captured) = Behind(Readout, captured.at)
<1> DEFINE b == captured
<1>1. onDisk = directory /\ SafeMarker(directory.marker) /\ doing = "open" /\ b.marker = directory.marker
      BY DEF BeginCutover, DirectoryInv, DeviceFollows, WhatStands, Steady
<1>2. /\ b \in CutoverBoundaries /\ b.marker.first <= b.at
      /\ b.start + b.offset = b.at + 1 /\ b.at <= LastLogged(Readout)
      BY <1>1 DEF DirectoryInv, DirectoryTypes, BoundaryFits, Steady
<1>3. directory.marker.first = Readout.first /\ Readout.first \in Nat BY <1>1, LiveSafe
<1>4. b.at \in Nat /\ b.start \in Nat /\ b.offset \in Nat BY <1>2 DEF CutoverBoundaries
<1>5. b.start + b.offset - b.marker.first + 1 = b.at - Readout.first + 2
  <2> DEFINE f == Readout.first
             at == b.at
             s == b.start
             o == b.offset
  <2>1. f \in Nat /\ at \in Nat /\ s \in Nat /\ o \in Nat /\ s + o = at + 1 /\ b.marker.first = f
        BY <1>1, <1>2, <1>3, <1>4
  <2> HIDE DEF f, at, s, o
  <2>2. s + o - f + 1 = at - f + 2 BY <2>1
  <2> QED BY <2>1, <2>2 DEF f, at, s, o
<1>6. FramesBehind(b) = Behind(Readout, b.at) BY <1>5 DEF FramesBehind, Behind
<1> QED BY <1>1, <1>2, <1>3, <1>4, <1>6

LEMMA StagingIs ==
    ASSUME NEW d \in Directories, NEW id \in (Nat \X Nat) \cup {Nothing}, NEW e, e = [d EXCEPT !.staging = id]
    PROVE  e \in Directories /\ e.marker = d.marker /\ e.names = d.names /\ e.staging = id
<1>1. e = [marker |-> d.marker, names |-> d.names, staging |-> id] BY DEF Directories
<1> QED BY <1>1 DEF Directories

LEMMA BeginCutoverKeeps ==
    ASSUME DirectoryInv, captured # Nothing, BeginCutover(captured)
    PROVE  /\ DirectoryInv' /\ Readout' = Readout
           /\ call'.log = Readout /\ call'.flight = NewLog(Readout, captured.at)
           /\ captured.at \in Readout.first .. LastLogged(Readout)
<1> DEFINE b == captured
           g == directory.marker.generation
           id == <<g + 1, b.at>>
           first == [first |-> b.at, bodies |-> <<SegmentAnchor>>]
           rest == Behind(Readout, b.at)
           flight == NewLog(Readout, b.at)
<1>1. /\ doing = "open" /\ doing' = "staging"
      /\ captured' = captured /\ barrier' = barrier /\ settled' = settled /\ survivors' = survivors
      /\ b.marker = directory.marker
      BY DEF BeginCutover, Unsettled
<1>2. /\ b \in CutoverBoundaries /\ b.at \in Nat
      /\ Readout.first <= b.at /\ b.at <= LastLogged(Readout)
      /\ FramesBehind(b) = rest
      BY CutIsBegun
<1>3. /\ call' = [log |-> Readout, flight |-> flight, batch |-> <<>>, rest |-> rest, staged |-> id]
      /\ segments' = WithFile(segments, id, [frames |-> <<SegmentAnchor>>, synced |-> 0])
      /\ directory' = [directory EXCEPT !.staging = id] /\ onDisk' = directory'
      /\ ActiveClosed
      BY <1>1, <1>2 DEF BeginCutover, NewLog, ActiveClosed
<1>4. onDisk = directory /\ SafeMarker(directory.marker)
      BY <1>1 DEF DirectoryInv, DeviceFollows, WhatStands, Steady
<1>5. Readout \in Logs /\ directory.marker \in Markers /\ directory.names \subseteq Nat \X Nat
      /\ Readout.first \in Nat BY <1>4, LiveSafe
<1>6. g \in Nat /\ g + 1 \in Nat BY <1>5 DEF Markers
<1>7. id \in Nat \X Nat /\ id[1] = g + 1 /\ id[2] = b.at BY <1>2, <1>6
<1>8. /\ directory' \in Directories /\ directory'.marker = directory.marker
      /\ directory'.names = directory.names /\ directory'.staging = id
      BY <1>3, <1>7, StagingIs DEF DirectoryInv, DirectoryTypes
<1>9. /\ rest \in Seq(Bodies) /\ flight \in Logs /\ flight.first = b.at
      /\ flight.bodies = <<SegmentAnchor>> \o rest
      BY <1>2, <1>5, BehindIs
<1> HIDE DEF rest, flight
<1>10. /\ call' \in Calls /\ call' # Nothing /\ call'.log = Readout /\ call'.flight = flight
       /\ call'.rest = rest /\ call'.staged = id
  <2>1. <<>> \in Seq(Bodies) OBVIOUS
  <2> HIDE DEF id
  <2>2. call' \in Calls BY <1>3, <1>5, <1>7, <1>9, <2>1 DEF Calls
  <2> QED BY <1>3, <2>2, MarkersAre
<1> HIDE DEF id
<1>11. /\ id \in DOMAIN segments' /\ DOMAIN segments' = DOMAIN segments \cup {id}
       /\ segments'[id] = [frames |-> <<SegmentAnchor>>, synced |-> 0]
       /\ \A i \in DOMAIN segments : i # id => segments'[i] = segments[i]
       BY <1>3 DEF WithFile
<1>12. NoneYounger(directory.names, g) BY <1>1 DEF DirectoryInv, Young, Steady
<1>13. \A i \in directory.names : i[1] # g + 1
  <2>1. \A i \in directory.names : i[1] \in Nat /\ i[1] <= g BY <1>5, <1>12 DEF NoneYounger
  <2> HIDE DEF g
  <2> QED BY <1>6, <2>1
<1>14. Images' = Images BY <1>1 DEF Images
<1>15. OldStays
  <2>1. \A i \in directory.names : i[1] = g => i \in DOMAIN segments
    <3>1. PICK n \in 0 .. Len(Readout.bodies) :
             Stood(directory.marker, directory.names, directory.names, segments, Readout, n) BY <1>4, LiveSafe
    <3> QED BY <3>1 DEF Stood
  <2>2. g # g + 1
    <3> HIDE DEF g
    <3> QED BY <1>6
  <2>3. \A i \in directory.names : i[1] = g => i # id BY <1>7, <2>2
  <2> HIDE DEF g
  <2>4. \A i \in Nat \X Nat : i[1] = g =>
          /\ i \in directory.names <=> i \in directory'.names
          /\ i \in directory.names => i \in DOMAIN segments' /\ segments'[i] = segments[i]
        BY <1>8, <1>11, <2>1, <2>3
  <2> QED BY <1>1, <1>3, <1>5, <1>8, <1>14, <2>4 DEF OldStays, g
<1>16. /\ SafeMarker(directory.marker)' /\ SafeMarker(onDisk.marker)'
       /\ Readout' = Readout /\ ActiveClosed'
       BY <1>3, <1>4, <1>15, OldSafe
<1>17. DirectoryTypes' BY <1>1, <1>3, <1>8, <1>10 DEF DirectoryInv, DirectoryTypes, Calling
<1>18. WhatStands' BY <1>1, <1>16 DEF WhatStands
<1>19. DeviceFollows' BY <1>1, <1>3 DEF DeviceFollows
<1>20. CallsRun' BY <1>1, <1>10 DEF CallsRun, Calling, Opening
<1>21. Young'
  <2>1. NoneYounger(directory.names, g + 1)
    <3>1. \A i \in directory.names : i[1] \in Nat /\ i[1] <= g BY <1>5, <1>12 DEF NoneYounger
    <3> HIDE DEF g
    <3> QED BY <1>6, <3>1 DEF NoneYounger
  <2> QED BY <1>1, <1>8, <2>1 DEF Young, Steady, NoneYounger
<1>22. BoundaryFits' BY <1>1, <1>8 DEF DirectoryInv, BoundaryFits, Steady
<1>23. RotationReady' /\ WriteFits' BY <1>1 DEF RotationReady, WriteFits
<1>24. Staging' BY <1>1, <1>7, <1>8, <1>10, <1>16 DEF Staging
<1>25. StagedStands'
  <2> DEFINE m == NextMarker'
             names == StagedNames'
             files == segments'
  <2>1. m = Marker(g + 1, b.at) BY <1>7, <1>9, <1>10 DEF NextMarker
  <2>2. m \in Markers /\ m.generation = g + 1 /\ m.first = b.at /\ Readable(m)
    <3>1. m.generation = g + 1 /\ m.first = b.at BY <2>1 DEF Marker
    <3>2. m \in Markers
      <4> HIDE DEF g, b
      <4> QED BY <1>2, <1>6, <2>1 DEF Marker, Markers
    <3>3. Torn.generation = 0 BY DEF Torn, Marker
    <3>4. g + 1 # 0
      <4> HIDE DEF g
      <4> QED BY <1>6
    <3>5. m # Nothing /\ m # Torn BY <3>1, <3>2, <3>3, <3>4, MarkersAre
    <3> QED BY <3>1, <3>2, <3>5 DEF Readable
  <2>3. names = directory.names \cup {id}
    <3>1. id # Nothing BY <1>7, MarkersAre
    <3> QED BY <1>8, <3>1 DEF StagedNames
  <2>4. first \in Logs /\ first.first = b.at /\ first.bodies = <<SegmentAnchor>> /\ Len(first.bodies) = 1
    <3>1. <<SegmentAnchor>> \in Seq(Bodies) BY DEF Bodies
    <3> HIDE DEF b
    <3> QED BY <1>2, <3>1 DEF Logs
  <2>5. SegmentFrames \in Nat /\ Len(first.bodies) <= SegmentFrames BY <2>4, SegmentAssumption
  <2>6. names \subseteq Nat \X Nat BY <1>5, <1>7, <2>3
  <2>7. \A i \in names : i[1] = m.generation => i = id BY <1>13, <2>2, <2>3
  <2>8. id = <<m.generation, m.first>> BY <2>2 DEF id
  <2>9. id \in names /\ id \in DOMAIN files /\ files[id].frames = first.bodies
        /\ files[id].synced = 0 /\ files[id].synced \in 0 .. Len(first.bodies)
        BY <1>11, <2>3, <2>4
  <2>10. first.first = m.first BY <2>2, <2>4
  <2>11. flight = Joined(first, rest)
    <3>1. Joined(first, rest) = [first |-> b.at, bodies |-> <<SegmentAnchor>> \o rest] BY SMTT(30) DEF Joined
    <3> QED BY <3>1 DEF flight, rest, NewLog
  <2> HIDE DEF m, names, files, first
  <2>12. /\ Stood(m, names, names, files, first, files[id].synced)
         /\ IsLast(m.first, names, m.generation)
         BY <2>2, <2>4, <2>5, <2>6, <2>7, <2>8, <2>9, <2>10, StoodFirst
  <2>13. Stood(m, names, names, files, first, 0) /\ IsLast(id[2], names, id[1])
         BY <1>7, <2>2, <2>9, <2>12
  <2>14. PICK log \in Logs : log = first BY <2>4
  <2>15. StagedLog(log)' BY <1>10, <2>11, <2>13, <2>14 DEF StagedLog, m, names, files
  <2> QED BY <2>15 DEF StagedStands
<1>26. FlightStands'
  <2>1. Covers(Readout, settled) BY <1>4, ReadoutSafe
  <2>2. settled \in Logs BY DEF DirectoryInv, DirectoryTypes
  <2>3. Covers(flight, settled) BY <1>2, <1>5, <2>1, <2>2, CoversNew DEF flight
  <2>4. Covers(call'.flight, settled') BY <1>1, <1>10, <2>3
  <2> QED BY <1>1, <2>4 DEF FlightStands, Covers
<1>27. DirectoryInv'
       BY <1>17, <1>18, <1>19, <1>20, <1>21, <1>22, <1>23, <1>24, <1>25, <1>26 DEF DirectoryInv
<1>28. b.at \in Readout.first .. LastLogged(Readout)
  <2>1. LastLogged(Readout) \in Int
    <3>1. Len(Readout.bodies) \in Nat BY <1>4, LiveSafe
    <3> QED BY <1>5, <3>1 DEF LastLogged
  <2> QED BY <1>2, <1>5, <2>1
<1> QED BY <1>10, <1>16, <1>27, <1>28 DEF flight

----------------------------------------------------------------------------
(* Cutover: the frames of the new generation *)

\* The staged segments hold a log, and this is the last of them.
Ends(marker, names, files, log, a) ==
    /\ Stood(marker, names, names, files, log, 0)
    /\ a = <<marker.generation, Max(Starts(names, marker.generation))>>

LEMMA StoodLess ==
    ASSUME NEW marker, NEW names, NEW files, NEW log, NEW n,
           Stood(marker, names, names, files, log, n)
    PROVE  Stood(marker, names, names, files, log, 0)
<1> DEFINE segs == SegmentsOf(marker.generation, names \cup names, files)
           last == Max(DOMAIN segs)
           end == last + segs[last].synced
           first == log.first
           size == Len(log.bodies)
<1>1. DurableTo(segs, log, n) /\ Stands(segs, Starts(names \cap names, marker.generation), log) BY DEF Stood
<1>2. first \in Nat /\ size \in Nat BY <1>1, StandsTypes
<1>3. last \in DOMAIN segs BY <1>1, LastStands
<1>4. last \in Nat /\ segs[last].synced \in Nat BY <1>1, <1>3, StandsTypes
<1>5. n \in 0 .. size /\ first + n <= end BY <1>1 DEF DurableTo
<1>6. end \in Nat BY <1>4
<1> HIDE DEF first, size, end, last
<1>7. 0 \in 0 .. size /\ first + 0 <= end BY <1>2, <1>5, <1>6
<1> HIDE DEF segs
<1>8. DurableTo(segs, log, 0) BY <1>7 DEF DurableTo, first, size, end, last
<1> QED BY <1>8 DEF Stood, segs

LEMMA JoinedHead ==
    ASSUME NEW log \in Logs, NEW rest \in Seq(Bodies), rest # <<>>
    PROVE  /\ Head(rest) \in Bodies /\ Tail(rest) \in Seq(Bodies)
           /\ Joined(log, rest) = Joined(Joined(log, <<Head(rest)>>), Tail(rest))
<1> DEFINE h == Head(rest)
           t == Tail(rest)
           one == <<h>>
<1>1. /\ h \in Bodies /\ t \in Seq(Bodies) /\ Len(t) = Len(rest) - 1
      /\ \A i \in 1 .. Len(t) : t[i] = rest[i + 1] BY HeadTailProperties
<1>2. h = rest[1] /\ Len(rest) \in Nat /\ Len(rest) # 0 OBVIOUS
<1> HIDE DEF h, t
<1>3. one \in Seq(Bodies) /\ Len(one) = 1 /\ one[1] = h BY <1>1
<1> HIDE DEF one
<1> DEFINE both == one \o t
<1>a. one \in Seq(Bodies) /\ t \in Seq(Bodies) BY <1>1, <1>3
<1>b. /\ both \in Seq(Bodies) /\ Len(both) = Len(one) + Len(t)
      /\ \A i \in 1 .. Len(one) + Len(t) : both[i] = IF i <= Len(one) THEN one[i] ELSE t[i - Len(one)]
      BY <1>a, ConcatProperties
<1>4. /\ both \in Seq(Bodies) /\ Len(both) = 1 + Len(t)
      /\ \A i \in 1 .. 1 + Len(t) : both[i] = IF i <= 1 THEN one[i] ELSE t[i - 1]
  <2> HIDE DEF both
  <2> QED BY <1>3, <1>b
<1> HIDE DEF both
<1>5. rest = both
  <2>1. Len(both) = Len(rest) BY <1>1, <1>2, <1>4
  <2>2. ASSUME NEW i \in 1 .. Len(rest) PROVE both[i] = rest[i]
    <3>1. CASE i = 1 BY <1>1, <1>2, <1>3, <1>4, <3>1
    <3>2. CASE i # 1
      <4>1. i - 1 \in 1 .. Len(t) /\ i \in 1 .. 1 + Len(t) /\ ~(i <= 1) BY <1>1, <1>2, <3>2
      <4>2. both[i] = t[i - 1] /\ t[i - 1] = rest[(i - 1) + 1] BY <1>1, <1>4, <4>1
      <4>3. (i - 1) + 1 = i BY <1>2
      <4> QED BY <4>2, <4>3
    <3> QED BY <3>1, <3>2
  <2> QED BY <1>4, <2>1, <2>2, SeqEqual
<1>6. log.bodies \in Seq(Bodies) BY DEF Logs
<1>7. log.bodies \o rest = (log.bodies \o one) \o t
  <2> DEFINE c == log.bodies
  <2>a. c \in Seq(Bodies) BY <1>6
  <2> HIDE DEF c
  <2>1. (c \o one) \o t = c \o (one \o t) BY <1>a, <2>a, ConcatAssociative
  <2> QED BY <1>5, <2>1 DEF both, c
<1>8. Joined(log, one).bodies = log.bodies \o one /\ Joined(log, one) \in Logs
      /\ Joined(log, one).first = log.first BY <1>3, JoinedIs
<1> DEFINE mid == Joined(log, one)
<1>9. /\ Joined(mid, t) \in Logs
      /\ Joined(mid, t).first = log.first
      /\ Joined(mid, t).bodies = (log.bodies \o one) \o t
  <2>1. mid \in Logs /\ mid.first = log.first /\ mid.bodies = log.bodies \o one BY <1>8
  <2> HIDE DEF mid
  <2>2. /\ Joined(mid, t) \in Logs /\ Joined(mid, t).first = mid.first
        /\ Joined(mid, t).bodies = mid.bodies \o t BY <1>a, <2>1, JoinedIs
  <2> QED BY <2>1, <2>2
<1> HIDE DEF mid
<1>10. /\ Joined(log, rest) \in Logs /\ Joined(log, rest).first = log.first
       /\ Joined(log, rest).bodies = log.bodies \o rest BY JoinedIs
<1>11. Joined(log, rest) = Joined(mid, t)
  <2> DEFINE x == Joined(log, rest)
             y == Joined(mid, t)
  <2>1. x \in Logs /\ y \in Logs /\ x.first = y.first /\ x.bodies = y.bodies BY <1>7, <1>9, <1>10
  <2> HIDE DEF x, y
  <2>2. x = y BY <2>1 DEF Logs
  <2> QED BY <2>2 DEF x, y
<1> QED BY <1>1, <1>11 DEF mid, one, h, t

LEMMA EndGrows ==
    ASSUME NEW marker, NEW names, NEW files, NEW log, NEW a, Ends(marker, names, files, log, a),
           NEW frame \in Bodies, Len(files[a].frames) < SegmentFrames,
           NEW after,
           \A id \in names : id \in DOMAIN files => id \in DOMAIN after /\ (id # a => after[id] = files[id]),
           after[a].frames = files[a].frames \o <<frame>>, after[a].synced = files[a].synced
    PROVE  Ends(marker, names, after, Joined(log, <<frame>>), a)
<1> DEFINE more == <<frame>>
           old == files[a].frames
           kept == files[a].synced
<1>1. more \in Seq(Bodies) /\ Len(more) = 1 OBVIOUS
<1>2. /\ Stood(marker, names, names, files, log, 0)
      /\ a = <<marker.generation, Max(Starts(names, marker.generation))>> BY DEF Ends
<1>3. /\ old \in Seq(Bodies) /\ Len(old) \in Nat /\ kept \in 0 .. Len(old) BY <1>2, StoodActive
<1>4. SegmentFrames \in Nat BY SegmentAssumption
<1>5. Len(old) < SegmentFrames /\ after[a].frames = old \o more /\ after[a].synced = kept OBVIOUS
<1>6. \A id \in names : id[1] = marker.generation =>
          id \in DOMAIN after /\ (id # a => after[id] = files[id]) BY <1>2 DEF Stood
<1> HIDE DEF more, old, kept
<1>7. Len(old \o more) = Len(old) + 1
  <2>1. Len(old \o more) = Len(old) + Len(more) BY <1>1, <1>3, ConcatProperties
  <2> QED BY <1>1, <2>1
<1>8. Len(old) + Len(more) <= SegmentFrames BY <1>1, <1>3, <1>4, <1>5
<1>9. after[a].synced \in kept .. Len(after[a].frames) BY <1>3, <1>5, <1>7
<1>10. Len(files[a].frames) + Len(more) <= SegmentFrames /\ after[a].frames = files[a].frames \o more
       /\ after[a].synced \in files[a].synced .. Len(after[a].frames) BY <1>5, <1>8, <1>9 DEF old, kept
<1>11. Stood(marker, names, names, after, Joined(log, more), 0) BY <1>1, <1>2, <1>6, <1>10, StoodGrows, ZenonT(60)
<1> QED BY <1>2, <1>11 DEF Ends, more

\* The last segment synchronized.
EndFlushed(names, files, a, after) ==
    /\ \A id \in names : id \in DOMAIN files => id \in DOMAIN after /\ (id # a => after[id] = files[id])
    /\ after[a] = Flushed(files[a])

LEMMA EndStands ==
    ASSUME NEW marker, NEW names, NEW files, NEW log, NEW a, Ends(marker, names, files, log, a),
           NEW after, EndFlushed(names, files, a, after)
    PROVE  Stood(marker, names, names, after, log, Len(log.bodies))
<1>1. /\ Stood(marker, names, names, files, log, 0)
      /\ a = <<marker.generation, Max(Starts(names, marker.generation))>> BY DEF Ends
<1>2. \A id \in names : id[1] = marker.generation =>
          id \in DOMAIN after /\ (id # a => after[id] = files[id]) BY <1>1 DEF Stood, EndFlushed
<1>3. after[a].frames = files[a].frames /\ after[a].synced = Len(files[a].frames) BY DEF EndFlushed, Flushed
<1> QED BY <1>1, <1>2, <1>3, StoodFlushed

\* ... and another one begun.
EndRotates(names, files, a, next, after) ==
    /\ \A id \in names : id \in DOMAIN files /\ id # next => id \in DOMAIN after /\ (id # a => after[id] = files[id])
    /\ a # next => after[a] = Flushed(files[a])
    /\ next \in DOMAIN after /\ after[next] = Empty

LEMMA EndNext ==
    ASSUME NEW marker, NEW names, NEW files, NEW log, NEW a, Ends(marker, names, files, log, a),
           Len(files[a].frames) = SegmentFrames, NEW next, next = <<a[1], a[2] + SegmentFrames>>,
           NEW after, EndRotates(names, files, a, next, after)
    PROVE  Ends(marker, names \cup {next}, after, log, next) /\ next \in Nat \X Nat
<1> DEFINE g == marker.generation
           l == Max(Starts(names, g))
<1>1. Stood(marker, names, names, files, log, 0) /\ a = <<g, l>> BY DEF Ends
<1>2. /\ g \in Nat /\ l \in Nat /\ a \in names /\ a \in DOMAIN files
      /\ l + Len(files[a].frames) = Top(log)
      /\ files[a].frames \in Seq(Bodies) BY <1>1, StoodActive
<1>3. SegmentFrames \in Nat /\ SegmentFrames # 0 BY SegmentAssumption
<1>4. next = <<g, Top(log)>> /\ next \in Nat \X Nat
  <2>1. next = <<g, l + SegmentFrames>> BY <1>1
  <2> HIDE DEF g, l
  <2>2. l + SegmentFrames = Top(log) /\ l + SegmentFrames \in Nat BY <1>2, <1>3
  <2> QED BY <1>2, <2>1, <2>2
<1>5. files[a].frames # <<>> BY <1>2, <1>3
<1>6. next \notin names
  <2>1. SUFFICES ASSUME next \in names PROVE FALSE OBVIOUS
  <2>2. names \subseteq Nat \X Nat /\ names \cup names = names /\ names \cap names = names BY <1>1 DEF Stood
  <2>3. Stands(SegmentsOf(g, names, files), Starts(names, g), log) BY <1>1, <2>2 DEF Stood
  <2>4. DOMAIN SegmentsOf(g, names, files) = Starts(names, g) BY DEF SegmentsOf
  <2>5. Top(log) \in Starts(names, g) BY <1>4, <2>1, <2>2, StartsAre
  <2>6. Top(log) <= l BY <2>3, <2>4, <2>5, LastStands
  <2> HIDE DEF l
  <2>7. l + SegmentFrames <= l BY <1>2, <2>6
  <2> QED BY <1>2, <1>3, <2>7
<1> DEFINE mid == [id \in names |-> after[id]]
<1>7. mid[a] = after[a] /\ a # next BY <1>2, <1>6
<1>8. EndFlushed(names, files, a, mid) BY <1>6, <1>7 DEF EndFlushed, EndRotates
<1>9. \A id \in names : mid[id] = after[id] OBVIOUS
<1> HIDE DEF mid
<1>10. Stood(marker, names, names, mid, log, Len(log.bodies)) BY <1>8, EndStands
<1> DEFINE wide == names \cup {next}
<1>11. Follows(marker, names, mid, log, Len(log.bodies), a, next, wide, after)
  <2>1. mid[a].frames # <<>> /\ mid[a].synced = Len(mid[a].frames) BY <1>5, <1>8 DEF EndFlushed, Flushed
  <2>2. \A id \in names : id[1] = marker.generation => id \in DOMAIN after /\ after[id] = mid[id]
        BY <1>1, <1>6, <1>9 DEF Stood, EndRotates
  <2> QED BY <1>1, <1>4, <1>10, <2>1, <2>2 DEF Follows, EndRotates
<1>12. Stood(marker, wide, wide, after, log, Len(log.bodies)) /\ IsLast(Top(log), wide, marker.generation)
       BY <1>11, StoodFollows
<1>13. Stood(marker, wide, wide, after, log, 0) BY <1>12, StoodLess
<1> QED BY <1>4, <1>12, <1>13 DEF Ends, IsLast

----------------------------------------------------------------------------
(* Cutover: staging *)

LEMMA StagingKnown ==
    ASSUME DirectoryInv, doing = "staging"
    PROVE  /\ onDisk = directory /\ SafeMarker(directory.marker)
           /\ call \in Calls /\ call.staged \in Nat \X Nat
           /\ call.rest \in Seq(Bodies)
           /\ call.staged[1] = directory.marker.generation + 1
           /\ NextMarker.generation = call.staged[1] /\ NextMarker.first = call.flight.first
           /\ directory \in Directories /\ directory.staging \in {Nothing, call.staged}
           /\ \A id \in Nat \X Nat : id[1] = directory.marker.generation => id # call.staged
           /\ directory.marker.generation \in Nat
           /\ \A id \in directory.names : id[1] = directory.marker.generation => id \in DOMAIN segments
           /\ \E log \in Logs :
                 /\ Ends(NextMarker, StagedNames, segments, log, call.staged)
                 /\ call.flight = Joined(log, call.rest)
<1>1. onDisk = directory /\ SafeMarker(directory.marker) BY DEF DirectoryInv, DeviceFollows, WhatStands
<1>2. call \in Calls BY DEF DirectoryInv, DirectoryTypes, CallsRun, Calling
<1>3. /\ call.staged \in Nat \X Nat /\ call.staged[1] = directory.marker.generation + 1
      /\ directory.staging \in {Nothing, call.staged} BY DEF DirectoryInv, Staging
<1>4. NextMarker.generation = call.staged[1] /\ NextMarker.first = call.flight.first BY DEF NextMarker, Marker
<1>5. PICK log \in Logs : StagedLog(log) BY DEF DirectoryInv, StagedStands
<1>6. call.staged = <<call.staged[1], call.staged[2]>> BY <1>3
<1>7. Ends(NextMarker, StagedNames, segments, log, call.staged)
      BY <1>4, <1>5, <1>6 DEF Ends, StagedLog, IsLast
<1>8. directory.marker.generation \in Nat
  <2>1. directory.marker \in Markers BY <1>1, LiveSafe
  <2> QED BY <2>1 DEF Markers
<1>9. \A id \in Nat \X Nat : id[1] = directory.marker.generation => id # call.staged BY <1>3, <1>8
<1>10. \A id \in directory.names : id[1] = directory.marker.generation => id \in DOMAIN segments
  <2>1. PICK n \in 0 .. Len(Readout.bodies) :
           Stood(directory.marker, directory.names, directory.names, segments, Readout, n) BY <1>1, LiveSafe
  <2> QED BY <2>1 DEF Stood
<1>11. call.rest \in Seq(Bodies) BY <1>2 DEF Calls
<1>12. call.flight = Joined(log, call.rest) BY <1>5 DEF StagedLog
<1>13. directory \in Directories BY DEF DirectoryInv, DirectoryTypes
<1> QED BY <1>1, <1>2, <1>3, <1>4, <1>7, <1>8, <1>9, <1>10, <1>11, <1>12, <1>13

\* What every step of the staging keeps.
LEMMA StagingKeeps ==
    ASSUME DirectoryInv, doing = "staging", doing' \in {"staging", "staged"},
           OldStays, onDisk' = directory', directory' \in Directories,
           captured' = captured, barrier' = barrier, settled' = settled, survivors' = survivors,
           call' \in Calls, call'.log = call.log, call'.flight = call.flight,
           call'.staged \in Nat \X Nat, call'.staged[1] = call.staged[1],
           directory'.staging \in {Nothing, call'.staged},
           NoneYounger(directory'.names, directory.marker.generation + 1),
           StagedStands', doing' = "staged" => FlightStands'
    PROVE  DirectoryInv' /\ Readout' = Readout
<1>1. onDisk = directory /\ SafeMarker(directory.marker) BY StagingKnown
<1>2. /\ SafeMarker(directory.marker)' /\ SafeMarker(onDisk.marker)'
      /\ Readout' = Readout /\ ActiveClosed'
      BY <1>1, OldSafe DEF DirectoryInv, Staging
<1>3. directory'.marker = directory.marker BY DEF OldStays
<1>4. DirectoryTypes' BY DEF DirectoryInv, DirectoryTypes, Calling
<1>5. WhatStands' BY <1>2 DEF WhatStands
<1>6. DeviceFollows' BY DEF DeviceFollows
<1>7. CallsRun'
  <2>1. call' # Nothing BY MarkersAre
  <2> QED BY <2>1 DEF CallsRun, Calling, Opening
<1>8. Young' BY <1>3 DEF Young, Steady, NoneYounger
<1>9. BoundaryFits' BY <1>3 DEF DirectoryInv, BoundaryFits, Steady
<1>10. RotationReady' /\ WriteFits' BY DEF RotationReady, WriteFits
<1>11. Staging' BY <1>2, <1>3 DEF DirectoryInv, Staging
<1>12. FlightStands'
  <2>1. CASE doing' = "staging"
    <3>1. Covers(call.flight, settled) BY DEF DirectoryInv, FlightStands, Cutting
    <3>2. Covers(call.flight, settled)'
      <4>1. call'.flight = call.flight /\ settled' = settled OBVIOUS
      <4> QED BY <3>1, <4>1 DEF Covers, LastLogged
    <3> QED BY <2>1, <3>2 DEF FlightStands
  <2> QED BY <2>1
<1> QED BY <1>2, <1>4, <1>5, <1>6, <1>7, <1>8, <1>9, <1>10, <1>11, <1>12 DEF DirectoryInv

LEMMA StageFrameKeeps ==
    ASSUME DirectoryInv, StageFrame
    PROVE  /\ DirectoryInv' /\ Readout' = Readout
           /\ call' # Nothing /\ call'.log = call.log /\ call'.flight = call.flight
<1> DEFINE a == call.staged
           frame == Head(call.rest)
<1>1. /\ doing = "staging" /\ doing' = doing /\ call.rest # <<>>
      /\ Len(segments[a].frames) < SegmentFrames
      /\ segments' = [segments EXCEPT ![a] = WithFrames(@, <<frame>>)]
      /\ call' = [call EXCEPT !.rest = Tail(@)]
      /\ directory' = directory /\ onDisk' = onDisk /\ captured' = captured
      /\ barrier' = barrier /\ settled' = settled /\ survivors' = survivors
      BY DEF StageFrame, Unsettled
<1>2. /\ onDisk = directory /\ SafeMarker(directory.marker)
      /\ call \in Calls /\ a \in Nat \X Nat /\ call.rest \in Seq(Bodies)
      /\ directory \in Directories /\ directory.staging \in {Nothing, a}
      /\ \A id \in Nat \X Nat : id[1] = directory.marker.generation => id # a
      /\ \A id \in directory.names : id[1] = directory.marker.generation => id \in DOMAIN segments
      BY <1>1, StagingKnown
<1>3. PICK log \in Logs :
         Ends(NextMarker, StagedNames, segments, log, a) /\ call.flight = Joined(log, call.rest)
      BY <1>1, StagingKnown
<1>4. /\ frame \in Bodies /\ Tail(call.rest) \in Seq(Bodies)
      /\ Joined(log, call.rest) = Joined(Joined(log, <<frame>>), Tail(call.rest))
      BY <1>1, <1>2, JoinedHead
<1>5. /\ call' \in Calls /\ call'.log = call.log /\ call'.flight = call.flight
      /\ call'.staged = a /\ call'.rest = Tail(call.rest)
  <2> DEFINE t == Tail(call.rest)
  <2>1. call' = [call EXCEPT !.rest = t] /\ t \in Seq(Bodies) BY <1>1, <1>4
  <2> HIDE DEF t
  <2>2. call' = [log |-> call.log, flight |-> call.flight, batch |-> call.batch, rest |-> t,
                 staged |-> call.staged] BY <1>2, <2>1 DEF Calls
  <2> QED BY <1>2, <2>1, <2>2 DEF Calls, t
<1>6. a \in DOMAIN segments
  <2>1. /\ Stood(NextMarker, StagedNames, StagedNames, segments, log, 0)
        /\ a = <<NextMarker.generation, Max(Starts(StagedNames, NextMarker.generation))>> BY <1>3 DEF Ends
  <2> QED BY <2>1, StoodActive
<1> HIDE DEF a, frame
<1>7. /\ DOMAIN segments' = DOMAIN segments
      /\ \A id \in DOMAIN segments : id # a => segments'[id] = segments[id]
      /\ segments'[a].frames = segments[a].frames \o <<frame>>
      /\ segments'[a].synced = segments[a].synced
  <2>1. segments'[a] = WithFrames(segments[a], <<frame>>) BY <1>1, <1>6
  <2>2. segments'[a].frames = segments[a].frames \o <<frame>>
        /\ segments'[a].synced = segments[a].synced BY <2>1 DEF WithFrames
  <2> QED BY <1>1, <2>2
<1>8. Images' = Images BY <1>1 DEF Images
<1>9. OldStays
  <2>1. directory.names \subseteq Nat \X Nat BY <1>2 DEF Directories
  <2>2. \A id \in Nat \X Nat : id[1] = directory.marker.generation =>
          /\ id \in directory.names <=> id \in directory'.names
          /\ id \in directory.names => id \in DOMAIN segments' /\ segments'[id] = segments[id]
        BY <1>1, <1>2, <1>7
  <2> QED BY <1>1, <1>2, <1>8, <2>1, <2>2 DEF OldStays
<1>10. StagedStands'
  <2> DEFINE m == NextMarker
             names == StagedNames
             files == segments'
             new == Joined(log, <<frame>>)
  <2>1. NextMarker' = m BY <1>5 DEF NextMarker, a
  <2>2. StagedNames' = names BY <1>1 DEF StagedNames
  <2>3. Ends(m, names, segments, log, a) /\ Len(segments[a].frames) < SegmentFrames BY <1>1, <1>3
  <2>4. /\ \A id \in names : id \in DOMAIN segments => id \in DOMAIN files /\ (id # a => files[id] = segments[id])
        /\ files[a].frames = segments[a].frames \o <<frame>> /\ files[a].synced = segments[a].synced
        BY <1>7
  <2> HIDE DEF m, names, files
  <2>5. Ends(m, names, files, new, a) BY <1>4, <2>3, <2>4, EndGrows
  <2>6. <<frame>> \in Seq(Bodies) BY <1>4
  <2>7. new \in Logs BY <2>6, JoinedIs
  <2> HIDE DEF new
  <2>8. call'.flight = Joined(new, call'.rest) BY <1>3, <1>4, <1>5 DEF new
  <2>9. Stood(m, names, names, files, new, 0) /\ IsLast(a[2], names, a[1])
    <3>1. a = <<m.generation, Max(Starts(names, m.generation))>> BY <2>5 DEF Ends
    <3>2. a[1] = m.generation /\ a[2] = Max(Starts(names, m.generation)) BY <3>1
    <3> QED BY <2>5, <3>2 DEF Ends, IsLast
  <2>10. PICK l \in Logs : l = new BY <2>7
  <2>11. StagedLog(l)' BY <1>5, <2>1, <2>2, <2>8, <2>9, <2>10 DEF StagedLog, files, a
  <2> QED BY <2>11 DEF StagedStands
<1>11. NoneYounger(directory'.names, directory.marker.generation + 1)
       BY <1>1 DEF DirectoryInv, Young
<1>12. DirectoryInv' /\ Readout' = Readout
       BY <1>1, <1>2, <1>5, <1>9, <1>10, <1>11, StagingKeeps DEF a
<1> QED BY <1>5, <1>12, MarkersAre

\* The names of the new generation, when the staging file has its own.
LEMMA RenamedIs ==
    ASSUME NEW d \in Directories
    PROVE  /\ Renamed(d) \in Directories /\ Renamed(d).marker = d.marker /\ Renamed(d).staging = Nothing
           /\ Renamed(d).names = d.names \cup ({d.staging} \ {Nothing})
<1>1. CASE d.staging = Nothing BY <1>1 DEF Renamed
<1>2. CASE d.staging # Nothing
  <2> DEFINE n == d.names \cup {d.staging}
  <2>1. n \in SUBSET (Nat \X Nat) BY <1>2 DEF Directories
  <2>2. Renamed(d) = [d EXCEPT !.names = n, !.staging = Nothing] BY <1>2 DEF Renamed
  <2> HIDE DEF n
  <2>3. Renamed(d) = [marker |-> d.marker, names |-> n, staging |-> Nothing] BY <2>2 DEF Directories
  <2>4. {d.staging} \ {Nothing} = {d.staging} BY <1>2
  <2>5. Renamed(d) \in Directories BY <2>1, <2>3 DEF Directories
  <2> QED BY <2>3, <2>4, <2>5 DEF n
<1> QED BY <1>1, <1>2

LEMMA StageRotatesKeeps ==
    ASSUME DirectoryInv, StageRotates
    PROVE  /\ DirectoryInv' /\ Readout' = Readout
           /\ call' # Nothing /\ call'.log = call.log /\ call'.flight = call.flight
<1> DEFINE a == call.staged
           next == <<a[1], a[2] + SegmentFrames>>
<1>1. /\ doing = "staging" /\ doing' = doing
      /\ Len(segments[a].frames) = SegmentFrames
      /\ directory' = [Renamed(directory) EXCEPT !.names = @ \cup {next}] /\ onDisk' = directory'
      /\ segments' = WithFile([segments EXCEPT ![a] = Flushed(@)], next, Empty)
      /\ call' = [call EXCEPT !.staged = next]
      /\ captured' = captured
      /\ barrier' = barrier /\ settled' = settled /\ survivors' = survivors
      BY DEF StageRotates, Unsettled
<1>2. /\ onDisk = directory /\ SafeMarker(directory.marker)
      /\ call \in Calls /\ a \in Nat \X Nat
      /\ a[1] = directory.marker.generation + 1
      /\ directory \in Directories /\ directory.staging \in {Nothing, a}
      /\ directory.marker.generation \in Nat
      /\ \A id \in Nat \X Nat : id[1] = directory.marker.generation => id # a
      /\ \A id \in directory.names : id[1] = directory.marker.generation => id \in DOMAIN segments
      BY <1>1, StagingKnown
<1>3. PICK log \in Logs :
         Ends(NextMarker, StagedNames, segments, log, a) /\ call.flight = Joined(log, call.rest)
      BY <1>1, StagingKnown
<1>4. next[1] = a[1] /\ next[1] # directory.marker.generation
  <2> DEFINE g == directory.marker.generation
  <2>1. next[1] = g + 1 /\ g \in Nat BY <1>2
  <2> HIDE DEF g
  <2>2. g + 1 # g BY <2>1
  <2> QED BY <2>1, <2>2 DEF g
<1>5. next \in Nat \X Nat
  <2>1. SegmentFrames \in Nat BY SegmentAssumption
  <2>2. a[1] \in Nat /\ a[2] \in Nat BY <1>2
  <2> HIDE DEF a
  <2> QED BY <2>1, <2>2
<1> HIDE DEF next
<1>6. /\ call' \in Calls /\ call'.log = call.log /\ call'.flight = call.flight
      /\ call'.staged = next /\ call'.rest = call.rest
  <2>2. call' = [log |-> call.log, flight |-> call.flight, batch |-> call.batch, rest |-> call.rest,
                 staged |-> next] BY <1>1, <1>2 DEF Calls
  <2> QED BY <1>2, <1>5, <2>2 DEF Calls
<1>7. a \in DOMAIN segments
  <2>1. /\ Stood(NextMarker, StagedNames, StagedNames, segments, log, 0)
        /\ a = <<NextMarker.generation, Max(Starts(StagedNames, NextMarker.generation))>> BY <1>3 DEF Ends
  <2> QED BY <2>1, StoodActive
<1> HIDE DEF a
<1>8. /\ DOMAIN segments' = DOMAIN segments \cup {next}
      /\ \A id \in DOMAIN segments : id # a /\ id # next => segments'[id] = segments[id]
      /\ a # next => segments'[a] = Flushed(segments[a])
      /\ segments'[next] = Empty
      BY <1>1, <1>7 DEF WithFile
<1>9. /\ directory' \in Directories /\ directory'.marker = directory.marker
      /\ directory'.staging = Nothing /\ directory'.names = StagedNames \cup {next}
  <2>1. /\ Renamed(directory) \in Directories /\ Renamed(directory).marker = directory.marker
        /\ Renamed(directory).staging = Nothing /\ Renamed(directory).names = StagedNames
        BY <1>2, RenamedIs DEF StagedNames
  <2> QED BY <1>1, <1>5, <2>1, WiderIs
<1>10. Images' = Images BY <1>1 DEF Images
<1>11. StagedNames \in {directory.names, directory.names \cup {a}} BY <1>2 DEF StagedNames
<1>12. OldStays
  <2>1. \A id \in Nat \X Nat : id[1] = directory.marker.generation =>
          /\ id \in directory.names <=> id \in directory'.names
          /\ id \in directory.names => id \in DOMAIN segments' /\ segments'[id] = segments[id]
    <3>1. \A id \in Nat \X Nat : id[1] = directory.marker.generation => id # a /\ id # next
          BY <1>2, <1>4
    <3> QED BY <1>2, <1>8, <1>9, <1>11, <3>1
  <2>2. directory'.names \subseteq Nat \X Nat BY <1>9 DEF Directories
  <2> QED BY <1>1, <1>2, <1>9, <1>10, <2>1, <2>2 DEF OldStays
<1>13. StagedStands'
  <2> DEFINE m == NextMarker
             names == StagedNames
             files == segments'
  <2>1. NextMarker' = m BY <1>4, <1>6 DEF NextMarker, a
  <2>2. StagedNames' = names \cup {next} BY <1>9 DEF StagedNames
  <2>3. Ends(m, names, segments, log, a) /\ Len(segments[a].frames) = SegmentFrames BY <1>1, <1>3
  <2>4. EndRotates(names, segments, a, next, files) BY <1>8 DEF EndRotates
  <2>5. next = <<a[1], a[2] + SegmentFrames>> BY DEF next
  <2> HIDE DEF m, names, files
  <2> DEFINE wide == names \cup {next}
  <2>6. Ends(m, wide, files, log, next) BY <2>3, <2>4, <2>5, EndNext
  <2>7. call'.flight = Joined(log, call'.rest) BY <1>3, <1>6
  <2>8. Stood(m, wide, wide, files, log, 0) /\ IsLast(next[2], wide, next[1])
    <3>1. next = <<m.generation, Max(Starts(wide, m.generation))>> BY <2>6 DEF Ends
    <3>2. next[1] = m.generation /\ next[2] = Max(Starts(wide, m.generation)) BY <3>1
    <3> QED BY <2>6, <3>2 DEF Ends, IsLast
  <2>9. StagedLog(log)' BY <1>6, <2>1, <2>2, <2>7, <2>8 DEF StagedLog, files
  <2> QED BY <2>9 DEF StagedStands
<1>14. NoneYounger(directory'.names, directory.marker.generation + 1)
  <2>1. NoneYounger(directory.names, directory.marker.generation + 1) BY <1>1 DEF DirectoryInv, Young
  <2> DEFINE g == directory.marker.generation + 1
  <2>2. a[1] <= g /\ next[1] <= g
    <3>1. g \in Nat /\ a[1] = g /\ next[1] = g BY <1>2, <1>4
    <3> HIDE DEF g
    <3> QED BY <3>1
  <2> HIDE DEF g
  <2>3. NoneYounger(directory.names, g) BY <2>1 DEF g
  <2> QED BY <1>9, <1>11, <2>2, <2>3 DEF NoneYounger, g
<1>15. call'.staged \in Nat \X Nat /\ call'.staged[1] = call.staged[1] BY <1>4, <1>5, <1>6 DEF a
<1>16. DirectoryInv' /\ Readout' = Readout
       BY <1>1, <1>6, <1>9, <1>12, <1>13, <1>14, <1>15, StagingKeeps
<1> QED BY <1>6, <1>16, MarkersAre

LEMMA StageFinishedKeeps ==
    ASSUME DirectoryInv, StageFinished
    PROVE  DirectoryInv' /\ Readout' = Readout /\ call' = call
<1> DEFINE a == call.staged
<1>1. /\ doing = "staging" /\ doing' = "staged" /\ call.rest = <<>>
      /\ directory' = Renamed(directory) /\ onDisk' = directory'
      /\ segments' = [segments EXCEPT ![a] = Flushed(@)]
      /\ call' = call /\ captured' = captured
      /\ barrier' = barrier /\ settled' = settled /\ survivors' = survivors
      BY DEF StageFinished, Unsettled
<1>2. /\ onDisk = directory /\ SafeMarker(directory.marker)
      /\ call \in Calls /\ a \in Nat \X Nat
      /\ a[1] = directory.marker.generation + 1
      /\ directory \in Directories /\ directory.staging \in {Nothing, a}
      /\ directory.marker.generation \in Nat
      /\ \A id \in Nat \X Nat : id[1] = directory.marker.generation => id # a
      /\ \A id \in directory.names : id[1] = directory.marker.generation => id \in DOMAIN segments
      BY <1>1, StagingKnown
<1>3. PICK log \in Logs :
         Ends(NextMarker, StagedNames, segments, log, a) /\ call.flight = Joined(log, call.rest)
      BY <1>1, StagingKnown
<1>4. call.flight = log BY <1>1, <1>3, JoinedNone
<1>7. a \in DOMAIN segments
  <2>1. /\ Stood(NextMarker, StagedNames, StagedNames, segments, log, 0)
        /\ a = <<NextMarker.generation, Max(Starts(StagedNames, NextMarker.generation))>> BY <1>3 DEF Ends
  <2> QED BY <2>1, StoodActive
<1> HIDE DEF a
<1>8. /\ DOMAIN segments' = DOMAIN segments
      /\ \A id \in DOMAIN segments : id # a => segments'[id] = segments[id]
      /\ segments'[a] = Flushed(segments[a])
      BY <1>1, <1>7
<1>9. /\ directory' \in Directories /\ directory'.marker = directory.marker
      /\ directory'.staging = Nothing /\ directory'.names = StagedNames
      BY <1>1, <1>2, RenamedIs DEF StagedNames
<1>10. Images' = Images BY <1>1 DEF Images
<1>11. StagedNames \in {directory.names, directory.names \cup {a}} BY <1>2 DEF StagedNames
<1>12. OldStays
  <2>1. \A id \in Nat \X Nat : id[1] = directory.marker.generation =>
          /\ id \in directory.names <=> id \in directory'.names
          /\ id \in directory.names => id \in DOMAIN segments' /\ segments'[id] = segments[id]
    BY <1>2, <1>8, <1>9, <1>11
  <2>2. directory'.names \subseteq Nat \X Nat BY <1>9 DEF Directories
  <2> QED BY <1>1, <1>2, <1>9, <1>10, <2>1, <2>2 DEF OldStays
<1>13. FlightStands'
  <2> DEFINE m == NextMarker
             names == StagedNames
             files == segments'
  <2>1. NextMarker' = m BY <1>1 DEF NextMarker
  <2>2. Ends(m, names, segments, log, a) BY <1>3
  <2>3. EndFlushed(names, segments, a, files) BY <1>8 DEF EndFlushed
  <2> HIDE DEF m, names, files
  <2>4. Stood(m, names, names, files, log, Len(log.bodies)) BY <2>2, <2>3, EndStands
  <2>5. Covers(log, settled) BY <1>1, <1>4 DEF DirectoryInv, FlightStands, Cutting
  <2>6. Covers(call'.flight, settled') BY <1>1, <1>4, <2>5
  <2>7. Covers(call.flight, settled)' BY <2>6 DEF Covers, LastLogged
  <2> QED BY <1>1, <1>4, <1>9, <2>1, <2>4, <2>7 DEF FlightStands, names, files
<1>14. NoneYounger(directory'.names, directory.marker.generation + 1)
  <2>1. NoneYounger(directory.names, directory.marker.generation + 1) BY <1>1 DEF DirectoryInv, Young
  <2> DEFINE g == directory.marker.generation + 1
  <2>2. a[1] <= g
    <3>1. g \in Nat /\ a[1] = g BY <1>2
    <3> HIDE DEF g
    <3> QED BY <3>1
  <2> HIDE DEF g
  <2>3. NoneYounger(directory.names, g) BY <2>1 DEF g
  <2> QED BY <1>9, <1>11, <2>2, <2>3 DEF NoneYounger, g
<1>15. StagedStands' BY <1>1 DEF StagedStands
<1>16. call'.staged \in Nat \X Nat /\ call'.staged[1] = call.staged[1] /\ call' \in Calls
       /\ directory'.staging \in {Nothing, call'.staged}
       BY <1>1, <1>2, <1>9 DEF a
<1>17. call'.log = call.log /\ call'.flight = call.flight BY <1>1
<1>18. DirectoryInv' /\ Readout' = Readout
       BY <1>1, <1>9, <1>12, <1>13, <1>14, <1>15, <1>16, <1>17, StagingKeeps
<1> QED BY <1>1, <1>18

----------------------------------------------------------------------------
(* Cutover: the new generation is selected *)

\* The new generation holds the log that the call is writing.
LEMMA StagedKnown ==
    ASSUME DirectoryInv, doing \in {"staged", "published", "installing"}
    PROVE  /\ call \in Calls /\ call # Nothing /\ call.flight \in Logs
           /\ Covers(call.flight, settled)
           /\ Stood(NextMarker, directory.names, directory.names, segments,
                    call.flight, Len(call.flight.bodies))
           /\ NextMarker \in Markers /\ directory.marker \in Markers
           /\ directory \in Directories
           /\ SafeMarker(directory.marker) /\ SafeMarker(onDisk.marker)
           /\ onDisk.names = directory.names
<1>1. call # Nothing /\ call \in Calls BY DEF DirectoryInv, CallsRun, DirectoryTypes, Calling
<1>2. call.flight \in Logs BY <1>1 DEF Calls
<1>3. Covers(call.flight, settled) BY DEF DirectoryInv, FlightStands, Cutting
<1>4. Stood(NextMarker, directory.names, directory.names, segments,
                    call.flight, Len(call.flight.bodies)) BY DEF DirectoryInv, FlightStands
<1>5. NextMarker \in Markers BY <1>4 DEF Stood
<1>6. SafeMarker(directory.marker) /\ SafeMarker(onDisk.marker) BY DEF DirectoryInv, WhatStands
<1>7. directory.marker \in Markers BY <1>6, SafeNotBare DEF SafeMarker
<1>8. directory \in Directories BY DEF DirectoryInv, DirectoryTypes
<1>9. onDisk.names = directory.names
  <2>1. onDisk = directory \/ onDisk = [directory EXCEPT !.marker = onDisk.marker]
        BY DEF DirectoryInv, DeviceFollows
  <2>2. [directory EXCEPT !.marker = onDisk.marker].names = directory.names BY <1>8 DEF Directories
  <2> QED BY <2>1, <2>2
<1> QED BY <1>1, <1>2, <1>3, <1>4, <1>5, <1>6, <1>7, <1>8, <1>9

LEMMA PublishMarkerKeeps ==
    ASSUME DirectoryInv, PublishMarker
    PROVE  DirectoryInv' /\ Readout' = call.flight /\ call' = call
<1>1. /\ doing = "staged" /\ doing' = "published"
      /\ directory' = [directory EXCEPT !.marker = NextMarker]
      /\ onDisk' = onDisk /\ segments' = segments /\ call' = call /\ captured' = captured
      /\ barrier' = barrier /\ settled' = settled /\ survivors' = survivors
      BY DEF PublishMarker, Unsettled
<1>2. onDisk = directory BY <1>1 DEF DirectoryInv, DeviceFollows
<1>3. /\ call \in Calls /\ call # Nothing /\ call.flight \in Logs
      /\ Covers(call.flight, settled)
      /\ Stood(NextMarker, directory.names, directory.names, segments,
               call.flight, Len(call.flight.bodies))
      /\ NextMarker \in Markers /\ directory.marker \in Markers
      /\ directory \in Directories /\ SafeMarker(directory.marker)
      BY <1>1, StagedKnown
<1>4. /\ directory' \in Directories /\ directory'.marker = NextMarker
      /\ directory'.names = directory.names /\ directory'.staging = directory.staging
      /\ onDisk' = [directory' EXCEPT !.marker = directory.marker]
  <2> DEFINE m == NextMarker
  <2>1. directory' = [directory EXCEPT !.marker = m] /\ m \in Markers BY <1>1, <1>3
  <2> HIDE DEF m
  <2>2. directory' = [marker |-> m, names |-> directory.names, staging |-> directory.staging]
        BY <1>3, <2>1 DEF Directories
  <2>3. directory' \in Directories BY <1>3, <2>1, <2>2 DEF Directories
  <2>4. directory = [directory' EXCEPT !.marker = directory.marker] BY <1>3, <2>2 DEF Directories
  <2> QED BY <1>1, <1>2, <2>2, <2>3, <2>4 DEF m
<1>5. Images \subseteq Images' /\ call.flight \in Images' BY <1>1, <1>3 DEF Images
<1>6. SafeMarker(directory.marker)'
  <2>1. Safe(NextMarker, directory.names, directory.names, segments, settled, Images')
        BY <1>3, <1>5, SafeLog
  <2> QED BY <1>1, <1>2, <1>4, <2>1 DEF SafeMarker
<1>7. SafeMarker(onDisk.marker)'
  <2>1. Safe(directory.marker, directory.names, directory.names, segments, settled, Images')
        BY <1>2, <1>3, <1>5, SafeMore DEF SafeMarker
  <2> QED BY <1>1, <1>2, <1>4, <2>1 DEF SafeMarker
<1>8. NextMarker' = NextMarker BY <1>1 DEF NextMarker
<1>9. NextMarker.generation = directory.marker.generation + 1
  <2>1. NextMarker.generation = call.staged[1] BY DEF NextMarker, Marker
  <2> QED BY <1>1, <2>1 DEF DirectoryInv, Staging
<1>10. directory.marker.generation \in Nat BY <1>3 DEF Markers
<1>11. DirectoryTypes' BY <1>1, <1>4 DEF DirectoryInv, DirectoryTypes, Calling
<1>12. WhatStands' BY <1>1, <1>6, <1>7 DEF WhatStands
<1>13. DeviceFollows' BY <1>1, <1>2, <1>4 DEF DeviceFollows, Steady
<1>14. CallsRun' BY <1>1, <1>3 DEF CallsRun, Calling, Opening
<1>15. Young'
  <2>1. NoneYounger(directory.names, directory.marker.generation + 1) BY <1>1 DEF DirectoryInv, Young
  <2> QED BY <1>1, <1>4, <1>9, <2>1 DEF Young, NoneYounger
<1>16. BoundaryFits'
  <2>1. SUFFICES ASSUME captured # Nothing PROVE BoundaryFits' BY <1>1 DEF BoundaryFits
  <2>2. captured \in CutoverBoundaries BY <2>1 DEF DirectoryInv, DirectoryTypes
  <2>3. captured.marker.generation \in Nat BY <2>2 DEF CutoverBoundaries, Markers
  <2> DEFINE k == captured.marker.generation
             g == directory.marker.generation
  <2>4. k <= g BY <2>1 DEF DirectoryInv, BoundaryFits
  <2>5. k < g + 1 /\ k <= g + 1
    <3>1. k \in Nat /\ g \in Nat BY <1>10, <2>3
    <3> HIDE DEF k, g
    <3> QED BY <2>4, <3>1
  <2>6. captured.marker.first <= captured.at /\ captured.start + captured.offset = captured.at + 1
        BY <2>1 DEF DirectoryInv, BoundaryFits
  <2> QED BY <1>1, <1>4, <1>9, <2>5, <2>6 DEF BoundaryFits, Steady
<1>17. RotationReady' /\ WriteFits' /\ Staging' /\ StagedStands'
       BY <1>1 DEF RotationReady, WriteFits, Staging, StagedStands
<1>18. FlightStands'
  <2>1. Covers(call.flight, settled)' BY <1>1, <1>3 DEF Covers, LastLogged
  <2> QED BY <1>1, <1>3, <1>4, <1>8, <2>1 DEF FlightStands
<1>19. DirectoryInv'
       BY <1>11, <1>12, <1>13, <1>14, <1>15, <1>16, <1>17, <1>18 DEF DirectoryInv
<1>20. Readout' = call.flight
  <2>1. LogIn(NextMarker, directory.names, ContentsOf(segments)) = call.flight BY <1>3, StoodContents
  <2> QED BY <1>1, <1>4, <2>1 DEF Readout, Frames, ContentsOf
<1> QED BY <1>1, <1>19, <1>20

LEMMA SyncMarkerKeeps ==
    ASSUME DirectoryInv, SyncMarker
    PROVE  DirectoryInv' /\ Readout' = Readout /\ call' = call
<1>1. /\ doing = "published" /\ doing' = "installing"
      /\ directory' = directory /\ onDisk' = directory
      /\ segments' = segments /\ call' = call /\ captured' = captured
      /\ barrier' = barrier /\ settled' = settled /\ survivors' = survivors
      BY DEF SyncMarker, Unsettled
<1>2. /\ call # Nothing /\ onDisk.names = directory.names /\ SafeMarker(directory.marker)
      /\ directory \in Directories
      BY <1>1, StagedKnown
<1>3. Images' = Images BY <1>1 DEF Images
<1>4. SafeMarker(directory.marker)' /\ SafeMarker(onDisk.marker)' BY <1>1, <1>2, <1>3 DEF SafeMarker
<1>5. DirectoryTypes' BY <1>1, <1>2 DEF DirectoryInv, DirectoryTypes, Calling
<1>6. WhatStands' BY <1>1, <1>4 DEF WhatStands
<1>7. DeviceFollows' BY <1>1 DEF DeviceFollows
<1>8. CallsRun' BY <1>1, <1>2 DEF CallsRun, Calling, Opening
<1>9. Young' BY <1>1 DEF DirectoryInv, Young, NoneYounger, Steady
<1>10. BoundaryFits' BY <1>1 DEF DirectoryInv, BoundaryFits, Steady
<1>11. RotationReady' /\ WriteFits' /\ Staging' /\ StagedStands'
       BY <1>1 DEF RotationReady, WriteFits, Staging, StagedStands
<1>12. FlightStands'
  <2>1. NextMarker' = NextMarker BY <1>1 DEF NextMarker
  <2>2. Covers(call.flight, settled) BY <1>1 DEF DirectoryInv, FlightStands, Cutting
  <2>3. Covers(call.flight, settled)' BY <1>1, <2>2 DEF Covers, LastLogged
  <2>4. /\ Stood(NextMarker, directory.names, directory.names, segments,
                 call.flight, Len(call.flight.bodies))
        /\ directory.marker = NextMarker BY <1>1 DEF DirectoryInv, FlightStands
  <2> QED BY <1>1, <2>1, <2>3, <2>4 DEF FlightStands
<1>13. Readout' = Readout BY <1>1 DEF Readout, Frames
<1> QED BY <1>1, <1>5, <1>6, <1>7, <1>8, <1>9, <1>10, <1>11, <1>12, <1>13 DEF DirectoryInv

\* What an installed generation settles.
LEMMA InstalledSafe ==
    ASSUME DirectoryInv, doing = "installing", doing' = "open", barrier' = barrier, Settle(call.flight)
    PROVE  /\ onDisk = directory /\ Readout = call.flight /\ settled' = call.flight
           /\ settled' \in Logs /\ SafeMarker(directory.marker)
           /\ Safe(directory.marker, directory.names, directory.names, segments, call.flight, Images')
<1>1. onDisk = directory BY DEF DirectoryInv, DeviceFollows
<1>2. /\ call # Nothing /\ call.flight \in Logs
      /\ Stood(NextMarker, directory.names, directory.names, segments,
               call.flight, Len(call.flight.bodies))
      /\ SafeMarker(directory.marker)
      BY StagedKnown
<1>3. directory.marker = NextMarker BY DEF DirectoryInv, FlightStands
<1>4. call.flight \in Images' BY <1>2 DEF Images, Settle
<1>5. Covers(call.flight, call.flight) BY <1>2, CoversItself
<1>6. Safe(directory.marker, directory.names, directory.names, segments, call.flight, Images')
      BY <1>2, <1>3, <1>4, <1>5, SafeLog
<1>7. Readout = call.flight BY <1>2, CallReads
<1> QED BY <1>1, <1>2, <1>6, <1>7 DEF Settle

LEMMA InstalledBoundary ==
    ASSUME DirectoryInv, doing = "installing", doing' = "open",
           captured' = captured, directory'.marker = directory.marker
    PROVE  BoundaryFits'
<1>1. SUFFICES ASSUME captured # Nothing PROVE BoundaryFits' BY DEF BoundaryFits
<1>2. /\ captured.marker.first <= captured.at
      /\ captured.start + captured.offset = captured.at + 1
      /\ captured.marker.generation <= directory.marker.generation
      /\ captured.marker.generation < directory.marker.generation BY <1>1 DEF DirectoryInv, BoundaryFits
<1>3. captured.marker # directory.marker
  <2>1. SUFFICES ASSUME captured.marker = directory.marker PROVE FALSE OBVIOUS
  <2>2. directory.marker \in Markers BY StagedKnown
  <2> DEFINE g == directory.marker.generation
  <2>3. g \in Nat /\ g < g BY <1>2, <2>1, <2>2 DEF Markers
  <2> HIDE DEF g
  <2> QED BY <2>3
<1> QED BY <1>2, <1>3 DEF BoundaryFits, Steady

LEMMA InstalledKeeps ==
    ASSUME DirectoryInv, Installed
    PROVE  DirectoryInv' /\ Readout' = call.flight
<1>1. /\ doing = "installing" /\ doing' = "open" /\ call' = Nothing
      /\ directory' = Selected(directory) /\ onDisk' = directory'
      /\ segments' = Kept(directory'.names)
      /\ Settle(call.flight) /\ captured' = captured /\ barrier' = barrier
      BY DEF Installed
<1>2. /\ onDisk = directory /\ Readout = call.flight /\ settled' = call.flight
      /\ settled' \in Logs /\ SafeMarker(directory.marker)
      /\ Safe(directory.marker, directory.names, directory.names, segments, call.flight, Images')
      BY <1>1, InstalledSafe
<1>3. /\ directory' \in Directories /\ directory'.marker = directory.marker
      /\ Safe(directory'.marker, directory'.names, onDisk'.names, segments', call.flight, Images')
      /\ NoneYounger(directory.names, directory.marker.generation)'
      /\ Readout' = Readout
      BY <1>1, <1>2, SelectedSafe
<1>4. DirectoryTypes' BY <1>1, <1>2, <1>3 DEF DirectoryInv, DirectoryTypes, Steady
<1>5. SafeMarker(directory.marker)' BY <1>2, <1>3 DEF SafeMarker
<1>6. BoundaryFits' BY <1>1, <1>3, InstalledBoundary
<1> QED BY <1>1, <1>2, <1>3, <1>4, <1>5, <1>6, ToOpen

LEMMA InstallUnlistedKeeps ==
    ASSUME DirectoryInv, InstallUnlisted
    PROVE  DirectoryInv' /\ Readout' = call.flight
<1>1. /\ doing = "installing" /\ doing' = "open" /\ call' = Nothing
      /\ directory' = directory /\ onDisk' = onDisk /\ segments' = segments
      /\ Settle(call.flight) /\ captured' = captured /\ barrier' = barrier
      BY DEF InstallUnlisted
<1>2. /\ onDisk = directory /\ Readout = call.flight /\ settled' = call.flight
      /\ settled' \in Logs
      /\ Safe(directory.marker, directory.names, directory.names, segments, call.flight, Images')
      BY <1>1, InstalledSafe
<1>3. DirectoryTypes' BY <1>1, <1>2 DEF DirectoryInv, DirectoryTypes, Steady
<1>4. SafeMarker(directory.marker)' BY <1>1, <1>2 DEF SafeMarker
<1>5. BoundaryFits' BY <1>1, InstalledBoundary
<1>6. NoneYounger(directory.names, directory.marker.generation)'
      BY <1>1 DEF DirectoryInv, Young, NoneYounger
<1>7. Readout' = Readout BY <1>1 DEF Readout, Frames
<1>8. onDisk' = directory' BY <1>1, <1>2
<1> QED BY <1>1, <1>2, <1>3, <1>4, <1>5, <1>6, <1>7, <1>8, ToOpen

LEMMA CutoverFailsKeeps ==
    ASSUME DirectoryInv, CutoverFails
    PROVE  /\ DirectoryInv' /\ Readout' \in Parts(call.log, call.flight) /\ call # Nothing
<1>1. /\ doing \in Cutting /\ doing' = "poisoned" /\ call' = Nothing
      /\ Unfinished /\ settled' = settled
      /\ onDisk' = onDisk /\ segments' = segments /\ captured' = captured /\ barrier' = barrier
      /\ \/ directory' = directory
         \/ doing = "staging" /\ directory' = Renamed(directory)
         \/ doing = "installing" /\ directory' \in PartlyCleaned(directory)
      BY DEF CutoverFails, Cutting
<1>2. call # Nothing BY <1>1 DEF DirectoryInv, CallsRun, Calling, Cutting
<1>3. Images \subseteq Images'
  <2>1. CrashImages \subseteq Images' BY <1>1, <1>2, UnfinishedImages
  <2> QED BY <2>1, ImagesLast
<1>4. SafeMarker(directory.marker) BY <1>1 DEF DirectoryInv, WhatStands, Cutting
<1>5. directory \in Directories BY DEF DirectoryInv, DirectoryTypes
<1>6. /\ directory' \in Directories /\ directory'.marker = directory.marker
      /\ SafeMarker(directory.marker)' /\ SafeMarker(onDisk.marker)' /\ Readout' = Readout
  <2>1. ASSUME directory' = directory
        PROVE  /\ directory' \in Directories /\ directory'.marker = directory.marker
               /\ SafeMarker(directory.marker)' /\ SafeMarker(onDisk.marker)' /\ Readout' = Readout
    <3>1. ~Bare BY <1>4, SafeNotBare DEF SafeMarker, Bare
    <3>2. segments' \in MayBeWritten BY <1>1 DEF MayBeWritten, Cutting
    <3>3. SafeMarker(directory.marker)' /\ SafeMarker(onDisk.marker)'
          BY <1>1, <1>2, <2>1, <3>1, <3>2, EndedSafe
    <3>4. Readout' = Readout BY <1>1, <2>1 DEF Readout, Frames
    <3> QED BY <1>5, <2>1, <3>3, <3>4
  <2>2. ASSUME doing = "staging", directory' = Renamed(directory)
        PROVE  /\ directory' \in Directories /\ directory'.marker = directory.marker
               /\ SafeMarker(directory.marker)' /\ SafeMarker(onDisk.marker)' /\ Readout' = Readout
    <3>1. /\ onDisk = directory
          /\ directory.staging \in {Nothing, call.staged}
          /\ \A id \in Nat \X Nat : id[1] = directory.marker.generation => id # call.staged
          /\ \A id \in directory.names : id[1] = directory.marker.generation => id \in DOMAIN segments
          BY <2>2, StagingKnown
    <3>2. /\ directory' \in Directories /\ directory'.marker = directory.marker
          /\ directory'.names = directory.names \cup ({directory.staging} \ {Nothing})
          BY <1>5, <2>2, RenamedIs
    <3>3. \A id \in Nat \X Nat : id[1] = directory.marker.generation =>
            /\ id \in directory.names <=> id \in directory'.names
            /\ id \in directory.names => id \in DOMAIN segments' /\ segments'[id] = segments[id]
          BY <1>1, <3>1, <3>2
    <3>4. directory'.names \subseteq Nat \X Nat BY <3>2 DEF Directories
    <3>5. OldStays BY <1>1, <1>3, <3>1, <3>2, <3>3, <3>4 DEF OldStays
    <3> QED BY <1>4, <3>1, <3>2, <3>5, OldSafe
  <2>3. ASSUME doing = "installing", directory' \in PartlyCleaned(directory)
        PROVE  /\ directory' \in Directories /\ directory'.marker = directory.marker
               /\ SafeMarker(directory.marker)' /\ SafeMarker(onDisk.marker)' /\ Readout' = Readout
    <3>1. onDisk = directory BY <2>3 DEF DirectoryInv, DeviceFollows
    <3>2. Safe(directory.marker, directory.names, directory.names, segments, settled, Images')
          BY <1>3, <1>4, <3>1, SafeMore DEF SafeMarker
    <3>3. /\ directory' \in Directories /\ directory'.marker = directory.marker
          /\ Safe(directory.marker, directory'.names, directory.names, segments, settled, Images')
          /\ \A f : LogIn(directory.marker, directory'.names, f) = LogIn(directory.marker, directory.names, f)
          BY <1>4, <2>3, <3>1, <3>2, PartlySafe
    <3>4. SafeMarker(directory.marker)' /\ SafeMarker(onDisk.marker)'
          BY <1>1, <3>1, <3>3 DEF SafeMarker
    <3>5. Readout' = Readout BY <1>1, <3>3 DEF Readout, Frames
    <3> QED BY <3>3, <3>4, <3>5
  <2> QED BY <1>1, <2>1, <2>2, <2>3
<1>7. DirectoryTypes' BY <1>1, <1>6 DEF DirectoryInv, DirectoryTypes
<1>8. DirectoryInv' BY <1>1, <1>6, <1>7, ToPoisoned
<1>9. Readout \in {call.log, call.flight} BY <1>2, CallReads
<1> QED BY <1>2, <1>6, <1>8, <1>9 DEF Parts

----------------------------------------------------------------------------
(* Every step keeps the invariant *)

LEMMA InitKeeps == SegmentInit => DirectoryInv
<1> SUFFICES ASSUME SegmentInit PROVE DirectoryInv OBVIOUS
<1>1. /\ directory = NoDirectory /\ onDisk = NoDirectory /\ doing = "closed"
      /\ call = Nothing /\ captured = Nothing /\ barrier \in {"SyncAll", "Buffered"}
      /\ settled = FirstLog /\ survivors = {FirstLog} BY DEF SegmentInit
<1>2. NoDirectory \in Directories /\ NoDirectory.names = {} /\ NoDirectory.marker = Nothing
      BY DEF NoDirectory, Directories
<1>3. DirectoryTypes BY <1>1, <1>2, MarkersAre DEF DirectoryTypes, Opening
<1>4. FirstLog \in Images BY <1>1, MarkersAre DEF Images
<1>5. WhatStands BY <1>1, <1>2, <1>4 DEF WhatStands, Bare
<1>6. DeviceFollows /\ CallsRun /\ Young /\ BoundaryFits
      BY <1>1 DEF DeviceFollows, CallsRun, Young, BoundaryFits, Steady, Calling, Opening
<1>7. RotationReady /\ WriteFits /\ Staging /\ StagedStands /\ FlightStands
      BY <1>1 DEF RotationReady, WriteFits, Staging, StagedStands, FlightStands, Cutting
<1> QED BY <1>3, <1>5, <1>6, <1>7 DEF DirectoryInv

LEMMA NothingKeeps == ASSUME DirectoryInv, UNCHANGED segmentVars PROVE DirectoryInv'
<1>1. /\ directory' = directory /\ onDisk' = onDisk /\ segments' = segments /\ doing' = doing
      /\ call' = call /\ captured' = captured /\ barrier' = barrier
      /\ settled' = settled /\ survivors' = survivors BY DEF segmentVars
<1>2. DirectoryTypes' BY <1>1 DEF DirectoryInv, DirectoryTypes
<1>3. WhatStands' BY <1>1 DEF DirectoryInv, WhatStands, Bare, SafeMarker, Images
<1>4. Readout' = Readout /\ ActiveId' = ActiveId /\ Active' = Active
  <2>1. Readout' = Readout BY <1>1 DEF Readout, Frames
  <2>2. ActiveId' = ActiveId BY <1>1 DEF ActiveId, Chain, ChainOf
  <2> QED BY <1>1, <2>1, <2>2 DEF Active
<1>5. DeviceFollows' /\ CallsRun' /\ Young'
      BY <1>1 DEF DirectoryInv, DeviceFollows, CallsRun, Young, NoneYounger
<1>6. BoundaryFits' BY <1>1, <1>4 DEF DirectoryInv, BoundaryFits
<1>7. RotationReady' /\ WriteFits' /\ Staging'
      BY <1>1, <1>4 DEF DirectoryInv, RotationReady, WriteFits, Staging, ActiveClosed
<1>8. NextMarker' = NextMarker /\ StagedNames' = StagedNames BY <1>1 DEF NextMarker, StagedNames
<1>9. StagedStands' BY <1>1, <1>8 DEF DirectoryInv, StagedStands, StagedLog
<1>10. FlightStands' BY <1>1, <1>8 DEF DirectoryInv, FlightStands, Covers, LastLogged
<1> QED BY <1>2, <1>3, <1>5, <1>6, <1>7, <1>9, <1>10 DEF DirectoryInv

LEMMA NextKeeps == ASSUME DirectoryInv, [SegmentNext]_segmentVars PROVE DirectoryInv'
<1>1. CASE AcquireDirectory BY <1>1, AcquireKeeps
<1>2. CASE CreateMarker BY <1>2, CreateMarkerKeeps
<1>3. CASE MarkerWritten BY <1>3, MarkerWrittenKeeps
<1>4. CASE MarkerFails BY <1>4, MarkerFailsKeeps
<1>5. CASE RecoverInitialization BY <1>5, RecoverKeeps
<1>6. CASE OpenNew BY <1>6, OpenNewKeeps
<1>7. CASE OpenChain BY <1>7, OpenChainKeeps
<1>8. CASE CleanedUp BY <1>8, CleanedUpKeeps
<1>9. CASE CleanupFails BY <1>9, CleanupFailsKeeps
<1>10. CASE CloseSegment BY <1>10, CloseSegmentKeeps
<1>11. CASE CreateSegment BY <1>11, CreateSegmentKeeps
<1>12. CASE RotationFails BY <1>12, RotationFailsKeeps
<1>13. ASSUME NEW batch \in SegmentBatches, AppendFrames(batch) PROVE DirectoryInv'
       BY <1>13, AppendFramesKeeps
<1>14. CASE Appended BY <1>14, AppendedKeeps
<1>15. CASE AppendRefused BY <1>15, AppendRefusedKeeps
<1>16. CASE AppendFails BY <1>16, AppendFailsKeeps
<1>17. CASE SyncSegment BY <1>17, SyncSegmentKeeps
<1>18. CASE SyncSegmentFails BY <1>18, SyncSegmentFailsKeeps
<1>19. CASE CaptureCutover BY <1>19, CaptureCutoverKeeps
<1>20. CASE captured # Nothing /\ BeginCutover(captured) BY <1>20, BeginCutoverKeeps
<1>21. CASE StageFrame BY <1>21, StageFrameKeeps
<1>22. CASE StageRotates BY <1>22, StageRotatesKeeps
<1>23. CASE StageFinished BY <1>23, StageFinishedKeeps
<1>24. CASE PublishMarker BY <1>24, PublishMarkerKeeps
<1>25. CASE SyncMarker BY <1>25, SyncMarkerKeeps
<1>26. CASE Installed BY <1>26, InstalledKeeps
<1>27. CASE InstallUnlisted BY <1>27, InstallUnlistedKeeps
<1>28. CASE CutoverFails BY <1>28, CutoverFailsKeeps
<1>29. CASE CloseDirectory BY <1>29, CloseDirectoryKeeps
<1>30. CASE WriterDies BY <1>30, WriterDiesKeeps
<1>31. CASE LosePowerOfDirectory BY <1>31, LosePowerKeeps
<1>32. CASE UNCHANGED segmentVars BY <1>32, NothingKeeps
<1> QED BY <1>1, <1>2, <1>3, <1>4, <1>5, <1>6, <1>7, <1>8, <1>9, <1>10, <1>11, <1>12, <1>13,
           <1>14, <1>15, <1>16, <1>17, <1>18, <1>19, <1>20, <1>21, <1>22, <1>23, <1>24, <1>25,
           <1>26, <1>27, <1>28, <1>29, <1>30, <1>31, <1>32 DEF SegmentNext

\* The inductive invariant of the segmented journal: a directory that holds
\* nothing, or in which the marker that is read and the one on the device each
\* select segments that hold a log with what was settled; and what a running
\* rotation, append or cutover has got to.
THEOREM DirectoryInvariant == SegmentSpec => []DirectoryInv
<1>1. SegmentInit => DirectoryInv BY InitKeeps
<1>2. DirectoryInv /\ [SegmentNext]_segmentVars => DirectoryInv' BY NextKeeps
<1> QED BY <1>1, <1>2, PTL DEF SegmentSpec

\* What a power failure leaves of the directory, at any moment of an opening,
\* an append, a rotation or a cutover, opens again (discover_segments and the
\* verifications behind it) with every frame that was reported durable.
THEOREM EveryCrashOpensAlways == SegmentSpec => []EveryCrashOpens
<1>1. DirectoryInv => EveryCrashOpens BY CrashOpens
<1> QED BY <1>1, DirectoryInvariant, PTL

----------------------------------------------------------------------------
(* What the steps of an opening read *)

LEMMA BareReadout == ASSUME Bare PROVE Readout = FirstLog
BY BareReads DEF Bare, Readout

LEMMA BareStepReads ==
    ASSUME Bare, directory'.names = {}, directory'.marker \in {Nothing, Torn, Marker(1, 1)}
    PROVE  Readout' = Readout
<1>1. Readout' = FirstLog BY BareReads DEF Readout
<1> QED BY <1>1, BareReadout

\* Until its segments are chosen, an opening does not change what is read.
LEMMA MarkingReads ==
    ASSUME DirectoryInv, CreateMarker \/ MarkerWritten \/ MarkerFails \/ RecoverInitialization
    PROVE  Readout' = Readout
<1>1. Bare
  <2>1. CASE CreateMarker
    <3>1. ~Readable(directory.marker) BY <2>1, MarkersAre DEF CreateMarker, NoDirectory
    <3> QED BY <3>1, UnmarkedIsBare
  <2>2. CASE MarkerWritten \/ MarkerFails BY <2>2, UnmarkedIsBare DEF MarkerWritten, MarkerFails
  <2>3. CASE RecoverInitialization
        BY <2>3, MarkersAre, UnmarkedIsBare DEF RecoverInitialization
  <2> QED BY <2>1, <2>2, <2>3
<1>2. directory \in Directories /\ directory.names = {} BY <1>1 DEF DirectoryInv, DirectoryTypes, Bare
<1>3. ASSUME NEW left \in {Nothing, Torn, Marker(1, 1)}
      PROVE  /\ [directory EXCEPT !.marker = left].names = {}
             /\ [directory EXCEPT !.marker = left].marker = left
      BY <1>2, <1>3 DEF Directories
<1>4. NoDirectory.names = {} /\ NoDirectory.marker = Nothing BY DEF NoDirectory
<1>5. directory'.names = {} /\ directory'.marker \in {Nothing, Torn, Marker(1, 1)}
  <2>1. CASE CreateMarker BY <2>1, <1>3 DEF CreateMarker
  <2>2. CASE MarkerWritten BY <2>2, <1>3 DEF MarkerWritten
  <2>3. CASE MarkerFails BY <2>3, <1>3 DEF MarkerFails
  <2>4. CASE RecoverInitialization BY <2>4, <1>4 DEF RecoverInitialization
  <2> QED BY <2>1, <2>2, <2>3, <2>4
<1> QED BY <1>1, <1>5, BareStepReads

LEMMA OpeningReads ==
    ASSUME AcquireDirectory \/ OpenChain PROVE Readout' = Readout
<1>1. directory' = directory /\ segments' = segments BY DEF AcquireDirectory, OpenChain
<1> QED BY <1>1 DEF Readout, Frames

LEMMA OpenNewReads == ASSUME DirectoryInv, OpenNew PROVE Readout' = Readout
<1>1. /\ Bare /\ directory'.names = {<<1, 1>>} /\ directory'.marker = Marker(1, 1)
      /\ Stood(Marker(1, 1), {<<1, 1>>}, {<<1, 1>>}, segments', FirstLog, 0)
      BY NewIsBare
<1>2. LogIn(Marker(1, 1), {<<1, 1>>}, ContentsOf(segments')) = FirstLog BY <1>1, StoodContents
<1>3. Readout' = FirstLog BY <1>1, <1>2 DEF Readout, Frames, ContentsOf
<1> QED BY <1>1, <1>3, BareReadout

----------------------------------------------------------------------------
(* The state of the abstract log *)

Seen == IF barrier # "SyncAll" THEN FirstLog ELSE IF call # Nothing THEN call.log ELSE Readout
Sent == IF barrier = "SyncAll" /\ call # Nothing THEN call.flight ELSE Nothing
Mode == IF barrier # "SyncAll" \/ doing \in Opening THEN "closed"
        ELSE IF doing = "poisoned" THEN "poisoned"
        ELSE IF call # Nothing THEN "writing" ELSE "open"

Resting == barrier = "SyncAll" /\ call = Nothing
Running == barrier = "SyncAll" /\ call # Nothing /\ doing \in Calling

LEMMA RestingIs ==
    ASSUME Resting
    PROVE  /\ Seen = Readout /\ Sent = Nothing
           /\ doing \in Opening => Mode = "closed"
           /\ doing \in {"open", "rotating"} => Mode = "open"
           /\ doing = "poisoned" => Mode = "poisoned"
BY DEF Resting, Seen, Sent, Mode, Opening

LEMMA RestingNext ==
    ASSUME Resting'
    PROVE  /\ Seen' = Readout' /\ Sent' = Nothing
           /\ doing' \in Opening => Mode' = "closed"
           /\ doing' \in {"open", "rotating"} => Mode' = "open"
           /\ doing' = "poisoned" => Mode' = "poisoned"
BY DEF Resting, Seen, Sent, Mode, Opening

LEMMA RunningIs ==
    ASSUME Running PROVE Seen = call.log /\ Sent = call.flight /\ Mode = "writing"
BY DEF Running, Seen, Sent, Mode, Opening, Calling

LEMMA RunningNext ==
    ASSUME Running' PROVE Seen' = call'.log /\ Sent' = call'.flight /\ Mode' = "writing"
BY DEF Running, Seen, Sent, Mode, Opening, Calling

LEMMA RestsOrRuns ==
    ASSUME DirectoryInv, barrier = "SyncAll"
    PROVE  /\ doing \notin Calling => Resting
           /\ doing \in Calling => Running
BY DEF DirectoryInv, CallsRun, Resting, Running

LEMMA RestsOrRunsNext ==
    ASSUME DirectoryInv', barrier' = "SyncAll"
    PROVE  /\ doing' \notin Calling => Resting'
           /\ doing' \in Calling => Running'
BY DEF DirectoryInv, CallsRun, Resting, Running

----------------------------------------------------------------------------
(* The abstract steps *)

Abstractly == [Log!LogNext(SegmentBodies, {SegmentAnchor}, SegmentFrames)]_Log!logVars

LEMMA ToSame ==
    ASSUME Seen' = Seen, Sent' = Sent, Mode' = Mode, survivors' = survivors PROVE Abstractly
<1>1. UNCHANGED Log!logVars BY DEF Log!logVars, Seen, Sent, Mode
<1> QED BY <1>1 DEF Abstractly

LEMMA BeginsIs ==
    ASSUME NEW x, NEW y PROVE Log!Begins(x, y) = (x.first = y.first /\ IsPrefix(x.bodies, y.bodies))
BY DEF Log!Begins, Log!IsPrefix, IsPrefix

LEMMA PartsAre == ASSUME NEW x, NEW y PROVE Log!PartsOf(x, y) = Parts(x, y)
BY BeginsIs DEF Log!PartsOf, Parts

LEMMA ToOpenLog ==
    ASSUME Mode = "closed", Mode' = "open", Seen' = Seen, Sent' = Sent,
           survivors' = {s \in survivors : s.first = Seen.first /\ IsPrefix(s.bodies, Seen.bodies)}
    PROVE  Abstractly
<1>1. survivors' = {s \in survivors : Log!Begins(s, Seen)} BY BeginsIs
<1>2. Log!OpenLog BY <1>1 DEF Log!OpenLog, Seen, Sent, Mode
<1> QED BY <1>2 DEF Abstractly, Log!LogNext

LEMMA ToAcknowledge ==
    ASSUME Mode = "writing", Mode' = "open", Sent' = Nothing, Seen' = Sent, survivors' = {Sent}
    PROVE  Abstractly
<1>1. Log!Acknowledge BY DEF Log!Acknowledge, Seen, Sent, Mode
<1> QED BY <1>1 DEF Abstractly, Log!LogNext

LEMMA ToRefuse ==
    ASSUME Mode = "writing", Mode' = "open", Sent' = Nothing, Seen' = Seen, survivors' = survivors
    PROVE  Abstractly
<1>1. Log!Refuse BY DEF Log!Refuse, Seen, Sent, Mode
<1> QED BY <1>1 DEF Abstractly, Log!LogNext

LEMMA ToFail ==
    ASSUME Mode = "writing", Mode' = "poisoned", Sent' = Nothing, Seen' \in Parts(Seen, Sent),
           survivors' = survivors \cup Parts(Seen, Sent)
    PROVE  Abstractly
<1>1. Log!PartsOf(Seen, Sent) = Parts(Seen, Sent) BY PartsAre
<1>2. Seen' \in Log!PartsOf(Seen, Sent) /\ survivors' = survivors \cup Log!PartsOf(Seen, Sent) BY <1>1
<1>3. Log!Fail BY <1>2 DEF Log!Fail, Seen, Sent, Mode
<1> QED BY <1>3 DEF Abstractly, Log!LogNext

LEMMA ToSyncLog ==
    ASSUME Mode = "open", Mode' = Mode, Sent' = Sent, Seen' = Seen, survivors' = {Seen}
    PROVE  Abstractly
<1>1. Log!SyncLog BY DEF Log!SyncLog, Seen, Sent, Mode
<1> QED BY <1>1 DEF Abstractly, Log!LogNext

LEMMA ToSyncLogFails ==
    ASSUME Mode = "open", Mode' = "poisoned", Sent' = Sent, Seen' = Seen, survivors' = survivors
    PROVE  Abstractly
<1>1. Log!SyncLogFails BY DEF Log!SyncLogFails, Seen, Sent, Mode
<1> QED BY <1>1 DEF Abstractly, Log!LogNext

LEMMA ToCloseLog ==
    ASSUME Mode = "open", Mode' = "closed", Sent' = Sent, Seen' = Seen, survivors' = {Seen}
    PROVE  Abstractly
<1>1. Log!CloseLog BY DEF Log!CloseLog, Seen, Sent, Mode
<1> QED BY <1>1 DEF Abstractly, Log!LogNext

LEMMA ToDropLog ==
    ASSUME Mode' = "closed", Sent' = Nothing,
           IF Mode = "writing"
           THEN Seen' \in Parts(Seen, Sent) /\ survivors' = survivors \cup Parts(Seen, Sent)
           ELSE Seen' = Seen /\ survivors' = survivors
    PROVE  Abstractly
<1>1. Log!PartsOf(Seen, Sent) = Parts(Seen, Sent) BY PartsAre
<1>2. IF Mode = "writing"
      THEN Seen' \in Log!PartsOf(Seen, Sent) /\ survivors' = survivors \cup Log!PartsOf(Seen, Sent)
      ELSE Seen' = Seen /\ survivors' = survivors BY <1>1
<1>3. Log!DropLog BY <1>2 DEF Log!DropLog, Seen, Sent, Mode
<1> QED BY <1>3 DEF Abstractly, Log!LogNext

LEMMA ToLosePower ==
    ASSUME Mode' = "closed", Sent' = Nothing, survivors' = {Seen'},
           Seen' \in survivors \cup (IF Mode = "writing" THEN Parts(Seen, Sent) ELSE {})
    PROVE  Abstractly
<1>1. Log!PartsOf(Seen, Sent) = Parts(Seen, Sent) BY PartsAre
<1>2. Seen' \in survivors \cup (IF Mode = "writing" THEN Log!PartsOf(Seen, Sent) ELSE {}) BY <1>1
<1>3. Log!LosePower BY <1>2 DEF Log!LosePower, Seen, Sent, Mode
<1> QED BY <1>3 DEF Abstractly, Log!LogNext

LEMMA ToAppend ==
    ASSUME Mode = "open", Mode' = "writing", Seen' = Seen, survivors' = survivors,
           NEW batch \in Seq(SegmentBodies), Len(batch) <= SegmentFrames,
           Sent' = [Seen EXCEPT !.bodies = @ \o batch]
    PROVE  Abstractly
<1>1. batch \in Log!SeqOf(SegmentBodies, SegmentFrames)
  <2>1. Len(batch) \in 0 .. SegmentFrames BY LenProperties, SegmentAssumption
  <2>2. batch \in [1 .. Len(batch) -> SegmentBodies] BY LenProperties
  <2> QED BY <2>1, <2>2 DEF Log!SeqOf
<1>2. Sent' = Log!Extended(Seen, batch) BY DEF Log!Extended
<1>3. Log!Write(Log!Extended(Seen, batch)) BY <1>2 DEF Log!Write, Seen, Sent, Mode
<1> QED BY <1>1, <1>3 DEF Abstractly, Log!LogNext, Seen

LEMMA ToReplace ==
    ASSUME Mode = "open", Mode' = "writing", Seen' = Seen, survivors' = survivors,
           NEW at \in Seen.first .. LastLogged(Seen), Sent' = NewLog(Seen, at)
    PROVE  Abstractly
<1>1. at \in Seen.first .. Log!LastSequence(Seen) BY DEF Log!LastSequence, LastLogged
<1>2. Sent' = Log!Replaced(Seen, at, SegmentAnchor)
      BY DEF Log!Replaced, Log!Behind, NewLog, Behind
<1>3. Log!Write(Log!Replaced(Seen, at, SegmentAnchor)) BY <1>2 DEF Log!Write, Seen, Sent, Mode
<1> QED BY <1>1, <1>3 DEF Abstractly, Log!LogNext, Seen

----------------------------------------------------------------------------
(* Every step is one of the abstract log, or none *)

\* What an opening, a rotation or a capture does, the log does not see.
LEMMA RestingSame ==
    ASSUME Resting, Resting', Readout' = Readout, survivors' = survivors,
           \/ doing \in Opening /\ doing' \in Opening
           \/ doing \in {"open", "rotating"} /\ doing' \in {"open", "rotating"}
    PROVE  Abstractly
<1>1. Seen' = Seen /\ Sent' = Sent BY RestingIs, RestingNext
<1>2. Mode' = Mode BY RestingIs, RestingNext
<1> QED BY <1>1, <1>2, ToSame

LEMMA OpeningSteps ==
    ASSUME DirectoryInv, DirectoryInv', barrier = "SyncAll",
           \/ AcquireDirectory \/ CreateMarker \/ MarkerWritten \/ MarkerFails
           \/ RecoverInitialization \/ OpenNew \/ OpenChain \/ CleanedUp \/ CleanupFails
    PROVE  Abstractly
<1>1. /\ doing \in Opening /\ barrier' = "SyncAll" /\ doing' \in Opening \cup {"open"}
      /\ doing' = "open" => CleanedUp
      BY DEF AcquireDirectory, CreateMarker, MarkerWritten, MarkerFails, RecoverInitialization,
             OpenNew, OpenChain, CleanedUp, CleanupFails, Opening
<1>2. Resting /\ Resting'
      BY <1>1, RestsOrRuns, RestsOrRunsNext DEF Opening, Calling
<1>3. Readout' = Readout
      BY MarkingReads, OpeningReads, OpenNewReads, CleanedUpKeeps, CleanupFailsKeeps
<1>4. CASE CleanedUp
  <2>1. doing' = "open" /\ survivors' = {s \in survivors : s.first = Readout.first /\ IsPrefix(s.bodies, Readout.bodies)}
        BY <1>4 DEF CleanedUp, Opened
  <2>2. Mode = "closed" /\ Mode' = "open" /\ Seen = Readout /\ Seen' = Readout' /\ Sent' = Sent
        BY <1>1, <1>2, <2>1, RestingIs, RestingNext
  <2> QED BY <1>3, <2>1, <2>2, ToOpenLog
<1>5. CASE ~CleanedUp
  <2>1. survivors' = survivors
        BY <1>5 DEF AcquireDirectory, CreateMarker, MarkerWritten, MarkerFails, RecoverInitialization,
               OpenNew, OpenChain, CleanupFails, Unsettled
  <2>2. doing' \in Opening BY <1>1, <1>5
  <2> QED BY <1>1, <1>2, <1>3, <2>1, <2>2, RestingSame
<1> QED BY <1>4, <1>5

LEMMA SyncSteps ==
    ASSUME DirectoryInv, DirectoryInv', barrier = "SyncAll",
           \/ CloseSegment \/ SyncSegment \/ CreateSegment \/ RotationFails \/ SyncSegmentFails
           \/ CaptureCutover \/ CloseDirectory
    PROVE  Abstractly
<1>1. /\ doing \in {"open", "rotating"} /\ barrier' = "SyncAll"
      /\ doing' \in {"open", "rotating", "poisoned", "closed"}
      BY DEF CloseSegment, SyncSegment, CreateSegment, RotationFails, SyncSegmentFails,
             CaptureCutover, CloseDirectory
<1>2. Resting /\ Resting'
      BY <1>1, RestsOrRuns, RestsOrRunsNext DEF Calling
<1>3. Readout' = Readout
      BY CloseSegmentKeeps, SyncSegmentKeeps, CreateSegmentKeeps, RotationFailsKeeps,
         SyncSegmentFailsKeeps, CaptureCutoverKeeps, CloseDirectoryKeeps
<1>4. Mode = "open" /\ Seen = Readout /\ Seen' = Seen /\ Sent' = Sent
      BY <1>1, <1>2, <1>3, RestingIs, RestingNext
<1>5. CASE CloseSegment \/ SyncSegment
  <2>1. survivors' = {Readout} /\ doing' \in {"open", "rotating"}
        BY <1>5 DEF CloseSegment, SyncSegment, Settle
  <2>2. Mode' = "open" BY <1>2, <2>1, RestingNext
  <2> QED BY <1>4, <2>1, <2>2, ToSyncLog
<1>6. CASE CloseDirectory
  <2>1. survivors' = {Readout} /\ doing' = "closed" BY <1>6 DEF CloseDirectory, Settle
  <2>2. Mode' = "closed" BY <1>2, <2>1, RestingNext DEF Opening
  <2> QED BY <1>4, <2>1, <2>2, ToCloseLog
<1>7. CASE RotationFails \/ SyncSegmentFails
  <2>1. survivors' = survivors /\ doing' = "poisoned"
        BY <1>7 DEF RotationFails, SyncSegmentFails, Unsettled
  <2>2. Mode' = "poisoned" BY <1>2, <2>1, RestingNext
  <2> QED BY <1>4, <2>1, <2>2, ToSyncLogFails
<1>8. CASE CreateSegment \/ CaptureCutover
  <2>1. survivors' = survivors /\ doing' \in {"open", "rotating"}
        BY <1>8 DEF CreateSegment, CaptureCutover, Unsettled
  <2> QED BY <1>1, <1>2, <1>3, <2>1, RestingSame
<1> QED BY <1>5, <1>6, <1>7, <1>8

LEMMA BeginningSteps ==
    ASSUME DirectoryInv, DirectoryInv', barrier = "SyncAll",
           \/ \E batch \in SegmentBatches : AppendFrames(batch)
           \/ captured # Nothing /\ BeginCutover(captured)
    PROVE  Abstractly
<1>1. doing = "open" /\ doing' \in Calling /\ barrier' = "SyncAll" /\ survivors' = survivors
      BY DEF AppendFrames, BeginCutover, Unsettled, Calling
<1>2. Resting /\ Running' BY <1>1, RestsOrRuns, RestsOrRunsNext DEF Calling
<1>3. Mode = "open" /\ Seen = Readout /\ Mode' = "writing" /\ Seen' = call'.log /\ Sent' = call'.flight
      BY <1>1, <1>2, RestingIs, RunningNext
<1>4. ASSUME NEW batch \in SegmentBatches, AppendFrames(batch) PROVE Abstractly
  <2>1. /\ Len(batch) <= SegmentFrames
        /\ call'.log = Readout /\ call'.flight = [Readout EXCEPT !.bodies = @ \o batch]
        BY <1>4 DEF AppendFrames
  <2>2. batch \in Seq(SegmentBodies) BY BatchesAre
  <2>3. Sent' = [Seen EXCEPT !.bodies = @ \o batch] /\ Seen' = Seen BY <1>3, <2>1
  <2> QED BY <1>1, <1>3, <2>1, <2>2, <2>3, ToAppend
<1>5. ASSUME captured # Nothing, BeginCutover(captured) PROVE Abstractly
  <2>1. /\ call'.log = Readout /\ call'.flight = NewLog(Readout, captured.at)
        /\ captured.at \in Readout.first .. LastLogged(Readout)
        BY <1>5, BeginCutoverKeeps
  <2>2. Sent' = NewLog(Seen, captured.at) /\ Seen' = Seen BY <1>3, <2>1
  <2>3. captured.at \in Seen.first .. LastLogged(Seen) BY <1>3, <2>1
  <2> QED BY <1>1, <1>3, <2>2, <2>3, ToReplace
<1> QED BY <1>4, <1>5

\* The new generation is written and selected under the call.
LEMMA CutoverSteps ==
    ASSUME DirectoryInv, DirectoryInv', barrier = "SyncAll",
           StageFrame \/ StageRotates \/ StageFinished \/ PublishMarker \/ SyncMarker
    PROVE  Abstractly
<1>1. doing \in Calling /\ doing' \in Calling /\ barrier' = "SyncAll" /\ survivors' = survivors
      BY DEF StageFrame, StageRotates, StageFinished, PublishMarker, SyncMarker, Unsettled, Calling
<1>2. Running /\ Running' BY <1>1, RestsOrRuns, RestsOrRunsNext
<1>3. call'.log = call.log /\ call'.flight = call.flight
      BY StageFrameKeeps, StageRotatesKeeps, StageFinishedKeeps, PublishMarkerKeeps, SyncMarkerKeeps
<1>4. Seen' = Seen /\ Sent' = Sent /\ Mode' = Mode BY <1>2, <1>3, RunningIs, RunningNext
<1> QED BY <1>1, <1>4, ToSame

LEMMA ReturningSteps ==
    ASSUME DirectoryInv, DirectoryInv', barrier = "SyncAll",
           \/ Appended \/ AppendRefused \/ AppendFails \/ Installed \/ InstallUnlisted \/ CutoverFails
    PROVE  Abstractly
<1>1. /\ doing \in Calling /\ doing' \in {"open", "poisoned"} /\ barrier' = "SyncAll"
      BY DEF Appended, AppendRefused, AppendFails, Installed, InstallUnlisted, CutoverFails, Calling
<1>2. Running /\ Resting' BY <1>1, RestsOrRuns, RestsOrRunsNext DEF Calling
<1>3. /\ Mode = "writing" /\ Seen = call.log /\ Sent = call.flight
      /\ Seen' = Readout' /\ Sent' = Nothing
      BY <1>2, RunningIs, RestingNext
<1>4. CASE Appended \/ Installed \/ InstallUnlisted
  <2>1. doing' = "open" /\ survivors' = {call.flight}
        BY <1>4 DEF Appended, Installed, InstallUnlisted, Settle
  <2>2. Mode' = "open" BY <1>2, <2>1, RestingNext
  <2>3. Readout' = call.flight BY <1>4, AppendedKeeps, InstalledKeeps, InstallUnlistedKeeps
  <2> QED BY <1>3, <2>1, <2>2, <2>3, ToAcknowledge
<1>5. CASE AppendRefused
  <2>1. doing = "writing" /\ doing' = "open" /\ survivors' = survivors
        BY <1>5 DEF AppendRefused, Unsettled
  <2>2. Mode' = "open" BY <1>2, <2>1, RestingNext
  <2>3. Readout' = Readout BY <1>5, AppendRefusedKeeps
  <2>4. Readout = call.log BY <1>2, <2>1, CallReads DEF Running
  <2> QED BY <1>3, <2>1, <2>2, <2>3, <2>4, ToRefuse
<1>6. CASE AppendFails \/ CutoverFails
  <2>1. doing' = "poisoned" /\ survivors' = survivors \cup Parts(call.log, call.flight)
        BY <1>6 DEF AppendFails, CutoverFails, Unfinished
  <2>2. Mode' = "poisoned" BY <1>2, <2>1, RestingNext
  <2>3. Readout' \in Parts(call.log, call.flight) BY <1>6, AppendFailsKeeps, CutoverFailsKeeps
  <2> QED BY <1>3, <2>1, <2>2, <2>3, ToFail
<1> QED BY <1>4, <1>5, <1>6

LEMMA EndingSteps ==
    ASSUME DirectoryInv, DirectoryInv', barrier = "SyncAll", WriterDies \/ LosePowerOfDirectory
    PROVE  Abstractly
<1>1. doing' = "closed" /\ barrier' = "SyncAll" BY DEF WriterDies, LosePowerOfDirectory
<1>2. Resting' BY <1>1, RestsOrRunsNext DEF Calling
<1>3. Mode' = "closed" /\ Seen' = Readout' /\ Sent' = Nothing
      BY <1>1, <1>2, RestingNext DEF Opening
<1>4. CASE doing \in Calling
  <2>1. Running BY <1>4, RestsOrRuns
  <2>2. Mode = "writing" /\ Seen = call.log /\ Sent = call.flight /\ call # Nothing
        BY <2>1, RunningIs DEF Running
  <2>3. CASE WriterDies
    <3>1. survivors' = survivors \cup Parts(call.log, call.flight)
          BY <2>2, <2>3 DEF WriterDies, Unfinished
    <3>2. Readout' \in Parts(call.log, call.flight) BY <2>2, <2>3, WriterDiesKeeps
    <3> QED BY <1>3, <2>2, <3>1, <3>2, ToDropLog
  <2>4. CASE LosePowerOfDirectory
    <3>1. Readout' \in survivors \cup Parts(call.log, call.flight) /\ survivors' = {Readout'}
          BY <2>2, <2>4, LosePowerKeeps DEF CrashImages
    <3> QED BY <1>3, <2>2, <3>1, ToLosePower
  <2> QED BY <2>3, <2>4
<1>5. CASE doing \notin Calling
  <2>1. Resting BY <1>5, RestsOrRuns
  <2>2. call = Nothing /\ Seen = Readout /\ Sent = Nothing /\ Mode # "writing"
        BY <2>1 DEF Resting, Seen, Sent, Mode
  <2>3. CASE WriterDies
    <3>1. survivors' = survivors BY <2>2, <2>3 DEF WriterDies, Unsettled
    <3>2. Readout' = Readout BY <2>2, <2>3, WriterDiesKeeps
    <3> QED BY <1>3, <2>2, <3>1, <3>2, ToDropLog
  <2>4. CASE LosePowerOfDirectory
    <3>1. Readout' \in survivors /\ survivors' = {Readout'}
          BY <2>2, <2>4, LosePowerKeeps DEF CrashImages
    <3> QED BY <1>3, <2>2, <3>1, ToLosePower
  <2> QED BY <2>3, <2>4
<1> QED BY <1>4, <1>5

\* Without a barrier nothing is promised, and the abstract log does not move.
LEMMA BufferedSteps ==
    ASSUME DirectoryInv, barrier # "SyncAll", [SegmentNext]_segmentVars
    PROVE  Abstractly
<1>1. barrier' = barrier
      BY DEF SegmentNext, segmentVars,
             AcquireDirectory, CreateMarker, MarkerWritten, MarkerFails, RecoverInitialization,
             OpenNew, OpenChain, CleanedUp, CleanupFails, CloseSegment, CreateSegment, RotationFails,
             AppendFrames, Appended, AppendRefused, AppendFails, SyncSegment, SyncSegmentFails,
             CaptureCutover, BeginCutover, StageFrame, StageRotates, StageFinished, PublishMarker,
             SyncMarker, Installed, InstallUnlisted, CutoverFails, CloseDirectory, WriterDies,
             LosePowerOfDirectory
<1>2. survivors' = survivors
      BY DEF SegmentNext, segmentVars, Settle, Unsettled, Unfinished,
             AcquireDirectory, CreateMarker, MarkerWritten, MarkerFails, RecoverInitialization,
             OpenNew, OpenChain, CleanedUp, CleanupFails, CloseSegment, CreateSegment, RotationFails,
             AppendFrames, Appended, AppendRefused, AppendFails, SyncSegment, SyncSegmentFails,
             CaptureCutover, BeginCutover, StageFrame, StageRotates, StageFinished, PublishMarker,
             SyncMarker, Installed, InstallUnlisted, CutoverFails, CloseDirectory, WriterDies,
             LosePowerOfDirectory
<1>3. Seen' = Seen /\ Sent' = Sent /\ Mode' = Mode BY <1>1 DEF Seen, Sent, Mode
<1> QED BY <1>2, <1>3, ToSame

LEMMA SegmentMoves ==
    ASSUME DirectoryInv, [SegmentNext]_segmentVars PROVE Abstractly
<1>1. DirectoryInv' BY NextKeeps
<1>2. CASE barrier # "SyncAll" BY <1>2, BufferedSteps
<1>3. CASE barrier = "SyncAll" /\ UNCHANGED segmentVars
  <2>1. /\ directory' = directory /\ segments' = segments /\ doing' = doing /\ call' = call
        /\ barrier' = barrier /\ survivors' = survivors BY <1>3 DEF segmentVars
  <2>2. Readout' = Readout BY <2>1 DEF Readout, Frames
  <2> QED BY <2>1, <2>2, ToSame DEF Seen, Sent, Mode
<1>4. CASE barrier = "SyncAll" /\ SegmentNext
      BY <1>1, <1>4, OpeningSteps, SyncSteps, BeginningSteps, CutoverSteps, ReturningSteps, EndingSteps
      DEF SegmentNext
<1> QED BY <1>2, <1>3, <1>4

\* With a barrier behind each append, the directory of segments is the one log
\* of RecordLog to whoever writes to it: a rotation is a synchronization, a
\* cutover replaces the log as one call, and a failure or a crash at any point
\* of either leaves the log before or the log after.
THEOREM SegmentsImplementRecordLog == SegmentSpec => ImplementsRecordLog
<1>1. SegmentInit => Log!LogInit
  <2> SUFFICES ASSUME SegmentInit PROVE Log!LogInit OBVIOUS
  <2>1. /\ directory = NoDirectory /\ doing = "closed" /\ call = Nothing
        /\ survivors = {FirstLog} BY DEF SegmentInit
  <2>2. Readout = FirstLog BY <2>1, BareReads DEF Readout, NoDirectory
  <2>3. Log!EmptyLog = FirstLog BY DEF Log!EmptyLog, FirstLog
  <2> QED BY <2>1, <2>2, <2>3 DEF Log!LogInit, Opening
<1>2. DirectoryInv /\ [SegmentNext]_segmentVars
         => [Log!LogNext(SegmentBodies, {SegmentAnchor}, SegmentFrames)]_Log!logVars
      BY SegmentMoves DEF Abstractly
<1> QED BY <1>1, <1>2, DirectoryInvariant, PTL DEF SegmentSpec, ImplementsRecordLog, LogSpec

==============================================================================
