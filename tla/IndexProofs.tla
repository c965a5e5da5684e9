---------------------------- MODULE IndexProofs ----------------------------
(***************************************************************************)
(* The indexes of an order book, for all their constants.                  *)
(*                                                                         *)
(* The hash index is the map its caller believes in: for every set of keys *)
(* and values, every capacity and whatever hashes the keys have.  Between  *)
(* operations no key has a vacant bucket before its own, so that no search *)
(* ends before it.  While a removal is under way there is one exception,   *)
(* the hole: but the keys whose searches lead through it stand in front of *)
(* the scan, which has not come to a vacant bucket yet.  When it comes to  *)
(* one, there are no such keys left.                                       *)
(*                                                                         *)
(* The histories of an order book keep their tails, and every preparation  *)
(* that may still be committed says what preparing it now would, for all   *)
(* limits that OrderBookLimits::new accepts.                               *)
(***************************************************************************)
EXTENDS ProbeTable, BookHistory, FiniteSetTheorems, WellFoundedInduction, TLAPS

----------------------------------------------------------------------------
(* The hash index *)

Entries == [key : TableKeys, value : TableValues, bucket : Places]
BucketRecords == [hash : Nat, entry : Nat]

TableTypeOK ==
    /\ hashOf \in [TableKeys -> Nat]
    /\ entries \in Seq(Entries) /\ Len(entries) <= Maximum
    /\ buckets \in [Places -> BucketRecords]

\* The entries that are not being removed.
Live == IF removal = Idle THEN DOMAIN entries ELSE DOMAIN entries \ {removal.entry}

HomeOf(i) == Home(hashOf[entries[i].key])

\* Entries and buckets lead to each other.
CrossLinks ==
    /\ \A i \in Live : buckets[entries[i].bucket] = Occupied(hashOf[entries[i].key], i)
    /\ \A place \in Places : buckets[place] # Vacant =>
         buckets[place].entry \in Live /\ entries[buckets[place].entry].bucket = place

EntriesArePlain ==
    /\ \A i, j \in Live : entries[i].key = entries[j].key => i = j
    /\ \A i \in Live : entries[i].key \in DOMAIN plain /\ plain[entries[i].key] = entries[i].value
    /\ \A key \in DOMAIN plain : \E i \in Live : entries[i].key = key

\* Before its own bucket the search for a key passes no vacant one but the
\* hole.
ChainsClosed ==
    \A i \in Live : \A place \in Places :
        Distance(HomeOf(i), place) < Distance(HomeOf(i), entries[i].bucket) =>
          \/ buckets[place] # Vacant
          \/ removal # Idle /\ place = removal.hole

RemovalKnows ==
    removal # Idle =>
      /\ removal \in [hole : Places, scan : Places, entry : DOMAIN entries]
      /\ removal.hole # removal.scan
      /\ buckets[removal.hole] = Vacant
      /\ \A place \in Places :
           place # removal.hole
             /\ Distance(removal.hole, place) < Distance(removal.hole, removal.scan) =>
             buckets[place] # Vacant
      /\ \E place \in Places : place # removal.hole /\ buckets[place] = Vacant

\* The keys that are reached through the hole are not behind the scan.
ThroughHole ==
    removal # Idle => \A i \in Live :
        Distance(HomeOf(i), removal.hole) < Distance(HomeOf(i), entries[i].bucket) =>
          Distance(removal.hole, entries[i].bucket) >= Distance(removal.hole, removal.scan)

TableInv ==
    /\ TableTypeOK /\ CrossLinks /\ EntriesArePlain
    /\ ChainsClosed /\ RemovalKnows /\ ThroughHole

----------------------------------------------------------------------------
(* Places on a circle *)

\* How far a place is behind another, and which is the next.
LEMMA Circle ==
    /\ \A home, place \in Places :
         /\ Distance(home, place) \in Places
         /\ Distance(home, place) = IF place >= home THEN place - home ELSE place - home + Buckets
    /\ \A place \in Places :
         /\ NextPlace(place) \in Places
         /\ NextPlace(place) = IF place = Buckets - 1 THEN 0 ELSE place + 1
    /\ \A hash \in Nat : Home(hash) \in Places
<1>1. Buckets \in Nat \ {0}
  BY ProbeTableAssumption DEF ProbeTableAssumption
<1>2. ASSUME NEW home \in Places, NEW place \in Places
      PROVE  /\ Distance(home, place) \in Places
             /\ Distance(home, place) = IF place >= home THEN place - home ELSE place - home + Buckets
  BY <1>1 DEF Distance, Places
<1>3. ASSUME NEW place \in Places
      PROVE  /\ NextPlace(place) \in Places
             /\ NextPlace(place) = IF place = Buckets - 1 THEN 0 ELSE place + 1
  BY <1>1 DEF NextPlace, Places
<1>4. ASSUME NEW hash \in Nat PROVE Home(hash) \in Places
  BY <1>1 DEF Home, Places
<1> QED BY <1>2, <1>3, <1>4

\* A place is told by its distance, and the scan's step is one of distance
\* as long as it does not come back to the hole.
LEMMA CircleSteps ==
    ASSUME NEW hole \in Places, NEW scan \in Places
    PROVE  /\ Distance(hole, hole) = 0
           /\ \A place \in Places : Distance(hole, place) = Distance(hole, scan) => place = scan
           /\ \A place \in Places : place # hole => Distance(hole, place) >= 1
           /\ NextPlace(scan) # hole => Distance(hole, NextPlace(scan)) = Distance(hole, scan) + 1
           /\ NextPlace(scan) = hole => Distance(hole, scan) = Buckets - 1
<1>1. Buckets \in Nat \ {0} /\ \A place \in Places : place \in Int /\ 0 <= place /\ place < Buckets
  BY ProbeTableAssumption DEF ProbeTableAssumption, Places
<1>2. ASSUME NEW place \in Places
      PROVE  Distance(hole, place) = IF place >= hole THEN place - hole ELSE place - hole + Buckets
  BY Circle
<1>3. NextPlace(scan) \in Places /\ NextPlace(scan) = IF scan = Buckets - 1 THEN 0 ELSE scan + 1
  BY Circle
<1>4. Distance(hole, hole) = 0
  BY <1>1, <1>2
<1>5. ASSUME NEW place \in Places, Distance(hole, place) = Distance(hole, scan)
      PROVE  place = scan
  <2>1. Distance(hole, scan) = IF scan >= hole THEN scan - hole ELSE scan - hole + Buckets
    BY <1>2
  <2>2. Distance(hole, place) = IF place >= hole THEN place - hole ELSE place - hole + Buckets
    BY <1>2
  <2> QED BY <1>1, <1>5, <2>1, <2>2
<1>6. ASSUME NEW place \in Places, place # hole
      PROVE  Distance(hole, place) >= 1
  BY <1>1, <1>2, <1>6
<1>7. /\ NextPlace(scan) # hole => Distance(hole, NextPlace(scan)) = Distance(hole, scan) + 1
      /\ NextPlace(scan) = hole => Distance(hole, scan) = Buckets - 1
  <2>1. Distance(hole, scan) = IF scan >= hole THEN scan - hole ELSE scan - hole + Buckets
    BY <1>2
  <2>2. Distance(hole, NextPlace(scan)) = IF NextPlace(scan) >= hole THEN NextPlace(scan) - hole
                                          ELSE NextPlace(scan) - hole + Buckets
    BY <1>2, <1>3
  <2> QED BY <1>1, <1>3, <2>1, <2>2
<1> QED BY <1>4, <1>5, <1>6, <1>7

\* What lies behind the scan on a way through the hole has the scan on its
\* way.
LEMMA CircleWay ==
    ASSUME NEW home \in Places, NEW hole \in Places, NEW scan \in Places, NEW place \in Places,
           Distance(home, hole) < Distance(home, place),
           Distance(hole, scan) < Distance(hole, place)
    PROVE  /\ Distance(home, scan) < Distance(home, place)
           /\ Distance(home, hole) <= Distance(home, scan)
<1>1. Buckets \in Nat \ {0} /\ \A p \in Places : p \in Int /\ 0 <= p /\ p < Buckets
  BY ProbeTableAssumption DEF ProbeTableAssumption, Places
<1>2. Distance(home, hole) = IF hole >= home THEN hole - home ELSE hole - home + Buckets
  BY Circle
<1>3. Distance(home, scan) = IF scan >= home THEN scan - home ELSE scan - home + Buckets
  BY Circle
<1>4. Distance(home, place) = IF place >= home THEN place - home ELSE place - home + Buckets
  BY Circle
<1>5. Distance(hole, scan) = IF scan >= hole THEN scan - hole ELSE scan - hole + Buckets
  BY Circle
<1>6. Distance(hole, place) = IF place >= hole THEN place - hole ELSE place - hole + Buckets
  BY Circle
<1>7. /\ home \in Int /\ hole \in Int /\ scan \in Int /\ place \in Int
      /\ 0 <= home /\ 0 <= hole /\ 0 <= scan /\ 0 <= place
      /\ home < Buckets /\ hole < Buckets /\ scan < Buckets /\ place < Buckets
  BY <1>1
<1> QED BY <1>1, <1>2, <1>3, <1>4, <1>5, <1>6, <1>7

----------------------------------------------------------------------------
(* Searches *)

\* Fewer entries than buckets leave one vacant.
LEMMA Room ==
    ASSUME TableTypeOK, CrossLinks, removal = Idle
    PROVE  \E place \in Places : buckets[place] = Vacant
<1> SUFFICES ASSUME \A place \in Places : buckets[place] # Vacant PROVE FALSE
  OBVIOUS
<1>1. /\ Buckets \in Nat \ {0} /\ Maximum \in Nat /\ Buckets >= 2 * Maximum
      /\ Len(entries) \in Nat /\ Len(entries) <= Maximum /\ DOMAIN entries = 1 .. Len(entries)
  BY ProbeTableAssumption DEF ProbeTableAssumption, IsBucketCount, TableTypeOK
<1>2. /\ IsFiniteSet(Places) /\ Cardinality(Places) = Buckets
      /\ IsFiniteSet(1 .. Len(entries)) /\ Cardinality(1 .. Len(entries)) = Len(entries)
  <2>1. IsFiniteSet(Places) /\ Cardinality(Places) = Buckets
    <3>1. 0 \in Int /\ Buckets - 1 \in Int /\ 0 <= Buckets - 1
      BY <1>1
    <3>2. /\ IsFiniteSet(0 .. Buckets - 1)
          /\ Cardinality(0 .. Buckets - 1) = IF 0 > Buckets - 1 THEN 0 ELSE (Buckets - 1) - 0 + 1
      BY <3>1, FS_Interval
    <3> QED BY <1>1, <3>2 DEF Places
  <2>2. IsFiniteSet(1 .. Len(entries)) /\ Cardinality(1 .. Len(entries)) = Len(entries)
    <3>1. 1 \in Int /\ Len(entries) \in Int
      BY <1>1
    <3>2. /\ IsFiniteSet(1 .. Len(entries))
          /\ Cardinality(1 .. Len(entries)) = IF 1 > Len(entries) THEN 0 ELSE Len(entries) - 1 + 1
      BY <3>1, FS_Interval
    <3> QED BY <1>1, <3>2
  <2> QED BY <2>1, <2>2
<1> DEFINE leads == [place \in Places |-> buckets[place].entry]
<1>3. leads \in [Places -> 1 .. Len(entries)]
  BY <1>1 DEF CrossLinks, Live
<1>4. PICK p \in Places, q \in Places : p # q /\ leads[p] = leads[q]
  <2> HIDE DEF leads
  <2>1. Cardinality(1 .. Len(entries)) < Cardinality(Places)
    BY <1>1, <1>2
  <2> QED BY <1>2, <1>3, <2>1, FS_PigeonHole
<1>5. entries[leads[p]].bucket = p /\ entries[leads[q]].bucket = q
  BY DEF CrossLinks
<1> QED BY <1>4, <1>5

LEMMA LeastNumber ==
    ASSUME NEW S \in SUBSET Nat, S # {}
    PROVE  \E n \in S : \A other \in S : n <= other
<1>1. PICK n \in S : \A other \in S : ~(<<other, n>> \in OpToRel(<, Nat))
  BY NatLessThanWellFounded, WFMin
<1>2. ASSUME NEW other \in S PROVE n <= other
  <2>1. ~(other < n)
    BY <1>1 DEF OpToRel
  <2> QED BY <2>1
<1> QED BY <1>2

\* A search ends: among the places where it may there is a first.
LEMMA SearchEnds ==
    ASSUME TableInv, removal = Idle, NEW key \in TableKeys
    PROVE  \E place \in Places : StopsAt(key, place)
<1> DEFINE home == Home(hashOf[key])
           Ends(place) == buckets[place] = Vacant \/ Holds(place, key)
           distances == {Distance(home, place) : place \in {p \in Places : Ends(p)}}
<1>1. home \in Places
  BY Circle DEF TableInv, TableTypeOK
<1>2. distances \in SUBSET Nat /\ distances # {}
  <2>1. ASSUME NEW place \in Places PROVE Distance(home, place) \in Nat
    <3>1. Distance(home, place) \in Places
      BY <1>1, Circle
    <3> QED BY <3>1, ProbeTableAssumption DEF Places, ProbeTableAssumption
  <2> QED BY <2>1, Room DEF TableInv
<1>3. PICK least \in distances : \A other \in distances : least <= other
  <2> HIDE DEF distances
  <2> QED BY <1>2, LeastNumber
<1>4. PICK place \in Places : Ends(place) /\ least = Distance(home, place)
  BY <1>3
<1>5. ASSUME NEW passed \in Places, Distance(home, passed) < Distance(home, place)
      PROVE  buckets[passed] # Vacant /\ ~Holds(passed, key)
  <2>1. CASE Ends(passed)
    <3>1. Distance(home, passed) \in distances
      BY <2>1
    <3>2. Distance(home, place) <= Distance(home, passed)
      BY <3>1, <1>3, <1>4
    <3>3. Distance(home, passed) \in Int /\ Distance(home, place) \in Int
      BY <1>1, Circle DEF Places
    <3> QED BY <3>2, <3>3, <1>5
  <2> QED BY <2>1
<1> QED BY <1>4, <1>5 DEF StopsAt

\* It ends at the key's own bucket if the key is there, else at a vacant one.
LEMMA SearchFinds ==
    ASSUME TableInv, removal = Idle, NEW key \in TableKeys, NEW place \in Places, StopsAt(key, place)
    PROVE  /\ \A i \in DOMAIN entries : entries[i].key = key =>
                Holds(place, key) /\ buckets[place].entry = i
           /\ (\A i \in DOMAIN entries : entries[i].key # key) => buckets[place] = Vacant
<1>1. Live = DOMAIN entries
  BY DEF Live
<1>2. ASSUME NEW i \in DOMAIN entries, entries[i].key = key
      PROVE  Holds(place, key) /\ buckets[place].entry = i
  <2> DEFINE home == Home(hashOf[key])
             own == entries[i].bucket
  <2>1. /\ own \in Places /\ home \in Places /\ HomeOf(i) = home
        /\ entries[i] \in Entries /\ i \in Nat \ {0}
    <3>1. entries[i] \in Entries /\ i \in Nat \ {0} /\ hashOf[key] \in Nat
      BY <1>2 DEF TableInv, TableTypeOK
    <3> QED BY <1>2, <3>1, Circle DEF HomeOf, Entries
  <2>2. /\ buckets[own] = Occupied(hashOf[key], i)
        /\ buckets[own] # Vacant /\ Holds(own, key) /\ buckets[own].entry = i
    BY <1>1, <1>2, <2>1 DEF TableInv, CrossLinks, Holds, Occupied, Vacant
  <2>3. ~(Distance(home, own) < Distance(home, place))
    BY <2>1, <2>2 DEF StopsAt
  <2>4. CASE place = own
    BY <2>2, <2>4
  <2>5. CASE place # own
    <3>1. Distance(home, place) < Distance(home, own)
      <4>1. Distance(home, place) # Distance(home, own)
        BY <2>1, <2>5, CircleSteps
      <4>2. Distance(home, place) \in Int /\ Distance(home, own) \in Int
        <5>1. Distance(home, place) \in Places /\ Distance(home, own) \in Places
          BY <2>1, Circle
        <5> QED BY <5>1, ProbeTableAssumption DEF Places, ProbeTableAssumption
      <4> HIDE DEF home, own
      <4> QED BY <2>3, <4>1, <4>2
    <3>2. buckets[place] # Vacant
      BY <1>1, <2>1, <3>1 DEF TableInv, ChainsClosed
    <3>3. Holds(place, key)
      BY <3>2 DEF StopsAt
    <3>4. /\ buckets[place].entry \in DOMAIN entries
          /\ entries[buckets[place].entry].bucket = place
          /\ entries[buckets[place].entry].key = key
      BY <1>1, <3>2, <3>3 DEF TableInv, CrossLinks, Holds
    <3>5. buckets[place].entry = i
      BY <1>1, <1>2, <3>4 DEF TableInv, EntriesArePlain
    <3> QED BY <2>5, <3>4, <3>5
  <2> QED BY <2>4, <2>5
<1>3. ASSUME \A i \in DOMAIN entries : entries[i].key # key
      PROVE  buckets[place] = Vacant
  <2>1. CASE buckets[place] # Vacant
    <3>1. Holds(place, key)
      BY <2>1 DEF StopsAt
    <3>2. buckets[place].entry \in DOMAIN entries /\ entries[buckets[place].entry].key = key
      BY <1>1, <2>1, <3>1 DEF TableInv, CrossLinks, Holds
    <3> QED BY <1>3, <3>2
  <2> QED BY <2>1
<1> QED BY <1>2, <1>3

\* The invariant makes the table the map.
LEMMA InvIsMap == TableInv => TableIsMap
<1> SUFFICES ASSUME TableInv, removal = Idle
             PROVE  /\ \A key \in TableKeys : \E place \in Places :
                         /\ StopsAt(key, place)
                         /\ IF key \in DOMAIN plain
                              THEN Holds(place, key) /\ entries[buckets[place].entry].value = plain[key]
                              ELSE buckets[place] = Vacant
                    /\ \A i \in DOMAIN entries : entries[i].key \in DOMAIN plain
                    /\ \A i, j \in DOMAIN entries : entries[i].key = entries[j].key => i = j
  BY DEF TableIsMap
<1>1. Live = DOMAIN entries
  BY DEF Live
<1>2. ASSUME NEW key \in TableKeys
      PROVE  \E place \in Places :
               /\ StopsAt(key, place)
               /\ IF key \in DOMAIN plain
                    THEN Holds(place, key) /\ entries[buckets[place].entry].value = plain[key]
                    ELSE buckets[place] = Vacant
  <2>1. PICK place \in Places : StopsAt(key, place)
    BY SearchEnds
  <2>2. ASSUME key \in DOMAIN plain
        PROVE  Holds(place, key) /\ entries[buckets[place].entry].value = plain[key]
    <3>1. PICK i \in DOMAIN entries : entries[i].key = key
      BY <1>1, <2>2 DEF TableInv, EntriesArePlain
    <3>2. Holds(place, key) /\ buckets[place].entry = i
      BY <2>1, <3>1, SearchFinds
    <3>3. plain[entries[i].key] = entries[i].value
      BY <1>1 DEF TableInv, EntriesArePlain
    <3> QED BY <3>1, <3>2, <3>3
  <2>3. ASSUME key \notin DOMAIN plain
        PROVE  buckets[place] = Vacant
    <3>1. \A i \in DOMAIN entries : entries[i].key # key
      BY <1>1, <2>3 DEF TableInv, EntriesArePlain
    <3> QED BY <2>1, <3>1, SearchFinds
  <2> QED BY <2>1, <2>2, <2>3
<1> QED BY <1>1, <1>2 DEF TableInv, EntriesArePlain

----------------------------------------------------------------------------
(* The invariant *)

\* What every step below needs of a state.
LEMMA LinksTyped ==
    ASSUME TableInv, NEW i \in DOMAIN entries
    PROVE  /\ i \in Nat \ {0} /\ entries[i] \in Entries
           /\ entries[i].key \in TableKeys /\ entries[i].value \in TableValues
           /\ entries[i].bucket \in Places
           /\ hashOf[entries[i].key] \in Nat /\ HomeOf(i) \in Places
<1>1. i \in Nat \ {0} /\ entries[i] \in Entries
  BY DEF TableInv, TableTypeOK
<1>2. hashOf[entries[i].key] \in Nat
  BY <1>1 DEF TableInv, TableTypeOK, Entries
<1> QED BY <1>1, <1>2, Circle DEF HomeOf, Entries

LEMMA InitInv == TableInit => TableInv
<1> SUFFICES ASSUME TableInit PROVE TableInv
  OBVIOUS
<1>1. TableTypeOK
  <2>1. hashOf \in [TableKeys -> Nat]
    BY ProbeTableAssumption DEF ProbeTableAssumption, TableInit
  <2>2. entries \in Seq(Entries) /\ Len(entries) <= Maximum
    BY ProbeTableAssumption DEF ProbeTableAssumption, TableInit
  <2>3. buckets \in [Places -> BucketRecords]
    BY DEF TableInit, BucketRecords, Vacant
  <2> QED BY <2>1, <2>2, <2>3 DEF TableTypeOK
<1>2. Live = {} /\ DOMAIN plain = {} /\ removal = Idle
  BY DEF TableInit, Live
<1>3. \A place \in Places : buckets[place] = Vacant
  BY DEF TableInit
<1> QED BY <1>1, <1>2, <1>3
        DEF TableInv, CrossLinks, EntriesArePlain, ChainsClosed, RemovalKnows, ThroughHole

LEMMA ReplaceInv ==
    ASSUME TableInv, NEW key \in TableKeys, NEW value \in TableValues, ReplaceValue(key, value)
    PROVE  TableInv'
<1>1. removal = Idle /\ UNCHANGED <<hashOf, buckets, removal>>
  BY DEF ReplaceValue
<1>2. PICK place \in Places :
        /\ StopsAt(key, place) /\ Holds(place, key)
        /\ entries' = [entries EXCEPT ![buckets[place].entry].value = value]
  BY DEF ReplaceValue
<1>3. PICK e : e = buckets[place].entry
  OBVIOUS
<1>4. Live = DOMAIN entries /\ e \in Live /\ entries[e].key = key
  BY <1>1, <1>2, <1>3 DEF Live, TableInv, CrossLinks, Holds
<1>5. /\ DOMAIN entries' = DOMAIN entries /\ Live' = Live /\ Len(entries') = Len(entries)
      /\ entries' \in Seq(Entries)
      /\ \A i \in Live : /\ entries'[i].key = entries[i].key
                         /\ entries'[i].bucket = entries[i].bucket
                         /\ entries'[i].value = IF i = e THEN value ELSE entries[i].value
  <2>1. entries' = [entries EXCEPT ![e].value = value] /\ entries \in Seq(Entries)
    BY <1>2, <1>3 DEF TableInv, TableTypeOK
  <2>2. entries[e] \in Entries /\ [entries[e] EXCEPT !.value = value] \in Entries
    <3>1. entries[e] \in Entries
      BY <1>4, LinksTyped
    <3> QED BY <3>1 DEF Entries
  <2>3. entries' \in Seq(Entries) /\ DOMAIN entries' = DOMAIN entries /\ Len(entries') = Len(entries)
    BY <1>4, <2>1, <2>2
  <2>4. ASSUME NEW i \in Live
        PROVE  /\ entries'[i].key = entries[i].key
               /\ entries'[i].bucket = entries[i].bucket
               /\ entries'[i].value = IF i = e THEN value ELSE entries[i].value
    <3>1. entries[i] \in Entries
      BY <1>4, <2>4, LinksTyped
    <3> QED BY <1>4, <2>1, <3>1 DEF Entries
  <2> QED BY <1>1, <1>4, <2>3, <2>4 DEF Live
<1>6. TableTypeOK'
  BY <1>1, <1>5 DEF TableInv, TableTypeOK
<1>7. CrossLinks'
  BY <1>1, <1>5 DEF TableInv, CrossLinks
<1>8. EntriesArePlain'
  <2>1. plain' = [plain EXCEPT ![key] = value] /\ DOMAIN plain' = DOMAIN plain
    BY DEF ReplaceValue
  <2>2. \A i \in Live : entries[i].key = key => i = e
    BY <1>4 DEF TableInv, EntriesArePlain
  <2>3. key \in DOMAIN plain
    BY <1>4 DEF TableInv, EntriesArePlain
  <2>4. ASSUME NEW i \in Live', NEW j \in Live', entries'[i].key = entries'[j].key
        PROVE  i = j
    BY <1>5, <2>4 DEF TableInv, EntriesArePlain
  <2>5. ASSUME NEW i \in Live'
        PROVE  entries'[i].key \in DOMAIN plain' /\ plain'[entries'[i].key] = entries'[i].value
    <3>1. /\ i \in Live /\ entries'[i].key = entries[i].key /\ entries[i].key \in DOMAIN plain
          /\ plain[entries[i].key] = entries[i].value
      BY <1>5 DEF TableInv, EntriesArePlain
    <3>2. CASE i = e
      BY <1>4, <1>5, <2>1, <2>3, <3>1, <3>2
    <3>3. CASE i # e
      <4>1. entries[i].key # key
        BY <2>2, <3>1, <3>3
      <4> QED BY <1>5, <2>1, <3>1, <3>3, <4>1
    <3> QED BY <3>2, <3>3
  <2>6. ASSUME NEW k \in DOMAIN plain'
        PROVE  \E i \in Live' : entries'[i].key = k
    <3>1. PICK i \in Live : entries[i].key = k
      BY <2>1 DEF TableInv, EntriesArePlain
    <3> QED BY <1>5, <3>1
  <2> QED BY <2>4, <2>5, <2>6 DEF EntriesArePlain
<1>9. \A i \in Live : HomeOf(i)' = HomeOf(i)
  BY <1>1, <1>5 DEF HomeOf
<1>10. ChainsClosed' /\ RemovalKnows' /\ ThroughHole'
  BY <1>1, <1>5, <1>9 DEF TableInv, ChainsClosed, RemovalKnows, ThroughHole
<1> QED BY <1>6, <1>7, <1>8, <1>10 DEF TableInv

LEMMA InsertInv ==
    ASSUME TableInv, NEW key \in TableKeys, NEW value \in TableValues, InsertNew(key, value)
    PROVE  TableInv'
<1>1. /\ removal = Idle /\ UNCHANGED <<hashOf, removal>>
      /\ Len(entries) < Maximum /\ Maximum \in Nat /\ Len(entries) \in Nat
      /\ entries \in Seq(Entries)
  BY ProbeTableAssumption DEF InsertNew, ProbeTableAssumption, TableInv, TableTypeOK
<1>2. PICK place \in Places :
        /\ StopsAt(key, place) /\ buckets[place] = Vacant
        /\ entries' = Append(entries, [key |-> key, value |-> value, bucket |-> place])
        /\ buckets' = [buckets EXCEPT ![place] = Occupied(hashOf[key], Len(entries) + 1)]
  BY DEF InsertNew
<1>3. PICK n : n = Len(entries) + 1
  OBVIOUS
<1>4. /\ Live = 1 .. n - 1 /\ Live = DOMAIN entries /\ Live' = 1 .. n /\ n \in Nat \ {0}
      /\ entries' \in Seq(Entries) /\ Len(entries') = n
      /\ \A i \in Live : entries'[i] = entries[i] /\ i # n /\ i \in Live'
      /\ entries'[n].key = key /\ entries'[n].value = value /\ entries'[n].bucket = place
      /\ \A i \in Live' : i # n => i \in Live
  <2>1. [key |-> key, value |-> value, bucket |-> place] \in Entries
    BY DEF Entries
  <2> QED BY <1>1, <1>2, <1>3, <2>1 DEF Live
<1>5. \A i \in Live : entries[i].key # key
  <2> SUFFICES ASSUME NEW i \in Live, entries[i].key = key PROVE FALSE
    OBVIOUS
  <2> QED BY <1>1, <1>2, <1>4, SearchFinds DEF Holds
<1>6. /\ buckets' \in [Places -> BucketRecords]
      /\ buckets'[place] = Occupied(hashOf[key], n) /\ buckets'[place] # Vacant
      /\ \A p \in Places : p # place => buckets'[p] = buckets[p]
  <2>1. buckets \in [Places -> BucketRecords] /\ hashOf[key] \in Nat
    BY DEF TableInv, TableTypeOK
  <2> QED BY <1>2, <1>3, <1>4, <2>1 DEF BucketRecords, Occupied, Vacant
<1>7. \A i \in Live : entries[i].bucket \in Places /\ entries[i].bucket # place
  <2> SUFFICES ASSUME NEW i \in Live PROVE entries[i].bucket \in Places /\ entries[i].bucket # place
    OBVIOUS
  <2>1. entries[i].bucket \in Places /\ i # 0
    BY <1>4, LinksTyped
  <2>2. buckets[entries[i].bucket] = Occupied(hashOf[entries[i].key], i)
    BY DEF TableInv, CrossLinks
  <2>3. buckets[entries[i].bucket] # Vacant
    BY <2>1, <2>2 DEF Occupied, Vacant
  <2> QED BY <1>2, <2>1, <2>3
<1>8. TableTypeOK'
  BY <1>1, <1>3, <1>4, <1>6 DEF TableInv, TableTypeOK
<1>9. CrossLinks'
  <2>1. ASSUME NEW i \in Live'
        PROVE  (buckets[entries[i].bucket] = Occupied(hashOf[entries[i].key], i))'
    BY <1>1, <1>4, <1>6, <1>7 DEF TableInv, CrossLinks
  <2>2. ASSUME NEW p \in Places, (buckets[p] # Vacant)'
        PROVE  (buckets[p].entry \in Live /\ entries[buckets[p].entry].bucket = p)'
    <3>1. CASE p = place
      BY <1>4, <1>6, <3>1 DEF Occupied
    <3>2. CASE p # place
      BY <1>4, <1>6, <2>2, <3>2 DEF TableInv, CrossLinks
    <3> QED BY <3>1, <3>2
  <2> QED BY <2>1, <2>2 DEF CrossLinks
<1>10. EntriesArePlain'
  <2>1. /\ DOMAIN plain' = DOMAIN plain \cup {key} /\ plain'[key] = value
        /\ \A k \in DOMAIN plain : k # key => plain'[k] = plain[k]
    BY DEF InsertNew
  <2>2. ASSUME NEW i \in Live', NEW j \in Live', entries'[i].key = entries'[j].key
        PROVE  i = j
    BY <1>4, <1>5, <2>2 DEF TableInv, EntriesArePlain
  <2>3. ASSUME NEW i \in Live'
        PROVE  entries'[i].key \in DOMAIN plain' /\ plain'[entries'[i].key] = entries'[i].value
    BY <1>4, <1>5, <2>1 DEF TableInv, EntriesArePlain
  <2>4. ASSUME NEW k \in DOMAIN plain'
        PROVE  \E i \in Live' : entries'[i].key = k
    <3>1. CASE k = key
      <4>1. n \in Live'
        BY <1>4
      <4> QED BY <1>4, <3>1, <4>1
    <3>2. CASE k # key
      BY <1>4, <2>1, <3>2 DEF TableInv, EntriesArePlain
    <3> QED BY <3>1, <3>2
  <2> QED BY <2>2, <2>3, <2>4 DEF EntriesArePlain
<1>11. ChainsClosed'
  <2> SUFFICES ASSUME NEW i \in Live', NEW p \in Places,
                      Distance(HomeOf(i)', p) < Distance(HomeOf(i)', entries'[i].bucket)
               PROVE  buckets'[p] # Vacant
    BY DEF ChainsClosed
  <2>1. CASE i = n
    <3>1. HomeOf(i)' = Home(hashOf[key]) /\ entries'[i].bucket = place
      BY <1>1, <1>4, <2>1 DEF HomeOf
    <3>2. buckets[p] # Vacant
      BY <1>2, <3>1 DEF StopsAt
    <3> QED BY <1>6, <3>2
  <2>2. CASE i # n
    <3>1. i \in Live /\ HomeOf(i)' = HomeOf(i) /\ entries'[i].bucket = entries[i].bucket
      BY <1>1, <1>4, <2>2 DEF HomeOf
    <3>2. buckets[p] # Vacant
      BY <1>1, <3>1 DEF TableInv, ChainsClosed
    <3> QED BY <1>6, <3>2
  <2> QED BY <2>1, <2>2
<1> QED BY <1>1, <1>8, <1>9, <1>10, <1>11 DEF TableInv, RemovalKnows, ThroughHole

\* The next place is another one when there are two, and it is one step away.
LEMMA NextIsAnother ==
    ASSUME Buckets >= 2, NEW place \in Places
    PROVE  /\ NextPlace(place) \in Places /\ NextPlace(place) # place
           /\ Distance(place, place) = 0 /\ Distance(place, NextPlace(place)) = 1
           /\ \A p \in Places : p # place => Distance(place, p) \in Nat /\ Distance(place, p) >= 1
<1>1. Buckets \in Nat \ {0} /\ \A p \in Places : p \in Int /\ 0 <= p /\ p < Buckets
  BY ProbeTableAssumption DEF ProbeTableAssumption, Places
<1>2. NextPlace(place) \in Places /\ NextPlace(place) = IF place = Buckets - 1 THEN 0 ELSE place + 1
  BY Circle
<1>3. NextPlace(place) # place
  BY <1>1, <1>2
<1>4. Distance(place, place) = 0 /\ Distance(place, NextPlace(place)) = 1
  <2>1. Distance(place, place) = 0
    BY CircleSteps
  <2>2. NextPlace(place) # place => Distance(place, NextPlace(place)) = Distance(place, place) + 1
    BY CircleSteps
  <2> QED BY <1>3, <2>1, <2>2
<1>5. ASSUME NEW p \in Places, p # place
      PROVE  Distance(place, p) \in Nat /\ Distance(place, p) >= 1
  <2>1. Distance(place, p) \in Places
    BY Circle
  <2>2. Distance(place, p) >= 1
    BY <1>5, CircleSteps
  <2> QED BY <1>1, <2>1, <2>2
<1> QED BY <1>2, <1>3, <1>4, <1>5

\* An entry's own bucket is not vacant, and no other entry has it.
LEMMA OwnBucket ==
    ASSUME TableInv, NEW i \in Live
    PROVE  /\ i \in DOMAIN entries /\ entries[i].bucket \in Places
           /\ buckets[entries[i].bucket] # Vacant /\ buckets[entries[i].bucket].entry = i
           /\ buckets[entries[i].bucket].hash = hashOf[entries[i].key]
<1>1. i \in DOMAIN entries
  BY DEF Live
<1>2. entries[i].bucket \in Places /\ i # 0
  BY <1>1, LinksTyped
<1>3. buckets[entries[i].bucket] = Occupied(hashOf[entries[i].key], i)
  BY DEF TableInv, CrossLinks
<1> QED BY <1>1, <1>2, <1>3 DEF Occupied, Vacant

\* Where there is an entry there are two buckets.
LEMMA TwoBuckets ==
    ASSUME TableTypeOK, NEW i \in DOMAIN entries
    PROVE  Buckets >= 2
<1>1. Len(entries) \in Nat /\ DOMAIN entries = 1 .. Len(entries) /\ Len(entries) <= Maximum
  BY DEF TableTypeOK
<1>2. Buckets \in Nat /\ Maximum \in Nat /\ Buckets >= 2 * Maximum
  BY ProbeTableAssumption DEF ProbeTableAssumption, IsBucketCount
<1>3. Len(entries) >= 1
  BY <1>1
<1> QED BY <1>1, <1>2, <1>3

LEMMA RemoveInv ==
    ASSUME TableInv, NEW key \in TableKeys, TakeOut(key)
    PROVE  TableInv'
<1>1. removal = Idle /\ UNCHANGED <<hashOf, entries>>
  BY DEF TakeOut
<1>2. PICK hole \in Places :
        /\ Holds(hole, key)
        /\ buckets' = [buckets EXCEPT ![hole] = Vacant]
        /\ removal' = [hole |-> hole, scan |-> NextPlace(hole), entry |-> buckets[hole].entry]
  BY DEF TakeOut
<1>3. PICK e : e = buckets[hole].entry
  OBVIOUS
<1>4. /\ Live = DOMAIN entries /\ e \in Live /\ entries[e].key = key /\ entries[e].bucket = hole
      /\ buckets[hole] # Vacant
  BY <1>1, <1>2, <1>3 DEF Live, TableInv, CrossLinks, Holds
<1>5. /\ removal' # Idle /\ removal'.hole = hole /\ removal'.scan = NextPlace(hole) /\ removal'.entry = e
      /\ Live' = Live \ {e}
  <2>1. e # 0
    BY <1>4, LinksTyped
  <2> QED BY <1>1, <1>2, <1>3, <1>4, <2>1 DEF Live, Idle
<1>6. /\ buckets' \in [Places -> BucketRecords]
      /\ buckets'[hole] = Vacant /\ \A p \in Places : p # hole => buckets'[p] = buckets[p]
  <2>1. buckets \in [Places -> BucketRecords] /\ Vacant \in BucketRecords
    BY DEF TableInv, TableTypeOK, BucketRecords, Vacant
  <2> QED BY <1>2, <2>1
<1>7. \A i \in Live' : i \in Live /\ entries[i].bucket \in Places /\ entries[i].bucket # hole
  <2> SUFFICES ASSUME NEW i \in Live'
               PROVE  i \in Live /\ entries[i].bucket \in Places /\ entries[i].bucket # hole
    OBVIOUS
  <2>1. i \in Live /\ i # e
    BY <1>5
  <2>2. entries[i].bucket \in Places /\ buckets[entries[i].bucket].entry = i
    BY <2>1, OwnBucket
  <2> QED BY <1>3, <2>1, <2>2
<1>8. Buckets >= 2
  BY <1>4, TwoBuckets DEF TableInv
<1>9. /\ NextPlace(hole) \in Places /\ NextPlace(hole) # hole /\ Distance(hole, NextPlace(hole)) = 1
      /\ \A p \in Places : p # hole => Distance(hole, p) \in Nat /\ Distance(hole, p) >= 1
  BY <1>8, NextIsAnother
<1>10. TableTypeOK'
  BY <1>1, <1>6 DEF TableInv, TableTypeOK
<1>11. CrossLinks'
  <2>1. ASSUME NEW i \in Live'
        PROVE  (buckets[entries[i].bucket] = Occupied(hashOf[entries[i].key], i))'
    BY <1>1, <1>6, <1>7 DEF TableInv, CrossLinks
  <2>2. ASSUME NEW p \in Places, (buckets[p] # Vacant)'
        PROVE  (buckets[p].entry \in Live /\ entries[buckets[p].entry].bucket = p)'
    <3>1. p # hole /\ buckets'[p] = buckets[p] /\ buckets[p] # Vacant
      BY <1>6, <2>2
    <3>2. buckets[p].entry \in Live /\ entries[buckets[p].entry].bucket = p
      BY <3>1 DEF TableInv, CrossLinks
    <3> QED BY <1>1, <1>4, <1>5, <3>1, <3>2
  <2> QED BY <2>1, <2>2 DEF CrossLinks
<1>12. EntriesArePlain'
  <2>1. DOMAIN plain' = DOMAIN plain \ {key} /\ \A k \in DOMAIN plain \ {key} : plain'[k] = plain[k]
    BY DEF TakeOut
  <2>2. \A i \in Live : entries[i].key = key => i = e
    BY <1>4 DEF TableInv, EntriesArePlain
  <2> QED BY <1>1, <1>4, <1>5, <2>1, <2>2 DEF TableInv, EntriesArePlain
<1>13. \A i \in Live' : HomeOf(i)' = HomeOf(i)
  BY <1>1 DEF HomeOf
<1>14. ChainsClosed'
  BY <1>1, <1>5, <1>6, <1>7, <1>13 DEF TableInv, ChainsClosed
<1>15. RemovalKnows'
  <2>1. removal' \in [hole : Places, scan : Places, entry : DOMAIN entries']
    BY <1>1, <1>2, <1>3, <1>4, <1>9
  <2>2. PICK vacant \in Places : buckets[vacant] = Vacant
    BY <1>1, Room DEF TableInv
  <2>3. vacant # hole /\ buckets'[vacant] = Vacant
    BY <1>4, <1>6, <2>2
  <2>4. ASSUME NEW p \in Places, p # hole, Distance(hole, p) < 1 PROVE FALSE
    BY <1>9, <2>4
  <2> QED BY <1>5, <1>6, <1>9, <2>1, <2>3, <2>4 DEF RemovalKnows
<1>16. ThroughHole'
  <2> SUFFICES ASSUME NEW i \in Live'
               PROVE  Distance(hole, entries'[i].bucket) >= Distance(hole, NextPlace(hole))
    BY <1>5 DEF ThroughHole
  <2> QED BY <1>1, <1>7, <1>9
<1> QED BY <1>10, <1>11, <1>12, <1>14, <1>15, <1>16 DEF TableInv

\* What a step of a removal finds.
LEMMA UnderWay ==
    ASSUME TableInv, removal # Idle
    PROVE  /\ removal.hole \in Places /\ removal.scan \in Places /\ removal.entry \in DOMAIN entries
           /\ removal.hole # removal.scan /\ buckets[removal.hole] = Vacant
           /\ Live = DOMAIN entries \ {removal.entry} /\ removal.entry # 0
           /\ Buckets >= 2
           /\ removal = [hole |-> removal.hole, scan |-> removal.scan, entry |-> removal.entry]
<1>1. /\ removal \in [hole : Places, scan : Places, entry : DOMAIN entries]
      /\ removal.hole # removal.scan /\ buckets[removal.hole] = Vacant
  BY DEF TableInv, RemovalKnows
<1>2. removal.entry # 0
  BY <1>1, LinksTyped
<1>3. Buckets >= 2
  BY <1>1, TwoBuckets DEF TableInv
<1> QED BY <1>1, <1>2, <1>3 DEF Live

LEMMA ShiftInv ==
    ASSUME TableInv, ShiftBack
    PROVE  TableInv'
<1>1. removal # Idle /\ Scanned # Vacant /\ IsBehindHole /\ UNCHANGED <<hashOf, plain>>
  BY DEF ShiftBack
<1>2. PICK h, s, e, j : h = removal.hole /\ s = removal.scan /\ e = removal.entry /\ j = Scanned.entry
  OBVIOUS
<1>3. /\ h \in Places /\ s \in Places /\ h # s /\ e \in DOMAIN entries /\ e # 0
      /\ buckets[h] = Vacant /\ buckets[s] # Vacant /\ Scanned = buckets[s]
      /\ Live = DOMAIN entries \ {e} /\ Buckets >= 2
      /\ removal = [hole |-> h, scan |-> s, entry |-> e]
  BY <1>1, <1>2, UnderWay DEF Scanned
<1>4. j \in Live /\ j \in DOMAIN entries /\ entries[j].bucket = s /\ buckets[s] = Occupied(hashOf[entries[j].key], j)
  <2>1. j \in Live /\ entries[j].bucket = s
    BY <1>2, <1>3 DEF TableInv, CrossLinks
  <2> QED BY <1>3, <2>1 DEF TableInv, CrossLinks
<1>5. /\ buckets' = [buckets EXCEPT ![h] = buckets[s], ![s] = Vacant]
      /\ entries' = [entries EXCEPT ![j].bucket = h]
      /\ removal' = [hole |-> s, scan |-> NextPlace(s), entry |-> e]
  BY <1>2, <1>3 DEF ShiftBack, Scanned
<1>6. /\ buckets' \in [Places -> BucketRecords]
      /\ buckets'[h] = buckets[s] /\ buckets'[s] = Vacant
      /\ \A p \in Places : p # h /\ p # s => buckets'[p] = buckets[p]
  <2>1. buckets \in [Places -> BucketRecords] /\ Vacant \in BucketRecords
    BY DEF TableInv, TableTypeOK, BucketRecords, Vacant
  <2> QED BY <1>3, <1>5, <2>1
<1>7. /\ entries' \in Seq(Entries) /\ Len(entries') = Len(entries) /\ DOMAIN entries' = DOMAIN entries
      /\ \A i \in Live : /\ entries'[i].key = entries[i].key
                         /\ entries'[i].value = entries[i].value
                         /\ entries'[i].bucket = IF i = j THEN h ELSE entries[i].bucket
  <2>1. entries \in Seq(Entries)
    BY DEF TableInv, TableTypeOK
  <2>2. entries[j] \in Entries /\ [entries[j] EXCEPT !.bucket = h] \in Entries
    <3>1. entries[j] \in Entries
      BY <1>4, LinksTyped
    <3> QED BY <1>3, <3>1 DEF Entries
  <2>3. entries' \in Seq(Entries) /\ Len(entries') = Len(entries) /\ DOMAIN entries' = DOMAIN entries
    BY <1>4, <1>5, <2>1, <2>2
  <2>4. ASSUME NEW i \in Live
        PROVE  /\ entries'[i].key = entries[i].key
               /\ entries'[i].value = entries[i].value
               /\ entries'[i].bucket = IF i = j THEN h ELSE entries[i].bucket
    <3>1. i \in DOMAIN entries /\ entries[i] \in Entries
      BY <1>3, <2>4, LinksTyped
    <3> QED BY <1>4, <1>5, <2>1, <3>1 DEF Entries
  <2> QED BY <2>3, <2>4
<1>8. removal' # Idle /\ removal'.hole = s /\ removal'.scan = NextPlace(s) /\ removal'.entry = e /\ Live' = Live
  BY <1>3, <1>5, <1>7 DEF Live, Idle
<1>9. \A i \in Live : i # j => /\ entries[i].bucket \in Places /\ entries[i].bucket # s
                               /\ entries[i].bucket # h
  <2> SUFFICES ASSUME NEW i \in Live, i # j
               PROVE  /\ entries[i].bucket \in Places /\ entries[i].bucket # s
                      /\ entries[i].bucket # h
    OBVIOUS
  <2>1. entries[i].bucket \in Places /\ buckets[entries[i].bucket].entry = i /\ buckets[entries[i].bucket] # Vacant
    BY OwnBucket
  <2> QED BY <1>2, <1>3, <2>1
<1>10. /\ NextPlace(s) \in Places /\ NextPlace(s) # s /\ Distance(s, NextPlace(s)) = 1
       /\ \A p \in Places : p # s => Distance(s, p) \in Nat /\ Distance(s, p) >= 1
  BY <1>3, NextIsAnother
<1>11. TableTypeOK'
  BY <1>1, <1>6, <1>7 DEF TableInv, TableTypeOK
<1>12. CrossLinks'
  <2>1. ASSUME NEW i \in Live'
        PROVE  (buckets[entries[i].bucket] = Occupied(hashOf[entries[i].key], i))'
    <3>1. CASE i = j
      BY <1>1, <1>4, <1>6, <1>7, <3>1
    <3>2. CASE i # j
      BY <1>1, <1>6, <1>7, <1>8, <1>9, <3>2 DEF TableInv, CrossLinks
    <3> QED BY <3>1, <3>2
  <2>2. ASSUME NEW p \in Places, (buckets[p] # Vacant)'
        PROVE  (buckets[p].entry \in Live /\ entries[buckets[p].entry].bucket = p)'
    <3>1. CASE p = h
      BY <1>2, <1>3, <1>4, <1>6, <1>7, <1>8, <3>1
    <3>2. CASE p # h
      <4>1. p # s /\ buckets'[p] = buckets[p] /\ buckets[p] # Vacant
        BY <1>6, <2>2, <3>2
      <4>2. buckets[p].entry \in Live /\ entries[buckets[p].entry].bucket = p
        BY <4>1 DEF TableInv, CrossLinks
      <4> QED BY <1>4, <1>7, <1>8, <4>1, <4>2
    <3> QED BY <3>1, <3>2
  <2> QED BY <2>1, <2>2 DEF CrossLinks
<1>13. EntriesArePlain'
  BY <1>1, <1>7, <1>8 DEF TableInv, EntriesArePlain
<1>14. \A i \in Live : HomeOf(i)' = HomeOf(i)
  BY <1>1, <1>7 DEF HomeOf
<1>15. ChainsClosed'
  <2> SUFFICES ASSUME NEW i \in Live, NEW p \in Places,
                      Distance(HomeOf(i), p) < Distance(HomeOf(i), entries'[i].bucket)
               PROVE  buckets'[p] # Vacant \/ p = s
    BY <1>8, <1>14 DEF ChainsClosed
  <2>1. CASE i = j
    <3>1. HomeOf(j) = Home(buckets[s].hash)
      BY <1>4 DEF HomeOf, Occupied
    <3>2. Distance(HomeOf(j), s) > Distance(HomeOf(j), h)
      BY <1>1, <1>2, <1>3, <3>1 DEF IsBehindHole
    <3>3. Distance(HomeOf(j), p) < Distance(HomeOf(j), h)
      BY <1>4, <1>7, <2>1
    <3>4. /\ Distance(HomeOf(j), p) \in Int /\ Distance(HomeOf(j), h) \in Int
          /\ Distance(HomeOf(j), s) \in Int
      <4>1. HomeOf(j) \in Places
        BY <1>4, LinksTyped
      <4>2. /\ Distance(HomeOf(j), p) \in Places /\ Distance(HomeOf(j), h) \in Places
            /\ Distance(HomeOf(j), s) \in Places
        BY <1>3, <4>1, Circle
      <4> QED BY <4>2, ProbeTableAssumption DEF Places, ProbeTableAssumption
    <3>5. p # h /\ Distance(HomeOf(j), p) < Distance(HomeOf(j), s)
      BY <3>2, <3>3, <3>4
    <3>6. buckets[p] # Vacant
      BY <1>2, <1>4, <3>5 DEF TableInv, ChainsClosed
    <3> QED BY <1>6, <3>5, <3>6
  <2>2. CASE i # j
    <3>1. buckets[p] # Vacant \/ p = h
      BY <1>2, <1>7, <2>2 DEF TableInv, ChainsClosed
    <3> QED BY <1>3, <1>6, <3>1
  <2> QED BY <2>1, <2>2
<1>16. RemovalKnows'
  <2>1. removal' \in [hole : Places, scan : Places, entry : DOMAIN entries']
    BY <1>3, <1>5, <1>7, <1>10
  <2>2. PICK vacant \in Places : vacant # h /\ buckets[vacant] = Vacant
    BY <1>1, <1>2 DEF TableInv, RemovalKnows
  <2>3. vacant # s /\ buckets'[vacant] = Vacant
    BY <1>3, <1>6, <2>2
  <2>4. ASSUME NEW p \in Places, p # s, Distance(s, p) < 1 PROVE FALSE
    BY <1>10, <2>4
  <2> QED BY <1>6, <1>8, <1>10, <2>1, <2>3, <2>4 DEF RemovalKnows
<1>17. ThroughHole'
  <2> SUFFICES ASSUME NEW i \in Live
               PROVE  Distance(s, entries'[i].bucket) >= Distance(s, NextPlace(s))
    BY <1>8 DEF ThroughHole
  <2>1. entries'[i].bucket \in Places /\ entries'[i].bucket # s
    BY <1>3, <1>7, <1>9
  <2> QED BY <1>10, <2>1
<1> QED BY <1>11, <1>12, <1>13, <1>15, <1>16, <1>17 DEF TableInv

LEMMA LeaveInv ==
    ASSUME TableInv, LeaveInPlace
    PROVE  TableInv'
<1>1. /\ removal # Idle /\ Scanned # Vacant /\ ~IsBehindHole
      /\ UNCHANGED <<hashOf, entries, buckets, plain>>
  BY DEF LeaveInPlace
<1>2. PICK h, s, e, j : h = removal.hole /\ s = removal.scan /\ e = removal.entry /\ j = Scanned.entry
  OBVIOUS
<1>3. /\ h \in Places /\ s \in Places /\ h # s /\ e \in DOMAIN entries /\ e # 0
      /\ buckets[h] = Vacant /\ buckets[s] # Vacant /\ Scanned = buckets[s]
      /\ Live = DOMAIN entries \ {e} /\ Buckets >= 2
      /\ removal = [hole |-> h, scan |-> s, entry |-> e]
  BY <1>1, <1>2, UnderWay DEF Scanned
<1>4. /\ removal' = [hole |-> h, scan |-> NextPlace(s), entry |-> e]
      /\ removal' # Idle /\ removal'.hole = h /\ removal'.scan = NextPlace(s) /\ removal'.entry = e
      /\ Live' = Live
  <2>1. removal' = [hole |-> h, scan |-> NextPlace(s), entry |-> e]
    BY <1>2, <1>3 DEF LeaveInPlace
  <2> QED BY <1>1, <1>3, <2>1 DEF Live, Idle
<1>5. \A p \in Places : Distance(h, p) \in Int /\ Distance(h, p) <= Buckets - 1
  <2> SUFFICES ASSUME NEW p \in Places PROVE Distance(h, p) \in Int /\ Distance(h, p) <= Buckets - 1
    OBVIOUS
  <2>1. Distance(h, p) \in Places
    BY <1>3, Circle
  <2> QED BY <2>1, ProbeTableAssumption DEF Places, ProbeTableAssumption
<1>6. \A p \in Places : Distance(h, p) = Distance(h, s) => p = s
  BY <1>3, CircleSteps
<1>7. \A p \in Places : p # h /\ Distance(h, p) < Distance(h, s) => buckets[p] # Vacant
  BY <1>1, <1>2 DEF TableInv, RemovalKnows
<1>8. PICK vacant \in Places : vacant # h /\ buckets[vacant] = Vacant
  BY <1>1, <1>2 DEF TableInv, RemovalKnows
<1>9. NextPlace(s) \in Places /\ NextPlace(s) # h
  <2>1. NextPlace(s) = h => Distance(h, s) = Buckets - 1
    BY <1>3, CircleSteps
  <2>2. vacant # s /\ ~(Distance(h, vacant) < Distance(h, s)) /\ Distance(h, vacant) # Distance(h, s)
    BY <1>3, <1>6, <1>7, <1>8
  <2>3. /\ Distance(h, vacant) \in Int /\ Distance(h, s) \in Int
        /\ Distance(h, vacant) <= Buckets - 1 /\ Buckets \in Int
    BY <1>3, <1>5, ProbeTableAssumption DEF ProbeTableAssumption
  <2>4. NextPlace(s) # h
    BY <2>1, <2>2, <2>3
  <2> QED BY <1>3, <2>4, Circle
<1>10. Distance(h, NextPlace(s)) = Distance(h, s) + 1
  BY <1>3, <1>9, CircleSteps
<1>11. TableTypeOK' /\ CrossLinks' /\ EntriesArePlain'
  BY <1>1, <1>4 DEF TableInv, TableTypeOK, CrossLinks, EntriesArePlain
<1>12. \A i \in Live : HomeOf(i)' = HomeOf(i)
  BY <1>1 DEF HomeOf
<1>13. ChainsClosed'
  BY <1>1, <1>2, <1>4, <1>12 DEF TableInv, ChainsClosed
<1>14. RemovalKnows'
  <2>1. removal' \in [hole : Places, scan : Places, entry : DOMAIN entries']
    BY <1>1, <1>3, <1>4, <1>9
  <2>2. ASSUME NEW p \in Places, p # h, Distance(h, p) < Distance(h, s) + 1
        PROVE  buckets[p] # Vacant
    <3>1. Distance(h, p) < Distance(h, s) \/ Distance(h, p) = Distance(h, s)
      BY <1>3, <1>5, <2>2
    <3> QED BY <1>3, <1>6, <1>7, <2>2, <3>1
  <2> QED BY <1>1, <1>3, <1>4, <1>8, <1>9, <1>10, <2>1, <2>2 DEF RemovalKnows
<1>15. ThroughHole'
  <2> SUFFICES ASSUME NEW i \in Live,
                      Distance(HomeOf(i), h) < Distance(HomeOf(i), entries[i].bucket)
               PROVE  Distance(h, entries[i].bucket) >= Distance(h, NextPlace(s))
    BY <1>1, <1>4, <1>12 DEF ThroughHole
  <2>1. Distance(h, entries[i].bucket) >= Distance(h, s)
    BY <1>1, <1>2 DEF TableInv, ThroughHole
  <2>2. /\ entries[i].bucket \in Places /\ buckets[entries[i].bucket].entry = i
        /\ buckets[entries[i].bucket].hash = hashOf[entries[i].key]
    BY OwnBucket
  <2>3. Distance(h, entries[i].bucket) # Distance(h, s)
    <3> SUFFICES ASSUME entries[i].bucket = s PROVE FALSE
      BY <1>6, <2>2
    <3>1. HomeOf(i) = Home(buckets[s].hash)
      BY <2>2 DEF HomeOf
    <3>2. ~(Distance(HomeOf(i), s) > Distance(HomeOf(i), h))
      BY <1>1, <1>2, <1>3, <3>1 DEF IsBehindHole
    <3>3. Distance(HomeOf(i), s) \in Int /\ Distance(HomeOf(i), h) \in Int
      <4>1. HomeOf(i) \in Places
        BY <1>3, LinksTyped
      <4>2. Distance(HomeOf(i), s) \in Places /\ Distance(HomeOf(i), h) \in Places
        BY <1>3, <4>1, Circle
      <4> QED BY <4>2, ProbeTableAssumption DEF Places, ProbeTableAssumption
    <3> QED BY <3>2, <3>3
  <2>4. Distance(h, entries[i].bucket) \in Int /\ Distance(h, s) \in Int
    BY <1>3, <1>5, <2>2
  <2> QED BY <1>10, <2>1, <2>3, <2>4
<1> QED BY <1>11, <1>13, <1>14, <1>15 DEF TableInv

\* When the scan is at a vacant bucket the hole is on no key's way any more.
LEMMA NothingThroughHole ==
    ASSUME TableInv, removal # Idle, Scanned = Vacant,
           NEW i \in Live, NEW place \in Places,
           Distance(HomeOf(i), place) < Distance(HomeOf(i), entries[i].bucket)
    PROVE  buckets[place] # Vacant
<1>1. PICK h, s : h = removal.hole /\ s = removal.scan
  OBVIOUS
<1>2. h \in Places /\ s \in Places /\ h # s /\ buckets[s] = Vacant
  BY <1>1, UnderWay DEF Scanned
<1>3. PICK own : own = entries[i].bucket
  OBVIOUS
<1>4. own \in Places /\ buckets[own] # Vacant /\ HomeOf(i) \in Places
  BY <1>3, OwnBucket, LinksTyped
<1>5. SUFFICES ASSUME place = h PROVE FALSE
  BY <1>1 DEF TableInv, ChainsClosed
<1>6. Distance(HomeOf(i), h) < Distance(HomeOf(i), own)
  BY <1>3, <1>5
<1>7. Distance(h, own) >= Distance(h, s)
  BY <1>1, <1>3, <1>6 DEF TableInv, ThroughHole
<1>8. Distance(h, own) # Distance(h, s)
  BY <1>2, <1>4, CircleSteps
<1>9. Distance(h, s) < Distance(h, own)
  <2>1. Distance(h, own) \in Places /\ Distance(h, s) \in Places
    BY <1>2, <1>4, Circle
  <2>2. Distance(h, own) \in Int /\ Distance(h, s) \in Int
    BY <2>1, ProbeTableAssumption DEF Places, ProbeTableAssumption
  <2> QED BY <1>7, <1>8, <2>2
<1>10. Distance(HomeOf(i), s) < Distance(HomeOf(i), own)
  BY <1>2, <1>4, <1>6, <1>9, CircleWay
<1> QED BY <1>1, <1>2, <1>3, <1>10 DEF TableInv, ChainsClosed

LEMMA SwapInv ==
    ASSUME TableInv, SwapRemove
    PROVE  TableInv'
<1>1. removal # Idle /\ Scanned = Vacant /\ removal' = Idle /\ UNCHANGED <<hashOf, plain>>
  BY DEF SwapRemove
<1>2. PICK e, last : e = removal.entry /\ last = Len(entries)
  OBVIOUS
<1>3. /\ e \in 1 .. last /\ last \in Nat \ {0} /\ Live = (1 .. last) \ {e}
      /\ entries \in Seq(Entries) /\ DOMAIN entries = 1 .. last /\ last <= Maximum /\ Maximum \in Nat
  BY <1>1, <1>2, UnderWay, ProbeTableAssumption DEF TableInv, TableTypeOK, ProbeTableAssumption
<1> DEFINE m(i) == IF i = e THEN last ELSE i
<1>4. entries' = [i \in 1 .. last - 1 |-> IF i = e THEN entries[last] ELSE entries[i]]
  BY <1>2 DEF SwapRemove
<1>5. /\ Live' = 1 .. last - 1 /\ entries' \in Seq(Entries) /\ Len(entries') = last - 1
      /\ DOMAIN entries' = 1 .. last - 1
      /\ \A i \in 1 .. last - 1 : m(i) \in Live /\ entries'[i] = entries[m(i)] /\ (i # e => m(i) = i /\ i # last)
  <2>1. \A i \in 1 .. last - 1 : m(i) \in Live /\ entries[m(i)] \in Entries /\ (i # e => m(i) = i /\ i # last)
    BY <1>3
  <2>2. entries' = [i \in 1 .. last - 1 |-> entries[m(i)]]
    BY <1>4
  <2> HIDE DEF m
  <2>3. last - 1 \in Nat
    BY <1>3
  <2>4. entries' \in [1 .. last - 1 -> Entries]
    BY <2>1, <2>2
  <2>5. entries' \in Seq(Entries) /\ Len(entries') = last - 1 /\ DOMAIN entries' = 1 .. last - 1
    BY <2>3, <2>4
  <2>6. Live' = 1 .. last - 1
    BY <1>1, <2>5 DEF Live
  <2> QED BY <2>1, <2>2, <2>5, <2>6
<1>6. \A i, j \in 1 .. last - 1 : m(i) = m(j) => i = j
  BY <1>3
<1>7. \A k \in Live : \E i \in 1 .. last - 1 : m(i) = k
  <2> SUFFICES ASSUME NEW k \in Live PROVE \E i \in 1 .. last - 1 : m(i) = k
    OBVIOUS
  <2>1. CASE k = last
    <3>1. e \in 1 .. last - 1 /\ m(e) = k
      BY <1>3, <2>1
    <3> QED BY <3>1
  <2>2. CASE k # last
    <3>1. k \in 1 .. last - 1 /\ m(k) = k
      BY <1>3, <2>2
    <3> QED BY <3>1
  <2> QED BY <2>1, <2>2
<1>8. /\ buckets' \in [Places -> BucketRecords]
      /\ e # last => /\ last \in Live
                     /\ buckets'[entries[last].bucket] = Occupied(hashOf[entries[last].key], e)
      /\ \A p \in Places : (e # last => p # entries[last].bucket) => buckets'[p] = buckets[p]
  <2>1. buckets \in [Places -> BucketRecords]
    BY DEF TableInv, TableTypeOK
  <2>2. CASE e = last
    <3>1. buckets' = buckets
      BY <1>2, <2>2 DEF SwapRemove
    <3> QED BY <2>1, <2>2, <3>1
  <2>3. CASE e # last
    <3>1. last \in Live
      BY <1>3, <2>3
    <3>2. PICK own : own = entries[last].bucket
      OBVIOUS
    <3>3. own \in Places /\ buckets[own] = Occupied(hashOf[entries[last].key], last) /\ hashOf[entries[last].key] \in Nat
      BY <3>1, <3>2, OwnBucket, LinksTyped DEF TableInv, CrossLinks
    <3>4. buckets' = [buckets EXCEPT ![own].entry = e]
      BY <1>2, <2>3, <3>2 DEF SwapRemove
    <3>5. buckets'[own] = Occupied(hashOf[entries[last].key], e)
      BY <2>1, <3>3, <3>4 DEF Occupied
    <3>6. Occupied(hashOf[entries[last].key], e) \in BucketRecords
      BY <1>3, <3>3 DEF Occupied, BucketRecords
    <3>7. buckets' = [buckets EXCEPT ![own] = Occupied(hashOf[entries[last].key], e)]
      BY <2>1, <3>3, <3>4, <3>5
    <3> QED BY <2>1, <2>3, <3>1, <3>2, <3>3, <3>6, <3>7
  <2> QED BY <2>2, <2>3
<1>9. \A p \in Places : buckets[p] # Vacant => buckets'[p] # Vacant
  <2> SUFFICES ASSUME NEW p \in Places, buckets[p] # Vacant PROVE buckets'[p] # Vacant
    OBVIOUS
  <2>1. CASE e # last /\ p = entries[last].bucket
    BY <1>3, <1>8, <2>1 DEF Occupied, Vacant
  <2>2. CASE ~(e # last /\ p = entries[last].bucket)
    BY <1>8, <2>2
  <2> QED BY <2>1, <2>2
<1>10. TableTypeOK'
  BY <1>1, <1>3, <1>5, <1>8 DEF TableInv, TableTypeOK
<1>11. CrossLinks'
  <2>1. ASSUME NEW i \in Live'
        PROVE  (buckets[entries[i].bucket] = Occupied(hashOf[entries[i].key], i))'
    <3>1. CASE i = e
      <4>1. e # last /\ entries'[i] = entries[last]
        BY <1>3, <1>5, <2>1, <3>1
      <4> QED BY <1>1, <1>8, <3>1, <4>1
    <3>2. CASE i # e
      <4>1. i \in Live /\ entries'[i] = entries[i] /\ i # last
        BY <1>5, <2>1, <3>2
      <4>2. /\ entries[i].bucket \in Places /\ buckets[entries[i].bucket].entry = i
            /\ buckets[entries[i].bucket] = Occupied(hashOf[entries[i].key], i)
        BY <4>1, OwnBucket DEF TableInv, CrossLinks
      <4>3. e # last => entries[i].bucket # entries[last].bucket
        <5>1. e # last => buckets[entries[last].bucket].entry = last
          BY <1>8, OwnBucket
        <5> QED BY <4>1, <4>2, <5>1
      <4> QED BY <1>1, <1>8, <4>1, <4>2, <4>3
    <3> QED BY <3>1, <3>2
  <2>2. ASSUME NEW p \in Places, (buckets[p] # Vacant)'
        PROVE  (buckets[p].entry \in Live /\ entries[buckets[p].entry].bucket = p)'
    <3>1. CASE e # last /\ p = entries[last].bucket
      <4>1. buckets'[p].entry = e /\ e \in 1 .. last - 1
        BY <1>3, <1>8, <3>1 DEF Occupied
      <4>2. entries'[e] = entries[last]
        BY <1>4, <4>1
      <4> QED BY <1>5, <3>1, <4>1, <4>2
    <3>2. CASE ~(e # last /\ p = entries[last].bucket)
      <4>1. buckets'[p] = buckets[p] /\ buckets[p] # Vacant
        BY <1>8, <2>2, <3>2
      <4>2. PICK k : k = buckets[p].entry
        OBVIOUS
      <4>3. k \in Live /\ entries[k].bucket = p
        BY <4>1, <4>2 DEF TableInv, CrossLinks
      <4>4. k # last
        BY <1>3, <3>2, <4>3
      <4>5. k \in 1 .. last - 1 /\ k # e
        BY <1>3, <4>3, <4>4
      <4>6. entries'[k] = entries[k]
        BY <1>4, <4>5
      <4> QED BY <1>5, <4>1, <4>2, <4>3, <4>5, <4>6
    <3> QED BY <3>1, <3>2
  <2> QED BY <2>1, <2>2 DEF CrossLinks
<1>12. EntriesArePlain'
  <2> HIDE DEF m
  <2>1. ASSUME NEW i \in Live', NEW j \in Live', entries'[i].key = entries'[j].key
        PROVE  i = j
    <3>1. m(i) = m(j)
      BY <1>5, <2>1 DEF TableInv, EntriesArePlain
    <3> QED BY <1>5, <1>6, <3>1
  <2>2. ASSUME NEW i \in Live'
        PROVE  entries'[i].key \in DOMAIN plain' /\ plain'[entries'[i].key] = entries'[i].value
    BY <1>1, <1>5 DEF TableInv, EntriesArePlain
  <2>3. ASSUME NEW key \in DOMAIN plain'
        PROVE  \E i \in Live' : entries'[i].key = key
    <3>1. PICK k \in Live : entries[k].key = key
      BY <1>1 DEF TableInv, EntriesArePlain
    <3>2. PICK i \in 1 .. last - 1 : m(i) = k
      BY <1>7
    <3> QED BY <1>5, <3>1, <3>2
  <2> QED BY <2>1, <2>2, <2>3 DEF EntriesArePlain
<1>13. ChainsClosed'
  <2> HIDE DEF m
  <2> SUFFICES ASSUME NEW i \in Live', NEW p \in Places,
                      Distance(HomeOf(i)', p) < Distance(HomeOf(i)', entries'[i].bucket)
               PROVE  buckets'[p] # Vacant
    BY DEF ChainsClosed
  <2>1. m(i) \in Live /\ entries'[i] = entries[m(i)] /\ HomeOf(i)' = HomeOf(m(i))
    BY <1>1, <1>5 DEF HomeOf
  <2>2. buckets[p] # Vacant
    BY <1>1, <2>1, NothingThroughHole
  <2> QED BY <1>9, <2>2
<1> QED BY <1>1, <1>10, <1>11, <1>12, <1>13 DEF TableInv, RemovalKnows, ThroughHole

LEMMA ClearInv ==
    ASSUME TableInv, Clear
    PROVE  TableInv'
<1>1. /\ removal = Idle /\ entries' = <<>> /\ plain' = <<>> /\ UNCHANGED <<hashOf, removal>>
      /\ buckets' = [place \in Places |->
                       IF \E i \in DOMAIN entries : entries[i].bucket = place THEN Vacant
                       ELSE buckets[place]]
  BY DEF Clear
<1>2. Live = DOMAIN entries /\ Live' = {} /\ DOMAIN plain' = {} /\ removal' = Idle
  BY <1>1 DEF Live
<1>3. \A place \in Places : buckets'[place] = Vacant
  BY <1>1, <1>2 DEF TableInv, CrossLinks
<1>4. TableTypeOK'
  <2>1. buckets' \in [Places -> BucketRecords]
    BY <1>1 DEF TableInv, TableTypeOK, BucketRecords, Vacant
  <2>2. entries' \in Seq(Entries) /\ Len(entries') <= Maximum
    BY <1>1, ProbeTableAssumption DEF ProbeTableAssumption
  <2> QED BY <1>1, <2>1, <2>2 DEF TableInv, TableTypeOK
<1> QED BY <1>2, <1>3, <1>4
        DEF TableInv, CrossLinks, EntriesArePlain, ChainsClosed, RemovalKnows, ThroughHole

----------------------------------------------------------------------------
(* Theorems *)

\* Entries and buckets lead to each other, no search ends before its key, and
\* a removal keeps its promises half-way, in every reachable state.
THEOREM TableInvariant == TableSpec => []TableInv
<1>1. TableInit => TableInv
  BY InitInv
<1>2. TableInv /\ [TableNext]_tableVars => TableInv'
  <2> SUFFICES ASSUME TableInv, [TableNext]_tableVars PROVE TableInv'
    OBVIOUS
  <2>1. ASSUME NEW key \in TableKeys, NEW value \in TableValues, ReplaceValue(key, value)
        PROVE  TableInv'
    BY <2>1, ReplaceInv
  <2>2. ASSUME NEW key \in TableKeys, NEW value \in TableValues, InsertNew(key, value)
        PROVE  TableInv'
    BY <2>2, InsertInv
  <2>3. ASSUME NEW key \in TableKeys, TakeOut(key) PROVE TableInv'
    BY <2>3, RemoveInv
  <2>4. CASE ShiftBack
    BY <2>4, ShiftInv
  <2>5. CASE LeaveInPlace
    BY <2>5, LeaveInv
  <2>6. CASE SwapRemove
    BY <2>6, SwapInv
  <2>7. CASE Clear
    BY <2>7, ClearInv
  <2>8. CASE UNCHANGED tableVars
    BY <2>8 DEF tableVars, TableInv, TableTypeOK, Live, HomeOf, CrossLinks, EntriesArePlain,
                ChainsClosed, RemovalKnows, ThroughHole
  <2> QED BY <2>1, <2>2, <2>3, <2>4, <2>5, <2>6, <2>7, <2>8 DEF TableNext
<1> QED BY <1>1, <1>2, PTL DEF TableSpec

\* Whatever was put in, replaced and taken out, and however the hashes of the
\* keys collide, a search ends at the entry of its key, or at a vacant bucket
\* if there is none: the index is the map its caller believes in.
THEOREM TableAlwaysMap == TableSpec => []TableIsMap
BY TableInvariant, InvIsMap, PTL

----------------------------------------------------------------------------
(* The histories *)

Targets == {command.target : command \in BookCommands}

Books ==
    [active : SUBSET Targets, seen : SUBSET Targets, retained : Nat, idle : Nat, overhead : Nat]

Lines == [command : BookCommands, refused : BOOLEAN, book : Books]

Tokens ==
    [command : BookCommands, instance : Nat, expected : Nat, refused : BOOLEAN, bound : Nat,
     leased : BOOLEAN]

\* What a book is after this many commands.
BookHolds(book, commands) ==
    /\ book \in Books
    /\ IsFiniteSet(book.active) /\ Cardinality(book.active) <= MaxActive
    /\ commands <= CommandLimit /\ book.retained <= EventLimit
    /\ CommandLimit - commands + book.idle >= Cardinality(book.active)
    /\ EventLimit - book.retained + book.overhead >= Cardinality(book.active) + 1

\* A preparation of this very book and history is what preparing now gives.
TokenHolds(token, h, now) ==
    /\ token \in Tokens
    /\ token.instance <= now
    /\ token.instance = now => token.expected <= Len(h)
    /\ token.instance = now /\ token.expected = Len(h) =>
         /\ token.refused = BookRefuses(Book(h), token.command)
         /\ Admits(h, token.command, token.bound)

HistoryInv ==
    /\ history \in Seq(Lines)
    /\ instance \in Nat
    /\ \A i \in 1 .. Len(history) : BookHolds(history[i].book, i)
    /\ held \in [Handles -> {NothingHeld} \cup Tokens]
    /\ \A handle \in Handles :
         held[handle] = NothingHeld \/ TokenHolds(held[handle], history, instance)

LEMMA LimitFacts ==
  /\ MaxActive \in Nat /\ CommandLimit \in Nat /\ CommandReserve \in Nat /\ ReportLimit \in Nat
  /\ EventLimit \in Nat /\ OrdinaryCommands \in Nat /\ OrdinaryEvents \in Nat
  /\ CommandLimit - OrdinaryCommands >= MaxActive /\ EventLimit - OrdinaryEvents = MaxActive + 1
  /\ OrdinaryCommands <= CommandLimit /\ OrdinaryEvents <= EventLimit /\ MaxActive > 0
  BY HistoryAssumption DEF OrdinaryCommands, EventReserve, OrdinaryEvents

LEMMA NewBookHolds == BookHolds(NewBook, 0)
  <1>1. IsFiniteSet({}) /\ Cardinality({}) = 0
    BY FS_EmptySet
  <1>2. EventLimit >= MaxActive + 1
    BY LimitFacts
  <1> QED
    BY <1>1, <1>2, LimitFacts DEF BookHolds, NewBook, Books

LEMMA CurrentBook == ASSUME HistoryInv PROVE BookHolds(Book(history), Len(history))
  <1>1. CASE history = <<>>
    BY <1>1, NewBookHolds DEF Book
  <1>2. CASE history # <<>>
    BY <1>2 DEF Book, HistoryInv
  <1> QED
    BY <1>1, <1>2

\* The arithmetic of the tails.  There are `commands' commands and the events
\* `retained'; `orders' are active, then `left'; `removed' were cancelled.
LEMMA TailKept ==
  ASSUME NEW commands \in Nat, NEW retained \in Nat, NEW orders \in Nat, NEW left \in Nat,
         NEW removed \in Nat, NEW events \in Nat, NEW idle \in Nat, NEW overhead \in Nat,
         CommandLimit - commands + idle >= orders, EventLimit - retained + overhead >= orders + 1,
         commands < CommandLimit, retained + events <= EventLimit,
         left <= MaxActive, orders <= MaxActive, removed <= events,
         commands >= OrdinaryCommands \/ retained + events > OrdinaryEvents =>
             left = orders - removed
  PROVE /\ CommandLimit - (commands + 1)
               + (IF commands < OrdinaryCommands THEN 0
                  ELSE IF removed = 0 THEN idle + 1 ELSE idle) >= left
        /\ EventLimit - (retained + events)
               + (IF retained + events <= OrdinaryEvents THEN 0
                  ELSE overhead + events - removed) >= left + 1
  BY LimitFacts

\* The same, of the books an execution and a refusal leave.
LEMMA AfterHolds ==
  ASSUME HistoryInv, NEW active \in SUBSET Targets, NEW seen \in SUBSET Targets,
         NEW removed \in Nat, NEW events \in Nat, removed <= events,
         IsFiniteSet(active), Cardinality(active) <= MaxActive,
         Len(history) < CommandLimit, Book(history).retained + events <= EventLimit,
         (Len(history) >= OrdinaryCommands \/ Book(history).retained + events > OrdinaryEvents)
           => Cardinality(active) = Cardinality(Book(history).active) - removed
  PROVE BookHolds(BookAfter(history, active, seen, removed, events), Len(history) + 1)
  <1> DEFINE book == Book(history)
             after == BookAfter(history, active, seen, removed, events)
             commands == Len(history)
             retained == book.retained
             idle == book.idle
             overhead == book.overhead
             orders == Cardinality(book.active)
             left == Cardinality(active)
  <1>1. BookHolds(book, commands)
    BY CurrentBook
  <1>2. commands \in Nat
    BY DEF HistoryInv
  <1>3. orders \in Nat /\ left \in Nat
    BY <1>1, FS_CardinalityType DEF BookHolds
  <1>4. retained \in Nat /\ idle \in Nat /\ overhead \in Nat
    BY <1>1 DEF BookHolds, Books
  <1>5. /\ orders <= MaxActive
        /\ CommandLimit - commands + idle >= orders
        /\ EventLimit - retained + overhead >= orders + 1
    BY <1>1 DEF BookHolds
  <1>6. /\ commands < CommandLimit /\ retained + events <= EventLimit /\ left <= MaxActive
        /\ (commands >= OrdinaryCommands \/ retained + events > OrdinaryEvents)
              => left = orders - removed
    OBVIOUS
  <1>7. /\ after.active = active /\ after.seen = seen /\ after.retained = retained + events
        /\ after.idle = IF commands < OrdinaryCommands THEN 0
                        ELSE IF removed = 0 THEN idle + 1 ELSE idle
        /\ after.overhead = IF retained + events <= OrdinaryEvents THEN 0
                            ELSE overhead + events - removed
        /\ after = [active |-> after.active, seen |-> after.seen, retained |-> after.retained,
                    idle |-> after.idle, overhead |-> after.overhead]
    BY DEF BookAfter
  <1> HIDE DEF book, after, commands, retained, idle, overhead, orders
  <1>8. /\ CommandLimit - (commands + 1)
               + (IF commands < OrdinaryCommands THEN 0
                  ELSE IF removed = 0 THEN idle + 1 ELSE idle) >= left
        /\ EventLimit - (retained + events)
               + (IF retained + events <= OrdinaryEvents THEN 0
                  ELSE overhead + events - removed) >= left + 1
    <2> HIDE DEF left
    <2> QED
      BY <1>2, <1>3, <1>4, <1>5, <1>6, TailKept
  <1>9. after \in Books
    <2>1. after.retained \in Nat /\ after.idle \in Nat
      BY <1>4, <1>7
    <2>2. overhead + events - removed \in Nat
      BY <1>4
    <2>3. after.overhead \in Nat
      BY <1>7, <2>2
    <2> QED
      BY <1>7, <2>1, <2>3 DEF Books
  <1>10. commands + 1 <= CommandLimit
    BY <1>2, <1>6, LimitFacts
  <1> QED
    <2>1. /\ after.retained <= EventLimit
          /\ CommandLimit - (commands + 1) + after.idle >= Cardinality(after.active)
          /\ EventLimit - after.retained + after.overhead >= Cardinality(after.active) + 1
      BY <1>6, <1>7, <1>8 DEF left
    <2>2. IsFiniteSet(after.active) /\ Cardinality(after.active) <= MaxActive
      BY <1>7
    <2> QED
      BY <1>9, <1>10, <2>1, <2>2 DEF BookHolds, commands, after

LEMMA RefusalHolds ==
  ASSUME HistoryInv, Len(history) < OrdinaryCommands,
         Book(history).retained + 1 <= OrdinaryEvents
  PROVE BookHolds(BookAfterRefusal(history), Len(history) + 1)
  <1> DEFINE book == Book(history)
             after == BookAfterRefusal(history)
             commands == Len(history)
             retained == book.retained
             orders == Cardinality(book.active)
  <1>1. BookHolds(book, commands)
    BY CurrentBook
  <1>2. commands \in Nat
    BY DEF HistoryInv
  <1>3. book \in Books /\ retained \in Nat
    BY <1>1 DEF BookHolds, Books
  <1>4. IsFiniteSet(book.active) /\ orders \in Nat /\ orders <= MaxActive
    BY <1>1, FS_CardinalityType DEF BookHolds
  <1>5. commands < OrdinaryCommands /\ retained + 1 <= OrdinaryEvents
    OBVIOUS
  <1>6. after = [book EXCEPT !.retained = retained + 1, !.idle = 0, !.overhead = 0]
    BY <1>5 DEF BookAfterRefusal
  <1> HIDE DEF book, after, commands, retained
  <1>7. /\ after.active = book.active /\ after.retained = retained + 1
        /\ after.idle = 0 /\ after.overhead = 0 /\ after \in Books
    <2>1. book = [active |-> book.active, seen |-> book.seen, retained |-> book.retained,
                  idle |-> book.idle, overhead |-> book.overhead]
      BY <1>3 DEF Books
    <2>2. after = [active |-> book.active, seen |-> book.seen, retained |-> retained + 1,
                   idle |-> 0, overhead |-> 0]
      BY <1>6, <2>1
    <2>3. book.active \in SUBSET Targets /\ book.seen \in SUBSET Targets /\ retained + 1 \in Nat
      BY <1>3 DEF Books
    <2> QED
      BY <2>2, <2>3 DEF Books
  <1>8. /\ CommandLimit - (commands + 1) >= orders
        /\ EventLimit - (retained + 1) >= orders + 1
        /\ commands + 1 <= CommandLimit /\ retained + 1 <= EventLimit
    <2> HIDE DEF orders
    <2> QED
      BY <1>2, <1>3, <1>4, <1>5, LimitFacts
  <1>9. /\ after.retained <= EventLimit
        /\ CommandLimit - (commands + 1) + after.idle >= orders
        /\ EventLimit - after.retained + after.overhead >= orders + 1
    <2> HIDE DEF orders
    <2> QED
      BY <1>2, <1>3, <1>4, <1>7, <1>8, LimitFacts
  <1>10. BookHolds(after, commands + 1)
    BY <1>4, <1>7, <1>8, <1>9 DEF BookHolds
  <1> QED
    BY <1>10 DEF after, commands

\* What a report that is recorded may be: of a command that was decided about
\* now, with no more events than there is room for.
Recorded(token, book) ==
    /\ BookHolds(book, Len(history) + 1)
    /\ RecordReport(token.command, token.refused, book)
    /\ book.retained - Book(history).retained <= token.bound
    /\ token.command.kind = "sweep" /\ book.active # Book(history).active =>
         book.retained - Book(history).retained
           = Cardinality(Book(history).active \ book.active) + 1

\* A usable preparation, with what the limits say of it.
LEMMA UsableFacts ==
  ASSUME HistoryInv, NEW token, TokenHolds(token, history, instance), IsUsable(token)
  PROVE /\ token.refused = BookRefuses(Book(history), token.command)
        /\ Admits(history, token.command, token.bound)
        /\ token.command \in BookCommands /\ token.bound \in Nat
        /\ token.bound \in ReportBounds(Book(history), token.command)
        /\ Len(history) < CommandLimit
        /\ Book(history).retained + token.bound <= EventLimit
        /\ (Len(history) >= OrdinaryCommands
              \/ Book(history).retained + token.bound > OrdinaryEvents)
             => IsProtected(token.command) /\ ~token.refused
  <1>1. /\ token.refused = BookRefuses(Book(history), token.command)
        /\ Admits(history, token.command, token.bound)
    BY DEF TokenHolds, IsUsable
  <1>2. token.command \in BookCommands /\ token.bound \in Nat
    BY DEF TokenHolds, Tokens
  <1> QED
    BY <1>1, <1>2 DEF Admits, HasCommandRoom, HasEventRoom

\* A report of a usable preparation that the book did not refuse.
LEMMA ExecutionRecorded ==
  ASSUME HistoryInv, NEW token, TokenHolds(token, history, instance), IsUsable(token),
         token.refused = FALSE,
         NEW active \in SUBSET Targets, NEW seen \in SUBSET Targets,
         NEW removed \in Nat, NEW events \in Nat, removed <= events, events <= token.bound,
         IsFiniteSet(active), Cardinality(active) <= MaxActive,
         IsProtected(token.command)
           => Cardinality(active) = Cardinality(Book(history).active) - removed,
         token.command.kind = "sweep" /\ active # Book(history).active
           => events = Cardinality(Book(history).active \ active) + 1,
         RecordReport(token.command, FALSE, BookAfter(history, active, seen, removed, events))
  PROVE \E book : Recorded(token, book)
  <1> DEFINE after == BookAfter(history, active, seen, removed, events)
             retained == Book(history).retained
  <1>1. retained \in Nat /\ Len(history) \in Nat /\ token.bound \in Nat
    BY CurrentBook, UsableFacts DEF BookHolds, Books, HistoryInv
  <1>2. Len(history) < CommandLimit /\ retained + token.bound <= EventLimit
    BY UsableFacts
  <1>3. retained + events <= EventLimit
    <2> HIDE DEF retained
    <2> QED
      BY <1>1, <1>2, LimitFacts
  <1>4. Len(history) >= OrdinaryCommands \/ retained + events > OrdinaryEvents
          => IsProtected(token.command)
    <2>1. Len(history) >= OrdinaryCommands \/ retained + token.bound > OrdinaryEvents
            => IsProtected(token.command)
      BY UsableFacts
    <2>2. retained + events > OrdinaryEvents => retained + token.bound > OrdinaryEvents
      <3> HIDE DEF retained
      <3> QED
        BY <1>1, LimitFacts
    <2> QED
      BY <2>1, <2>2
  <1>5. BookHolds(after, Len(history) + 1)
    BY <1>2, <1>3, <1>4, AfterHolds
  <1>6. after.active = active /\ after.retained = retained + events
    BY DEF BookAfter
  <1>7. after.retained - retained = events
    <2> HIDE DEF retained, after
    <2> QED
      BY <1>1, <1>6
  <1>8. Recorded(token, after)
    BY <1>5, <1>6, <1>7 DEF Recorded
  <1> QED
    BY <1>8

\* The active orders, and what may be taken from them.
LEMMA ActiveOrders ==
  ASSUME HistoryInv, NEW gone, gone \subseteq Book(history).active
  PROVE /\ Book(history).active \in SUBSET Targets /\ Book(history).seen \in SUBSET Targets
        /\ IsFiniteSet(Book(history).active) /\ IsFiniteSet(Book(history).active \ gone)
        /\ Cardinality(gone) \in Nat /\ Cardinality(Book(history).active) \in Nat
        /\ Cardinality(Book(history).active \ gone)
             = Cardinality(Book(history).active) - Cardinality(gone)
        /\ Cardinality(Book(history).active) <= MaxActive
        /\ Cardinality(Book(history).active \ gone) <= MaxActive
  <1> DEFINE active == Book(history).active
             left == active \ gone
  <1>1. /\ active \in SUBSET Targets /\ Book(history).seen \in SUBSET Targets
        /\ IsFiniteSet(active) /\ Cardinality(active) <= MaxActive
    BY CurrentBook DEF BookHolds, Books
  <1>2. IsFiniteSet(gone) /\ IsFiniteSet(left)
    BY <1>1, FS_Subset
  <1>3. Cardinality(gone) \in Nat /\ Cardinality(left) \in Nat /\ Cardinality(active) \in Nat
    BY <1>1, <1>2, FS_CardinalityType
  <1>4. gone \cup left = active /\ gone \cap left = {}
    OBVIOUS
  <1>5. Cardinality(active) = Cardinality(gone) + Cardinality(left) - Cardinality({})
    BY <1>2, <1>4, FS_Union
  <1>6. Cardinality({}) = 0
    BY FS_EmptySet
  <1> HIDE DEF active, left
  <1>7. /\ Cardinality(left) = Cardinality(active) - Cardinality(gone)
        /\ Cardinality(left) <= MaxActive
    BY <1>1, <1>3, <1>5, <1>6, LimitFacts
  <1> QED
    BY <1>1, <1>2, <1>3, <1>7 DEF active, left

\* A report that leaves the orders alone: of a control, and of the risk engine.
LEMMA UntouchedRecorded ==
  ASSUME HistoryInv, NEW token, TokenHolds(token, history, instance), IsUsable(token),
         token.refused = FALSE,
         RecordReport(token.command, FALSE,
                 BookAfter(history, Book(history).active, Book(history).seen, 0, 1))
  PROVE \E book : Recorded(token, book)
  <1> DEFINE active == Book(history).active
  <1>1. /\ active \in SUBSET Targets /\ Book(history).seen \in SUBSET Targets
        /\ IsFiniteSet(active) /\ Cardinality(active) \in Nat /\ Cardinality(active) <= MaxActive
    BY ActiveOrders
  <1>2. token.bound \in Nat /\ token.bound \in ReportBounds(Book(history), token.command)
    BY UsableFacts
  <1>3. Cardinality(SelectedOrders(Book(history), token.command)) \in Nat
    BY ActiveOrders DEF SelectedOrders
  <1>4. 1 <= token.bound
    BY <1>2, <1>3, LimitFacts DEF ReportBounds
  <1>5. Cardinality(active) = Cardinality(active) - 0 /\ 0 \in Nat /\ 1 \in Nat /\ 0 <= 1
    <2> HIDE DEF active
    <2> QED
      BY <1>1
  <1>6. RecordReport(token.command, FALSE,
                BookAfter(history, active, Book(history).seen, 0, 1))
    OBVIOUS
  <1> HIDE DEF active
  <1>7. active = Book(history).active
    BY DEF active
  <1> QED
    BY <1>1, <1>4, <1>5, <1>6, <1>7, ExecutionRecorded

LEMMA CancelRecorded ==
  ASSUME HistoryInv, NEW token, TokenHolds(token, history, instance), IsUsable(token),
         token.refused = FALSE,
         token.command.kind = "cancel", ExecuteCancel(token)
  PROVE \E book : Recorded(token, book)
  <1> DEFINE gone == {token.command.target}
  <1>1. token.command.target \in Book(history).active
    BY UsableFacts DEF BookRefuses
  <1>2. /\ Book(history).active \ gone \in SUBSET Targets
        /\ Book(history).seen \in SUBSET Targets
        /\ IsFiniteSet(Book(history).active \ gone)
        /\ Cardinality(Book(history).active \ gone)
             = Cardinality(Book(history).active) - Cardinality(gone)
        /\ Cardinality(Book(history).active \ gone) <= MaxActive
    BY <1>1, ActiveOrders
  <1>3. Cardinality(gone) = 1
    BY FS_Singleton
  <1>4. token.bound \in ReportBounds(Book(history), token.command)
    BY UsableFacts
  <1>5. 1 <= token.bound
    BY <1>4 DEF ReportBounds
  <1>6. 1 \in Nat /\ 1 <= 1
    OBVIOUS
  <1>7. RecordReport(token.command, FALSE,
                BookAfter(history, Book(history).active \ gone, Book(history).seen, 1, 1))
    BY DEF ExecuteCancel
  <1>8. token.command.kind # "sweep"
    OBVIOUS
  <1> HIDE DEF gone
  <1> QED
    BY <1>2, <1>3, <1>5, <1>6, <1>7, <1>8, ExecutionRecorded

LEMMA SweepRecorded ==
  ASSUME HistoryInv, NEW token, TokenHolds(token, history, instance), IsUsable(token),
         token.refused = FALSE,
         token.command.kind = "sweep", ExecuteSweep(token)
  PROVE \E book : Recorded(token, book)
  <1> DEFINE gone == SelectedOrders(Book(history), token.command)
             removed == Cardinality(gone)
  <1>1. gone \subseteq Book(history).active
    BY DEF SelectedOrders
  <1>2. /\ Book(history).active \ gone \in SUBSET Targets
        /\ Book(history).seen \in SUBSET Targets
        /\ IsFiniteSet(Book(history).active \ gone) /\ removed \in Nat
        /\ Cardinality(Book(history).active \ gone)
             = Cardinality(Book(history).active) - removed
        /\ Cardinality(Book(history).active \ gone) <= MaxActive
    BY <1>1, ActiveOrders
  <1>3. /\ token.bound \in ReportBounds(Book(history), token.command)
        /\ token.refused = BookRefuses(Book(history), token.command)
    BY UsableFacts
  <1>4. token.bound = removed + 1
    BY <1>3 DEF ReportBounds
  <1>5. Book(history).active \ (Book(history).active \ gone) = gone
    BY <1>1
  <1>6. removed + 1 \in Nat /\ removed <= removed + 1 /\ removed + 1 <= token.bound
    <2> HIDE DEF removed
    <2> QED
      BY <1>2, <1>4
  <1>7. RecordReport(token.command, FALSE,
                BookAfter(history, Book(history).active \ gone, Book(history).seen,
                          removed, removed + 1))
    BY DEF ExecuteSweep
  <1> HIDE DEF gone
  <1> QED
    BY <1>2, <1>5, <1>6, <1>7, ExecutionRecorded

LEMMA OrderRecorded ==
  ASSUME HistoryInv, NEW token, TokenHolds(token, history, instance), IsUsable(token),
         token.refused = FALSE,
         token.command.kind \in {"new", "replace", "trigger"}, ExecuteOrder(token)
  PROVE \E book : Recorded(token, book)
  <1> DEFINE arriving == Arriving(token.command)
  <1>1. PICK active \in SUBSET (Book(history).active \cup arriving), events \in 1 .. token.bound :
          /\ Cardinality(active) <= MaxActive
          /\ Cardinality(Book(history).active \ active) < events
          /\ RecordReport(token.command, FALSE,
                          BookAfter(history, active, Book(history).seen \cup arriving,
                                    Cardinality(Book(history).active \ active), events))
    BY DEF ExecuteOrder
  <1>2. token.bound \in Nat /\ arriving \subseteq Targets /\ IsFiniteSet(arriving)
    BY UsableFacts, FS_EmptySet, FS_Singleton DEF Targets, Arriving
  <1>3. /\ Book(history).active \in SUBSET Targets /\ Book(history).seen \in SUBSET Targets
        /\ IsFiniteSet(Book(history).active)
        /\ Cardinality(Book(history).active \ active) \in Nat
    BY ActiveOrders
  <1>4. IsFiniteSet(Book(history).active \cup arriving)
    BY <1>2, <1>3, FS_Union
  <1>5. IsFiniteSet(active)
    BY <1>4, FS_Subset
  <1>6. active \in SUBSET Targets /\ Book(history).seen \cup arriving \in SUBSET Targets
    BY <1>2, <1>3
  <1>7. /\ events \in Nat /\ events <= token.bound
        /\ Cardinality(Book(history).active \ active) <= events
    BY <1>1, <1>2, <1>3
  <1>8. ~IsProtected(token.command) /\ token.command.kind # "sweep"
    BY DEF IsProtected
  <1> HIDE DEF arriving
  <1> QED
    BY <1>1, <1>3, <1>5, <1>6, <1>7, <1>8, ExecutionRecorded

LEMMA RefusalRecorded ==
  ASSUME HistoryInv, NEW token, TokenHolds(token, history, instance), IsUsable(token),
         token.refused = TRUE,
         RecordReport(token.command, TRUE, BookAfterRefusal(history))
  PROVE \E book : Recorded(token, book)
  <1> DEFINE after == BookAfterRefusal(history)
             retained == Book(history).retained
  <1>1. retained \in Nat /\ Len(history) \in Nat /\ Book(history) \in Books
    BY CurrentBook DEF BookHolds, Books, HistoryInv
  <1>2. /\ token.bound \in ReportBounds(Book(history), token.command)
        /\ token.refused = BookRefuses(Book(history), token.command)
        /\ ~(Len(history) >= OrdinaryCommands \/ retained + token.bound > OrdinaryEvents)
    BY UsableFacts
  <1>3. token.bound = 1
    <2>1. BookRefuses(Book(history), token.command) /\ token.command.kind # "sweep"
      BY <1>2 DEF BookRefuses
    <2> QED
      BY <1>2, <2>1 DEF ReportBounds
  <1>4. Len(history) < OrdinaryCommands /\ retained + 1 <= OrdinaryEvents
    <2> HIDE DEF retained
    <2> QED
      BY <1>1, <1>2, <1>3, LimitFacts
  <1>5. BookHolds(after, Len(history) + 1)
    BY <1>4, RefusalHolds
  <1>6. after.active = Book(history).active /\ after.retained = retained + 1
    BY <1>1 DEF BookAfterRefusal, Books
  <1>7. after.retained - retained = 1
    <2> HIDE DEF retained, after
    <2> QED
      BY <1>1, <1>6
  <1>8. Recorded(token, after)
    <2>1. RecordReport(token.command, token.refused, after)
      OBVIOUS
    <2>2. after.retained - retained <= token.bound
      <3> HIDE DEF retained, after
      <3> QED
        BY <1>3, <1>7
    <2> QED
      BY <1>5, <1>6, <2>1, <2>2 DEF Recorded
  <1> QED
    BY <1>8

\* Whatever a usable preparation does, it records a report that holds.
LEMMA ExecutedRecorded ==
  ASSUME HistoryInv, NEW token, TokenHolds(token, history, instance), IsUsable(token),
         Executed(token)
  PROVE \E book : Recorded(token, book)
  <1>1. token.refused \in BOOLEAN /\ token.command \in BookCommands
    BY DEF TokenHolds, Tokens
  <1>2. CASE token.refused = TRUE
    BY <1>2, RefusalRecorded DEF Executed
  <1>3. CASE token.refused = FALSE
    <2>1. CASE RefusedByGate(token)
      BY <1>3, <2>1, UntouchedRecorded DEF RefusedByGate
    <2>2. CASE Executes(token)
      <3>1. token.command.kind \in {"new", "replace", "trigger", "cancel", "sweep", "control"}
        BY <1>1, HistoryAssumption
      <3>2. CASE token.command.kind \in {"new", "replace", "trigger"}
        BY <1>3, <2>2, <3>2, OrderRecorded DEF Executes
      <3>3. CASE token.command.kind = "cancel"
        BY <1>3, <2>2, <3>3, CancelRecorded DEF Executes
      <3>4. CASE token.command.kind = "sweep"
        BY <1>3, <2>2, <3>4, SweepRecorded DEF Executes
      <3>5. CASE token.command.kind = "control"
        BY <1>3, <2>2, <3>5, UntouchedRecorded DEF Executes, ExecuteControl
      <3> QED
        BY <3>1, <3>2, <3>3, <3>4, <3>5
    <2> QED
      BY <1>3, <2>1, <2>2 DEF Executed
  <1> QED
    BY <1>1, <1>2, <1>3

\* The history behind such a report.
LEMMA HistoryGrows ==
  ASSUME HistoryInv, NEW token, TokenHolds(token, history, instance), IsUsable(token),
         NEW book,
         Recorded(token, book)
  PROVE /\ history' \in Seq(Lines) /\ Len(history') = Len(history) + 1
        /\ \A i \in 1 .. Len(history') : BookHolds(history'[i].book, i)
        /\ history'[Len(history')]
             = [command |-> token.command, refused |-> token.refused, book |-> book]
  <1> DEFINE entry == [command |-> token.command, refused |-> token.refused, book |-> book]
  <1>1. history' = Append(history, entry) /\ BookHolds(book, Len(history) + 1)
    BY DEF Recorded, RecordReport
  <1>2. entry \in Lines
    BY <1>1 DEF TokenHolds, Tokens, BookHolds, Lines
  <1>3. history \in Seq(Lines) /\ \A i \in 1 .. Len(history) : BookHolds(history[i].book, i)
    BY DEF HistoryInv
  <1>4. entry.book = book
    OBVIOUS
  <1> HIDE DEF entry
  <1>5. /\ history' \in Seq(Lines) /\ Len(history') = Len(history) + 1
        /\ history'[Len(history) + 1] = entry
        /\ \A i \in 1 .. Len(history) : history'[i] = history[i]
    BY <1>1, <1>2, <1>3
  <1>6. ASSUME NEW i \in 1 .. Len(history') PROVE BookHolds(history'[i].book, i)
    <2>1. CASE i = Len(history) + 1
      BY <1>1, <1>4, <1>5, <2>1
    <2>2. CASE i \in 1 .. Len(history)
      BY <1>3, <1>5, <2>2
    <2> QED
      BY <1>3, <1>5, <2>1, <2>2
  <1> QED
    BY <1>5, <1>6 DEF entry

\* Behind another commit, or in another book, a preparation is unusable.
LEMMA TokenOutdated ==
  ASSUME HistoryInv, NEW token, TokenHolds(token, history, instance), instance' \in Nat,
         \/ instance' = instance /\ Len(history') = Len(history) + 1
         \/ instance' = instance + 1
  PROVE TokenHolds(token, history', instance')
  <1>1. /\ token \in Tokens /\ token.instance \in Nat /\ token.expected \in Nat
        /\ token.instance <= instance /\ instance \in Nat /\ Len(history) \in Nat
        /\ token.instance = instance => token.expected <= Len(history)
    BY DEF TokenHolds, Tokens, HistoryInv
  <1>2. /\ token.instance <= instance'
        /\ token.instance = instance' => token.expected <= Len(history')
        /\ ~(token.instance = instance' /\ token.expected = Len(history'))
    BY <1>1
  <1> QED
    BY <1>1, <1>2 DEF TokenHolds

LEMMA PrepareKeeps ==
  ASSUME HistoryInv, NEW handle \in Handles, NEW command \in BookCommands,
         NEW bound \in ReportBounds(Book(history), command), Prepare(handle, command, bound)
  PROVE HistoryInv'
  <1> DEFINE token == [command |-> command, instance |-> instance, expected |-> Len(history),
                       refused |-> BookRefuses(Book(history), command), bound |-> bound,
                       leased |-> NeedsBuffer(Book(history), command)]
  <1>1. /\ UNCHANGED <<history, instance>> /\ Admits(history, command, bound)
        /\ held' = [held EXCEPT ![handle] = token]
    BY DEF Prepare
  <1>2. BookRefuses(Book(history), command) \in BOOLEAN
    <2>1. CASE command.kind = "new"
      BY <2>1 DEF BookRefuses
    <2>2. CASE command.kind \in {"cancel", "replace"}
      BY <2>2 DEF BookRefuses
    <2>3. CASE command.kind \notin {"new", "cancel", "replace"}
      BY <2>3 DEF BookRefuses
    <2> QED
      BY <2>1, <2>2, <2>3
  <1>3. Cardinality(SelectedOrders(Book(history), command)) \in Nat
    BY ActiveOrders DEF SelectedOrders
  <1>4. bound \in Nat
    BY <1>3, LimitFacts DEF ReportBounds
  <1>5. instance \in Nat /\ Len(history) \in Nat
    BY DEF HistoryInv
  <1>6. NeedsBuffer(Book(history), command) \in BOOLEAN
    BY <1>2 DEF NeedsBuffer
  <1>7. token \in Tokens
    BY <1>2, <1>4, <1>5, <1>6 DEF Tokens
  <1>8. TokenHolds(token, history, instance)
    <2>1. /\ token.command = command /\ token.instance = instance
          /\ token.expected = Len(history) /\ token.bound = bound
          /\ token.refused = BookRefuses(Book(history), command)
      OBVIOUS
    <2> HIDE DEF token
    <2> QED
      BY <1>1, <1>5, <1>7, <2>1 DEF TokenHolds
  <1> HIDE DEF token
  <1>9. held' \in [Handles -> {NothingHeld} \cup Tokens]
    BY <1>1, <1>7 DEF HistoryInv
  <1>10. ASSUME NEW other \in Handles
         PROVE held'[other] = NothingHeld \/ TokenHolds(held'[other], history', instance')
    <2>1. held'[other] = token \/ held'[other] = held[other]
      BY <1>1 DEF HistoryInv
    <2>2. held'[other] = NothingHeld \/ TokenHolds(held'[other], history, instance)
      BY <1>8, <2>1 DEF HistoryInv
    <2> QED
      BY <1>1, <2>2
  <1> QED
    BY <1>1, <1>9, <1>10 DEF HistoryInv, BookHolds

LEMMA CommitKeeps ==
  ASSUME HistoryInv, NEW handle \in Handles, Commit(handle)
  PROVE HistoryInv'
  <1> DEFINE token == held[handle]
  <1>1. /\ token # NothingHeld /\ instance' = instance
        /\ held' = [held EXCEPT ![handle] = NothingHeld]
    BY DEF Commit
  <1>2. TokenHolds(token, history, instance)
    BY <1>1 DEF HistoryInv
  <1>3. held' \in [Handles -> {NothingHeld} \cup Tokens]
    BY <1>1 DEF HistoryInv
  <1>4. \A other \in Handles :
             held'[other] = NothingHeld \/ TokenHolds(held'[other], history, instance)
    BY <1>1 DEF HistoryInv
  <1>5. instance \in Nat
    BY DEF HistoryInv
  <1>6. CASE IsUsable(token)
    <2>1. Executed(token)
      BY <1>6 DEF Commit
    <2>2. PICK book : Recorded(token, book)
      BY <1>2, <1>6, <2>1, ExecutedRecorded
    <2>3. /\ history' \in Seq(Lines) /\ Len(history') = Len(history) + 1
          /\ \A i \in 1 .. Len(history') : BookHolds(history'[i].book, i)
      BY <1>2, <1>6, <2>2, HistoryGrows
    <2>4. \A other \in Handles :
               held'[other] = NothingHeld \/ TokenHolds(held'[other], history', instance')
      BY <1>1, <1>4, <1>5, <2>3, TokenOutdated
    <2> QED
      BY <1>1, <1>3, <1>5, <2>3, <2>4 DEF HistoryInv, BookHolds
  <1>7. CASE ~IsUsable(token)
    <2>1. UNCHANGED <<history, instance>>
      BY <1>1, <1>7 DEF Commit
    <2>2. \A other \in Handles :
               held'[other] = NothingHeld \/ TokenHolds(held'[other], history', instance')
      BY <1>4, <2>1
    <2> QED
      BY <1>3, <2>1, <2>2 DEF HistoryInv, BookHolds
  <1> QED
    BY <1>6, <1>7

LEMMA DropKeeps ==
  ASSUME HistoryInv, NEW handle \in Handles, Drop(handle)
  PROVE HistoryInv'
  <1>1. UNCHANGED <<history, instance>> /\ held' = [held EXCEPT ![handle] = NothingHeld]
    BY DEF Drop
  <1>2. held' \in [Handles -> {NothingHeld} \cup Tokens]
    BY <1>1 DEF HistoryInv
  <1>3. \A other \in Handles :
             held'[other] = NothingHeld \/ TokenHolds(held'[other], history, instance)
    BY <1>1 DEF HistoryInv
  <1>4. \A other \in Handles :
             held'[other] = NothingHeld \/ TokenHolds(held'[other], history', instance')
    BY <1>1, <1>3
  <1> QED
    BY <1>1, <1>2, <1>4 DEF HistoryInv, BookHolds

LEMMA RestoreKeeps ==
  ASSUME HistoryInv, NEW length \in 0 .. Len(history), Restore(length)
  PROVE HistoryInv' /\ Len(history') <= Len(history)
  <1>1. /\ history' = SubSeq(history, 1, length) /\ instance' = instance + 1
        /\ held' = held
    BY DEF Restore
  <1>2. history \in Seq(Lines) /\ instance' \in Nat
    BY <1>1 DEF HistoryInv
  <1>3. /\ history' \in Seq(Lines) /\ Len(history') = length /\ length <= Len(history)
        /\ \A i \in 1 .. length : history'[i] = history[i]
    BY <1>1, <1>2
  <1>4. \A i \in 1 .. Len(history') : BookHolds(history'[i].book, i)
    BY <1>2, <1>3 DEF HistoryInv
  <1>5. \A other \in Handles :
             held'[other] = NothingHeld \/ TokenHolds(held'[other], history', instance')
    BY <1>1, <1>2, TokenOutdated DEF HistoryInv
  <1> QED
    BY <1>1, <1>2, <1>3, <1>4, <1>5 DEF HistoryInv, BookHolds

LEMMA HistoryInitHolds == HistoryInit => HistoryInv
  BY DEF HistoryInit, HistoryInv

LEMMA HistoryStepHolds == HistoryInv /\ [HistoryNext]_historyVars => HistoryInv'
  <1> SUFFICES ASSUME HistoryInv, [HistoryNext]_historyVars PROVE HistoryInv'
    OBVIOUS
  <1>1. CASE UNCHANGED historyVars
    <2>1. UNCHANGED <<history, instance>> /\ held' = held
      BY <1>1 DEF historyVars
    <2>2. \A other \in Handles :
               held'[other] = NothingHeld \/ TokenHolds(held'[other], history', instance')
      BY <2>1 DEF HistoryInv
    <2> QED
      BY <2>1, <2>2 DEF HistoryInv, BookHolds
  <1>2. ASSUME NEW handle \in Handles, NEW command \in BookCommands,
               NEW bound \in ReportBounds(Book(history), command),
               Prepare(handle, command, bound)
        PROVE HistoryInv'
    BY <1>2, PrepareKeeps
  <1>3. ASSUME NEW handle \in Handles, Commit(handle) PROVE HistoryInv'
    BY <1>3, CommitKeeps
  <1>4. ASSUME NEW handle \in Handles, Drop(handle) PROVE HistoryInv'
    BY <1>4, DropKeeps
  <1>5. ASSUME NEW length \in 0 .. Len(history), Restore(length) PROVE HistoryInv'
    BY <1>5, RestoreKeeps
  <1> QED
    BY <1>1, <1>2, <1>3, <1>4, <1>5 DEF HistoryNext

\* Every preparation that is still of this book and of its whole history says
\* what preparing it now would, and every recorded book keeps to its tails.
THEOREM BookHistoryInvariant == HistorySpec => []HistoryInv
  <1> QED
    BY HistoryInitHolds, HistoryStepHolds, PTL DEF HistorySpec

\* A full history can always be emptied of orders: cancellation tails of
\* OrderBookLimits::new, kept by check_history_capacity_and_business and
\* check_event_capacity.
THEOREM TailsAreKept == HistorySpec => []CancellationsHaveRoom
  <1>1. HistoryInv => CancellationsHaveRoom
    <2> SUFFICES ASSUME HistoryInv PROVE CancellationsHaveRoom
      OBVIOUS
    <2>1. BookHolds(Book(history), Len(history))
      BY CurrentBook
    <2>2. Len(history) \in Nat /\ Book(history).retained \in Nat
      BY <2>1 DEF HistoryInv, BookHolds, Books
    <2> QED
      BY <2>1, <2>2, LimitFacts DEF CancellationsHaveRoom, CommandsLeft, EventsLeft, BookHolds
  <1> QED
    BY <1>1, BookHistoryInvariant, PTL

\* Whatever is committed was decided about the way it would be decided now:
\* no preparation outlives another commit, or the book it was made for.
THEOREM PreparationsAreCurrent == HistorySpec => CommitsAreCurrent
  <1> DEFINE Current ==
        Len(history') > Len(history) =>
          LET entry == history'[Len(history')]
              book == Book(history)
              events == entry.book.retained - book.retained
          IN /\ ~Known(history, entry.command)
             /\ entry.refused = BookRefuses(book, entry.command)
             /\ entry.command.kind = "sweep" /\ entry.book.active # book.active =>
                  events = Cardinality(book.active \ entry.book.active) + 1
             /\ \E bound \in ReportBounds(book, entry.command) :
                  events <= bound /\ Admits(history, entry.command, bound)
  <1>1. HistoryInv /\ [HistoryNext]_historyVars => [Current]_historyVars
    <2> SUFFICES ASSUME HistoryInv, HistoryNext, Len(history') > Len(history)
                 PROVE Current
      OBVIOUS
    <2>1. PICK handle \in Handles : Commit(handle)
      <3>1. Len(history) \in Nat
        BY DEF HistoryInv
      <3>2. history' # history
        BY <3>1
      <3>3. \A length \in 0 .. Len(history) : ~Restore(length)
        BY <3>1, RestoreKeeps DEF HistoryInv
      <3> QED
        BY <3>2, <3>3 DEF HistoryNext, Prepare, Drop
    <2> DEFINE token == held[handle]
    <2>2. TokenHolds(token, history, instance)
      BY <2>1 DEF HistoryInv, Commit
    <2>3. IsUsable(token) /\ Executed(token)
      BY <2>1 DEF Commit, HistoryInv
    <2>4. PICK book : Recorded(token, book)
      BY <2>2, <2>3, ExecutedRecorded
    <2>5. history'[Len(history')]
            = [command |-> token.command, refused |-> token.refused, book |-> book]
      BY <2>2, <2>3, <2>4, HistoryGrows
    <2>6. /\ token.refused = BookRefuses(Book(history), token.command)
          /\ Admits(history, token.command, token.bound)
          /\ token.bound \in ReportBounds(Book(history), token.command)
      BY <2>2, <2>3, UsableFacts
    <2> HIDE DEF token
    <2> QED
      BY <2>3, <2>4, <2>5, <2>6 DEF IsUsable, Recorded
  <1>2. HistorySpec => [][Current]_historyVars
    BY <1>1, BookHistoryInvariant, PTL DEF HistorySpec
  <1> QED
    BY <1>2 DEF CommitsAreCurrent

============================================================================
