----------------------------- MODULE ProbeTable -----------------------------
(***************************************************************************)
(* The hash index of the state in memory (src/src/bounded_hash.rs).        *)
(* Entries stand densely in a vector; an open-addressed array of at least  *)
(* twice as many buckets leads from a key to its entry.  A key is put into *)
(* the first vacant bucket from its home on.  A removal shifts later       *)
(* buckets of the cluster back, one after the other, so that no search for *)
(* a key that is left ends too early; one thread uses the table, and       *)
(* nothing else happens between the steps of a removal.                    *)
(***************************************************************************)
EXTENDS Integers, Sequences, Functions

CONSTANTS
    TableKeys,
    TableValues,
    Hashes,         \* what a hasher may make of a key
    Maximum,        \* entries the table is made for
    Buckets         \* and its number of buckets

\* bucket_count: the least power of two that is not below twice the maximum.
IsBucketCount(count, maximum) ==
    /\ \E k \in 0 .. count : count = 2 ^ k
    /\ count >= 2 * maximum
    /\ count = 1 \/ count < 4 * maximum

ASSUME ProbeTableAssumption ==
    /\ Maximum \in Nat /\ Buckets \in Nat \ {0}
    /\ IsBucketCount(Buckets, Maximum)
    /\ Hashes \subseteq Nat

VARIABLES
    hashOf,     \* hash_builder: a hash for every key, drawn with the table
    entries,    \* the [key, value, bucket] in use
    buckets,    \* for every place the [hash, entry] it leads to
    removal,    \* how far the removal has come that is under way, or Idle
    plain       \* history: the values put in and not taken out, by key

tableVars == <<hashOf, entries, buckets, removal, plain>>

Places == 0 .. Buckets - 1

\* Entries are counted from 1.
Vacant == [hash |-> 0, entry |-> 0]
Occupied(hash, entry) == [hash |-> hash, entry |-> entry]

Idle == [hole |-> 0, scan |-> 0, entry |-> 0]

TableInit ==
    /\ hashOf \in [TableKeys -> Hashes]
    /\ entries = <<>>
    /\ buckets = [place \in Places |-> Vacant]
    /\ removal = Idle
    /\ plain = <<>>

----------------------------------------------------------------------------
(* Probing *)

\* A power of two masks as its remainder does.
Home(hash) == hash % Buckets
NextPlace(place) == (place + 1) % Buckets

\* probe_distance
Distance(home, place) == (place - home) % Buckets

Holds(place, key) ==
    /\ buckets[place] # Vacant
    /\ buckets[place].hash = hashOf[key]
    /\ entries[buckets[place].entry].key = key

\* search: the first place from the key's home on that is vacant or holds it.
StopsAt(key, place) ==
    LET home == Home(hashOf[key]) IN
    /\ buckets[place] = Vacant \/ Holds(place, key)
    /\ \A passed \in Places :
         Distance(home, passed) < Distance(home, place) =>
           buckets[passed] # Vacant /\ ~Holds(passed, key)

----------------------------------------------------------------------------
(* Operations *)

\* try_insert of a key that is there; a full table allows it.
ReplaceValue(key, value) ==
    /\ removal = Idle
    /\ \E place \in Places :
         /\ StopsAt(key, place) /\ Holds(place, key)
         /\ entries' = [entries EXCEPT ![buckets[place].entry].value = value]
    /\ plain' = [plain EXCEPT ![key] = value]
    /\ UNCHANGED <<hashOf, buckets, removal>>

\* try_insert of a new key, refused when the table is full.
InsertNew(key, value) ==
    /\ removal = Idle /\ Len(entries) < Maximum
    /\ \E place \in Places :
         /\ StopsAt(key, place) /\ buckets[place] = Vacant
         /\ entries' = Append(entries, [key |-> key, value |-> value, bucket |-> place])
         /\ buckets' = [buckets EXCEPT ![place] = Occupied(hashOf[key], Len(entries) + 1)]
    /\ plain' = [k \in DOMAIN plain \cup {key} |-> IF k = key THEN value ELSE plain[k]]
    /\ UNCHANGED <<hashOf, removal>>

\* remove, up to the loop of erase_bucket: the key's bucket becomes the hole.
TakeOut(key) ==
    /\ removal = Idle
    /\ \E place \in Places :
         /\ StopsAt(key, place) /\ Holds(place, key)
         /\ buckets' = [buckets EXCEPT ![place] = Vacant]
         /\ removal' = [hole |-> place, scan |-> NextPlace(place), entry |-> buckets[place].entry]
    /\ plain' = [k \in DOMAIN plain \ {key} |-> plain[k]]
    /\ UNCHANGED <<hashOf, entries>>

Scanned == buckets[removal.scan]

\* Mutant of IsBehindHole: places are compared as if the table had an end.
IsBehindHoleUnwrapped ==
    LET home == Home(Scanned.hash) IN
    removal.scan - home > removal.hole - home

\* Whether the bucket under the scan is reached through the hole.
IsBehindHole ==
    LET home == Home(Scanned.hash) IN
    Distance(home, removal.scan) > Distance(home, removal.hole)

ShiftBack ==
    /\ removal # Idle /\ Scanned # Vacant
    /\ IsBehindHole
    /\ buckets' = [buckets EXCEPT ![removal.hole] = Scanned, ![removal.scan] = Vacant]
    /\ entries' = [entries EXCEPT ![Scanned.entry].bucket = removal.hole]
    /\ removal' = [removal EXCEPT !.hole = removal.scan, !.scan = NextPlace(@)]
    /\ UNCHANGED <<hashOf, plain>>

LeaveInPlace ==
    /\ removal # Idle /\ Scanned # Vacant
    /\ ~IsBehindHole
    /\ removal' = [removal EXCEPT !.scan = NextPlace(@)]
    /\ UNCHANGED <<hashOf, entries, buckets, plain>>

\* The end of the cluster is reached: the last entry takes the place of the
\* removed one.
SwapRemove ==
    /\ removal # Idle /\ Scanned = Vacant
    /\ LET last == Len(entries) IN
         /\ entries' =
              [i \in 1 .. last - 1 |-> IF i = removal.entry THEN entries[last] ELSE entries[i]]
         /\ buckets' = IF removal.entry = last THEN buckets
                       ELSE [buckets EXCEPT ![entries[last].bucket].entry = removal.entry]
    /\ removal' = Idle
    /\ UNCHANGED <<hashOf, plain>>

\* clear: the buckets are found through the entries.
Clear ==
    /\ removal = Idle
    /\ buckets' = [place \in Places |->
                     IF \E i \in DOMAIN entries : entries[i].bucket = place THEN Vacant
                     ELSE buckets[place]]
    /\ entries' = <<>>
    /\ plain' = <<>>
    /\ UNCHANGED <<hashOf, removal>>

TableNext ==
    \/ \E key \in TableKeys, value \in TableValues :
         ReplaceValue(key, value) \/ InsertNew(key, value)
    \/ \E key \in TableKeys : TakeOut(key)
    \/ ShiftBack \/ LeaveInPlace \/ SwapRemove \/ Clear

TableSpec == TableInit /\ [][TableNext]_tableVars

----------------------------------------------------------------------------
(* Properties *)

\* Between operations the table is the map its caller believes in: a search
\* ends for every key, at the entry with the value last put in for it or at
\* a vacant bucket, whatever was removed from the clusters it passes through
\* and wherever they wrap; and the entries list every key once.
TableIsMap ==
    removal = Idle =>
      /\ \A key \in TableKeys : \E place \in Places :
           /\ StopsAt(key, place)
           /\ IF key \in DOMAIN plain
                THEN Holds(place, key) /\ entries[buckets[place].entry].value = plain[key]
                ELSE buckets[place] = Vacant
      /\ \A i \in DOMAIN entries : entries[i].key \in DOMAIN plain
      /\ \A i, j \in DOMAIN entries : entries[i].key = entries[j].key => i = j

=============================================================================
