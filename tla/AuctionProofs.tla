---------------------------- MODULE AuctionProofs ----------------------------
(***************************************************************************)
(* The indication a call auction shows is the best clearing of its book.   *)
(* A sweep that stands at a transition knows the best of the prices below, *)
(* for between two transitions all prices clear the same lots; and it may  *)
(* forget all but the best, for better carries on between prices at which  *)
(* less is bid and more is asked the higher they are.  Orders are of whole *)
(* quanta, before and after an uncross.                                    *)
(*                                                                         *)
(* An uncross has a trade at most for every order it fills, and fills not  *)
(* all of them in part; so its events fit the reserve of the histories,    *)
(* and the engine implements AuctionReserve.                               *)
(***************************************************************************)
EXTENDS AuctionEngine, FiniteSetTheorems, WellFoundedInduction, SequenceTheorems, TLAPS

----------------------------------------------------------------------------
(* Sets, one element at a time *)

\* A set of numbers has a least one.
LEMMA LeastNumber ==
  ASSUME NEW S \in SUBSET Nat, S # {}
  PROVE \E n \in S : \A other \in S : n <= other
  <1>1. PICK n \in S : \A other \in S : ~(<<other, n>> \in OpToRel(<, Nat))
    BY NatLessThanWellFounded, WFMin
  <1>2. ASSUME NEW other \in S PROVE n <= other
    <2>1. ~(other < n)
      BY <1>1 DEF OpToRel
    <2> QED
      BY <2>1
  <1> QED
    BY <1>2

\* Of some subsets of a finite set one has no other below it.
LEMMA SmallestSet ==
  ASSUME NEW S, IsFiniteSet(S), NEW sets \in SUBSET SUBSET S, sets # {}
  PROVE \E T \in sets : \A U \in SUBSET T : U # T => U \notin sets
  <1> DEFINE sizes == {Cardinality(T) : T \in sets}
  <1>1. \A T \in sets : Cardinality(T) \in Nat /\ IsFiniteSet(T)
    BY FS_Subset, FS_CardinalityType
  <1>2. PICK n \in sizes : \A other \in sizes : n <= other
    <2>1. sizes \in SUBSET Nat /\ sizes # {}
      BY <1>1
    <2> HIDE DEF sizes
    <2> QED
      BY <2>1, LeastNumber
  <1>3. PICK T \in sets : n = Cardinality(T)
    BY <1>2
  <1>4. ASSUME NEW U \in SUBSET T, U # T, U \in sets PROVE FALSE
    <2>1. Cardinality(T) <= Cardinality(U)
      BY <1>2, <1>3, <1>4
    <2>2. Cardinality(U) <= Cardinality(T) /\ (Cardinality(T) = Cardinality(U) => T = U)
      BY <1>1, FS_Subset
    <2>3. Cardinality(U) \in Nat /\ Cardinality(T) \in Nat
      BY <1>1, <1>4
    <2> QED
      BY <1>4, <2>1, <2>2, <2>3
  <1> QED
    BY <1>3, <1>4

----------------------------------------------------------------------------
(* Sums over sets *)

SumOver(f, S) == FoldFunctionOnSet(+, 0, f, S)
Chosen(S) == CHOOSE x \in S : TRUE

\* FoldFunctionOnSet on a family of sets.
Summed(f, sets, sum) ==
    sum = [T \in sets |-> IF T = {} THEN 0 ELSE f[Chosen(T)] + sum[T \ {Chosen(T)}]]

\* A finite set has a table of the sums over its subsets.
LEMMA SummedExists ==
  ASSUME NEW f, NEW S, IsFiniteSet(S)
  PROVE \E sum : Summed(f, SUBSET S, sum)
  <1> DEFINE UpTo(k) == {T \in SUBSET S : Cardinality(T) <= k}
             bad == {k \in Nat : ~\E sum : Summed(f, UpTo(k), sum)}
  <1>0. \A T \in SUBSET S : IsFiniteSet(T) /\ Cardinality(T) \in Nat
                           /\ Cardinality(T) <= Cardinality(S)
    BY FS_Subset, FS_CardinalityType
  <1>1. bad = {}
    <2> SUFFICES ASSUME bad # {} PROVE FALSE
      OBVIOUS
    <2>1. PICK k \in bad : \A other \in bad : k <= other
      <3> HIDE DEF bad
      <3>1. bad \in SUBSET Nat
        BY DEF bad
      <3> QED
        BY <3>1, LeastNumber
    <2>2. ASSUME NEW T \in UpTo(k), T # {}
          PROVE T \ {Chosen(T)} \in UpTo(k - 1) /\ k # 0
      <3>1. Chosen(T) \in T
        BY <2>2 DEF Chosen
      <3>2. IsFiniteSet(T) /\ Cardinality(T) \in Nat /\ T \in SUBSET S /\ Cardinality(T) <= k
        BY <1>0
      <3>3. Cardinality(T \ {Chosen(T)}) = Cardinality(T) - 1
        BY <3>1, <3>2, FS_RemoveElement
      <3>4. T \ {Chosen(T)} \in SUBSET S
        BY <3>2
      <3>5. Cardinality(T \ {Chosen(T)}) \in Nat
        BY <1>0, <3>4
      <3> QED
        BY <2>1, <3>2, <3>3, <3>4, <3>5
    <2>3. CASE k = 0
      <3> DEFINE g == [T \in UpTo(k) |-> 0]
      <3>1. \A T \in UpTo(k) : T = {}
        BY <2>2, <2>3
      <3> HIDE DEF UpTo
      <3>2. g = [T \in UpTo(k) |-> IF T = {} THEN 0 ELSE f[Chosen(T)] + g[T \ {Chosen(T)}]]
        BY <3>1
      <3> HIDE DEF g
      <3> QED
        BY <2>1, <3>2 DEF Summed
    <2>4. CASE k # 0
      <3>1. k \in Nat /\ k - 1 \in Nat /\ k - 1 \notin bad
        <4>1. k \in Nat
          BY <2>1
        <4>2. k - 1 \in Nat /\ ~(k <= k - 1)
          BY <2>4, <4>1
        <4> HIDE DEF bad
        <4> QED
          BY <2>1, <4>1, <4>2
      <3>2. PICK g : Summed(f, UpTo(k - 1), g)
        BY <3>1
      <3> DEFINE h == [T \in UpTo(k) |-> IF T = {} THEN 0 ELSE f[Chosen(T)] + g[T \ {Chosen(T)}]]
      <3>3. \A T \in UpTo(k - 1) : T \in UpTo(k)
        BY <1>0, <3>1
      <3>4. \A T \in UpTo(k) : T # {} => T \ {Chosen(T)} \in UpTo(k - 1)
        BY <2>2
      <3> HIDE DEF UpTo
      <3>5. g = [T \in UpTo(k - 1) |-> IF T = {} THEN 0 ELSE f[Chosen(T)] + g[T \ {Chosen(T)}]]
        BY <3>2 DEF Summed
      <3>6. \A T \in UpTo(k - 1) : g[T] = h[T]
        BY <3>3, <3>5
      <3>7. h = [T \in UpTo(k) |-> IF T = {} THEN 0 ELSE f[Chosen(T)] + h[T \ {Chosen(T)}]]
        <4>1. \A T \in UpTo(k) : T # {} => g[T \ {Chosen(T)}] = h[T \ {Chosen(T)}]
          BY <3>4, <3>6
        <4> QED
          BY <4>1
      <3> HIDE DEF h
      <3> QED
        BY <2>1, <3>7 DEF Summed
    <2> QED
      BY <2>3, <2>4
  <1>2. Cardinality(S) \in Nat
    BY FS_CardinalityType
  <1>3. UpTo(Cardinality(S)) = SUBSET S
    BY <1>0
  <1> QED
    BY <1>1, <1>2, <1>3

Sums(f, S, sum) == Summed(f, SUBSET S, sum)

\* The sum over a finite set is what such a table says of it.
LEMMA SumIsSummed ==
  ASSUME NEW f, NEW S, IsFiniteSet(S)
  PROVE \E sum : Sums(f, S, sum) /\ SumOver(f, S) = sum[S]
  <1> DEFINE sum == CHOOSE g : Sums(f, S, g)
  <1>1. Sums(f, S, sum)
    BY SummedExists DEF Sums
  <1>2. SumOver(f, S) = sum[S]
    BY DEF SumOver, FoldFunctionOnSet, MapThenFoldSet, Sums, Summed, Chosen
  <1> QED
    BY <1>1, <1>2

\* The tables of a set and of a subset agree on the subset.
LEMMA SummedAgree ==
  ASSUME NEW f, NEW S, IsFiniteSet(S), NEW T \in SUBSET S,
         NEW sum, Sums(f, S, sum), NEW part, Sums(f, T, part)
  PROVE sum[T] = part[T]
  <1> DEFINE bad == {U \in SUBSET T : sum[U] # part[U]}
  <1> SUFFICES ASSUME bad # {} PROVE FALSE
    OBVIOUS
  <1>1. PICK U \in bad : \A V \in SUBSET U : V # U => V \notin bad
    <2> HIDE DEF bad
    <2>1. IsFiniteSet(T) /\ bad \in SUBSET SUBSET T
      BY FS_Subset DEF bad
    <2> QED
      BY <2>1, SmallestSet
  <1>2. sum[U] = IF U = {} THEN 0 ELSE f[Chosen(U)] + sum[U \ {Chosen(U)}]
    <2>1. sum = [V \in SUBSET S |-> IF V = {} THEN 0 ELSE f[Chosen(V)] + sum[V \ {Chosen(V)}]]
      BY DEF Sums, Summed
    <2>2. U \in SUBSET S
      BY <1>1
    <2> QED
      BY <2>1, <2>2
  <1>3. part[U] = IF U = {} THEN 0 ELSE f[Chosen(U)] + part[U \ {Chosen(U)}]
    <2>1. part = [V \in SUBSET T |-> IF V = {} THEN 0 ELSE f[Chosen(V)] + part[V \ {Chosen(V)}]]
      BY DEF Sums, Summed
    <2>2. U \in SUBSET T
      BY <1>1
    <2> QED
      BY <2>1, <2>2
  <1>4. U # {} => sum[U \ {Chosen(U)}] = part[U \ {Chosen(U)}]
    <2> SUFFICES ASSUME U # {} PROVE sum[U \ {Chosen(U)}] = part[U \ {Chosen(U)}]
      OBVIOUS
    <2>1. Chosen(U) \in U
      BY DEF Chosen
    <2>2. U \ {Chosen(U)} \in SUBSET U /\ U \ {Chosen(U)} # U /\ U \ {Chosen(U)} \in SUBSET T
      BY <1>1, <2>1
    <2> QED
      BY <1>1, <2>2
  <1> QED
    BY <1>1, <1>2, <1>3, <1>4

\* The sum of nothing is zero.
LEMMA SumNothing == \A f : SumOver(f, {}) = 0
  <1> SUFFICES ASSUME NEW f PROVE SumOver(f, {}) = 0
    OBVIOUS
  <1>1. PICK sum : Sums(f, {}, sum) /\ SumOver(f, {}) = sum[{}]
    BY FS_EmptySet, SumIsSummed
  <1> QED
    BY <1>1 DEF Sums, Summed

\* A sum is its chosen term and the sum of the others.
LEMMA SumChosen ==
  ASSUME NEW f, NEW S, IsFiniteSet(S), S # {}
  PROVE /\ Chosen(S) \in S
        /\ SumOver(f, S) = f[Chosen(S)] + SumOver(f, S \ {Chosen(S)})
  <1>1. Chosen(S) \in S
    BY DEF Chosen
  <1> DEFINE T == S \ {Chosen(S)}
  <1>2. IsFiniteSet(T) /\ T \in SUBSET S
    BY FS_RemoveElement
  <1>3. PICK sum : Sums(f, S, sum) /\ SumOver(f, S) = sum[S]
    BY SumIsSummed
  <1>4. PICK part : Sums(f, T, part) /\ SumOver(f, T) = part[T]
    BY <1>2, SumIsSummed
  <1>5. sum[T] = part[T]
    <2> HIDE DEF T
    <2>1. Sums(f, S, sum) /\ Sums(f, T, part)
      BY <1>3, <1>4
    <2> QED
      BY <1>2, <2>1, SummedAgree
  <1>6. sum[S] = f[Chosen(S)] + sum[T]
    <2>1. sum = [V \in SUBSET S |-> IF V = {} THEN 0 ELSE f[Chosen(V)] + sum[V \ {Chosen(V)}]]
      BY <1>3 DEF Sums, Summed
    <2>2. S \in SUBSET S
      OBVIOUS
    <2> QED
      BY <2>1, <2>2
  <1> QED
    BY <1>1, <1>3, <1>4, <1>5, <1>6

\* A sum stays where its terms are, if sums of two stay there.
LEMMA SumStays ==
  ASSUME NEW M, 0 \in M, \A x, y \in M : x + y \in M,
         NEW f, NEW S, IsFiniteSet(S), \A x \in S : f[x] \in M
  PROVE SumOver(f, S) \in M
  <1> DEFINE bad == {T \in SUBSET S : SumOver(f, T) \notin M}
  <1> SUFFICES ASSUME bad # {} PROVE FALSE
    OBVIOUS
  <1>1. PICK T \in bad : \A U \in SUBSET T : U # T => U \notin bad
    <2> HIDE DEF bad
    <2>1. bad \in SUBSET SUBSET S
      BY DEF bad
    <2> QED
      BY <2>1, SmallestSet
  <1>2. IsFiniteSet(T) /\ T \in SUBSET S
    BY <1>1, FS_Subset
  <1>3. CASE T = {}
    BY <1>1, <1>3, SumNothing
  <1>4. CASE T # {}
    <2>1. Chosen(T) \in T /\ SumOver(f, T) = f[Chosen(T)] + SumOver(f, T \ {Chosen(T)})
      BY <1>2, <1>4, SumChosen
    <2>2. SumOver(f, T \ {Chosen(T)}) \in M
      <3>1. T \ {Chosen(T)} \in SUBSET T /\ T \ {Chosen(T)} # T /\ T \ {Chosen(T)} \in SUBSET S
        BY <1>2, <2>1
      <3> QED
        BY <1>1, <3>1
    <2>3. f[Chosen(T)] \in M
      BY <1>2, <2>1
    <2> QED
      BY <1>1, <2>1, <2>2, <2>3
  <1> QED
    BY <1>3, <1>4

\* Any term may be taken out of a sum.
LEMMA SumTakesOut ==
  ASSUME NEW f, NEW S, IsFiniteSet(S), \A x \in S : f[x] \in Int, NEW y \in S
  PROVE /\ SumOver(f, S) = f[y] + SumOver(f, S \ {y})
        /\ SumOver(f, S) \in Int /\ SumOver(f, S \ {y}) \in Int
  <1>0. ASSUME NEW T \in SUBSET S PROVE IsFiniteSet(T) /\ SumOver(f, T) \in Int
    <2>1. IsFiniteSet(T) /\ \A x \in T : f[x] \in Int
      BY FS_Subset
    <2>2. 0 \in Int /\ \A a, b \in Int : a + b \in Int
      OBVIOUS
    <2> QED
      BY <2>1, <2>2, SumStays
  <1> DEFINE bad == {T \in SUBSET S : \E x \in T : SumOver(f, T) # f[x] + SumOver(f, T \ {x})}
  <1>1. bad = {}
    <2> SUFFICES ASSUME bad # {} PROVE FALSE
      OBVIOUS
    <2>1. PICK T \in bad : \A U \in SUBSET T : U # T => U \notin bad
      <3> HIDE DEF bad
      <3>1. bad \in SUBSET SUBSET S
        BY DEF bad
      <3> QED
        BY <3>1, SmallestSet
    <2>2. PICK x \in T : SumOver(f, T) # f[x] + SumOver(f, T \ {x})
      BY <2>1
    <2> DEFINE c == Chosen(T)
    <2>3. T \in SUBSET S /\ IsFiniteSet(T)
      BY <1>0, <2>1
    <2>4. c \in T /\ SumOver(f, T) = f[c] + SumOver(f, T \ {c})
      BY <2>2, <2>3, SumChosen
    <2> HIDE DEF c
    <2>5. c # x
      BY <2>2, <2>4
    <2>6. SumOver(f, T \ {c}) = f[x] + SumOver(f, (T \ {c}) \ {x})
      <3>1. T \ {c} \in SUBSET T /\ T \ {c} # T /\ T \ {c} \in SUBSET S /\ x \in T \ {c}
        BY <2>3, <2>4, <2>5
      <3> QED
        BY <2>1, <3>1
    <2>7. SumOver(f, T \ {x}) = f[c] + SumOver(f, (T \ {x}) \ {c})
      <3>1. T \ {x} \in SUBSET T /\ T \ {x} # T /\ T \ {x} \in SUBSET S /\ c \in T \ {x}
        BY <2>2, <2>3, <2>4, <2>5
      <3> QED
        BY <2>1, <3>1
    <2> DEFINE both == SumOver(f, (T \ {x}) \ {c})
    <2>8. (T \ {c}) \ {x} = (T \ {x}) \ {c} /\ (T \ {x}) \ {c} \in SUBSET S
      BY <2>3
    <2>9. f[x] \in Int /\ f[c] \in Int /\ both \in Int
      BY <1>0, <2>2, <2>3, <2>4, <2>8
    <2>10. SumOver(f, T) = f[c] + (f[x] + both) /\ SumOver(f, T \ {x}) = f[c] + both
      BY <2>4, <2>6, <2>7, <2>8
    <2> HIDE DEF both
    <2> QED
      BY <2>2, <2>9, <2>10
  <1>2. S \in SUBSET S /\ S \ {y} \in SUBSET S
    OBVIOUS
  <1> QED
    BY <1>0, <1>1, <1>2

\* A sum is of the terms there are.
LEMMA SumAgrees ==
  ASSUME NEW S, IsFiniteSet(S), NEW f, NEW g, \A x \in S : f[x] = g[x]
  PROVE SumOver(f, S) = SumOver(g, S)
  <1> DEFINE bad == {T \in SUBSET S : SumOver(f, T) # SumOver(g, T)}
  <1> SUFFICES ASSUME bad # {} PROVE FALSE
    OBVIOUS
  <1>1. PICK T \in bad : \A U \in SUBSET T : U # T => U \notin bad
    <2> HIDE DEF bad
    <2>1. bad \in SUBSET SUBSET S
      BY DEF bad
    <2> QED
      BY <2>1, SmallestSet
  <1>2. T \in SUBSET S /\ IsFiniteSet(T)
    BY <1>1, FS_Subset
  <1>3. T # {}
    BY <1>1, SumNothing
  <1> DEFINE c == Chosen(T)
  <1>4. c \in T /\ SumOver(f, T) = f[c] + SumOver(f, T \ {c}) /\ SumOver(g, T) = g[c] + SumOver(g, T \ {c})
    BY <1>2, <1>3, SumChosen
  <1> HIDE DEF c
  <1>5. T \ {c} \in SUBSET T /\ T \ {c} # T /\ T \ {c} \in SUBSET S
    BY <1>2, <1>4
  <1>6. SumOver(f, T \ {c}) = SumOver(g, T \ {c})
    BY <1>1, <1>5
  <1> QED
    BY <1>1, <1>2, <1>4, <1>6

----------------------------------------------------------------------------
(* Enumerations *)

\* What is before each element of a set, by a strict total order.
IsOrder(S, before) ==
    /\ before \in [S -> SUBSET S]
    /\ \A x \in S : x \notin before[x]
    /\ \A x \in S : \A y \in before[x] : before[y] \subseteq before[x]
    /\ \A x, y \in S : x = y \/ x \in before[y] \/ y \in before[x]

\* As many as the set has are the places, each is taken, and who is before
\* another has a smaller one.
LEMMA Places ==
  ASSUME NEW S, IsFiniteSet(S), NEW before, IsOrder(S, before)
  PROVE /\ Cardinality(S) \in Nat
        /\ \A x \in S : Cardinality(before[x]) \in 0 .. Cardinality(S) - 1
        /\ \A x \in S : \A y \in before[x] : Cardinality(before[y]) < Cardinality(before[x])
        /\ \A x, y \in S : Cardinality(before[x]) = Cardinality(before[y]) => x = y
        /\ \A i \in 1 .. Cardinality(S) : \E x \in S : Cardinality(before[x]) = i - 1
  <1> DEFINE n == Cardinality(S)
             place == [x \in S |-> Cardinality(before[x])]
  <1>1. n \in Nat
    BY FS_CardinalityType
  <1>2. ASSUME NEW x \in S
        PROVE before[x] \in SUBSET S /\ IsFiniteSet(before[x]) /\ Cardinality(before[x]) \in 0 .. n - 1
    <2>1. before[x] \in SUBSET S /\ x \notin before[x]
      BY DEF IsOrder
    <2>2. IsFiniteSet(before[x]) /\ Cardinality(before[x]) <= n
          /\ (n = Cardinality(before[x]) => S = before[x])
      BY <2>1, FS_Subset
    <2>3. Cardinality(before[x]) \in Nat
      BY <2>2, FS_CardinalityType
    <2> QED
      BY <1>1, <2>1, <2>2, <2>3
  <1>3. ASSUME NEW x \in S, NEW y \in before[x]
        PROVE Cardinality(before[y]) < Cardinality(before[x])
    <2>1. y \in S /\ before[y] \in SUBSET before[x] /\ y \notin before[y]
      BY <1>2 DEF IsOrder
    <2>2. Cardinality(before[y]) <= Cardinality(before[x])
          /\ (Cardinality(before[x]) = Cardinality(before[y]) => before[x] = before[y])
      BY <1>2, <2>1, FS_Subset
    <2>3. Cardinality(before[x]) \in Nat /\ Cardinality(before[y]) \in Nat
      BY <1>1, <1>2, <2>1
    <2> QED
      BY <2>1, <2>2, <2>3
  <1>4. ASSUME NEW x \in S, NEW y \in S, Cardinality(before[x]) = Cardinality(before[y])
        PROVE x = y
    <2>1. Cardinality(before[x]) \in Nat /\ Cardinality(before[y]) \in Nat
      BY <1>1, <1>2
    <2>2. x \notin before[y] /\ y \notin before[x]
      BY <1>3, <1>4, <2>1
    <2> QED
      BY <2>2 DEF IsOrder
  <1>5. place \in Injection(S, 0 .. n - 1)
    BY <1>2, <1>4 DEF Injection, IsInjective
  <1>6. IsFiniteSet(0 .. n - 1) /\ Cardinality(0 .. n - 1) = n
    BY <1>1, FS_Interval
  <1>7. place \in Surjection(S, 0 .. n - 1)
    <2> HIDE DEF place, n
    <2> QED
      BY <1>5, <1>6, FS_Injection DEF n
  <1>8. \A i \in 1 .. n : i - 1 \in 0 .. n - 1
    BY <1>1
  <1>9. \A i \in 1 .. n : \E x \in S : Cardinality(before[x]) = i - 1
    BY <1>7, <1>8 DEF Surjection
  <1> QED
    BY <1>1, <1>2, <1>3, <1>4, <1>9

\* The numbers of a set, from the least up.
LEMMA AscendingEnumerates ==
  ASSUME NEW S \in SUBSET Int, IsFiniteSet(S)
  PROVE /\ Ascending(S) \in Seq(S) /\ Len(Ascending(S)) = Cardinality(S)
        /\ Cardinality(S) \in Nat
        /\ \A n \in S : \E i \in 1 .. Cardinality(S) : Ascending(S)[i] = n
        /\ \A i, j \in 1 .. Cardinality(S) : i < j => Ascending(S)[i] < Ascending(S)[j]
  <1> DEFINE before == [n \in S |-> {m \in S : m < n}]
             size == Cardinality(S)
             up == Ascending(S)
  <1>1. IsOrder(S, before)
    <2>1. before \in [S -> SUBSET S] /\ \A n \in S : before[n] = {m \in S : m < n}
      OBVIOUS
    <2>2. \A n \in S : n \notin before[n]
      BY <2>1
    <2>3. ASSUME NEW n \in S, NEW m \in before[n] PROVE before[m] \subseteq before[n]
      <3>1. m \in S /\ m < n /\ before[m] = {k \in S : k < m} /\ before[n] = {k \in S : k < n}
        BY <2>1, <2>3
      <3>2. \A k \in S : k < m => k < n
        BY <3>1
      <3> HIDE DEF before
      <3> QED
        BY <3>1, <3>2
    <2>4. \A n, m \in S : n = m \/ n \in before[m] \/ m \in before[n]
      BY <2>1
    <2> HIDE DEF before
    <2> QED
      BY <2>1, <2>2, <2>3, <2>4 DEF IsOrder
  <1>2. /\ size \in Nat
        /\ \A n \in S : Cardinality(before[n]) \in 0 .. size - 1
        /\ \A n \in S : \A m \in before[n] : Cardinality(before[m]) < Cardinality(before[n])
        /\ \A n, m \in S : Cardinality(before[n]) = Cardinality(before[m]) => n = m
        /\ \A i \in 1 .. size : \E n \in S : Cardinality(before[n]) = i - 1
    <2> HIDE DEF before
    <2> QED
      BY <1>1, Places
  <1>3. up = [i \in 1 .. size |-> CHOOSE n \in S : Cardinality({m \in S : m < n}) = i - 1]
    BY DEF Ascending
  <1>4. \A i \in 1 .. size : up[i] \in S /\ Cardinality(before[up[i]]) = i - 1
    <2> TAKE i \in 1 .. size
    <2>1. PICK n \in S : Cardinality(before[n]) = i - 1
      BY <1>2
    <2>2. Cardinality({m \in S : m < n}) = i - 1
      BY <2>1
    <2>3. up[i] = CHOOSE k \in S : Cardinality({m \in S : m < k}) = i - 1
      <3> HIDE DEF size, up
      <3> QED
        BY <1>3
    <2> HIDE DEF size, up
    <2>4. up[i] \in S /\ Cardinality({m \in S : m < up[i]}) = i - 1
      BY <2>2, <2>3
    <2> QED
      BY <2>4
  <1>5. \A n \in S : \E i \in 1 .. size : up[i] = n
    <2> TAKE n \in S
    <2> HIDE DEF before, up, size
    <2>1. Cardinality(before[n]) + 1 \in 1 .. size
      BY <1>2
    <2>2. Cardinality(before[up[Cardinality(before[n]) + 1]]) = Cardinality(before[n])
      BY <1>2, <1>4, <2>1
    <2>3. up[Cardinality(before[n]) + 1] = n
      BY <1>2, <1>4, <2>1, <2>2
    <2> QED
      BY <2>1, <2>3
  <1>6. \A i, j \in 1 .. size : i < j => up[i] < up[j]
    <2> SUFFICES ASSUME NEW i \in 1 .. size, NEW j \in 1 .. size, i < j PROVE up[i] < up[j]
      OBVIOUS
    <2>1. up[i] \in S /\ up[j] \in S
      BY <1>4
    <2>3. ~(up[j] < up[i])
      <3>1. ASSUME up[j] < up[i] PROVE FALSE
        <4>1. up[j] \in before[up[i]]
          BY <2>1, <3>1
        <4>2. Cardinality(before[up[j]]) < Cardinality(before[up[i]])
          BY <1>2, <2>1, <4>1
        <4>3. j - 1 < i - 1
          BY <1>4, <4>2
        <4> QED
          BY <1>2, <4>3
      <3> QED
        BY <3>1
    <2>4. up[i] # up[j]
      <3> HIDE DEF up, before
      <3> QED
        BY <1>2, <1>4
    <2>5. up[i] \in Int /\ up[j] \in Int
      BY <2>1
    <2> HIDE DEF up
    <2> QED
      BY <2>3, <2>4, <2>5
  <1>7. up \in Seq(S) /\ Len(up) = size
    <2>1. up \in [1 .. size -> S]
      <3>1. up = [i \in 1 .. size |-> up[i]]
        BY <1>3
      <3> HIDE DEF up, before, size
      <3> QED
        BY <1>4, <3>1
    <2> HIDE DEF up, before, size
    <2> QED
      BY <1>2, <2>1
  <1> QED
    BY <1>2, <1>5, <1>6, <1>7

----------------------------------------------------------------------------
(* Comparing two prices *)

\* How much nearer, for the price alone.
Nearer(p, q, reference, policy) ==
    \/ Apart(p, reference) < Apart(q, reference)
    \/ /\ Apart(p, reference) = Apart(q, reference)
       /\ IF policy.last = "higher" THEN p > q ELSE p < q

\* IsBetterThan between different prices p and q, of demands d and e and
\* supplies s and t.
Better(p, d, s, q, e, t, reference, policy) ==
    \/ Least(d, s) > Least(e, t)
    \/ Least(d, s) = Least(e, t) /\ Apart(d, s) < Apart(e, t)
    \/ /\ Least(d, s) = Least(e, t) /\ Apart(d, s) = Apart(e, t)
       /\ IF policy.pressure = "favorImbalance" /\ d > s /\ e > t THEN p > q
          ELSE IF policy.pressure = "favorImbalance" /\ d < s /\ e < t THEN p < q
          ELSE Nearer(p, q, reference, policy)

\* IsBetterThan compares two clearings as their prices, demands and supplies do.
LEMMA BetterCompares ==
  ASSUME NEW p \in Nat, NEW d \in Nat, NEW s \in Nat, NEW q \in Nat, NEW e \in Nat, NEW t \in Nat,
         NEW reference \in Nat, NEW policy, p # q
  PROVE IsBetterThan(Clearing(p, d, s), Clearing(q, e, t), reference, policy)
        <=> Better(p, d, s, q, e, t, reference, policy)
  <1> DEFINE a == Clearing(p, d, s)
             b == Clearing(q, e, t)
             pressed == policy.pressure = "favorImbalance" /\ ImbalanceSide(a) = ImbalanceSide(b)
                        /\ ImbalanceSide(a) # "none" /\ a.price # b.price
             higher == IF pressed THEN ImbalanceSide(a) = "buy" ELSE policy.last = "higher"
             distance == [c \in {a, b} |-> Apart(c.price, reference)]
  <1>1. /\ a.price = p /\ a.executable = Least(d, s) /\ a.buys = d /\ a.sells = s
        /\ b.price = q /\ b.executable = Least(e, t) /\ b.buys = e /\ b.sells = t
    BY DEF Clearing
  <1>2. distance[a] = Apart(p, reference) /\ distance[b] = Apart(q, reference)
    <2> HIDE DEF a, b
    <2> QED
      BY <1>1
  <1>3. IsBetterThan(a, b, reference, policy) <=>
          CASE a.executable # b.executable -> a.executable > b.executable
            [] a.executable = b.executable /\ Imbalance(a) # Imbalance(b) ->
                  Imbalance(a) < Imbalance(b)
            [] OTHER -> IF ~pressed /\ distance[a] # distance[b] THEN distance[a] < distance[b]
                        ELSE IF higher THEN a.price > b.price ELSE a.price < b.price
    <2> HIDE DEF a, b
    <2> QED
      BY DEF IsBetterThan
  <1>4. Imbalance(a) = Apart(d, s) /\ Imbalance(b) = Apart(e, t)
    BY <1>1 DEF Imbalance
  <1>5. /\ pressed <=> /\ policy.pressure = "favorImbalance"
                       /\ (d > s /\ e > t) \/ (d < s /\ e < t)
        /\ ImbalanceSide(a) = "buy" <=> d > s
    <2>1. ImbalanceSide(a) = IF d > s THEN "buy" ELSE IF s > d THEN "sell" ELSE "none"
      BY <1>1 DEF ImbalanceSide
    <2>2. ImbalanceSide(b) = IF e > t THEN "buy" ELSE IF t > e THEN "sell" ELSE "none"
      BY <1>1 DEF ImbalanceSide
    <2> HIDE DEF a, b
    <2> QED
      BY <1>1, <2>1, <2>2
  <1>6. /\ Least(d, s) \in Nat /\ Least(e, t) \in Nat /\ Apart(d, s) \in Nat /\ Apart(e, t) \in Nat
        /\ Apart(p, reference) \in Nat /\ Apart(q, reference) \in Nat
    BY DEF Least, Apart
  <1> HIDE DEF a, b, pressed, distance
  <1>7. IsBetterThan(a, b, reference, policy) <=>
          IF Least(d, s) # Least(e, t) THEN Least(d, s) > Least(e, t)
          ELSE IF Apart(d, s) # Apart(e, t) THEN Apart(d, s) < Apart(e, t)
          ELSE IF ~pressed /\ distance[a] # distance[b] THEN distance[a] < distance[b]
          ELSE IF higher THEN p > q ELSE p < q
    BY <1>1, <1>3, <1>4
  <1> QED
    BY <1>2, <1>5, <1>6, <1>7 DEF Better, Nearer, a, b

\* Less is bid and more is asked at a higher price.
Monotone(p, d, s, q, e, t) ==
    /\ p <= q => d >= e /\ s <= t
    /\ q <= p => e >= d /\ t <= s

\* Of two prices one is better.
LEMMA BetterOrNot ==
  ASSUME NEW p \in Nat, NEW d \in Nat, NEW s \in Nat, NEW q \in Nat, NEW e \in Nat, NEW t \in Nat,
         NEW reference \in Nat, NEW policy, p # q,
         ~Better(p, d, s, q, e, t, reference, policy)
  PROVE Better(q, e, t, p, d, s, reference, policy)
  BY DEF Better, Nearer, Least, Apart

\* Better carries on, where less is bid and more is asked at higher prices.
LEMMA BetterCarries ==
  ASSUME NEW p \in Nat, NEW d \in Nat, NEW s \in Nat, NEW q \in Nat, NEW e \in Nat, NEW t \in Nat,
         NEW u \in Nat, NEW f \in Nat, NEW v \in Nat,
         NEW reference \in Nat, NEW policy,
         p # q, q # u, p # u,
         Monotone(p, d, s, q, e, t), Monotone(q, e, t, u, f, v), Monotone(p, d, s, u, f, v),
         Better(p, d, s, q, e, t, reference, policy),
         Better(q, e, t, u, f, v, reference, policy)
  PROVE Better(p, d, s, u, f, v, reference, policy)
  BY SMTT(120) DEF Better, Nearer, Least, Apart, Monotone

\* IntervalCandidatePrice is the best of an interval that clears the same lots.
LEMMA BetterInside ==
  ASSUME NEW lower \in Nat, NEW upper \in Nat, NEW d \in Nat, NEW s \in Nat, NEW policy,
         NEW reference \in Nat, lower <= upper, NEW price,
         price = IntervalCandidatePrice(lower, upper, reference, d, s, policy)
  PROVE /\ price \in lower .. upper
        /\ \A q \in lower .. upper : q # price =>
             Better(price, d, s, q, d, s, reference, policy)
  <1>1. price = IF policy.pressure = "favorImbalance" /\ d > s THEN upper
                ELSE IF policy.pressure = "favorImbalance" /\ s > d THEN lower
                ELSE Least(Most(reference, lower), upper)
    BY DEF IntervalCandidatePrice
  <1>4. price \in lower .. upper
    BY <1>1 DEF Least, Most
  <1>5. ASSUME NEW q \in lower .. upper, q # price
        PROVE Better(price, d, s, q, d, s, reference, policy)
    BY <1>1, <1>4, <1>5 DEF Least, Most, Better, Nearer, Apart
  <1> QED
    BY <1>4, <1>5

----------------------------------------------------------------------------
(* What can be bought and sold at a price *)

IsInterest(interest) ==
    \A side \in Sides :
        /\ interest.market[side] \in Nat
        /\ \A price \in Prices : interest.levels[side][price] \in Nat

Demand(interest, price) ==
    interest.market["buy"] + LotsAt(interest.levels["buy"], price .. MaxPrice)
Supply(interest, price) ==
    interest.market["sell"] + LotsAt(interest.levels["sell"], 1 .. price)

\* What is bid or asked at some prices is a sum.
LEMMA LotsAreSum == \A levels, prices : LotsAt(levels, prices) = SumOver(levels, prices)
  BY DEF LotsAt, SumOver

\* The lots at some prices, and at one price less.
LEMMA LevelSums ==
  ASSUME NEW levels, \A price \in Prices : levels[price] \in Nat, NEW S \in SUBSET Prices
  PROVE /\ LotsAt(levels, S) \in Nat
        /\ \A price \in S : LotsAt(levels, S) = levels[price] + LotsAt(levels, S \ {price})
  <1>1. MaxPrice \in Nat
    BY InstrumentAssumption
  <1>2. IsFiniteSet(Prices)
    BY <1>1, FS_Interval DEF Prices
  <1>3. IsFiniteSet(S)
    BY <1>2, FS_Subset
  <1>4. SumOver(levels, S) \in Nat
    <2>1. 0 \in Nat /\ \A a, b \in Nat : a + b \in Nat
      OBVIOUS
    <2>2. \A price \in S : levels[price] \in Nat
      OBVIOUS
    <2> QED
      BY <1>3, <2>1, <2>2, SumStays
  <1>5. ASSUME NEW price \in S PROVE SumOver(levels, S) = levels[price] + SumOver(levels, S \ {price})
    <2>1. \A x \in S : levels[x] \in Int
      OBVIOUS
    <2> QED
      BY <1>3, <2>1, SumTakesOut
  <1> QED
    BY <1>4, <1>5, LotsAreSum

\* One price up, the bids at the old price and the asks at the new one count.
LEMMA OnePriceUp ==
  ASSUME NEW interest, IsInterest(interest), NEW price \in Prices, price + 1 \in Prices
  PROVE /\ Demand(interest, price + 1) = Demand(interest, price) - interest.levels["buy"][price]
        /\ Supply(interest, price + 1) = Supply(interest, price) + interest.levels["sell"][price + 1]
  <1> DEFINE buys == interest.levels["buy"]
             sells == interest.levels["sell"]
  <1>1. /\ "buy" \in Sides /\ "sell" \in Sides
        /\ \A p \in Prices : buys[p] \in Nat /\ sells[p] \in Nat
        /\ interest.market["buy"] \in Nat /\ interest.market["sell"] \in Nat
    BY DEF IsInterest, Sides
  <1>2. price .. MaxPrice \in SUBSET Prices /\ 1 .. price + 1 \in SUBSET Prices
        /\ price \in price .. MaxPrice /\ price + 1 \in 1 .. price + 1
    BY InstrumentAssumption DEF Prices
  <1>3. (price .. MaxPrice) \ {price} = price + 1 .. MaxPrice
        /\ (1 .. price + 1) \ {price + 1} = 1 .. price
    BY InstrumentAssumption DEF Prices
  <1>4. price + 1 .. MaxPrice \in SUBSET Prices /\ 1 .. price \in SUBSET Prices
    BY <1>2, <1>3
  <1> HIDE DEF buys, sells
  <1>5. LotsAt(buys, price .. MaxPrice) = buys[price] + LotsAt(buys, price + 1 .. MaxPrice)
        /\ LotsAt(buys, price + 1 .. MaxPrice) \in Nat
    <2>1. LotsAt(buys, price .. MaxPrice) = buys[price] + LotsAt(buys, (price .. MaxPrice) \ {price})
      BY <1>1, <1>2, LevelSums
    <2>2. LotsAt(buys, price + 1 .. MaxPrice) \in Nat
      BY <1>1, <1>4, LevelSums
    <2> QED
      BY <1>3, <2>1, <2>2
  <1>6. LotsAt(sells, 1 .. price + 1) = sells[price + 1] + LotsAt(sells, 1 .. price)
        /\ LotsAt(sells, 1 .. price) \in Nat
    <2>1. LotsAt(sells, 1 .. price + 1) = sells[price + 1] + LotsAt(sells, (1 .. price + 1) \ {price + 1})
      BY <1>1, <1>2, LevelSums
    <2>2. LotsAt(sells, 1 .. price) \in Nat
      BY <1>1, <1>4, LevelSums
    <2> QED
      BY <1>3, <2>1, <2>2
  <1> QED
    BY <1>1, <1>2, <1>5, <1>6 DEF Demand, Supply, buys, sells

\* What is bid and asked at a price are numbers.
LEMMA InterestNumbers ==
  ASSUME NEW interest, IsInterest(interest), NEW price \in Prices
  PROVE /\ Demand(interest, price) \in Nat /\ Supply(interest, price) \in Nat
        /\ interest.levels["buy"][price] \in Nat /\ interest.levels["sell"][price] \in Nat
  <1> DEFINE buys == interest.levels["buy"]
             sells == interest.levels["sell"]
  <1>1. /\ \A p \in Prices : buys[p] \in Nat /\ sells[p] \in Nat
        /\ interest.market["buy"] \in Nat /\ interest.market["sell"] \in Nat
    BY DEF IsInterest, Sides
  <1>2. price .. MaxPrice \in SUBSET Prices /\ 1 .. price \in SUBSET Prices
    BY InstrumentAssumption DEF Prices
  <1>3. LotsAt(buys, price .. MaxPrice) \in Nat /\ LotsAt(sells, 1 .. price) \in Nat
    <2> HIDE DEF buys, sells
    <2> QED
      BY <1>1, <1>2, LevelSums
  <1> QED
    BY <1>1, <1>3 DEF Demand, Supply

\* Up to the next transition nothing changes.
LEMMA FlatInterest ==
  ASSUME NEW interest, IsInterest(interest), NEW lower \in Prices, NEW upper \in Prices,
         \A price \in lower + 1 .. upper :
            interest.levels["buy"][price - 1] = 0 /\ interest.levels["sell"][price] = 0
  PROVE \A price \in lower .. upper :
            /\ Demand(interest, price) = Demand(interest, lower)
            /\ Supply(interest, price) = Supply(interest, lower)
  <1> DEFINE bad == {price \in lower .. upper :
                       ~(/\ Demand(interest, price) = Demand(interest, lower)
                         /\ Supply(interest, price) = Supply(interest, lower))}
  <1> SUFFICES ASSUME bad # {} PROVE FALSE
    OBVIOUS
  <1>1. lower \in Nat /\ upper \in Nat /\ lower >= 1 /\ upper <= MaxPrice
    BY InstrumentAssumption DEF Prices
  <1>2. PICK price \in bad : \A other \in bad : price <= other
    <2>1. bad \in SUBSET Nat
      BY <1>1
    <2> HIDE DEF bad
    <2> QED
      BY <2>1, LeastNumber
  <1>3. price # lower /\ price - 1 \in lower .. upper /\ price - 1 \notin bad
    BY <1>1, <1>2
  <1>4. price - 1 \in Prices /\ (price - 1) + 1 = price /\ price \in Prices
    BY <1>1, <1>2, <1>3, InstrumentAssumption DEF Prices
  <1>5. /\ Demand(interest, price) = Demand(interest, price - 1) - interest.levels["buy"][price - 1]
        /\ Supply(interest, price) = Supply(interest, price - 1) + interest.levels["sell"][price]
    BY <1>4, OnePriceUp
  <1>6. interest.levels["buy"][price - 1] = 0 /\ interest.levels["sell"][price] = 0
    BY <1>1, <1>2, <1>3
  <1>7. Demand(interest, price - 1) \in Nat /\ Supply(interest, price - 1) \in Nat
    BY <1>4, InterestNumbers
  <1>8. /\ Demand(interest, price) = Demand(interest, price - 1)
        /\ Supply(interest, price) = Supply(interest, price - 1)
    BY <1>5, <1>6, <1>7
  <1> QED
    BY <1>2, <1>3, <1>8

\* Less is bid and more is asked at higher prices.
LEMMA MonotoneInterest ==
  ASSUME NEW interest, IsInterest(interest), NEW p \in Prices, NEW q \in Prices
  PROVE Monotone(p, Demand(interest, p), Supply(interest, p),
                 q, Demand(interest, q), Supply(interest, q))
  <1>1. ASSUME NEW lower \in Prices, NEW upper \in Prices, lower <= upper
        PROVE /\ Demand(interest, lower) >= Demand(interest, upper)
              /\ Supply(interest, lower) <= Supply(interest, upper)
    <2> DEFINE bad == {price \in lower .. upper :
                         ~(/\ Demand(interest, lower) >= Demand(interest, price)
                           /\ Supply(interest, lower) <= Supply(interest, price))}
    <2>1. lower \in Nat /\ upper \in Nat /\ lower >= 1 /\ upper <= MaxPrice /\ upper \in lower .. upper
      BY <1>1, InstrumentAssumption DEF Prices
    <2>2. bad = {}
      <3> SUFFICES ASSUME bad # {} PROVE FALSE
        OBVIOUS
      <3>1. PICK price \in bad : \A other \in bad : price <= other
        <4>1. bad \in SUBSET Nat
          BY <2>1
        <4> HIDE DEF bad
        <4> QED
          BY <4>1, LeastNumber
      <3>2. price # lower
        BY <3>1, InterestNumbers
      <3>3. price - 1 \in lower .. upper /\ price - 1 \notin bad
        BY <2>1, <3>1, <3>2
      <3>4. price - 1 \in Prices /\ (price - 1) + 1 = price /\ price \in Prices
        BY <2>1, <3>1, <3>3, InstrumentAssumption DEF Prices
      <3>5. /\ Demand(interest, price) = Demand(interest, price - 1) - interest.levels["buy"][price - 1]
            /\ Supply(interest, price) = Supply(interest, price - 1) + interest.levels["sell"][price]
        BY <3>4, OnePriceUp
      <3>6. /\ interest.levels["buy"][price - 1] \in Nat /\ interest.levels["sell"][price] \in Nat
            /\ Demand(interest, price - 1) \in Nat /\ Supply(interest, price - 1) \in Nat
            /\ Demand(interest, lower) \in Nat /\ Supply(interest, lower) \in Nat
        BY <3>4, InterestNumbers
      <3>7. /\ Demand(interest, lower) >= Demand(interest, price - 1)
            /\ Supply(interest, lower) <= Supply(interest, price - 1)
        BY <3>3
      <3>8. /\ Demand(interest, lower) >= Demand(interest, price)
            /\ Supply(interest, lower) <= Supply(interest, price)
        BY <3>5, <3>6, <3>7
      <3> QED
        BY <3>1, <3>8
    <2> QED
      BY <2>1, <2>2
  <1>2. /\ p <= q => Demand(interest, p) >= Demand(interest, q) /\ Supply(interest, p) <= Supply(interest, q)
        /\ q <= p => Demand(interest, q) >= Demand(interest, p) /\ Supply(interest, q) <= Supply(interest, p)
    BY <1>1
  <1> QED
    BY <1>2 DEF Monotone

----------------------------------------------------------------------------
(* The best price so far *)

ClearingAt(interest, price) ==
    Clearing(price, Demand(interest, price), Supply(interest, price))

Executable(interest, price) == Least(Demand(interest, price), Supply(interest, price))

BetterAt(interest, p, q, reference, policy) ==
    Better(p, Demand(interest, p), Supply(interest, p),
           q, Demand(interest, q), Supply(interest, q),
           reference, policy)

\* The clearing is the best there is at some prices, or none is possible.
BestAmong(interest, prices, reference, policy, clearing) ==
    \/ /\ clearing = NoClearing
       /\ \A p \in prices : Executable(interest, p) = 0
    \/ \E p \in prices :
         /\ clearing = ClearingAt(interest, p)
         /\ Executable(interest, p) # 0
         /\ \A q \in prices : q # p => BetterAt(interest, p, q, reference, policy)

\* IsBetterThan on the clearings of an interest, and that it decides.
LEMMA BetterAtCompares ==
  ASSUME NEW interest, IsInterest(interest), NEW p \in Prices, NEW q \in Prices, p # q,
         NEW reference \in Prices, NEW policy
  PROVE /\ IsBetterThan(ClearingAt(interest, p), ClearingAt(interest, q), reference, policy)
             <=> BetterAt(interest, p, q, reference, policy)
        /\ ~BetterAt(interest, p, q, reference, policy) => BetterAt(interest, q, p, reference, policy)
        /\ BetterAt(interest, p, q, reference, policy)
             => Executable(interest, p) >= Executable(interest, q)
  <1> DEFINE d == Demand(interest, p)
             s == Supply(interest, p)
             e == Demand(interest, q)
             t == Supply(interest, q)
  <1>1. p \in Nat /\ q \in Nat /\ reference \in Nat
    BY DEF Prices
  <1>2. d \in Nat /\ s \in Nat /\ e \in Nat /\ t \in Nat
    BY InterestNumbers
  <1> HIDE DEF d, s, e, t
  <1>3. IsBetterThan(Clearing(p, d, s), Clearing(q, e, t), reference, policy)
          <=> Better(p, d, s, q, e, t, reference, policy)
    BY <1>1, <1>2, BetterCompares
  <1>4. ~Better(p, d, s, q, e, t, reference, policy)
          => Better(q, e, t, p, d, s, reference, policy)
    BY <1>1, <1>2, BetterOrNot
  <1>5. Better(p, d, s, q, e, t, reference, policy) => Least(d, s) >= Least(e, t)
    BY <1>1, <1>2 DEF Better, Least
  <1> QED
    BY <1>3, <1>4, <1>5 DEF d, s, e, t, BetterAt, ClearingAt, Executable

\* Between the prices of an interest better carries on.
LEMMA BetterAtCarries ==
  ASSUME NEW interest, IsInterest(interest), NEW reference \in Prices, NEW policy,
         NEW p \in Prices, NEW q \in Prices, NEW u \in Prices, p # q, q # u, p # u,
         BetterAt(interest, p, q, reference, policy), BetterAt(interest, q, u, reference, policy)
  PROVE BetterAt(interest, p, u, reference, policy)
  <1> DEFINE d == Demand(interest, p)
             s == Supply(interest, p)
             e == Demand(interest, q)
             t == Supply(interest, q)
             f == Demand(interest, u)
             v == Supply(interest, u)
  <1>1. p \in Nat /\ q \in Nat /\ u \in Nat /\ reference \in Nat
       
    BY DEF Prices
  <1>2. d \in Nat /\ s \in Nat /\ e \in Nat /\ t \in Nat /\ f \in Nat /\ v \in Nat
    BY InterestNumbers
  <1>3. Monotone(p, d, s, q, e, t) /\ Monotone(q, e, t, u, f, v) /\ Monotone(p, d, s, u, f, v)
    BY MonotoneInterest
  <1>4. Better(p, d, s, q, e, t, reference, policy)
        /\ Better(q, e, t, u, f, v, reference, policy)
    BY DEF BetterAt
  <1> HIDE DEF d, s, e, t, f, v
  <1>5. Better(p, d, s, u, f, v, reference, policy)
    BY <1>1, <1>2, <1>3, <1>4, BetterCarries
  <1> QED
    BY <1>5 DEF BetterAt, d, s, f, v

\* A clearing is none only if nothing executes.
LEMMA SomeClearing ==
  ASSUME NEW interest, IsInterest(interest), NEW p \in Prices
  PROVE /\ ClearingAt(interest, p).executable = Executable(interest, p)
        /\ Executable(interest, p) \in Nat
        /\ Executable(interest, p) # 0 => ClearingAt(interest, p) # NoClearing
        /\ NoClearing.executable = 0
  <1>1. Demand(interest, p) \in Nat /\ Supply(interest, p) \in Nat
    BY InterestNumbers
  <1>2. ClearingAt(interest, p).executable = Executable(interest, p)
        /\ NoClearing.executable = Least(0, 0)
    BY DEF ClearingAt, Clearing, Executable, NoClearing
  <1>3. Executable(interest, p) \in Nat /\ Least(0, 0) = 0
    BY <1>1 DEF Executable, Least
  <1> QED
    BY <1>2, <1>3

\* The best of two parts is the better of the best of each.
LEMMA BestOfBoth ==
  ASSUME NEW interest, IsInterest(interest), NEW reference \in Prices, NEW policy,
         NEW before \in SUBSET Prices, NEW behind \in SUBSET Prices, before \cap behind = {},
         NEW best, BestAmong(interest, before, reference, policy, best),
         NEW c \in behind,
         \A q \in behind : q # c => BetterAt(interest, c, q, reference, policy)
  PROVE BestAmong(interest, before \cup behind, reference, policy,
                  IF /\ Executable(interest, c) # 0
                     /\ \/ best = NoClearing
                        \/ IsBetterThan(ClearingAt(interest, c), best, reference, policy)
                  THEN ClearingAt(interest, c) ELSE best)
  <1> DEFINE Exec(p) == Executable(interest, p)
             Wins(p, q) == BetterAt(interest, p, q, reference, policy)
             Show(p) == ClearingAt(interest, p)
             result == IF /\ Exec(c) # 0
                          /\ best = NoClearing \/ IsBetterThan(Show(c), best, reference, policy)
                       THEN Show(c) ELSE best
  <1>1. \A p \in Prices : Exec(p) \in Nat /\ (Exec(p) # 0 => Show(p) # NoClearing)
    BY SomeClearing
  <1>2. ASSUME NEW p \in Prices, NEW q \in Prices, p # q
        PROVE /\ IsBetterThan(Show(p), Show(q), reference, policy) <=> Wins(p, q)
              /\ Wins(p, q) \/ Wins(q, p)
              /\ Wins(p, q) => Exec(p) >= Exec(q)
    BY <1>2, BetterAtCompares
  <1>3. ASSUME NEW p \in Prices, NEW q \in Prices, NEW u \in Prices, p # q, q # u, p # u,
               Wins(p, q), Wins(q, u)
        PROVE Wins(p, u)
    BY <1>3, BetterAtCarries
  <1>4. \A q \in behind : q # c => Wins(c, q)
    OBVIOUS
  <1>5. \/ best = NoClearing /\ \A p \in before : Exec(p) = 0
        \/ \E p \in before : /\ best = Show(p) /\ Exec(p) # 0
                             /\ \A q \in before : q # p => Wins(p, q)
    BY DEF BestAmong
  <1>6. c \in Prices /\ c \notin before
    OBVIOUS
  <1> HIDE DEF Exec, Wins, Show
  <1>7. CASE Exec(c) = 0
    <2>1. \A q \in behind : Exec(q) = 0
      <3> SUFFICES ASSUME NEW q \in behind, q # c PROVE Exec(q) = 0
        BY <1>7
      <3>1. Exec(c) >= Exec(q) /\ Exec(q) \in Nat
        BY <1>1, <1>2, <1>4, <1>6
      <3> QED
        BY <1>7, <3>1
    <2>2. result = best
      BY <1>7
    <2>3. CASE best = NoClearing /\ \A p \in before : Exec(p) = 0
      BY <2>1, <2>2, <2>3 DEF BestAmong, Exec
    <2>4. ASSUME NEW p \in before, best = Show(p), Exec(p) # 0,
                 \A q \in before : q # p => Wins(p, q)
          PROVE BestAmong(interest, before \cup behind, reference, policy, best)
      <3>1. ASSUME NEW q \in behind PROVE Wins(p, q)
        <4>1. q # p /\ q \in Prices /\ p \in Prices
          OBVIOUS
        <4>2. Exec(q) = 0 /\ Exec(p) \in Nat
          BY <1>1, <2>1
        <4>3. ~Wins(q, p)
          BY <1>2, <2>4, <4>1, <4>2
        <4> QED
          BY <1>2, <4>1, <4>3
      <3> QED
        BY <2>4, <3>1 DEF BestAmong, Exec, Wins, Show
    <2> QED
      BY <1>5, <2>2, <2>3, <2>4 DEF Exec, Show
  <1>8. CASE Exec(c) # 0
    <2>1. CASE best = NoClearing
      <3>1. \A p \in before : Exec(p) = 0
        BY <1>1, <1>5, <2>1
      <3>2. ASSUME NEW q \in before PROVE Wins(c, q)
        <4>1. Exec(q) = 0 /\ Exec(c) \in Nat /\ q # c /\ q \in Prices
          BY <1>1, <1>6, <3>1
        <4> QED
          BY <1>2, <1>6, <1>8, <4>1
      <3>3. result = Show(c)
        BY <1>8, <2>1
      <3> QED
        BY <1>4, <1>8, <3>2, <3>3 DEF BestAmong, Exec, Wins, Show
    <2>2. CASE best # NoClearing
      <3>1. PICK p \in before : /\ best = Show(p) /\ Exec(p) # 0
                                /\ \A q \in before : q # p => Wins(p, q)
        BY <1>5, <2>2
      <3>2. p \in Prices /\ p # c
        BY <1>6
      <3>3. IsBetterThan(Show(c), best, reference, policy) <=> Wins(c, p)
        BY <1>2, <1>6, <3>1, <3>2
      <3>4. CASE Wins(c, p)
        <4>1. ASSUME NEW q \in before PROVE Wins(c, q)
          <5>1. CASE q = p
            BY <3>4, <5>1
          <5>2. CASE q # p
            BY <1>3, <1>6, <3>1, <3>2, <3>4, <5>2
          <5> QED
            BY <5>1, <5>2
        <4>2. result = Show(c)
          BY <1>8, <3>3, <3>4
        <4> QED
          BY <1>4, <1>8, <4>1, <4>2 DEF BestAmong, Exec, Wins, Show
      <3>5. CASE ~Wins(c, p)
        <4>1. Wins(p, c)
          BY <1>2, <1>6, <3>2, <3>5
        <4>2. ASSUME NEW q \in behind PROVE Wins(p, q)
          <5>1. CASE q = c
            BY <4>1, <5>1
          <5>2. CASE q # c
            BY <1>3, <1>4, <1>6, <3>2, <4>1, <5>2
          <5> QED
            BY <5>1, <5>2
        <4>3. result = Show(p)
          BY <2>2, <3>1, <3>3, <3>5
        <4> QED
          BY <3>1, <4>2, <4>3 DEF BestAmong, Exec, Wins, Show
      <3> QED
        BY <3>4, <3>5
    <2> QED
      BY <2>1, <2>2
  <1> QED
    BY <1>7, <1>8

----------------------------------------------------------------------------
(* The sweep *)

IsSweep(sweep) ==
    sweep = [lower |-> sweep.lower, best |-> sweep.best, demand |-> sweep.demand,
             supply |-> sweep.supply]

\* A sweep that stands at a price knows what is bid and asked there and the
\* best of the prices below.
SweptTo(interest, minimum, reference, policy, sweep, price) ==
    /\ IsSweep(sweep)
    /\ sweep.lower = price
    /\ sweep.demand = Demand(interest, price) /\ sweep.supply = Supply(interest, price)
    /\ BestAmong(interest, minimum .. price - 1, reference, policy, sweep.best)

\* Closing an interval finds the best of the prices up to its end.
LEMMA IntervalCloses ==
  ASSUME NEW interest, IsInterest(interest), NEW reference \in Prices, NEW policy,
         NEW minimum \in Prices, NEW lower \in Prices, NEW upper \in Prices,
         minimum <= lower, lower <= upper, NEW sweep,
         SweptTo(interest, minimum, reference, policy, sweep, lower),
         \A price \in lower + 1 .. upper :
            interest.levels["buy"][price - 1] = 0 /\ interest.levels["sell"][price] = 0
  PROVE LET closed == CloseInterval(sweep, upper, reference, policy) IN
        /\ IsSweep(closed) /\ closed.lower = lower
        /\ closed.demand = Demand(interest, lower) /\ closed.supply = Supply(interest, lower)
        /\ BestAmong(interest, minimum .. upper, reference, policy, closed.best)
  <1> DEFINE closed == CloseInterval(sweep, upper, reference, policy)
             d == Demand(interest, lower)
             s == Supply(interest, lower)
             c == IntervalCandidatePrice(lower, upper, reference, d, s, policy)
             better == /\ Executable(interest, c) # 0
                       /\ \/ sweep.best = NoClearing
                          \/ IsBetterThan(ClearingAt(interest, c), sweep.best, reference, policy)
  <1>1. /\ IsSweep(sweep) /\ sweep.lower = lower /\ sweep.demand = d /\ sweep.supply = s
        /\ BestAmong(interest, minimum .. lower - 1, reference, policy, sweep.best)
    BY DEF SweptTo
  <1>2. \A price \in lower .. upper : Demand(interest, price) = d /\ Supply(interest, price) = s
    BY FlatInterest
  <1>3. d \in Nat /\ s \in Nat /\ lower \in Nat /\ upper \in Nat /\ reference \in Nat
    BY InterestNumbers DEF Prices
  <1>4. /\ c \in lower .. upper
        /\ \A q \in lower .. upper : q # c => Better(c, d, s, q, d, s, reference, policy)
    <2> HIDE DEF d, s
    <2> QED
      BY <1>3, BetterInside
  <1>5. c \in Prices /\ lower .. upper \in SUBSET Prices /\ minimum .. lower - 1 \in SUBSET Prices
    BY <1>3, <1>4, InstrumentAssumption DEF Prices
  <1>6. /\ (minimum .. lower - 1) \cap (lower .. upper) = {}
        /\ (minimum .. lower - 1) \cup (lower .. upper) = minimum .. upper
    BY <1>3 DEF Prices
  <1>7. Clearing(c, d, s) = ClearingAt(interest, c)
        /\ Clearing(c, d, s).executable = Executable(interest, c)
    <2>1. Demand(interest, c) = d /\ Supply(interest, c) = s
      BY <1>2, <1>4
    <2> HIDE DEF c, d, s
    <2> QED
      BY <2>1 DEF ClearingAt, Executable, Clearing
  <1>8. closed = IF better THEN [sweep EXCEPT !.best = ClearingAt(interest, c)] ELSE sweep
    <2>1. closed = IF /\ Clearing(c, d, s).executable # 0
                      /\ \/ sweep.best = NoClearing
                         \/ IsBetterThan(Clearing(c, d, s), sweep.best, reference, policy)
                   THEN [sweep EXCEPT !.best = Clearing(c, d, s)] ELSE sweep
      <3> HIDE DEF d, s
      <3> QED
        BY <1>1 DEF CloseInterval
    <2> HIDE DEF closed, c, d, s
    <2> QED
      BY <1>7, <2>1
  <1>9. \A q \in lower .. upper : q # c => BetterAt(interest, c, q, reference, policy)
    <2> HIDE DEF c, d, s
    <2> QED
      BY <1>2, <1>4 DEF BetterAt
  <1> HIDE DEF c, d, s
  <1>10. BestAmong(interest, (minimum .. lower - 1) \cup (lower .. upper), reference, policy,
                   IF better THEN ClearingAt(interest, c) ELSE sweep.best)
    BY <1>1, <1>4, <1>5, <1>6, <1>9, BestOfBoth
  <1> HIDE DEF better, closed
  <1>11. IsSweep(closed) /\ closed.lower = lower /\ closed.demand = d /\ closed.supply = s
         /\ closed.best = IF better THEN ClearingAt(interest, c) ELSE sweep.best
    BY <1>1, <1>8 DEF IsSweep
  <1> QED
    BY <1>6, <1>10, <1>11 DEF closed, d, s

\* Passing a transition takes a sweep to it.
LEMMA TransitionPasses ==
  ASSUME NEW interest, IsInterest(interest), NEW reference \in Prices, NEW policy,
         NEW minimum \in Prices, NEW lower \in Prices, NEW price \in Prices,
         minimum <= lower, lower < price, NEW sweep,
         SweptTo(interest, minimum, reference, policy, sweep, lower),
         \A p \in lower + 1 .. price - 1 :
            interest.levels["buy"][p - 1] = 0 /\ interest.levels["sell"][p] = 0
  PROVE SweptTo(interest, minimum, reference, policy,
                PassTransition(interest, sweep, price, reference, policy), price)
  <1> DEFINE closed == CloseInterval(sweep, price - 1, reference, policy)
             passed == PassTransition(interest, sweep, price, reference, policy)
  <1>1. price - 1 \in Prices /\ (price - 1) + 1 = price /\ lower <= price - 1
    BY InstrumentAssumption DEF Prices
  <1>2. /\ IsSweep(closed) /\ closed.lower = lower
        /\ closed.demand = Demand(interest, lower) /\ closed.supply = Supply(interest, lower)
        /\ BestAmong(interest, minimum .. price - 1, reference, policy, closed.best)
    BY <1>1, IntervalCloses
  <1>3. Demand(interest, price - 1) = Demand(interest, lower)
        /\ Supply(interest, price - 1) = Supply(interest, lower)
    <2>1. price - 1 \in lower .. price - 1
      BY <1>1 DEF Prices
    <2> QED
      BY <1>1, <2>1, FlatInterest
  <1>4. /\ Demand(interest, price) = closed.demand - interest.levels["buy"][price - 1]
        /\ Supply(interest, price) = closed.supply + interest.levels["sell"][price]
    BY <1>1, <1>2, <1>3, OnePriceUp
  <1>5. passed = [closed EXCEPT !.lower = price, !.demand = @ - interest.levels["buy"][price - 1],
                               !.supply = @ + interest.levels["sell"][price]]
    BY DEF PassTransition
  <1> HIDE DEF closed, passed
  <1>6. IsSweep(passed) /\ passed.lower = price /\ passed.best = closed.best
        /\ passed.demand = closed.demand - interest.levels["buy"][price - 1]
        /\ passed.supply = closed.supply + interest.levels["sell"][price]
    BY <1>2, <1>5 DEF IsSweep
  <1> QED
    BY <1>2, <1>4, <1>6 DEF SweptTo, passed

\* The sweep's fold, on all parts of the first n transitions.
SweepFold(interest, band, reference, policy, s, n, fold) ==
    fold = [T \in SUBSET (1 .. n) |->
              IF T = {} THEN SweepStart(interest, band)
              ELSE PassTransition(interest, fold[T \ {Max(T)}], s[Max(T)], reference, policy)]

\* The greatest of a set that the numbers from 1 bound.
LEMMA GreatestOf ==
  ASSUME NEW n \in Nat, NEW T \in SUBSET (1 .. n + 1)
  PROVE /\ n + 1 \in T => Max(T) = n + 1
        /\ T \ {Max(T)} \in SUBSET (1 .. n)
  <1>1. ASSUME n + 1 \in T PROVE Max(T) = n + 1
    <2>1. \A x \in T : (\A y \in T : x >= y) <=> x = n + 1
      <3>1. \A y \in T : n + 1 >= y
        OBVIOUS
      <3>2. ASSUME NEW x \in T, x >= n + 1 PROVE x = n + 1
        BY <3>2
      <3> QED
        BY <1>1, <3>1, <3>2
    <2> QED
      BY <1>1, <2>1 DEF Max
  <1>2. \A x \in T : x # n + 1 => x \in 1 .. n
    OBVIOUS
  <1> QED
    BY <1>1, <1>2

\* There is a table of the states the sweep goes through.
LEMMA SweepFoldExists ==
  ASSUME NEW interest, NEW band, NEW reference, NEW policy, NEW s, NEW n \in Nat
  PROVE \E fold : SweepFold(interest, band, reference, policy, s, n, fold)
  <1> DEFINE bad == {k \in Nat : ~\E fold : SweepFold(interest, band, reference, policy, s, k, fold)}
  <1> SUFFICES ASSUME bad # {} PROVE FALSE
    OBVIOUS
  <1>1. PICK m \in bad : \A other \in bad : m <= other
    <2> HIDE DEF bad
    <2>1. bad \in SUBSET Nat
      BY DEF bad
    <2> QED
      BY <2>1, LeastNumber
  <1>2. CASE m = 0
    <2> DEFINE f == [T \in SUBSET (1 .. 0) |-> SweepStart(interest, band)]
    <2>1. \A T \in SUBSET (1 .. 0) : T = {}
      OBVIOUS
    <2>2. f = [T \in SUBSET (1 .. 0) |->
                 IF T = {} THEN SweepStart(interest, band) ELSE PassTransition(interest, f[T \ {Max(T)}], s[Max(T)], reference, policy)]
      BY <2>1
    <2> HIDE DEF f
    <2> QED
      BY <1>2, <2>2 DEF SweepFold
  <1>3. CASE m # 0
    <2>1. m \in Nat /\ m - 1 \in Nat /\ m - 1 \notin bad /\ (m - 1) + 1 = m
      BY <1>1, <1>3
    <2>2. PICK g : SweepFold(interest, band, reference, policy, s, m - 1, g)
      BY <2>1
    <2> DEFINE f == [T \in SUBSET (1 .. m) |->
                       IF T = {} THEN SweepStart(interest, band)
                       ELSE PassTransition(interest, g[T \ {Max(T)}], s[Max(T)], reference, policy)]
    <2>3. ASSUME NEW T \in SUBSET (1 .. m - 1) PROVE g[T] = f[T]
      <3>1. g = [U \in SUBSET (1 .. m - 1) |->
                   IF U = {} THEN SweepStart(interest, band) ELSE PassTransition(interest, g[U \ {Max(U)}], s[Max(U)], reference, policy)]
        BY <2>2 DEF SweepFold
      <3>2. g[T] = IF T = {} THEN SweepStart(interest, band) ELSE PassTransition(interest, g[T \ {Max(T)}], s[Max(T)], reference, policy)
        BY <3>1
      <3>3. T \in SUBSET (1 .. m)
        BY <2>1
      <3> QED
        BY <3>2, <3>3
    <2>4. \A T \in SUBSET (1 .. m) : T \ {Max(T)} \in SUBSET (1 .. m - 1)
      BY <2>1, GreatestOf
    <2>5. f = [T \in SUBSET (1 .. m) |->
                 IF T = {} THEN SweepStart(interest, band) ELSE PassTransition(interest, f[T \ {Max(T)}], s[Max(T)], reference, policy)]
      <3>1. \A T \in SUBSET (1 .. m) : g[T \ {Max(T)}] = f[T \ {Max(T)}]
        BY <2>3, <2>4
      <3> QED
        BY <3>1
    <2> HIDE DEF f
    <2> QED
      BY <1>1, <2>5 DEF SweepFold
  <1> QED
    BY <1>2, <1>3

\* What a sweep comes to, transition by transition.
SweepRuns(interest, band, reference, policy, s, run) ==
    /\ run[0] = SweepStart(interest, band)
    /\ \A i \in 1 .. Len(s) : run[i] = PassTransition(interest, run[i - 1], s[i], reference, policy)
    /\ Sweep(interest, band, reference, policy) = run[Len(s)]

\* The sweep of the model goes through the transitions one by one.
LEMMA SweepSteps ==
  ASSUME NEW interest, NEW band, NEW reference, NEW policy, NEW S, NEW s \in Seq(S),
         s = Ascending(Transitions(interest, band))
  PROVE \E run : SweepRuns(interest, band, reference, policy, s, run)
  <1> DEFINE n == Len(s)
             fold == CHOOSE f : SweepFold(interest, band, reference, policy, s, n, f)
             run == [i \in 0 .. n |-> fold[1 .. i]]
  <1>1. n \in Nat /\ DOMAIN s = 1 .. n
    OBVIOUS
  <1>2. SweepFold(interest, band, reference, policy, s, n, fold)
    BY <1>1, SweepFoldExists
  <1>3. Sweep(interest, band, reference, policy) = fold[DOMAIN s]
    BY <1>1 DEF Sweep, FoldLeft, MapThenFoldSet, SweepFold
  <1> HIDE DEF fold
  <1>4. fold = [T \in SUBSET (1 .. n) |->
                  IF T = {} THEN SweepStart(interest, band) ELSE PassTransition(interest, fold[T \ {Max(T)}], s[Max(T)], reference, policy)]
    BY <1>2 DEF SweepFold
  <1>5. run[0] = SweepStart(interest, band)
    <2>1. 1 .. 0 = {} /\ 0 \in 0 .. n
      BY <1>1
    <2>2. fold[{}] = SweepStart(interest, band)
      BY <1>4
    <2> QED
      BY <2>1, <2>2
  <1>6. ASSUME NEW i \in 1 .. n PROVE run[i] = PassTransition(interest, run[i - 1], s[i], reference, policy)
    <2>1. i - 1 \in Nat /\ (i - 1) + 1 = i /\ i - 1 \in 0 .. n /\ i \in 0 .. n
      BY <1>1
    <2>2. 1 .. i \in SUBSET (1 .. n) /\ i \in 1 .. i /\ 1 .. i # {}
      <3>1. i \in Nat /\ 1 <= i /\ i <= n
        BY <1>1
      <3>2. i \in 1 .. i
        BY <3>1
      <3>3. \A j \in 1 .. i : j \in 1 .. n
        BY <1>1, <3>1
      <3> QED
        BY <3>2, <3>3
    <2>3. Max(1 .. i) = i
      BY <2>1, <2>2, GreatestOf
    <2>4. (1 .. i) \ {i} = 1 .. i - 1
      BY <1>1
    <2>5. fold[1 .. i] = PassTransition(interest, fold[(1 .. i) \ {Max(1 .. i)}], s[Max(1 .. i)], reference, policy)
      BY <1>4, <2>2
    <2> QED
      BY <2>1, <2>3, <2>4, <2>5
  <1>7. Sweep(interest, band, reference, policy) = run[n]
    <2>1. n \in 0 .. n
      BY <1>1
    <2> QED
      BY <1>1, <1>3, <2>1
  <1> HIDE DEF run
  <1> QED
    BY <1>5, <1>6, <1>7 DEF SweepRuns

\* The sweep misses no price: of all prices of the band it finds the best.
THEOREM SweepFindsBest ==
  ASSUME NEW interest, IsInterest(interest), NEW band \in Bands, NEW reference \in Prices, NEW policy
  PROVE BestAmong(interest, band.minimum .. band.maximum, reference, policy,
                  DiscoverBoundedClearingPrice(interest, band, reference, policy))
  <1> DEFINE low == band.minimum
             high == band.maximum
             T == Transitions(interest, band)
             stops == Ascending(T)
             n == Cardinality(T)
             place(k) == IF k = 0 THEN low ELSE stops[k]
  <1>1. low \in Prices /\ high \in Prices /\ low <= high /\ low \in Nat /\ high \in Nat
    BY DEF Bands, Prices
  <1>2. T = {price \in low + 1 .. high :
               interest.levels["buy"][price - 1] # 0 \/ interest.levels["sell"][price] # 0}
    BY DEF Transitions
  <1>3. T \in SUBSET Int /\ IsFiniteSet(T)
    <2>1. T \in SUBSET (low + 1 .. high)
      BY <1>2
    <2>2. IsFiniteSet(low + 1 .. high)
      BY <1>1, FS_Interval
    <2> HIDE DEF T
    <2>3. T \in SUBSET Int
      BY <1>1, <2>1
    <2> QED
      BY <2>1, <2>2, <2>3, FS_Subset
  <1> HIDE DEF T, low, high
  <1>4. /\ stops \in Seq(T) /\ Len(stops) = n /\ n \in Nat
        /\ \A x \in T : \E i \in 1 .. n : stops[i] = x
        /\ \A i, j \in 1 .. n : i < j => stops[i] < stops[j]
    BY <1>3, AscendingEnumerates
  <1> HIDE DEF stops, n
  <1>5. \A i \in 1 .. n : stops[i] \in T /\ stops[i] \in low + 1 .. high
    BY <1>2, <1>4
  <1>6. \A k \in 0 .. n : place(k) \in low .. high /\ place(k) \in Prices /\ place(k) \in Nat
    <2> TAKE k \in 0 .. n
    <2>1. k = 0 \/ k \in 1 .. n
      BY <1>4
    <2>2. place(k) \in low .. high
      BY <1>1, <1>5, <2>1
    <2> HIDE DEF place
    <2> QED
      BY <1>1, <2>2, InstrumentAssumption DEF Prices
  <1>7. ASSUME NEW k \in 1 .. n
        PROVE /\ place(k - 1) < stops[k]
              /\ \A p \in place(k - 1) + 1 .. stops[k] - 1 : p \notin T
    <2>1. stops[k] \in Int /\ low < stops[k] /\ k \in Nat /\ k <= n /\ k >= 1
      BY <1>1, <1>4, <1>5
    <2>2. CASE k = 1
      <3>1. place(k - 1) = low
        BY <2>2
      <3>2. ASSUME NEW p \in T, p < stops[k] PROVE FALSE
        <4>1. PICK i \in 1 .. n : stops[i] = p
          BY <1>4
        <4>2. i = k \/ k < i
          BY <1>4, <2>2
        <4>3. p \in Int /\ (i = k => stops[i] = stops[k]) /\ (k < i => stops[k] < stops[i])
          BY <1>3, <1>4
        <4> QED
          BY <2>1, <3>2, <4>1, <4>2, <4>3
      <3>3. \A p \in low + 1 .. stops[k] - 1 : p < stops[k]
        BY <1>1, <2>1
      <3> QED
        BY <2>1, <3>1, <3>2, <3>3
    <2>3. CASE k # 1
      <3>1. k - 1 \in 1 .. n /\ place(k - 1) = stops[k - 1] /\ k - 1 < k
        BY <1>4, <2>1, <2>3
      <3>2. stops[k - 1] < stops[k] /\ stops[k - 1] \in Int
        BY <1>1, <1>4, <1>5, <3>1
      <3>3. ASSUME NEW p \in T, p < stops[k], stops[k - 1] < p PROVE FALSE
        <4>1. PICK i \in 1 .. n : stops[i] = p
          BY <1>4
        <4>2. i = k \/ k < i \/ i = k - 1 \/ i < k - 1
          BY <1>4, <2>1
        <4>3. /\ p \in Int /\ (i = k => stops[i] = stops[k]) /\ (k < i => stops[k] < stops[i])
              /\ (i = k - 1 => stops[i] = stops[k - 1]) /\ (i < k - 1 => stops[i] < stops[k - 1])
          BY <1>3, <1>4, <3>1
        <4> QED
          BY <2>1, <3>2, <3>3, <4>1, <4>2, <4>3
      <3>4. \A p \in stops[k - 1] + 1 .. stops[k] - 1 : p < stops[k] /\ stops[k - 1] < p
        BY <2>1, <3>2
      <3> QED
        BY <3>1, <3>2, <3>3, <3>4
    <2> QED
      BY <2>2, <2>3
  <1>8. \A p \in place(n) + 1 .. high : p \notin T
    <2>1. CASE n = 0
      <3>1. T = {}
        BY <1>4, <2>1
      <3> QED
        BY <3>1
    <2>2. CASE n # 0
      <3>1. n \in 1 .. n /\ place(n) = stops[n]
        BY <1>4, <2>2
      <3>2. ASSUME NEW p \in T, stops[n] < p PROVE FALSE
        <4>1. PICK i \in 1 .. n : stops[i] = p
          BY <1>4
        <4>2. (i = n => stops[i] = stops[n]) /\ (i < n => stops[i] < stops[n]) /\ (i = n \/ i < n)
          BY <1>4, <3>1
        <4>3. p \in Int /\ stops[n] \in Int
          BY <1>1, <1>3, <1>5, <3>1
        <4> QED
          BY <3>2, <4>1, <4>2, <4>3
      <3>3. \A p \in stops[n] + 1 .. high : stops[n] < p
        BY <1>1, <1>5, <3>1
      <3> QED
        BY <3>1, <3>2, <3>3
    <2> QED
      BY <2>1, <2>2
  <1>9. ASSUME NEW k \in 1 .. n
        PROVE \A p \in place(k - 1) + 1 .. stops[k] - 1 :
                interest.levels["buy"][p - 1] = 0 /\ interest.levels["sell"][p] = 0
    <2>1. k - 1 \in 0 .. n
      BY <1>4
    <2>2. place(k - 1) \in low .. high /\ place(k - 1) \in Nat
      BY <1>6, <2>1
    <2> HIDE DEF place
    <2>3. \A p \in place(k - 1) + 1 .. stops[k] - 1 : p \in low + 1 .. high
      BY <1>1, <1>5, <2>2
    <2> QED
      BY <1>2, <1>7, <2>3
  <1>10. \A p \in place(n) + 1 .. high :
            interest.levels["buy"][p - 1] = 0 /\ interest.levels["sell"][p] = 0
    <2>1. place(n) \in low .. high /\ place(n) \in Nat
      BY <1>4, <1>6
    <2> HIDE DEF place
    <2>2. \A p \in place(n) + 1 .. high : p \in low + 1 .. high
      BY <1>1, <2>1
    <2> QED
      BY <1>2, <1>8, <2>2
  <1>11. PICK run : SweepRuns(interest, band, reference, policy, stops, run)
    BY <1>4, SweepSteps DEF stops, T
  <1>12. /\ run[0] = SweepStart(interest, band)
         /\ \A i \in 1 .. n : run[i] = PassTransition(interest, run[i - 1], stops[i], reference, policy)
         /\ Sweep(interest, band, reference, policy) = run[n]
    BY <1>4, <1>11 DEF SweepRuns
  <1> DEFINE bad == {k \in 0 .. n : ~SweptTo(interest, low, reference, policy, run[k], place(k))}
  <1>13. bad = {}
    <2> SUFFICES ASSUME bad # {} PROVE FALSE
      OBVIOUS
    <2>1. PICK k \in bad : \A other \in bad : k <= other
      <3>1. bad \in SUBSET Nat
        BY <1>4
      <3> HIDE DEF bad
      <3> QED
        BY <3>1, LeastNumber
    <2>2. k \in 0 .. n /\ ~SweptTo(interest, low, reference, policy, run[k], place(k))
      BY <2>1
    <2>3. CASE k = 0
      <3>1. run[k] = [lower |-> low, best |-> NoClearing,
                      demand |-> Demand(interest, low), supply |-> Supply(interest, low)]
        BY <1>12, <2>3 DEF SweepStart, Demand, Supply, low
      <3>2. place(k) = low /\ low .. low - 1 = {}
        BY <1>1, <2>3
      <3>3. BestAmong(interest, low .. low - 1, reference, policy, NoClearing)
        BY <3>2 DEF BestAmong
      <3> QED
        BY <2>2, <3>1, <3>2, <3>3 DEF SweptTo, IsSweep
    <2>4. CASE k # 0
      <3>1. k \in 1 .. n /\ k - 1 \in 0 .. n /\ ~(k <= k - 1)
        BY <1>4, <2>2, <2>4
      <3>2. SweptTo(interest, low, reference, policy, run[k - 1], place(k - 1))
        BY <2>1, <3>1
      <3>3. run[k] = PassTransition(interest, run[k - 1], stops[k], reference, policy)
        BY <1>12, <3>1
      <3>4. place(k) = stops[k] /\ place(k) \in Prices
        BY <1>6, <2>2, <2>4
      <3>5. place(k - 1) \in Prices /\ place(k - 1) < stops[k] /\ low <= place(k - 1)
        <4>1. place(k - 1) \in low .. high /\ place(k - 1) \in Prices
          BY <1>6, <3>1
        <4>2. place(k - 1) < stops[k]
          BY <1>7, <3>1
        <4> HIDE DEF place
        <4> QED
          BY <1>1, <4>1, <4>2
      <3>6. \A p \in place(k - 1) + 1 .. stops[k] - 1 :
              interest.levels["buy"][p - 1] = 0 /\ interest.levels["sell"][p] = 0
        BY <1>9, <3>1
      <3> DEFINE from == place(k - 1)
      <3> HIDE DEF place, from
      <3>7. SweptTo(interest, low, reference, policy, run[k], stops[k])
        BY <1>1, <3>2, <3>3, <3>4, <3>5, <3>6, TransitionPasses
      <3> QED
        BY <2>2, <3>4, <3>7
    <2> QED
      BY <2>3, <2>4
  <1>14. SweptTo(interest, low, reference, policy, run[n], place(n))
    BY <1>4, <1>13
  <1>15. place(n) \in Prices /\ low <= place(n) /\ place(n) <= high
    <2>1. place(n) \in low .. high /\ place(n) \in Prices
      BY <1>4, <1>6
    <2> HIDE DEF place
    <2> QED
      BY <1>1, <2>1
  <1> HIDE DEF place
  <1>16. BestAmong(interest, low .. high, reference, policy,
                   CloseInterval(run[n], high, reference, policy).best)
    <2>1. \A sweep : \A lower \in Prices :
             /\ low <= lower /\ lower <= high
             /\ SweptTo(interest, low, reference, policy, sweep, lower)
             /\ \A p \in lower + 1 .. high :
                   interest.levels["buy"][p - 1] = 0 /\ interest.levels["sell"][p] = 0
             => BestAmong(interest, low .. high, reference, policy,
                          CloseInterval(sweep, high, reference, policy).best)
      BY <1>1, IntervalCloses
    <2> QED
      BY <1>10, <1>14, <1>15, <2>1
  <1> QED
    BY <1>12, <1>16 DEF DiscoverBoundedClearingPrice, low, high

----------------------------------------------------------------------------
(* Whole quanta *)

Quanta == {Quantum * k : k \in Nat}

\* A multiple of a quantum is so many quanta.
LEMMA DividesBack ==
  ASSUME NEW q \in Nat \ {0}, NEW k \in Int
  PROVE (q * k) \div q = k
  OBVIOUS

\* A proportion of a number is at most the number.
LEMMA Proportional ==
  ASSUME NEW a \in Nat, NEW l \in Nat, NEW t \in Nat \ {0}, l <= t
  PROVE (a * l) \div t \in 0 .. a
  <1>1. a * l \in Nat /\ a * l <= a * t
    OBVIOUS
  <1> DEFINE m == a * l
  <1>2. m \in Nat /\ m <= a * t
    BY <1>1
  <1> HIDE DEF m
  <1>3. m \div t \in Int /\ m = t * (m \div t) + (m % t) /\ m % t \in 0 .. t - 1
    BY <1>2
  <1> DEFINE d == m \div t
             r == m % t
  <1>4. d \in Int /\ m = t * d + r /\ r \in 0 .. t - 1
    BY <1>3
  <1> HIDE DEF d, r
  <1>5. d >= 0
    <2>1. ASSUME d <= -1 PROVE FALSE
      <3>1. t * d <= t * (-1)
        BY <1>4, <2>1
      <3> QED
        BY <1>2, <1>4, <3>1
    <2> QED
      BY <1>4, <2>1
  <1>6. d <= a
    <2>1. ASSUME d >= a + 1 PROVE FALSE
      <3>1. t * d >= t * (a + 1)
        BY <1>4, <2>1
      <3>2. t * (a + 1) = t * a + t /\ t * a = a * t
        OBVIOUS
      <3> QED
        BY <1>2, <1>4, <3>1, <3>2
    <2> QED
      BY <1>4, <2>1
  <1> QED
    BY <1>4, <1>5, <1>6 DEF d, m

\* Whole quanta are added, subtracted and counted as numbers are.
LEMMA QuantaAdd ==
  /\ 0 \in Quanta /\ Quanta \subseteq Nat
  /\ \A a, b \in Quanta : a + b \in Quanta
  /\ \A a, b \in Quanta : b <= a => a - b \in Quanta
  /\ \A n \in Nat : n % Quantum = 0 => n \in Quanta
  /\ \A a \in Quanta : a = Quantum * (a \div Quantum) /\ a \div Quantum \in Nat
                       /\ (a # 0 => a \div Quantum # 0)
  <1>1. Quantum \in Nat \ {0}
    BY AuctionPricingAssumption
  <1>2. 0 \in Quanta /\ Quanta \subseteq Nat
    <2>1. Quantum * 0 = 0 /\ \A k \in Nat : Quantum * k \in Nat
      BY <1>1
    <2> QED
      BY <2>1 DEF Quanta
  <1>3. ASSUME NEW a \in Quanta, NEW b \in Quanta PROVE a + b \in Quanta /\ (b <= a => a - b \in Quanta)
    <2>1. PICK k \in Nat, m \in Nat : a = Quantum * k /\ b = Quantum * m
      BY DEF Quanta
    <2>2. a + b = Quantum * (k + m) /\ a - b = Quantum * (k - m) /\ k + m \in Nat
      BY <1>1, <2>1
    <2>3. b <= a => k - m \in Nat
      <3>1. ASSUME b <= a, k < m PROVE FALSE
        <4>1. m >= k + 1
          BY <3>1
        <4>2. Quantum * m >= Quantum * (k + 1) /\ Quantum * (k + 1) = Quantum * k + Quantum
          BY <1>1, <4>1
        <4>3. Quantum * k \in Nat /\ Quantum * m \in Nat
          BY <1>1
        <4> QED
          BY <1>1, <2>1, <3>1, <4>2, <4>3
      <3> QED
        BY <3>1
    <2> QED
      BY <2>2, <2>3 DEF Quanta
  <1>4. ASSUME NEW n \in Nat, n % Quantum = 0 PROVE n \in Quanta
    <2>1. n = Quantum * (n \div Quantum) + (n % Quantum) /\ n \div Quantum \in Int
      BY <1>1
    <2>2. n \div Quantum >= 0
      BY <1>1
    <2>3. n = Quantum * (n \div Quantum) /\ n \div Quantum \in Nat
      BY <1>4, <2>1, <2>2, <1>1
    <2> QED
      BY <2>3 DEF Quanta
  <1>5. ASSUME NEW a \in Quanta
        PROVE a = Quantum * (a \div Quantum) /\ a \div Quantum \in Nat /\ (a # 0 => a \div Quantum # 0)
    <2>1. PICK k \in Nat : a = Quantum * k
      BY DEF Quanta
    <2>2. a \div Quantum = k
      BY <1>1, <2>1, DividesBack
    <2> QED
      BY <1>1, <2>1, <2>2
  <1> QED
    BY <1>2, <1>3, <1>4, <1>5

----------------------------------------------------------------------------
(* Priority *)

\* Orders that priority can compare: of one side, and of different sequences.
AreComparable(orders) ==
    /\ IsFiniteSet(orders)
    /\ \A a \in orders : /\ a.limit \in Prices \cup {Market} /\ a.class \in Nat /\ a.sequence \in Nat
                         /\ a.side \in Sides
    /\ \A a, b \in orders : a.side = b.side /\ (a.sequence = b.sequence => a = b)

\* Priority puts one order before another by three numbers.
LEMMA PrecedesCompares ==
  ASSUME NEW a, NEW b, a.limit \in Nat, b.limit \in Nat, a.class \in Nat, b.class \in Nat,
         a.sequence \in Nat, b.sequence \in Nat
  PROVE Precedes(a, b) <=>
          IF a.limit # b.limit
          THEN a.limit = 0 \/ (b.limit # 0 /\ IF a.side = "buy" THEN a.limit > b.limit
                                             ELSE a.limit < b.limit)
          ELSE IF a.class # b.class THEN a.class < b.class
          ELSE a.sequence < b.sequence
  BY DEF Precedes, Market

\* Priority orders the orders of a side strictly and totally.
LEMMA PriorityIsOrder ==
  ASSUME NEW orders, AreComparable(orders)
  PROVE /\ \A a \in orders : ~Precedes(a, a)
        /\ \A a, b, c \in orders : Precedes(a, b) /\ Precedes(b, c) => Precedes(a, c)
        /\ \A a, b \in orders : a = b \/ Precedes(a, b) \/ Precedes(b, a)
  <1>1. \A a \in orders : a.limit \in Nat /\ a.class \in Nat /\ a.sequence \in Nat
    BY DEF AreComparable, Prices, Market
  <1>2. ASSUME NEW a \in orders PROVE ~Precedes(a, a)
    BY <1>1, PrecedesCompares
  <1>3. ASSUME NEW a \in orders, NEW b \in orders, NEW c \in orders, Precedes(a, b), Precedes(b, c)
        PROVE Precedes(a, c)
    <2>1. a.side = b.side /\ b.side = c.side
      BY DEF AreComparable
    <2>2. a.limit \in Nat /\ a.class \in Nat /\ a.sequence \in Nat
          /\ b.limit \in Nat /\ b.class \in Nat /\ b.sequence \in Nat
          /\ c.limit \in Nat /\ c.class \in Nat /\ c.sequence \in Nat
      BY <1>1
    <2> QED
      BY <1>3, <2>1, <2>2, PrecedesCompares
  <1>4. ASSUME NEW a \in orders, NEW b \in orders, a # b PROVE Precedes(a, b) \/ Precedes(b, a)
    <2>1. a.side = b.side /\ a.sequence # b.sequence
      BY <1>4 DEF AreComparable
    <2>2. a.limit \in Nat /\ a.class \in Nat /\ a.sequence \in Nat
          /\ b.limit \in Nat /\ b.class \in Nat /\ b.sequence \in Nat
      BY <1>1
    <2> QED
      BY <2>1, <2>2, PrecedesCompares
  <1> QED
    BY <1>2, <1>3, <1>4

\* The orders of a set, the best first.
LEMMA PriorityEnumerates ==
  ASSUME NEW orders, AreComparable(orders)
  PROVE /\ ByPriority(orders) \in Seq(orders) /\ Len(ByPriority(orders)) = Cardinality(orders)
        /\ DOMAIN ByPriority(orders) = 1 .. Cardinality(orders) /\ Cardinality(orders) \in Nat
        /\ \A i \in 1 .. Cardinality(orders) : ByPriority(orders)[i] \in orders
        /\ \A order \in orders : \E i \in 1 .. Cardinality(orders) : ByPriority(orders)[i] = order
        /\ \A i, j \in 1 .. Cardinality(orders) :
              i < j => Precedes(ByPriority(orders)[i], ByPriority(orders)[j])
  <1> DEFINE before == [a \in orders |-> {b \in orders : Precedes(b, a)}]
             size == Cardinality(orders)
             up == ByPriority(orders)
  <1>0. /\ \A a \in orders : ~Precedes(a, a)
        /\ \A a, b, c \in orders : Precedes(a, b) /\ Precedes(b, c) => Precedes(a, c)
        /\ \A a, b \in orders : a = b \/ Precedes(a, b) \/ Precedes(b, a)
        /\ IsFiniteSet(orders)
    BY PriorityIsOrder DEF AreComparable
  <1>1. IsOrder(orders, before)
    <2>1. before \in [orders -> SUBSET orders]
          /\ \A a \in orders : before[a] = {b \in orders : Precedes(b, a)}
      OBVIOUS
    <2>2. \A a \in orders : a \notin before[a]
      BY <1>0, <2>1
    <2>3. ASSUME NEW a \in orders, NEW b \in before[a] PROVE before[b] \subseteq before[a]
      <3>1. b \in orders /\ Precedes(b, a) /\ before[b] = {c \in orders : Precedes(c, b)}
            /\ before[a] = {c \in orders : Precedes(c, a)}
        BY <2>1, <2>3
      <3>2. \A c \in orders : Precedes(c, b) => Precedes(c, a)
        BY <1>0, <3>1
      <3> HIDE DEF before
      <3> QED
        BY <3>1, <3>2
    <2>4. \A a, b \in orders : a = b \/ a \in before[b] \/ b \in before[a]
      BY <1>0, <2>1
    <2> HIDE DEF before
    <2> QED
      BY <2>1, <2>2, <2>3, <2>4 DEF IsOrder
  <1>2. /\ size \in Nat
        /\ \A a \in orders : Cardinality(before[a]) \in 0 .. size - 1
        /\ \A a \in orders : \A b \in before[a] : Cardinality(before[b]) < Cardinality(before[a])
        /\ \A a, b \in orders : Cardinality(before[a]) = Cardinality(before[b]) => a = b
        /\ \A i \in 1 .. size : \E a \in orders : Cardinality(before[a]) = i - 1
    <2> HIDE DEF before
    <2> QED
      BY <1>0, <1>1, Places
  <1>3. up = [i \in 1 .. size |->
                CHOOSE a \in orders : Cardinality({b \in orders : Precedes(b, a)}) = i - 1]
    BY DEF ByPriority
  <1>4. \A i \in 1 .. size : up[i] \in orders /\ Cardinality(before[up[i]]) = i - 1
    <2> TAKE i \in 1 .. size
    <2>1. PICK a \in orders : Cardinality(before[a]) = i - 1
      BY <1>2
    <2>2. Cardinality({b \in orders : Precedes(b, a)}) = i - 1
      BY <2>1
    <2>3. up[i] = CHOOSE k \in orders : Cardinality({b \in orders : Precedes(b, k)}) = i - 1
      <3> HIDE DEF size, up
      <3> QED
        BY <1>3
    <2> HIDE DEF size, up
    <2>4. up[i] \in orders /\ Cardinality({b \in orders : Precedes(b, up[i])}) = i - 1
      BY <2>2, <2>3
    <2> QED
      BY <2>4
  <1>5. \A a \in orders : \E i \in 1 .. size : up[i] = a
    <2> TAKE a \in orders
    <2> HIDE DEF before, up, size
    <2>1. Cardinality(before[a]) + 1 \in 1 .. size
      BY <1>2
    <2>2. Cardinality(before[up[Cardinality(before[a]) + 1]]) = Cardinality(before[a])
      BY <1>2, <1>4, <2>1
    <2>3. up[Cardinality(before[a]) + 1] = a
      BY <1>2, <1>4, <2>1, <2>2
    <2> QED
      BY <2>1, <2>3
  <1>6. ASSUME NEW i \in 1 .. size, NEW j \in 1 .. size, i < j PROVE Precedes(up[i], up[j])
    <2>1. up[i] \in orders /\ up[j] \in orders
      BY <1>4
    <2>2. up[i] # up[j]
      <3> HIDE DEF up, before
      <3> QED
        BY <1>2, <1>4, <1>6
    <2>3. ASSUME Precedes(up[j], up[i]) PROVE FALSE
      <3>1. up[j] \in before[up[i]]
        BY <2>1, <2>3
      <3>2. Cardinality(before[up[j]]) < Cardinality(before[up[i]])
        BY <1>2, <2>1, <3>1
      <3>3. j - 1 < i - 1
        BY <1>4, <3>2
      <3> QED
        BY <1>2, <1>6, <3>3
    <2> HIDE DEF up
    <2> QED
      BY <1>0, <2>1, <2>2, <2>3
  <1>7. up \in Seq(orders) /\ Len(up) = size /\ DOMAIN up = 1 .. size
    <2>1. up \in [1 .. size -> orders]
      <3>1. up = [i \in 1 .. size |-> up[i]]
        BY <1>3
      <3> HIDE DEF up, before, size
      <3> QED
        BY <1>4, <3>1
    <2> HIDE DEF up, before, size
    <2> QED
      BY <1>2, <2>1
  <1> QED
    BY <1>2, <1>4, <1>5, <1>6, <1>7

----------------------------------------------------------------------------
(* Allocation *)

\* Orders of whole quanta, numbered up to n.
HaveLots(orders, n) ==
    /\ n \in Nat /\ DOMAIN orders = 1 .. n
    /\ \A i \in 1 .. n : orders[i].lots \in Quanta \ {0}

\* Several orders have whole quanta together, and no fewer than one of them.
LEMMA LotsTogether ==
  ASSUME NEW orders, NEW n, HaveLots(orders, n), NEW indices \in SUBSET (1 .. n)
  PROVE /\ LotsAmong(orders, indices) \in Quanta
        /\ \A k \in indices :
             /\ LotsAmong(orders, indices) = orders[k].lots + LotsAmong(orders, indices \ {k})
             /\ LotsAmong(orders, indices) >= orders[k].lots
  <1>1. n \in Nat /\ \A k \in 1 .. n : orders[k].lots \in Quanta
    BY DEF HaveLots
  <1>2. IsFiniteSet(1 .. n)
    BY <1>1, FS_Interval
  <1>3. ASSUME NEW S \in SUBSET (1 .. n), NEW f, \A k \in S : f[k] = orders[k].lots
        PROVE SumOver(f, S) \in Quanta
    <2>1. IsFiniteSet(S) /\ \A k \in S : f[k] \in Quanta
      BY <1>1, <1>2, <1>3, FS_Subset
    <2>2. 0 \in Quanta /\ \A a, b \in Quanta : a + b \in Quanta
      BY QuantaAdd
    <2> QED
      BY <2>1, <2>2, SumStays
  <1>4. ASSUME NEW S \in SUBSET (1 .. n)
        PROVE LotsAmong(orders, S) = SumOver([k \in S |-> orders[k].lots], S)
    BY DEF LotsAmong, SumOver
  <1>5. LotsAmong(orders, indices) \in Quanta
    <2> DEFINE f == [k \in indices |-> orders[k].lots]
    <2>1. \A k \in indices : f[k] = orders[k].lots
      OBVIOUS
    <2> HIDE DEF f
    <2>2. SumOver(f, indices) \in Quanta
      BY <1>3, <2>1
    <2> QED
      BY <1>4, <2>2 DEF f
  <1>6. ASSUME NEW k \in indices
        PROVE /\ LotsAmong(orders, indices) = orders[k].lots + LotsAmong(orders, indices \ {k})
              /\ LotsAmong(orders, indices) >= orders[k].lots
    <2> DEFINE f == [j \in indices |-> orders[j].lots]
               rest == indices \ {k}
               g == [j \in rest |-> orders[j].lots]
    <2>1. /\ \A j \in indices : f[j] = orders[j].lots
          /\ \A j \in rest : g[j] = orders[j].lots
          /\ IsFiniteSet(indices) /\ IsFiniteSet(rest) /\ rest \in SUBSET (1 .. n)
      BY <1>2, FS_Subset
    <2>2. LotsAmong(orders, indices) = SumOver(f, indices) /\ LotsAmong(orders, rest) = SumOver(g, rest)
      BY <1>4, <2>1
    <2> HIDE DEF f, g, rest
    <2>3. \A j \in indices : f[j] \in Int
      <3>1. \A j \in indices : orders[j].lots \in Quanta
        BY <1>1
      <3>2. Quanta \subseteq Int
        BY QuantaAdd
      <3> QED
        BY <2>1, <3>1, <3>2
    <2>4. SumOver(f, indices) = f[k] + SumOver(f, indices \ {k})
      BY <2>1, <2>3, SumTakesOut
    <2>5. SumOver(f, rest) = SumOver(g, rest)
      BY <1>2, <2>1, SumAgrees DEF rest
    <2>6. SumOver(f, rest) \in Quanta
      BY <1>3, <2>1 DEF rest
    <2>7. orders[k].lots \in Nat /\ SumOver(f, rest) \in Nat
      BY <1>1, <2>6, QuantaAdd
    <2> QED
      BY <2>1, <2>2, <2>4, <2>5, <2>7 DEF rest
  <1> QED
    BY <1>5, <1>6

\* A set of numbers has a minimum.
LEMMA MinimumOf ==
  ASSUME NEW S \in SUBSET Nat, S # {}
  PROVE Min(S) \in S /\ \A x \in S : Min(S) <= x
  BY LeastNumber DEF Min

\* The tier of an order, what is before it, and what that leaves for it.
LEMMA TierParts ==
  ASSUME NEW orders, NEW n, HaveLots(orders, n), NEW executable \in Quanta, NEW i \in 1 .. n
  PROVE /\ Tier(orders, i) \in SUBSET (1 .. n) /\ i \in Tier(orders, i)
        /\ 1 .. Min(Tier(orders, i)) - 1 \in SUBSET (1 .. n)
        /\ DOMAIN LeftForTier(orders, executable) = 1 .. n
        /\ LeftForTier(orders, executable)[i]
              = executable - LotsAmong(orders, 1 .. Min(Tier(orders, i)) - 1)
        /\ LeftForTier(orders, executable)[i] \in Int
        /\ LeftForTier(orders, executable)[i] > 0 => LeftForTier(orders, executable)[i] \in Quanta
  <1> DEFINE tier == Tier(orders, i)
             left == LeftForTier(orders, executable)
  <1>1. n \in Nat /\ DOMAIN orders = 1 .. n
    BY DEF HaveLots
  <1>2. tier \in SUBSET (1 .. n) /\ i \in tier
    BY <1>1 DEF Tier, SameAllocationTier
  <1>3. tier \in SUBSET Nat /\ tier # {}
    BY <1>1, <1>2
  <1>4. DOMAIN left = 1 .. n /\ left[i] = executable - LotsAmong(orders, 1 .. Min(tier) - 1)
    BY <1>1 DEF LeftForTier
  <1> HIDE DEF tier, left
  <1>5. Min(tier) \in 1 .. n
    BY <1>2, <1>3, MinimumOf
  <1>6. 1 .. Min(tier) - 1 \in SUBSET (1 .. n)
    BY <1>1, <1>5
  <1>7. LotsAmong(orders, 1 .. Min(tier) - 1) \in Quanta
    BY <1>6, LotsTogether
  <1> DEFINE taken == LotsAmong(orders, 1 .. Min(tier) - 1)
  <1> HIDE DEF taken
  <1>8. executable \in Nat /\ taken \in Nat /\ taken \in Quanta
    BY <1>7, QuantaAdd DEF taken
  <1>9. executable - taken > 0 => executable - taken \in Quanta
    BY <1>8, QuantaAdd
  <1> QED
    BY <1>2, <1>4, <1>6, <1>8, <1>9 DEF taken, tier, left

\* What an order gets are whole quanta, and no more than it asks for.
LEMMA FillsFit ==
  ASSUME NEW orders, NEW n, HaveLots(orders, n), NEW executable \in Quanta, NEW policy
  PROVE LET fills == AppendPolicyFills(orders, executable, policy) IN
        /\ DOMAIN fills = 1 .. n
        /\ \A i \in 1 .. n : fills[i] \in Quanta /\ fills[i] <= orders[i].lots
  <1>1. n \in Nat /\ DOMAIN orders = 1 .. n /\ \A i \in 1 .. n : orders[i].lots \in Quanta /\ orders[i].lots # 0
    BY DEF HaveLots
  <1>2. Quantum \in Nat \ {0} /\ Quanta \subseteq Nat /\ 0 \in Quanta
        /\ \A a, b \in Quanta : b <= a => a - b \in Quanta
    BY AuctionPricingAssumption, QuantaAdd
  <1>3. LET fills == PriceTimeFills(orders, executable) IN
        /\ DOMAIN fills = 1 .. n
        /\ \A i \in 1 .. n : fills[i] \in Quanta /\ fills[i] <= orders[i].lots
    <2> DEFINE fills == PriceTimeFills(orders, executable)
    <2>1. DOMAIN fills = 1 .. n
      BY <1>1 DEF PriceTimeFills
    <2>2. ASSUME NEW i \in 1 .. n PROVE fills[i] \in Quanta /\ fills[i] <= orders[i].lots
      <3> DEFINE lots == orders[i].lots
                 taken == LotsAmong(orders, 1 .. i - 1)
      <3>1. fills[i] = Most(0, Least(lots, executable - taken))
        BY <1>1 DEF PriceTimeFills
      <3>2. 1 .. i - 1 \in SUBSET (1 .. n)
        BY <1>1
      <3>3. taken \in Quanta /\ lots \in Quanta
        BY <1>1, <3>2, LotsTogether
      <3> HIDE DEF taken, lots, fills
      <3>4. taken \in Nat /\ lots \in Nat /\ executable \in Nat
        BY <1>2, <3>3
      <3>5. taken <= executable => executable - taken \in Quanta
        BY <1>2, <3>3
      <3>6. fills[i] = 0 \/ fills[i] = lots \/ (taken <= executable /\ fills[i] = executable - taken)
        BY <3>1, <3>4 DEF Most, Least
      <3>7. fills[i] <= lots
        BY <3>1, <3>4 DEF Most, Least
      <3> QED
        BY <1>2, <3>3, <3>5, <3>6, <3>7 DEF lots
    <2> QED
      BY <2>1, <2>2
  <1>4. LET fills == ProRataFills(orders, executable) IN
        /\ DOMAIN fills = 1 .. n
        /\ \A i \in 1 .. n : fills[i] \in Quanta /\ fills[i] <= orders[i].lots
    <2> DEFINE fills == ProRataFills(orders, executable)
               left == LeftForTier(orders, executable)
               base == Proportions(orders, left)
    <2>1. DOMAIN fills = 1 .. n
      BY <1>1 DEF ProRataFills, ProRataShares, SharesOf
    <2>2. ASSUME NEW i \in 1 .. n PROVE fills[i] \in Quanta /\ fills[i] <= orders[i].lots
      <3> DEFINE tier == Tier(orders, i)
                 lots == orders[i].lots
                 all == LotsAmong(orders, tier)
                 residue == left[i] \div Quantum
                            - FoldFunctionOnSet(+, 0, [j \in Tier(orders, i) |-> base[j]], Tier(orders, i))
                 takes == TakesResidue(orders, i, residue, base)
      <3>1. tier \in SUBSET (1 .. n) /\ i \in tier /\ left[i] \in Int /\ (left[i] > 0 => left[i] \in Quanta)
        BY TierParts
      <3>2. all \in Quanta /\ all >= lots /\ lots \in Quanta /\ lots # 0
        <4> HIDE DEF tier
        <4> QED
          BY <1>1, <3>1, LotsTogether
      <3>3. fills[i] = CASE left[i] <= 0 -> 0
                         [] left[i] >= all -> lots
                         [] OTHER -> Quantum * (base[i] + IF takes THEN 1 ELSE 0)
        BY <1>1 DEF ProRataFills, ProRataShares, SharesOf
      <3>4. base[i] = ((lots \div Quantum) * (left[i] \div Quantum)) \div (all \div Quantum)
        BY <1>1 DEF Proportions
      <3>5. takes => base[i] < lots \div Quantum
        BY DEF TakesResidue
      <3> HIDE DEF fills, base, takes, all, lots, left, tier
      <3>6. CASE left[i] <= 0
        BY <1>2, <3>1, <3>2, <3>3, <3>6 DEF lots
      <3>7. CASE left[i] > 0 /\ left[i] >= all
        <4>1. fills[i] = lots
          BY <3>1, <3>3, <3>7
        <4>2. lots \in Nat /\ lots <= lots
          BY <1>2, <3>2
        <4> QED
          BY <3>2, <4>1, <4>2 DEF lots
      <3>8. CASE left[i] > 0 /\ left[i] < all
        <4> DEFINE a == lots \div Quantum
                   l == left[i] \div Quantum
                   t == all \div Quantum
        <4>1. /\ lots = Quantum * a /\ a \in Nat /\ a # 0
              /\ left[i] = Quantum * l /\ l \in Nat /\ all = Quantum * t /\ t \in Nat
          BY <3>1, <3>2, <3>8, QuantaAdd
        <4> HIDE DEF a, l, t
        <4>2. l <= t /\ t # 0
          <5>1. ASSUME l >= t + 1 PROVE FALSE
            <6>1. Quantum * l >= Quantum * (t + 1) /\ Quantum * (t + 1) = Quantum * t + Quantum
              BY <1>2, <4>1, <5>1
            <6>2. Quantum * t \in Nat
              BY <1>2, <4>1
            <6> QED
              BY <1>2, <3>8, <4>1, <6>1, <6>2
          <5>2. ASSUME t = 0 PROVE FALSE
            <6>1. Quantum * t = 0
              BY <1>2, <5>2
            <6> QED
              BY <3>1, <3>8, <4>1, <6>1
          <5> QED
            BY <4>1, <5>1, <5>2
        <4>3. base[i] \in 0 .. a
          BY <3>4, <4>1, <4>2, Proportional DEF a, l, t
        <4> DEFINE share == base[i] + IF takes THEN 1 ELSE 0
        <4>4. share \in 0 .. a
          BY <3>5, <4>1, <4>3 DEF a
        <4>5. fills[i] = Quantum * share
          <5>1. left[i] \in Int /\ all \in Int
            BY <1>2, <3>1, <3>2
          <5>2. ~(left[i] <= 0) /\ ~(left[i] >= all)
            BY <3>8, <5>1
          <5> QED
            BY <3>3, <5>2
        <4> HIDE DEF share
        <4>6. share \in Nat /\ share <= a
          BY <4>1, <4>4
        <4>7. Quantum * share <= Quantum * a
          BY <1>2, <4>1, <4>6
        <4>8. Quantum * share \in Quanta
          BY <4>6 DEF Quanta
        <4> QED
          BY <4>1, <4>5, <4>7, <4>8 DEF lots
      <3> QED
        BY <3>1, <3>2, <1>2, <3>6, <3>7, <3>8
    <2> QED
      BY <2>1, <2>2
  <1> QED
    BY <1>3, <1>4 DEF AppendPolicyFills

----------------------------------------------------------------------------
(* The book *)

OrderHolds(order, id) ==
    /\ order = [id |-> id, sequence |-> id, account |-> order.account, side |-> order.side,
                limit |-> order.limit, lots |-> order.lots, class |-> order.class]
    /\ order.side \in Sides /\ order.limit \in Prices \cup {Market} /\ order.class \in Nat
    /\ order.lots \in Quanta \ {0}

BookHolds(b) ==
    /\ b = [orders |-> b.orders, accepted |-> b.accepted]
    /\ b.accepted \in Nat
    /\ b.orders = [id \in DOMAIN b.orders |-> b.orders[id]]
    /\ DOMAIN b.orders \subseteq 1 .. b.accepted
    /\ \A id \in DOMAIN b.orders : OrderHolds(b.orders[id], id)

\* A book has finitely many orders.
LEMMA BookFinite ==
  ASSUME NEW b, BookHolds(b)
  PROVE /\ IsFiniteSet(DOMAIN b.orders)
        /\ \A ids \in SUBSET DOMAIN b.orders : IsFiniteSet(ids)
  <1>1. IsFiniteSet(1 .. b.accepted) /\ DOMAIN b.orders \in SUBSET (1 .. b.accepted)
    BY FS_Interval DEF BookHolds
  <1>2. IsFiniteSet(DOMAIN b.orders)
    BY <1>1, FS_Subset
  <1>3. ASSUME NEW ids \in SUBSET DOMAIN b.orders PROVE IsFiniteSet(ids)
    BY <1>2, FS_Subset
  <1> QED
    BY <1>2, <1>3

\* The orders of some ids have whole quanta together.
LEMMA IdLots ==
  ASSUME NEW b, BookHolds(b), NEW ids \in SUBSET DOMAIN b.orders
  PROVE FoldFunctionOnSet(+, 0, [id \in ids |-> b.orders[id].lots], ids) \in Quanta
  <1> DEFINE f == [id \in ids |-> b.orders[id].lots]
  <1>1. \A id \in ids : f[id] \in Quanta
    BY DEF BookHolds, OrderHolds
  <1>2. FoldFunctionOnSet(+, 0, f, ids) = SumOver(f, ids)
    BY DEF SumOver
  <1> HIDE DEF f
  <1>3. IsFiniteSet(ids)
    BY BookFinite
  <1>4. SumOver(f, ids) \in Quanta
    <2>1. 0 \in Quanta /\ \A x, y \in Quanta : x + y \in Quanta
      BY QuantaAdd
    <2> QED
      BY <1>1, <1>3, <2>1, SumStays
  <1> QED
    BY <1>2, <1>4 DEF f

\* What is bid and asked are whole quanta.
LEMMA BookInterest ==
  ASSUME NEW b, BookHolds(b)
  PROVE /\ IsInterest(Interest(b))
        /\ \A price \in Prices : Executable(Interest(b), price) \in Quanta
  <1> DEFINE interest == Interest(b)
             Lots(side, limit) ==
                LET ids == {id \in OfSide(b, side) : b.orders[id].limit = limit}
                IN  FoldFunctionOnSet(+, 0, [id \in ids |-> b.orders[id].lots], ids)
  <1>1. \A side, limit : Lots(side, limit) \in Quanta
    <2> TAKE side, limit
    <2> DEFINE ids == {id \in OfSide(b, side) : b.orders[id].limit = limit}
    <2>1. ids \in SUBSET DOMAIN b.orders
      BY DEF OfSide, Active
    <2> HIDE DEF ids
    <2>2. FoldFunctionOnSet(+, 0, [id \in ids |-> b.orders[id].lots], ids) \in Quanta
      BY <2>1, IdLots
    <2> QED
      BY <2>2 DEF ids
  <1>2. interest = [levels |-> [side \in Sides |-> [price \in Prices |-> Lots(side, price)]],
                    market |-> [side \in Sides |-> Lots(side, Market)]]
    BY DEF Interest
  <1> HIDE DEF Lots, interest
  <1>3. \A side \in Sides : /\ interest.market[side] = Lots(side, Market)
                            /\ \A price \in Prices : interest.levels[side][price] = Lots(side, price)
    BY <1>2
  <1>4. \A side \in Sides : /\ interest.market[side] \in Quanta
                            /\ \A price \in Prices : interest.levels[side][price] \in Quanta
    BY <1>1, <1>3
  <1>5. Quanta \subseteq Nat /\ 0 \in Quanta /\ \A x, y \in Quanta : x + y \in Quanta
    BY QuantaAdd
  <1>6. IsInterest(interest)
    BY <1>4, <1>5 DEF IsInterest
  <1>7. ASSUME NEW levels, \A price \in Prices : levels[price] \in Quanta, NEW S \in SUBSET Prices
        PROVE LotsAt(levels, S) \in Quanta
    <2>1. IsFiniteSet(Prices)
      BY InstrumentAssumption, FS_Interval DEF Prices
    <2>2. IsFiniteSet(S) /\ \A price \in S : levels[price] \in Quanta
      BY <1>7, <2>1, FS_Subset
    <2>3. SumOver(levels, S) \in Quanta
      BY <1>5, <2>2, SumStays
    <2> QED
      BY <2>3, LotsAreSum
  <1>8. ASSUME NEW price \in Prices PROVE Executable(interest, price) \in Quanta
    <2>1. price .. MaxPrice \in SUBSET Prices /\ 1 .. price \in SUBSET Prices
      BY InstrumentAssumption DEF Prices
    <2>2. "buy" \in Sides /\ "sell" \in Sides
      BY DEF Sides
    <2>3. LotsAt(interest.levels["buy"], price .. MaxPrice) \in Quanta
          /\ LotsAt(interest.levels["sell"], 1 .. price) \in Quanta
      BY <1>4, <1>7, <2>1, <2>2
    <2>4. Demand(interest, price) \in Quanta /\ Supply(interest, price) \in Quanta
      BY <1>4, <1>5, <2>2, <2>3 DEF Demand, Supply
    <2> QED
      BY <2>4 DEF Executable, Least
  <1> QED
    BY <1>6, <1>8 DEF interest

\* An indication is the best clearing of its book.
LEMMA IndicationIsBest ==
  ASSUME NEW b, BookHolds(b), NEW call \in Calls
  PROVE /\ IsBestClearing(b, call, IndicativeClearing(b, call))
        /\ IndicativeClearing(b, call).executable \in Quanta
  <1> DEFINE interest == Interest(b)
             clearing == IndicativeClearing(b, call)
             prices == call.band.minimum .. call.band.maximum
             possible == {candidate \in {AtPrice(b, price) : price \in prices} :
                            candidate.executable > 0}
  <1>1. IsInterest(interest) /\ \A price \in Prices : Executable(interest, price) \in Quanta
    BY BookInterest
  <1>2. call.band \in Bands /\ call.reference \in Prices
    BY AuctionEngineAssumption
  <1>3. prices \in SUBSET Prices
    BY <1>2, InstrumentAssumption DEF Bands, Prices
  <1>4. BestAmong(interest, prices, call.reference, call.pricing, clearing)
    BY <1>1, <1>2, SweepFindsBest DEF IndicativeClearing
  <1>5. ASSUME NEW price \in prices PROVE AtPrice(b, price) = ClearingAt(interest, price)
    BY DEF AtPrice, ClearingAt, Demand, Supply
  <1>6. ASSUME NEW p \in prices
        PROVE /\ ClearingAt(interest, p).executable = Executable(interest, p)
              /\ Executable(interest, p) \in Nat
    BY <1>1, <1>3, SomeClearing
  <1> HIDE DEF interest, clearing, prices
  <1>7. possible = {ClearingAt(interest, p) : p \in {p \in prices : Executable(interest, p) # 0}}
    <2>1. ASSUME NEW c \in possible
          PROVE c \in {ClearingAt(interest, p) : p \in {p \in prices : Executable(interest, p) # 0}}
      <3>1. PICK p \in prices : c = AtPrice(b, p) /\ c.executable > 0
        OBVIOUS
      <3>2. c = ClearingAt(interest, p) /\ Executable(interest, p) # 0
        BY <1>5, <1>6, <3>1
      <3> QED
        BY <3>2
    <2>2. ASSUME NEW p \in prices, Executable(interest, p) # 0
          PROVE ClearingAt(interest, p) \in possible
      <3>1. ClearingAt(interest, p) = AtPrice(b, p) /\ AtPrice(b, p).executable > 0
        BY <1>5, <1>6, <2>2
      <3> QED
        BY <3>1
    <2> QED
      BY <2>1, <2>2
  <1> HIDE DEF possible
  <1>8. CASE clearing = NoClearing /\ \A p \in prices : Executable(interest, p) = 0
    <2>1. possible = {}
      BY <1>7, <1>8
    <2>2. clearing.executable \in Quanta
      <3>1. NoClearing.executable = 0
        BY DEF NoClearing, Clearing, Least
      <3> QED
        BY <1>8, <3>1, QuantaAdd
    <2> QED
      BY <1>8, <2>1, <2>2 DEF IsBestClearing, possible, prices, clearing
  <1>9. ASSUME NEW p \in prices, clearing = ClearingAt(interest, p), Executable(interest, p) # 0,
               \A q \in prices : q # p => BetterAt(interest, p, q, call.reference, call.pricing)
        PROVE /\ IsBestClearing(b, call, clearing) /\ clearing.executable \in Quanta
    <2>1. clearing \in possible
      BY <1>7, <1>9
    <2>2. ASSUME NEW other \in possible \ {clearing}
          PROVE IsBetterThan(clearing, other, call.reference, call.pricing)
      <3>1. PICK q \in prices : other = ClearingAt(interest, q)
        BY <1>7
      <3>2. q # p /\ q \in Prices /\ p \in Prices
        BY <1>3, <1>9, <3>1
      <3>3. BetterAt(interest, p, q, call.reference, call.pricing)
        BY <1>9, <3>2
      <3> QED
        BY <1>1, <1>2, <1>9, <3>1, <3>2, <3>3, BetterAtCompares
    <2>3. clearing.executable \in Quanta
      BY <1>1, <1>3, <1>6, <1>9
    <2> QED
      BY <2>1, <2>2, <2>3 DEF IsBestClearing, possible, prices
  <1> QED
    BY <1>4, <1>8, <1>9 DEF BestAmong, clearing

----------------------------------------------------------------------------
(* Commands keep the book *)

\* An order that arrives keeps the book.
LEMMA AdmitHolds ==
  ASSUME NEW b, BookHolds(b), NEW offer \in Offers
  PROVE BookHolds(Admit(b, offer))
  <1> DEFINE next == b.accepted + 1
             order == Arriving(b, offer)
             after == Admit(b, offer)
  <1>1. b.accepted \in Nat /\ DOMAIN b.orders \subseteq 1 .. b.accepted
        /\ \A id \in DOMAIN b.orders : OrderHolds(b.orders[id], id)
    BY DEF BookHolds
  <1>2. offer.lots \in Quanta \ {0}
    <2>1. offer.lots \in Nat /\ offer.lots # 0 /\ offer.lots % Quantum = 0
      BY AuctionEngineAssumption
    <2> QED
      BY <2>1, QuantaAdd
  <1>3. order.id = next /\ OrderHolds(order, next)
    BY <1>2, AuctionEngineAssumption DEF Arriving, OrderHolds
  <1> HIDE DEF order
  <1>4. after = [orders |-> [id \in DOMAIN b.orders \cup {order.id} |->
                                IF id = order.id THEN order ELSE b.orders[id]],
                 accepted |-> order.id]
    BY DEF Admit, Active, order
  <1> HIDE DEF after
  <1>5. /\ after.accepted = next
        /\ after.orders = [id \in DOMAIN b.orders \cup {next} |->
                              IF id = next THEN order ELSE b.orders[id]]
    BY <1>3, <1>4
  <1>6. /\ DOMAIN after.orders = {next} \cup DOMAIN b.orders
        /\ after.orders = [id \in DOMAIN after.orders |-> after.orders[id]]
        /\ after.orders[next] = order
        /\ \A id \in DOMAIN b.orders : id # next => after.orders[id] = b.orders[id]
    BY <1>5
  <1>7. after = [orders |-> after.orders, accepted |-> after.accepted]
    BY <1>4
  <1>8. DOMAIN after.orders \subseteq 1 .. after.accepted
    BY <1>1, <1>5, <1>6
  <1>9. \A id \in DOMAIN after.orders : OrderHolds(after.orders[id], id)
    BY <1>1, <1>3, <1>6
  <1>10. after.accepted \in Nat
    BY <1>1, <1>5
  <1> QED
    BY <1>6, <1>7, <1>8, <1>9, <1>10 DEF BookHolds, after

\* Orders that are withdrawn keep the book.
LEMMA CancelHolds ==
  ASSUME NEW b, BookHolds(b), NEW ids
  PROVE /\ BookHolds(CancelAll(b, ids))
        /\ CancelAll(b, ids).accepted = b.accepted
        /\ DOMAIN CancelAll(b, ids).orders = DOMAIN b.orders \ ids
  <1> DEFINE after == CancelAll(b, ids)
             kept == DOMAIN b.orders \ ids
  <1>1. /\ b = [orders |-> b.orders, accepted |-> b.accepted]
        /\ b.accepted \in Nat /\ DOMAIN b.orders \subseteq 1 .. b.accepted
        /\ \A id \in DOMAIN b.orders : OrderHolds(b.orders[id], id)
    BY DEF BookHolds
  <1>2. after.orders = [id \in kept |-> b.orders[id]] /\ after.accepted = b.accepted
        /\ after = [orders |-> after.orders, accepted |-> after.accepted]
    BY <1>1 DEF CancelAll, Without, Restrict
  <1> HIDE DEF after
  <1>3. /\ DOMAIN after.orders = kept
        /\ \A id \in kept : after.orders[id] = b.orders[id]
        /\ after.orders = [id \in DOMAIN after.orders |-> after.orders[id]]
    BY <1>2
  <1> QED
    BY <1>1, <1>2, <1>3 DEF BookHolds, after

\* An order that shrinks to whole quanta keeps the book.
LEMMA AmendHolds ==
  ASSUME NEW b, BookHolds(b), NEW target \in DOMAIN b.orders, NEW lots \in Quanta \ {0}
  PROVE BookHolds(Amend(b, target, lots))
  <1> DEFINE after == Amend(b, target, lots)
  <1>1. /\ b = [orders |-> b.orders, accepted |-> b.accepted]
        /\ b.accepted \in Nat /\ DOMAIN b.orders \subseteq 1 .. b.accepted
        /\ b.orders = [i \in DOMAIN b.orders |-> b.orders[i]]
        /\ \A i \in DOMAIN b.orders : OrderHolds(b.orders[i], i)
    BY DEF BookHolds
  <1>2. after.orders = [b.orders EXCEPT ![target] = [@ EXCEPT !.lots = lots]]
        /\ after.accepted = b.accepted
        /\ after = [orders |-> after.orders, accepted |-> after.accepted]
    BY <1>1 DEF Amend
  <1> HIDE DEF after
  <1>3. /\ DOMAIN after.orders = DOMAIN b.orders
        /\ after.orders = [i \in DOMAIN after.orders |-> after.orders[i]]
        /\ \A i \in DOMAIN b.orders : i # target => after.orders[i] = b.orders[i]
        /\ after.orders[target] = [b.orders[target] EXCEPT !.lots = lots]
    BY <1>1, <1>2
  <1>4. OrderHolds(after.orders[target], target)
    <2> DEFINE order == b.orders[target]
    <2>1. OrderHolds(order, target) /\ after.orders[target] = [order EXCEPT !.lots = lots]
      BY <1>1, <1>3
    <2> HIDE DEF order
    <2> QED
      BY <2>1 DEF OrderHolds
  <1> QED
    BY <1>1, <1>2, <1>3, <1>4 DEF BookHolds, after

OrdersOf(b, ids) == {b.orders[id] : id \in ids}

\* The orders of one side, by priority.
LEMMA SideOrders ==
  ASSUME NEW b, BookHolds(b), NEW side \in Sides, NEW ids \in SUBSET OfSide(b, side)
  PROVE /\ AreComparable(OrdersOf(b, ids))
        /\ IsFiniteSet(ids)
        /\ \A order \in OrdersOf(b, ids) : order.id \in ids /\ order = b.orders[order.id]
        /\ \A id \in ids : b.orders[id].id = id /\ b.orders[id].side = side
                           /\ b.orders[id].lots \in Quanta \ {0} /\ OrderHolds(b.orders[id], id)
        /\ Cardinality(OrdersOf(b, ids)) = Cardinality(ids)
  <1> DEFINE orders == OrdersOf(b, ids)
  <1>0. orders = {b.orders[id] : id \in ids}
    BY DEF OrdersOf
  <1> HIDE DEF orders
  <1>1. ids \in SUBSET DOMAIN b.orders
    BY DEF OfSide, Active
  <1>2. IsFiniteSet(ids)
    BY <1>1, BookFinite
  <1>3. ASSUME NEW id \in ids
        PROVE /\ OrderHolds(b.orders[id], id) /\ b.orders[id].side = side
              /\ b.orders[id].id = id /\ b.orders[id].sequence = id /\ id \in Nat
              /\ b.orders[id].lots \in Quanta \ {0}
    <2>1. OrderHolds(b.orders[id], id) /\ id \in 1 .. b.accepted /\ b.accepted \in Nat
      BY <1>1 DEF BookHolds
    <2>2. b.orders[id].side = side
      BY DEF OfSide
    <2> QED
      BY <2>1, <2>2 DEF OrderHolds
  <1>4. \A order \in orders : order.id \in ids /\ order = b.orders[order.id]
    BY <1>0, <1>3
  <1> DEFINE f == [id \in ids |-> b.orders[id]]
  <1>5. f \in Bijection(ids, orders)
    <2>1. f \in [ids -> orders] /\ \A id \in ids : f[id] = b.orders[id]
      BY <1>0
    <2>2. \A x, y \in ids : f[x] = f[y] => x = y
      BY <1>3
    <2>3. \A order \in orders : \E id \in ids : f[id] = order
      BY <1>4
    <2> HIDE DEF f, orders
    <2> QED
      BY <2>1, <2>2, <2>3 DEF Bijection, Injection, Surjection, IsInjective
  <1>6. IsFiniteSet(orders) /\ Cardinality(orders) = Cardinality(ids)
    <2>1. ExistsBijection(ids, orders)
      <3> HIDE DEF f, orders
      <3> QED
        BY <1>5 DEF ExistsBijection
    <2> HIDE DEF orders
    <2> QED
      BY <1>2, <2>1, FS_Bijection
  <1>7. AreComparable(orders)
    <2>1. ASSUME NEW a \in orders
          PROVE /\ a.limit \in Prices \cup {Market} /\ a.class \in Nat /\ a.sequence \in Nat
                /\ a.side \in Sides /\ a.side = side /\ a.sequence = a.id
      <3>1. PICK id \in ids : a = b.orders[id]
        BY <1>0
      <3>2. OrderHolds(a, id) /\ a.side = side /\ a.sequence = id /\ a.id = id /\ id \in Nat
        BY <1>3, <3>1
      <3> QED
        BY <3>2 DEF OrderHolds
    <2>2. ASSUME NEW a \in orders, NEW c \in orders, a.sequence = c.sequence PROVE a = c
      <3>1. a.id = c.id /\ a = b.orders[a.id] /\ c = b.orders[c.id]
        BY <1>4, <2>1, <2>2
      <3> QED
        BY <3>1
    <2> HIDE DEF orders
    <2> QED
      BY <1>6, <2>1, <2>2 DEF AreComparable
  <1> QED
    BY <1>2, <1>3, <1>4, <1>6, <1>7 DEF orders

\* What each order of a side gets are whole quanta, and no more than it has.
LEMMA PlanFits ==
  ASSUME NEW b, BookHolds(b), NEW side \in Sides, NEW clearing, clearing.executable \in Quanta,
         NEW policy
  PROVE LET plan == AllocationPlan(b, side, clearing, policy) IN
        /\ DOMAIN plan = OfSide(b, side)
        /\ \A id \in OfSide(b, side) : plan[id] \in Quanta /\ plan[id] <= b.orders[id].lots
  <1> DEFINE ids == OfSide(b, side)
             set == OrdersOf(b, ids)
             orders == InPriority(b, side)
             n == Cardinality(set)
             fills == AppendPolicyFills(orders, clearing.executable, policy)
             plan == AllocationPlan(b, side, clearing, policy)
  <1>1. /\ AreComparable(set)
        /\ \A order \in set : order.id \in ids /\ order = b.orders[order.id]
        /\ \A id \in ids : b.orders[id].id = id /\ b.orders[id].lots \in Quanta \ {0}
    <2>1. ids \in SUBSET OfSide(b, side)
      OBVIOUS
    <2> HIDE DEF ids
    <2> QED
      BY <2>1, SideOrders
  <1>2. orders = ByPriority(set)
    BY DEF InPriority, OrdersOf
  <1> HIDE DEF ids, orders
  <1>3. /\ DOMAIN orders = 1 .. n /\ n \in Nat
        /\ \A i \in 1 .. n : orders[i] \in set
        /\ \A order \in set : \E i \in 1 .. n : orders[i] = order
    <2> HIDE DEF set
    <2> QED
      BY <1>1, <1>2, PriorityEnumerates
  <1>4. HaveLots(orders, n)
    <2>1. \A i \in 1 .. n : orders[i].lots \in Quanta \ {0}
      BY <1>1, <1>3
    <2> QED
      BY <1>3, <2>1 DEF HaveLots
  <1> HIDE DEF n
  <1>5. \A i \in 1 .. n : fills[i] \in Quanta /\ fills[i] <= orders[i].lots
    BY <1>4, FillsFit
  <1>6. plan = [id \in {orders[i].id : i \in DOMAIN orders} |->
                  fills[CHOOSE i \in DOMAIN orders : orders[i].id = id]]
    BY DEF AllocationPlan, PlanOf, orders
  <1> HIDE DEF fills, plan
  <1>7. {orders[i].id : i \in DOMAIN orders} = ids
    <2>1. \A i \in 1 .. n : orders[i].id \in ids
      BY <1>1, <1>3
    <2>2. ASSUME NEW id \in ids PROVE \E i \in 1 .. n : orders[i].id = id
      <3>1. b.orders[id] \in set /\ b.orders[id].id = id
        BY <1>1 DEF OrdersOf
      <3>2. PICK i \in 1 .. n : orders[i] = b.orders[id]
        BY <1>3, <3>1
      <3> QED
        BY <3>1, <3>2
    <2> QED
      BY <1>3, <2>1, <2>2
  <1>8. ASSUME NEW id \in ids PROVE plan[id] \in Quanta /\ plan[id] <= b.orders[id].lots
    <2> DEFINE k == CHOOSE i \in DOMAIN orders : orders[i].id = id
    <2>1. k \in 1 .. n /\ orders[k].id = id
      BY <1>3, <1>7
    <2>2. plan[id] = fills[k]
      BY <1>6, <1>7
    <2> HIDE DEF k
    <2>3. orders[k] = b.orders[id]
      BY <1>1, <1>3, <2>1
    <2> QED
      BY <1>5, <2>1, <2>2, <2>3
  <1> QED
    BY <1>6, <1>7, <1>8 DEF plan, ids

\* An uncross takes whole quanta off the orders it fills, and keeps the book.
LEMMA UncrossHolds ==
  ASSUME NEW b, BookHolds(b), NEW clearing, clearing.executable \in Quanta, NEW policy
  PROVE BookHolds(CommitUncross(b, PrepareUncross(b, clearing, policy)))
  <1> DEFINE prepared == PrepareUncross(b, clearing, policy)
             plan == prepared.plan
             cancelled == {prepared.cancellations[i].id : i \in DOMAIN prepared.cancellations}
             gone == {id \in Active(b) : plan[id] = b.orders[id].lots} \cup cancelled
             after == CommitUncross(b, prepared)
  <1>1. /\ b = [orders |-> b.orders, accepted |-> b.accepted]
        /\ b.accepted \in Nat /\ DOMAIN b.orders \subseteq 1 .. b.accepted
        /\ \A id \in DOMAIN b.orders : OrderHolds(b.orders[id], id)
    BY DEF BookHolds
  <1>2. ASSUME NEW id \in DOMAIN b.orders
        PROVE plan[id] \in Quanta /\ plan[id] <= b.orders[id].lots
    <2> DEFINE plans == [side \in Sides |-> AllocationPlan(b, side, clearing, policy.allocation)]
               side == b.orders[id].side
    <2>1. plan = [i \in DOMAIN b.orders |-> plans[b.orders[i].side][i]]
      BY DEF PrepareUncross, PreparedFrom, Active
    <2>2. side \in Sides /\ id \in OfSide(b, side)
      BY <1>1 DEF OrderHolds, OfSide, Active
    <2>3. plan[id] = AllocationPlan(b, side, clearing, policy.allocation)[id]
      <3>1. plan[id] = plans[side][id]
        BY <2>1
      <3> QED
        BY <2>2, <3>1
    <2> HIDE DEF side, plan, plans
    <2>4. /\ AllocationPlan(b, side, clearing, policy.allocation)[id] \in Quanta
          /\ AllocationPlan(b, side, clearing, policy.allocation)[id] <= b.orders[id].lots
      BY <2>2, PlanFits
    <2> QED
      BY <2>3, <2>4
  <1>3. /\ after.orders = [id \in DOMAIN b.orders \ gone |->
                              [b.orders[id] EXCEPT !.lots = b.orders[id].lots - plan[id]]]
        /\ after.accepted = b.accepted
        /\ after = [orders |-> after.orders, accepted |-> after.accepted]
    <2> DEFINE left == [id \in Active(b) \ gone |->
                          [b.orders[id] EXCEPT !.lots = b.orders[id].lots - plan[id]]]
    <2>1. after = [b EXCEPT !.orders = left]
      BY DEF CommitUncross
    <2>2. left = [id \in DOMAIN b.orders \ gone |->
                    [b.orders[id] EXCEPT !.lots = b.orders[id].lots - plan[id]]]
      BY DEF Active
    <2> HIDE DEF after, left
    <2>3. after.orders = left /\ after.accepted = b.accepted
          /\ after = [orders |-> after.orders, accepted |-> after.accepted]
      BY <1>1, <2>1
    <2> QED
      BY <2>2, <2>3
  <1>4. \A id \in DOMAIN b.orders \ gone : plan[id] # b.orders[id].lots
    BY DEF Active
  <1> HIDE DEF after, gone, cancelled, plan
  <1>5. /\ DOMAIN after.orders = DOMAIN b.orders \ gone
        /\ after.orders = [id \in DOMAIN after.orders |-> after.orders[id]]
        /\ \A id \in DOMAIN after.orders :
              after.orders[id] = [b.orders[id] EXCEPT !.lots = b.orders[id].lots - plan[id]]
    BY <1>3
  <1>6. ASSUME NEW id \in DOMAIN after.orders PROVE OrderHolds(after.orders[id], id)
    <2> DEFINE order == b.orders[id]
               lots == order.lots - plan[id]
    <2>1. OrderHolds(order, id) /\ plan[id] \in Quanta /\ plan[id] <= order.lots
          /\ plan[id] # order.lots
      BY <1>1, <1>2, <1>4, <1>5
    <2>2. after.orders[id] = [order EXCEPT !.lots = lots]
      BY <1>5
    <2>3. lots \in Quanta \ {0}
      <3>1. order.lots \in Quanta /\ order.lots \in Nat /\ plan[id] \in Nat
        BY <2>1, QuantaAdd DEF OrderHolds
      <3>2. lots \in Quanta
        BY <2>1, <3>1, QuantaAdd
      <3> QED
        BY <2>1, <3>1, <3>2
    <2> HIDE DEF order, lots
    <2> QED
      BY <2>1, <2>2, <2>3 DEF OrderHolds
  <1> QED
    BY <1>1, <1>3, <1>5, <1>6 DEF BookHolds, after, prepared

----------------------------------------------------------------------------
(* The engine *)

\* What the engine shows was computed from the book as it is.
ShowsItsBook ==
    indicative = NoIndicative \/ \E call \in Calls : indicative = <<Indication(call)>>

EngineInvariant == BookHolds(book) /\ ShowsItsBook

\* The invariant holds of the empty book.
LEMMA EngineStarts == Init => EngineInvariant
  <1> SUFFICES ASSUME Init PROVE EngineInvariant
    OBVIOUS
  <1> DEFINE none == <<>>
  <1>1. DOMAIN none = {} /\ none = [id \in {} |-> none[id]]
    OBVIOUS
  <1>2. book = [orders |-> none, accepted |-> 0]
    BY DEF Init, EmptyBook
  <1> HIDE DEF none
  <1>3. BookHolds(book)
    BY <1>1, <1>2 DEF BookHolds
  <1> QED
    BY <1>3 DEF Init, EngineInvariant, ShowsItsBook

\* A command that changes the book leaves no indication behind.
LEMMA Overtaken ==
  ASSUME Overtakes, BookHolds(book')
  PROVE EngineInvariant'
  BY DEF Overtakes, EngineInvariant, ShowsItsBook

\* Every command keeps the invariant.
LEMMA EngineSteps ==
  ASSUME EngineInvariant, [Next]_vars
  PROVE EngineInvariant'
  <1>1. BookHolds(book)
    BY DEF EngineInvariant
  <1>2. CASE Reject
    BY <1>2 DEF Reject, EngineInvariant, ShowsItsBook, Indication
  <1>3. ASSUME NEW target \in {"collecting", "frozen", "closed"}, PhaseControl(target)
        PROVE EngineInvariant'
    BY <1>1, <1>3, Overtaken DEF PhaseControl
  <1>4. ASSUME NEW offer \in Offers, Submit(offer) PROVE EngineInvariant'
    BY <1>1, <1>4, AdmitHolds, Overtaken DEF Submit
  <1>5. ASSUME NEW id \in Active(book), Cancel(id) PROVE EngineInvariant'
    BY <1>1, <1>5, CancelHolds, Overtaken DEF Cancel
  <1>6. ASSUME NEW account, NEW sides, MassCancel(account, sides) PROVE EngineInvariant'
    BY <1>1, <1>6, CancelHolds, Overtaken DEF MassCancel
  <1>7. ASSUME NEW id \in Active(book), NEW offer \in Offers, AmendOrder(id, offer.lots)
        PROVE EngineInvariant'
    <2>1. offer.lots \in Quanta \ {0}
      BY AuctionEngineAssumption, QuantaAdd
    <2>2. id \in DOMAIN book.orders
      BY DEF Active
    <2> QED
      BY <1>1, <1>7, <2>1, <2>2, AmendHolds, Overtaken DEF AmendOrder
  <1>8. ASSUME NEW id \in Active(book), NEW offer \in Offers, ReplaceOrder(id, offer)
        PROVE EngineInvariant'
    <2>1. BookHolds(CancelAll(book, {id}))
      BY <1>1, CancelHolds
    <2>2. BookHolds(Replace(book, id, offer))
      BY <2>1, AdmitHolds DEF Replace
    <2> QED
      BY <1>8, <2>2, Overtaken DEF ReplaceOrder
  <1>9. ASSUME NEW call \in Calls, Indicate(call) PROVE EngineInvariant'
    <2>1. book' = book /\ indicative' = <<Indication(call)>>
      BY <1>9 DEF Indicate
    <2>2. Indication(call)' = Indication(call)
      BY <2>1 DEF Indication
    <2>3. BookHolds(book') /\ ShowsItsBook'
      BY <1>1, <2>1, <2>2 DEF ShowsItsBook
    <2> QED
      BY <2>3 DEF EngineInvariant
  <1>10. ASSUME NEW call \in Calls, NEW policy, Uncross(call, policy) PROVE EngineInvariant'
    <2> DEFINE clearing == IndicativeClearing(book, call)
    <2>1. clearing.executable \in Quanta
      BY <1>1, IndicationIsBest
    <2>2. book' = CommitUncross(book, PrepareUncross(book, clearing, policy)) /\ Overtakes
      BY <1>10 DEF Uncross, CommitPrepared
    <2> HIDE DEF clearing
    <2>3. BookHolds(book')
      BY <1>1, <2>1, <2>2, UncrossHolds
    <2> QED
      BY <2>2, <2>3, Overtaken
  <1>11. CASE UNCHANGED vars
    BY <1>11 DEF vars, EngineInvariant, ShowsItsBook, Indication
  <1> QED
    BY <1>2, <1>3, <1>4, <1>5, <1>6, <1>7, <1>8, <1>9, <1>10, <1>11 DEF Next

\* Every reachable book is well formed, in whole quanta, and the indication
\* shown, if any, is one computed from the book as it is.
THEOREM EngineAlwaysHolds == Spec => []EngineInvariant
  <1>1. Init => EngineInvariant
    BY EngineStarts
  <1>2. EngineInvariant /\ [Next]_vars => EngineInvariant'
    BY EngineSteps
  <1> QED
    BY <1>1, <1>2, PTL DEF Spec

\* Whatever the offers, bands and limits: the indication the engine shows is
\* the best clearing of the book as it is.  The sweep misses no price of the
\* band, and no command that changes the book leaves an old indication behind.
THEOREM IndicationAlwaysCurrent == Spec => []IndicationIsCurrent
  <1>1. EngineInvariant => IndicationIsCurrent
    <2> SUFFICES ASSUME EngineInvariant, indicative # NoIndicative
                 PROVE IsBestClearing(book, indicative[1].call, indicative[1].clearing)
      BY DEF IndicationIsCurrent
    <2>1. PICK call \in Calls : indicative = <<Indication(call)>>
      BY DEF EngineInvariant, ShowsItsBook
    <2>2. indicative[1].call = call /\ indicative[1].clearing = IndicativeClearing(book, call)
      BY <2>1 DEF Indication
    <2>3. IsBestClearing(book, call, IndicativeClearing(book, call))
      BY IndicationIsBest DEF EngineInvariant
    <2> QED
      BY <2>2, <2>3
  <1> QED
    BY <1>1, EngineAlwaysHolds, PTL

----------------------------------------------------------------------------
(* Who is filled *)

\* What the values of a finite set are, and how many.
LEMMA ValuesOf ==
  ASSUME NEW S, IsFiniteSet(S), NEW h
  PROVE /\ IsFiniteSet({h[x] : x \in S})
        /\ Cardinality({h[x] : x \in S}) <= Cardinality(S)
        /\ (\A x, y \in S : h[x] = h[y] => x = y)
              => Cardinality({h[x] : x \in S}) = Cardinality(S)
  <1> DEFINE T == {h[x] : x \in S}
             g == [x \in S |-> h[x]]
  <1>1. g \in [S -> T] /\ \A x \in S : g[x] = h[x]
    OBVIOUS
  <1>2. \A y \in T : \E x \in S : h[x] = y
    OBVIOUS
  <1> HIDE DEF T, g
  <1>3. g \in Surjection(S, T)
    BY <1>1, <1>2 DEF Surjection
  <1>4. (\A x, y \in S : h[x] = h[y] => x = y) => g \in Injection(S, T)
    BY <1>1 DEF Injection, IsInjective
  <1> QED
    BY <1>3, <1>4, FS_Surjection DEF T

\* A sum over other names of the same terms.
LEMMA SumRenamed ==
  ASSUME NEW T, IsFiniteSet(T), NEW h, NEW f, NEW g,
         \A t, u \in T : h[t] = h[u] => t = u,
         \A t \in T : g[t] \in Int /\ g[t] = f[h[t]]
  PROVE SumOver(g, T) = SumOver(f, {h[t] : t \in T})
  <1> DEFINE Image(U) == {h[t] : t \in U}
             bad == {U \in SUBSET T : SumOver(g, U) # SumOver(f, Image(U))}
  <1> SUFFICES ASSUME bad # {} PROVE FALSE
    OBVIOUS
  <1>1. PICK U \in bad : \A V \in SUBSET U : V # U => V \notin bad
    <2>1. bad \in SUBSET SUBSET T
      OBVIOUS
    <2> HIDE DEF bad
    <2> QED
      BY <2>1, SmallestSet
  <1>2. U \in SUBSET T /\ SumOver(g, U) # SumOver(f, Image(U))
    BY <1>1
  <1>3. IsFiniteSet(U) /\ IsFiniteSet(Image(U))
    <2>1. IsFiniteSet(U)
      BY <1>2, FS_Subset
    <2> QED
      BY <2>1, ValuesOf
  <1>4. U # {}
    <2>1. ASSUME U = {} PROVE FALSE
      <3>1. Image(U) = {}
        BY <2>1
      <3> HIDE DEF Image
      <3> QED
        BY <1>2, <2>1, <3>1, SumNothing
    <2> QED
      BY <2>1
  <1>5. PICK t \in U : TRUE
    BY <1>4
  <1> DEFINE V == U \ {t}
  <1>6. V \in SUBSET U /\ V # U /\ V \in SUBSET T
    BY <1>2, <1>5
  <1>7. SumOver(g, V) = SumOver(f, Image(V))
    BY <1>1, <1>6
  <1>8. Image(V) = Image(U) \ {h[t]} /\ h[t] \in Image(U)
    BY <1>2, <1>5
  <1>9. \A y \in Image(U) : f[y] \in Int
    BY <1>2
  <1>10. \A x \in U : g[x] \in Int
    BY <1>2
  <1>11. SumOver(g, U) = g[t] + SumOver(g, V)
    <2> HIDE DEF bad, Image
    <2> QED
      BY <1>3, <1>5, <1>10, SumTakesOut
  <1>12. SumOver(f, Image(U)) = f[h[t]] + SumOver(f, Image(U) \ {h[t]})
    <2> DEFINE I == Image(U)
               y == h[t]
    <2>1. IsFiniteSet(I) /\ y \in I /\ \A x \in I : f[x] \in Int
      BY <1>3, <1>8, <1>9
    <2> HIDE DEF I, y
    <2>2. SumOver(f, I) = f[y] + SumOver(f, I \ {y})
      BY <2>1, SumTakesOut
    <2> QED
      BY <2>2 DEF I, y
  <1>13. g[t] = f[h[t]]
    BY <1>2, <1>5
  <1> HIDE DEF Image, V, bad
  <1> QED
    BY <1>2, <1>7, <1>8, <1>11, <1>12, <1>13

\* What a side bids or asks at a price.
Wanted(interest, side, price) ==
    IF side = "buy" THEN Demand(interest, price) ELSE Supply(interest, price)

SideLots(b, side) == SumOver([id \in OfSide(b, side) |-> b.orders[id].lots], OfSide(b, side))

\* A side whose orders all have one limit bids or asks all of it or nothing.
LEMMA OneLimit ==
  ASSUME NEW b, BookHolds(b), NEW side \in Sides, NEW limit,
         \A id \in OfSide(b, side) : b.orders[id].limit = limit,
         NEW price \in Prices
  PROVE Wanted(Interest(b), side, price) \in {0, SideLots(b, side)}
  <1> DEFINE interest == Interest(b)
             total == SideLots(b, side)
             ids == OfSide(b, side)
             IdsAt(l) == {id \in ids : b.orders[id].limit = l}
             At(l) == SumOver([id \in IdsAt(l) |-> b.orders[id].lots], IdsAt(l))
             levels == interest.levels[side]
  <1>1. interest.market[side] = At(Market) /\ \A p \in Prices : levels[p] = At(p)
    <2> DEFINE Lots(s, l) ==
                 LET some == {id \in OfSide(b, s) : b.orders[id].limit = l}
                 IN  FoldFunctionOnSet(+, 0, [id \in some |-> b.orders[id].lots], some)
    <2>1. interest = [levels |-> [s \in Sides |-> [p \in Prices |-> Lots(s, p)]],
                      market |-> [s \in Sides |-> Lots(s, Market)]]
      BY DEF Interest
    <2>2. \A l : Lots(side, l) = At(l)
      BY DEF SumOver
    <2> HIDE DEF Lots, interest, At
    <2>3. interest.market[side] = Lots(side, Market)
          /\ \A p \in Prices : interest.levels[side][p] = Lots(side, p)
      BY <2>1
    <2> QED
      BY <2>2, <2>3
  <1>2. At(limit) = total
    <2>1. IdsAt(limit) = ids
      OBVIOUS
    <2> HIDE DEF IdsAt
    <2> QED
      BY <2>1 DEF SideLots
  <1>3. ASSUME NEW l, l # limit PROVE At(l) = 0
    <2>1. IdsAt(l) = {}
      BY <1>3
    <2> HIDE DEF IdsAt
    <2> QED
      BY <2>1, SumNothing
  <1> HIDE DEF At, IdsAt, ids, total
  <1>4. total \in Nat
    <2>1. ids \in SUBSET DOMAIN b.orders
      BY DEF ids, OfSide, Active
    <2>2. FoldFunctionOnSet(+, 0, [id \in ids |-> b.orders[id].lots], ids) \in Quanta
      BY <2>1, IdLots
    <2> QED
      BY <2>2, QuantaAdd DEF total, SideLots, SumOver, ids
  <1>5. ASSUME NEW S \in SUBSET Prices
        PROVE LotsAt(levels, S) = IF limit \in S THEN total ELSE 0
    <2>1. IsFiniteSet(Prices)
      BY InstrumentAssumption, FS_Interval DEF Prices
    <2>2. IsFiniteSet(S) /\ IsFiniteSet(S \ {limit})
      BY <2>1, FS_Subset
    <2>3. SumOver(levels, S \ {limit}) = 0
      <3> DEFINE rest == S \ {limit}
                 M == {0}
      <3>1. \A p \in rest : levels[p] \in M
        BY <1>1, <1>3
      <3>2. IsFiniteSet(rest) /\ 0 \in M /\ \A x, y \in M : x + y \in M
        BY <2>2
      <3> HIDE DEF rest, M
      <3>3. SumOver(levels, rest) \in M
        BY <3>1, <3>2, SumStays
      <3> QED
        BY <3>3 DEF rest, M
    <2>4. CASE limit \in S
      <3>1. levels[limit] = total
        BY <1>1, <1>2, <2>4
      <3>2. \A p \in S : levels[p] \in Int
        BY <1>1, <1>2, <1>3, <1>4
      <3>3. SumOver(levels, S) = levels[limit] + SumOver(levels, S \ {limit})
        BY <2>2, <2>4, <3>2, SumTakesOut
      <3> QED
        BY <1>4, <2>3, <2>4, <3>1, <3>3, LotsAreSum
    <2>5. CASE limit \notin S
      <3>1. S \ {limit} = S
        BY <2>5
      <3> QED
        BY <2>3, <2>5, <3>1, LotsAreSum
    <2> QED
      BY <2>4, <2>5
  <1>6. interest.market[side] = IF limit = Market THEN total ELSE 0
    BY <1>1, <1>2, <1>3
  <1> DEFINE S == IF side = "buy" THEN price .. MaxPrice ELSE 1 .. price
  <1>7. S \in SUBSET Prices
    BY InstrumentAssumption DEF Prices
  <1>8. Wanted(interest, side, price) = interest.market[side] + LotsAt(levels, S)
    BY DEF Wanted, Demand, Supply, Sides
  <1>9. limit = Market => limit \notin S
    BY <1>7 DEF Market, Prices
  <1> HIDE DEF S, levels, interest
  <1>10. LotsAt(levels, S) = IF limit \in S THEN total ELSE 0
    BY <1>5, <1>7
  <1> QED
    BY <1>4, <1>6, <1>8, <1>9, <1>10 DEF interest, total

\* If everybody is filled in part, all have one limit, and together they have
\* more than is executed.
LEMMA AllInPart ==
  ASSUME NEW orders, NEW n, HaveLots(orders, n), n # 0, NEW executable \in Quanta, NEW policy,
         \A i \in 1 .. n : /\ orders[i].limit \in Nat /\ orders[i].class \in Nat
                           /\ orders[i].sequence \in Nat,
         \A i, j \in 1 .. n : i < j => Precedes(orders[i], orders[j]),
         \A i, j \in 1 .. n : orders[i].side = orders[j].side,
         \A i \in 1 .. n : /\ AppendPolicyFills(orders, executable, policy)[i] # 0
                           /\ AppendPolicyFills(orders, executable, policy)[i] # orders[i].lots
  PROVE /\ \A i \in 1 .. n : orders[i].limit = orders[1].limit
        /\ executable < LotsAmong(orders, 1 .. n)
  <1>1. /\ n \in Nat \ {0} /\ 1 \in 1 .. n /\ DOMAIN orders = 1 .. n
        /\ \A i \in 1 .. n : orders[i].lots \in Nat \ {0}
        /\ executable \in Nat
    <2>1. n \in Nat /\ DOMAIN orders = 1 .. n /\ \A i \in 1 .. n : orders[i].lots \in Quanta \ {0}
      BY DEF HaveLots
    <2>2. Quanta \subseteq Nat
      BY QuantaAdd
    <2>3. n \in Nat \ {0} /\ 1 \in 1 .. n
      BY <2>1
    <2>4. \A x \in Quanta : x \in Nat
      BY <2>2
    <2>5. ASSUME NEW i \in 1 .. n PROVE orders[i].lots \in Nat \ {0}
      BY <2>1, <2>4
    <2> QED
      BY <2>1, <2>3, <2>4, <2>5
  <1>2. LotsAmong(orders, {}) = 0
    BY SumNothing DEF LotsAmong, SumOver
  <1>3. ASSUME NEW indices \in SUBSET (1 .. n) PROVE LotsAmong(orders, indices) \in Nat
    BY <1>3, LotsTogether, QuantaAdd
  <1>4. CASE policy = "priceTime"
    <2> DEFINE fills == PriceTimeFills(orders, executable)
               taken(i) == LotsAmong(orders, 1 .. i - 1)
    <2>1. \A i \in 1 .. n : fills[i] = Most(0, Least(orders[i].lots, executable - taken(i)))
      BY <1>1 DEF PriceTimeFills
    <2>2. \A i \in 1 .. n : fills[i] # 0 /\ fills[i] # orders[i].lots
      BY <1>4 DEF AppendPolicyFills
    <2> HIDE DEF fills
    <2>3. executable < orders[1].lots
      <3>1. 1 .. 1 - 1 = {}
        OBVIOUS
      <3>2. taken(1) = 0
        BY <1>2, <3>1
      <3> HIDE DEF taken
      <3>3. fills[1] = Most(0, Least(orders[1].lots, executable)) /\ fills[1] # orders[1].lots
        BY <1>1, <2>1, <2>2, <3>2
      <3> QED
        BY <1>1, <3>3 DEF Most, Least
    <2>4. n = 1
      <3> SUFFICES ASSUME n # 1 PROVE FALSE
        OBVIOUS
      <3>1. 2 \in 1 .. n
        BY <1>1
      <3>2. 1 .. 2 - 1 = {1} /\ {1} \in SUBSET (1 .. n) /\ 1 \in {1}
        BY <1>1
      <3>3. LotsAmong(orders, {1}) >= orders[1].lots /\ LotsAmong(orders, {1}) \in Nat
        BY <1>3, <3>2, LotsTogether
      <3>4. taken(2) = LotsAmong(orders, {1})
        BY <3>2
      <3> HIDE DEF taken
      <3>5. fills[2] = Most(0, Least(orders[2].lots, executable - taken(2))) /\ fills[2] # 0
        BY <2>1, <2>2, <3>1
      <3>6. executable - taken(2) < 0 /\ executable - taken(2) \in Int
        BY <1>1, <2>3, <3>3, <3>4
      <3> QED
        BY <1>1, <3>1, <3>5, <3>6 DEF Most, Least
    <2>5. LotsAmong(orders, 1 .. n) >= orders[1].lots /\ LotsAmong(orders, 1 .. n) \in Nat
      <3> DEFINE all == 1 .. n
      <3>1. all \in SUBSET (1 .. n) /\ 1 \in all
        BY <1>1
      <3> HIDE DEF all
      <3>2. LotsAmong(orders, all) >= orders[1].lots /\ LotsAmong(orders, all) \in Nat
        BY <1>3, <3>1, LotsTogether
      <3> QED
        BY <3>2 DEF all
    <2> QED
      BY <1>1, <2>3, <2>4, <2>5
  <1>5. CASE policy # "priceTime"
    <2> DEFINE fills == ProRataFills(orders, executable)
               left == LeftForTier(orders, executable)
               base == Proportions(orders, left)
               before(i) == LotsAmong(orders, 1 .. Min(Tier(orders, i)) - 1)
    <2>1. \A i \in 1 .. n : fills[i] # 0 /\ fills[i] # orders[i].lots
      BY <1>5 DEF AppendPolicyFills
    <2>2. ASSUME NEW i \in 1 .. n
          PROVE /\ left[i] = executable - before(i) /\ left[i] \in Int /\ left[i] > 0
                /\ left[i] < LotsAmong(orders, Tier(orders, i))
      <3>1. left[i] = executable - before(i) /\ left[i] \in Int
        BY TierParts
      <3>2. LotsAmong(orders, Tier(orders, i)) \in Nat
        BY <1>3, TierParts
      <3> DEFINE some == Quantum * (base[i] + IF TakesResidue(orders, i,
                              left[i] \div Quantum - FoldFunctionOnSet(+, 0,
                                 [j \in Tier(orders, i) |-> base[j]], Tier(orders, i)), base)
                              THEN 1 ELSE 0)
                 all == LotsAmong(orders, Tier(orders, i))
      <3>3. fills[i] = CASE left[i] <= 0 -> 0
                         [] left[i] >= all -> orders[i].lots
                         [] OTHER -> some
        BY <1>1 DEF ProRataFills, ProRataShares, SharesOf
      <3>4. fills[i] # 0 /\ fills[i] # orders[i].lots
        BY <2>1
      <3> HIDE DEF fills, left, some, all, before
      <3>5. left[i] > 0
        <4>1. ASSUME left[i] <= 0 PROVE FALSE
          <5>1. fills[i] = 0 \/ fills[i] = orders[i].lots
            BY <3>3, <4>1
          <5> QED
            BY <3>4, <5>1
        <4> QED
          BY <3>1, <4>1
      <3>6. left[i] < all
        <4>1. ASSUME left[i] >= all PROVE FALSE
          <5>1. ~(left[i] <= 0)
            BY <3>1, <3>5
          <5> QED
            BY <3>3, <3>4, <4>1, <5>1
        <4> QED
          BY <3>1, <3>2, <4>1 DEF all
      <3> QED
        BY <3>1, <3>5, <3>6 DEF all
    <2> HIDE DEF fills, left, base
    <2> DEFINE first == Tier(orders, 1)
               others == (1 .. n) \ first
    <2>3. first = {j \in 1 .. n : SameAllocationTier(orders[1], orders[j])} /\ 1 \in first
      BY <1>1 DEF Tier, SameAllocationTier
    <2>4. Min(first) = 1
      <3>1. first \in SUBSET Nat /\ first # {}
        BY <1>1, <2>3
      <3>2. Min(first) \in first /\ Min(first) <= 1
        BY <2>3, <3>1, MinimumOf
      <3> QED
        BY <1>1, <2>3, <3>2
    <2>5. executable < LotsAmong(orders, first)
      <3>1. 1 .. Min(first) - 1 = {}
        BY <2>4
      <3>2. before(1) = 0
        BY <1>2, <3>1
      <3> HIDE DEF before
      <3> QED
        BY <1>1, <2>2, <3>2
    <2>6. others = {}
      <3> SUFFICES ASSUME others # {} PROVE FALSE
        OBVIOUS
      <3>1. PICK i \in others : \A other \in others : i <= other
        <4>1. others \in SUBSET Nat
          BY <1>1
        <4> HIDE DEF others
        <4> QED
          BY <4>1, LeastNumber
      <3>2. i \in 1 .. n /\ i \notin first /\ \A j \in 1 .. i - 1 : j \in first
        BY <1>1, <3>1
      <3>3. i > 1
        BY <1>1, <2>3, <3>2
      <3>4. first = 1 .. i - 1
        <4>1. ASSUME NEW k \in first PROVE k < i
          <5>1. ASSUME k > i PROVE FALSE
            <6>1. k \in 1 .. n /\ 1 \in 1 .. n /\ SameAllocationTier(orders[1], orders[k])
              BY <1>1, <2>3
            <6>2. Precedes(orders[1], orders[i]) /\ Precedes(orders[i], orders[k])
              BY <1>1, <3>2, <3>3, <5>1, <6>1
            <6>3. SameAllocationTier(orders[1], orders[i])
              <7> DEFINE a == orders[1]
                         b == orders[i]
                         c == orders[k]
              <7>1. /\ a.limit \in Nat /\ a.class \in Nat /\ a.sequence \in Nat
                    /\ b.limit \in Nat /\ b.class \in Nat /\ b.sequence \in Nat
                    /\ c.limit \in Nat /\ c.class \in Nat /\ c.sequence \in Nat
                    /\ a.side = b.side /\ b.side = c.side
                BY <3>2, <6>1
              <7>2. a.limit = c.limit /\ a.class = c.class
                BY <6>1 DEF SameAllocationTier
              <7> HIDE DEF a, b, c
              <7> QED
                BY <6>2, <7>1, <7>2, PrecedesCompares DEF SameAllocationTier, a, b, c
            <6> QED
              BY <2>3, <3>2, <6>3
          <5>2. k # i /\ k \in Nat
            BY <1>1, <2>3, <3>2
          <5> QED
            BY <1>1, <3>2, <5>1, <5>2
        <4>2. \A k \in first : k \in 1 .. i - 1
          BY <1>1, <2>3, <3>2, <4>1
        <4> HIDE DEF first
        <4> QED
          BY <3>2, <4>2
      <3>5. Min(Tier(orders, i)) = i
        <4> DEFINE tier == Tier(orders, i)
        <4>1. tier = {j \in 1 .. n : SameAllocationTier(orders[i], orders[j])} /\ i \in tier
          BY <1>1, <3>2 DEF Tier, SameAllocationTier
        <4>2. \A j \in tier : j \notin first
          BY <2>3, <3>2, <4>1 DEF SameAllocationTier
        <4>3. \A j \in tier : j \in 1 .. n /\ ~(j < i)
          BY <1>1, <3>2, <4>1, <4>2
        <4>4. tier \in SUBSET Nat /\ tier # {}
          BY <1>1, <4>1
        <4> HIDE DEF tier
        <4>5. Min(tier) \in tier /\ Min(tier) <= i
          BY <4>1, <4>4, MinimumOf
        <4> QED
          BY <1>1, <3>2, <4>3, <4>5 DEF tier
      <3>6. before(i) = LotsAmong(orders, first)
        BY <3>4, <3>5
      <3> HIDE DEF before, first
      <3>7. left[i] = executable - LotsAmong(orders, first) /\ left[i] > 0
        BY <2>2, <3>2, <3>6
      <3>8. first \in SUBSET (1 .. n)
        BY <2>3
      <3>9. LotsAmong(orders, first) \in Nat
        BY <1>3, <3>8
      <3> QED
        BY <1>1, <2>5, <3>7, <3>9
    <2>7. first = 1 .. n
      BY <2>3, <2>6
    <2> QED
      BY <2>3, <2>5, <2>7 DEF SameAllocationTier
  <1> QED
    BY <1>4, <1>5

\* The orders of a side of n, by priority, and what each of them gets.
Ranked(b, side, orders, n) ==
    /\ HaveLots(orders, n) /\ n = Cardinality(OfSide(b, side))
    /\ \A i \in 1 .. n : /\ orders[i].id \in OfSide(b, side) /\ orders[i] = b.orders[orders[i].id]
                         /\ orders[i].side = side
                         /\ orders[i].limit \in Nat /\ orders[i].class \in Nat
                         /\ orders[i].sequence \in Nat
    /\ \A id \in OfSide(b, side) : \E i \in 1 .. n : orders[i].id = id
    /\ \A i, j \in 1 .. n : i < j => Precedes(orders[i], orders[j])
    /\ \A i, j \in 1 .. n : orders[i].id = orders[j].id => i = j

\* The orders of a side by priority are its orders, one at each place.
LEMMA SideRanked ==
  ASSUME NEW b, BookHolds(b), NEW side \in Sides
  PROVE Ranked(b, side, InPriority(b, side), Cardinality(OfSide(b, side)))
  <1> DEFINE ids == OfSide(b, side)
             set == OrdersOf(b, ids)
             orders == InPriority(b, side)
             n == Cardinality(set)
  <1>1. /\ AreComparable(set)
        /\ \A order \in set : order.id \in ids /\ order = b.orders[order.id]
        /\ \A id \in ids : /\ b.orders[id].id = id /\ b.orders[id].side = side
                           /\ b.orders[id].lots \in Quanta \ {0} /\ OrderHolds(b.orders[id], id)
        /\ n = Cardinality(ids)
    <2>1. ids \in SUBSET OfSide(b, side)
      OBVIOUS
    <2> HIDE DEF ids
    <2> QED
      BY <2>1, SideOrders
  <1>2. orders = ByPriority(set)
    BY DEF InPriority, OrdersOf
  <1> HIDE DEF ids, orders
  <1>3. /\ DOMAIN orders = 1 .. n /\ n \in Nat
        /\ \A i \in 1 .. n : orders[i] \in set
        /\ \A order \in set : \E i \in 1 .. n : orders[i] = order
        /\ \A i, j \in 1 .. n : i < j => Precedes(orders[i], orders[j])
    <2> HIDE DEF set
    <2> QED
      BY <1>1, <1>2, PriorityEnumerates
  <1> HIDE DEF n
  <1>4. HaveLots(orders, n)
    <2>1. \A i \in 1 .. n : orders[i].lots \in Quanta \ {0}
      BY <1>1, <1>3
    <2> QED
      BY <1>3, <2>1 DEF HaveLots
  <1>5. ASSUME NEW i \in 1 .. n
        PROVE /\ orders[i].id \in ids /\ orders[i] = b.orders[orders[i].id]
              /\ orders[i].side = side
              /\ orders[i].limit \in Nat /\ orders[i].class \in Nat /\ orders[i].sequence \in Nat
    <2>1. orders[i] \in set
      BY <1>3
    <2> HIDE DEF set
    <2>2. orders[i].id \in ids /\ orders[i] = b.orders[orders[i].id]
      BY <1>1, <2>1
    <2>3. orders[i].side = side
      BY <1>1, <2>2
    <2>4. orders[i].limit \in Prices \cup {Market} /\ orders[i].class \in Nat /\ orders[i].sequence \in Nat
      BY <1>1, <2>1 DEF AreComparable
    <2> QED
      BY <2>2, <2>3, <2>4 DEF Prices, Market
  <1>6. ASSUME NEW id \in ids PROVE \E i \in 1 .. n : orders[i].id = id
    <2>1. b.orders[id] \in set /\ b.orders[id].id = id
      BY <1>1 DEF OrdersOf
    <2>2. PICK i \in 1 .. n : orders[i] = b.orders[id]
      BY <1>3, <2>1
    <2> QED
      BY <2>1, <2>2
  <1>7. ASSUME NEW i \in 1 .. n, NEW j \in 1 .. n, orders[i].id = orders[j].id PROVE i = j
    <2>1. orders[i] = orders[j]
      BY <1>5, <1>7
    <2>2. ASSUME i # j PROVE FALSE
      <3>1. Precedes(orders[i], orders[j]) \/ Precedes(orders[j], orders[i])
        BY <1>3, <2>2
      <3>2. Precedes(orders[i], orders[i])
        BY <2>1, <3>1
      <3>3. orders[i] \in set
        BY <1>3
      <3> HIDE DEF set
      <3> QED
        BY <1>1, <3>2, <3>3, PriorityIsOrder
    <2> QED
      BY <2>2
  <1> HIDE DEF set
  <1>8. Ranked(b, side, orders, n)
    BY <1>1, <1>3, <1>4, <1>5, <1>6, <1>7 DEF Ranked, ids
  <1> QED
    BY <1>1, <1>8 DEF orders, ids

\* A side's lots, by id and by place.
LEMMA SideTotal ==
  ASSUME NEW b, BookHolds(b), NEW side \in Sides, NEW orders, NEW n, Ranked(b, side, orders, n)
  PROVE SideLots(b, side) = LotsAmong(orders, 1 .. n)
  <1> DEFINE ids == OfSide(b, side)
             h == [i \in 1 .. n |-> orders[i].id]
             f == [id \in ids |-> b.orders[id].lots]
             g == [k \in 1 .. n |-> orders[k].lots]
             T == 1 .. n
  <1>1. /\ n \in Nat
        /\ \A i \in T : /\ orders[i].lots \in Quanta /\ orders[i].id \in ids
                        /\ orders[i] = b.orders[orders[i].id]
        /\ \A id \in ids : \E i \in T : orders[i].id = id
        /\ \A i, j \in T : orders[i].id = orders[j].id => i = j
    BY DEF Ranked, HaveLots
  <1>2. IsFiniteSet(T)
    BY <1>1, FS_Interval
  <1>3. /\ \A i, j \in T : h[i] = h[j] => i = j
        /\ \A i \in T : h[i] \in ids
        /\ \A id \in ids : \E i \in T : h[i] = id
    BY <1>1
  <1>4. ASSUME NEW i \in T PROVE g[i] \in Int /\ g[i] = f[h[i]]
    <2>1. g[i] = orders[i].lots /\ h[i] = orders[i].id /\ h[i] \in ids
      BY <1>1
    <2>2. f[h[i]] = b.orders[h[i]].lots
      BY <2>1
    <2>3. orders[i].lots \in Nat
      BY <1>1, QuantaAdd
    <2> QED
      BY <1>1, <2>1, <2>2, <2>3
  <1> HIDE DEF h, f, g, ids
  <1>5. {h[i] : i \in T} = ids
    BY <1>3
  <1> HIDE DEF T
  <1>6. SumOver(g, T) = SumOver(f, ids)
    <2>1. SumOver(g, T) = SumOver(f, {h[i] : i \in T})
      BY <1>2, <1>3, <1>4, SumRenamed
    <2> QED
      BY <1>5, <2>1
  <1> QED
    BY <1>6 DEF SideLots, LotsAmong, SumOver, f, g, T, ids

\* What is planned for an order is what its place gets.
LEMMA PlanByPlace ==
  ASSUME NEW b, BookHolds(b), NEW side \in Sides, NEW n, NEW clearing, NEW policy,
         Ranked(b, side, InPriority(b, side), n)
  PROVE \A i \in 1 .. n :
          AllocationPlan(b, side, clearing, policy)[InPriority(b, side)[i].id]
            = AppendPolicyFills(InPriority(b, side), clearing.executable, policy)[i]
  <1> DEFINE orders == InPriority(b, side)
             fills == AppendPolicyFills(orders, clearing.executable, policy)
             plan == AllocationPlan(b, side, clearing, policy)
  <1>1. DOMAIN orders = 1 .. n /\ \A i, j \in 1 .. n : orders[i].id = orders[j].id => i = j
    BY DEF Ranked, HaveLots
  <1>2. plan = [id \in {orders[i].id : i \in DOMAIN orders} |->
                  fills[CHOOSE i \in DOMAIN orders : orders[i].id = id]]
    BY DEF AllocationPlan, PlanOf
  <1> HIDE DEF fills, plan, orders
  <1>3. ASSUME NEW i \in 1 .. n PROVE plan[orders[i].id] = fills[i]
    <2> DEFINE id == orders[i].id
               k == CHOOSE j \in DOMAIN orders : orders[j].id = id
    <2>1. id \in {orders[j].id : j \in DOMAIN orders}
      BY <1>1
    <2>2. plan[id] = fills[k]
      BY <1>2, <2>1
    <2>3. k \in 1 .. n /\ orders[k].id = orders[i].id
      BY <1>1
    <2> HIDE DEF k
    <2>4. k = i
      BY <1>1, <2>3
    <2> QED
      BY <2>2, <2>4
  <1> QED
    BY <1>3 DEF plan, orders, fills

\* What is planned for an order, whichever its side.
LEMMA PlanBySide ==
  ASSUME NEW b, BookHolds(b), NEW clearing, NEW policy
  PROVE LET plan == PrepareUncross(b, clearing, policy).plan IN
        /\ DOMAIN plan = DOMAIN b.orders
        /\ \A side \in Sides : \A id \in OfSide(b, side) :
              plan[id] = AllocationPlan(b, side, clearing, policy.allocation)[id]
  <1> DEFINE plan == PrepareUncross(b, clearing, policy).plan
             plans == [side \in Sides |-> AllocationPlan(b, side, clearing, policy.allocation)]
  <1>1. plan = [i \in DOMAIN b.orders |-> plans[b.orders[i].side][i]]
    BY DEF PrepareUncross, PreparedFrom, Active
  <1>2. ASSUME NEW side \in Sides, NEW id \in OfSide(b, side)
        PROVE plan[id] = AllocationPlan(b, side, clearing, policy.allocation)[id]
    <2>1. id \in DOMAIN b.orders /\ b.orders[id].side = side
      BY DEF OfSide, Active
    <2>2. plan[id] = plans[side][id]
      BY <1>1, <2>1
    <2> QED
      BY <2>2
  <1> QED
    BY <1>1, <1>2

\* A clearing fills an order whole or leaves one unfilled: not everybody is
\* filled in part.
LEMMA SomebodyWhole ==
  ASSUME NEW b, BookHolds(b), NEW call \in Calls, NEW policy,
         IndicativeClearing(b, call) # NoClearing
  PROVE LET plan == PrepareUncross(b, IndicativeClearing(b, call), policy).plan IN
        \E id \in DOMAIN b.orders : plan[id] = 0 \/ plan[id] = b.orders[id].lots
  <1> DEFINE clearing == IndicativeClearing(b, call)
             plan == PrepareUncross(b, clearing, policy).plan
             interest == Interest(b)
             prices == call.band.minimum .. call.band.maximum
  <1> SUFFICES ASSUME \A id \in DOMAIN b.orders : plan[id] # 0 /\ plan[id] # b.orders[id].lots
               PROVE FALSE
    OBVIOUS
  <1>1. IsInterest(interest)
    BY BookInterest
  <1>2. call.band \in Bands /\ call.reference \in Prices
    BY AuctionEngineAssumption
  <1>3. prices \in SUBSET Prices
    BY <1>2, InstrumentAssumption DEF Bands, Prices
  <1>4. BestAmong(interest, prices, call.reference, call.pricing, clearing)
    BY <1>1, <1>2, SweepFindsBest DEF IndicativeClearing
  <1>5. PICK p \in prices : clearing = ClearingAt(interest, p) /\ Executable(interest, p) # 0
    BY <1>4 DEF BestAmong
  <1>6. p \in Prices
    BY <1>3
  <1>7. /\ clearing.executable = Least(Demand(interest, p), Supply(interest, p))
        /\ clearing.executable # 0
        /\ Demand(interest, p) \in Nat /\ Supply(interest, p) \in Nat
    <2>1. clearing.executable = Executable(interest, p)
      BY <1>1, <1>5, <1>6, SomeClearing
    <2> HIDE DEF interest, clearing
    <2> QED
      BY <1>1, <1>5, <1>6, <2>1, InterestNumbers DEF Executable
  <1>8. clearing.executable \in Quanta
    BY IndicationIsBest
  <1>9. PICK side \in Sides : clearing.executable = Wanted(interest, side, p)
    <2>1. "buy" \in Sides /\ "sell" \in Sides
      BY DEF Sides
    <2> HIDE DEF interest, clearing
    <2> QED
      BY <1>7, <2>1 DEF Wanted, Least
  <1> DEFINE orders == InPriority(b, side)
             n == Cardinality(OfSide(b, side))
             fills == AppendPolicyFills(orders, clearing.executable, policy.allocation)
  <1>10. Ranked(b, side, orders, n)
    BY SideRanked
  <1>11. ASSUME NEW i \in 1 .. n PROVE fills[i] # 0 /\ fills[i] # orders[i].lots
    <2> DEFINE id == orders[i].id
    <2>1. id \in OfSide(b, side) /\ orders[i] = b.orders[id]
      <3> HIDE DEF orders, n
      <3> QED
        BY <1>10 DEF Ranked
    <2>2. AllocationPlan(b, side, clearing, policy.allocation)[id] = fills[i]
      <3> HIDE DEF clearing, n
      <3> QED
        BY <1>10, PlanByPlace
    <2>3. plan[id] = AllocationPlan(b, side, clearing, policy.allocation)[id]
      <3> HIDE DEF clearing, id, orders
      <3> QED
        BY <2>1, PlanBySide
    <2>4. id \in DOMAIN b.orders
      BY <2>1 DEF OfSide, Active
    <2> HIDE DEF plan, fills, orders, id
    <2> QED
      BY <2>1, <2>2, <2>3, <2>4
  <1> HIDE DEF clearing, plan, interest, prices
  <1>12. CASE n = 0
    <2>1. OfSide(b, side) = {}
      <3>1. OfSide(b, side) \in SUBSET DOMAIN b.orders
        BY DEF OfSide, Active
      <3>2. IsFiniteSet(OfSide(b, side))
        BY <3>1, BookFinite
      <3> QED
        BY <1>12, <3>2, FS_EmptySet
    <2>2. Wanted(interest, side, p) \in {0, SideLots(b, side)}
      BY <1>6, <2>1, OneLimit DEF interest
    <2>3. SideLots(b, side) = 0
      BY <2>1, SumNothing DEF SideLots
    <2> QED
      BY <1>7, <1>9, <2>2, <2>3
  <1>13. CASE n # 0
    <2> HIDE DEF orders, n
    <2>1. /\ HaveLots(orders, n)
          /\ \A i \in 1 .. n : /\ orders[i].limit \in Nat /\ orders[i].class \in Nat
                               /\ orders[i].sequence \in Nat
          /\ \A i, j \in 1 .. n : i < j => Precedes(orders[i], orders[j])
          /\ \A i, j \in 1 .. n : orders[i].side = orders[j].side
      BY <1>10 DEF Ranked
    <2>2. /\ \A i \in 1 .. n : orders[i].limit = orders[1].limit
          /\ clearing.executable < LotsAmong(orders, 1 .. n)
      <3> DEFINE executable == clearing.executable
                 allocation == policy.allocation
      <3>1. \A i \in 1 .. n : /\ AppendPolicyFills(orders, executable, allocation)[i] # 0
                              /\ AppendPolicyFills(orders, executable, allocation)[i] # orders[i].lots
        BY <1>11
      <3>2. executable \in Quanta
        BY <1>8
      <3> HIDE DEF executable, allocation, fills
      <3>3. /\ \A i \in 1 .. n : orders[i].limit = orders[1].limit
            /\ executable < LotsAmong(orders, 1 .. n)
        BY <1>13, <2>1, <3>1, <3>2, AllInPart
      <3> QED
        BY <3>3 DEF executable
    <2>3. ASSUME NEW id \in OfSide(b, side) PROVE b.orders[id].limit = orders[1].limit
      <3>1. PICK i \in 1 .. n : orders[i].id = id /\ orders[i] = b.orders[orders[i].id]
        BY <1>10 DEF Ranked
      <3> QED
        BY <2>2, <3>1
    <2>4. Wanted(interest, side, p) \in {0, SideLots(b, side)}
      BY <1>6, <2>3, OneLimit DEF interest
    <2>5. SideLots(b, side) = LotsAmong(orders, 1 .. n)
      BY <1>10, SideTotal
    <2>6. clearing.executable \in Nat
      BY <1>8, QuantaAdd
    <2>7. LotsAmong(orders, 1 .. n) = clearing.executable
      BY <1>7, <1>9, <2>4, <2>5
    <2> QED
      BY <2>2, <2>6, <2>7
  <1> QED
    BY <1>12, <1>13

----------------------------------------------------------------------------
(* How many events an uncross reports *)

\* A function on 1 .. m is a sequence of m.
Lists(s, m) == m \in Nat /\ s = [k \in 1 .. m |-> s[k]]

\* A list of m is a sequence of length m.
LEMMA ListIsSequence ==
  ASSUME NEW s, NEW m, Lists(s, m)
  PROVE /\ s \in Seq({s[k] : k \in 1 .. m}) /\ Len(s) = m /\ DOMAIN s = 1 .. m
        /\ \A S : (\A k \in 1 .. m : s[k] \in S) => s \in Seq(S)
  <1>1. m \in Nat /\ s = [k \in 1 .. m |-> s[k]]
    BY DEF Lists
  <1>2. ASSUME NEW S, \A k \in 1 .. m : s[k] \in S PROVE s \in Seq(S) /\ Len(s) = m
    <2>1. s \in [1 .. m -> S]
      BY <1>1, <1>2
    <2> QED
      BY <1>1, <2>1
  <1>3. s \in Seq({s[k] : k \in 1 .. m}) /\ Len(s) = m
    <2> DEFINE S == {s[k] : k \in 1 .. m}
    <2>1. \A k \in 1 .. m : s[k] \in S
      OBVIOUS
    <2> HIDE DEF S
    <2>2. s \in Seq(S) /\ Len(s) = m
      BY <1>2, <2>1
    <2> QED
      BY <2>2 DEF S
  <1> QED
    BY <1>1, <1>2, <1>3

Joins(joined, s, t) == joined = s \o t

JoinHolds(joined, s, t, m, n) ==
    /\ Lists(joined, m + n)
    /\ \A k \in 1 .. m : joined[k] = s[k]
    /\ \A k \in 1 .. n : joined[m + k] = t[k]
    /\ \A k \in 1 .. m + n : joined[k] = IF k <= m THEN s[k] ELSE t[k - m]

\* One list after the other.
LEMMA JoinedLists ==
  ASSUME NEW s, NEW t, NEW m \in Nat, NEW n \in Nat, Lists(s, m), Lists(t, n),
         NEW joined, Joins(joined, s, t)
  PROVE JoinHolds(joined, s, t, m, n)
  <1> DEFINE S == {s[k] : k \in 1 .. m} \cup {t[k] : k \in 1 .. n}
  <1>1. m \in Nat /\ n \in Nat /\ Len(s) = m /\ Len(t) = n
    BY ListIsSequence DEF Lists
  <1>2. s \in Seq(S) /\ t \in Seq(S)
    <2>1. (\A k \in 1 .. m : s[k] \in S) /\ (\A k \in 1 .. n : t[k] \in S)
      OBVIOUS
    <2> HIDE DEF S
    <2> QED
      BY <2>1, ListIsSequence
  <1> HIDE DEF S
  <1>3. /\ joined \in Seq(S) /\ Len(joined) = m + n
        /\ \A k \in 1 .. m + n : joined[k] = IF k <= m THEN s[k] ELSE t[k - m]
    BY <1>1, <1>2, ConcatProperties DEF Joins
  <1>5. joined = [k \in 1 .. m + n |-> joined[k]]
    BY <1>3
  <1>6. m + n \in Nat
    BY <1>1
  <1>7. \A k \in 1 .. m : k <= m /\ k \in 1 .. m + n
    BY <1>1
  <1>8. \A k \in 1 .. n : ~(m + k <= m) /\ m + k \in 1 .. m + n /\ (m + k) - m = k
    BY <1>1
  <1> QED
    BY <1>3, <1>5, <1>6, <1>7, <1>8 DEF Lists, JoinHolds

\* Some orders of a side, by priority.
LEMMA SomeRanked ==
  ASSUME NEW b, BookHolds(b), NEW side \in Sides, NEW ids \in SUBSET OfSide(b, side)
  PROVE LET ranked == ByPriority(OrdersOf(b, ids)) IN
        /\ DOMAIN ranked = 1 .. Cardinality(ids) /\ Cardinality(ids) \in Nat
        /\ \A i \in 1 .. Cardinality(ids) : ranked[i].id \in ids
        /\ \A id \in ids : \E i \in 1 .. Cardinality(ids) : ranked[i].id = id
  <1> DEFINE set == OrdersOf(b, ids)
             ranked == ByPriority(set)
             n == Cardinality(ids)
  <1>1. /\ AreComparable(set) /\ Cardinality(set) = n
        /\ \A order \in set : order.id \in ids
        /\ \A id \in ids : b.orders[id].id = id
    BY SideOrders
  <1>2. \A id \in ids : b.orders[id] \in set
    BY DEF OrdersOf
  <1> HIDE DEF set, n
  <1>3. /\ DOMAIN ranked = 1 .. n /\ n \in Nat
        /\ \A i \in 1 .. n : ranked[i] \in set
        /\ \A order \in set : \E i \in 1 .. n : ranked[i] = order
    BY <1>1, PriorityEnumerates
  <1> HIDE DEF ranked
  <1>4. \A i \in 1 .. n : ranked[i].id \in ids
    BY <1>1, <1>3
  <1>5. ASSUME NEW id \in ids PROVE \E i \in 1 .. n : ranked[i].id = id
    <2>1. PICK i \in 1 .. n : ranked[i] = b.orders[id]
      BY <1>2, <1>3
    <2> QED
      BY <1>1, <2>1
  <1> QED
    BY <1>3, <1>4, <1>5 DEF ranked, n, set

Filled(b, side, plan) == {id \in OfSide(b, side) : plan[id] > 0}

EndsOf(fills) == {Through(fills, i) : i \in DOMAIN fills}

\* A side has no more ends than fills.
LEMMA FewEnds ==
  ASSUME NEW b, BookHolds(b), NEW side \in Sides, NEW plan,
         \A id \in DOMAIN b.orders : plan[id] \in Quanta
  PROVE /\ EndsOf(FillsOf(b, side, plan)) \in SUBSET Int
        /\ IsFiniteSet(EndsOf(FillsOf(b, side, plan)))
        /\ Cardinality(EndsOf(FillsOf(b, side, plan))) <= Cardinality(Filled(b, side, plan))
  <1> DEFINE ids == Filled(b, side, plan)
             ranked == ByPriority(OrdersOf(b, ids))
             n == Cardinality(ids)
             fills == FillsOf(b, side, plan)
             h == [i \in 1 .. n |-> Through(fills, i)]
  <1>1. ids \in SUBSET OfSide(b, side) /\ \A id \in ids : id \in DOMAIN b.orders /\ plan[id] > 0
    BY DEF Filled, OfSide, Active
  <1>2. fills = [i \in DOMAIN ranked |-> [id |-> ranked[i].id, lots |-> plan[ranked[i].id]]]
    BY DEF FillsOf, OrdersOf, Filled
  <1> HIDE DEF ids, fills
  <1>3. DOMAIN ranked = 1 .. n /\ n \in Nat /\ \A i \in 1 .. n : ranked[i].id \in ids
    BY <1>1, SomeRanked
  <1> HIDE DEF ranked, n
  <1>4. HaveLots(fills, n)
    <2>1. DOMAIN fills = 1 .. n /\ \A i \in 1 .. n : fills[i].lots = plan[ranked[i].id]
      BY <1>2, <1>3
    <2>2. ASSUME NEW i \in 1 .. n PROVE fills[i].lots \in Quanta \ {0}
      <3>1. plan[ranked[i].id] \in Quanta /\ plan[ranked[i].id] > 0
        BY <1>1, <1>3
      <3> QED
        BY <2>1, <3>1
    <2> QED
      BY <1>3, <2>1, <2>2 DEF HaveLots
  <1>5. ASSUME NEW i \in 1 .. n PROVE Through(fills, i) \in Int
    <2>1. 1 .. i \in SUBSET (1 .. n)
      BY <1>3
    <2>2. LotsAmong(fills, 1 .. i) \in Quanta
      BY <1>4, <2>1, LotsTogether
    <2> QED
      BY <2>2, QuantaAdd DEF Through
  <1>6. EndsOf(fills) = {h[i] : i \in 1 .. n} /\ \A i \in 1 .. n : h[i] \in Int
    <2>1. DOMAIN fills = 1 .. n
      BY <1>4 DEF HaveLots
    <2>2. \A i \in 1 .. n : h[i] = Through(fills, i)
      OBVIOUS
    <2> HIDE DEF h
    <2> QED
      BY <1>5, <2>1, <2>2 DEF EndsOf
  <1>7. IsFiniteSet(1 .. n) /\ Cardinality(1 .. n) = n
    BY <1>3, FS_Interval
  <1> HIDE DEF h
  <1>8. IsFiniteSet({h[i] : i \in 1 .. n}) /\ Cardinality({h[i] : i \in 1 .. n}) <= n
    <2>1. IsFiniteSet({h[i] : i \in 1 .. n})
      BY <1>7, ValuesOf
    <2>2. Cardinality({h[i] : i \in 1 .. n}) <= Cardinality(1 .. n)
      BY <1>7, ValuesOf
    <2> QED
      BY <1>7, <2>1, <2>2
  <1> QED
    BY <1>6, <1>8 DEF ids, fills, n

\* Sides share nobody, and together they are the book.
LEMMA TwoSides ==
  ASSUME NEW b, BookHolds(b),
         NEW buys \in SUBSET OfSide(b, "buy"), NEW sells \in SUBSET OfSide(b, "sell")
  PROVE /\ buys \cup sells \in SUBSET DOMAIN b.orders
        /\ IsFiniteSet(buys) /\ IsFiniteSet(sells) /\ IsFiniteSet(buys \cup sells)
        /\ Cardinality(buys \cup sells) = Cardinality(buys) + Cardinality(sells)
        /\ Cardinality(buys) \in Nat /\ Cardinality(sells) \in Nat
  <1>1. buys \in SUBSET DOMAIN b.orders /\ sells \in SUBSET DOMAIN b.orders
    BY DEF OfSide, Active
  <1>2. IsFiniteSet(buys) /\ IsFiniteSet(sells)
    BY <1>1, BookFinite
  <1>3. buys \cap sells = {}
    BY DEF OfSide
  <1>4. Cardinality(buys \cap sells) = 0
    BY <1>3, FS_EmptySet
  <1>5. /\ IsFiniteSet(buys \cup sells)
        /\ Cardinality(buys \cup sells)
             = Cardinality(buys) + Cardinality(sells) - Cardinality(buys \cap sells)
    BY <1>2, FS_Union
  <1>6. Cardinality(buys) \in Nat /\ Cardinality(sells) \in Nat
    BY <1>2, FS_CardinalityType
  <1> QED
    BY <1>1, <1>2, <1>4, <1>5, <1>6

\* No more trades than orders that are filled.
LEMMA FewTrades ==
  ASSUME NEW b, BookHolds(b), NEW plan, \A id \in DOMAIN b.orders : plan[id] \in Quanta
  PROVE LET trades == TradePairs(FillsOf(b, "buy", plan), FillsOf(b, "sell", plan))
            filled == Filled(b, "buy", plan) \cup Filled(b, "sell", plan) IN
        \E n \in Nat : Lists(trades, n) /\ n <= Cardinality(filled)
  <1> DEFINE buys == FillsOf(b, "buy", plan)
             sells == FillsOf(b, "sell", plan)
             E == EndsOf(buys)
             F == EndsOf(sells)
             P == Filled(b, "buy", plan)
             Q == Filled(b, "sell", plan)
             trades == TradePairs(buys, sells)
             n == Cardinality(E \cup F)
  <1>1. "buy" \in Sides /\ "sell" \in Sides
    BY DEF Sides
  <1>2. /\ E \in SUBSET Int /\ IsFiniteSet(E) /\ Cardinality(E) <= Cardinality(P)
        /\ F \in SUBSET Int /\ IsFiniteSet(F) /\ Cardinality(F) <= Cardinality(Q)
    BY <1>1, FewEnds
  <1>3. trades = PairsEndingAt(Ascending(E \cup F), buys, sells)
    BY DEF TradePairs, EndsOf
  <1>4. Cardinality(P \cup Q) = Cardinality(P) + Cardinality(Q)
        /\ Cardinality(P) \in Nat /\ Cardinality(Q) \in Nat
    <2>1. P \in SUBSET OfSide(b, "buy") /\ Q \in SUBSET OfSide(b, "sell")
      BY DEF Filled
    <2> HIDE DEF P, Q
    <2>2. \A u \in SUBSET OfSide(b, "buy"), v \in SUBSET OfSide(b, "sell") :
             /\ Cardinality(u \cup v) = Cardinality(u) + Cardinality(v)
             /\ Cardinality(u) \in Nat /\ Cardinality(v) \in Nat
      BY TwoSides
    <2> QED
      BY <2>1, <2>2
  <1> HIDE DEF E, F, P, Q, buys, sells, trades
  <1>5. /\ IsFiniteSet(E \cup F) /\ E \cup F \in SUBSET Int
        /\ n = Cardinality(E) + Cardinality(F) - Cardinality(E \cap F)
    BY <1>2, FS_Union
  <1>6. Cardinality(E) \in Nat /\ Cardinality(F) \in Nat /\ Cardinality(E \cap F) \in Nat
    <2>1. IsFiniteSet(E \cap F)
      BY <1>2, FS_Intersection
    <2> QED
      BY <1>2, <2>1, FS_CardinalityType
  <1>7. n <= Cardinality(P \cup Q)
    BY <1>2, <1>4, <1>5, <1>6
  <1> DEFINE ends == Ascending(E \cup F)
  <1>8. DOMAIN ends = 1 .. n /\ n \in Nat
    <2> DEFINE G == E \cup F
    <2>1. IsFiniteSet(G) /\ G \in SUBSET Int
      BY <1>5
    <2> HIDE DEF G
    <2>2. Ascending(G) \in Seq(G) /\ Len(Ascending(G)) = Cardinality(G) /\ Cardinality(G) \in Nat
      BY <2>1, AscendingEnumerates
    <2>3. DOMAIN Ascending(G) = 1 .. Cardinality(G)
      BY <2>2
    <2> QED
      BY <2>2, <2>3 DEF G
  <1>9. Lists(trades, n)
    <2> HIDE DEF ends, n
    <2>1. DOMAIN trades = 1 .. n /\ trades = [k \in 1 .. n |-> trades[k]]
      BY <1>3, <1>8 DEF PairsEndingAt, ends
    <2> QED
      BY <1>8, <2>1 DEF Lists
  <1> QED
    BY <1>7, <1>8, <1>9 DEF trades, P, Q, buys, sells

\* Who is cancelled of a side.
Leavers(b, side, plan, remainder) ==
    {id \in OfSide(b, side) :
        plan[id] < b.orders[id].lots /\ Cancels(remainder, b.orders[id].limit)}

\* Each cancellation is of another order, and of one that is not filled.
LEMMA FewCancellations ==
  ASSUME NEW b, BookHolds(b), NEW plan, NEW remainder
  PROVE LET cancels == RemainderCancellations(b, plan, remainder)
            ids == {cancels[i].id : i \in DOMAIN cancels} IN
        /\ Lists(cancels, Cardinality(ids))
        /\ ids \in SUBSET DOMAIN b.orders
        /\ \A id \in ids : plan[id] < b.orders[id].lots
  <1> DEFINE Set(side) == {order \in {b.orders[id] : id \in OfSide(b, side)} :
                             plan[order.id] < order.lots /\ Cancels(remainder, order.limit)}
             Left(side) == ByPriority(Set(side))
             Of(side) == [i \in DOMAIN Left(side) |->
                            [id |-> Left(side)[i].id,
                             lots |-> Left(side)[i].lots - plan[Left(side)[i].id],
                             executed |-> plan[Left(side)[i].id]]]
             P == Leavers(b, "buy", plan, remainder)
             Q == Leavers(b, "sell", plan, remainder)
             cancels == RemainderCancellations(b, plan, remainder)
             ids == {cancels[i].id : i \in DOMAIN cancels}
             m == Cardinality(P)
             n == Cardinality(Q)
  <1>1. cancels = Of("buy") \o Of("sell")
    BY DEF RemainderCancellations
  <1>2. ASSUME NEW side \in Sides
        PROVE LET some == Leavers(b, side, plan, remainder) IN
              /\ Lists(Of(side), Cardinality(some))
              /\ \A i \in 1 .. Cardinality(some) : Of(side)[i].id \in some
              /\ \A id \in some : \E i \in 1 .. Cardinality(some) : Of(side)[i].id = id
    <2> DEFINE some == Leavers(b, side, plan, remainder)
               k == Cardinality(some)
               left == Left(side)
    <2>1. some \in SUBSET OfSide(b, side)
      BY DEF Leavers
    <2>2. \A id \in OfSide(b, side) : b.orders[id].id = id
      BY DEF OfSide, Active, BookHolds, OrderHolds
    <2>3. Set(side) = OrdersOf(b, some)
      <3>1. ASSUME NEW order \in Set(side) PROVE order \in OrdersOf(b, some)
        <4>1. PICK id \in OfSide(b, side) : order = b.orders[id]
          OBVIOUS
        <4>2. id \in some
          BY <2>2, <3>1, <4>1 DEF Leavers
        <4> QED
          BY <4>1, <4>2 DEF OrdersOf
      <3>2. ASSUME NEW order \in OrdersOf(b, some) PROVE order \in Set(side)
        <4>1. PICK id \in some : order = b.orders[id]
          BY DEF OrdersOf
        <4>2. id \in OfSide(b, side) /\ order.id = id /\ plan[id] < order.lots
              /\ Cancels(remainder, order.limit)
          BY <2>2, <4>1 DEF Leavers
        <4> QED
          BY <4>1, <4>2
      <3> QED
        BY <3>1, <3>2
    <2>4. left = ByPriority(OrdersOf(b, some))
      BY <2>3
    <2> HIDE DEF some, left, Set
    <2>5. /\ DOMAIN left = 1 .. k /\ k \in Nat
          /\ \A i \in 1 .. k : left[i].id \in some
          /\ \A id \in some : \E i \in 1 .. k : left[i].id = id
      BY <2>1, <2>4, SomeRanked
    <2> HIDE DEF k
    <2> DEFINE of == [i \in DOMAIN left |->
                        [id |-> left[i].id, lots |-> left[i].lots - plan[left[i].id],
                         executed |-> plan[left[i].id]]]
    <2>6. Of(side) = of
      BY DEF left
    <2>7. /\ of = [i \in 1 .. k |-> of[i]]
          /\ \A i \in 1 .. k : of[i].id = left[i].id
      BY <2>5
    <2> HIDE DEF of
    <2>8. /\ Lists(of, k)
          /\ \A i \in 1 .. k : of[i].id \in some
          /\ \A id \in some : \E i \in 1 .. k : of[i].id = id
      BY <2>5, <2>7 DEF Lists
    <2> HIDE DEF Of
    <2> QED
      BY <2>6, <2>8 DEF some, k
  <1>3. "buy" \in Sides /\ "sell" \in Sides
    BY DEF Sides
  <1> DEFINE s == Of("buy")
             t == Of("sell")
  <1>4. /\ Lists(s, m) /\ Lists(t, n)
        /\ \A i \in 1 .. m : s[i].id \in P
        /\ \A id \in P : \E i \in 1 .. m : s[i].id = id
        /\ \A i \in 1 .. n : t[i].id \in Q
        /\ \A id \in Q : \E i \in 1 .. n : t[i].id = id
    <2> HIDE DEF Of
    <2> QED
      BY <1>2, <1>3
  <1>5. P \in SUBSET OfSide(b, "buy") /\ Q \in SUBSET OfSide(b, "sell")
    BY DEF Leavers
  <1>6. \A id \in P \cup Q : plan[id] < b.orders[id].lots
    BY DEF Leavers
  <1>7. Joins(cancels, s, t)
    BY <1>1 DEF Joins
  <1> HIDE DEF Of, s, t, P, Q, cancels
  <1>8. /\ P \cup Q \in SUBSET DOMAIN b.orders
        /\ Cardinality(P \cup Q) = m + n /\ m \in Nat /\ n \in Nat
    <2>1. \A u \in SUBSET OfSide(b, "buy"), v \in SUBSET OfSide(b, "sell") :
             /\ u \cup v \in SUBSET DOMAIN b.orders
             /\ Cardinality(u \cup v) = Cardinality(u) + Cardinality(v)
             /\ Cardinality(u) \in Nat /\ Cardinality(v) \in Nat
      BY TwoSides
    <2> QED
      BY <1>5, <2>1
  <1> HIDE DEF m, n
  <1>9. /\ Lists(cancels, m + n) /\ DOMAIN cancels = 1 .. m + n
        /\ \A k \in 1 .. m : cancels[k] = s[k]
        /\ \A k \in 1 .. n : cancels[m + k] = t[k]
        /\ \A k \in 1 .. m + n : cancels[k] = IF k <= m THEN s[k] ELSE t[k - m]
    <2>1. Lists(s, m) /\ Lists(t, n)
      BY <1>4
    <2>2. JoinHolds(cancels, s, t, m, n)
      BY <1>7, <1>8, <2>1, JoinedLists
    <2>3. /\ Lists(cancels, m + n)
          /\ \A k \in 1 .. m : cancels[k] = s[k]
          /\ \A k \in 1 .. n : cancels[m + k] = t[k]
          /\ \A k \in 1 .. m + n : cancels[k] = IF k <= m THEN s[k] ELSE t[k - m]
      BY <2>2 DEF JoinHolds
    <2> QED
      BY <2>3, ListIsSequence
  <1>10. ids = P \cup Q
    <2>1. ASSUME NEW k \in 1 .. m + n PROVE cancels[k].id \in P \cup Q
      <3>1. CASE k <= m
        <4>1. k \in 1 .. m
          BY <1>8, <3>1
        <4> QED
          BY <1>4, <1>9, <4>1
      <3>2. CASE ~(k <= m)
        <4>1. k - m \in 1 .. n
          BY <1>8, <3>2
        <4> QED
          BY <1>4, <1>9, <3>2, <4>1
      <3> QED
        BY <3>1, <3>2
    <2>2. ASSUME NEW id \in P PROVE \E k \in 1 .. m + n : cancels[k].id = id
      <3>1. PICK i \in 1 .. m : s[i].id = id
        BY <1>4
      <3>2. i \in 1 .. m + n
        BY <1>8
      <3> QED
        BY <1>9, <3>1, <3>2
    <2>3. ASSUME NEW id \in Q PROVE \E k \in 1 .. m + n : cancels[k].id = id
      <3>1. PICK i \in 1 .. n : t[i].id = id
        BY <1>4
      <3>2. m + i \in 1 .. m + n
        BY <1>8
      <3> QED
        BY <1>9, <3>1, <3>2
    <2> QED
      BY <1>9, <2>1, <2>2, <2>3
  <1> QED
    BY <1>6, <1>8, <1>9, <1>10 DEF cancels

\* An uncross reports two events at most for every order that leaves, and one
\* for every order that stays, with the last event counted.
LEMMA UncrossCosts ==
  ASSUME NEW b, BookHolds(b), NEW call \in Calls, NEW policy,
         IndicativeClearing(b, call) # NoClearing
  PROVE LET prepared == PrepareUncross(b, IndicativeClearing(b, call), policy)
            after == CommitUncross(b, prepared) IN
        \E t, c \in Nat :
          /\ Lists(prepared.trades, t) /\ Lists(prepared.cancellations, c)
          /\ Cardinality(DOMAIN after.orders) \in 0 .. Cardinality(DOMAIN b.orders)
          /\ t + c + 1 <= 2 * Cardinality(DOMAIN b.orders) - Cardinality(DOMAIN after.orders)
  <1> DEFINE clearing == IndicativeClearing(b, call)
             prepared == PrepareUncross(b, clearing, policy)
             after == CommitUncross(b, prepared)
             plan == prepared.plan
             trades == prepared.trades
             cancels == prepared.cancellations
             all == DOMAIN b.orders
             filled == Filled(b, "buy", plan) \cup Filled(b, "sell", plan)
             full == {id \in all : plan[id] = b.orders[id].lots}
             cancelled == {cancels[i].id : i \in DOMAIN cancels}
             c == Cardinality(cancelled)
  <1>1. clearing.executable \in Quanta
    BY IndicationIsBest
  <1>2. \A id \in all : plan[id] \in Quanta /\ b.orders[id].side \in Sides
                        /\ b.orders[id].lots \in Quanta \ {0}
    <2>1. ASSUME NEW id \in all
          PROVE plan[id] \in Quanta /\ b.orders[id].side \in Sides /\ b.orders[id].lots \in Quanta \ {0}
      <3> DEFINE side == b.orders[id].side
      <3>1. side \in Sides /\ b.orders[id].lots \in Quanta \ {0} /\ id \in OfSide(b, side)
        BY DEF BookHolds, OrderHolds, OfSide, Active
      <3> HIDE DEF side, clearing, plan
      <3>2. AllocationPlan(b, side, clearing, policy.allocation)[id] \in Quanta
        BY <1>1, <3>1, PlanFits
      <3>3. plan[id] = AllocationPlan(b, side, clearing, policy.allocation)[id]
        BY <3>1, PlanBySide DEF plan
      <3> QED
        BY <3>1, <3>2, <3>3 DEF side
    <2> QED
      BY <2>1
  <1>3. \E id \in all : plan[id] = 0 \/ plan[id] = b.orders[id].lots
    <2> HIDE DEF clearing
    <2> QED
      BY SomebodyWhole DEF clearing
  <1>4. /\ trades = TradePairs(FillsOf(b, "buy", plan), FillsOf(b, "sell", plan))
        /\ cancels = RemainderCancellations(b, plan, policy.remainder)
    BY DEF PrepareUncross, PreparedFrom
  <1>5. DOMAIN after.orders = all \ (full \cup cancelled)
    <2> DEFINE left == [id \in Active(b) \ (full \cup cancelled) |->
                          [b.orders[id] EXCEPT !.lots = b.orders[id].lots - plan[id]]]
    <2>1. after = [b EXCEPT !.orders = left]
      BY DEF CommitUncross, Active
    <2>2. DOMAIN left = all \ (full \cup cancelled)
      BY DEF Active
    <2> HIDE DEF after, left, full, cancelled, all
    <2>3. after.orders = left
      <3>1. b = [orders |-> b.orders, accepted |-> b.accepted]
        BY DEF BookHolds
      <3> QED
        BY <2>1, <3>1
    <2> QED
      BY <2>2, <2>3
  <1> HIDE DEF prepared, after, plan, trades, cancels, clearing
  <1>6. PICK t \in Nat : Lists(trades, t) /\ t <= Cardinality(filled)
    BY <1>2, <1>4, FewTrades
  <1>7. Lists(cancels, c) /\ cancelled \in SUBSET all
        /\ \A id \in cancelled : plan[id] < b.orders[id].lots
    BY <1>4, FewCancellations
  <1>8. /\ IsFiniteSet(all) /\ Cardinality(all) \in Nat
        /\ \A S \in SUBSET all : /\ IsFiniteSet(S) /\ Cardinality(S) \in Nat
                                 /\ Cardinality(S) <= Cardinality(all)
                                 /\ (Cardinality(S) = Cardinality(all) => S = all)
    <2>1. IsFiniteSet(all)
      BY BookFinite
    <2> HIDE DEF all
    <2> QED
      BY <2>1, FS_Subset, FS_CardinalityType
  <1>9. filled \in SUBSET all /\ \A id \in filled : plan[id] > 0
    BY DEF Filled, OfSide, Active
  <1>10. full \in SUBSET all /\ full \cap cancelled = {}
    <2>1. ASSUME NEW id \in full, id \in cancelled PROVE FALSE
      <3>1. plan[id] = b.orders[id].lots /\ plan[id] < b.orders[id].lots /\ b.orders[id].lots \in Nat
        BY <1>2, <1>7, <2>1, QuantaAdd
      <3> QED
        BY <3>1
    <2> QED
      BY <2>1
  <1>11. PICK id \in all : id \notin filled \/ id \in full
    <2>1. PICK id \in all : plan[id] = 0 \/ plan[id] = b.orders[id].lots
      BY <1>3
    <2>2. plan[id] = 0 => id \notin filled
      BY <1>9
    <2> QED
      BY <2>1, <2>2
  <1> HIDE DEF all, filled, full, cancelled
  <1> DEFINE n == Cardinality(all)
             p == Cardinality(filled)
             f == Cardinality(full)
             gone == full \cup cancelled
  <1>12. Cardinality(gone) = f + c /\ gone \in SUBSET all /\ f \in Nat /\ c \in Nat
    <2>1. Cardinality(full \cap cancelled) = 0
      BY <1>10, FS_EmptySet
    <2>2. Cardinality(gone) = f + c - Cardinality(full \cap cancelled)
      BY <1>7, <1>8, <1>10, FS_Union
    <2> QED
      BY <1>7, <1>8, <1>10, <2>1, <2>2
  <1>13. Cardinality(all \ gone) = n - (f + c)
    <2>1. all \cap gone = gone
      BY <1>12
    <2>2. Cardinality(all \ gone) = n - Cardinality(all \cap gone)
      BY <1>8, FS_Difference
    <2> QED
      BY <1>12, <2>1, <2>2
  <1>14. all \ gone \in SUBSET all
    OBVIOUS
  <1>15. p <= n /\ p \in Nat /\ n \in Nat /\ Cardinality(all \ gone) \in Nat
    BY <1>8, <1>9, <1>14
  <1>16. t + 1 <= n + f
    <2>1. CASE id \notin filled
      <3>1. filled # all
        BY <2>1
      <3>2. p # n
        BY <1>8, <1>9, <3>1
      <3> QED
        BY <1>6, <1>12, <1>15, <3>2
    <2>2. CASE id \in full
      <3>1. f # 0
        <4>1. IsFiniteSet(full) /\ full # {}
          BY <1>8, <1>10, <2>2
        <4> QED
          BY <4>1, FS_EmptySet
      <3> QED
        BY <1>6, <1>12, <1>15, <3>1
    <2> QED
      BY <1>11, <2>1, <2>2
  <1> DEFINE r == Cardinality(all \ gone)
  <1>17. r = n - (f + c) /\ r \in Nat
    BY <1>13, <1>15
  <1> HIDE DEF r, n, f, p, c
  <1>18. r \in 0 .. n /\ t + c + 1 <= 2 * n - r
    BY <1>12, <1>15, <1>16, <1>17
  <1>19. Cardinality(DOMAIN after.orders) = r
    BY <1>5 DEF r, gone
  <1> QED
    BY <1>6, <1>7, <1>12, <1>18, <1>19 DEF all, n, trades, cancels, after, prepared, clearing

----------------------------------------------------------------------------
(* The engine keeps its reserve *)

Open(b) == Cardinality(Active(b))

\* What the histories and the book are bounded by.
EngineBounds ==
    /\ BookHolds(book)
    /\ phase \in {"closed", "collecting", "frozen"}
    /\ commands \in 0 .. MaxCommands /\ events \in 0 .. MaxEvents
    /\ Open(book) \in 0 .. MaxOrders

HistoryGrows(n) ==
    /\ commands' = commands + 1 /\ events' = events + n
    /\ commands' \in 0 .. MaxCommands /\ events' \in 0 .. MaxEvents

ReserveStays ==
    MaxCommands - commands' >= MaxOrders + 2 /\ MaxEvents - events' >= 2 * MaxOrders + 2

\* A retained command takes one place, and one for each event.
LEMMA RetainGrows ==
  ASSUME EngineBounds, NEW terminal, NEW reported, NEW n \in Nat, Len(reported) = n,
         Retain(terminal, reported)
  PROVE HistoryGrows(n)
  <1>1. commands \in 0 .. MaxCommands /\ events \in 0 .. MaxEvents
    BY DEF EngineBounds
  <1>2. /\ commands < MaxCommands /\ events + n <= MaxEvents
        /\ commands' = commands + 1 /\ events' = events + n
    BY DEF Retain, HistoryHasRoom
  <1> QED
    BY <1>1, <1>2, AuctionEngineAssumption DEF HistoryGrows

\* A command that is not terminal leaves the reserve.
LEMMA OrdinaryLeaves ==
  ASSUME EngineBounds, NEW reported, NEW n \in Nat, Len(reported) = n, Ordinary(reported)
  PROVE HistoryGrows(n) /\ ReserveStays
  <1>1. Retain(FALSE, reported)
    BY DEF Ordinary
  <1>2. /\ commands < MaxCommands - TerminalCommands
        /\ events + n <= MaxEvents - TerminalEvents
        /\ commands' = commands + 1 /\ events' = events + n
        /\ commands < MaxCommands /\ events + n <= MaxEvents
    BY <1>1 DEF Retain, HistoryHasRoom
  <1>3. commands \in 0 .. MaxCommands /\ events \in 0 .. MaxEvents
    BY DEF EngineBounds
  <1>4. /\ MaxOrders \in Nat /\ MaxCommands \in Nat /\ TerminalCommands \in Nat /\ MaxEvents \in Nat
        /\ TerminalCommands >= MaxOrders + 2 /\ TerminalEvents = 2 * MaxOrders + 2
    BY AuctionEngineAssumption, AuctionBookAssumption DEF TerminalEvents
  <1> QED
    BY <1>2, <1>3, <1>4 DEF HistoryGrows, ReserveStays

\* What the reserve sees of a command of each kind.
ReserveStep ==
    \/ /\ phase' \in {"closed", "collecting", "frozen"}
       /\ Open(book') \in 0 .. MaxOrders
       /\ \E n \in Nat : HistoryGrows(n)
       /\ ReserveStays
    \/ /\ phase' = phase
       /\ Open(book') \in 0 .. Open(book) - 1
       /\ \E n \in 1 .. 2 * (Open(book) - Open(book')) : HistoryGrows(n)
    \/ /\ \/ phase = "collecting" /\ phase' \in {"frozen", "closed"}
          \/ phase = "frozen" /\ phase' = "closed"
       /\ book' = book
       /\ HistoryGrows(1)
    \/ /\ phase = "frozen" /\ phase' = "closed"
       /\ Open(book') \in 0 .. Open(book)
       /\ \E n \in 1 .. 2 * Open(book) - Open(book') : HistoryGrows(n)

\* The orders that are open are counted.
LEMMA OpenOrders ==
  ASSUME NEW b, BookHolds(b)
  PROVE IsFiniteSet(Active(b)) /\ Open(b) \in Nat
  <1>1. IsFiniteSet(Active(b))
    BY BookFinite DEF Active
  <1> QED
    BY <1>1, FS_CardinalityType DEF Open

\* An ordinary command with so many events.
LEMMA OrdinaryWorks ==
  ASSUME EngineBounds, NEW reported, Len(reported) \in Nat, Ordinary(reported),
         phase' \in {"closed", "collecting", "frozen"}, Open(book') \in 0 .. MaxOrders
  PROVE ReserveStep
  <1>1. HistoryGrows(Len(reported)) /\ ReserveStays
    BY OrdinaryLeaves
  <1>2. \E n \in Nat : HistoryGrows(n)
    BY <1>1
  <1> QED
    BY <1>1, <1>2 DEF ReserveStep

\* A command that is refused leaves the reserve.
LEMMA RejectWorks ==
  ASSUME EngineBounds, Reject
  PROVE ReserveStep
  <1> DEFINE reported == <<[kind |-> "rejected"]>>
  <1>1. Ordinary(reported) /\ phase' = phase /\ book' = book
    BY DEF Reject
  <1>2. Len(reported) = 1 /\ Len(reported) \in Nat
    OBVIOUS
  <1> HIDE DEF reported
  <1>3. phase' \in {"closed", "collecting", "frozen"} /\ Open(book') \in 0 .. MaxOrders
    BY <1>1 DEF EngineBounds
  <1> QED
    BY <1>1, <1>2, <1>3, OrdinaryWorks

\* A phase that is opened leaves the reserve; one that ends an auction takes one place.
LEMMA PhaseWorks ==
  ASSUME EngineBounds, NEW target \in {"collecting", "frozen", "closed"}, PhaseControl(target)
  PROVE ReserveStep
  <1> DEFINE reported == <<[kind |-> "phaseChanged", previous |-> phase, phase |-> target,
                            auction |-> auctions']>>
  <1>1. /\ target \in PhasesAfter(phase) /\ phase' = target /\ book' = book
        /\ Retain(OpensOrCloses(target), reported)
    BY DEF PhaseControl
  <1>2. Len(reported) = 1 /\ Len(reported) \in Nat
    OBVIOUS
  <1> HIDE DEF reported
  <1>3. phase \in {"closed", "collecting", "frozen"} /\ Open(book') \in 0 .. MaxOrders
    BY <1>1 DEF EngineBounds
  <1>4. CASE target = "collecting"
    <2>1. Ordinary(reported)
      <3>1. OpensOrCloses(target) = FALSE
        BY <1>4 DEF OpensOrCloses
      <3> QED
        BY <1>1, <3>1 DEF Ordinary
    <2>2. phase' \in {"closed", "collecting", "frozen"}
      BY <1>1, <1>4
    <2> QED
      BY <1>2, <1>3, <2>1, <2>2, OrdinaryWorks
  <1>5. CASE target \in {"frozen", "closed"}
    <2>1. \/ phase = "collecting" /\ target \in {"frozen", "closed"}
          \/ phase = "frozen" /\ target = "closed"
      <3>1. CASE phase = "closed"
        BY <1>1, <1>5, <3>1 DEF PhasesAfter
      <3>2. CASE phase = "collecting"
        BY <1>5, <3>2
      <3>3. CASE phase = "frozen"
        BY <1>1, <1>5, <3>3 DEF PhasesAfter
      <3> QED
        BY <1>3, <3>1, <3>2, <3>3
    <2>2. HistoryGrows(1)
      <3>1. Retain(TRUE, reported)
        <4>1. OpensOrCloses(target) = TRUE
          BY <1>5 DEF OpensOrCloses
        <4> QED
          BY <1>1, <4>1
      <3> QED
        BY <1>2, <3>1, RetainGrows
    <2> QED
      BY <1>1, <2>1, <2>2 DEF ReserveStep
  <1> QED
    BY <1>4, <1>5

\* One more order is open.
LEMMA OneMoreOpen ==
  ASSUME NEW b, BookHolds(b), NEW offer, b.accepted \in Nat
  PROVE Active(Admit(b, offer)) = Active(b) \cup {b.accepted + 1}
        /\ Open(Admit(b, offer)) = Open(b) + 1
  <1> DEFINE id == b.accepted + 1
             after == Admit(b, offer)
  <1>1. Active(after) = Active(b) \cup {id}
    BY DEF Admit, Active, Arriving
  <1> HIDE DEF after
  <1>2. id \notin Active(b)
    BY DEF BookHolds, Active
  <1> HIDE DEF id
  <1>3. IsFiniteSet(Active(b))
    BY OpenOrders
  <1>4. Cardinality(Active(b) \cup {id}) = Cardinality(Active(b)) + 1
    BY <1>2, <1>3, FS_AddElement
  <1> QED
    BY <1>1, <1>4 DEF Open, after, id

\* An order that arrives is one more, and leaves the reserve.
LEMMA SubmitWorks ==
  ASSUME EngineBounds, NEW offer \in Offers, Submit(offer)
  PROVE ReserveStep
  <1> DEFINE reported == <<[kind |-> "accepted", order |-> Arriving(book, offer)]>>
  <1>1. /\ Ordinary(reported) /\ phase' = phase /\ book' = Admit(book, offer)
        /\ Open(book) < MaxOrders
    BY DEF Submit, CanSubmit, CanAdmit, Open
  <1>2. Len(reported) = 1 /\ Len(reported) \in Nat
    OBVIOUS
  <1> HIDE DEF reported
  <1>3. BookHolds(book) /\ book.accepted \in Nat /\ Open(book) \in 0 .. MaxOrders
    BY DEF EngineBounds, BookHolds
  <1>4. Open(book') = Open(book) + 1
    BY <1>1, <1>3, OneMoreOpen
  <1>5. phase' \in {"closed", "collecting", "frozen"} /\ Open(book') \in 0 .. MaxOrders
    BY <1>1, <1>3, <1>4, AuctionBookAssumption DEF EngineBounds
  <1> QED
    BY <1>1, <1>2, <1>5, OrdinaryWorks

\* An amended order is still open.
LEMMA AmendWorks ==
  ASSUME EngineBounds, NEW id \in Active(book), NEW lots, AmendOrder(id, lots)
  PROVE ReserveStep
  <1> DEFINE reported == <<[kind |-> "amended", order |-> book'.orders[id],
                            previous |-> book.orders[id].lots]>>
  <1>1. Ordinary(reported) /\ phase' = phase /\ book' = Amend(book, id, lots)
    BY DEF AmendOrder
  <1>2. Len(reported) = 1 /\ Len(reported) \in Nat
    OBVIOUS
  <1> HIDE DEF reported
  <1>3. Active(book') = Active(book)
    <2>1. book = [orders |-> book.orders, accepted |-> book.accepted]
      BY DEF EngineBounds, BookHolds
    <2>2. DOMAIN Amend(book, id, lots).orders = DOMAIN book.orders
      BY <2>1 DEF Amend
    <2> QED
      BY <1>1, <2>2 DEF Active
  <1>4. Open(book') = Open(book)
    BY <1>3 DEF Open
  <1>5. phase' \in {"closed", "collecting", "frozen"} /\ Open(book') \in 0 .. MaxOrders
    BY <1>1, <1>4 DEF EngineBounds
  <1> QED
    BY <1>1, <1>2, <1>5, OrdinaryWorks

\* An indication leaves the reserve.
LEMMA IndicateWorks ==
  ASSUME EngineBounds, NEW call, Indicate(call)
  PROVE ReserveStep
  <1> DEFINE reported == <<[kind |-> "indicativePublished", state |-> indicative'[1]]>>
  <1>1. Ordinary(reported) /\ phase' = phase /\ book' = book
    BY DEF Indicate
  <1>2. Len(reported) = 1 /\ Len(reported) \in Nat
    OBVIOUS
  <1> HIDE DEF reported
  <1>3. phase' \in {"closed", "collecting", "frozen"} /\ Open(book') \in 0 .. MaxOrders
    BY <1>1 DEF EngineBounds
  <1> QED
    BY <1>1, <1>2, <1>3, OrdinaryWorks

\* The orders that leave are no longer open.
LEMMA FewerOpen ==
  ASSUME NEW b, BookHolds(b), NEW ids \in SUBSET Active(b)
  PROVE /\ Open(CancelAll(b, ids)) = Open(b) - Cardinality(ids)
        /\ Open(b) \in Nat /\ Cardinality(ids) \in 0 .. Open(b)
        /\ (ids # {} => Cardinality(ids) # 0) /\ IsFiniteSet(ids)
        /\ Open(CancelAll(b, ids)) \in Nat
  <1> DEFINE all == Active(b)
             after == CancelAll(b, ids)
  <1>1. Active(after) = all \ ids
    BY CancelHolds DEF Active
  <1> HIDE DEF after
  <1>2. IsFiniteSet(all) /\ Cardinality(all) \in Nat
    BY OpenOrders DEF Open
  <1> HIDE DEF all
  <1>3. ids \in SUBSET all
    BY DEF all
  <1>4. IsFiniteSet(ids) /\ Cardinality(ids) \in Nat /\ Cardinality(ids) <= Cardinality(all)
    BY <1>2, <1>3, FS_Subset, FS_CardinalityType
  <1>5. Cardinality(all \ ids) = Cardinality(all) - Cardinality(ids)
    <2>1. all \cap ids = ids
      BY <1>3
    <2>2. Cardinality(all \ ids) = Cardinality(all) - Cardinality(all \cap ids)
      BY <1>2, FS_Difference
    <2> QED
      BY <2>1, <2>2
  <1>6. ids # {} => Cardinality(ids) # 0
    BY <1>4, FS_EmptySet
  <1>7. Open(after) = Cardinality(all \ ids) /\ Open(b) = Cardinality(all)
    BY <1>1 DEF Open, all
  <1> QED
    BY <1>2, <1>4, <1>5, <1>6, <1>7 DEF after

\* A replacement takes the place of its target, and leaves the reserve.
LEMMA ReplaceWorks ==
  ASSUME EngineBounds, NEW id \in Active(book), NEW offer, ReplaceOrder(id, offer)
  PROVE ReserveStep
  <1> DEFINE reported == <<CancelEvent(id, "replaced"),
                           [kind |-> "accepted", order |-> Arriving(book, offer)]>>
             left == CancelAll(book, {id})
  <1>1. Ordinary(reported) /\ phase' = phase /\ book' = Admit(left, offer)
    BY DEF ReplaceOrder, Replace
  <1>2. Len(reported) = 2 /\ Len(reported) \in Nat
    OBVIOUS
  <1> HIDE DEF reported
  <1>3. BookHolds(book) /\ {id} \in SUBSET Active(book) /\ Open(book) \in 0 .. MaxOrders
    BY DEF EngineBounds
  <1>4. Cardinality({id}) = 1
    BY FS_Singleton
  <1>5. Open(left) = Open(book) - 1 /\ 1 \in 0 .. Open(book)
    BY <1>3, <1>4, FewerOpen
  <1>6. BookHolds(left) /\ left.accepted \in Nat
    BY <1>3, CancelHolds DEF BookHolds
  <1> HIDE DEF left
  <1>7. Open(book') = Open(left) + 1
    BY <1>1, <1>6, OneMoreOpen
  <1>8. phase' \in {"closed", "collecting", "frozen"} /\ Open(book') \in 0 .. MaxOrders
    BY <1>1, <1>3, <1>5, <1>7 DEF EngineBounds
  <1> QED
    BY <1>1, <1>2, <1>8, OrdinaryWorks

\* A cancel is one event for an order.
LEMMA CancelWithdraws ==
  ASSUME EngineBounds, NEW id \in Active(book), Cancel(id)
  PROVE ReserveStep
  <1> DEFINE reported == <<CancelEvent(id, "userCancelled")>>
  <1>1. Retain(TRUE, reported) /\ phase' = phase /\ book' = CancelAll(book, {id})
    BY DEF Cancel, Terminal
  <1>2. Len(reported) = 1
    OBVIOUS
  <1> HIDE DEF reported
  <1>3. BookHolds(book) /\ {id} \in SUBSET Active(book)
    BY DEF EngineBounds
  <1>4. Cardinality({id}) = 1
    BY FS_Singleton
  <1>5. /\ Open(book') = Open(book) - 1 /\ 1 \in 0 .. Open(book)
        /\ Open(book) \in Nat /\ Open(book') \in Nat
    BY <1>1, <1>3, <1>4, FewerOpen
  <1>6. HistoryGrows(1)
    BY <1>1, <1>2, RetainGrows
  <1>7. 1 \in 1 .. 2 * (Open(book) - Open(book')) /\ Open(book') \in 0 .. Open(book) - 1
    BY <1>5
  <1>8. \E n \in 1 .. 2 * (Open(book) - Open(book')) : HistoryGrows(n)
    BY <1>6, <1>7
  <1> QED
    BY <1>1, <1>7, <1>8 DEF ReserveStep

\* A list with one more event.
LEMMA OneMoreEvent ==
  ASSUME NEW s, NEW n, Lists(s, n), NEW event
  PROVE Len(Append(s, event)) = n + 1
  <1> DEFINE S == {s[k] : k \in 1 .. n}
  <1>1. s \in Seq(S) /\ Len(s) = n
    BY ListIsSequence
  <1> HIDE DEF S
  <1>2. s \in Seq(S \cup {event}) /\ event \in S \cup {event}
    BY <1>1
  <1> QED
    BY <1>1, <1>2

\* A mass cancel is one event for every order and one more; an empty one leaves the reserve.
LEMMA MassCancelWithdraws ==
  ASSUME EngineBounds, NEW account, NEW sides, MassCancel(account, sides)
  PROVE ReserveStep
  <1> DEFINE ids == OfAccount(book, account, sides)
             selected == Ascending(ids)
             n == Cardinality(ids)
             cancels == [i \in DOMAIN selected |-> CancelEvent(selected[i], "massCancelled")]
             completed == [kind |-> "massCancelCompleted", account |-> account, sides |-> sides,
                           count |-> Len(selected),
                           lots |-> LotsOf([i \in DOMAIN selected |-> book.orders[selected[i]]])]
             reported == Append(cancels, completed)
  <1>1. /\ Retain(selected # <<>>, reported) /\ phase' = phase
        /\ book' = CancelAll(book, ids)
    BY DEF MassCancel
  <1>2. BookHolds(book) /\ ids \in SUBSET Active(book) /\ Active(book) \in SUBSET Int
    <2>1. ids \in SUBSET Active(book)
      BY DEF OfAccount
    <2>2. Active(book) \in SUBSET Int
      BY DEF EngineBounds, BookHolds, Active
    <2> QED
      BY <2>1, <2>2 DEF EngineBounds
  <1> HIDE DEF ids
  <1>3. /\ Open(book') = Open(book) - n
        /\ Open(book) \in Nat /\ n \in 0 .. Open(book) /\ Open(book') \in Nat
        /\ IsFiniteSet(ids) /\ n \in Nat
    BY <1>1, <1>2, FewerOpen
  <1>4. selected \in Seq(ids) /\ Len(selected) = n /\ DOMAIN selected = 1 .. n
    <2>1. ids \in SUBSET Int
      BY <1>2
    <2>2. selected \in Seq(ids) /\ Len(selected) = n
      BY <1>3, <2>1, AscendingEnumerates
    <2> QED
      BY <2>2
  <1> HIDE DEF selected, n, completed
  <1>5. Lists(cancels, n)
    BY <1>3, <1>4 DEF Lists
  <1> HIDE DEF cancels
  <1>6. Len(reported) = n + 1 /\ n + 1 \in Nat
    BY <1>3, <1>5, OneMoreEvent
  <1> HIDE DEF reported
  <1>7. CASE selected # <<>>
    <2>1. n # 0
      BY <1>4, <1>7
    <2>2. Retain(TRUE, reported)
      <3>1. (selected # <<>>) = TRUE
        BY <1>7
      <3> QED
        BY <1>1, <3>1
    <2>3. HistoryGrows(n + 1)
      BY <1>6, <2>2, RetainGrows
    <2>4. n + 1 \in 1 .. 2 * (Open(book) - Open(book')) /\ Open(book') \in 0 .. Open(book) - 1
      BY <1>3, <2>1
    <2>5. \E k \in 1 .. 2 * (Open(book) - Open(book')) : HistoryGrows(k)
      BY <2>3, <2>4
    <2> QED
      BY <1>1, <2>4, <2>5 DEF ReserveStep
  <1>8. CASE selected = <<>>
    <2>1. n = 0
      BY <1>4, <1>8
    <2>2. Ordinary(reported)
      <3>1. (selected # <<>>) = FALSE
        BY <1>8
      <3> QED
        BY <1>1, <3>1 DEF Ordinary
    <2>3. phase' \in {"closed", "collecting", "frozen"} /\ Open(book') \in 0 .. MaxOrders
          /\ Len(reported) \in Nat
      BY <1>1, <1>3, <1>6, <2>1 DEF EngineBounds
    <2> QED
      BY <2>2, <2>3, OrdinaryWorks
  <1> QED
    BY <1>7, <1>8

\* The trades, the cancellations and the completion together.
LEMMA EventsTogether ==
  ASSUME NEW s, NEW t, NEW m \in Nat, NEW n \in Nat, Lists(s, m), Lists(t, n), NEW event
  PROVE Len(s \o t \o <<event>>) = m + n + 1
  <1> DEFINE S == {s[k] : k \in 1 .. m} \cup {t[k] : k \in 1 .. n} \cup {event}
  <1>1. Len(s) = m /\ Len(t) = n
    BY ListIsSequence
  <1>2. s \in Seq(S) /\ t \in Seq(S)
    <2>1. (\A k \in 1 .. m : s[k] \in S) /\ (\A k \in 1 .. n : t[k] \in S)
      OBVIOUS
    <2> HIDE DEF S
    <2> QED
      BY <2>1, ListIsSequence
  <1>3. <<event>> \in Seq(S) /\ Len(<<event>>) = 1
    <2>1. event \in S
      OBVIOUS
    <2> HIDE DEF S
    <2> QED
      BY <2>1
  <1> HIDE DEF S
  <1>4. s \o t \in Seq(S) /\ Len(s \o t) = m + n
    BY <1>1, <1>2, ConcatProperties
  <1> DEFINE first == s \o t
  <1>5. first \in Seq(S) /\ Len(first) = m + n
    BY <1>4
  <1> HIDE DEF first
  <1>6. Len(first \o <<event>>) = Len(first) + 1
    BY <1>3, <1>5, ConcatProperties
  <1> QED
    BY <1>5, <1>6 DEF first

\* An uncross is what UncrossCosts allows.
LEMMA UncrossWorks ==
  ASSUME EngineBounds, NEW call \in Calls, NEW policy, Uncross(call, policy)
  PROVE ReserveStep
  <1> DEFINE clearing == IndicativeClearing(book, call)
             prepared == PrepareUncross(book, clearing, policy)
             trades == TradeEvents(prepared.trades, clearing.price)
             cancels == RemainderEvents(prepared.cancellations)
             completed == CompletionEvent(call, policy, clearing, prepared)
             reported == trades \o cancels \o <<completed>>
  <1>1. /\ phase = "frozen" /\ phase' = "closed" /\ clearing # NoClearing
        /\ Retain(TRUE, reported) /\ book' = CommitUncross(book, prepared)
    BY DEF Uncross, CommitPrepared, Terminal
  <1>2. BookHolds(book)
    BY DEF EngineBounds
  <1>3. PICK t, c \in Nat :
          /\ Lists(prepared.trades, t) /\ Lists(prepared.cancellations, c)
          /\ Cardinality(DOMAIN book'.orders) \in 0 .. Cardinality(DOMAIN book.orders)
          /\ t + c + 1 <= 2 * Cardinality(DOMAIN book.orders) - Cardinality(DOMAIN book'.orders)
    BY <1>1, <1>2, UncrossCosts
  <1>4. /\ Open(book') \in 0 .. Open(book) /\ Open(book) \in Nat
        /\ t + c + 1 <= 2 * Open(book) - Open(book')
    BY <1>2, <1>3, OpenOrders DEF Open, Active
  <1>5. Lists(trades, t) /\ Lists(cancels, c)
    <2>1. DOMAIN prepared.trades = 1 .. t /\ DOMAIN prepared.cancellations = 1 .. c
      BY <1>3, ListIsSequence
    <2> HIDE DEF prepared, clearing
    <2> QED
      BY <2>1 DEF Lists, TradeEvents, RemainderEvents
  <1> HIDE DEF trades, cancels, completed, prepared, clearing
  <1>6. Len(reported) = t + c + 1 /\ t + c + 1 \in Nat
    BY <1>5, EventsTogether
  <1> HIDE DEF reported
  <1>7. HistoryGrows(t + c + 1)
    BY <1>1, <1>6, RetainGrows
  <1>8. t + c + 1 \in 1 .. 2 * Open(book) - Open(book')
    BY <1>4
  <1>9. \E n \in 1 .. 2 * Open(book) - Open(book') : HistoryGrows(n)
    BY <1>7, <1>8
  <1> QED
    BY <1>1, <1>4, <1>9 DEF ReserveStep

\* Every command is one the reserve knows.
LEMMA EngineReserves ==
  ASSUME EngineBounds, Next
  PROVE ReserveStep
  <1>1. ASSUME NEW target \in {"collecting", "frozen", "closed"}, PhaseControl(target)
        PROVE ReserveStep
    BY <1>1, PhaseWorks
  <1>2. ASSUME NEW offer \in Offers, Submit(offer) PROVE ReserveStep
    BY <1>2, SubmitWorks
  <1>3. ASSUME NEW id \in Active(book), Cancel(id) PROVE ReserveStep
    BY <1>3, CancelWithdraws
  <1>4. ASSUME NEW account, NEW sides, MassCancel(account, sides) PROVE ReserveStep
    BY <1>4, MassCancelWithdraws
  <1>5. ASSUME NEW id \in Active(book), NEW offer \in Offers,
               AmendOrder(id, offer.lots) \/ ReplaceOrder(id, offer)
        PROVE ReserveStep
    BY <1>5, AmendWorks, ReplaceWorks
  <1>6. ASSUME NEW call \in Calls, Indicate(call) PROVE ReserveStep
    BY <1>6, IndicateWorks
  <1>7. ASSUME NEW call \in Calls, NEW policy, Uncross(call, policy) PROVE ReserveStep
    BY <1>7, UncrossWorks
  <1>8. CASE Reject
    BY <1>8, RejectWorks
  <1> QED
    BY <1>1, <1>2, <1>3, <1>4, <1>5, <1>6, <1>7, <1>8 DEF Next

\* A step of the engine, seen by the reserve, is one of its actions.
LEMMA StepReserves ==
  ASSUME EngineBounds, BookHolds(book'), ReserveStep
  PROVE EngineBounds' /\ Reserve!Next
  <1> DEFINE p == phase'
             k == Open(book)
             k1 == Open(book')
             c == commands
             c1 == commands'
             e == events
             e1 == events'
  <1>1. /\ phase \in {"closed", "collecting", "frozen"}
        /\ c \in 0 .. MaxCommands /\ e \in 0 .. MaxEvents /\ k \in 0 .. MaxOrders
        /\ MaxOrders \in Nat /\ MaxCommands \in Nat /\ MaxEvents \in Nat
    BY AuctionEngineAssumption, AuctionBookAssumption DEF EngineBounds
  <1>2. k1 \in Nat
    BY OpenOrders
  <1>3. ASSUME /\ p \in {"closed", "collecting", "frozen"} /\ k1 \in 0 .. MaxOrders
               /\ \E n \in Nat : HistoryGrows(n)
               /\ ReserveStays
        PROVE EngineBounds' /\ Reserve!Work
    <2>1. PICK n \in Nat : HistoryGrows(n)
      BY <1>3
    <2>2. /\ c1 = c + 1 /\ e1 = e + n /\ c1 \in 0 .. MaxCommands /\ e1 \in 0 .. MaxEvents
          /\ MaxCommands - c1 >= MaxOrders + 2 /\ MaxEvents - e1 >= 2 * MaxOrders + 2
      BY <1>3, <2>1 DEF HistoryGrows, ReserveStays
    <2>3. MaxCommands - c1 = (MaxCommands - c) - 1 /\ MaxEvents - e1 \in 0 .. MaxEvents - e
      BY <1>1, <2>2
    <2> QED
      BY <1>3, <2>2, <2>3 DEF EngineBounds, Open, Reserve!Work, Reserve!Phases, Reserve!FullReserve
  <1>4. ASSUME /\ p = phase /\ k1 \in 0 .. k - 1
               /\ \E n \in 1 .. 2 * (k - k1) : HistoryGrows(n)
        PROVE EngineBounds' /\ Reserve!Withdraw
    <2>1. PICK n \in 1 .. 2 * (k - k1) : HistoryGrows(n)
      BY <1>4
    <2>2. c1 = c + 1 /\ e1 = e + n /\ c1 \in 0 .. MaxCommands /\ e1 \in 0 .. MaxEvents
      BY <2>1 DEF HistoryGrows
    <2>3. /\ MaxCommands - c1 = (MaxCommands - c) - 1 /\ MaxEvents - e1 \in Nat
          /\ (MaxEvents - e) - (MaxEvents - e1) \in 1 .. 2 * (k - k1)
          /\ k1 \in 0 .. MaxOrders
      BY <1>1, <1>2, <1>4, <2>2
    <2> QED
      BY <1>1, <1>4, <2>2, <2>3 DEF EngineBounds, Open, Reserve!Withdraw
  <1>5. ASSUME /\ \/ phase = "collecting" /\ p \in {"frozen", "closed"}
                  \/ phase = "frozen" /\ p = "closed"
               /\ book' = book /\ HistoryGrows(1)
        PROVE EngineBounds' /\ Reserve!WindDown
    <2>1. c1 = c + 1 /\ e1 = e + 1 /\ c1 \in 0 .. MaxCommands /\ e1 \in 0 .. MaxEvents
      BY <1>5 DEF HistoryGrows
    <2>2. /\ MaxCommands - c1 = (MaxCommands - c) - 1 /\ MaxEvents - e1 = (MaxEvents - e) - 1
      BY <1>1, <2>1
    <2>3. k1 = k
      BY <1>5
    <2> QED
      BY <1>1, <1>5, <2>1, <2>2, <2>3 DEF EngineBounds, Open, Reserve!WindDown
  <1>6. ASSUME /\ phase = "frozen" /\ p = "closed" /\ k1 \in 0 .. k
               /\ \E n \in 1 .. 2 * k - k1 : HistoryGrows(n)
        PROVE EngineBounds' /\ Reserve!Uncross
    <2>1. PICK n \in 1 .. 2 * k - k1 : HistoryGrows(n)
      BY <1>6
    <2>2. c1 = c + 1 /\ e1 = e + n /\ c1 \in 0 .. MaxCommands /\ e1 \in 0 .. MaxEvents
      BY <2>1 DEF HistoryGrows
    <2>3. /\ MaxCommands - c1 = (MaxCommands - c) - 1 /\ MaxEvents - e1 \in Nat
          /\ (MaxEvents - e) - (MaxEvents - e1) \in 1 .. 2 * k - k1
          /\ k1 \in 0 .. MaxOrders
      BY <1>1, <1>2, <1>6, <2>2
    <2> QED
      BY <1>1, <1>6, <2>2, <2>3 DEF EngineBounds, Open, Reserve!Uncross
  <1> QED
    BY <1>3, <1>4, <1>5, <1>6 DEF ReserveStep, Reserve!Next

\* The empty histories have their whole reserve.
LEMMA BoundsAtInit ==
  ASSUME Init
  PROVE EngineBounds /\ Reserve!Init
  <1>1. BookHolds(book) /\ phase = "closed" /\ commands = 0 /\ events = 0
    BY EngineStarts DEF Init, EngineInvariant
  <1>2. Open(book) = 0
    <2>1. Active(book) = {}
      BY DEF Init, EmptyBook, Active
    <2> QED
      BY <2>1, FS_EmptySet DEF Open
  <1>3. /\ MaxOrders \in Nat /\ MaxCommands \in Nat /\ MaxEvents \in Nat
        /\ MaxCommands - 0 >= MaxOrders + 2 /\ MaxEvents - 0 >= 2 * MaxOrders + 2
        /\ MaxCommands - 0 \in Nat /\ MaxEvents - 0 \in Nat
    BY AuctionEngineAssumption, AuctionBookAssumption DEF TerminalEvents
  <1> QED
    BY <1>1, <1>2, <1>3 DEF EngineBounds, Open, Reserve!Init, Reserve!FullReserve

\* The engine implements its reserve: whatever is ordered, and however the
\* auctions go on, a command takes no more of the two histories than its kind
\* may, so an uncross is never larger than two events for every order that
\* leaves and one for every order that stays.
THEOREM EngineImplementsReserve == Spec => ImplementsReserve
  <1>1. Init => EngineBounds /\ Reserve!Init
    BY BoundsAtInit
  <1>2. ASSUME EngineInvariant, EngineBounds, [Next]_vars
        PROVE EngineBounds' /\ [Reserve!Next]_(Reserve!vars)
    <2>1. CASE Next
      <3>1. BookHolds(book')
        BY <1>2, EngineSteps DEF EngineInvariant
      <3>2. ReserveStep
        BY <1>2, <2>1, EngineReserves
      <3> QED
        BY <1>2, <3>1, <3>2, StepReserves
    <2>2. CASE UNCHANGED vars
      BY <1>2, <2>2 DEF vars, EngineBounds, Reserve!vars
    <2> QED
      BY <1>2, <2>1, <2>2
  <1> QED
    BY <1>1, <1>2, EngineAlwaysHolds, PTL DEF Spec, ImplementsReserve, Reserve!Spec

\* The engine always has room to wind its auction down.
THEOREM EngineCanWindDown == Spec => []Reserve!CanWindDown
  <1>1. MaxOrders \in Nat
    BY AuctionBookAssumption
  <1>2. Reserve!Spec => []Reserve!CanWindDown
    BY <1>1, Reserve!ReserveSuffices
  <1> QED
    BY <1>2, EngineImplementsReserve, PTL DEF ImplementsReserve

=============================================================================
