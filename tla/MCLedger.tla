------------------------------ MODULE MCLedger ------------------------------
(* The records, capacities and configurations of the instances. *)
EXTENDS Shards

a == <<"a", "x">>
b == <<"b", "x">>
c == <<"c", "x">>

Standard(id, date, at, postings) ==
    [id |-> id, kind |-> "standard", date |-> date, at |-> at, postings |-> postings]
Reversal(id, date, at, target, postings) ==
    [id |-> id, kind |-> "reversal", date |-> date, at |-> at, target |-> target,
     postings |-> postings]
PeriodClose(id, at, through) ==
    [id |-> id, kind |-> "close", date |-> 0, at |-> at, through |-> through, postings |-> <<>>]
PeriodReopen(id, at, through) ==
    [id |-> id, kind |-> "reopen", date |-> 0, at |-> at, through |-> through, postings |-> <<>>]

Entry(e) == [form |-> "entry", entries |-> <<e>>]
Correction(r, e) == [form |-> "correction", entries |-> <<r, e>>]
Batch(s) == [form |-> "batch", entries |-> s]

Up == (a :> 2) @@ (b :> -2)
Down == (a :> -2) @@ (b :> 2)
Least == (a :> -4) @@ (b :> 2) @@ (c :> 2)
Deep == (a :> -3) @@ (b :> 3)

s1 == Standard(1, 1, 1, Up)
s2 == Standard(2, 1, 1, Up)
s3 == Standard(3, 2, 2, Down)
s4 == Standard(4, 2, 1, Least)
s5 == Standard(5, 1, 2, Deep)
r1 == Reversal(6, 1, 1, 1, Down)
r1b == Reversal(7, 2, 2, 1, Down)
r3 == Reversal(8, 2, 2, 3, Up)
c1 == PeriodClose(9, 1, 1)
c2 == PeriodClose(10, 2, 2)
o1 == PeriodReopen(11, 2, 0)

Menu ==
    {Entry(e) : e \in {s1, s2, s3, s4, s5, r1, r1b, r3, c1, c2, o1}} \cup
    {Correction(r1, s2), Correction(r1b, s3), Correction(r3, s5), Correction(r1b, s5)} \cup
    {Batch(<<s1, s2>>), Batch(<<s1, r1>>), Batch(<<s2, s4>>), Batch(<<s1, s2, s5>>), Batch(<<o1, s5, c2>>),
     Batch(<<c1, s3>>), Batch(<<s3, r3>>), Batch(<<r1, s2>>)}

DurableMenu == {Entry(s1), Entry(c1), Correction(r1, s2), Batch(<<s3, r3>>)}

SmallLimits ==
    [transactions |-> 6, records |-> 4, reversals |-> 1, balanceKeys |-> 2, postings |-> 8,
     postingsPerTransaction |-> 3, transactionsPerRecord |-> 3]

----------------------------------------------------------------------------

p == [account |-> 1, limit |-> "narrow"]
q == [account |-> 2, limit |-> "narrow"]
wide == [account |-> 1, limit |-> "wide"]

Configured(definition, profiles) == [definition |-> definition, profiles |-> profiles]
Profiled == {Configured("d", <<p>>), Configured("d", <<q, p>>), Configured("d", <<wide>>)}
OpenedWith ==
    [x \in Products |-> IF x = "auction" THEN {Configured("d", <<>>), Configured("e", <<>>)}
                        ELSE Profiled]

\* The shards of DurableShard do not tell their commands apart.
Symmetry == Permutations(ShardCommands)

=============================================================================
