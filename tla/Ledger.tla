------------------------------- MODULE Ledger -------------------------------
(***************************************************************************)
(* The double-entry ledger (src/src/ledger.rs): entries with balanced      *)
(* postings, reversals, corrections and batches of them, and accounting    *)
(* periods that close and reopen.  A caller first prepares a record, which *)
(* changes nothing, and commits the preparation later; other records may   *)
(* be committed in between.                                                *)
(*                                                                         *)
(* Amounts have Width bits.  References, rounding and the wording of       *)
(* refusals are left out: a request is prepared, is found already done, or *)
(* is refused.                                                             *)
(***************************************************************************)
EXTENDS Integers, Sequences, SequencesExt, FiniteSets, TLC

CONSTANTS
    Width,          \* bits of an amount: 128 in the code
    Requests,       \* records a caller may ask for
    Limits,         \* the capacities of the ledger, as EmptyLimits names them
    MaxPrepared     \* bound: preparations held at once

VARIABLES
    ledger,         \* the ledger's indexes
    prepared        \* preparations the caller holds

ledgerVars == <<ledger, prepared>>

Amounts == -(2 ^ (Width - 1)) .. 2 ^ (Width - 1) - 1

\* No period is closed, nothing was recorded yet.
NothingClosed == 0
Never == 0

----------------------------------------------------------------------------
(* Entries *)

Financial == {"standard", "reversal"}

\* Postings are a function from account and asset to an amount that is not
\* zero, balanced in each asset.
AmountsOf(postings, asset) == {key \in DOMAIN postings : key[2] = asset}

SumOver(postings, keys) == FoldSet(LAMBDA key, sum : sum + postings[key], 0, keys)

ValidPostings(postings) ==
    /\ Cardinality(DOMAIN postings) >= 2
    /\ \A key \in DOMAIN postings : postings[key] \in Amounts \ {0}
    /\ \A key \in DOMAIN postings : SumOver(postings, AmountsOf(postings, key[2])) = 0

\* with_kind: what a constructor accepts.  A close and a reopening carry the
\* boundary in `through' and nothing else.
WellFormed(entry) ==
    IF entry.kind \in Financial
    THEN entry.date > NothingClosed /\ ValidPostings(entry.postings)
    ELSE entry.date = NothingClosed /\ entry.postings = <<>>

Total(amounts) == FoldSeq(+, 0, amounts)

PostingCount(entries) ==
    Total([i \in DOMAIN entries |-> Cardinality(DOMAIN entries[i].postings)])

\* JournalEntry::reversal negates each posting; the least amount has no
\* negation.
Reversible(postings) == \A key \in DOMAIN postings : -postings[key] \in Amounts
Negated(postings) == [key \in DOMAIN postings |-> -postings[key]]

ExactInverse(candidate, original) == Reversible(original) /\ candidate = Negated(original)

\* LedgerCorrection::from_parts and LedgerBatch::new: the shape of a request.
ValidCorrection(reversal, replacement) ==
    /\ reversal.kind = "reversal" /\ replacement.kind = "standard"
    /\ Cardinality({reversal.id, replacement.id, reversal.target}) = 3
    /\ replacement.at >= reversal.at

ValidBatch(entries) ==
    /\ Len(entries) >= 2
    /\ \A i, j \in DOMAIN entries : i # j => entries[i].id # entries[j].id
    /\ \A i \in 1 .. Len(entries) - 1 : entries[i + 1].at >= entries[i].at

\* A request is an entry, a correction, which has a reversal and its
\* replacement, or a batch.
IsRequest(request) ==
    /\ \A i \in DOMAIN request.entries :
         LET entry == request.entries[i] IN
         /\ entry.kind \in Financial \cup {"close", "reopen"}
         /\ entry.date \in Nat /\ (entry.kind \notin Financial => entry.through \in Nat)
    /\ request = [form |-> request.form, entries |-> request.entries]
    /\ request.form \in {"entry", "correction", "batch"}
    /\ request.entries \in Seq(Range(request.entries))

ValidRequest(request) ==
    /\ \A i \in DOMAIN request.entries : WellFormed(request.entries[i])
    /\ CASE request.form = "entry" -> Len(request.entries) = 1
         [] request.form = "correction" ->
              /\ Len(request.entries) = 2
              /\ ValidCorrection(request.entries[1], request.entries[2])
         [] request.form = "batch" -> ValidBatch(request.entries)

ASSUME LedgerAssumption ==
    \A request \in Requests : IsRequest(request) /\ ValidRequest(request)

----------------------------------------------------------------------------
(* The ledger *)

\* `records' names the transactions of each committed record in order.
EmptyLedger ==
    [records |-> <<>>, entries |-> <<>>, balances |-> <<>>, reversals |-> <<>>,
     closed |-> NothingClosed, last |-> Never, postings |-> 0]

IdsOf(entries) == [i \in DOMAIN entries |-> entries[i].id]
BalanceOf(balances, key) == IF key \in DOMAIN balances THEN balances[key] ELSE 0

\* An index with the entries of another over its own.
Overridden(index, new) ==
    [key \in DOMAIN new \cup DOMAIN index |-> IF key \in DOMAIN new THEN new[key] ELSE index[key]]

\* apply_balance_updates: an index without zeroes.
ApplyUpdates(balances, updates) ==
    LET keys == {key \in DOMAIN balances \cup DOMAIN updates :
                   key \in DOMAIN updates => updates[key] # 0}
    IN [key \in keys |-> IF key \in DOMAIN updates THEN updates[key] ELSE balances[key]]

\* Adds the terms, always the next one of the sign opposite to the sum while
\* there is one.  `exact' tells whether every partial sum is an amount.
AlternateSigns(start, negative, positive) ==
    LET Step(sum, i) ==
            LET minus == sum.minus < Len(negative)
                            /\ (sum.value >= 0 \/ sum.plus = Len(positive))
                next == sum.value + (IF minus THEN negative[sum.minus + 1]
                                              ELSE positive[sum.plus + 1])
            IN [value |-> next, exact |-> sum.exact /\ next \in Amounts,
                minus |-> IF minus THEN sum.minus + 1 ELSE sum.minus,
                plus |-> IF minus THEN sum.plus ELSE sum.plus + 1]
    IN FoldLeft(Step, [value |-> start, exact |-> TRUE, minus |-> 0, plus |-> 0],
                [i \in 1 .. Len(negative) + Len(positive) |-> i])

\* The amounts a record posts to one key, in order.
TermsOf(entries, key) ==
    LET posting == SelectSeq(entries, LAMBDA entry : key \in DOMAIN entry.postings)
    IN [i \in DOMAIN posting |-> posting[i].postings[key]]

SumOfRecord(start, terms) ==
    AlternateSigns(start, SelectSeq(terms, LAMBDA amount : amount < 0),
                          SelectSeq(terms, LAMBDA amount : amount > 0))

KeysOf(entries) == UNION {DOMAIN entries[i].postings : i \in DOMAIN entries}

----------------------------------------------------------------------------
(* What a record must meet *)

\* An entry against the period, the clock, the transactions and the
\* reversals it meets: those of the ledger, or of a batch so far.
EntryFits(entry, closed, last, posted, reversals) ==
    /\ entry.at >= last
    /\ CASE entry.kind \in Financial -> entry.date > closed
         [] entry.kind = "close" -> entry.through > closed
         [] entry.kind = "reopen" -> closed # NothingClosed /\ entry.through < closed
    /\ entry.kind = "reversal" =>
         /\ entry.target \in DOMAIN posted \ DOMAIN reversals
         /\ posted[entry.target].kind \in Financial
         /\ ExactInverse(entry.postings, posted[entry.target].postings)

ClosedAfter(entry, closed) == IF entry.kind \in Financial THEN closed ELSE entry.through

ReversalBy(entry) == IF entry.kind = "reversal" THEN entry.target :> entry.id ELSE <<>>

PostedEntries(l) == [id \in DOMAIN l.entries |-> l.entries[id].entry]

\* What a batch's entries have made of the ledger's indexes so far.
BatchStart(l) ==
    [fits |-> TRUE, closed |-> l.closed, last |-> l.last, posted |-> PostedEntries(l),
     reversals |-> <<>>]

BatchStep(l, run, entry) ==
    [fits |-> run.fits /\ EntryFits(entry, run.closed, run.last, run.posted,
                                     Overridden(l.reversals, run.reversals)),
     closed |-> ClosedAfter(entry, run.closed),
     last |-> entry.at,
     posted |-> Overridden(run.posted, entry.id :> entry),
     reversals |-> Overridden(run.reversals, ReversalBy(entry))]

\* A batch's entries see the ones before them.
BatchRun(l, entries) ==
    FoldLeft(LAMBDA run, entry : BatchStep(l, run, entry), BatchStart(l), entries)

\* Mutant of CorrectionFits: only the reversal's date is looked at.
CorrectionFitsByReversal(l, reversal, replacement) ==
    EntryFits(reversal, l.closed, l.last, PostedEntries(l), l.reversals)

\* The two entries of a correction meet the same period; the replacement is
\* not earlier than the reversal already.
CorrectionFits(l, reversal, replacement) ==
    /\ EntryFits(reversal, l.closed, l.last, PostedEntries(l), l.reversals)
    /\ replacement.date > l.closed

\* preflight_event_capacity, and the cardinality of entry and record.
HasRoom(l, limits, entries, reversals, updates) ==
    /\ Len(entries) <= limits.transactionsPerRecord
    /\ \A i \in DOMAIN entries :
         Cardinality(DOMAIN entries[i].postings) <= limits.postingsPerTransaction
    /\ Cardinality(DOMAIN l.entries) + Len(entries) <= limits.transactions
    /\ Len(l.records) + 1 <= limits.records
    /\ Cardinality(DOMAIN l.reversals) + Cardinality(DOMAIN reversals) <= limits.reversals
    /\ l.postings + PostingCount(entries) <= limits.postings
    /\ Cardinality(DOMAIN ApplyUpdates(l.balances, updates)) <= limits.balanceKeys

----------------------------------------------------------------------------
(* Preparing *)

\* The call was made before: existing_batch_receipt, existing_correction_receipt
\* and the first check of prepare.  An entry is found in whatever record holds
\* it; a correction or a batch only as the record it was.
Known(l, request) ==
    \E i \in DOMAIN request.entries : request.entries[i].id \in DOMAIN l.entries

\* A preparation holds everything its commit will store.
Unchanged == -1

EntryPreparation(l, entry) ==
    [fits |-> EntryFits(entry, l.closed, l.last, PostedEntries(l), l.reversals)
              /\ \A key \in DOMAIN entry.postings :
                   BalanceOf(l.balances, key) + entry.postings[key] \in Amounts,
     updates |-> [key \in DOMAIN entry.postings |->
                    BalanceOf(l.balances, key) + entry.postings[key]],
     closed |-> IF entry.kind \in Financial THEN Unchanged ELSE entry.through,
     reversals |-> ReversalBy(entry)]

\* checked_add_three: some order of the three terms does not overflow.
AddThree(a, b, c) ==
    [exact |-> a + b + c \in Amounts
               /\ \E partial \in {a + b, a + c, b + c} : partial \in Amounts,
     value |-> a + b + c]

PostedTo(entry, key) == IF key \in DOMAIN entry.postings THEN entry.postings[key] ELSE 0

CorrectionPreparation(l, reversal, replacement) ==
    LET Sum(key) == AddThree(BalanceOf(l.balances, key), PostedTo(reversal, key),
                             PostedTo(replacement, key))
        keys == DOMAIN reversal.postings \cup DOMAIN replacement.postings
    IN [fits |-> CorrectionFits(l, reversal, replacement)
                 /\ \A key \in keys : Sum(key).exact,
        updates |-> [key \in {k \in keys : Sum(k).value # BalanceOf(l.balances, k)} |->
                       Sum(key).value],
        closed |-> Unchanged,
        reversals |-> ReversalBy(reversal)]

BatchPreparation(l, entries, run) ==
    LET Sum(key) == SumOfRecord(BalanceOf(l.balances, key), TermsOf(entries, key))
        keys == KeysOf(entries)
    IN [fits |-> run.fits /\ \A key \in keys : Sum(key).exact,
        updates |-> [key \in {k \in keys : Sum(k).value # BalanceOf(l.balances, k)} |->
                       Sum(key).value],
        closed |-> run.closed,
        reversals |-> run.reversals]

Preparation(l, request) ==
    LET e == request.entries IN
    CASE request.form = "entry" -> EntryPreparation(l, e[1])
      [] request.form = "correction" -> CorrectionPreparation(l, e[1], e[2])
      [] request.form = "batch" -> BatchPreparation(l, e, BatchRun(l, e))

Accepts(l, limits, request, preparation) ==
    /\ ~Known(l, request)
    /\ preparation.fits
    /\ HasRoom(l, limits, request.entries, preparation.reversals, preparation.updates)

\* A caller's preparation also carries what the ledger was.
Token(l, request, preparation) ==
    [request |-> request, updates |-> preparation.updates, closed |-> preparation.closed,
     reversals |-> preparation.reversals,
     postings |-> l.postings + PostingCount(request.entries),
     expected |-> Len(l.records)]

----------------------------------------------------------------------------
(* Committing *)

\* Mutant of Stale: a preparation is stale once its transactions are posted.
StaleOnceKnown(l, token) == Known(l, token.request)

Stale(l, token) == Len(l.records) # token.expected \/ Known(l, token.request)

Committed(l, token) ==
    LET entries == token.request.entries
        stored == [id \in Range(IdsOf(entries)) |->
                     [entry |-> entries[CHOOSE i \in DOMAIN entries : entries[i].id = id],
                      sequence |-> token.expected + 1]]
    IN
    [records |-> Append(l.records, [form |-> token.request.form, ids |-> IdsOf(entries)]),
     entries |-> Overridden(l.entries, stored),
     balances |-> ApplyUpdates(l.balances, token.updates),
     reversals |-> Overridden(l.reversals, token.reversals),
     closed |-> IF token.closed = Unchanged THEN l.closed ELSE token.closed,
     last |-> Last(entries).at,
     postings |-> token.postings]

\* post, correct and post_batch, and replay: prepare and commit at once.
Posted(l, request) == Committed(l, Token(l, request, Preparation(l, request)))

----------------------------------------------------------------------------
(* The ledger of one caller *)

LedgerInit == ledger = EmptyLedger /\ prepared = {}

Post(request) ==
    /\ Accepts(ledger, Limits, request, Preparation(ledger, request))
    /\ ledger' = Posted(ledger, request)
    /\ UNCHANGED prepared

Prepare(request) ==
    /\ Cardinality(prepared) < MaxPrepared
    /\ LET preparation == Preparation(ledger, request) IN
         /\ Accepts(ledger, Limits, request, preparation)
         /\ prepared' = prepared \cup {Token(ledger, request, preparation)}
    /\ UNCHANGED ledger

\* A commit consumes the preparation, whether it is stale or not.
Commit(token) ==
    /\ ledger' = IF Stale(ledger, token) THEN ledger ELSE Committed(ledger, token)
    /\ prepared' = prepared \ {token}

LedgerNext ==
    \/ \E request \in Requests : Post(request) \/ Prepare(request)
    \/ \E token \in prepared : Commit(token)

LedgerSpec == LedgerInit /\ [][LedgerNext]_ledgerVars

----------------------------------------------------------------------------
(* Queries and checkpoints *)

\* resolve_retained_record: the entries of a record, from the index.
RecordAt(l, i) ==
    LET record == l.records[i] IN
    [form |-> record.form,
     entries |-> [j \in DOMAIN record.ids |-> l.entries[record.ids[j]].entry]]

RecordsOf(l) == [i \in DOMAIN l.records |-> RecordAt(l, i)]

\* try_balance_at: a balance as of the first `generation' records.
BalanceAt(l, generation, key) ==
    FoldLeft(LAMBDA sum, record :
                 LET next == SumOfRecord(sum.value, TermsOf(record.entries, key))
                 IN [value |-> next.value, exact |-> sum.exact /\ next.exact],
             [value |-> 0, exact |-> TRUE], SubSeq(RecordsOf(l), 1, generation))

\* checkpoint_replay_limits: the capacities a decoded checkpoint is replayed
\* with, before its ledger's own limits are known.
ReplayLimits(records) ==
    LET entries == FlattenSeq([i \in DOMAIN records |-> records[i].entries])
        Count(entry) == Cardinality(DOMAIN entry.postings)
        postings == Max({1, PostingCount(entries)})
    IN [transactions |-> Max({1, Len(entries)}), reversals |-> Max({1, Len(entries)}),
        records |-> Max({1, Len(records)}),
        balanceKeys |-> postings, postings |-> postings,
        postingsPerTransaction |-> Max({1} \cup {Count(entries[i]) : i \in DOMAIN entries}),
        transactionsPerRecord |->
            Max({1} \cup {Len(records[i].entries) : i \in DOMAIN records})]

\* Replays records from an empty ledger: restore_checkpoint,
\* validate_checkpoint and replay_audit_records.
Restored(records, limits) ==
    FoldLeft(LAMBDA run, record :
                 [ok |-> run.ok /\ Accepts(run.ledger, limits, record,
                                            Preparation(run.ledger, record)),
                  ledger |-> Posted(run.ledger, record)],
             [ok |-> TRUE, ledger |-> EmptyLedger], records)

----------------------------------------------------------------------------
(* Properties *)

Entries(l) == FlattenSeq([i \in DOMAIN l.records |-> RecordAt(l, i).entries])

\* The indexes are those of the committed records and of nothing else,
\* whatever preparations were held over other commits: each transaction in
\* its record, each reversal under its target, undoing it exactly and after
\* it, the period where its last control left it, within all capacities.
IndexesAreOfRecords ==
    LET entries == Entries(ledger)
        controls == SelectSeq(entries, LAMBDA entry : entry.kind \notin Financial)
    IN /\ Cardinality(DOMAIN ledger.entries) = Len(entries)
       /\ \A i \in DOMAIN ledger.records : \A id \in Range(ledger.records[i].ids) :
            ledger.entries[id].sequence = i
       /\ \A i \in 2 .. Len(entries) : entries[i - 1].at <= entries[i].at
       /\ \A i \in DOMAIN entries : entries[i].kind = "reversal" =>
            /\ ledger.reversals[entries[i].target] = entries[i].id
            /\ \E j \in 1 .. i - 1 :
                 /\ entries[j].id = entries[i].target
                 /\ \A key \in DOMAIN entries[j].postings \cup DOMAIN entries[i].postings :
                      entries[j].postings[key] + entries[i].postings[key] = 0
       /\ Cardinality(DOMAIN ledger.reversals)
            = Len(SelectSeq(entries, LAMBDA entry : entry.kind = "reversal"))
       /\ ledger.closed = IF controls = <<>> THEN NothingClosed ELSE Last(controls).through
       /\ ledger.last = IF entries = <<>> THEN Never ELSE Last(entries).at
       /\ ledger.postings = PostingCount(entries) /\ ledger.postings <= Limits.postings
       /\ Len(entries) <= Limits.transactions /\ Len(ledger.records) <= Limits.records
       /\ Cardinality(DOMAIN ledger.reversals) <= Limits.reversals
       /\ Cardinality(DOMAIN ledger.balances) <= Limits.balanceKeys

\* The balance of an account as of any generation can be told, and is what
\* was posted to it until then; as of now it is the one the index holds.  No
\* order of a batch's postings makes it overflow on the way.
AsOfAgrees ==
    \A key \in KeysOf(Entries(ledger)) : \A generation \in DOMAIN ledger.records :
        LET told == BalanceAt(ledger, generation, key)
            posted == FlattenSeq([i \in 1 .. generation |-> RecordAt(ledger, i).entries])
        IN /\ told.exact
           /\ told.value = Total(TermsOf(posted, key))
           /\ generation = Len(ledger.records) => told.value = BalanceOf(ledger.balances, key)

\* A checkpoint of the ledger can always be read back: its records, taken
\* one after the other under the capacities computed from them, are all
\* accepted again and lead to the same ledger.
RestoresFromRecords ==
    LET records == RecordsOf(ledger)
        run == Restored(records, ReplayLimits(records))
    IN run.ok /\ run.ledger = ledger

\* Nothing the ledger keeps or tells is anything but a function of the
\* records it committed: its indexes, the balances as of each generation,
\* and the ledger a checkpoint gives back.
LedgerIsItsRecords == IndexesAreOfRecords /\ AsOfAgrees /\ RestoresFromRecords

\* What is posted to a period that is closed stays as it is until a record
\* reopens it.
PostedOn(l, date, key) ==
    LET entries == Entries(l)
        posting == {i \in DOMAIN entries : entries[i].date = date /\ key \in DOMAIN entries[i].postings}
    IN Total([i \in posting |-> entries[i].postings[key]])

Reopens(record) == \E i \in DOMAIN record.entries : record.entries[i].kind = "reopen"

ClosedPeriodsStand ==
    [][ \/ Len(ledger'.records) > Len(ledger.records)
             /\ Reopens(RecordAt(ledger', Len(ledger'.records)))
        \/ \A date \in 1 .. ledger.closed : \A key \in KeysOf(Entries(ledger')) :
             PostedOn(ledger', date, key) = PostedOn(ledger, date, key) ]_ledger

----------------------------------------------------------------------------
(* A preparation held over other commits is committed only if it is what   *)
(* preparing it now would give.                                            *)

\* Only requests are posted, each as it is accepted at that moment.
OnlyPosts ==
    [][ledger' # ledger =>
         \E request \in Requests :
            /\ Accepts(ledger, Limits, request, Preparation(ledger, request))
            /\ ledger' = Posted(ledger, request)]_ledgerVars

============================================================================
