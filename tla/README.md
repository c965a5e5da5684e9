# quotick, verified

quotick is the core of a trading venue in Rust: a single-threaded, deterministic
order book per instrument, call auctions, pre-trade risk, market data, a ledger,
and the files that make all of them survive a crash. This directory is its
verification project: TLA+ modules for the parts modelled so far, TLC
configurations that check them on small instances, and proofs for every value of
the constants. Source paths are relative to the repository.

1. [The system](#1-the-system)
2. [The modules](#2-the-modules)
3. [The runs](#3-the-runs)
4. [The properties and the hazards behind them](#4-the-properties-and-the-hazards-behind-them)
5. [The proofs](#5-the-proofs)
6. [Where code and documentation differ](#6-where-code-and-documentation-differ)
7. [What is not modelled, and the plan](#7-what-is-not-modelled-and-the-plan)

## 1. The system

| Component | State it keeps | Operations | What is hard | Status |
|---|---|---|---|---|
| Writer lease (`src/journal.rs`) | a sidecar file with the owner's identity | acquire, release (close and drop), operator recovery | separate reads and removals of one file by many handles | modelled, proved |
| Journal (`src/journal.rs`) | frames with contiguous sequence numbers, a write cursor, a poison latch | open/scan/repair, append, batch, sync, capture, cutover, close | torn writes, failed barriers, renames that power loss undoes | modelled, proved |
| Snapshot file (`src/snapshot.rs`) | target and `.pending` file | write, recover_pending | death between staging, barrier, rename and directory barrier | modelled |
| Segmented journal (`src/segmented_journal.rs`) | segments, generation markers, the selected generation | append, rotate, capture, cutover, recovery, cleanup | crash between segments and marker | modelled |
| Durable matching shard (`src/durable.rs`, `src/durable_storage.rs`) | book, checkpoint slot, cutover epoch, poison latch | open, submit, capture, write checkpoint, compact, close | order of command, execution, report, snapshot and anchor | modelled, proved |
| Durable risk, auction and coupled shards (`src/durable_risk.rs`, `src/durable_auction.rs`, `src/durable_auction_risk.rs`) | as above, with account profiles behind the definition | as above, and metadata written, compared and extended at opening | a log that outlives the configuration it was opened with | partly, proved |
| Ledger (`src/ledger.rs`) | records, entries, balances, reversals, closed periods | post, batch, correct, reverse, close, reopen, prepare, commit, restore | what was prepared is committed later; amounts near their limits | partly, proved in part |
| Durable ledger (`src/durable_ledger.rs`) | ledger, log, slots, poison latch | open, post, checkpoint, compact, sync, close | an entry is logged before balances move | partly, proved |
| Order book (`src/matching.rs`) | orders, price levels, trigger index, controls, reference, retained reports | eight commands, prepare and commit, capture and restoration | previews that must agree with execution; capacities at their limit; stop cascades; an audit that derives the book from its history a second time; bounded histories whose tails are for cancellations | partly; histories proved |
| Risk (`src/risk.rs`) | profiles, positions, reservations | authorize, apply a report, restore | reservations must follow the events of each report | partly |
| Market data (`src/market_data.rs`, `src/market_data/replay.rs`) | publisher's mirror, replica's depth, replay ring | publish, apply, snapshot, replay, page | lost, repeated, reordered, damaged batches | modelled, proved |
| Call auction (`src/auction.rs`, `src/auction_book.rs`, `src/auction_engine.rs`) | phase, interest, indication, bounded histories | nine commands | a reserve that must always suffice; tie rules; rounding in allocation | partly; reserve proved |
| Call-auction risk (`src/auction_risk.rs`) | exposures, reservations | authorize, apply, restore, prepare, commit | netting of an uncross; stale preparations | partly |
| Call-auction market data (`src/auction_market_data.rs`) | publisher's mirror, replica's interest | publish, apply a batch | an uncross told trade by trade | partly |
| Indexes (`src/bounded_hash.rs`, `src/indexed_avl.rs`, `src/trace_arena.rs`) | open-addressed table, AVL tree, append-only arena | insert, remove, select, write once | deletion in a wrapped probe chain, rebalancing under stable slots | hash index and tree modelled, hash index proved; arena not |
| Codec (`src/codec.rs`, `src/codec/`) | none | encode, decode | bytes of one value must be one string of bytes, absent parts and nested payloads included | partly |
| Instruments and catalog, calendar and domain types | immutable values | validation | arithmetic, no state | not modelled |

**How they interact.** A caller submits a command to a durable shard; the shard
prepares it on the book (and the risk engine), appends the command to its log,
commits it to the book, appends the report and answers. The report drives market
data and, through trades, the ledger. A shard bounds its log by capturing a
checkpoint, writing it to the slot the log does not use and replacing the log's
prefix by an anchor that names that slot. There are no threads inside a shard;
concurrency is between processes over the same paths, and between a process and
the failures of its machine. A publisher keeps its own mirror of the book, built
from reports alone; a collector pushes its batches to a ring; replicas receive
batches over a network that promises nothing, and ask the ring for pages or the
publisher for a snapshot.

**Correctness, per part.** One writer per path; no acknowledged frame is lost and
no sequence number means two records; whatever survives is recoverable, holds
every answer given and keeps its configuration; the ledger's indexes are those of
its records, whatever was prepared when; the book never crosses, keeps
price-time-display priority, conserves lots, stays within its capacities and
event bounds, leaves nothing behind that a control was to end, and triggers
exactly the stops its reference reached, and can always be emptied however full its
history is; reservations and mirrors agree with the
book after every command; a replica that was not poisoned shows what was
published; an auction clears at the optimal price, allocates by its rule and can
always be wound down.

## 2. The modules

Definitions named `Mutant of X` beside an operator X are what X would be with a
plausible bug; nothing uses them. They document that the property named for them
in `PROJECT.json` notices that bug. `PROJECT.json` also maps each definition to
the lines it stands for.

### Storage

**`WriterLease`** - handles compete for one lease file. `create_new` is the only
atomic operation; writing the owner record, reading it back, removing the file,
and the operator's two recoveries are separate steps, so they interleave freely
with the death of any handle. The identity (process, time, nonce) is a number no
two acquisitions share.

**`Journal`** - one log and the operating system under it. A file is a sequence of
whole frames plus a `tail` (`clean`, `torn`, `corrupt`); `synced` is how many
frames the device holds for certain, `former` the file a power loss would put
back at the path after an unsynchronized rename, `staging` the cutover's pending
file. `phase`, `poisoned`, `next`, `first`, `end`, `boundary` are the fields of
`Journal`. An append is a write followed by a barrier, either of which may fail
after any part of its effect. `promised` is a history variable: the frames some
successful call reported.

**`SnapshotFile`** - the targets in one directory and their `.pending` files; a
write's staging, rename and directory barrier are separate steps. A name and the bytes
behind it reach the device apart: a file carries whether its bytes passed a barrier
(`synced`). A writer that ends between `write_all` and `sync_all` leaves a staging file
that reads well and is not synchronized; `recover_pending` promotes it as it is
(`Promote`: a rename and a directory barrier), a later write of the same checkpoint takes
it for finished, and a power loss may tear it under either name (`Remaining`). `promoted`
is a history variable: the targets that got such a file, until a synchronized one is
there, or for as long as it lies torn.

**`SegmentedJournal`** - one directory of segments and markers, by name and
content. What a process reads (the cache) and what the device holds are told
apart, and a power loss keeps any part of what was not synchronized. Opening finds
the first marker or writes it, verifies the chain, removes what no marker selects;
rotation, append, batch, capture and each file of a cutover are steps that may
fail. A frame is there or not: torn tails and their repair are `Journal`'s. The
first marker, if it reads whole, is taken to be on the device (section 6).

**`RecordLog`** - what storage under `SyncAll` promises the shard that writes to
it: a log of bodies with contiguous numbers, an unacknowledged end that a failure
may take, and the replacement of a prefix by an anchor, all or nothing.
`SegmentedJournal` implements it (`ImplementsRecordLog`, checked and proved); the
shards below are written over it.

**`AnchoredLog`** - what the shards over `RecordLog` share: two snapshot slots and
a path of the caller's choice, what a process reads of them and what a crash may
leave, and the receipts they gave. Here a snapshot file is replaced as a whole, and no
operator promotes a staging file: what a file promoted before its barrier does to a
shard is shown with `SnapshotFile` in `DurableBook`.

### Shards

**`DurableBook`** - the matching shard in full detail: it composes `Journal` and
`SnapshotFile` (by `INSTANCE`). The book is the sequence of commands it executed,
which is enough because it is deterministic. `Recovery` is `open_storage` as a
function of the files: the safety properties quantify over every file and
snapshot image a failure may leave and ask what it returns. 

**`ShardLog`** is the abstract specification of a shard: commands take places in a
log, answers name places, failures forget only unanswered commands at the end. With
`MayBeLost`, a log may also be lost as a whole, for good: it is never read with an
answer missing or changed. `DurableBook` implements it so, `Lose` being a power loss
that tears a slot `recover_pending` filled; `DurableShard` and `DurableLedger`
implement it without.

**`DurableShard`** - the risk, the auction and the coupled shard over `RecordLog`.
Their logs begin with a definition and, for the two with risk, one frame per
profile. Profiles are written behind the definition and may still grow while no
command was logged and no cutover made; a base checkpoint written before they
grew no longer fits. Opening is told any of the requested configurations and
takes what the log has, writes what it lacks, or refuses; a missing base is
noticed only after metadata was written. A checkpoint verifies only if its
generation is metadata plus two per command (`matching.rs` 5213-5224,
`auction_engine.rs` 2880-2891). A captured checkpoint dies with its opening. The
plain auction shard has no profiles. A retry answered from the history is no step.

**`Ledger`** - records of one entry, of a correction (a reversal and its
replacement) and of a batch, period closes and reopenings, capacities, amounts of
`Width` bits, balances as of a generation, and preparation apart from commit: a
preparation carries no identity of its ledger, only the length of the record list
it was made at. A repeated record changes nothing and is no step. `AddThree` is
the order in which a correction's three terms are added. The check at the end of
an open (`validate`) is `RestoresFromRecords`, a part of `LedgerIsItsRecords`.

**`DurableLedger`** - the ledger over `RecordLog` and two slots: open with and
without a checkpoint, post, checkpoint, cutover, sync, close, crash.

**`Shards`** - the ledger, bare or with storage, and the shards of `DurableShard`,
one per behaviour, and what `ShardLog` is to all of them. `MCLedger` holds the
menus of requests and the configurations.

### The continuous venue

**`Instrument`**, **`Matching`** - prices and sides; the matching algorithm and the
previews as operators: queues with displayed orders before hidden ones, reserve
refills, the four self-trade policies, immediate quantity, minimum quantity (the
round-by-round definition of what the code computes by bisection), residual
prediction, and the event bound.

**`OrderBook`** - the state machine over `Matching`, one action per command with
its admission, capacity preflight, report bound and complete execution: `NewOrder`,
`NewMarketToLimit`, `NewStop`, `ReplaceInPlace`, `ReplaceAndExecute`,
`ReplaceDormantStop`, `CancelOrder`, `MassCancel`, `BlockAndCancel`, `Enable`,
`Transition`, `TransitionAndCancel`, `ExpirySweep`, `StopTriggerSweep`. `report`
holds the events of the last accepted command and the bound its preflight
reserved. A command that is rejected or repeated changes no modelled state and is
not a step; revisions of controls are the caller quoting the current one;
`received_at` matters only as "expires later than the watermark"; the cursor of
the stop reference is one successor number; an order's id is its place in the
order of acceptance; increments and grids are what `Shapes` and `Prices` obey.

**`BookCheckpoint`** - a checkpoint holds the whole history of commands and reports
with the active orders. Its audit derives from the history what the book must have
come to, without executing anything: accepted ids, controls, watermark, reference,
and the dormant stops in their priority. `lineage` keeps that derivation command by
command, as if each were the last of a checkpoint; `Captures` is `checkpoint_state`
with the audit of the live book and of the rows; `RestoredBook` is what
`from_checkpoint_with_limits` builds. `Genesis` is the trading state of the
instrument's definition.

**`BookHistory`** - the same book seen as its bounded history: every command leaves a
report, both commands and events are bounded, and the last part of either bound is a
tail that only cancellations which the book accepts may enter. A command is prepared -
decided about, its room checked, a selection buffer taken from the book's pool - and
committed later; the preparation names the book's instance and the length of its
history. Meanwhile other commands are committed, or the book is replaced by one restored
from a checkpoint. Of the book only its active orders are told; what matching does to
them, and how many events it needs, is any choice within the bound. `idle` and
`overhead` count what was let into the tails and cancelled nothing, or told more than
one event per order.

**`RiskRules`**, **`Risk`** - limits, notional, worst-case exposure and the two
tests shared with auctions; then the risk engine beside the book: an order is
authorized before it is executed, and each event of the report moves reservations
and positions.

**`Publisher`**, **`Replica`** - the publisher's mirror with a handler for every
event, each of which first holds the event against command and mirror and poisons
the publisher if they disagree; what a replica does with an update.

**`Venue`** - all of it together: authorize, execute, apply, publish, as one step
per command, with the depth a client rebuilds from the updates alone and the
lineage of a checkpoint.

**`ReplayRing`**, **`Feed`** - the ring of published batches with its index
arithmetic, overlaps and rebuilt rings; then publisher, ring and one replica over
a network that loses, repeats, reorders and damages batches, with single updates,
snapshots, a snapshot with a replayed suffix (rolled back when a page does not
fit) and pages. What the publisher shows is any sequence of depths its updates
lead through.

### Auctions

**`AuctionPricing`** - price discovery under every tie rule and both allocation
policies, each beside a reference definition. **`AuctionBook`** - admission,
amendment, replacement and uncross of the interest. **`AuctionEngine`** - the nine
commands, the phases, and the histories with their terminal reserve.
**`AuctionReserve`** - what the bounded histories promise, with no orders in it;
`AuctionEngine` implements it. **`AuctionRisk`** - authorization, reservations,
netted positions. **`AuctionPreparation`** - replacements prepared and committed in
two steps. **`AuctionMarketData`** - publisher and replica.
**`AuctionCheckpoint`** - the audit of an engine's history and its restoration, in the
manner of `BookCheckpoint`: the code has the table of the controller's refusals twice,
entry for entry the same (`auction_engine.rs` 6077-6162 and 7145-7355); here it is one
operator, applied to the phase of the engine (`Refusal`) and to that of the lineage;
`ProjectUncross` takes an uncross apart trade by trade on the orders the history left.
`Requests` are commands the engine may refuse, a retry of another auction's or another
instrument's among them. **`AuctionVenue`** - engine, risk, feed and lineage together,
one step per command.

Auctions leave out revisions, trade ids and event sequences; commands answered
from the history or refused for want of room are no step.

### The state in memory

**`ProbeTable`** - the hash index: dense entries, buckets that lead to them, and
linear probing around the end. `StopsAt` says where a search ends. A removal is
three kinds of steps, so that the invariant can speak of the middle of it: the
bucket becomes the hole, each later bucket of the cluster is shifted back or left,
and the last entry moves into the place of the removed one. The hash function is
drawn with the table and is any function; a power-of-two mask is a remainder.
`plain` is the history of what was put in and taken out.

**`IndexedTree`** - the balanced tree over an arena of slots: rotations and a removal
with two children relink slots and move no key, removed slots form a free list that is
used before the arena grows, and a range is walked from both ends at once, each with a
stack of its own. `placed` is the history: the slot each key was first put in.

### Payloads

**`Codec`** - what is encoded and decoded, for each of the eighteen kinds of payloads, is
one grammar, given as data: numbers of a width in digits of 256, tagged unions, options,
counted collections with the least size of an item, payloads within payloads. `Encode` and
`Decode` are what `Encoder` and `Decoder` make of a grammar, with the refusals of the codec
itself (`Passes`). Tests of constructors elsewhere are left out, but for identifiers,
quantities and symbols. `Variations` are the values that are written: one plain value and
each change of one of its parts to an end of its range.

### MC modules

`MCStorage` and `MCLedger` hold menus, symmetries and views; `MCVenue` puts `Venue` and
`Feed` side by side, one part per behaviour; `OrderBook`, `Venue`, `AuctionVenue`,
`Feed` and `AuctionPreparation` end with the instances of their runs. They replace no
definition.

## 3. The runs

Bounds are the constants of each `.cfg`. Each passing run ends with its whole
state space explored.

| Run | Module, config | States | What it shows |
|---|---|---|---|
| `storage` | MCStorage, Storage | 714,668 | lease (three handles, five acquisitions), single-file log (two records, an anchor, batches of two, four frames, power loss, repair), directory of segments (two frames a segment, four frames logged, three generations), hash index (four keys, two values, three entries, eight buckets), balanced tree (six keys, five slots) history of a book (two orders, four commands and seven events, two preparations, two books) and payloads (eighteen kinds, four of them damaged in every byte to one of four values), one part per behaviour; the directory implements `RecordLog` |
| `durable` | DurableBook, Durable | 231,869 | two commands and two cutovers with power loss between any two steps: recoverable, answers survive, implements `ShardLog`, comes up again, but for a slot promoted without a barrier |
| `matching` | OrderBook, Matching | 23,528 | three orders of four shapes, two accounts, two prices, all four self-trade policies: previews are exact, lots conserved, turns and priority kept, reports within their bounds |
| `order_book` | OrderBook, OrderBook | 189,440 | all commands at full capacities (two orders, one level a side), three prices, two references, expiry, block, halt |
| `venue` | MCVenue, Venue | 63,565 | the venue (26,316 states): two profiles, one of which may only reduce; every limit is reached; reservations, mirror and rebuilt depth follow every report, and a checkpoint restores every book. The feed (37,249): four updates, a ring of two, pages of one and two, one damaged batch, loss and repetition without bound: replicas show what was published and catch up |
| `auction` | AuctionVenue | 78,285 | two auctions of seven kinds of orders under two calls and two policies, until histories of twelve commands and fifteen events are full |
| `ledger` | MCLedger | 633,399 | 23 requests bare and four durable, three-bit amounts, one preparation held; the three shards with two commands, two checkpoints, growing profiles and conflicting definitions |
| `listing_fails`, `unsynchronized_slot`, `stale_replace`, `account_capacity`, `checkpoint_admission` | | | the disagreements of section 6 |

**Why the bounds are enough.** *storage*: four frames hold a batch, a cutover and
frames behind its anchor; two records distinguish a repeated sequence number; with
two frames a segment, four logged frames rotate, and a cutover writes more than
one segment; a third generation is cut over while files of the first still lie
about; the homes 0, 6 and 7 of eight buckets build every cluster across the end,
and the fourth key meets a full table; five of six keys make a removal
with two children whose successor lies deeper, and every rotation; with four commands,
two of them reserved, a refused command would use up a place that one of two orders
needs, and seven events leave both orders and a sweep's completion theirs; a payload with one part
changed (two where a check relates parts) reaches every tag, both ends of every number and
each part absent, once, and repeated. *durable*: two cutovers use both slots, so that the second one overwrites
what a power loss could still select; one capture may be held across another's
cutover, and five frames hold both commands and one report behind an anchor, or a
torn frame behind both. Commands are interchangeable, and `InOrder` numbers them as
they are submitted (a run with a liveness property may not use symmetry). Power that is lost
under a running process ends it first, which takes nothing from the files, so that one
power loss from `closed` stands for one at any moment. *matching*: three orders are the least with which an own order stands
between two others, or a refreshed reserve order meets both a displayed and a
hidden one; every executed order comes with each of the four self-trade policies, so that
lots are decremented from either side, and resting, incoming or both orders cancelled,
between trades and refreshes; the preview properties then range over every probe of up to one lot
more than the largest order, at each price and with each policy, so
that the number of orders compared is not limited by what the run lets in. Reports
of up to twelve events are allowed, so that only some of the largest commands are refused for
their bound. *matching* itself meets no other limit, but its probes count the freed
orders, accounts and levels in every book. *order_book*: the first limit a command meets is mostly that of the levels; a batch
of one leaves a backlog, a triggered stop meets the other as a resting order, and
three prices admit stops of both sides around a reference. *venue*: reserve
slices, an order that expires, a stop that is triggered and one that may only
reduce meet each of the seven limits; for the feed, four updates wrap a ring of two, so
that a slow client is overtaken; both page sizes end inside and between batches.
*auction*: twelve commands with five in reserve fill in one auction, so that the
second is opened, if at all, with little left; every tie rule and both rounding
directions occur. *ledger*: three bits are overflowed by a correction whose result
fits; three record places make an old preparation stale; two checkpoints use both
slots.

Larger instances were also run, without error: `order_book` with five lifetimes
and two shapes (517,000) and with three order ids (336,000); stops without
controls with three orders, all of which may be stops (63,000).

**Views and symmetry.** No action of `OrderBook` reads `report`, none of the venue
reads the updates of the command before it, and none of the auction reads either,
so those runs identify states that differ only in it (`BookView`, `VenueView`,
`AuctionView`); action properties that speak of `report'` or `batch'` are
evaluated on every transition, before states are identified. `MatchingView`
also forgets the self-trade policies of resting orders, which only a replacement of
the order reads: it keeps that of the newest order while the book has room for
another, so that replacements with each policy stay in the run. Accounts and shard commands
are symmetric where the run has no liveness property and no names in a constant.

**Fairness.** *storage*: none, its properties are safety. *durable*: an owner who keeps opening, and
storage that works again and again when it is tried again and again (strong
fairness of the successful steps of opening, weak fairness of taking the lease and
of returning an error). Nothing is assumed of appends. Without this `Reopens` would say that disks do not fail. *venue*: of the
feed alone, the collector hands the ring
what was published (weak fairness), and a client keeps asking the ring, and the
publisher where the ring cannot help (strong fairness, since the page it may ask
for changes while it asks); nothing is assumed of the network. *order_book*: weak
fairness of repeating the current stop reference, which `docs/assumptions.md`,
A102, demands of the authority ("repeats the exact reference until the backlog is
zero"); the property allows the market to close meanwhile. The condition under
which a repetition is enabled is spelled out (`CanRepeat`) rather than left to
`ENABLED`, whose evaluation would execute the batch many times over. It also
assumes that `max_report_events` is large enough for some batch: a stop whose own
bound exceeds it could never be triggered, and would block its reference.

Deadlock is checked in the order-book runs. The other systems may stop: at
their bounds of frames, generations, commands or updates, or with no lease
identity left.

## 4. The properties and the hazards behind them

`PROJECT.json` lists every hazard at its line with the properties that cover it.
By part:

* **Lease, journal.** `LeaseHeld`: there is at most one writer and the file is its
  own. `NoLoss`, `OneRecordPerSequence`: a promise holds over every file a failure
  may leave, across cutovers and reused numbers. `WriterBehindVerified`: every
  failure that could leave memory and file disagreeing has poisoned the writer.
* **Segments.** `EveryCrashOpens`: whatever part of names and contents the device
  kept, an open finds one chain, and it holds every acknowledged record.
  `ImplementsRecordLog`: no failure of any step of a cutover shows anything but
  the old log or the new one.
* **Hash index.** `TableIsMap`: between operations a search ends for every key, at
  the value last put in for it or at a vacant bucket, whatever was removed from the
  clusters it passes.
* **Balanced tree.** `TreeIsOrdered`: balance, arena and free list are whole, every
  key is found where it was first put, and ranges, neighbours and ends, read from
  either side or both, are those of the keys in order.
* **Payloads.** `PayloadsAreCanonical`: what was written decodes to what it was written
  of, and whatever decodes is what would be written of the value.
* **Matching shard.** `AlwaysRecoverable`, `AnswersSurvive`: over every combination
  of surviving log and snapshots. The first has one exception, `SlotTorn`: the log names a slot
  that `recover_pending` filled with a file without a barrier, and a power loss tore it;
  then the shard does not open (section 6). No answer is contradicted by that, so that
  `AnswersSurvive` needs no exception. `AcceptedCaptureCutsOver`: the checks before a
  compaction (instance, epoch, poison) reject every capture the journal could not
  cut over at. `ImplementsShardLog`, with a log that may be lost as a whole in that
  case only. `Reopens`: a closed shard comes up again, with
  whatever repair its log needs, or its slot is torn.
* **Other shards.** `ShardComesBack`: log and snapshots give back what was answered.
  `OneConfiguration`: all answers of a log were given under one definition and one
  list of profiles.
* **Ledger.** `LedgerIsItsRecords`: every index is a function of the records, also
  after late commits, and the balance as of a generation is that of the ledger
  then; replaying the records under the limits a checkpoint gives restores the
  ledger. `StorageCarriesLedger`, `ClosedPeriodsStand`.
* **Order book.** `PreviewsExact`: in every reachable book the previews equal the
  result of executing. `BookStands`: levels, indexes, capacities, controls and
  stops fit each other, nothing is stranded, the book is not crossed.
  `ReportBounded`: the bound reserved before a command covers its report, with every
  refresh of a reserve order and every self-trade prevention on the way.
  `ExecutionIsFair`: every lot of the report is accounted for once; event by event, the
  resting order that trades, is decremented or is cancelled by a prevention is the first of its
  side among those still standing then, nobody trades with itself, and each trade
  is at the resting order's price; and the queues that are left have the order of their
  displays and arrivals.
  `StopsFollowReference`: a stop is eligible by a new reference only and stays so; and
  a sweep's report fits its bound, which is computed before the first stop of
  the batch changes the book. `BacklogDrains`.
* **Histories of a book.** `CancellationsHaveRoom`: the tails hold a command and an event
  for every active order, and one event more, less only the commands in them that
  cancelled nothing and the events beyond one per cancelled order. (The documentation says
  as much of controls in `docs/wal-v3.md` 243-252.) `CommitsAreCurrent`: whatever is
  committed was decided about as it would be decided at that moment.
* **Venue.** `ShadowsMatchBook`: reservations and the publisher's mirror are what
  one would build from the book; and the second derivation of the book, from its
  history (`CheckpointRestores`), accepts every book the first one makes, and restores it. `ReservedCoversTraded`: positions
  stay within limits and valuations, and a reduce-only account only shrinks.
  `UpdatesReproduceDepth`: a client that applies the updates alone sees the
  displayed depth.
* **Feed.** `PagesGoOn`, `ReplicaShowsPublished`, `NeverGoesBack`, `CatchesUp`.
* **Auction.** `IndicationIsCurrent`: the indication is the optimal price of the
  present interest. `UncrossIsFair`: lots conserved, priority or proportion kept.
  In the shared tier of pro-rata allocation it fixes shares to within one quantum, not who of the
  tier gets the residue. `UpdatesReproduceAuction`. `ShadowsMatchEngine`: exposures and the publisher's mirror
  are what one would derive from the engine, and after every command, refused ones
  included, the history passes its own audit, and what it comes to is the engine
  (`EngineRestores`). `ImplementsReserve`: an ordinary
  command leaves enough to withdraw or uncross every order and to close.

## 5. The proofs

Each proof module extends the module it is about. Theorems hold for every value
of the constants that satisfies the modules' named `ASSUME`s.

* **`JournalProofs`.** `IInv` is `TypeOK`, `FilesVerified` (each file a failure may
  leave is contiguous from its effective first sequence and holds anchors only at
  its head), `BoundaryInLog` (a captured boundary names a frame of the log),
  `PhaseKnows` (what the process knows of its file in each phase: how far behind
  the last frame it stands, what is staged, when a former file may exist), and the
  two promises. The data lemmas are stated once: what a prefix, an extension and a
  cutover do to a verified file (`PrefixVerified`, `ExtensionVerified`,
  `CutoverVerified`) and to the frames it holds (`HeldByExtension`,
  `HeldByCutover`, `OneHolder`). Every action then either extends the file,
  shortens it no further than `synced`, or replaces it by its cut. The assumption
  that matters is `PowerFailures => Durability \in {"SyncData", "SyncAll"}`: with
  weaker settings the code promises survival of process death only, and the module
  asks no more of it. *Theorems:* `JournalInvariant`, `JournalTypes`,
  `JournalKeepsPromises`, `JournalSequencesUnique`, `JournalWriterAtTail`,
  `JournalVerified`, `JournalWriterBehindVerified`.

  The module also holds the proofs of `WriterLease`. `OneWriter` is not inductive: a
  removal in progress was decided by an earlier read. `LeaseIInv` adds that every
  identity in use was issued (`IdentitiesIssued`), that handles have different ones
  (`IdentitiesDistinct`), that the file names the handle which is about to write or
  remove it (`FileNamesOwner`), and that a recovery in progress removes a dead owner's
  lease (`RecoveryNamesDead`). Mutual exclusion follows because one file has one name.
  *Theorems:* `LeaseInvariant`, `LeaseExclusion`, `LeaseKept`, `LeaseHeldAlways`.

* **`DurableBookProofs`.** The composition of log, snapshots and process. Every one
  of its properties quantifies over what the device may keep, and none is
  inductive. `BookInv` says that *there is one history* of distinct commands that
  everything agrees with: the log and the file a power loss would put back
  (`FileTells`), every snapshot in place, staged or on the device, the captures
  still usable, the answers given, and what each step of an open, a submission
  or a cutover holds in memory (`StepKnows`). A file tells a history by its
  sequence numbers: 2k is the k-th command, 2k+1 its report, an anchor at 2k+1 or
  behind stands for the first k. `FloorLast` is the last number that no failure
  takes; `AnswersWithin` puts every answer below it, and `AnchorsKept` says that
  the snapshot which an anchor names, in any file that may survive, stays, unless it is
  torn. A file that passed no barrier, or is torn, is only where an operator put it
  (`promoted`), so that every slot filled by a write alone is on the device (`Sound`);
  `FallsBack` and `Remains` say what a power loss leaves of names and bytes. `ReadBack` shows that recovery of such a file returns exactly the prefix
  of the history it tells; `ReopensTo` extends this to the composed `Recovery`.
  Power loss is the one step that shortens the history
  (`PowerLossForgets`), and by no more than the floor allows, and the one that tears a
  file (`OnlyPowerTears`). A shard whose log names a torn slot takes no step but those of an
  opening that fails (`RefusesTorn`, `TornShard`), so that it stays torn (`TornSteps`): its
  abstract log is lost for good, which is `Lose` of `ShardLog`. Otherwise the refinement to
  `ShardLog` follows from how a step moves the history: it appends one command,
  gives one answer, drops unanswered commands at the end, or leaves all alone.
  `ShardAssumption` restates the journal's assumption on barriers, and that
  `NoFile` is not a command or a content. *Theorems:* `BookInvariant`,
  `ShardAlwaysRecovers`, `AnswersAreKept`, `AcceptedCapturesCutOver`,
  `ShardImplementsLog`.

* **`ShardsProofs`.** All the shards over `RecordLog` together, and the ledger in
  particular. A ledger's log is `Plain`, the records themselves, or `Cut`: an anchor
  that stands for the records of the snapshot in its slot, and the records behind it.
  `Told` is what either tells. Neither property of the ledger is inductive: memory is
  compared with the one log a process reads, while a crash may leave any of `images`.
  `LedgerInv` says of every log that may be left (`LogsKeep`) that the snapshot its
  anchor asks for is whole, that what it tells was accepted record by record from an
  empty ledger (`Taken`), and that it names every receipt at its place (`Named`); of any
  two of them that one begins the other, or has a single record more behind a failure
  (`ImagesNear`); and of the process what it holds at each step (`LedgerKnows`): the
  ledger that posting the told records leads to, of which replay holds a beginning
  (`Holds`). That posting keeps the list of records, one more each time, is
  `HoldsTold`; that the next record is accepted again, with the preparation it had,
  is `HoldsNext`. `StorageCarriesTheLedger` follows.

  Of the risk, auction and coupled shards, `Inv` is: each image
  of the log a crash may leave is of the grammar definition, profiles, commands
  with reports, or begins with an anchor (`LogsSound`), a snapshot file is whole
  or absent and stands for a beginning of the told history (`WholeParts`,
  `FilesHold`), and what the process knows at each step of opening, replaying,
  submitting and cutting over (`ProcessKnows`, `CaptureKnows`, `SlotKnows`).
  `OpensAsLogged` shows that opening such a log, with whatever configuration, comes
  to what it tells or refuses and leaves it alone.

  The refinement takes what any shard's log says as its abstract log (`Said`: the told
  records, or the commands among the frames), and needs of each step only that it begins
  to write, is one of the storage's, or leaves the log alone (`LogStep`). Then `visible`
  moves from one candidate to another, so that what is said is a beginning or one saying
  more (`CandidateNear`): a `Sequence` or a `Forget`. `HistoriesSaid` shows that no answered place
  is forgotten. A commit and a written report are the two steps that answer.

  The module begins with the ledger in memory. `CommitsArePosts`: committing a
  preparation held over other commits leaves the ledger as posting its request at once
  would, or changes nothing; the invariant `TokensHold` says that a token whose expected
  length is the present one is what preparing its request now would give.
  `AddThreeIsExact`: for every width, a correction's three terms are added in an order
  without overflow whenever their sum is an amount. It ends with the closed periods. A
  batch is checked entry by entry as it runs, so that what it closes or reopens counts for the
  entries behind: `BatchRunSteps` unfolds the fold, `BatchPeriod` concludes that a batch
  without a reopening is dated behind the period closed before it, and `PeriodRespected` says
  so of every form of record. The ledger's entries, flattened from its records, grow
  at their end only (`FlattenAppend`, `EntriesGrow`), hence `ClosedPeriodsAlwaysStand`.
  *Theorems:* `ShardsInvariant`, `StorageCarriesTheLedger`, `ShardsImplementLog`,
  `CommitsArePosts`, `AddThreeIsExact`, `ClosedPeriodsAlwaysStand`, `ShardInvariant`,
  `ShardsComeBack`, `AnswersStayLogged` (a stronger form than the run checks: the
  answer is in every image at its place), `ShardOneConfiguration`.

* **`SegmentedJournalProofs`.** `EveryCrashOpens` speaks of every mixture of old and new
  names and of every loss of unsynchronized frames, and says nothing of the running call:
  it is far from inductive. `DirectoryInv` is built in three layers. A *chain* of segments
  `Holds` a log if every frame is where its number says and each segment ends where
  the next begins; that the end of the chain is the end of the log, and that each number
  is found in the last segment that starts by it, is `LastOfChain` and `FrameOfChain`.
  Names and files *stand* for a log (`Stood`) if what is read as their chain holds it and,
  up to some number, its frames are synchronized in segments whose names are on the
  device; what a power failure leaves of a chain that stands is a chain that holds a
  beginning of the log, at least that far (`Survive`, `StoodSurvives`): a lost name
  can only be the last, and the frames kept of each segment before it are all of them.
  A *marker* is `Safe` if the log its segments stand for covers what was settled and each
  of the beginnings that may survive is one that `RecordLog` lets survive.
  `WhatStands` then says: either nothing was logged yet (`Bare`), or both the
  marker a process reads and the one on the device are safe. The rest is what the writer
  knows: the device has every name unless one is being published (`DeviceFollows`), no
  segment is of a generation to come (`Young`), a boundary ends a frame (`BoundaryFits`),
  what rotation and append stand on (`RotationReady`, `WriteFits`), and, of a cutover,
  that its staged segments stand for the log it writes as far as it got (`StagedStands`,
  `FlightStands`). An append lengthens a log (`StoodGrows`), a rotation adds an empty end
  to a chain (`StoodNext`), staging builds a second chain that no marker selects yet
  (`EndGrows`, `EndNext`) and that covers all the first did (`CoversNew`).
  A crash also finds the first marker half written: then the directory is bare.

  The refinement needs nothing more. Between calls the log a process reads is
  the visible one, during a call it is the call's old log, so that publishing a marker,
  which changes what is read, is no step yet. `CloseSegment` is `SyncLog`; `Appended`,
  `Installed` and the return from an unlisted directory are `Acknowledge`; a failure
  is `Fail` with what is read then (`CutoverFailsKeeps`, `AppendFailsKeeps`); a
  power failure is `LosePower`, to one of the surviving logs (`LosePowerKeeps`). Under
  `Buffered` the abstract log does not move. Assumed: segments hold a frame at least, and
  `Nothing` is none of the data. *Theorems:* `DirectoryInvariant`,
  `EveryCrashOpensAlways`, `SegmentsImplementRecordLog`.

  Together with `ShardsImplementLog` this closes a chain: the shards are proved over
  `RecordLog`, and the segmented journal is proved to be one.

* **`FeedProofs`.** `RingInv` relates the ring's head, length and
  last sequence to the published feed; that slot k holds its update needs the
  modulus arithmetic of `SlotArithmetic` across wraps, overlapping pushes and
  rebuilt rings. `FeedInv` adds that each published update leads from the depth
  shown before it to the depth shown behind it (`ShownFollows`), and that a replica
  stands at a depth that was published. The core is `FollowingPublished`: a run of
  updates that starts where the replica stands and is a part of the feed takes it
  to the depth published at its end, whether they come as batches, single updates,
  pages or behind a snapshot. Damage is a print of one lot too many inside a batch;
  it poisons a replica and never misleads one. *Theorems:* `RingTypeCorrect`, `RingIsSuffix`, `PagesAreTheFeed`,
  `FeedInvariant`, `ReplicasShowThePublished`, `ReplicasNeverGoBack`,
  `FeedPagesGoOn`, `OnlyDamageDoes`.

* **`IndexProofs`**, of `ProbeTable`. `TableInv` is `CrossLinks` (an occupied bucket and its
  entry name each other), `EntriesArePlain` (the entries are the plain map, but for
  the one under removal), `ChainsClosed` (between a key's home and its bucket no
  bucket is vacant, the hole of a removal excepted), `RemovalKnows` (everything
  between hole and scan is occupied) and `ThroughHole` (whoever is reached through
  the hole stands at the scan or behind it). The lemmas are about places on a circle:
  `Circle`, and that distances from a home order the places behind it. When the scan
  meets a vacant bucket, nobody is left that is reached through the hole, so that the
  hole may stay. *Theorems:* `TableInvariant`, `TableAlwaysMap`.

* **`AuctionProofs`.** `IndicationIsCurrent` compares what a sweep over transitions found
  with every price of the band. Interest is a sum over prices, and sums are folds: `SumChosen`
  takes one term off a fold, `MonotoneInterest` concludes that the higher the price the less
  is bid and the more is asked. `SweptTo` is what the sweep knows when it stands at a
  transition: the best of the prices below, and what clears at the present one. It holds from
  transition to transition, since all prices between two of them clear the same lots, of
  which `IntervalCandidatePrice` names the best (`BetterInside`); and the sweep may forget
  all but the best, because whatever loses to an earlier price goes on losing where less is bid
  and more asked (`BetterCarries`, with every tie rule in turn). The engine adds that its
  indication, if any, is one computed from the book as it is (`ShowsItsBook`), for every
  command that changes the book drops it, and that its book is well formed and in whole quanta
  (`BookHolds`): after an uncross too, since every plan gives an order at most its lots and
  whole quanta (`PlanFits`, for both policies).

  The refinement to `AuctionReserve` counts the events of an uncross. `FewTrades`: a pair of
  trades ends where some fill does, so there are no more of them than orders filled.
  `SomebodyWhole`: one order at least is filled whole or not at all, for a side that is filled
  in part everywhere has one limit, under either policy (`AllInPart`), and of two such
  sides the smaller would be executed whole (`OneLimit`). `UncrossCosts` adds them up with the cancellations, each
  of another order (`FewCancellations`): trades, cancellations and the completion are at most two
  for an order that leaves and one for an order that stays. With `ReserveSuffices` it
  follows that the engine always has room to wind its auction down. Assumed: what the
  engine's constructors check of limits and offers. *Theorems:* `SweepFindsBest`,
  `EngineAlwaysHolds`, `IndicationAlwaysCurrent`, `EngineImplementsReserve`,
  `EngineCanWindDown`.

  To be reasoned about, sorting is defined by rank in these modules: the k-th of `Ascending`
  and `ByPriority` is the element with k - 1 before it. The sweep is a fold of
  `PassTransition` over the transitions in order.

* **`AuctionReserve`** (the proof stands in the module). `ReserveSuffices`: an auction that keeps its reserve when
  ordinary commands run can be wound down from every state, for every limit of
  open orders.

* **`IndexProofs`**, of `BookHistory`. `HistoryInv` says of every book the history went through,
  not of the last one only, that it keeps to its tails (`BookHolds`), since a checkpoint
  may bring any of them back; and of every preparation that, if it is of this book and
  of its whole history, it says what preparing it now would (`TokenHolds`). The heart is
  the arithmetic of the tails (`TailKept`): behind the start of a tail a command is let
  in only if it is a cancellation the book accepts, so that the orders left are those
  before it less the removed. An execution outside the tails may add orders, but then
  the whole tail is unused, and it was made as long as orders may be active. A
  preparation behind another commit, or of another book, is never usable again
  (`TokenOutdated`). The limits are assumed to be what `OrderBookLimits::new` accepts, and
  nothing of the orders. *Theorems:* `BookHistoryInvariant`, `TailsAreKept`,
  `PreparationsAreCurrent`.

**Only model-checked, and why.** Liveness and `ENABLED` are outside the prover:
`Reopens`, `CatchesUp`, `BacklogDrains`. What a fold or a flattened sequence computes
needs an induction of its own for each operator it is folded with (from the least
counterexample, as for batches in `ShardsProofs`), and what a filter or a sort computes
is beyond the prover where it is written with `SelectSeq`, `SortSeq` or a recursive operator,
which it does not expand.
So these remain: the order book's and the auction's executions
(`PreviewsExact`, `BookStands`, `ExecutionIsFair`, `ReportBounded`,
`StopsFollowReference`, `UncrossIsFair`), the shadows built
from reports (`ShadowsMatchBook`, `ShadowsMatchEngine`, `ReservedCoversTraded`,
`UpdatesReproduceDepth`, `UpdatesReproduceAuction`), the second derivation of a
checkpoint (a part of each of the former two), the ledger's indexes and
balances (`LedgerIsItsRecords`; that they are those of the logged
records is proved), and the shape of the balanced tree, which recursive operators walk
(`TreeIsOrdered`).

## 6. Where code and documentation differ

Each with a run that TLC refutes:

* `account_capacity` - the preflight of a resting order at `max_active_accounts`
  counts an account as released when its orders are opposite and at crossed
  prices, dormant stops included, although matching never removes a dormant stop.
  The order is admitted and the assertion in `append_order` fails
  (`matching.rs:14487`).
* `stale_replace` - a replacement of an auction order is prepared, its target
  cancelled, the preparation committed: risk looks for the target's reservation
  before the engine finds the preparation stale, and panics where the
  documentation promises an error (`auction_risk.rs:374`).
* `listing_fails` - an I/O error in listing the directory right after a cutover
  selected its new generation is returned without poisoning the journal. The shard
  keeps the old slot; its next checkpoint overwrites the one the log's anchor
  names, and after a crash the ledger does not open again
  (`segmented_journal.rs:1071`).
* `unsynchronized_slot` - `recover_pending` promotes a staging file that was written but
  never synchronized by renaming it and synchronizing the directory
  (`snapshot.rs:1016`). The next write of the same checkpoint finds it in place and
  reports success (622-628), and the log is cut over to an anchor that names it. A
  power loss may tear the file, and the shard does not open again, while
  `docs/assumptions.md` (A58, 1386-1387) says a crash exposes a complete pair.
  `fsync` of the pending file before its rename would close it.
* `checkpoint_admission` - the audit of a book checkpoint admits every stop in the
  trading state of the instrument's genesis (`matching.rs:6554` through
  `instrument.rs` 936-938), contrary to the comment at `instrument.rs` 942-943. A
  book that was defined as halted and opened by a control cannot be captured or
  restored from its first stop on.

Met while reading, without a run of their own:

* The first marker of a segmented journal is taken from the page cache by the next
  opener without a barrier of its own (`segmented_journal.rs` 1519-1556).
* A reopened shard answers retries from a report frame whose barrier never
  completed; a power loss may take that frame back (`durable.rs:750`). The
  answer's content stands, since the command is durable and executes to the same
  report.
* A report that exceeds the journal's payload limit is refused after its command
  was acknowledged; each reopen meets the same refusal (`durable.rs:1265`).

## 7. What is not modelled, and the plan

Not modelled: conditional and pegged submissions, quotes and queries; amendment of
profiles, portfolio queries; the auction's queries, and the
auction replica's single updates, snapshots and replay (the continuous feed's are
in `Feed`); the ledger's constructors for settlements and fees, which build such
records, reconciliation and statements, which only read; storage other than
`SyncAll` under `DurableShard` and `DurableLedger`; the segmented variant under
the matching shard; the latch behind a checkpoint that verifies wrong, which a
deterministic engine does not reach. The arena of events appears
as sequences. In the models of files a
record decodes as itself or ends the verified file; that it does so is `Codec`'s.

In this order:

1. Proofs: `UncrossIsFair`, from `PlanFits` and the sums of `AuctionProofs`.
