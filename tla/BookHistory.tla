---------------------------- MODULE BookHistory ----------------------------
(***************************************************************************)
(* The bounded history of an order book (src/src/matching.rs).  Every      *)
(* command leaves its report in the history, for retries, and both the     *)
(* commands and their events are bounded.  The last part of either bound   *)
(* is a tail that only cancellations may enter.  A command is prepared,    *)
(* which decides about it, and committed later; in between other commands  *)
(* may be committed, and the book may be replaced by one that was restored *)
(* from a checkpoint.                                                      *)
(*                                                                         *)
(* The book itself is the set of its active orders: what execution does    *)
(* to them is in OrderBook.  A sweep is any command that cancels what it   *)
(* selects: a mass cancel, an expiry sweep, a block and a closing          *)
(* transition.  A control is one that does not: an enabling or an opening  *)
(* transition.  A trigger is a stop trigger sweep: it executes the orders  *)
(* it selects.                                                             *)
(***************************************************************************)
EXTENDS Integers, Sequences, FiniteSets

CONSTANTS
    BookCommands,       \* records of id, kind and target
    Handles,            \* places a caller keeps preparations at
    MaxActive,          \* orders active at once
    CommandLimit, CommandReserve,
    ReportLimit, EventLimit,
    SelectionBuffers,   \* preparations that may hold a selection at once
    MaxInstances        \* bound: books restored, and the first

VARIABLES
    history,    \* per command: its report, and what the book was behind it
    held,       \* the preparation at each handle
    instance    \* which book this is

historyVars == <<history, held, instance>>

OrdinaryCommands == CommandLimit - CommandReserve
EventReserve == MaxActive + 1
OrdinaryEvents == EventLimit - EventReserve

\* OrderBookLimits::new, and what a command may be.
ASSUME HistoryAssumption ==
    /\ \A command \in BookCommands :
         command.kind \in {"new", "replace", "trigger", "cancel", "sweep", "control"}
    /\ {MaxActive, CommandLimit, CommandReserve, ReportLimit, EventLimit, SelectionBuffers}
         \subseteq Nat \ {0}
    /\ CommandReserve >= MaxActive /\ CommandReserve < CommandLimit
    /\ MaxActive <= OrdinaryCommands
    /\ ReportLimit >= MaxActive + 1
    /\ EventReserve < EventLimit
    /\ ReportLimit <= OrdinaryEvents /\ 2 * MaxActive <= OrdinaryEvents

----------------------------------------------------------------------------
(* The book behind a history *)

NothingHeld == [command |-> "none"]

\* The counts `idle' and `overhead' are of the tails: commands in them that
\* cancelled nothing, and events in them beyond one per cancelled order.
NewBook == [active |-> {}, seen |-> {}, retained |-> 0, idle |-> 0, overhead |-> 0]

Book(h) == IF h = <<>> THEN NewBook ELSE h[Len(h)].book

Known(h, command) == \E i \in DOMAIN h : h[i].command.id = command.id

\* check_business_rules, of which only what depends on the orders is told.
BookRefuses(book, command) ==
    CASE command.kind = "new" -> command.target \in book.seen
      [] command.kind \in {"cancel", "replace"} -> command.target \notin book.active
      [] OTHER -> FALSE

SelectedOrders(book, command) ==
    IF command.kind \in {"sweep", "trigger"} THEN command.target \cap book.active ELSE {}

Arriving(command) == IF command.kind \in {"new", "replace"} THEN {command.target} ELSE {}

IsProtected(command) == command.kind \in {"cancel", "sweep"}

----------------------------------------------------------------------------
(* Preparing *)

\* Mutant of HasCommandRoom: a refusal is recorded wherever there is room.
HasCommandRoomForRefusals(h, command) ==
    /\ Len(h) < CommandLimit
    /\ Len(h) >= OrdinaryCommands => IsProtected(command)

\* check_history_capacity_and_business
HasCommandRoom(h, command) ==
    /\ Len(h) < CommandLimit
    /\ Len(h) >= OrdinaryCommands => IsProtected(command) /\ ~BookRefuses(Book(h), command)

\* check_event_capacity
HasEventRoom(h, command, bound) ==
    LET last == Book(h).retained + bound IN
    /\ last <= EventLimit
    /\ last > OrdinaryEvents => IsProtected(command) /\ ~BookRefuses(Book(h), command)

\* maximum_report_work: the events a report may have.  What matching needs
\* at most is any number here.
ReportBounds(book, command) ==
    CASE BookRefuses(book, command) \/ command.kind \in {"cancel", "control"} -> {1}
      [] command.kind = "sweep" -> {Cardinality(SelectedOrders(book, command)) + 1}
      [] OTHER -> 1 .. ReportLimit

Admits(h, command, bound) ==
    /\ ~Known(h, command)
    /\ HasCommandRoom(h, command)
    /\ bound \in ReportBounds(Book(h), command) /\ bound <= ReportLimit
    /\ HasEventRoom(h, command, bound)

\* A command that selects orders holds a buffer of its book's pool.
NeedsBuffer(book, command) == ~BookRefuses(book, command) /\ SelectedOrders(book, command) # {}

Leased == {handle \in Handles :
             /\ held[handle] # NothingHeld
             /\ held[handle].leased /\ held[handle].instance = instance}

Prepare(handle, command, bound) ==
    /\ held[handle] = NothingHeld
    /\ Admits(history, command, bound)
    /\ NeedsBuffer(Book(history), command) => Cardinality(Leased) < SelectionBuffers
    /\ held' = [held EXCEPT ![handle] =
         [command |-> command, instance |-> instance, expected |-> Len(history),
          refused |-> BookRefuses(Book(history), command), bound |-> bound,
          leased |-> NeedsBuffer(Book(history), command)]]
    /\ UNCHANGED <<history, instance>>

Drop(handle) ==
    /\ held[handle] # NothingHeld
    /\ held' = [held EXCEPT ![handle] = NothingHeld]
    /\ UNCHANGED <<history, instance>>

----------------------------------------------------------------------------
(* Committing *)

\* Mutant of IsUsable: books are told apart by how long their histories are.
IsUsableAnywhere(token) ==
    /\ ~Known(history, token.command)
    /\ token.expected = Len(history)

\* Otherwise the commit answers from the history, or with an error.
IsUsable(token) ==
    /\ token.instance = instance
    /\ ~Known(history, token.command)
    /\ token.expected = Len(history)

\* The book behind a command that the book did not refuse: how many orders
\* it cancelled and how many events it told.
BookAfter(h, active, seen, removed, events) ==
    LET book == Book(h) IN
    [active |-> active, seen |-> seen,
     retained |-> book.retained + events,
     idle |-> IF Len(h) < OrdinaryCommands THEN 0
              ELSE IF removed = 0 THEN book.idle + 1 ELSE book.idle,
     overhead |-> IF book.retained + events <= OrdinaryEvents THEN 0
                  ELSE book.overhead + events - removed]

\* A refusal is one event, and counts as nothing the tail was made for.
BookAfterRefusal(h) ==
    LET book == Book(h) IN
    [book EXCEPT !.retained = book.retained + 1,
                 !.idle = IF Len(h) < OrdinaryCommands THEN 0 ELSE book.idle,
                 !.overhead = IF book.retained + 1 <= OrdinaryEvents THEN 0 ELSE book.overhead]

RecordReport(command, refused, book) ==
    history' = Append(history, [command |-> command, refused |-> refused, book |-> book])

\* New orders, replacements and triggered stops: every order that the
\* execution takes out of the book is in the report.
ExecuteOrder(token) ==
    LET book == Book(history)
        arriving == Arriving(token.command)
    IN  \E active \in SUBSET (book.active \cup arriving), events \in 1 .. token.bound :
           /\ Cardinality(active) <= MaxActive
           /\ Cardinality(book.active \ active) < events
           /\ RecordReport(token.command, FALSE,
                           BookAfter(history, active, book.seen \cup arriving,
                                     Cardinality(book.active \ active), events))

ExecuteControl(token) ==
    LET book == Book(history) IN
    RecordReport(token.command, FALSE, BookAfter(history, book.active, book.seen, 0, 1))

ExecuteCancel(token) ==
    LET book == Book(history) IN
    RecordReport(token.command, FALSE,
            BookAfter(history, book.active \ {token.command.target}, book.seen, 1, 1))

\* One event per order, and one for the completion.
ExecuteSweep(token) ==
    LET book == Book(history)
        removed == Cardinality(SelectedOrders(book, token.command))
    IN RecordReport(token.command, FALSE,
               BookAfter(history, book.active \ SelectedOrders(book, token.command), book.seen,
                         removed, removed + 1))

Executes(token) ==
    CASE token.command.kind \in {"new", "replace", "trigger"} -> ExecuteOrder(token)
      [] token.command.kind = "control" -> ExecuteControl(token)
      [] token.command.kind = "cancel" -> ExecuteCancel(token)
      [] token.command.kind = "sweep" -> ExecuteSweep(token)

\* The risk engine may refuse what the book would not.
RefusedByGate(token) ==
    LET book == Book(history) IN
    RecordReport(token.command, FALSE, BookAfter(history, book.active, book.seen, 0, 1))

Executed(token) ==
    IF token.refused THEN RecordReport(token.command, TRUE, BookAfterRefusal(history))
    ELSE Executes(token) \/ RefusedByGate(token)

Commit(handle) ==
    LET token == held[handle] IN
    /\ token # NothingHeld
    /\ IF IsUsable(token) THEN Executed(token) ELSE UNCHANGED history
    /\ held' = [held EXCEPT ![handle] = NothingHeld]
    /\ UNCHANGED instance

\* from_checkpoint_with_limits: another book, with an earlier history.
Restore(length) ==
    /\ instance < MaxInstances
    /\ history' = SubSeq(history, 1, length)
    /\ instance' = instance + 1
    /\ UNCHANGED held

HistoryInit ==
    /\ history = <<>>
    /\ held = [handle \in Handles |-> NothingHeld]
    /\ instance = 1

HistoryNext ==
    \/ \E handle \in Handles, command \in BookCommands :
         \E bound \in ReportBounds(Book(history), command) : Prepare(handle, command, bound)
    \/ \E handle \in Handles : Commit(handle) \/ Drop(handle)
    \/ \E length \in 0 .. Len(history) : Restore(length)

HistorySpec == HistoryInit /\ [][HistoryNext]_historyVars

----------------------------------------------------------------------------
(* Properties *)

CommandsLeft == CommandLimit - Len(history)
EventsLeft == EventLimit - Book(history).retained

\* The tails keep one command and one event for every active order, and one
\* event for a sweep of all of them.  Only what was let into the tails for
\* that takes from it: commands that cancelled nothing, and completions.
\* Without those, every order can be cancelled, each by itself or all at
\* once, however full the histories are.
CancellationsHaveRoom ==
    LET book == Book(history) IN
    /\ CommandsLeft >= 0 /\ EventsLeft >= 0
    /\ CommandsLeft + book.idle >= Cardinality(book.active)
    /\ EventsLeft + book.overhead >= Cardinality(book.active) + 1

\* Whatever was prepared when, for whichever book: a command is executed as
\* it would be if it was decided about now, within the bounds that hold now.
CommitsAreCurrent ==
    [][ Len(history') > Len(history) =>
          LET entry == history'[Len(history')]
              book == Book(history)
              events == entry.book.retained - book.retained
          IN /\ ~Known(history, entry.command)
             /\ entry.refused = BookRefuses(book, entry.command)
             /\ entry.command.kind = "sweep" /\ entry.book.active # book.active =>
                  events = Cardinality(book.active \ entry.book.active) + 1
             /\ \E bound \in ReportBounds(book, entry.command) :
                  events <= bound /\ Admits(history, entry.command, bound) ]_historyVars

=============================================================================
