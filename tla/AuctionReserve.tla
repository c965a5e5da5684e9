--------------------------- MODULE AuctionReserve ---------------------------
(***************************************************************************)
(* What the two bounded histories of a call auction promise, with no       *)
(* orders, prices or events in it: only how many orders are open, and how  *)
(* many commands and events are left.                                      *)
(***************************************************************************)
EXTENDS Integers, TLAPS

CONSTANT MaxOrders      \* a natural number

VARIABLES
    phase,
    orders,         \* orders open
    commandsLeft,   \* commands the history has room for
    eventsLeft      \* events it has room for

vars == <<phase, orders, commandsLeft, eventsLeft>>

Phases == {"closed", "collecting", "frozen"}

TypeOK ==
    /\ phase \in Phases
    /\ orders \in 0 .. MaxOrders
    /\ commandsLeft \in Nat
    /\ eventsLeft \in Nat

\* The least an ordinary command leaves.
FullReserve(commands, events) == commands >= MaxOrders + 2 /\ events >= 2 * MaxOrders + 2

Init ==
    /\ phase = "closed"
    /\ orders = 0
    /\ commandsLeft \in Nat /\ eventsLeft \in Nat
    /\ FullReserve(commandsLeft, eventsLeft)

\* An ordinary command may do anything, for it leaves the whole reserve.
Work ==
    /\ phase' \in Phases
    /\ orders' \in 0 .. MaxOrders
    /\ commandsLeft' = commandsLeft - 1
    /\ eventsLeft' \in 0 .. eventsLeft
    /\ FullReserve(commandsLeft', eventsLeft')

\* Orders withdrawn by one command cost two events each at most.
Withdraw ==
    /\ orders' \in 0 .. orders - 1
    /\ commandsLeft' = commandsLeft - 1
    /\ eventsLeft' \in Nat
    /\ eventsLeft - eventsLeft' \in 1 .. 2 * (orders - orders')
    /\ UNCHANGED phase

\* An auction moves on to be uncrossed, or is given up.
WindDown ==
    /\ \/ phase = "collecting" /\ phase' \in {"frozen", "closed"}
       \/ phase = "frozen" /\ phase' = "closed"
    /\ commandsLeft' = commandsLeft - 1
    /\ eventsLeft' = eventsLeft - 1
    /\ UNCHANGED orders

\* An uncross costs two events for every order that leaves, and one for
\* every order that stays.
Uncross ==
    /\ phase = "frozen" /\ phase' = "closed"
    /\ orders' \in 0 .. orders
    /\ commandsLeft' = commandsLeft - 1
    /\ eventsLeft' \in Nat
    /\ eventsLeft - eventsLeft' \in 1 .. 2 * orders - orders'

Next == Work \/ Withdraw \/ WindDown \/ Uncross

Spec == Init /\ [][Next]_vars

\* An auction in progress can always be wound down: every order withdrawn or
\* uncrossed and the auction closed, one command each.  What an uncross
\* leaves in the book can be withdrawn, as far as commands go.
CanWindDown ==
    /\ phase = "collecting" => commandsLeft >= orders + 2 /\ eventsLeft >= 2 * orders + 2
    /\ phase = "frozen" => commandsLeft >= orders + 1 /\ eventsLeft >= 2 * orders + 1
    /\ phase = "closed" => commandsLeft >= orders

----------------------------------------------------------------------------
(* The reserve is enough, for every limit of open orders. *)

IInv == TypeOK /\ CanWindDown

\* The invariant of a state with these values.
Holds(p, n, c, e) ==
    /\ p \in Phases /\ n \in 0 .. MaxOrders /\ c \in Nat /\ e \in Nat
    /\ p = "collecting" => c >= n + 2 /\ e >= 2 * n + 2
    /\ p = "frozen" => c >= n + 1 /\ e >= 2 * n + 1
    /\ p = "closed" => c >= n

LEMMA InitHolds == ASSUME MaxOrders \in Nat, Init PROVE IInv
  BY DEF Init, IInv, TypeOK, CanWindDown, FullReserve, Phases

\* Every step keeps the type and the reserve of the phase it reaches.
LEMMA StepHolds == ASSUME MaxOrders \in Nat, IInv, [Next]_vars PROVE IInv'
  <1> DEFINE p == phase'
             n == orders'
             c == commandsLeft'
             e == eventsLeft'
  <1>0. Holds(phase, orders, commandsLeft, eventsLeft)
    BY DEF IInv, TypeOK, CanWindDown, Holds
  <1>1. CASE Work
    <2>1. /\ p \in Phases /\ n \in 0 .. MaxOrders
          /\ c = commandsLeft - 1 /\ c >= MaxOrders + 2
          /\ e \in 0 .. eventsLeft /\ e >= 2 * MaxOrders + 2
      BY <1>1 DEF Work, FullReserve
    <2> HIDE DEF p, n, c, e
    <2>2. Holds(p, n, c, e)
      BY <1>0, <2>1 DEF Holds, Phases
    <2> QED
      BY <2>2 DEF Holds, IInv, TypeOK, CanWindDown, p, n, c, e
  <1>2. CASE Withdraw
    <2>1. /\ p = phase /\ n \in 0 .. orders - 1
          /\ c = commandsLeft - 1
          /\ e \in Nat /\ eventsLeft - e \in 1 .. 2 * (orders - n)
      BY <1>2 DEF Withdraw
    <2> HIDE DEF p, n, c, e
    <2>2. Holds(p, n, c, e)
      BY <1>0, <2>1 DEF Holds, Phases
    <2> QED
      BY <2>2 DEF Holds, IInv, TypeOK, CanWindDown, p, n, c, e
  <1>3. CASE WindDown
    <2>1. /\ \/ phase = "collecting" /\ p \in {"frozen", "closed"}
             \/ phase = "frozen" /\ p = "closed"
          /\ n = orders /\ c = commandsLeft - 1 /\ e = eventsLeft - 1
      BY <1>3 DEF WindDown
    <2> HIDE DEF p, n, c, e
    <2>2. Holds(p, n, c, e)
      BY <1>0, <2>1 DEF Holds, Phases
    <2> QED
      BY <2>2 DEF Holds, IInv, TypeOK, CanWindDown, p, n, c, e
  <1>4. CASE Uncross
    <2>1. /\ phase = "frozen" /\ p = "closed" /\ n \in 0 .. orders
          /\ c = commandsLeft - 1 /\ e \in Nat
      BY <1>4 DEF Uncross
    <2> HIDE DEF p, n, c, e
    <2>2. Holds(p, n, c, e)
      BY <1>0, <2>1 DEF Holds, Phases
    <2> QED
      BY <2>2 DEF Holds, IInv, TypeOK, CanWindDown, p, n, c, e
  <1>5. CASE UNCHANGED vars
    BY <1>5 DEF vars, IInv, TypeOK, CanWindDown
  <1> QED
    BY <1>1, <1>2, <1>3, <1>4, <1>5 DEF Next

\* However an auction goes on, its histories keep room for every command
\* that winds it down.
THEOREM ReserveSuffices == ASSUME MaxOrders \in Nat PROVE Spec => []CanWindDown
  <1>1. Init => IInv
    BY InitHolds
  <1>2. IInv /\ [Next]_vars => IInv'
    BY StepHolds
  <1>3. IInv => CanWindDown
    BY DEF IInv
  <1> QED
    BY <1>1, <1>2, <1>3, PTL DEF Spec

=============================================================================
