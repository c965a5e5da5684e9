-------------------------- MODULE AuctionPreparation --------------------------
(***************************************************************************)
(* Replacements of the managed auction engine in their two halves.  What   *)
(* was prepared may be committed after other commands were: the engine     *)
(* then finds it stale, but risk is asked first.                           *)
(***************************************************************************)
EXTENDS AuctionRisk, TLC

VARIABLES
    held,       \* the prepared replacement, if any
    outcome     \* how the last commit of one ended

preparationVars == <<riskVars, held, outcome>>

Nothing == <<>>

PreparationInit == Init /\ RiskInit /\ held = Nothing /\ outcome = "none"

\* The engine approves the replacement and notes how long its histories are.
PrepareReplace(id, offer) ==
    /\ held = Nothing
    /\ CanSubstitute(id, offer)
    /\ HistoryHasRoom(FALSE, 2)
    /\ held' = <<[id |-> id, offer |-> offer, commands |-> commands, events |-> events]>>
    /\ UNCHANGED <<riskVars, outcome>>

IsStale == held[1].commands # commands \/ held[1].events # events

TargetIsReserved == held[1].id \in DOMAIN risk.reservations

\* Authorization looks the target's reservation up and expects to find it.
CommitPanics ==
    /\ ~TargetIsReserved
    /\ outcome' = "panicked"
    /\ UNCHANGED riskVars

CommitFindsStale ==
    /\ TargetIsReserved /\ IsStale
    /\ outcome' = "stale"
    /\ UNCHANGED riskVars

CommitFresh ==
    /\ TargetIsReserved /\ ~IsStale
    /\ \/ ManagedReplace(held[1].id, held[1].offer)
       \/ ~AuthorizeReplace(held[1].id, held[1].offer) /\ ManagedReject
    /\ outcome' = "committed"

CommitReplace ==
    /\ held # Nothing
    /\ CommitPanics \/ CommitFindsStale \/ CommitFresh
    /\ held' = Nothing

\* Any other command is prepared and committed at once.
OtherCommand ==
    /\ \/ \E offer \in Offers : ManagedSubmit(offer)
       \/ \E id \in Active(book) : ManagedCancel(id)
       \/ \E target \in {"collecting", "frozen", "closed"} : ManagedPhaseControl(target)
    /\ UNCHANGED <<held, outcome>>

PreparationNext ==
    \/ \E id \in Active(book), offer \in Offers : PrepareReplace(id, offer)
    \/ CommitReplace
    \/ OtherCommand

PreparationSpec == PreparationInit /\ [][PreparationNext]_preparationVars

----------------------------------------------------------------------------
(* Properties *)

\* The documentation of commit says that a stale preparation is answered with
\* an error.
NeverPanics == outcome # "panicked"

----------------------------------------------------------------------------
(* The instance that is checked: one account with one kind of order, and  *)
(* limits it stays far from.                                              *)

CONSTANT a1

OneOffer == {[account |-> a1, side |-> "buy", limit |-> 1, lots |-> 1, class |-> 1]}

WideProfile ==
    a1 :> [state |-> "active", initial |-> 0,
           limits |-> [orderLots |-> 4, orderNotional |-> 4, orders |-> 4, openLots |-> 4,
                       openNotional |-> 4, long |-> 4, short |-> 4]]

=============================================================================
