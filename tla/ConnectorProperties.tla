-------------------------- MODULE ConnectorProperties --------------------------
(***************************************************************************)
(* What the rail and the reference connectors guarantee together: the      *)
(* rail's view of an effect is the connector's, and one action's remedy    *)
(* leaves other actions' effects alone.                                    *)
(***************************************************************************)
EXTENDS Connector, RailProperties

\* Actions and keys are interchangeable: no action of the model tells them apart.
Symmetry == Permutations(Action) \cup Permutations(Keys)

Made(a) == {i \in DOMAIN effects : effects[i].by = a}

StillLive(a) == {i \in Made(a) : effects[i].live}

(* An action the rail counts as executed has an effect of its own at the   *)
(* connector: a result remembered for another action under the same key is *)
(* never taken for it (rejectForeignIdempotency).                          *)
ConfirmedHasEffect ==
    \A a \in Action :
        Entries(actions[a], "EXECUTED") # {} => Made(a) # {}

(* An action that expired, was revoked, or was confirmed without effect    *)
(* has none: recourse was given back for nothing that stands.              *)
WithdrawnLeavesNoEffect ==
    \A a \in Action :
        \/ actions[a].state \in {"EXPIRED", "REVOKED"}
        \/ actions[a].state = "FAILED" /\ actions[a].execution = "no_effect"
        => Made(a) = {}

(* An action settled by its evidence keeps exactly the one effect it was   *)
(* settled for, whatever remedy another action on the same order runs      *)
(* later ("Only this action's refunds", mock-refund-connector.js).         *)
SettledStands ==
    \A a \in Action :
        Exportable(actions[a]) /\ actions[a].receipt[1].outcome = "settled"
            => Cardinality(StillLive(a)) = 1

(* Units are on hand or allocated and never lost, never released twice and *)
(* never negative ("Inventory is never allowed to go negative, an          *)
(* allocation is never released twice", mock-inventory-connector.js).      *)
StockConserved ==
    product = "inventory" =>
        /\ stock >= 0
        /\ stock + Cardinality({i \in DOMAIN effects : effects[i].live}) = Baseline

(* A refusal the rail takes for definite comes before any effect.  Fails   *)
(* when a duplicated allocation runs out of stock after the first one.     *)
RefusalPrecedesEffect ==
    \A a \in Action : actions[a].state = "FAILED" => Made(a) = {}
===============================================================================
