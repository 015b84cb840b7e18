---------------------------------- MODULE Demo ----------------------------------
(***************************************************************************)
(* The callers in the repository: runRefundDemo (src/src/demo.js) and      *)
(* runInventoryDemo (src/src/inventory-demo.js).  Both are the same        *)
(* straight line of awaits over one action: prepare it, then execute,      *)
(* reconcile, verify, remediate and reconcile the remedy, each at most     *)
(* once and only in the state that asks for it.  Nothing is ever retried.  *)
(*                                                                         *)
(* The clock is a ManualClock that nobody moves, so now stays where it is. *)
(* A handler that throws ends the run; here it leaves the script to skip   *)
(* every visit that remains, which ends it as well: the one throw the      *)
(* connectors cause leaves the action FAILED, which no visit asks for.  A  *)
(* fault is drawn for each call instead of for the run, and the second     *)
(* execute of the permit-replay fault is left out: the rail refuses it     *)
(* before it reads anything but the permit.                                *)
(***************************************************************************)
EXTENDS ConnectorProperties

ASSUME DemoAssumption == Cardinality(Action) = 1

VARIABLE step       \* where the script stands

dvars == <<vars, cvars, step>>

Subject == CHOOSE a \in Action : TRUE

Visits == {"execute", "reconcile", "verify", "remediate", "reconcileRemedy"}

\* The state a visit asks for.
Asks == [v \in Visits |->
            CASE v = "execute" -> "PERMITTED"
              [] v = "reconcile" -> "UNKNOWN"
              [] v = "verify" -> "EXECUTED"
              [] v = "remediate" -> "REMEDY_DUE"
              [] v = "reconcileRemedy" -> "REMEDY_UNKNOWN"]

Handle(v) ==
    CASE v = "execute" -> CallExecute(Subject)
      [] v = "reconcile" -> CallStatus(Subject)
      [] v = "verify" -> CallObserve(Subject)
      [] v = "remediate" -> CallRemediate(Subject)
      [] v = "reconcileRemedy" -> CallRemedyStatus(Subject)

MutantFollows == [v \in Visits |->                  \* verify before reconcile
                    CASE v = "execute" -> "verify"
                      [] v = "verify" -> "reconcile"
                      [] v = "reconcile" -> "remediate"
                      [] v = "remediate" -> "reconcileRemedy"
                      [] v = "reconcileRemedy" -> "over"]

Follows == [v \in Visits |->
              CASE v = "execute" -> "reconcile"
                [] v = "reconcile" -> "verify"
                [] v = "verify" -> "remediate"
                [] v = "remediate" -> "reconcileRemedy"
                [] v = "reconcileRemedy" -> "over"]

\* The script awaits nothing.
Idle == \A op \in Operations : actions[Subject].awaiting[op] = 0

-------------------------------------------------------------------------------
\* prepareRefund, prepareInventory: the policy always allows.
Prepare ==
    /\ step = "prepare"
    /\ Quietly(Subject)
    /\ actions'[Subject].state # "DENIED"
    /\ step' = IF actions'[Subject].state = "PERMITTED" THEN "execute" ELSE "prepare"

Visit(v) ==
    /\ step = v
    /\ Idle
    /\ actions[Subject].state = Asks[v]
    /\ Handle(v)
    /\ step' = Follows[v]

\* A visit in another state is skipped.  So is execute under the fault
\* action-mutation: the rail refuses a proposal that is not the permit's.
Skip(v) ==
    /\ step = v
    /\ Idle
    /\ v = "execute" \/ actions[Subject].state # Asks[v]
    /\ step' = Follows[v]
    /\ UNCHANGED <<vars, cvars>>

Resume ==
    /\ \/ DeliverExecute(Subject) \/ DeliverStatus(Subject)
       \/ DeliverObserve(Subject)
       \/ DeliverRemediate(Subject) \/ DeliverRemedyStatus(Subject)
       \/ DeliverObserveRemedy(Subject)
    /\ UNCHANGED step

DemoInit == ConnectorInit /\ step = "prepare"

DemoNext ==
    \/ Prepare
    \/ \E v \in Visits : Visit(v) \/ Skip(v)
    \/ Resume

\* The script is one asynchronous function, and every promise it awaits settles.
DemoSpec == DemoInit /\ [][DemoNext]_dvars /\ WF_dvars(DemoNext)

-------------------------------------------------------------------------------
Kept == Cardinality(StillLive(Subject))

\* The action is concluded, and the caller can tell how.
Concluded ==
    LET c == actions[Subject]
    IN \/ /\ c.state = "CLOSED"
          /\ Exportable(c) /\ VerifiesBundle(c)
          /\ c.receipt[1].outcome # "disputed" => Kept = 1
       \/ c.state = "FAILED" /\ c.recourse = "released" /\ Made(Subject) = {}
       \/ c.state = "PERMITTED" /\ c.execute_calls = 0 /\ Made(Subject) = {}

(* One pass of the script is enough: whichever fault strikes which call,   *)
(* the run ends with a receipt whose bundle verifies and, unless it is     *)
(* disputed, one effect standing; with a confirmed absence of effect; or,  *)
(* where execute was refused, with nothing called.  The script retries     *)
(* nothing, so every state it leaves an action in must be final.           *)
OnePassSuffices == <>[](step = "over" /\ Idle /\ Concluded)
===============================================================================
