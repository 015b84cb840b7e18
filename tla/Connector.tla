------------------------------- MODULE Connector -------------------------------
(***************************************************************************)
(* The reference connectors, MockRefundConnector and                       *)
(* MockInventoryConnector, under the rail.  Module Rail lets a connector   *)
(* answer anything; here every call runs the connector's method, and the   *)
(* rail resumes with what the method returned.                             *)
(*                                                                         *)
(* A method of a connector is an async function without an await: it does  *)
(* all its work within the call, and only its answer arrives later.  So a  *)
(* call of the rail is joined with the method in one step, the answer      *)
(* waits in `replies`, and the rail's resumption is joined with its        *)
(* delivery.  The two connectors share every line but the supply of        *)
(* effects and the choice of the effect a remedy undoes.  Every action is  *)
(* for one unit of one article.                                            *)
(***************************************************************************)
EXTENDS Rail, TLC, FiniteSetsExt

CONSTANTS
    Keys,       \* idempotency keys
    Orders,     \* target.resource_id
    Products,   \* connectors the rail may be built with
    Baseline    \* units on hand at the start (inventory)

ASSUME ConnectorAssumption ==
    /\ Products \subseteq {"refund", "inventory"}
    /\ Baseline \in Nat
    /\ ~Failures /\ ~FinalAnswers
    /\ ReservedAts = {} /\ ~ForeignFacts      \* dated and reported by themselves

VARIABLES
    product,    \* the connector the rail was built with
    proposal,   \* what the caller proposes and reserves for each action
    effects,    \* refunds or allocations, oldest first
    stock,      \* units on hand
    executions, \* execution results remembered by key
    remedies,   \* remedy results remembered by remedy key
    replies     \* answers on their way to the rail, oldest first

cvars == <<product, proposal, effects, stock, executions, remedies, replies>>

-------------------------------------------------------------------------------
(* What the connector keeps. *)

ExecutionFaults == {"none", "duplicate", "lost-response-before-commit",
                    "lost-response-after-commit"}

RemedyFaults == {"none", "remedy-failure", "remedy-lost-response-before-commit",
                 "remedy-lost-response-after-commit"}

Remember(memory, key, a, status) ==
    [k \in DOMAIN memory \cup {key} |->
        IF k = key THEN [by |-> a, status |-> status] ELSE memory[k]]

MutantForeign(memory, key, a) == FALSE              \* binding not compared
\* rejectForeignIdempotency: the key is bound to another action
Foreign(memory, key, a) == key \in DOMAIN memory /\ memory[key].by # a

\* status() and remedyStatus()
Recall(memory, key) ==
    IF key \in DOMAIN memory THEN memory[key].status ELSE "unknown"

Reply(status) == [status |-> status, at |-> now']

Sent(q, a, op, status) == [q EXCEPT ![a][op] = Append(@, Reply(status))]
Taken(q, a, op) == [q EXCEPT ![a][op] = Tail(@)]

\* The rail's step has called the connector.
Calls(a, op) == actions'[a].awaiting[op] > actions[a].awaiting[op]

-------------------------------------------------------------------------------
(* execute() and status() *)

Wanted(fault) == IF fault = "duplicate" THEN 2
                 ELSE IF fault = "lost-response-before-commit" THEN 0
                 ELSE 1

MutantConfirmed(fault) ==                           \* every lost answer taken
    IF fault \in {"lost-response-before-commit",    \* for no effect
                  "lost-response-after-commit"} THEN "no_effect" ELSE "executed"

\* The result remembered, whether or not its answer is lost.
Confirmed(fault) ==
    IF fault = "lost-response-before-commit" THEN "no_effect" ELSE "executed"

Execution(a) ==
    LET key == proposal[a].key
        effect == [by |-> a, key |-> key, order |-> proposal[a].order,
                   live |-> TRUE]
    IN \/ /\ key \in DOMAIN executions
          /\ replies' = Sent(replies, a, "execute",
                             IF Foreign(executions, key, a) THEN "refused"
                             ELSE executions[key].status)
          /\ UNCHANGED <<product, proposal, effects, stock, executions, remedies>>
       \/ /\ key \notin DOMAIN executions
          /\ \E fault \in ExecutionFaults :
                LET wanted == Wanted(fault)
                    made == IF product = "refund" THEN wanted
                            ELSE Min({wanted, stock})
                IN /\ effects' = effects \o [i \in 1 .. made |-> effect]
                   /\ stock' = IF product = "refund" THEN stock ELSE stock - made
                   \* the first effect is remembered before a second is made
                   /\ executions' = IF wanted > 0 /\ made = 0 THEN executions
                                    ELSE Remember(executions, key, a, Confirmed(fault))
                   /\ replies' = Sent(replies, a, "execute",
                         CASE made < wanted -> "refused"
                           [] made = wanted /\ fault \in {"none", "duplicate"} ->
                                 "executed"
                           [] OTHER -> "lost")
          /\ UNCHANGED <<product, proposal, remedies>>

-------------------------------------------------------------------------------
(* observe() *)

\* Effects that count for an order, whoever made them.
Live(order) == {i \in DOMAIN effects : effects[i].order = order /\ effects[i].live}

\* A source may be stale, and after a remedy it may count one too many.
Reports(a, op) ==
    {"stale"} \cup
    {IF Cardinality(Live(proposal[a].order)) + extra = 1
     THEN "satisfied" ELSE "unsatisfied" :
        extra \in IF op = "observeRemedy" THEN {0, 1} ELSE {0}}

-------------------------------------------------------------------------------
(* remediate() and remedyStatus() *)

MutantOwn(a) == Live(proposal[a].order)             \* whoever made them
\* The effects a remedy may undo: this action's only.
Own(a) == {i \in Live(proposal[a].order) : effects[i].key = proposal[a].key}

MutantRestocked(n) == n                             \* nothing put back
Restocked(n) == IF product = "inventory" THEN n + 1 ELSE n

\* A refund is voided only if it is a duplicate; an allocation always.
Undoable(a) ==
    Cardinality(Own(a)) >= (IF product = "refund" THEN 2 ELSE 1)

\* The rail has read the reservation as active within the same step.
Remedy(a) ==
    LET key == proposal[a].remedyKey
    IN \/ /\ key \in DOMAIN remedies
          /\ replies' = Sent(replies, a, "remediate",
                             IF Foreign(remedies, key, a) THEN "refused"
                             ELSE remedies[key].status)
          /\ actions'[a].recourse = "active"
          /\ UNCHANGED <<product, proposal, effects, stock, executions, remedies>>
       \/ /\ key \notin DOMAIN remedies
          /\ \E fault \in RemedyFaults :
                LET status ==
                        CASE fault = "remedy-lost-response-before-commit" ->
                                "no_effect"
                          [] fault = "remedy-failure" -> "failed"
                          [] OTHER -> IF Undoable(a) THEN "remediated"
                                      ELSE IF product = "refund" THEN "no_change"
                                      ELSE "failed"
                    undone == status = "remediated"
                IN /\ effects' = IF undone
                                 THEN [effects EXCEPT ![Max(Own(a))].live = FALSE]
                                 ELSE effects
                   /\ stock' = IF undone THEN Restocked(stock) ELSE stock
                   /\ actions'[a].recourse = IF undone THEN "consumed" ELSE "active"
                   /\ remedies' = Remember(remedies, key, a, status)
                   /\ replies' = Sent(replies, a, "remediate",
                         IF \/ fault = "remedy-lost-response-before-commit"
                            \/ undone /\ fault = "remedy-lost-response-after-commit"
                         THEN "lost" ELSE status)
          /\ UNCHANGED <<product, proposal, executions>>

-------------------------------------------------------------------------------
(* A call of the rail, joined with the method it calls. *)

Quietly(a) ==
    /\ \/ Propose(a) \/ Authorize(a) \/ ReserveRecourse(a) \/ IssuePermit(a)
    /\ UNCHANGED cvars

CallExecute(a) ==
    /\ Execute(a)
    /\ IF Calls(a, "execute") THEN Execution(a) ELSE UNCHANGED cvars

CallStatus(a) ==
    /\ Reconcile(a)
    /\ replies' = Sent(replies, a, "reconcile", Recall(executions, proposal[a].key))
    /\ UNCHANGED <<product, proposal, effects, stock, executions, remedies>>

CallObserve(a) ==
    /\ VerifyOutcome(a)
    /\ \E report \in Reports(a, "observe") :
          replies' = Sent(replies, a, "observe", report)
    /\ UNCHANGED <<product, proposal, effects, stock, executions, remedies>>

CallRemediate(a) ==
    /\ Remediate(a)
    /\ IF Calls(a, "remediate") THEN Remedy(a) ELSE UNCHANGED cvars

CallRemedyStatus(a) ==
    /\ ReconcileRemedy(a)
    /\ replies' = Sent(replies, a, "reconcileRemedy",
                       Recall(remedies, proposal[a].remedyKey))
    /\ UNCHANGED <<product, proposal, effects, stock, executions, remedies>>

-------------------------------------------------------------------------------
(* A resumption of the rail, joined with the answer it resumes with. *)

Answer(a, op) == Head(replies[a][op])

\* The events the rail's step appends.
Appended(a) == SubSeq(actions'[a].events, Len(actions[a].events) + 1,
                      Len(actions'[a].events))

\* The rail moves to a state first, if the table lets it, and else not at all.
MovesTo(a, to) ==
    IF CanMove(actions[a], to)
    THEN Appended(a) # <<>> /\ Appended(a)[1].to = to
    ELSE Appended(a) = <<>>

\* The rail may call observe() within the same segment.
Delivered(a, op) ==
    /\ LET q == Taken(replies, a, op)
       IN IF Calls(a, "observeRemedy")
          THEN \E report \in Reports(a, "observeRemedy") :
                  replies' = Sent(q, a, "observeRemedy", report)
          ELSE replies' = q
    /\ UNCHANGED <<product, proposal, effects, stock, executions, remedies>>

DeliverExecute(a) ==
    /\ ExecuteAnswered(a)
    /\ MovesTo(a, CASE Answer(a, "execute").status = "executed" -> "EXECUTED"
                    [] Answer(a, "execute").status = "refused" -> "FAILED"
                    [] OTHER -> "UNKNOWN")
    /\ Delivered(a, "execute")

DeliverStatus(a) ==
    /\ ReconcileAnswered(a)
    /\ MovesTo(a, CASE Answer(a, "reconcile").status = "executed" -> "EXECUTED"
                    [] Answer(a, "reconcile").status = "no_effect" -> "FAILED"
                    [] OTHER -> "REVIEW_REQUIRED")
    /\ Delivered(a, "reconcile")

DeliverRemediate(a) ==
    /\ RemediateAnswered(a)
    /\ LET status == Answer(a, "remediate").status
       IN /\ MovesTo(a, CASE status = "remediated" -> "REMEDY_VERIFYING"
                          [] status = "lost" -> "REMEDY_UNKNOWN"
                          [] OTHER -> "REMEDY_FAILED")
          /\ status = "refused" <=> actions'[a].remedy_result = "none"
    /\ Delivered(a, "remediate")

DeliverRemedyStatus(a) ==
    /\ ReconcileRemedyAnswered(a)
    /\ LET status == Answer(a, "reconcileRemedy").status
       IN MovesTo(a, CASE status = "remediated" -> "REMEDY_VERIFYING"
                       [] status \in {"no_effect", "failed"} -> "REMEDY_FAILED"
                       [] OTHER -> "REVIEW_REQUIRED")
    /\ Delivered(a, "reconcileRemedy")

\* Evidence is accepted with the time and facts of the call, if still fresh.
Weighed(a, op) ==
    LET report == Answer(a, op)
        event == Appended(a)[1]
        evidence == actions'[a].evidence
    IN IF report.status = "stale" \/ now - report.at > MaxAge
       THEN event.type \in {"EVIDENCE_REJECTED", "REMEDY_EVIDENCE_REJECTED"}
       ELSE /\ event.type \in {"EVIDENCE_ACCEPTED", "REMEDY_EVIDENCE_ACCEPTED"}
            /\ event.info = report.status
            /\ evidence[Len(evidence)].observed_at = report.at

DeliverObserve(a) ==
    OutcomeObserved(a) /\ Weighed(a, "observe") /\ Delivered(a, "observe")

DeliverObserveRemedy(a) ==
    RemedyObserved(a) /\ Weighed(a, "observeRemedy") /\ Delivered(a, "observeRemedy")

\* recourseStatus() finds the reservation past its expiry.
ReservationExpires(a) ==
    /\ RecourseLapses(a)
    /\ isExpired(actions[a].reserved_until)
    /\ actions'[a].recourse = "expired"
    /\ UNCHANGED cvars

TimePasses == Tick /\ UNCHANGED cvars

-------------------------------------------------------------------------------
ConnectorInit ==
    /\ Init
    /\ product \in Products
    /\ proposal \in [Action -> [key : Keys, remedyKey : Keys, order : Orders]]
    /\ effects = <<>>
    /\ stock = Baseline
    /\ executions = <<>>
    /\ remedies = <<>>
    /\ replies = [a \in Action |-> [op \in Operations |-> <<>>]]

ConnectorNext ==
    \/ \E a \in Action :
          \/ Quietly(a)
          \/ CallExecute(a) \/ DeliverExecute(a)
          \/ CallStatus(a) \/ DeliverStatus(a)
          \/ CallObserve(a) \/ DeliverObserve(a)
          \/ CallRemediate(a) \/ DeliverRemediate(a)
          \/ CallRemedyStatus(a) \/ DeliverRemedyStatus(a)
          \/ DeliverObserveRemedy(a)
          \/ ReservationExpires(a)
    \/ TimePasses

ConnectorSpec == ConnectorInit /\ [][ConnectorNext]_<<vars, cvars>>
===============================================================================
