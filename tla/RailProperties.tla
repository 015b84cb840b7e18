---------------------------- MODULE RailProperties ----------------------------
(***************************************************************************)
(* What the rail must guarantee, stated over the slices of module Rail.    *)
(***************************************************************************)
EXTENDS Verify, TLC

\* Neither actions nor versions of the implementation are told apart.
Interchangeable == Permutations(Action) \cup Permutations(Implementations)

Slices == {actions[a] : a \in Action}

\* The positions in a log of the transitions to a state.
Entries(c, state) == {i \in Moves(c) : c.events[i].to = state}

\* The outcome a closed action was closed with, which its last transition states.
ClosedAs(c) == c.events[Max(Moves(c))].info

\* The log holds an event of a type.
Logged(c, type) == \E i \in DOMAIN c.events : c.events[i].type = type

-------------------------------------------------------------------------------
(* Invariants. *)

(* The protected operation is called at most once and so is the remedy,    *)
(* whatever overlaps, fails or is retried (permit_uses and the REMEDY_DUE  *)
(* guard of execute and remediate); the counters say how often.            *)
AtMostOneCall ==
    \A c \in Slices :
        /\ c.execute_calls = c.permit_uses /\ c.execute_calls <= 1
        /\ c.remedy_calls = c.remedy_attempts /\ c.remedy_calls <= 1

(* The rail gives recourse back only once nothing is left to undo:         *)
(* withdrawn before execution, confirmed without effect, or concluded by   *)
(* evidence; never while an effect may stand unresolved or is disputed     *)
(* (the release argument of finalizeRecourse).                             *)
RecourseHeldWhileExposed ==
    \A c \in Slices :
        c.recourse = "released" =>
            \/ c.state \in {"EXPIRED", "REVOKED", "FAILED",
                            "SATISFIED", "REMEDIATED"}
            \/ c.state = "CLOSED" /\ ClosedAs(c) # "disputed"

(* Every bundle exportBundle cuts passes verifyBundle: the log replays to  *)
(* CLOSED, the receipt's outcome follows from it, its evidence was fresh   *)
(* and accepted in its phase, and the receipt binds the chain's head.      *)
BundleVerifies ==
    \A c \in Slices : Exportable(c) => VerifiesBundle(c)

(* A failed append leaves the record exactly as the last committed event   *)
(* describes it: state, counters, permit, evidence and recourse status are *)
(* each what the log says (docs/architecture.md, "Every state-changing     *)
(* step commits its audit event before"), and a receipt, if close() came   *)
(* as far as signing one, states the outcome the action was closed with.   *)
RecordFollowsLog ==
    \A c \in Slices : c.state # "UNREGISTERED" =>
        /\ c.state = StateBeforeEvent(c, Len(c.events) + 1)
        /\ c.permit_uses = Cardinality(Entries(c, "EXECUTING"))
        /\ c.remedy_attempts = Cardinality(Entries(c, "REMEDIATING"))
        /\ (c.permit_issued_at # Never) = (Entries(c, "PERMITTED") # {})
        /\ (c.execution = "executed") => Entries(c, "EXECUTED") # {}
        /\ Len(c.evidence) =
              Cardinality({i \in DOMAIN c.events : c.events[i].type \in
                             {"EVIDENCE_ACCEPTED", "REMEDY_EVIDENCE_ACCEPTED"}})
        /\ (c.final_status # "none") =
              (Logged(c, "RECOURSE_FINALIZED") \/ Logged(c, "RECOURSE_STATUS_RECORDED"))
        /\ c.receipt # <<>> =>
              c.state = "CLOSED" /\ c.receipt[1].outcome = ClosedAs(c)

(* Between two segments a transient state always has the one continuation  *)
(* that will leave it, and no continuation waits anywhere else, except the *)
(* overlapping status reads of UNKNOWN and REMEDY_UNKNOWN.  Holds only     *)
(* while store and connector do not throw.                                 *)
NothingStranded ==
    \A c \in Slices :
        /\ c.awaiting["execute"] = (IF c.state = "EXECUTING" THEN 1 ELSE 0)
        /\ c.awaiting["observe"] = (IF c.state = "VERIFYING" THEN 1 ELSE 0)
        /\ c.awaiting["remediate"] = (IF c.state = "REMEDIATING" THEN 1 ELSE 0)
        /\ c.awaiting["observeRemedy"] =
              (IF c.state = "REMEDY_VERIFYING" THEN 1 ELSE 0)
        /\ c.state \in RECEIPT_STATES => c.final_status = "unknown"
        /\ c.state # "BREACHED"

(* A preflight the authorization requires was accepted before the permit   *)
(* was issued, and the log shows it (issuePermit's third gate).            *)
PreflightBeforePermit ==
    \A c \in Slices : c.preflight_required =>
        \A i \in Entries(c, "PERMITTED") :
            \E j \in 1 .. i : c.events[j].type = "RECOVERY_PREFLIGHT_ACCEPTED"

-------------------------------------------------------------------------------
(* Claims of the documentation and the verifier that the code does not keep *)
(* in every environment it accepts: each is refuted by a run of its own.    *)

(* "Receipts bind the chain head": no event follows the one a receipt      *)
(* binds.  Fails when definite remedy answers may change while a status    *)
(* read is pending.                                                        *)
ReceiptBindsHead ==
    \A c \in Slices :
        Exportable(c) => c.receipt[1].event_chain_head = Len(c.events)

(* The record shows a confirmed remedy only after the event that confirms  *)
(* it.  Fails when that event's append throws.                             *)
RemedyResultFollowsLog ==
    \A c \in Slices :
        c.remedy_result = "remediated" => Entries(c, "REMEDY_VERIFYING") # {}

(* The verifier's "Execution occurred outside the permit validity window"  *)
(* never meets a bundle of the rail itself.  Fails under a clock that      *)
(* moves between the expiry check and the append.                          *)
OwnExecutionsVerify ==
    \A c \in Slices : Exportable(c) => ExecutionInsidePermit(c)

(* What the rail takes from a caller, a connector and a source without     *)
(* comparing it with anything: requested_at with the clock, reserved_at    *)
(* with the permit, the currency or SKU of facts with the action's.  The   *)
(* verifier says "Permit was issued outside the proposal window", "Permit  *)
(* was issued before connector recourse was reserved" and "Evidence        *)
(* currency does not match the proposal"; none of these was meant to meet  *)
(* a bundle of the rail itself.  This is the weakest that follows: never   *)
(* all three.  What refutes it refutes each.                               *)
OwnInputsVerify ==
    \A c \in Slices : Exportable(c) =>
        \/ PermitInsideProposal(c)
        \/ ReservationCovers(c)
        \/ \A i \in DOMAIN c.evidence : EvidenceHolds(c, c.evidence[i])

(* An action closes as compensated on evidence observed after its remedy   *)
(* started.  Fails when the source reports an observation taken earlier    *)
(* and still inside the freshness window.                                  *)
CompensatedOnLaterEvidence ==
    \A c \in Slices :
        Exportable(c) /\ c.receipt[1].outcome = "compensated" =>
            \A i \in DOMAIN c.evidence, j \in Entries(c, "REMEDIATING") :
                c.evidence[i].phase = "post-remedy" =>
                    c.evidence[i].observed_at >= c.events[j].at

-------------------------------------------------------------------------------
(* Action properties. *)

(* The remedy that runs for an action with an accepted preflight is the    *)
(* implementation the drill was bound to, even if the connector's callable *)
(* was replaced after the permit (assertRecoveryBinding in remediate).     *)
QualifiedRemedyOnly ==
    [][\A a \in Action :
          actions'[a].remedy_calls # actions[a].remedy_calls
              /\ actions[a].preflight_required
          => actions[a].qualified_implementation = implementation]_vars

(* Once the receipt is cut nothing of the action changes: no event is      *)
(* appended behind the head it binds and no evidence is added, however     *)
(* late a pending answer arrives.                                          *)
ReceiptIsFinal ==
    [][\A a \in Action :
          Exportable(actions[a]) =>
              /\ actions'[a].receipt = actions[a].receipt
              /\ actions'[a].events = actions[a].events
              /\ actions'[a].evidence = actions[a].evidence]_vars

-------------------------------------------------------------------------------
(* The promise of module Settlement. *)

PhaseOf(c) ==
    CASE c.state \in {"EXPIRED", "REVOKED"} -> "withdrawn"
      [] c.state \in {"EXECUTING", "EXECUTED", "UNKNOWN", "VERIFYING"} -> "exposed"
      [] c.state = "FAILED" -> "absent"
      [] c.state \in {"BREACHED", "REMEDY_DUE"} -> "breached"
      [] c.state \in {"REMEDIATING", "REMEDY_UNKNOWN", "REMEDY_VERIFYING"} ->
            "remedying"
      [] c.state \in RECEIPT_STATES -> RECEIPT_OUTCOME_BY_STATE[c.state]
      [] c.state = "CLOSED" -> ClosedAs(c)
      [] OTHER -> "idle"

Promise == INSTANCE Settlement WITH
    phase <- [a \in Action |-> PhaseOf(actions[a])],
    released <- [a \in Action |-> actions[a].recourse = "released"],
    executions <- [a \in Action |-> actions[a].execute_calls],
    remedies <- [a \in Action |-> actions[a].remedy_calls],
    receipt <- [a \in Action |->
                  IF Exportable(actions[a]) THEN actions[a].receipt[1].outcome
                  ELSE "none"]

(* The rail implements the promise: one exposure, one remedy after a       *)
(* breach, recourse given back only when harmless, one receipt that states *)
(* where the exposure ended.                                               *)
ImplementsSettlement == Promise!Spec

-------------------------------------------------------------------------------
(* Liveness. *)

\* Nothing in the code calls a handler again, so no call is fair.  What is fair
\* is the rest of a call: the connector settles the promise the rail awaits, and
\* the runtime resumes the continuation, each time with some answer.
AnswersArrive ==
    \A a \in Action :
        /\ WF_vars(ExecuteAnswered(a)) /\ WF_vars(ReconcileAnswered(a))
        /\ WF_vars(OutcomeObserved(a))
        /\ WF_vars(RemediateAnswered(a)) /\ WF_vars(ReconcileRemedyAnswered(a))
        /\ WF_vars(RemedyObserved(a))

LiveSpec == Spec /\ AnswersArrive

\* close() refused to sign: the connector no longer knows the reservation, and
\* the action stays where it is for good.
Unsupported(c) == c.state \in RECEIPT_STATES /\ c.final_status = "unknown"

(* A call that was sent always comes to something a caller can act on: the *)
(* effect is confirmed, absent or due a status read, the outcome is        *)
(* settled or due its remedy, the remedy is concluded or due a status read *)
(* - whichever answers come, in whichever order, and even if a receipt     *)
(* cannot be signed.  No action is left in a state only a lost             *)
(* continuation would leave.                                               *)
EveryCallConcludes ==
    \A a \in Action :
        /\ actions[a].state = "EXECUTING" ~>
              actions[a].state \in {"EXECUTED", "UNKNOWN", "FAILED"}
        /\ actions[a].state = "VERIFYING" ~>
              \/ actions[a].state \in {"CLOSED", "REMEDY_DUE"}
              \/ Unsupported(actions[a])
        /\ actions[a].state \in {"REMEDIATING", "REMEDY_VERIFYING"} ~>
              \/ actions[a].state \in {"CLOSED", "REMEDY_UNKNOWN"}
              \/ Unsupported(actions[a])
===============================================================================
