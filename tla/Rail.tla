--------------------------------- MODULE Rail ---------------------------------
(***************************************************************************)
(* ConsequenceRail (src/src/rail-class.js): the lifecycle of an action,    *)
(* from proposal to receipt, under an arbitrary connector.                 *)
(*                                                                         *)
(* A handler runs without interleaving between two awaits, so each such    *)
(* segment is one action: the call up to its await, then the answer that   *)
(* resumes it.  A segment writes, in turn, the connector, the event store  *)
(* and the record; `actions[a]` is action a's slice of the three, and a    *)
(* segment is a walk through slices.  When the store or the connector may  *)
(* throw (Failures), the walk may stop at any slice on the way.            *)
(***************************************************************************)
EXTENDS Integers, Sequences, FiniteSets, RailState

CONSTANTS
    Action,             \* the proposals a caller may register
    MaxActions,         \* capacity of the in-memory action map
    MaxTime,            \* bound on the clock
    Drift,              \* how far the clock may move inside a segment:
                        \* 0 for ManualClock, 1 for SystemClock
    RequestedAts,       \* requested_at of proposals
    ActionExpiries,     \* expires_at of proposals
    RecourseExpiries,   \* expires_at of reservations
    ReservedAts,        \* reserved_at of reservations, where the connector
                        \* does not date them by the clock
    RemedyWindow,       \* remedy_window_seconds
    AttemptLimits,      \* max_attempts
    Kinds,              \* remedy kinds a caller reserves
    Modes,              \* assurance modes a caller proposes
    Custody,            \* connector reports exclusive_credential_custody
    PreflightDecisions, \* require_recovery_preflight of an authorization
    DrillExpiries,      \* expires_at of the attestations presented
    MaxQualifications,  \* bound on accepted attestations per action
    Implementations,    \* measurable versions of the remedy callable
    Lapses,             \* statuses the connector may move a reservation to
    MaxAge,             \* evidence_plan.max_age_seconds
    MaxInFlight,        \* bound on overlapping calls of one operation
    ForeignFacts,       \* a source may report another currency or SKU
    FinalAnswers,       \* a definite remedy answer is never contradicted
    Failures            \* the event store and the connector may throw

ASSUME CapacityAssumption == MaxActions \in Nat \ {0}

ASSUME ClockAssumption == MaxTime \in Nat /\ Drift \in Nat

ASSUME InputAssumption ==
    /\ RequestedAts \subseteq Nat
    /\ ActionExpiries \subseteq Nat
    /\ RecourseExpiries \subseteq Nat
    /\ ReservedAts \subseteq Nat
    /\ RemedyWindow \in Nat
    /\ AttemptLimits \subseteq Nat \ {0}
    /\ Kinds \subseteq RemedyKinds
    /\ Modes \subseteq ASSURANCE_MODES
    /\ PreflightDecisions \subseteq BOOLEAN
    /\ DrillExpiries \subseteq Nat
    /\ MaxAge \in Nat \ {0}

ASSUME EnvironmentAssumption ==
    /\ Custody \in BOOLEAN
    /\ MaxQualifications \in Nat
    /\ Implementations # {}
    /\ Lapses \subseteq RecourseStatuses
    /\ MaxInFlight \in Nat \ {0}
    /\ ForeignFacts \in BOOLEAN
    /\ FinalAnswers \in BOOLEAN
    /\ Failures \in BOOLEAN

VARIABLES
    actions,            \* every action's slice of rail, event store, connector
    now,                \* the clock
    implementation      \* the remedy callable the connector exposes now

vars == <<actions, now, implementation>>

-------------------------------------------------------------------------------
(* What a slice holds. *)

Never == -1

Operations == {"execute", "reconcile", "observe",
               "remediate", "reconcileRemedy", "observeRemedy"}

EventTypes == {"ACTION_PROPOSED", "STATE_TRANSITION",
               "RECOVERY_PREFLIGHT_ACCEPTED",
               "EVIDENCE_ACCEPTED", "EVIDENCE_REJECTED",
               "REMEDY_EVIDENCE_ACCEPTED", "REMEDY_EVIDENCE_REJECTED",
               "RECOURSE_STATUS_RECORDED", "RECOURSE_FINALIZED"}

\* The part of a payload a verifier reads: an outcome, an evaluation, a
\* qualification or a recourse status.
Infos == {"", "PROPOSED", "QUALIFIED_EXACT", "satisfied", "unsatisfied", "none"}
         \cup Outcomes \cup RecourseStatuses

Event == [type : EventTypes,
          from : States \cup {"none"},
          to   : States \cup {"none"},
          at   : Nat,
          info : Infos]

Evidence == [phase : {"initial", "post-remedy"},
             satisfied : BOOLEAN,
             observed_at : Nat,
             own : BOOLEAN]         \* of the action's currency or SKU

\* Hashes are collision-free: an event's position in the log stands for its
\* hash, and an artifact for its digest.
Receipt == [outcome : Outcomes,
            recourse_final_status : RECEIPT_RECOURSE_STATUSES,
            evidence : Seq(Evidence),
            event_chain_head : Nat,
            closed_at : Nat]

Results == {"none", "executed", "no_effect", "remediated", "failed", "unknown"}

Slice ==
    [ \* the record kept by the rail
      state : States \cup {"UNREGISTERED"},
      mode : ASSURANCE_MODES \cup {"none"},
      requested_at : Int,
      expires_at : Int,
      preflight_required : BOOLEAN,
      kind : RemedyKinds \cup {"none"},
      reserved_at : Int,
      reserved_until : Int,
      max_attempts : Nat,
      qualified_until : Int,
      qualified_implementation : Implementations \cup {Never},
      permit_issued_at : Int,
      permit_uses : Nat,
      remedy_attempts : Nat,
      execution : Results,
      remedy_result : Results,
      evidence : Seq(Evidence),
      final_status : RecourseStatuses \cup {"none"},
      receipt : Seq(Receipt),           \* empty or the one receipt
      \* the event store's list for the action
      events : Seq(Event),
      \* continuations awaiting the connector
      awaiting : [Operations -> Nat],
      \* the connector: its reservation, the calls it was sent, and the first
      \* definite answer it gave about the remedy
      recourse : RecourseStatuses \cup {"none"},
      execute_calls : Nat,
      remedy_calls : Nat,
      remedy_answer : {"none", "remediated", "failed"} ]

Unregistered ==
    [ state |-> "UNREGISTERED", mode |-> "none",
      requested_at |-> Never, expires_at |-> Never,
      preflight_required |-> FALSE,
      kind |-> "none", reserved_at |-> Never, reserved_until |-> Never,
      max_attempts |-> 0,
      qualified_until |-> Never, qualified_implementation |-> Never,
      permit_issued_at |-> Never, permit_uses |-> 0, remedy_attempts |-> 0,
      execution |-> "none", remedy_result |-> "none",
      evidence |-> <<>>, final_status |-> "none", receipt |-> <<>>,
      events |-> <<>>,
      awaiting |-> [op \in Operations |-> 0],
      recourse |-> "none", execute_calls |-> 0, remedy_calls |-> 0,
      remedy_answer |-> "none" ]

-------------------------------------------------------------------------------
(* Steps of a segment, from slice to slice; t is the clock they read. *)

\* eventStore.append of anything but a transition
Note(c, type, info, t) ==
    [c EXCEPT !.events = Append(@, [type |-> type, from |-> "none",
                                    to |-> "none", at |-> t, info |-> info])]

\* transition(): the event, then the state
Transition(c, next, info, t) ==
    [c EXCEPT !.events = Append(@, [type |-> "STATE_TRANSITION",
                                    from |-> c.state, to |-> next,
                                    at |-> t, info |-> info]),
              !.state = next]

\* Mutants are what a slip in the code would make of the definition below them.
MutantCanMove(c, next) == TRUE                      \* unchecked
CanMove(c, next) == <<c.state, next>> \in ALLOWED_TRANSITIONS

Begin(c, op) == [c EXCEPT !.awaiting[op] = @ + 1]
MutantFinish(c, op) == [c EXCEPT !.awaiting[op] = @ - 2]   \* resumed twice
Finish(c, op) == [c EXCEPT !.awaiting[op] = @ - 1]

\* connector.releaseRecourse: only an active reservation is released
Release(c) == [c EXCEPT !.recourse = IF @ = "active" THEN "released" ELSE @]

\* finalizeRecourse: release unless the outcome is disputed, then record the
\* status the connector reports, once
Finalize(c, release, t) ==
    LET r == IF release THEN Release(c) ELSE c
    IN IF c.final_status # "none" THEN c
       ELSE [Note(r, IF r.recourse = "active" THEN "RECOURSE_STATUS_RECORDED"
                                              ELSE "RECOURSE_FINALIZED",
                  r.recourse, t)
             EXCEPT !.final_status = r.recourse]

FinalizeStops(c, release) == IF release THEN {c, Release(c)} ELSE {c}

Cut(c, outcome, t) ==
    [c EXCEPT !.receipt = <<[outcome |-> outcome,
                             recourse_final_status |-> c.final_status,
                             evidence |-> c.evidence,
                             event_chain_head |-> Len(c.events),
                             closed_at |-> t]>>]

\* close() releases unless the outcome is disputed.
MutantReleases(c) == TRUE                           \* disputed or not
Releases(c) == RECEIPT_OUTCOME_BY_STATE[c.state] # "disputed"

MutantClose(c, t) ==                                \* CLOSED before finalization
    LET outcome == RECEIPT_OUTCOME_BY_STATE[c.state]
    IN Cut(Finalize(Transition(c, "CLOSED", outcome, t), Releases(c), t),
           outcome, t)

\* close(): finalize, refuse an unknown status, move to CLOSED, sign the receipt
Close(c, t) ==
    LET outcome == RECEIPT_OUTCOME_BY_STATE[c.state]
        f == Finalize(c, Releases(c), t)
    IN IF f.final_status \in RECEIPT_RECOURSE_STATUSES
       THEN Cut(Transition(f, "CLOSED", outcome, t), outcome, t)
       ELSE f

\* Once it has moved to CLOSED, reading the log back or signing may still throw:
\* then the action is closed without a receipt.
CloseStops(c, t) ==
    LET f == Finalize(c, Releases(c), t)
        shut == Transition(f, "CLOSED", RECEIPT_OUTCOME_BY_STATE[c.state], t)
    IN FinalizeStops(c, Releases(c)) \cup {f} \cup
       (IF f.final_status \in RECEIPT_RECOURSE_STATUSES THEN {shut} ELSE {})

\* The segment of action a ends at done; a throw may end it at a stop.
Reaches(a, done, stops) ==
    \E c \in {done} \cup (IF Failures THEN stops ELSE {}) :
        actions' = [actions EXCEPT ![a] = c]

\* Leave the lifecycle: move to next and give the recourse back.
Withdraw(a, c, next, t) ==
    LET m == Transition(c, next, "", t)
    IN Reaches(a, Finalize(m, TRUE, t), {c} \cup FinalizeStops(m, TRUE))

MutantConclude(a, c, next, t) ==                    \* state before the append
    LET m == Transition(c, next, "", t)
    IN Reaches(a, Close(m, t), {[c EXCEPT !.state = next]})

\* Move to next, a closing state, and close.
Conclude(a, c, next, t) ==
    LET m == Transition(c, next, "", t)
    IN Reaches(a, Close(m, t), {c} \cup CloseStops(m, t))

\* The guards of a segment read now, its events read t.
ClockReads(t) ==
    /\ t \in now .. (now + Drift)
    /\ t <= MaxTime
    /\ now' = t

isExpired(expiry) == expiry <= now

Registered == {b \in Action : actions[b].state # "UNREGISTERED"}

-------------------------------------------------------------------------------
(* From the proposal to the permit: synchronous handlers. *)

Propose(a) ==
    \E t \in 0 .. MaxTime, mode \in Modes,
       requested \in RequestedAts, expiry \in ActionExpiries :
        /\ ClockReads(t)
        /\ Cardinality(Registered) < MaxActions
        /\ actions[a].state = "UNREGISTERED"
        /\ requested < expiry
        /\ ~isExpired(expiry)
        /\ actions' = [actions EXCEPT ![a] =
              [Note(@, "ACTION_PROPOSED", "PROPOSED", t)
               EXCEPT !.state = "PROPOSED", !.mode = mode,
                      !.requested_at = requested, !.expires_at = expiry]]
        /\ UNCHANGED implementation

Authorize(a) ==
    \E t \in 0 .. MaxTime, allow \in BOOLEAN, required \in PreflightDecisions :
        /\ ClockReads(t)
        /\ actions[a].state = "PROPOSED"
        /\ actions' = [actions EXCEPT ![a] =
              [Transition(@, IF allow THEN "AUTHORIZED" ELSE "DENIED", "", t)
               EXCEPT !.preflight_required = required]]
        /\ UNCHANGED implementation

\* The connector reserves, and dates what it reserved, before the rail
\* validates or records anything; of the date only the shape is validated.
ReserveRecourse(a) ==
    \E t \in 0 .. MaxTime, kind \in Kinds, until \in RecourseExpiries,
       attempts \in AttemptLimits :
     \E at \in (now .. t) \cup ReservedAts :
        LET c == actions[a]
            reserved == [c EXCEPT !.recourse = "active"]
        IN /\ ClockReads(t)
           /\ c.state = "AUTHORIZED"
           /\ c.mode # "observed"
           /\ ~isExpired(until)
           /\ until >= c.expires_at + RemedyWindow
           /\ Reaches(a, [Transition(reserved, "RECOURSE_RESERVED", "", t)
                          EXCEPT !.kind = kind, !.reserved_at = at,
                                 !.reserved_until = until,
                                 !.max_attempts = attempts],
                      {c, reserved})
           /\ UNCHANGED implementation

\* The contract is bound to the implementation measured now.
AcceptRecoveryQualification(a) ==
    \E t \in 0 .. MaxTime, expiry \in DrillExpiries :
        LET c == actions[a]
            accepted == {i \in DOMAIN c.events :
                            c.events[i].type = "RECOVERY_PREFLIGHT_ACCEPTED"}
        IN /\ ClockReads(t)
           /\ c.state = "RECOURSE_RESERVED"
           /\ Cardinality(accepted) < MaxQualifications
           /\ ~isExpired(expiry)
           /\ actions' = [actions EXCEPT ![a] =
                 [Note(c, "RECOVERY_PREFLIGHT_ACCEPTED", "QUALIFIED_EXACT", t)
                  EXCEPT !.qualified_until = expiry,
                         !.qualified_implementation = implementation]]
           /\ UNCHANGED implementation

Qualified(c) == c.qualified_until # Never

MutantPreflightOptional(c, requireCurrent) ==       \* vacuous when none accepted
    Qualified(c) => /\ requireCurrent => ~isExpired(c.qualified_until)
                    /\ c.qualified_implementation = implementation

MutantPreflightUnbound(c, requireCurrent) ==        \* binding not rechecked
    Qualified(c) /\ (requireCurrent => ~isExpired(c.qualified_until))

\* assertAcceptedRecoveryPreflight
PreflightHolds(c, requireCurrent) ==
    /\ Qualified(c)
    /\ requireCurrent => ~isExpired(c.qualified_until)
    /\ c.qualified_implementation = implementation

\* assertNotExpired, on the permit's or proposal's expiry and the reservation's
Lapsed(c) == isExpired(c.expires_at) \/ isExpired(c.reserved_until)

IssuePermit(a) ==
    \E t \in 0 .. MaxTime :
        LET c == actions[a]
            custodial == c.mode = "enforced" => Custody
        IN /\ ClockReads(t)
           /\ c.state = "RECOURSE_RESERVED"
           /\ \/ Lapsed(c) /\ Withdraw(a, c, "EXPIRED", t)
              \/ /\ ~Lapsed(c) /\ custodial /\ c.recourse # "active"
                 /\ Withdraw(a, c, "REVOKED", t)
              \/ /\ ~Lapsed(c) /\ custodial /\ c.recourse = "active"
                 /\ c.preflight_required => PreflightHolds(c, TRUE)
                 /\ actions' = [actions EXCEPT ![a] =
                       [Transition(c, "PERMITTED", "", t)
                        EXCEPT !.permit_issued_at = t]]
           /\ UNCHANGED implementation

-------------------------------------------------------------------------------
(* Execution and its reconciliation. *)

Execute(a) ==
    \E t \in 0 .. MaxTime :
        LET c == actions[a]
            fit == Qualified(c) => PreflightHolds(c, TRUE)
        IN /\ ClockReads(t)
           /\ c.permit_uses = 0
           /\ c.state = "PERMITTED"
           /\ \/ Lapsed(c) /\ Withdraw(a, c, "EXPIRED", t)
              \/ /\ ~Lapsed(c) /\ fit /\ c.recourse # "active"
                 /\ Withdraw(a, c, "REVOKED", t)
              \/ /\ ~Lapsed(c) /\ fit /\ c.recourse = "active"
                 /\ actions' = [actions EXCEPT ![a] =
                       [Begin(Transition(c, "EXECUTING", "", t), "execute")
                        EXCEPT !.permit_uses = @ + 1, !.execute_calls = @ + 1]]
           /\ UNCHANGED implementation

\* Anything but a refusal raised before the effect - an error, an answer that
\* is not bound to the key, an append of EXECUTED that failed - is ambiguous.
ExecuteAnswered(a) ==
    \E t \in 0 .. MaxTime :
        LET c == Finish(actions[a], "execute")
            ambiguous == [Transition(c, "UNKNOWN", "", t)
                          EXCEPT !.execution = "unknown"]
        IN /\ ClockReads(t)
           /\ actions[a].awaiting["execute"] > 0
           /\ \/ Reaches(a, [Transition(c, "EXECUTED", "", t)
                             EXCEPT !.execution = "executed"],
                         {ambiguous, c})
              \/ Reaches(a, ambiguous, {c})
              \/ Withdraw(a, c, "FAILED", t)
           /\ UNCHANGED implementation

Reconcile(a) ==
    /\ actions[a].state = "UNKNOWN"
    /\ actions[a].awaiting["reconcile"] < MaxInFlight
    /\ actions' = [actions EXCEPT ![a] = Begin(@, "reconcile")]
    /\ UNCHANGED <<now, implementation>>

\* A status that arrives once the state has moved on, or that is malformed,
\* ends the call with an error and changes nothing.
ReconcileAnswered(a) ==
    \E t \in 0 .. MaxTime :
        LET c == Finish(actions[a], "reconcile")
        IN /\ ClockReads(t)
           /\ actions[a].awaiting["reconcile"] > 0
           /\ \/ /\ CanMove(c, "EXECUTED")
                 /\ Reaches(a, [Transition(c, "EXECUTED", "", t)
                                EXCEPT !.execution = "executed"], {c})
              \/ /\ CanMove(c, "FAILED")
                 /\ LET m == Transition(c, "FAILED", "", t)
                    IN Reaches(a, [Finalize(m, TRUE, t)
                                   EXCEPT !.execution = "no_effect"],
                               {c} \cup FinalizeStops(m, TRUE))
              \/ /\ CanMove(c, "REVIEW_REQUIRED")
                 /\ LET m == Transition(c, "REVIEW_REQUIRED", "", t)
                        closed == Close(m, t)
                    IN Reaches(a, IF closed.state = "CLOSED"
                                  THEN [closed EXCEPT !.execution = "unknown"]
                                  ELSE closed,
                               {c} \cup CloseStops(m, t))
              \/ actions' = [actions EXCEPT ![a] = c]
           /\ UNCHANGED implementation

-------------------------------------------------------------------------------
(* Outcome verification. *)

VerifyOutcome(a) ==
    \E t \in 0 .. MaxTime :
        /\ ClockReads(t)
        /\ actions[a].state = "EXECUTED"
        /\ actions' = [actions EXCEPT ![a] =
              Begin(Transition(@, "VERIFYING", "", t), "observe")]
        /\ UNCHANGED implementation

\* validateEvidence: any observation inside the freshness window, whatever it
\* was taken before
MutantFresh == 0 .. now                             \* age not bounded
Fresh == {o \in 0 .. now : now - o <= MaxAge}

\* Neither is the currency or SKU of the facts compared with the action's.
Ownership == IF ForeignFacts THEN BOOLEAN ELSE {TRUE}

Accept(c, type, phase, satisfied, observedAt, own, t) ==
    [Note(c, type, IF satisfied THEN "satisfied" ELSE "unsatisfied", t)
     EXCEPT !.evidence = Append(@, [phase |-> phase, satisfied |-> satisfied,
                                    observed_at |-> observedAt, own |-> own])]

MutantRejectEvidence(a, c, type, next, t) ==        \* never closed
    LET n == Note(c, type, "", t)
    IN Reaches(a, Transition(n, next, "", t), {c, n})

\* Evidence that is unavailable or refused: note it, and close as disputed.
RejectEvidence(a, c, type, next, t) ==
    LET n == Note(c, type, "", t)
        m == Transition(n, next, "", t)
    IN Reaches(a, Close(m, t), {c, n} \cup CloseStops(m, t))

OutcomeObserved(a) ==
    \E t \in 0 .. MaxTime :
        LET c == Finish(actions[a], "observe")
        IN /\ ClockReads(t)
           /\ actions[a].awaiting["observe"] > 0
           /\ \/ RejectEvidence(a, c, "EVIDENCE_REJECTED", "INCONCLUSIVE", t)
              \/ \E o \in Fresh, own \in Ownership :
                    LET e == Accept(c, "EVIDENCE_ACCEPTED", "initial", TRUE, o, own, t)
                        m == Transition(e, "SATISFIED", "", t)
                    IN Reaches(a, Close(m, t), {c, e} \cup CloseStops(m, t))
              \/ \E o \in Fresh, own \in Ownership :
                    LET e == Accept(c, "EVIDENCE_ACCEPTED", "initial", FALSE, o, own, t)
                        m == Transition(e, "BREACHED", "", t)
                    IN Reaches(a, Transition(m, "REMEDY_DUE", "", t), {c, e, m})
           /\ UNCHANGED implementation

-------------------------------------------------------------------------------
(* The reserved remedy and its reconciliation. *)

MutantAwaitsRemedy(c) ==                            \* an ambiguous remedy retried
    c.state \in {"REMEDY_DUE", "REMEDY_UNKNOWN"}
AwaitsRemedy(c) == c.state = "REMEDY_DUE"

\* No remedy may start: the breach goes to review instead.
Barred(c) ==
    \/ isExpired(c.reserved_until)
    \/ c.recourse # "active"
    \/ c.kind = "escalate"

\* The connector may spend the reservation as it runs the remedy.
Spent == {"active"} \cup (Lapses \cap {"consumed"})

Remediate(a) ==
    \E t \in 0 .. MaxTime :
        LET c == actions[a]
        IN /\ ClockReads(t)
           /\ AwaitsRemedy(c)
           /\ \/ Barred(c) /\ Conclude(a, c, "REVIEW_REQUIRED", t)
              \/ /\ ~Barred(c)
                 /\ c.remedy_attempts < c.max_attempts
                 /\ Qualified(c) => PreflightHolds(c, FALSE)
                 /\ \E left \in Spent :
                       actions' = [actions EXCEPT ![a] =
                          [Begin(Transition(c, "REMEDIATING", "", t), "remediate")
                           EXCEPT !.remedy_attempts = @ + 1,
                                  !.remedy_calls = @ + 1,
                                  !.recourse = left]]
           /\ UNCHANGED implementation

\* What the connector says of the remedy; "failed" covers no_effect too.
Answers(c, answer) ==
    FinalAnswers => c.remedy_answer \in {"none", answer}

Answered(c, answer) ==
    [c EXCEPT !.remedy_answer = IF @ = "none" THEN answer ELSE @]

\* record.remedy_result is assigned before the event that reports it.
RemediateAnswered(a) ==
    \E t \in 0 .. MaxTime :
        LET c == Finish(actions[a], "remediate")
            remediated == [Answered(c, "remediated")
                           EXCEPT !.remedy_result = "remediated"]
            failed == [Answered(c, "failed") EXCEPT !.remedy_result = "failed"]
        IN /\ ClockReads(t)
           /\ actions[a].awaiting["remediate"] > 0
           /\ \/ Reaches(a, Begin(Transition(remediated, "REMEDY_VERIFYING", "", t),
                                  "observeRemedy"),
                         {remediated})
              \/ Conclude(a, failed, "REMEDY_FAILED", t)
              \/ Conclude(a, c, "REMEDY_FAILED", t)        \* idempotency conflict
              \/ Reaches(a, [Transition(c, "REMEDY_UNKNOWN", "", t)
                             EXCEPT !.remedy_result = "unknown"], {c})
           /\ UNCHANGED implementation

ReconcileRemedy(a) ==
    /\ actions[a].state = "REMEDY_UNKNOWN"
    /\ actions[a].awaiting["reconcileRemedy"] < MaxInFlight
    /\ actions' = [actions EXCEPT ![a] = Begin(@, "reconcileRemedy")]
    /\ UNCHANGED <<now, implementation>>

\* The result is assigned after close(), so a close that throws drops it.
ConcludeRemedy(a, c, next, result, t) ==
    LET m == Transition(c, next, "", t)
        closed == Close(m, t)
    IN Reaches(a, IF closed.state = "CLOSED"
                  THEN [closed EXCEPT !.remedy_result = result] ELSE closed,
               {c} \cup CloseStops(m, t))

ReconcileRemedyAnswered(a) ==
    \E t \in 0 .. MaxTime :
        LET c == Finish(actions[a], "reconcileRemedy")
        IN /\ ClockReads(t)
           /\ actions[a].awaiting["reconcileRemedy"] > 0
           /\ \/ /\ Answers(c, "remediated") /\ CanMove(c, "REMEDY_VERIFYING")
                 /\ LET m == Transition(Answered(c, "remediated"),
                                        "REMEDY_VERIFYING", "", t)
                    IN Reaches(a, [Begin(m, "observeRemedy")
                                   EXCEPT !.remedy_result = "remediated"],
                               {Answered(c, "remediated")})
              \/ /\ Answers(c, "failed") /\ CanMove(c, "REMEDY_FAILED")
                 /\ ConcludeRemedy(a, Answered(c, "failed"), "REMEDY_FAILED",
                                   "failed", t)
              \/ /\ CanMove(c, "REVIEW_REQUIRED")
                 /\ ConcludeRemedy(a, c, "REVIEW_REQUIRED", "unknown", t)
              \/ actions' = [actions EXCEPT ![a] = c]
           /\ UNCHANGED implementation

\* verifyRemedyOutcome after its await.  The state is not read again before
\* the acceptance is appended: if the action has moved on, the evidence is
\* logged and kept, and only then the transition is refused.
RemedyObserved(a) ==
    \E t \in 0 .. MaxTime :
        LET c == Finish(actions[a], "observeRemedy")
            rejected == Note(c, "REMEDY_EVIDENCE_REJECTED", "", t)
        IN /\ ClockReads(t)
           /\ actions[a].awaiting["observeRemedy"] > 0
           /\ \/ /\ CanMove(c, "REMEDY_INCONCLUSIVE")
                 /\ RejectEvidence(a, c, "REMEDY_EVIDENCE_REJECTED",
                                   "REMEDY_INCONCLUSIVE", t)
              \/ /\ ~CanMove(c, "REMEDY_INCONCLUSIVE")
                 /\ Reaches(a, rejected, {c})
              \/ \E o \in Fresh, satisfied \in BOOLEAN, own \in Ownership :
                    LET e == Accept(c, "REMEDY_EVIDENCE_ACCEPTED", "post-remedy",
                                    satisfied, o, own, t)
                        next == IF satisfied THEN "REMEDIATED"
                                             ELSE "REMEDY_INCONCLUSIVE"
                        m == Transition(e, next, "", t)
                    IN IF CanMove(e, next)
                       THEN Reaches(a, Close(m, t), {c, e} \cup CloseStops(m, t))
                       ELSE Reaches(a, e, {c})
           /\ UNCHANGED implementation

-------------------------------------------------------------------------------
(* The environment. *)

\* A reservation is lost, spent or no longer reported.
RecourseLapses(a) ==
    /\ actions[a].recourse = "active"
    /\ \E s \in Lapses : actions' = [actions EXCEPT ![a].recourse = s]
    /\ UNCHANGED <<now, implementation>>

\* The connector's remedy callable is replaced.
ReplaceImplementation ==
    /\ \E i \in Implementations \ {implementation} : implementation' = i
    /\ UNCHANGED <<actions, now>>

Tick ==
    /\ now < MaxTime
    /\ now' = now + 1
    /\ UNCHANGED <<actions, implementation>>

-------------------------------------------------------------------------------
Init ==
    /\ actions = [a \in Action |-> Unregistered]
    /\ now = 0
    /\ implementation \in Implementations

Handler(a) ==
    \/ Propose(a) \/ Authorize(a) \/ ReserveRecourse(a)
    \/ AcceptRecoveryQualification(a) \/ IssuePermit(a)
    \/ Execute(a) \/ ExecuteAnswered(a)
    \/ Reconcile(a) \/ ReconcileAnswered(a)
    \/ VerifyOutcome(a) \/ OutcomeObserved(a)
    \/ Remediate(a) \/ RemediateAnswered(a)
    \/ ReconcileRemedy(a) \/ ReconcileRemedyAnswered(a)
    \/ RemedyObserved(a)

Next ==
    \/ \E a \in Action : Handler(a) \/ RecourseLapses(a)
    \/ ReplaceImplementation
    \/ Tick

Spec == Init /\ [][Next]_vars

(* Every slice has its fields in range and the clock stays in its bound.   *)
TypeOK ==
    /\ actions \in [Action -> Slice]
    /\ now \in 0 .. MaxTime
    /\ implementation \in Implementations
===============================================================================
