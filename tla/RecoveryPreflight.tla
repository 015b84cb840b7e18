--------------------------- MODULE RecoveryPreflight ---------------------------
(***************************************************************************)
(* Recovery drills: runRecoveryPreflight with MockRefundRecoveryAdapter,   *)
(* the attestation they sign, its replay by verifyRecoveryPreflight and    *)
(* its diagnosis by reviewRecovery.                                        *)
(*                                                                         *)
(* A drill works on connectors of its own, so of its segments only those   *)
(* that read the clock are told apart: Begin reads the drill's time,       *)
(* RunFixture the time of the fixture's reservation, and Attest ends it.   *)
(* Everything an oracle path reads is told by the number of live refunds;  *)
(* that number stands for an observed state and its digest.  A digest of a *)
(* contract or a trace is the contract or the trace.                       *)
(***************************************************************************)
EXTENDS Integers, FiniteSets, FiniteSetsExt

CONSTANTS
    Drill,          \* runs of runRecoveryPreflight
    MaxTime,        \* bound on the clock
    MaxDepartures   \* bound on what the set-ups of all drills together change
                    \* of the demo's set-up

ASSUME DrillAssumption ==
    MaxTime \in Nat \ {0} /\ MaxDepartures \in Nat

VARIABLES
    now,            \* the clock shared by adapter, runner and verifier
    drills          \* what each run has got to

dvars == <<now, drills>>

-------------------------------------------------------------------------------
RECOVERY_QUALIFICATIONS == {"QUALIFIED_EXACT", "REVIEW_COMPENSATED",
                            "NOT_QUALIFIED", "NOT_TESTABLE_LOCAL"}

DrillFaults == {"none", "missing-checkpoint", "corrupt-checkpoint",
                "fault-not-observed", "remedy-failure", "not-testable-local",
                "out-of-scope"}

Absent == -1                    \* null for a state
Corruption == 100               \* what corrupt-checkpoint adds

\* in_scope: action, scope, recourse, fault and procedure are those the adapter
\* supports.  commitment: when the live reservation was made at the connector.
Contract ==
    [recovery_class : {"exact", "compensation", "containment", "escalation"},
     fidelity       : {"synthetic", "staging", "production-like"},
     oracle         : {"exact-state-digest", "other"},
     in_scope       : BOOLEAN,
     checkpoint     : {1, 2},
     commitment     : 0 .. MaxTime,
     issued_at      : 0 .. MaxTime,
     expires_at     : 0 .. MaxTime + 1,
     max_age        : 1 .. MaxTime]

\* substituted: the adapter's run is not the registered callable.
Setup ==
    {[contract |-> c, fault |-> f, substituted |-> b] :
        c \in Contract, f \in DrillFaults, b \in BOOLEAN}

\* What buildRefundRecoveryContract fills in at time 0.
Usual == [recovery_class |-> "exact", fidelity |-> "synthetic",
          oracle |-> "exact-state-digest", in_scope |-> TRUE, checkpoint |-> 1,
          commitment |-> 0, issued_at |-> 0, expires_at |-> MaxTime + 1,
          max_age |-> MaxTime]

Departures(s) ==
    Cardinality({f \in DOMAIN Usual : s.contract[f] # Usual[f]})
    + (IF s.fault = "none" THEN 0 ELSE 1) + (IF s.substituted THEN 1 ELSE 0)

\* For each number of departures that may be left, the set-ups within it.
SetupsWithin ==
    {[departures |-> n, setups |-> {s \in Setup : Departures(s) <= n}] :
        n \in 0 .. MaxDepartures}

\* Also the trace of a fixture that is not synthetic and was not run.
notTestable ==
    [local_testable |-> FALSE, reference |-> Absent, baseline |-> Absent,
     checkpoint |-> Absent, damaged |-> Absent, recovered |-> Absent,
     fault_observed |-> FALSE, recovery_attempted |-> FALSE,
     oracle_satisfied |-> FALSE]

-------------------------------------------------------------------------------
(* Qualification and attestation. *)

checkpointIntact(contract, trace) ==
    /\ trace.baseline # Absent /\ trace.checkpoint # Absent
    /\ trace.reference = contract.checkpoint
    /\ trace.baseline = contract.checkpoint
    /\ trace.checkpoint = contract.checkpoint

MutantFaultObserved(trace) == trace.damaged # Absent   \* damage not compared
faultObserved(trace) ==
    /\ trace.fault_observed
    /\ trace.baseline # Absent /\ trace.damaged # Absent
    /\ trace.baseline # trace.damaged

Exact(contract) ==
    contract.recovery_class = "exact" /\ contract.oracle = "exact-state-digest"

deriveQualification(contract, trace) ==
    IF ~trace.local_testable \/ contract.fidelity # "synthetic"
    THEN "NOT_TESTABLE_LOCAL"
    ELSE IF \/ ~checkpointIntact(contract, trace)
            \/ ~faultObserved(trace)
            \/ ~trace.recovery_attempted
    THEN "NOT_QUALIFIED"
    ELSE IF Exact(contract)
    THEN IF /\ trace.oracle_satisfied
            /\ trace.recovered # Absent
            /\ trace.baseline = trace.recovered
         THEN "QUALIFIED_EXACT" ELSE "NOT_QUALIFIED"
    ELSE IF contract.recovery_class = "compensation" /\ trace.oracle_satisfied
    THEN "REVIEW_COMPENSATED"
    ELSE "NOT_TESTABLE_LOCAL"

MutantExpectedExpiry(contract, drilledAt) ==           \* the later of the two
    Max({drilledAt + contract.max_age, contract.expires_at})
expectedExpiry(contract, drilledAt) ==
    Min({drilledAt + contract.max_age, contract.expires_at})

MutantAttestationCore(contract, trace, qualification, drilledAt) ==
    [contract_digest |-> contract, trace_digest |-> notTestable,   \* not bound
     qualification |-> qualification, drilled_at |-> drilledAt,
     expires_at |-> expectedExpiry(contract, drilledAt)]
buildAttestationCore(contract, trace, qualification, drilledAt) ==
    [contract_digest |-> contract, trace_digest |-> trace,
     qualification |-> qualification, drilled_at |-> drilledAt,
     expires_at |-> expectedExpiry(contract, drilledAt)]

InWindow(contract, t) == contract.issued_at <= t /\ t < contract.expires_at

-------------------------------------------------------------------------------
(* verifyRecoveryPreflight *)

\* Every attestation the model has is signed by a trusted key.
Replays(bundle) ==
    LET contract == bundle.recovery_contract
        attestation == bundle.drill_attestation
    IN /\ contract.expires_at > contract.issued_at
       /\ InWindow(contract, attestation.drilled_at)
       /\ attestation = buildAttestationCore(contract, bundle.trace,
                            deriveQualification(contract, bundle.trace),
                            attestation.drilled_at)

Current(bundle, t) ==
    /\ Replays(bundle)
    /\ bundle.drill_attestation.drilled_at <= t
    /\ t < bundle.drill_attestation.expires_at

(* reviewRecovery *)

MutantFailedChecks(bundle) ==                       \* the recovered state left out
    {check \in {"checkpoint_intact", "fault_observed", "recovery_attempted"} :
        CASE check = "checkpoint_intact" ->
                ~checkpointIntact(bundle.recovery_contract, bundle.trace)
          [] check = "fault_observed" -> ~faultObserved(bundle.trace)
          [] check = "recovery_attempted" -> ~bundle.trace.recovery_attempted}
failed_checks(bundle) ==
    LET contract == bundle.recovery_contract
        trace == bundle.trace
        checks == [synthetic_fixture |-> contract.fidelity = "synthetic",
                   locally_testable |-> trace.local_testable,
                   checkpoint_intact |-> checkpointIntact(contract, trace),
                   fault_observed |-> faultObserved(trace),
                   recovery_attempted |-> trace.recovery_attempted,
                   oracle_satisfied |-> trace.oracle_satisfied,
                   exact_state_restored |-> /\ trace.baseline # Absent
                                            /\ trace.recovered # Absent
                                            /\ trace.baseline = trace.recovered]
    IN {check \in DOMAIN checks : ~checks[check]}

limiting_constraints(bundle) ==
    LET contract == bundle.recovery_contract
        attestation == bundle.drill_attestation
    IN {c \in {"contract_expiry", "attestation_age"} :
           attestation.expires_at =
              IF c = "contract_expiry" THEN contract.expires_at
              ELSE attestation.drilled_at + contract.max_age}

-------------------------------------------------------------------------------
(* The run of a drill. *)

Idle == [phase |-> "idle"]

\* The adapter only takes contracts it was built for.
Supported(s) ==
    /\ s.fault \notin {"not-testable-local", "out-of-scope"}
    /\ s.contract.in_scope
    /\ s.contract.oracle = "exact-state-digest"

Admitted(s) ==
    /\ s.contract.expires_at > s.contract.issued_at
    /\ s.contract.fidelity = "synthetic" => ~s.substituted
    /\ InWindow(s.contract, now)

\* Departures of the drills begun so far.
Departed ==
    LET begun == {d \in Drill : drills[d] # Idle}
    IN MapThenSumSet(LAMBDA d : Departures(drills[d].setup), begun)

\* runRecoveryPreflight up to the first await; a refusal throws.
Begin(d) ==
    /\ drills[d] = Idle
    /\ \E within \in SetupsWithin :
          /\ within.departures = MaxDepartures - Departed
          /\ \E s \in within.setups :
                drills' = [drills EXCEPT ![d] =
                   IF ~Admitted(s) THEN [phase |-> "refused", setup |-> s]
                   ELSE IF s.contract.fidelity = "synthetic" /\ Supported(s)
                   THEN [phase |-> "control", setup |-> s, drilled_at |-> now]
                   ELSE [phase |-> "tested", setup |-> s, drilled_at |-> now,
                         trace |-> notTestable]]
    /\ UNCHANGED now

\* Live refunds: a fresh connector, the injected fault, and the remedy, which
\* voids a duplicate only.
Executed(fault) == IF fault = "fault-not-observed" THEN 1 ELSE 2

MutantRemedied(n, fault) == n - 1                      \* failure not injected
Remedied(n, fault) ==
    IF fault = "remedy-failure" \/ n < 2 THEN n ELSE n - 1

\* The control connector has one refund.  The fixture's commitment carries its
\* time, so it equals the live one only at the same instant.
RunFixture(d) ==
    /\ drills[d].phase = "control"
    /\ LET s == drills[d].setup
           baseline == 1
           damaged == Executed(s.fault)
           recovered == Remedied(damaged, s.fault)
       IN drills' = [drills EXCEPT ![d] =
             [phase |-> "tested", setup |-> s, drilled_at |-> @.drilled_at,
              trace |->
                IF now # s.contract.commitment THEN notTestable
                ELSE [local_testable |-> TRUE,
                      reference |-> s.contract.checkpoint,
                      baseline |-> baseline,
                      checkpoint |->
                         CASE s.fault = "missing-checkpoint" -> Absent
                           [] s.fault = "corrupt-checkpoint" -> baseline + Corruption
                           [] OTHER -> baseline,
                      damaged |-> damaged,
                      recovered |-> recovered,
                      fault_observed |-> damaged # baseline,
                      recovery_attempted |-> TRUE,
                      oracle_satisfied |-> recovered = baseline]]]
    /\ UNCHANGED now

Attest(d) ==
    /\ drills[d].phase = "tested"
    /\ LET s == drills[d].setup
           trace == drills[d].trace
           qualification == deriveQualification(s.contract, trace)
       IN drills' = [drills EXCEPT ![d] =
             [phase |-> "attested", setup |-> s, drilled_at |-> @.drilled_at,
              bundle |->
                [recovery_contract |-> s.contract, trace |-> trace,
                 drill_attestation |-> buildAttestationCore(s.contract, trace,
                                          qualification, @.drilled_at)]]]
    /\ UNCHANGED now

Advance == now < MaxTime /\ now' = now + 1 /\ UNCHANGED drills

DrillInit == now = 0 /\ drills = [d \in Drill |-> Idle]

DrillNext ==
    \/ \E d \in Drill : Begin(d) \/ RunFixture(d) \/ Attest(d)
    \/ Advance

DrillSpec == DrillInit /\ [][DrillNext]_dvars
===============================================================================
