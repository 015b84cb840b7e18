---------------------------- MODULE RecoveryProofs ----------------------------
(***************************************************************************)
(* What module RecoveryProperties says of attested drills, for any number  *)
(* of drills, any clock bound and any contract, drill fault and adapter.   *)
(*                                                                         *)
(* Drills share nothing but the clock, so the invariant speaks of one at a *)
(* time: an attested bundle is made of the drill's own contract, a trace   *)
(* of that contract and the verdict on both.  An attestation then binds    *)
(* its contract and trace by their digests, whatever it is assembled with. *)
(***************************************************************************)
EXTENDS RecoveryProperties, TLAPS

\* The adapter is run for this set-up.
Runs(s) == s.contract.fidelity = "synthetic" /\ Supported(s)

\* What Admitted says of a drill at time t.
AdmittedAt(s, t) ==
    /\ s.contract.expires_at > s.contract.issued_at
    /\ s.contract.fidelity = "synthetic" => ~s.substituted
    /\ InWindow(s.contract, t)

\* The trace of a run on a fixture reserved as the live action was.
Ran(s) ==
    LET damaged == Executed(s.fault)
        recovered == Remedied(damaged, s.fault)
    IN [local_testable |-> TRUE, reference |-> s.contract.checkpoint, baseline |-> 1,
        checkpoint |-> CASE s.fault = "missing-checkpoint" -> Absent
                         [] s.fault = "corrupt-checkpoint" -> 1 + Corruption
                         [] OTHER -> 1,
        damaged |-> damaged, recovered |-> recovered, fault_observed |-> damaged # 1,
        recovery_attempted |-> TRUE, oracle_satisfied |-> recovered = 1]

(* A supported fixture ends untested only if it was not reserved at the    *)
(* instant of the live reservation; at time 0 that instant is not 0.       *)
TraceOf(s, trace) ==
    \/ Runs(s) /\ trace = Ran(s)
    \/ trace = notTestable /\ (Runs(s) /\ now = 0 => s.contract.commitment # 0)

BundleOf(s, trace, t) ==
    [recovery_contract |-> s.contract, trace |-> trace,
     drill_attestation |->
        buildAttestationCore(s.contract, trace, deriveQualification(s.contract, trace), t)]

GoodDrill(e) ==
    \/ e = Idle
    \/ e.phase = "refused"
    \/ /\ e.phase \in {"control", "tested", "attested"}
       /\ e.setup \in Setup /\ e.drilled_at \in Nat /\ AdmittedAt(e.setup, e.drilled_at)
       /\ e.phase = "control" => Runs(e.setup)
       /\ e.phase = "tested" => TraceOf(e.setup, e.trace)
       /\ e.phase = "attested" =>
             \E trace : /\ TraceOf(e.setup, trace)
                        /\ e.bundle = BundleOf(e.setup, trace, e.drilled_at)

DrillInv ==
    /\ now \in Nat
    /\ drills = [d \in Drill |-> drills[d]]
    /\ \A d \in Drill : GoodDrill(drills[d])

-------------------------------------------------------------------------------
(* The invariant. *)

(* Only one drill changes.                                                 *)
LEMMA OneDrill ==
    ASSUME DrillInv, NEW d \in Drill, NEW e, drills' = [drills EXCEPT ![d] = e],
           UNCHANGED now, GoodDrill(e)
    PROVE  DrillInv'
<1>1. \A c \in Drill : drills'[c] = IF c = d THEN e ELSE drills[c]
  BY DEF DrillInv
<1>2. drills' = [c \in Drill |-> drills'[c]]
  BY DEF DrillInv
<1>3. ASSUME NEW c \in Drill PROVE GoodDrill(drills'[c])
  BY <1>1 DEF DrillInv
<1> QED
  BY <1>2, <1>3 DEF DrillInv, GoodDrill, TraceOf

(* A drill that begins is refused, or was admitted at the time it notes.   *)
LEMMA BeginStep ==
    ASSUME DrillInv, NEW d \in Drill, Begin(d) PROVE DrillInv'
<1>1. PICK within \in SetupsWithin : \E s \in within.setups :
             drills' = [drills EXCEPT ![d] =
                IF ~Admitted(s) THEN [phase |-> "refused", setup |-> s]
                ELSE IF s.contract.fidelity = "synthetic" /\ Supported(s)
                THEN [phase |-> "control", setup |-> s, drilled_at |-> now]
                ELSE [phase |-> "tested", setup |-> s, drilled_at |-> now,
                      trace |-> notTestable]]
  BY DEF Begin
<1>2. PICK s \in within.setups :
             drills' = [drills EXCEPT ![d] =
                IF ~Admitted(s) THEN [phase |-> "refused", setup |-> s]
                ELSE IF s.contract.fidelity = "synthetic" /\ Supported(s)
                THEN [phase |-> "control", setup |-> s, drilled_at |-> now]
                ELSE [phase |-> "tested", setup |-> s, drilled_at |-> now,
                      trace |-> notTestable]]
  BY <1>1
<1>3. s \in Setup /\ UNCHANGED now /\ now \in Nat
  BY DEF SetupsWithin, Begin, DrillInv
<1>4. CASE ~Admitted(s)
  <2> DEFINE e == [phase |-> "refused", setup |-> s]
  <2>1. drills' = [drills EXCEPT ![d] = e] /\ GoodDrill(e)
    BY <1>2, <1>4 DEF GoodDrill
  <2> QED
    BY <1>3, <2>1, OneDrill
<1>5. CASE Admitted(s) /\ Runs(s)
  <2> DEFINE e == [phase |-> "control", setup |-> s, drilled_at |-> now]
  <2>1. drills' = [drills EXCEPT ![d] = e]
    BY <1>2, <1>5 DEF Runs
  <2>2. AdmittedAt(s, now)
    BY <1>5 DEF Admitted, AdmittedAt
  <2>3. GoodDrill(e)
    BY <1>3, <1>5, <2>2 DEF GoodDrill
  <2> QED
    BY <1>3, <2>1, <2>3, OneDrill
<1>6. CASE Admitted(s) /\ ~Runs(s)
  <2> DEFINE e == [phase |-> "tested", setup |-> s, drilled_at |-> now, trace |-> notTestable]
  <2>1. drills' = [drills EXCEPT ![d] = e]
    BY <1>2, <1>6 DEF Runs
  <2>2. AdmittedAt(s, now) /\ TraceOf(s, notTestable)
    BY <1>6 DEF Admitted, AdmittedAt, TraceOf
  <2>3. GoodDrill(e)
    BY <1>3, <2>2 DEF GoodDrill
  <2> QED
    BY <1>3, <2>1, <2>3, OneDrill
<1> QED
  BY <1>4, <1>5, <1>6

(* The fixture runs as it must, or is found reserved at another instant.   *)
LEMMA RunFixtureStep ==
    ASSUME DrillInv, NEW d \in Drill, RunFixture(d) PROVE DrillInv'
<1> DEFINE o == drills[d]
           s == o.setup
           trace == IF now # s.contract.commitment THEN notTestable ELSE Ran(s)
           e == [phase |-> "tested", setup |-> s, drilled_at |-> o.drilled_at, trace |-> trace]
<1>1. GoodDrill(o) /\ o.phase = "control"
  BY DEF DrillInv, RunFixture
<1>2. s \in Setup /\ o.drilled_at \in Nat /\ AdmittedAt(s, o.drilled_at) /\ Runs(s)
  BY <1>1 DEF GoodDrill, Idle
<1>3. drills' = [drills EXCEPT ![d] = e] /\ UNCHANGED now
  BY DEF RunFixture, Ran, DrillInv
<1>4. TraceOf(s, trace)
  BY <1>2 DEF TraceOf
<1> HIDE DEF trace
<1>5. GoodDrill(e)
  BY <1>2, <1>4 DEF GoodDrill
<1> QED
  BY <1>3, <1>5, OneDrill

(* The attestation is over the drill's own contract and trace.             *)
LEMMA AttestStep ==
    ASSUME DrillInv, NEW d \in Drill, Attest(d) PROVE DrillInv'
<1> DEFINE o == drills[d]
           s == o.setup
           bundle == BundleOf(s, o.trace, o.drilled_at)
           e == [phase |-> "attested", setup |-> s, drilled_at |-> o.drilled_at,
                 bundle |-> bundle]
<1>1. GoodDrill(o) /\ o.phase = "tested"
  BY DEF DrillInv, Attest
<1>2. s \in Setup /\ o.drilled_at \in Nat /\ AdmittedAt(s, o.drilled_at) /\ TraceOf(s, o.trace)
  BY <1>1 DEF GoodDrill, Idle
<1>3. drills' = [drills EXCEPT ![d] = e] /\ UNCHANGED now
  BY DEF Attest, BundleOf, DrillInv
<1>4. \E trace : TraceOf(s, trace) /\ bundle = BundleOf(s, trace, o.drilled_at)
  BY <1>2
<1> HIDE DEF bundle
<1>5. GoodDrill(e)
  BY <1>2, <1>4 DEF GoodDrill
<1> QED
  BY <1>3, <1>5, OneDrill

(* The invariant holds at the start and through every step.                *)
LEMMA DrillInvariant == DrillSpec => []DrillInv
<1>1. DrillInit => DrillInv
  BY DEF DrillInit, DrillInv, GoodDrill
<1>2. DrillInv /\ [DrillNext]_dvars => DrillInv'
  <2> SUFFICES ASSUME DrillInv, [DrillNext]_dvars PROVE DrillInv'
    OBVIOUS
  <2>1. CASE Advance
    <3>1. now \in Nat /\ now' = now + 1 /\ now' \in Nat /\ now' # 0 /\ drills' = drills
      BY <2>1 DEF Advance, DrillInv
    <3>2. ASSUME NEW s, NEW trace, TraceOf(s, trace) PROVE TraceOf(s, trace)'
      BY <3>1, <3>2 DEF TraceOf
    <3>3. ASSUME NEW d \in Drill PROVE GoodDrill(drills[d])'
      <4>1. GoodDrill(drills[d])
        BY DEF DrillInv
      <4> QED
        BY <3>1, <4>1 DEF GoodDrill, TraceOf
    <3> QED
      BY <3>1, <3>3 DEF DrillInv
  <2>2. CASE UNCHANGED dvars
    BY <2>2 DEF dvars, DrillInv, GoodDrill, TraceOf
  <2> QED
    BY <2>1, <2>2, BeginStep, RunFixtureStep, AttestStep DEF DrillNext
<1> QED
  BY <1>1, <1>2, PTL DEF DrillSpec

-------------------------------------------------------------------------------
(* Attested bundles. *)

(* What an attested drill exported.                                        *)
Exports(d, s, trace, t) ==
    /\ s = drills[d].setup /\ s \in Setup /\ t \in Nat /\ AdmittedAt(s, t)
    /\ TraceOf(s, trace) /\ drills[d].bundle = BundleOf(s, trace, t)

(* Every attested drill exported a bundle of its own.                      *)
LEMMA AttestedDrill ==
    ASSUME DrillInv, NEW d \in Attested
    PROVE  \E s, trace, t : Exports(d, s, trace, t)
<1>1. d \in Drill /\ drills[d].phase = "attested" /\ GoodDrill(drills[d])
  BY DEF Attested, DrillInv
<1>2. \E trace : Exports(d, drills[d].setup, trace, drills[d].drilled_at)
  BY <1>1 DEF GoodDrill, Idle, Exports
<1> QED
  BY <1>2

(* The parts of a bundle, and what its attestation repeats.                *)
LEMMA BundleParts ==
    ASSUME NEW s, NEW trace, NEW t
    PROVE  LET b == BundleOf(s, trace, t) IN
           /\ b.recovery_contract = s.contract /\ b.trace = trace
           /\ b.drill_attestation = buildAttestationCore(s.contract, trace,
                                        deriveQualification(s.contract, trace), t)
           /\ b.drill_attestation.contract_digest = s.contract
           /\ b.drill_attestation.trace_digest = trace
           /\ b.drill_attestation.qualification = deriveQualification(s.contract, trace)
           /\ b.drill_attestation.drilled_at = t
           /\ b.drill_attestation.expires_at = expectedExpiry(s.contract, t)
  BY DEF BundleOf, buildAttestationCore

(* What the runner exports, the verifier replays.                          *)
LEMMA OwnReplays ==
    ASSUME NEW s, NEW trace, NEW t, AdmittedAt(s, t)
    PROVE  Replays(BundleOf(s, trace, t))
  BY BundleParts DEF AdmittedAt, Replays

(* A bundle that replays, whatever it was assembled from, is one that the  *)
(* drill of its attestation exported.                                      *)
LEMMA ReplayedIsExported ==
    ASSUME DrillInv, NEW b \in Assembled, Replays(b)
    PROVE  \E d \in Attested : b = drills[d].bundle
<1>1. PICK d \in Attested : b.drill_attestation = drills[d].bundle.drill_attestation
  BY DEF Assembled, Bundles
<1>2. PICK s, trace, t : Exports(d, s, trace, t)
  BY AttestedDrill
<1>3. /\ drills[d].bundle = BundleOf(s, trace, t)
      /\ b.drill_attestation.contract_digest = s.contract
      /\ b.drill_attestation.trace_digest = trace
  BY <1>1, <1>2, BundleParts DEF Exports
<1>4. /\ b.drill_attestation.contract_digest = b.recovery_contract
      /\ b.drill_attestation.trace_digest = b.trace
  BY DEF Replays, buildAttestationCore
<1>5. b = [recovery_contract |-> b.recovery_contract, trace |-> b.trace,
           drill_attestation |-> b.drill_attestation]
  BY DEF Assembled
<1>6. drills[d].bundle = [recovery_contract |-> s.contract, trace |-> trace,
                          drill_attestation |-> drills[d].bundle.drill_attestation]
  BY <1>3 DEF BundleOf
<1> QED
  BY <1>1, <1>3, <1>4, <1>5, <1>6

(* The lesser of two numbers.                                              *)
LEMMA LeastOfTwo ==
    ASSUME NEW a \in Int, NEW b \in Int
    PROVE  Min({a, b}) = IF a <= b THEN a ELSE b
<1>1. \E x \in {a, b} : \A y \in {a, b} : x <= y
  OBVIOUS
<1>2. Min({a, b}) \in {a, b} /\ \A y \in {a, b} : Min({a, b}) <= y
  BY <1>1 DEF Min
<1> QED
  BY <1>2

-------------------------------------------------------------------------------
(* The theorems. *)

(* Of all bundles that can be put together from the parts of any drills,   *)
(* those that replay are the drills' own.                                  *)
THEOREM WholeBundles == DrillSpec => []OnlyWholeBundlesReplay
<1>1. DrillInv => OnlyWholeBundlesReplay
  <2> SUFFICES ASSUME DrillInv PROVE OnlyWholeBundlesReplay
    OBVIOUS
  <2>1. ASSUME NEW d \in Attested
        PROVE  drills[d].bundle \in Assembled /\ Replays(drills[d].bundle)
    <3>1. PICK s, trace, t : Exports(d, s, trace, t)
      BY AttestedDrill
    <3>2. drills[d].bundle \in Bundles
      BY DEF Bundles
    <3>3. drills[d].bundle = [recovery_contract |-> drills[d].bundle.recovery_contract,
                              trace |-> drills[d].bundle.trace,
                              drill_attestation |-> drills[d].bundle.drill_attestation]
      BY <3>1 DEF Exports, BundleOf
    <3>4. drills[d].bundle \in Assembled
      BY <3>2, <3>3 DEF Assembled
    <3> QED
      BY <3>1, <3>4, OwnReplays DEF Exports
  <2>2. \A b \in Bundles : b \in Assembled /\ Replays(b)
    BY <2>1 DEF Bundles
  <2>3. \A b \in Assembled : Replays(b) => b \in Bundles
    BY ReplayedIsExported DEF Bundles
  <2> QED
    BY <2>2, <2>3 DEF OnlyWholeBundlesReplay
<1> QED
  BY <1>1, DrillInvariant, PTL

(* A verdict of exact recovery needs a run whose fault did damage and      *)
(* whose remedy brought the intact checkpoint back.                        *)
LEMMA ExactNeedsRecovery ==
    ASSUME NEW s, NEW trace, TraceOf(s, trace),
           deriveQualification(s.contract, trace) = "QUALIFIED_EXACT"
    PROVE  /\ Runs(s) /\ s.contract.checkpoint = 1
           /\ s.fault \notin {"missing-checkpoint", "corrupt-checkpoint"}
           /\ Executed(s.fault) # 1
           /\ Remedied(Executed(s.fault), s.fault) = 1
<1>1. trace # notTestable
  BY DEF deriveQualification, notTestable
<1>2. Runs(s) /\ trace = Ran(s)
  BY <1>1 DEF TraceOf
<1>3. /\ checkpointIntact(s.contract, trace) /\ faultObserved(trace)
      /\ trace.oracle_satisfied
  BY DEF deriveQualification
<1>4. /\ trace.baseline = 1 /\ trace.damaged = Executed(s.fault)
      /\ trace.oracle_satisfied <=> Remedied(Executed(s.fault), s.fault) = 1
      /\ trace.checkpoint = CASE s.fault = "missing-checkpoint" -> Absent
                              [] s.fault = "corrupt-checkpoint" -> 1 + Corruption
                              [] OTHER -> 1
  BY <1>2 DEF Ran
<1>5. s.contract.checkpoint = 1 /\ trace.checkpoint = 1 /\ Executed(s.fault) # 1
  BY <1>3, <1>4 DEF checkpointIntact, faultObserved
<1>6. s.fault \notin {"missing-checkpoint", "corrupt-checkpoint"}
  BY <1>4, <1>5 DEF Absent, Corruption
<1> QED
  BY <1>2, <1>3, <1>4, <1>5, <1>6

(* QUALIFIED_EXACT, on a bundle assembled from anything, is only said of a *)
(* drill of that contract in which the registered adapter restored the     *)
(* state before the damage.                                                *)
THEOREM QualifiedRestored == DrillSpec => []QualifiedMeansRestored
<1>1. DrillInv => QualifiedMeansRestored
  <2> SUFFICES ASSUME DrillInv, NEW b \in Assembled, Replays(b),
                      b.drill_attestation.qualification = "QUALIFIED_EXACT"
               PROVE  \E d \in Attested :
                        LET s == drills[d].setup
                        IN /\ b.recovery_contract = s.contract
                           /\ ~s.substituted /\ s.contract.in_scope
                           /\ s.contract.checkpoint = 1
                           /\ s.fault \notin {"missing-checkpoint", "corrupt-checkpoint"}
                           /\ Executed(s.fault) # 1
                           /\ Remedied(Executed(s.fault), s.fault) = 1
    BY DEF QualifiedMeansRestored
  <2>1. PICK d \in Attested : b = drills[d].bundle
    BY ReplayedIsExported
  <2>2. PICK s, trace, t : Exports(d, s, trace, t)
    BY AttestedDrill
  <2>3. b.recovery_contract = s.contract
        /\ deriveQualification(s.contract, trace) = "QUALIFIED_EXACT"
    BY <2>1, <2>2, BundleParts DEF Exports
  <2>4. /\ Runs(s) /\ s.contract.checkpoint = 1
        /\ s.fault \notin {"missing-checkpoint", "corrupt-checkpoint"}
        /\ Executed(s.fault) # 1
        /\ Remedied(Executed(s.fault), s.fault) = 1
    BY <2>2, <2>3, ExactNeedsRecovery DEF Exports
  <2>5. ~s.substituted /\ s.contract.in_scope
    BY <2>2, <2>4 DEF Exports, AdmittedAt, Runs, Supported, Setup, Contract
  <2>6. s = drills[d].setup
    BY <2>2 DEF Exports
  <2> QED
    BY <2>3, <2>4, <2>5, <2>6
<1> QED
  BY <1>1, DrillInvariant, PTL

(* Every injected drill fault ends in the class the tests expect, and an   *)
(* undisturbed drill at the instant of the live reservation qualifies.     *)
THEOREM FaultsAreClassified == DrillSpec => []FaultsClassified
<1>1. DrillInv => FaultsClassified
  <2> SUFFICES ASSUME DrillInv, NEW d \in Attested,
                      drills[d].setup.contract
                         \in {Usual, [Usual EXCEPT !.recovery_class = "compensation"]}
               PROVE
        LET s == drills[d].setup
            verdict == drills[d].bundle.drill_attestation.qualification
        IN CASE s.fault \in {"not-testable-local", "out-of-scope"} ->
                      verdict = "NOT_TESTABLE_LOCAL"
             [] s.fault \in {"missing-checkpoint", "corrupt-checkpoint",
                             "fault-not-observed", "remedy-failure"} ->
                      verdict \in {"NOT_QUALIFIED", "NOT_TESTABLE_LOCAL"}
             [] s.fault = "none" /\ now = 0 ->
                      verdict = IF s.contract = Usual THEN "QUALIFIED_EXACT"
                                ELSE "REVIEW_COMPENSATED"
             [] OTHER -> verdict # "NOT_QUALIFIED"
    BY DEF FaultsClassified
  <2>1. PICK s, trace, t : Exports(d, s, trace, t)
    BY AttestedDrill
  <2> DEFINE verdict == drills[d].bundle.drill_attestation.qualification
  <2>2. s = drills[d].setup /\ TraceOf(s, trace)
        /\ verdict = deriveQualification(s.contract, trace)
    BY <2>1, BundleParts DEF Exports
  <2> HIDE DEF verdict
  <2>3. /\ s.contract.recovery_class \in {"exact", "compensation"}
        /\ s.contract.recovery_class = "exact" <=> s.contract = Usual
        /\ s.contract.fidelity = "synthetic" /\ s.contract.oracle = "exact-state-digest"
        /\ s.contract.in_scope /\ s.contract.checkpoint = 1 /\ s.contract.commitment = 0
    <3>1. CASE s.contract = Usual
      BY <3>1 DEF Usual
    <3>2. CASE s.contract = [Usual EXCEPT !.recovery_class = "compensation"]
      <4>1. s.contract.recovery_class = "compensation" /\ Usual.recovery_class = "exact"
        BY <3>2 DEF Usual
      <4>2. s.contract # Usual
        BY <4>1
      <4>3. /\ s.contract.fidelity = "synthetic" /\ s.contract.oracle = "exact-state-digest"
            /\ s.contract.in_scope /\ s.contract.checkpoint = 1 /\ s.contract.commitment = 0
        BY <3>2 DEF Usual
      <4> QED
        BY <4>1, <4>2, <4>3
    <3> QED
      BY <2>2, <3>1, <3>2
  <2>4. CASE trace = notTestable
    <3>1. verdict = "NOT_TESTABLE_LOCAL"
      BY <2>2, <2>4 DEF deriveQualification, notTestable
    <3>2. ~(s.fault = "none" /\ now = 0)
      BY <2>2, <2>3, <2>4 DEF TraceOf, Runs, Supported, Ran, notTestable
    <3> QED
      BY <2>2, <3>1, <3>2 DEF verdict
  <2>5. CASE trace # notTestable
    <3>1. Runs(s) /\ trace = Ran(s)
      BY <2>2, <2>5 DEF TraceOf
    <3>2. s.fault \notin {"not-testable-local", "out-of-scope"}
      BY <3>1 DEF Runs, Supported
    <3>3. /\ trace.local_testable /\ trace.recovery_attempted
          /\ trace.reference = 1 /\ trace.baseline = 1
          /\ trace.damaged = Executed(s.fault) /\ (trace.fault_observed <=> Executed(s.fault) # 1)
          /\ trace.recovered = Remedied(Executed(s.fault), s.fault)
          /\ trace.oracle_satisfied <=> Remedied(Executed(s.fault), s.fault) = 1
          /\ trace.checkpoint = CASE s.fault = "missing-checkpoint" -> Absent
                                  [] s.fault = "corrupt-checkpoint" -> 1 + Corruption
                                  [] OTHER -> 1
      BY <2>3, <3>1 DEF Ran
    <3>4. CASE s.fault \in {"missing-checkpoint", "corrupt-checkpoint"}
      <4>1. ~checkpointIntact(s.contract, trace)
        BY <2>3, <3>3, <3>4 DEF checkpointIntact, Absent, Corruption
      <4>2. verdict = "NOT_QUALIFIED"
        BY <2>2, <2>3, <3>3, <4>1 DEF deriveQualification
      <4> QED
        BY <2>2, <3>4, <4>2 DEF verdict
    <3>5. CASE s.fault = "fault-not-observed"
      <4>1. ~faultObserved(trace)
        BY <3>3, <3>5 DEF faultObserved, Executed
      <4>2. verdict = "NOT_QUALIFIED"
        BY <2>2, <2>3, <3>3, <4>1 DEF deriveQualification
      <4> QED
        BY <2>2, <3>5, <4>2 DEF verdict
    <3>6. CASE s.fault = "remedy-failure"
      <4>1. trace.recovered = 2 /\ ~trace.oracle_satisfied
        BY <3>3, <3>6 DEF Executed, Remedied
      <4>2. checkpointIntact(s.contract, trace) /\ faultObserved(trace)
        BY <2>3, <3>3, <3>6 DEF checkpointIntact, faultObserved, Absent, Executed
      <4>3. verdict \in {"NOT_QUALIFIED", "NOT_TESTABLE_LOCAL"}
        BY <2>2, <2>3, <3>3, <4>1, <4>2 DEF deriveQualification, Exact
      <4> QED
        BY <2>2, <3>6, <4>3 DEF verdict
    <3>7. CASE s.fault \notin {"missing-checkpoint", "corrupt-checkpoint",
                               "fault-not-observed", "remedy-failure"}
      <4>1. /\ trace.damaged = 2 /\ trace.fault_observed /\ trace.recovered = 1
            /\ trace.oracle_satisfied /\ trace.checkpoint = 1
        BY <3>3, <3>7 DEF Executed, Remedied
      <4>2. checkpointIntact(s.contract, trace) /\ faultObserved(trace) /\ trace.recovered # Absent
        BY <2>3, <3>3, <4>1 DEF checkpointIntact, faultObserved, Absent
      <4>3. verdict = IF s.contract = Usual THEN "QUALIFIED_EXACT" ELSE "REVIEW_COMPENSATED"
        BY <2>2, <2>3, <3>3, <4>1, <4>2 DEF deriveQualification, Exact
      <4> QED
        BY <2>2, <3>2, <3>7, <4>3 DEF verdict
    <3> QED
      BY <3>4, <3>5, <3>6, <3>7
  <2> QED
    BY <2>4, <2>5
<1> QED
  BY <1>1, DrillInvariant, PTL

(* The diagnosis of a drill whose contract asks for exact recovery finds   *)
(* no failed check just when the drill qualified.                          *)
THEOREM ChecksExplain == DrillSpec => []ChecksExplainVerdict
<1>1. DrillInv => ChecksExplainVerdict
  <2> SUFFICES ASSUME DrillInv, NEW d \in Attested, Exact(drills[d].bundle.recovery_contract)
               PROVE  failed_checks(drills[d].bundle) = {} <=>
                         drills[d].bundle.drill_attestation.qualification = "QUALIFIED_EXACT"
    BY DEF ChecksExplainVerdict, Bundles
  <2>1. PICK s, trace, t : Exports(d, s, trace, t)
    BY AttestedDrill
  <2> DEFINE b == drills[d].bundle
             contract == s.contract
             checks == [synthetic_fixture |-> contract.fidelity = "synthetic",
                        locally_testable |-> trace.local_testable,
                        checkpoint_intact |-> checkpointIntact(contract, trace),
                        fault_observed |-> faultObserved(trace),
                        recovery_attempted |-> trace.recovery_attempted,
                        oracle_satisfied |-> trace.oracle_satisfied,
                        exact_state_restored |-> /\ trace.baseline # Absent
                                                 /\ trace.recovered # Absent
                                                 /\ trace.baseline = trace.recovered]
  <2>2. /\ b.recovery_contract = contract /\ b.trace = trace
        /\ b.drill_attestation.qualification = deriveQualification(contract, trace)
    BY <2>1, BundleParts DEF Exports
  <2>3. failed_checks(b) = {check \in DOMAIN checks : ~checks[check]}
    BY <2>2 DEF failed_checks
  <2>4. failed_checks(b) = {} <=>
           /\ contract.fidelity = "synthetic" /\ trace.local_testable
           /\ checkpointIntact(contract, trace) /\ faultObserved(trace)
           /\ trace.recovery_attempted /\ trace.oracle_satisfied
           /\ trace.baseline # Absent /\ trace.recovered # Absent
           /\ trace.baseline = trace.recovered
    <3>1. DOMAIN checks = {"synthetic_fixture", "locally_testable", "checkpoint_intact",
                           "fault_observed", "recovery_attempted", "oracle_satisfied",
                           "exact_state_restored"}
      OBVIOUS
    <3>2. /\ checks["synthetic_fixture"] = (contract.fidelity = "synthetic")
          /\ checks["locally_testable"] = trace.local_testable
          /\ checks["checkpoint_intact"] = checkpointIntact(contract, trace)
          /\ checks["fault_observed"] = faultObserved(trace)
          /\ checks["recovery_attempted"] = trace.recovery_attempted
          /\ checks["oracle_satisfied"] = trace.oracle_satisfied
          /\ checks["exact_state_restored"] = (/\ trace.baseline # Absent
                                               /\ trace.recovered # Absent
                                               /\ trace.baseline = trace.recovered)
      OBVIOUS
    <3> HIDE DEF checks
    <3>3. failed_checks(b) = {} <=> \A check \in DOMAIN checks : checks[check]
      BY <2>3
    <3>4. failed_checks(b) = {} <=>
             /\ checks["synthetic_fixture"] /\ checks["locally_testable"]
             /\ checks["checkpoint_intact"] /\ checks["fault_observed"]
             /\ checks["recovery_attempted"] /\ checks["oracle_satisfied"]
             /\ checks["exact_state_restored"]
      BY <3>1, <3>3
    <3> QED
      BY <3>2, <3>4
  <2> HIDE DEF b, checks
  <2>5. failed_checks(b) = {} <=> deriveQualification(contract, trace) = "QUALIFIED_EXACT"
    BY <2>2, <2>4 DEF deriveQualification, checkpointIntact, b
  <2> QED
    BY <2>2, <2>5 DEF b
<1> QED
  BY <1>1, DrillInvariant, PTL

(* A drill is current in one stretch of time, from the drill to the end of *)
(* its contract or the age of its attestation, and the review names which. *)
THEOREM CurrentIsCovered == DrillSpec => []CurrentWhileCovered
<1>1. DrillInv => CurrentWhileCovered
  <2> SUFFICES ASSUME DrillInv, NEW d \in Attested
               PROVE
        LET b == drills[d].bundle
            contract == b.recovery_contract
            drilledAt == b.drill_attestation.drilled_at
        IN /\ {t \in 0 .. 2 * MaxTime : Current(b, t)} =
                 {t \in 0 .. 2 * MaxTime :
                     /\ drilledAt <= t /\ InWindow(contract, t)
                     /\ t - drilledAt < contract.max_age}
           /\ limiting_constraints(b) # {}
    BY DEF CurrentWhileCovered, Bundles
  <2>1. PICK s, trace, t : Exports(d, s, trace, t)
    BY AttestedDrill
  <2> DEFINE b == drills[d].bundle
             contract == s.contract
  <2>2. /\ b.recovery_contract = contract /\ b.drill_attestation.drilled_at = t
        /\ b.drill_attestation.expires_at = expectedExpiry(contract, t)
        /\ Replays(b)
    BY <2>1, BundleParts, OwnReplays DEF Exports
  <2>3. /\ contract.issued_at \in Int /\ contract.expires_at \in Int /\ contract.max_age \in Int
        /\ t \in Int /\ MaxTime \in Nat
    BY <2>1, DrillAssumption DEF Exports, Setup, Contract
  <2>4. InWindow(contract, t)
    BY <2>1 DEF Exports, AdmittedAt
  <2> HIDE DEF b, contract
  <2>5. expectedExpiry(contract, t) =
           IF t + contract.max_age <= contract.expires_at THEN t + contract.max_age
           ELSE contract.expires_at
    BY <2>3, LeastOfTwo DEF expectedExpiry
  <2>6. ASSUME NEW u \in 0 .. 2 * MaxTime
        PROVE  Current(b, u) <=> /\ t <= u /\ InWindow(contract, u)
                                 /\ u - t < contract.max_age
    <3>1. u \in Int
      BY <2>3
    <3>2. Current(b, u) <=> t <= u /\ u < expectedExpiry(contract, t)
      BY <2>2 DEF Current
    <3> QED
      BY <2>3, <2>4, <2>5, <3>1, <3>2 DEF InWindow
  <2>7. limiting_constraints(b) # {}
    <3>1. CASE b.drill_attestation.expires_at = contract.expires_at
      <4>1. "contract_expiry" \in limiting_constraints(b)
        BY <2>2, <3>1 DEF limiting_constraints
      <4> QED
        BY <4>1
    <3>2. CASE b.drill_attestation.expires_at = t + contract.max_age
      <4>1. "attestation_age" \in limiting_constraints(b)
        BY <2>2, <3>2 DEF limiting_constraints
      <4> QED
        BY <4>1
    <3> QED
      BY <2>2, <2>5, <3>1, <3>2
  <2> QED
    BY <2>2, <2>6, <2>7 DEF b
<1> QED
  BY <1>1, DrillInvariant, PTL
===============================================================================
