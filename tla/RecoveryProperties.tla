--------------------------- MODULE RecoveryProperties --------------------------
(***************************************************************************)
(* What an attested drill says, and when.                                  *)
(***************************************************************************)
EXTENDS RecoveryPreflight, TLC

Symmetry == Permutations(Drill)

Attested == {d \in Drill : drills[d].phase = "attested"}

Bundles == {drills[d].bundle : d \in Attested}

(* Bundles whose parts may come from the files of different drills. *)
Assembled ==
    [recovery_contract : {b.recovery_contract : b \in Bundles},
     trace : {b.trace : b \in Bundles},
     drill_attestation : {b.drill_attestation : b \in Bundles}]

(* The runner's own bundle replays, and a bundle put together from parts   *)
(* of different drills replays only if it equals a drill's own: the        *)
(* attestation binds the whole contract and the whole trace.               *)
OnlyWholeBundlesReplay ==
    {b \in Assembled : Replays(b)} = Bundles

(* QUALIFIED_EXACT is only said of a drill that ran the registered adapter *)
(* on a synthetic fixture reserved as the live action was, in which the    *)
(* injected fault did damage, the checkpoint was intact, and the remedy    *)
(* brought back exactly the state before the fault.                        *)
QualifiedMeansRestored ==
    \A b \in Assembled :
        Replays(b) /\ b.drill_attestation.qualification = "QUALIFIED_EXACT" =>
            \E d \in Attested :
                LET s == drills[d].setup
                IN /\ b.recovery_contract = s.contract
                   /\ ~s.substituted /\ s.contract.in_scope
                   /\ s.contract.checkpoint = 1
                   /\ s.fault \notin {"missing-checkpoint", "corrupt-checkpoint"}
                   /\ Executed(s.fault) # 1
                   /\ Remedied(Executed(s.fault), s.fault) = 1

(* An injected drill fault is classified as test/recovery-preflight.test.js *)
(* expects and nothing is over-claimed; the undisturbed drill qualifies if  *)
(* it reserves at the instant of the live reservation.                      *)
FaultsClassified ==
    \A d \in Attested :
        LET s == drills[d].setup
            verdict == drills[d].bundle.drill_attestation.qualification
        IN s.contract \in {Usual, [Usual EXCEPT !.recovery_class = "compensation"]} =>
              CASE s.fault \in {"not-testable-local", "out-of-scope"} ->
                      verdict = "NOT_TESTABLE_LOCAL"
                [] s.fault \in {"missing-checkpoint", "corrupt-checkpoint",
                                "fault-not-observed", "remedy-failure"} ->
                      verdict \in {"NOT_QUALIFIED", "NOT_TESTABLE_LOCAL"}
                [] s.fault = "none" /\ now = 0 ->
                      verdict = IF s.contract = Usual THEN "QUALIFIED_EXACT"
                                ELSE "REVIEW_COMPENSATED"
                [] OTHER -> verdict # "NOT_QUALIFIED"

(* The diagnosis agrees with the verdict: for a contract of exact recovery *)
(* no check fails just when the drill qualified.                           *)
ChecksExplainVerdict ==
    \A b \in Bundles :
        Exact(b.recovery_contract) =>
            (failed_checks(b) = {} <=>
                b.drill_attestation.qualification = "QUALIFIED_EXACT")

(* A bundle is current in one stretch of time, from the drill on, that     *)
(* ends with the contract or the attestation's age, whichever is first,    *)
(* and the review names the constraint that ends it.                       *)
CurrentWhileCovered ==
    \A b \in Bundles :
        LET contract == b.recovery_contract
            drilledAt == b.drill_attestation.drilled_at
        IN /\ {t \in 0 .. 2 * MaxTime : Current(b, t)} =
                 {t \in 0 .. 2 * MaxTime :
                     /\ drilledAt <= t /\ InWindow(contract, t)
                     /\ t - drilledAt < contract.max_age}
           /\ limiting_constraints(b) # {}
===============================================================================
