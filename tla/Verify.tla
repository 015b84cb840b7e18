-------------------------------- MODULE Verify --------------------------------
(***************************************************************************)
(* The offline verifier (src/src/verify.js) applied to the audit bundle    *)
(* exportBundle would cut from a slice: the receipt, the permit, the       *)
(* accepted evidence and the event log.  Signatures and digests are exact, *)
(* so what is left is what the artifacts say of each other.                *)
(***************************************************************************)
EXTENDS Rail, FiniteSetsExt

Exportable(c) == c.receipt # <<>>

Moves(c) == {i \in DOMAIN c.events : c.events[i].type = "STATE_TRANSITION"}

\* The state reached by the transitions logged before position n.
StateBeforeEvent(c, n) ==
    LET earlier == {i \in Moves(c) : i < n}
    IN IF earlier = {} THEN "PROPOSED" ELSE c.events[Max(earlier)].to

ReplayedStates(c) == {"PROPOSED"} \cup {c.events[i].to : i \in Moves(c)}

\* verifyBundle: the receipt against the chain, the manifest and CLOSED
IntegrityHolds(c) ==
    LET receipt == c.receipt[1]
        last == c.events[Len(c.events)]
    IN /\ receipt.event_chain_head = Len(c.events)
       /\ receipt.evidence = c.evidence
       /\ c.events[1].type = "ACTION_PROPOSED"
       /\ last.type = "STATE_TRANSITION"
       /\ last.to = "CLOSED"
       /\ last.info = receipt.outcome

\* replayStates: the log is a legal run, in time order, that ends in CLOSED
ReplayHolds(c) ==
    /\ \A i \in DOMAIN c.events :
          i > 1 => c.events[i - 1].at <= c.events[i].at
    /\ \A i \in Moves(c) :
          /\ c.events[i].from = StateBeforeEvent(c, i)
          /\ <<c.events[i].from, c.events[i].to>> \in ALLOWED_TRANSITIONS
    /\ StateBeforeEvent(c, Len(c.events) + 1) = "CLOSED"

DeriveOutcome(c) ==
    IF "REMEDIATED" \in ReplayedStates(c) THEN "compensated"
    ELSE IF "SATISFIED" \in ReplayedStates(c) THEN "settled"
    ELSE IF ReplayedStates(c) \cap DisputedStates # {} THEN "disputed"
    ELSE "none"

Executions(c) == {i \in Moves(c) : c.events[i].to = "EXECUTING"}

\* The permit was consumed once, while it was valid.
ExecutionInsidePermit(c) ==
    /\ Cardinality(Executions(c)) = 1
    /\ \A i \in Executions(c) :
          /\ c.permit_issued_at <= c.events[i].at
          /\ c.events[i].at < c.expires_at

\* The permit was issued between the request and the expiry of the proposal.
PermitInsideProposal(c) ==
    /\ c.requested_at <= c.permit_issued_at
    /\ c.permit_issued_at < c.expires_at

\* The reservation was made before the permit and outlives it by the remedy
\* window.
ReservationCovers(c) ==
    /\ c.mode \in {"enforced", "cooperative"}
    /\ c.reserved_at <= c.permit_issued_at
    /\ c.reserved_until >= c.expires_at + RemedyWindow

\* verifyEvidenceSemantics: of the action's currency or SKU, and accepted in
\* its phase while it was fresh
EvidenceHolds(c, e) ==
    LET initial == e.phase = "initial"
        acceptances ==
            {i \in DOMAIN c.events :
                c.events[i].type = IF initial THEN "EVIDENCE_ACCEPTED"
                                   ELSE "REMEDY_EVIDENCE_ACCEPTED"}
    IN e.own /\ acceptances # {} /\
       LET i == Min(acceptances)
       IN /\ StateBeforeEvent(c, i) =
                 IF initial THEN "VERIFYING" ELSE "REMEDY_VERIFYING"
          /\ c.events[i].at - e.observed_at \in 0 .. MaxAge
          /\ c.events[i].info =
                 IF e.satisfied THEN "satisfied" ELSE "unsatisfied"

\* The evidence the outcome rests on.
OutcomeHolds(c) ==
    LET accepted == {<<c.evidence[i].phase, c.evidence[i].satisfied>> :
                        i \in DOMAIN c.evidence}
    IN CASE DeriveOutcome(c) = "settled" ->
                /\ <<"initial", TRUE>> \in accepted
                /\ "BREACHED" \notin ReplayedStates(c)
         [] DeriveOutcome(c) = "compensated" ->
                {<<"initial", FALSE>>, <<"post-remedy", TRUE>>} \subseteq accepted
         [] OTHER -> ReplayedStates(c) \cap DisputedStates # {}

\* The recourse status is recorded once, right before CLOSED.
RecourseHolds(c) ==
    LET n == Len(c.events) - 1
        status == c.receipt[1].recourse_final_status
        records == {i \in DOMAIN c.events :
                       c.events[i].type \in
                          {"RECOURSE_STATUS_RECORDED", "RECOURSE_FINALIZED"}}
    IN /\ records = {n}
       /\ c.events[n].info = status
       /\ c.events[n].type = IF status = "active"
                             THEN "RECOURSE_STATUS_RECORDED"
                             ELSE "RECOURSE_FINALIZED"
       /\ StateBeforeEvent(c, n) \in RECEIPT_STATES
       /\ RECEIPT_OUTCOME_BY_STATE[StateBeforeEvent(c, n)] = DeriveOutcome(c)

SemanticsHold(c) ==
    /\ ReplayHolds(c)
    /\ c.receipt[1].outcome = DeriveOutcome(c)
    /\ ReservationCovers(c)
    /\ ExecutionInsidePermit(c)
    /\ PermitInsideProposal(c)
    /\ \A i \in DOMAIN c.evidence : EvidenceHolds(c, c.evidence[i])
    /\ OutcomeHolds(c)
    /\ RecourseHolds(c)
    /\ c.events[Len(c.events)].at = c.receipt[1].closed_at

VerifiesBundle(c) == IntegrityHolds(c) /\ SemanticsHold(c)
===============================================================================
