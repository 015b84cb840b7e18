------------------------------ MODULE RailState ------------------------------
(***************************************************************************)
(* The constants of the lifecycle, src/src/rail-state.js, and the          *)
(* vocabularies src/src/rail-schema.js lets a connector answer with.  The  *)
(* transition table is a relation: rail and verifier both consult it.      *)
(***************************************************************************)

States ==
    {"PROPOSED", "DENIED", "AUTHORIZED", "EXPIRED", "REVOKED",
     "RECOURSE_RESERVED", "PERMITTED", "EXECUTING", "EXECUTED", "FAILED",
     "UNKNOWN", "REVIEW_REQUIRED", "VERIFYING", "SATISFIED", "BREACHED",
     "INCONCLUSIVE", "REMEDY_DUE", "REMEDIATING", "REMEDY_UNKNOWN",
     "REMEDY_VERIFYING", "REMEDY_FAILED", "REMEDIATED",
     "REMEDY_INCONCLUSIVE", "CLOSED"}

ALLOWED_TRANSITIONS ==
    ({"PROPOSED"}          \X {"AUTHORIZED", "DENIED"})
    \cup ({"AUTHORIZED"}        \X {"EXPIRED", "REVOKED", "RECOURSE_RESERVED"})
    \cup ({"RECOURSE_RESERVED"} \X {"EXPIRED", "REVOKED", "PERMITTED"})
    \cup ({"PERMITTED"}         \X {"EXPIRED", "REVOKED", "EXECUTING"})
    \cup ({"EXECUTING"}         \X {"EXECUTED", "FAILED", "UNKNOWN"})
    \cup ({"UNKNOWN"}           \X {"EXECUTED", "FAILED", "REVIEW_REQUIRED"})
    \cup ({"EXECUTED"}          \X {"VERIFYING"})
    \cup ({"VERIFYING"}         \X {"SATISFIED", "BREACHED", "INCONCLUSIVE"})
    \cup ({"BREACHED"}          \X {"REMEDY_DUE"})
    \cup ({"REMEDY_DUE"}        \X {"REMEDIATING", "REVIEW_REQUIRED"})
    \cup ({"REMEDIATING", "REMEDY_UNKNOWN"}
                                \X {"REMEDY_VERIFYING", "REMEDY_FAILED"})
    \cup ({"REMEDIATING"}       \X {"REMEDY_UNKNOWN"})
    \cup ({"REMEDY_UNKNOWN"}    \X {"REVIEW_REQUIRED"})
    \cup ({"REMEDY_VERIFYING"}  \X {"REMEDIATED", "REMEDY_FAILED",
                                    "REMEDY_INCONCLUSIVE"})
    \cup ({"SATISFIED", "REMEDIATED", "INCONCLUSIVE", "REMEDY_INCONCLUSIVE",
           "REVIEW_REQUIRED", "REMEDY_FAILED"} \X {"CLOSED"})

\* The states a settlement receipt can be cut from, and what it then says.
DisputedStates ==
    {"INCONCLUSIVE", "REMEDY_INCONCLUSIVE", "REVIEW_REQUIRED", "REMEDY_FAILED"}

Outcomes == {"settled", "compensated", "disputed"}

RECEIPT_STATES == DisputedStates \cup {"SATISFIED", "REMEDIATED"}

RECEIPT_OUTCOME_BY_STATE ==
    [s \in RECEIPT_STATES |->
        IF s = "SATISFIED" THEN "settled"
        ELSE IF s = "REMEDIATED" THEN "compensated"
        ELSE "disputed"]

ASSURANCE_MODES == {"enforced", "cooperative", "observed"}

RemedyKinds == {"reverse", "compensate", "escalate"}

\* What a connector may report of a reservation; a receipt cannot carry the last.
RECEIPT_RECOURSE_STATUSES == {"active", "expired", "released", "consumed"}
RecourseStatuses == RECEIPT_RECOURSE_STATUSES \cup {"unknown"}
===============================================================================
