------------------------------- MODULE RailWalks -------------------------------
(***************************************************************************)
(* Every segment of the rail as a walk in a few relations between slices.  *)
(*                                                                         *)
(* A handler of module Rail computes the slice it ends in; what the        *)
(* theorems about the log, the receipt and the recourse need of it is only *)
(* in which order it leaves which marks.  So each handler is shown once to *)
(* be a walk: an answer is taken, evidence is logged, the state moves,     *)
(* recourse is given back and recorded, the receipt is cut, a new call is  *)
(* sent - or it stops on the way where the store or the connector throws.  *)
(* An invariant of slices then needs one small step per relation instead   *)
(* of one per handler.                                                     *)
(***************************************************************************)
EXTENDS RailProofs

Fields == DOMAIN Unregistered

\* d differs from c in nothing but the fields F.
Same(c, d, F) == \A f \in Fields \ F : d[f] = c[f]

\* c.events grows by one event.
Logs(c, d, type, info, t) ==
    d.events = Append(c.events, [type |-> type, from |-> "none", to |-> "none",
                                 at |-> t, info |-> info])

LogsMove(c, d, info, t) ==
    d.events = Append(c.events, [type |-> "STATE_TRANSITION",
                                 from |-> c.state, to |-> d.state,
                                 at |-> t, info |-> info])

-------------------------------------------------------------------------------
(* An answer arrives. *)

Answering == Operations \cup {"none"}
Definite == {"none", "remediated", "failed"}

\* The continuation of op resumes, with a definite answer about the remedy or
\* none; a handler the caller starts resumes nothing.
Resumed(c, w, op, answer) ==
    /\ Same(c, w, {"awaiting", "remedy_answer", "remedy_result"})
    /\ IF op = "none" THEN w.awaiting = c.awaiting
       ELSE /\ c.awaiting[op] > 0
            /\ w.awaiting = [c.awaiting EXCEPT ![op] = c.awaiting[op] - 1]
    /\ w.remedy_answer = IF c.remedy_answer = "none" THEN answer ELSE c.remedy_answer
    /\ answer # "none" => op \in {"remediate", "reconcileRemedy"}
    /\ answer # "none" /\ op = "reconcileRemedy" /\ FinalAnswers =>
          c.remedy_answer \in {"none", answer}

\* The connector has reserved recourse.
Reserved(c, w, op, answer) ==
    /\ op = "none" /\ answer = "none"
    /\ c.state = "AUTHORIZED"
    /\ w.recourse = "active"
    /\ Same(c, w, {"recourse"})

Rejected(w, n, op, t) ==
    /\ \/ op = "observe" /\ Logs(w, n, "EVIDENCE_REJECTED", "", t)
       \/ op = "observeRemedy" /\ Logs(w, n, "REMEDY_EVIDENCE_REJECTED", "", t)
    /\ Same(w, n, {"events"})

Weighs(satisfied) == IF satisfied THEN "satisfied" ELSE "unsatisfied"

Accepted(w, n, op, t) ==
    \E satisfied \in BOOLEAN, o \in Fresh, own \in Ownership :
        /\ \/ /\ op = "observe"
              /\ Logs(w, n, "EVIDENCE_ACCEPTED", Weighs(satisfied), t)
              /\ n.evidence = Append(w.evidence, [phase |-> "initial",
                                 satisfied |-> satisfied, observed_at |-> o, own |-> own])
           \/ /\ op = "observeRemedy"
              /\ Logs(w, n, "REMEDY_EVIDENCE_ACCEPTED", Weighs(satisfied), t)
              /\ n.evidence = Append(w.evidence, [phase |-> "post-remedy",
                                 satisfied |-> satisfied, observed_at |-> o, own |-> own])
        /\ Same(w, n, {"events", "evidence"})

\* What a segment knows before it moves: n, reached from c.
Heard(c, n, op, answer, t) ==
    /\ op \in Answering /\ answer \in Definite /\ n \in Slice
    /\ \E w \in Slice :
          /\ Resumed(c, w, op, answer) \/ Reserved(c, w, op, answer)
          /\ n = w \/ Rejected(w, n, op, t) \/ Accepted(w, n, op, t)

\* It throws there, or has nothing to do there.
Paused(op, n) ==
    \/ Failures
    \/ op \in {"reconcile", "reconcileRemedy"}
    \/ op = "observeRemedy" /\ n.state # "REMEDY_VERIFYING"

-------------------------------------------------------------------------------
(* The state moves. *)

Shown(n, phase, satisfied) ==
    \E i \in DOMAIN n.evidence :
        n.evidence[i].phase = phase /\ n.evidence[i].satisfied = satisfied

\* The states entered with fields of their own set.
Marked == {"AUTHORIZED", "DENIED", "RECOURSE_RESERVED", "PERMITTED", "EXECUTING",
           "REMEDIATING"}

Permits(n, m, t) ==
    /\ m.state = "PERMITTED"
    /\ ~Lapsed(n)
    /\ n.preflight_required => Qualified(n)
    /\ m.permit_issued_at = t
    /\ Same(n, m, {"state", "events", "permit_issued_at"})

Starts(n, m) ==
    /\ m.state = "EXECUTING"
    /\ ~Lapsed(n)
    /\ m.permit_uses = n.permit_uses + 1 /\ m.execute_calls = n.execute_calls + 1
    /\ Same(n, m, {"state", "events", "permit_uses", "execute_calls"})

Remedies(n, m) ==
    /\ m.state = "REMEDIATING"
    /\ m.remedy_attempts = n.remedy_attempts + 1
    /\ m.remedy_calls = n.remedy_calls + 1
    /\ m.recourse \in Spent
    /\ Qualified(n) => n.qualified_implementation = implementation
    /\ Same(n, m, {"state", "events", "remedy_attempts", "remedy_calls", "recourse"})

Moved(n, m, t) ==
    /\ <<n.state, m.state>> \in ALLOWED_TRANSITIONS
    /\ LogsMove(n, m, "", t)
    /\ \/ /\ m.state \in {"AUTHORIZED", "DENIED"}
          /\ Same(n, m, {"state", "events", "preflight_required"})
       \/ /\ m.state = "RECOURSE_RESERVED"
          /\ n.mode # "observed" /\ n.recourse = "active"
          /\ m.reserved_until >= m.expires_at + RemedyWindow
          /\ m.reserved_at \in (now .. t) \cup ReservedAts
          /\ Same(n, m, {"state", "events", "kind", "reserved_at", "reserved_until",
                         "max_attempts"})
       \/ Permits(n, m, t)
       \/ Starts(n, m)
       \/ Remedies(n, m)
       \/ /\ m.state \notin Marked \cup {"CLOSED"}
          /\ m.state = "SATISFIED" => Shown(n, "initial", TRUE)
          /\ m.state = "BREACHED" => Shown(n, "initial", FALSE)
          /\ m.state = "REMEDIATED" => Shown(n, "post-remedy", TRUE)
          /\ Same(n, m, {"state", "events"})

-------------------------------------------------------------------------------
(* The action ends: recourse given back, its status recorded, the state    *)
(* CLOSED and, unless that throws, the receipt cut.                        *)

WithdrawnStates == {"EXPIRED", "REVOKED", "FAILED"}
ReturningStates == WithdrawnStates \cup {"SATISFIED", "REMEDIATED"}
EndStates == WithdrawnStates \cup RECEIPT_STATES

Returned(m, r) ==
    /\ m.state \in ReturningStates
    /\ r.recourse = IF m.recourse = "active" THEN "released" ELSE m.recourse
    /\ Same(m, r, {"recourse"})

Recorded(r, f, t) ==
    /\ r.state \in EndStates /\ r.final_status = "none"
    /\ f.final_status = r.recourse
    /\ Logs(r, f, IF r.recourse = "active" THEN "RECOURSE_STATUS_RECORDED"
                                           ELSE "RECOURSE_FINALIZED", r.recourse, t)
    /\ Same(r, f, {"final_status", "events"})

Closed(f, x, t) ==
    /\ f.state \in RECEIPT_STATES
    /\ f.final_status \in RECEIPT_RECOURSE_STATUSES
    /\ x.state = "CLOSED"
    /\ LogsMove(f, x, RECEIPT_OUTCOME_BY_STATE[f.state], t)
    /\ \/ x.receipt = <<[outcome |-> RECEIPT_OUTCOME_BY_STATE[f.state],
                         recourse_final_status |-> f.final_status,
                         evidence |-> f.evidence,
                         event_chain_head |-> Len(x.events),
                         closed_at |-> t]>>
       \/ Failures /\ x.receipt = f.receipt
    /\ Same(f, x, {"state", "events", "receipt"})

Ending(m, x, t) ==
    \E r, f \in Slice :
        /\ r = m \/ Returned(m, r)
        /\ f = r \/ Recorded(r, f, t)
        /\ x = f \/ Closed(f, x, t)

-------------------------------------------------------------------------------
(* A call is sent. *)

\* The states that wait for an answer, and the call they wait for.
WaitingStates == {"EXECUTING", "VERIFYING", "REMEDIATING", "REMEDY_VERIFYING"}

CallOf(state) ==
    IF state = "EXECUTING" THEN "execute"
    ELSE IF state = "VERIFYING" THEN "observe"
    ELSE IF state = "REMEDIATING" THEN "remediate"
    ELSE "observeRemedy"

Called(x, d) ==
    LET op == CallOf(d.state)
    IN /\ d.state \in WaitingStates
       /\ d.awaiting = [x.awaiting EXCEPT ![op] = x.awaiting[op] + 1]

Resulted(x, d) ==
    /\ Same(x, d, {"awaiting", "execution", "remedy_result"})
    /\ d.execution = "executed" => x.execution = "executed" \/ d.state = "EXECUTED"
    /\ d.execution \in {x.execution, "unknown"} \/ d.state \in {"EXECUTED", "FAILED"}
    /\ d.awaiting = x.awaiting \/ Called(x, d)

\* Nothing threw: no state was left half done.
Completed(x, d) ==
    /\ d.state # "BREACHED"
    /\ d.state \in RECEIPT_STATES =>
          /\ d.final_status \notin RECEIPT_RECOURSE_STATUSES
          /\ d.final_status = "none" => d.recourse = "none"
    /\ d.state \in WaitingStates => Called(x, d)

\* The continuation of op, with that answer, may leave from for to: a state
\* that waits is left by the answer it waits for, or when the remedy it
\* verifies turns out to have failed.
Leaves(op, answer, from, to) ==
    /\ to = "REMEDY_VERIFYING" => answer = "remediated"
    /\ to \in {"EXPIRED", "REVOKED"} => from # "AUTHORIZED"
    /\ from \in WaitingStates =>
          \/ op = CallOf(from)
          \/ from = "REMEDY_VERIFYING" /\ op = "reconcileRemedy" /\ answer = "failed"

\* A move from n, and what follows it up to d.
Left(op, answer, n, d, t) ==
    \E m, x \in Slice :
        /\ Leaves(op, answer, n.state, m.state)
        /\ Moved(n, m, t)
        /\ Ending(m, x, t) \/ (Moved(m, x, t) /\ x.state = "REMEDY_DUE")
        /\ Resulted(x, d)
        /\ Failures \/ Completed(x, d)

-------------------------------------------------------------------------------
(* The walks. *)

Proposed(c, d, t) ==
    /\ c.state = "UNREGISTERED" /\ d.state = "PROPOSED"
    /\ d.mode \in Modes /\ d.requested_at \in RequestedAts
    /\ d.requested_at < d.expires_at
    /\ Logs(c, d, "ACTION_PROPOSED", "PROPOSED", t)
    /\ Same(c, d, {"state", "mode", "requested_at", "expires_at", "events"})

Qualifies(c, d, t) ==
    /\ c.state = "RECOURSE_RESERVED"
    /\ Logs(c, d, "RECOVERY_PREFLIGHT_ACCEPTED", "QUALIFIED_EXACT", t)
    /\ Qualified(d)
    /\ Same(c, d, {"qualified_until", "qualified_implementation", "events"})

Asked(c, d) ==
    \E op \in {"reconcile", "reconcileRemedy"} :
        /\ c.state = IF op = "reconcile" THEN "UNKNOWN" ELSE "REMEDY_UNKNOWN"
        /\ d.awaiting = [c.awaiting EXCEPT ![op] = c.awaiting[op] + 1]
        /\ Same(c, d, {"awaiting"})

Walk(c, d, t) ==
    \/ Proposed(c, d, t)
    \/ Qualifies(c, d, t)
    \/ Asked(c, d)
    \/ \E op \in Answering, answer \in Definite, n \in Slice :
          /\ Heard(c, n, op, answer, t)
          /\ (d = n /\ Paused(op, n)) \/ Left(op, answer, n, d, t)

\* What a handler does: action a walks, and the clock is read.
Segment(a) ==
    \E t \in Nat :
        /\ t \in now .. (now + Drift) /\ now' \in {now, t}
        /\ actions' = [actions EXCEPT ![a] = actions'[a]]
        /\ Walk(actions[a], actions'[a], t)
        /\ UNCHANGED implementation

-------------------------------------------------------------------------------
(* The operators of module Rail as relations. *)

(* A slice has the fields of a slice.                                      *)
LEMMA SliceFields ==
    ASSUME NEW c \in Slice
    PROVE  DOMAIN c = Fields
  BY DEF Slice, Fields, Unregistered

(* Two changes in a row change at most what either of them changes.        *)
LEMMA SameSteps ==
    ASSUME NEW c, NEW d, NEW e, NEW F, NEW G, Same(c, d, F), Same(d, e, G)
    PROVE  Same(c, c, {}) /\ Same(c, e, F \cup G)
  BY DEF Same

(* Note changes the log only, by the event it appends.                     *)
LEMMA NoteLogs ==
    ASSUME NEW c \in Slice, NEW type, NEW info, NEW t
    PROVE  /\ Same(c, Note(c, type, info, t), {"events"})
           /\ Logs(c, Note(c, type, info, t), type, info, t)
<1>1. DOMAIN c = Fields /\ "events" \in Fields
  BY SliceFields DEF Fields, Unregistered
<1> QED
  BY <1>1 DEF Note, Same, Logs

(* Transition changes the state and the log, by the move it appends.       *)
LEMMA TransitionLogs ==
    ASSUME NEW c \in Slice, NEW next, NEW info, NEW t
    PROVE  /\ Same(c, Transition(c, next, info, t), {"state", "events"})
           /\ Transition(c, next, info, t).state = next
           /\ LogsMove(c, Transition(c, next, info, t), info, t)
<1>1. DOMAIN c = Fields /\ "events" \in Fields /\ "state" \in Fields
  BY SliceFields DEF Fields, Unregistered
<1> QED
  BY <1>1 DEF Transition, Same, LogsMove

(* A finished call has resumed exactly one of its continuations.           *)
LEMMA FinishResumes ==
    ASSUME NEW c \in Slice, NEW op \in Operations, c.awaiting[op] > 0
    PROVE  /\ Finish(c, op) \in Slice
           /\ Same(c, Finish(c, op), {"awaiting"})
           /\ Resumed(c, Finish(c, op), op, "none")
<1> DEFINE w == Finish(c, op)
<1>1. w \in Slice /\ w.awaiting = [c.awaiting EXCEPT ![op] = c.awaiting[op] - 1]
  BY FinishStep
<1>2. Same(c, w, {"awaiting"})
  BY SliceFields DEF Finish, Same, Fields, Unregistered
<1> HIDE DEF w
<1>3. w.remedy_answer = c.remedy_answer /\ op # "none"
  BY <1>2 DEF Same, Fields, Unregistered, Operations
<1>4. Resumed(c, w, op, "none")
  <2>1. w.remedy_answer = IF c.remedy_answer = "none" THEN "none" ELSE c.remedy_answer
    BY <1>3
  <2>2. Same(c, w, {"awaiting", "remedy_answer", "remedy_result"})
    BY <1>2 DEF Same
  <2> QED
    BY <1>1, <1>3, <2>1, <2>2 DEF Resumed
<1> QED
  BY <1>1, <1>2, <1>4 DEF w

(* The answer to a remedy call or status read resumes one continuation.    *)
LEMMA AnswerResumes ==
    ASSUME NEW c \in Slice, NEW op \in {"remediate", "reconcileRemedy"},
           c.awaiting[op] > 0, NEW answer \in {"remediated", "failed"},
           op = "reconcileRemedy" => Answers(c, answer)
    PROVE  /\ Answered(Finish(c, op), answer) \in Slice
           /\ Resumed(c, Answered(Finish(c, op), answer), op, answer)
<1> DEFINE f == Finish(c, op)
           w == Answered(f, answer)
<1>1. op \in Operations
  BY DEF Operations
<1>2. f \in Slice /\ Same(c, f, {"awaiting"}) /\ Resumed(c, f, op, "none")
  BY <1>1, FinishResumes
<1>3. f.awaiting = [c.awaiting EXCEPT ![op] = c.awaiting[op] - 1]
      /\ f.remedy_answer = c.remedy_answer
  BY <1>2 DEF Resumed, Same, Fields, Unregistered
<1> HIDE DEF f
<1>4. w \in Slice
  BY <1>2, AnsweredStep
<1>5. /\ Same(f, w, {"remedy_answer"})
      /\ w.remedy_answer = IF f.remedy_answer = "none" THEN answer ELSE f.remedy_answer
  <2>1. DOMAIN f = Fields /\ "remedy_answer" \in Fields
    BY <1>2, SliceFields DEF Fields, Unregistered
  <2> QED
    BY <2>1 DEF Answered, Same
<1> HIDE DEF w
<1>6. w.awaiting = f.awaiting
  BY <1>5 DEF Same, Fields, Unregistered
<1>7. Same(c, w, {"awaiting", "remedy_answer", "remedy_result"})
  BY <1>2, <1>5 DEF Same
<1>8. op # "none" /\ answer # "none"
  OBVIOUS
<1>9. Resumed(c, w, op, answer)
  BY <1>3, <1>5, <1>6, <1>7, <1>8 DEF Resumed, Answers
<1> QED
  BY <1>4, <1>9 DEF w, f

(* releaseRecourse alone.                                                  *)
LEMMA ReleaseReturns ==
    ASSUME NEW c \in Slice, c.state \in ReturningStates
    PROVE  Release(c) \in Slice /\ Returned(c, Release(c))
<1>1. DOMAIN c = Fields /\ "recourse" \in Fields
  BY SliceFields DEF Fields, Unregistered
<1>2. Same(c, Release(c), {"recourse"})
      /\ Release(c).recourse = IF c.recourse = "active" THEN "released" ELSE c.recourse
  BY <1>1 DEF Release, Same
<1> QED
  BY <1>2, ReleaseStep DEF Returned

(* finalizeRecourse is the first part of an ending, wherever it throws.    *)
LEMMA FinalizeEnds ==
    ASSUME NEW m \in Slice, m.state \in EndStates, NEW release \in BOOLEAN,
           release => m.state \in ReturningStates, NEW t \in Nat
    PROVE  LET f == Finalize(m, release, t)
           IN /\ f \in Slice
              /\ \E r \in Slice : /\ r = m \/ Returned(m, r)
                                  /\ f = r \/ Recorded(r, f, t)
              /\ f.state = m.state
              /\ f.final_status = "none" => f.recourse = "none"
              /\ \A x \in FinalizeStops(m, release) : x \in Slice /\ Ending(m, x, t)
<1> DEFINE r == IF release THEN Release(m) ELSE m
           type == IF r.recourse = "active" THEN "RECOURSE_STATUS_RECORDED"
                                            ELSE "RECOURSE_FINALIZED"
           n == Note(r, type, r.recourse, t)
           f == Finalize(m, release, t)
<1>1. r \in Slice /\ (r = m \/ Returned(m, r))
  BY ReleaseReturns
<1>2. f \in Slice /\ f.state = m.state
  BY FinalizeStep
<1>3. \A x \in FinalizeStops(m, release) : x \in Slice /\ Ending(m, x, t)
  <2>1. Ending(m, m, t)
    BY DEF Ending
  <2>2. release => Release(m) \in Slice /\ Ending(m, Release(m), t)
    BY ReleaseReturns DEF Ending
  <2> QED
    BY <2>1, <2>2 DEF FinalizeStops
<1>4. CASE m.final_status # "none"
  <2>1. f = m
    BY <1>4 DEF Finalize
  <2> QED
    BY <1>2, <1>3, <1>4, <2>1
<1>5. CASE m.final_status = "none"
  <2>1. f = [n EXCEPT !.final_status = r.recourse]
    BY <1>5 DEF Finalize
  <2>2. r.final_status = "none" /\ r.state \in EndStates
    BY <1>1, <1>5 DEF Returned, Same, Fields, Unregistered
  <2>3. type \in EventTypes /\ r.recourse \in Infos
    BY <1>1 DEF EventTypes, Infos, Slice
  <2>4. type = IF r.recourse = "active" THEN "RECOURSE_STATUS_RECORDED"
                                        ELSE "RECOURSE_FINALIZED"
    OBVIOUS
  <2> HIDE DEF r, type, f
  <2>5. Same(r, n, {"events"}) /\ Logs(r, n, type, r.recourse, t) /\ n \in Slice
    BY <1>1, <2>3, NoteLogs, NoteStep
  <2> HIDE DEF n
  <2>6. DOMAIN n = Fields /\ "final_status" \in Fields
    BY <2>5, SliceFields DEF Fields, Unregistered
  <2>7. Same(n, f, {"final_status"}) /\ f.final_status = r.recourse
    BY <2>1, <2>6 DEF Same
  <2>8. Same(r, f, {"final_status", "events"})
    BY <2>5, <2>7 DEF Same
  <2>9. f.events = n.events /\ f.recourse = r.recourse
    BY <2>5, <2>7 DEF Same, Fields, Unregistered
  <2>10. Logs(r, f, type, r.recourse, t)
    BY <2>5, <2>9 DEF Logs
  <2>11. Recorded(r, f, t)
    BY <2>2, <2>4, <2>7, <2>8, <2>10 DEF Recorded
  <2> QED
    BY <1>1, <1>2, <1>3, <2>7, <2>9, <2>11 DEF f
<1> QED
  BY <1>4, <1>5

(* close() is an ending, wherever it throws.                               *)
LEMMA CloseEnds ==
    ASSUME NEW m \in Slice, m.state \in RECEIPT_STATES, NEW t \in Nat
    PROVE  LET x == Close(m, t)
           IN /\ x \in Slice /\ Ending(m, x, t)
              /\ x.state \in {m.state, "CLOSED"}
              /\ x.state # "CLOSED" =>
                    /\ x.final_status \notin RECEIPT_RECOURSE_STATUSES
                    /\ x.final_status = "none" => x.recourse = "none"
              /\ Failures => \A y \in CloseStops(m, t) : y \in Slice /\ Ending(m, y, t)
<1> DEFINE outcome == RECEIPT_OUTCOME_BY_STATE[m.state]
           f == Finalize(m, Releases(m), t)
           s == Transition(f, "CLOSED", outcome, t)
           x == Cut(s, outcome, t)
<1>1. outcome \in Outcomes /\ outcome \in Infos
  BY OutcomeType DEF Infos
<1>2. m.state \in EndStates /\ m.state \in States
  BY DEF EndStates, RECEIPT_STATES, DisputedStates, States
<1>3. Releases(m) \in BOOLEAN /\ (Releases(m) => m.state \in ReturningStates)
  BY DEF Releases, ReturningStates, RECEIPT_STATES, RECEIPT_OUTCOME_BY_STATE
<1>4. /\ f \in Slice
      /\ \E r \in Slice : (r = m \/ Returned(m, r)) /\ (f = r \/ Recorded(r, f, t))
      /\ f.state = m.state
      /\ f.final_status = "none" => f.recourse = "none"
      /\ \A y \in FinalizeStops(m, Releases(m)) : y \in Slice /\ Ending(m, y, t)
  BY <1>2, <1>3, FinalizeEnds
<1>5. Ending(m, f, t)
  BY <1>4 DEF Ending
<1>6. f.final_status \notin RECEIPT_RECOURSE_STATUSES =>
         \A y \in CloseStops(m, t) : y \in Slice /\ Ending(m, y, t)
  <2>1. CloseStops(m, t) = FinalizeStops(m, Releases(m)) \cup {f} \cup
           (IF f.final_status \in RECEIPT_RECOURSE_STATUSES THEN {s} ELSE {})
    BY DEF CloseStops
  <2> QED
    BY <1>4, <1>5, <2>1
<1>7. Close(m, t) = IF f.final_status \in RECEIPT_RECOURSE_STATUSES THEN x ELSE f
  BY DEF Close
<1>8. CASE f.final_status \notin RECEIPT_RECOURSE_STATUSES
  <2>1. Close(m, t) = f
    BY <1>7, <1>8
  <2>2. f.state # "CLOSED"
    BY <1>4 DEF RECEIPT_STATES, DisputedStates
  <2> QED
    BY <1>4, <1>5, <1>6, <1>8, <2>1, <2>2
<1>9. CASE f.final_status \in RECEIPT_RECOURSE_STATUSES
  <2>1. Close(m, t) = x
    BY <1>7, <1>9
  <2> HIDE DEF outcome, f
  <2>2. f.state \in States /\ "CLOSED" \in States
    BY <1>2, <1>4 DEF States
  <2>3. /\ s \in Slice /\ s.state = "CLOSED"
        /\ Same(f, s, {"state", "events"}) /\ LogsMove(f, s, outcome, t)
    BY <1>1, <1>4, <2>2, TransitionStep, TransitionLogs
  <2> HIDE DEF s
  <2>4. s.final_status = f.final_status /\ s.evidence = f.evidence
    BY <2>3 DEF Same, Fields, Unregistered
  <2>5. x \in Slice /\ x.state = "CLOSED"
    BY <1>1, <1>9, <2>3, <2>4, CutStep
  <2>6. DOMAIN s = Fields /\ "receipt" \in Fields
    BY <2>3, SliceFields DEF Fields, Unregistered
  <2>7. /\ Same(s, x, {"receipt"})
        /\ x.receipt = <<[outcome |-> outcome,
                          recourse_final_status |-> s.final_status,
                          evidence |-> s.evidence,
                          event_chain_head |-> Len(s.events),
                          closed_at |-> t]>>
    BY <2>6 DEF Cut, Same
  <2> HIDE DEF x
  <2>8. x.events = s.events /\ x.state = s.state
    BY <2>7 DEF Same, Fields, Unregistered
  <2>9. Same(f, x, {"state", "events", "receipt"})
    BY <2>3, <2>7 DEF Same
  <2>10. LogsMove(f, x, outcome, t)
    BY <2>3, <2>8 DEF LogsMove
  <2>11. outcome = RECEIPT_OUTCOME_BY_STATE[f.state]
    BY <1>4 DEF outcome
  <2>12. Closed(f, x, t)
    BY <1>4, <1>9, <2>3, <2>4, <2>7, <2>8, <2>9, <2>10, <2>11 DEF Closed
  <2>13. Ending(m, x, t)
    BY <1>4, <2>12 DEF Ending
  <2>14. ASSUME Failures PROVE Ending(m, s, t)
    <3>1. s.receipt = f.receipt /\ Same(f, s, {"state", "events", "receipt"})
      BY <2>3 DEF Same, Fields, Unregistered
    <3>2. Closed(f, s, t)
      BY <1>4, <1>9, <2>3, <2>11, <2>14, <3>1 DEF Closed
    <3> QED
      BY <1>4, <2>3, <3>2 DEF Ending
  <2>15. ASSUME Failures
         PROVE  \A y \in CloseStops(m, t) : y \in Slice /\ Ending(m, y, t)
    <3>1. CloseStops(m, t) \subseteq FinalizeStops(m, Releases(m)) \cup {f} \cup {s}
      BY Zenon DEF CloseStops, f, s, outcome
    <3> QED
      BY <1>4, <1>5, <2>3, <2>14, <2>15, <3>1
  <2> QED
    BY <2>1, <2>5, <2>13, <2>15
<1> QED
  BY <1>8, <1>9

-------------------------------------------------------------------------------
(* The pieces of a segment as walks. *)

(* A segment of action a that ends in d.                                   *)
LEMMA SegmentStep ==
    ASSUME Inv, NEW a \in Action, NEW t \in 0 .. MaxTime, ClockReads(t),
           NEW d, actions' = [actions EXCEPT ![a] = d],
           Walk(actions[a], d, t), UNCHANGED implementation
    PROVE  Segment(a)
<1>1. actions'[a] = d
  BY DEF Inv, TypeOK
<1>2. t \in Nat /\ t \in now .. (now + Drift) /\ now' = t
  BY ClockAssumption DEF ClockReads
<1> QED
  BY <1>1, <1>2 DEF Segment

(* A segment of action a that may stop on its way.                         *)
LEMMA ReachesSegment ==
    ASSUME Inv, NEW a \in Action, NEW t \in 0 .. MaxTime, ClockReads(t),
           NEW done, NEW stops, Reaches(a, done, stops),
           Walk(actions[a], done, t),
           Failures => \A d \in stops : Walk(actions[a], d, t),
           UNCHANGED implementation
    PROVE  Segment(a)
<1>1. PICK d \in {done} \cup (IF Failures THEN stops ELSE {}) :
         actions' = [actions EXCEPT ![a] = d]
  BY DEF Reaches
<1>2. Walk(actions[a], d, t)
  BY <1>1
<1> QED
  BY <1>1, <1>2, SegmentStep

(* A handler its caller starts has heard nothing.                          *)
LEMMA HeardNothing ==
    ASSUME NEW c \in Slice, NEW t
    PROVE  Heard(c, c, "none", "none", t)
<1>1. Resumed(c, c, "none", "none")
  BY DEF Resumed, Same
<1> QED
  BY <1>1 DEF Heard, Answering, Definite

(* What an answer brings without evidence.                                 *)
LEMMA HeardAnswer ==
    ASSUME NEW c \in Slice, NEW w \in Slice, NEW op \in Operations,
           NEW answer \in Definite, Resumed(c, w, op, answer), NEW t
    PROVE  Heard(c, w, op, answer, t)
  BY DEF Heard, Answering

(* A segment may throw wherever the store or the connector does.           *)
LEMMA PauseWalks ==
    ASSUME NEW c, NEW n \in Slice, NEW op, NEW answer, NEW t,
           Heard(c, n, op, answer, t), Paused(op, n)
    PROVE  Walk(c, n, t)
  BY DEF Walk, Heard

(* A move, and what follows it.                                            *)
LEMMA MoveWalks ==
    ASSUME NEW c, NEW n, NEW op, NEW answer, NEW t,
           Heard(c, n, op, answer, t),
           NEW m \in Slice, Leaves(op, answer, n.state, m.state), Moved(n, m, t),
           NEW x \in Slice, Ending(m, x, t), NEW d, Resulted(x, d),
           Failures \/ Completed(x, d)
    PROVE  Walk(c, d, t)
<1>1. Left(op, answer, n, d, t)
  BY DEF Left
<1> QED
  BY <1>1 DEF Walk, Heard

(* A segment that writes no result leaves the record's results alone.      *)
LEMMA NoResult ==
    ASSUME NEW x
    PROVE  Resulted(x, x)
  BY DEF Resulted, Same

\* next needs no evidence that n does not show.
Grounded(n, next) ==
    /\ next \notin Marked \cup {"CLOSED"}
    /\ next = "SATISFIED" => Shown(n, "initial", TRUE)
    /\ next = "BREACHED" => Shown(n, "initial", FALSE)
    /\ next = "REMEDIATED" => Shown(n, "post-remedy", TRUE)

(* transition() to a state without fields of its own.                      *)
LEMMA PlainMove ==
    ASSUME NEW n \in Slice, NEW next, <<n.state, next>> \in ALLOWED_TRANSITIONS,
           Grounded(n, next), NEW t \in Nat
    PROVE  LET m == Transition(n, next, "", t)
           IN m \in Slice /\ m.state = next /\ Moved(n, m, t) /\ Ending(m, m, t)
<1> DEFINE m == Transition(n, next, "", t)
<1>1. n.state \in States /\ next \in States /\ "" \in Infos
  BY LegalMoves DEF Infos
<1>2. m \in Slice /\ m.state = next
  BY <1>1, TransitionStep
<1>3. Same(n, m, {"state", "events"}) /\ LogsMove(n, m, "", t)
  BY TransitionLogs
<1> HIDE DEF m
<1>4. Moved(n, m, t)
  BY <1>2, <1>3 DEF Moved, Grounded
<1>5. Ending(m, m, t)
  BY <1>2 DEF Ending
<1> QED
  BY <1>2, <1>4, <1>5 DEF m

(* transition() to where the action is withdrawn, and finalizeRecourse.    *)
LEMMA WithdrawWalks ==
    ASSUME NEW c \in Slice, NEW n \in Slice, NEW op, NEW answer, NEW t \in Nat,
           Heard(c, n, op, answer, t),
           NEW next \in WithdrawnStates, <<n.state, next>> \in ALLOWED_TRANSITIONS,
           Leaves(op, answer, n.state, next)
    PROVE  LET m == Transition(n, next, "", t)
               f == Finalize(m, TRUE, t)
           IN /\ Walk(c, f, t)
              /\ \A d : Resulted(f, d) => Walk(c, d, t)
              /\ Failures => \A d \in FinalizeStops(m, TRUE) : Walk(c, d, t)
<1> DEFINE m == Transition(n, next, "", t)
           f == Finalize(m, TRUE, t)
<1>1. Grounded(n, next)
  BY DEF Grounded, Marked, WithdrawnStates
<1>2. m \in Slice /\ m.state = next /\ Moved(n, m, t)
  BY <1>1, PlainMove
<1>3. Leaves(op, answer, n.state, m.state)
  BY <1>2
<1> HIDE DEF m
<1>4. m.state \in EndStates /\ m.state \in ReturningStates
  BY <1>2 DEF EndStates, ReturningStates
<1>5. /\ f \in Slice /\ f.state = next
      /\ \E r \in Slice : (r = m \/ Returned(m, r)) /\ (f = r \/ Recorded(r, f, t))
      /\ \A x \in FinalizeStops(m, TRUE) : x \in Slice /\ Ending(m, x, t)
  BY <1>2, <1>4, FinalizeEnds
<1> HIDE DEF f
<1>6. Ending(m, f, t)
  BY <1>5 DEF Ending
<1>7. ASSUME NEW d, Resulted(f, d) PROVE Walk(c, d, t)
  <2>1. d.state = next
    BY <1>5, <1>7 DEF Resulted, Same, Fields, Unregistered
  <2>2. Completed(f, d)
    BY <2>1 DEF Completed, WithdrawnStates, RECEIPT_STATES, DisputedStates, WaitingStates
  <2> QED
    BY <1>2, <1>3, <1>5, <1>6, <1>7, <2>2, MoveWalks
<1>8. Walk(c, f, t)
  BY <1>7, NoResult
<1>9. ASSUME Failures, NEW d \in FinalizeStops(m, TRUE) PROVE Walk(c, d, t)
  BY <1>2, <1>3, <1>5, <1>9, NoResult, MoveWalks
<1> QED
  BY <1>7, <1>8, <1>9 DEF m, f

(* transition() to a closing state, and close().                           *)
LEMMA CloseWalks ==
    ASSUME NEW c \in Slice, NEW n \in Slice, NEW op, NEW answer, NEW t \in Nat,
           Heard(c, n, op, answer, t),
           NEW next \in RECEIPT_STATES, <<n.state, next>> \in ALLOWED_TRANSITIONS,
           Grounded(n, next), Leaves(op, answer, n.state, next)
    PROVE  LET m == Transition(n, next, "", t)
               x == Close(m, t)
           IN /\ Walk(c, x, t)
              /\ \A d : Resulted(x, d) => Walk(c, d, t)
              /\ Failures => \A d \in CloseStops(m, t) : Walk(c, d, t)
<1> DEFINE m == Transition(n, next, "", t)
           x == Close(m, t)
<1>1. m \in Slice /\ m.state = next /\ Moved(n, m, t)
  BY PlainMove
<1>2. Leaves(op, answer, n.state, m.state)
  BY <1>1
<1> HIDE DEF m
<1>3. /\ x \in Slice /\ Ending(m, x, t)
      /\ x.state \in {m.state, "CLOSED"}
      /\ x.state # "CLOSED" =>
            /\ x.final_status \notin RECEIPT_RECOURSE_STATUSES
            /\ x.final_status = "none" => x.recourse = "none"
      /\ Failures => \A y \in CloseStops(m, t) : y \in Slice /\ Ending(m, y, t)
  BY <1>1, CloseEnds
<1> HIDE DEF x
<1>4. ASSUME NEW d, Resulted(x, d) PROVE Walk(c, d, t)
  <2>1. /\ d.state = x.state /\ d.final_status = x.final_status
        /\ d.recourse = x.recourse
    BY <1>4 DEF Resulted, Same, Fields, Unregistered
  <2>2. Completed(x, d)
    BY <1>1, <1>3, <2>1 DEF Completed, RECEIPT_STATES, DisputedStates, WaitingStates
  <2> QED
    BY <1>1, <1>2, <1>3, <1>4, <2>2, MoveWalks
<1>5. Walk(c, x, t)
  BY <1>4, NoResult
<1>6. ASSUME Failures, NEW d \in CloseStops(m, t) PROVE Walk(c, d, t)
  BY <1>1, <1>2, <1>3, <1>6, NoResult, MoveWalks
<1> QED
  BY <1>4, <1>5, <1>6 DEF m, x

(* Withdraw: the segment that gives the recourse back.                     *)
LEMMA WithdrawSegment ==
    ASSUME Inv, NEW a \in Action, NEW t \in 0 .. MaxTime, ClockReads(t),
           NEW n \in Slice, NEW op, NEW answer, Heard(actions[a], n, op, answer, t),
           NEW next \in WithdrawnStates, <<n.state, next>> \in ALLOWED_TRANSITIONS,
           Leaves(op, answer, n.state, next), Withdraw(a, n, next, t), UNCHANGED implementation
    PROVE  Segment(a)
<1> DEFINE m == Transition(n, next, "", t)
<1>1. actions[a] \in Slice /\ t \in Nat
  BY ClockAssumption DEF Inv, Good
<1>2. /\ Walk(actions[a], Finalize(m, TRUE, t), t)
      /\ Failures => \A d \in FinalizeStops(m, TRUE) : Walk(actions[a], d, t)
  BY <1>1, WithdrawWalks
<1>3. Failures => Walk(actions[a], n, t)
  BY PauseWalks DEF Paused
<1>4. Reaches(a, Finalize(m, TRUE, t), {n} \cup FinalizeStops(m, TRUE))
  BY DEF Withdraw
<1> HIDE DEF m
<1> QED
  BY <1>2, <1>3, <1>4, ReachesSegment

(* Conclude: the segment that closes.                                      *)
LEMMA ConcludeSegment ==
    ASSUME Inv, NEW a \in Action, NEW t \in 0 .. MaxTime, ClockReads(t),
           NEW n \in Slice, NEW op, NEW answer, Heard(actions[a], n, op, answer, t),
           NEW next \in RECEIPT_STATES, <<n.state, next>> \in ALLOWED_TRANSITIONS,
           Grounded(n, next), Leaves(op, answer, n.state, next),
           Conclude(a, n, next, t), UNCHANGED implementation
    PROVE  Segment(a)
<1> DEFINE m == Transition(n, next, "", t)
<1>1. actions[a] \in Slice /\ t \in Nat
  BY ClockAssumption DEF Inv, Good
<1>2. /\ Walk(actions[a], Close(m, t), t)
      /\ Failures => \A d \in CloseStops(m, t) : Walk(actions[a], d, t)
  BY <1>1, CloseWalks
<1>3. Failures => Walk(actions[a], n, t)
  BY PauseWalks DEF Paused
<1>4. Reaches(a, Close(m, t), {n} \cup CloseStops(m, t))
  BY DEF Conclude
<1> HIDE DEF m
<1> QED
  BY <1>2, <1>3, <1>4, ReachesSegment

-------------------------------------------------------------------------------
(* Every handler is a segment. *)

(* Registering a proposal.                                                 *)
LEMMA ProposeSegment ==
    ASSUME Inv, NEW a \in Action, Propose(a)
    PROVE  Segment(a)
<1> DEFINE c == actions[a]
<1>1. PICK t \in 0 .. MaxTime, mode \in Modes,
           requested \in RequestedAts, expiry \in ActionExpiries :
        /\ ClockReads(t)
        /\ c.state = "UNREGISTERED"
        /\ requested < expiry
        /\ actions' = [actions EXCEPT ![a] =
              [Note(c, "ACTION_PROPOSED", "PROPOSED", t)
               EXCEPT !.state = "PROPOSED", !.mode = mode,
                      !.requested_at = requested, !.expires_at = expiry]]
        /\ UNCHANGED implementation
  BY DEF Propose, Inv, TypeOK
<1> DEFINE n == Note(c, "ACTION_PROPOSED", "PROPOSED", t)
           d == [n EXCEPT !.state = "PROPOSED", !.mode = mode,
                          !.requested_at = requested, !.expires_at = expiry]
<1>2. c \in Slice
  BY DEF Inv, Good
<1>3. n \in Slice /\ Same(c, n, {"events"})
      /\ Logs(c, n, "ACTION_PROPOSED", "PROPOSED", t)
  BY <1>1, <1>2, NoteLogs, NoteStep, ClockStep DEF EventTypes, Infos
<1>4. actions' = [actions EXCEPT ![a] = d]
  BY <1>1
<1>5. d = [n EXCEPT !.state = "PROPOSED", !.mode = mode,
                    !.requested_at = requested, !.expires_at = expiry]
  OBVIOUS
<1> HIDE DEF n, d
<1>6. DOMAIN n = Fields
  BY <1>3, SliceFields
<1>7. /\ d.state = "PROPOSED" /\ d.mode = mode
      /\ d.requested_at = requested /\ d.expires_at = expiry
  BY <1>5, <1>6 DEF Fields, Unregistered
<1>8. Same(n, d, {"state", "mode", "requested_at", "expires_at"})
  BY <1>5, <1>6 DEF Same
<1>9. Same(c, d, {"state", "mode", "requested_at", "expires_at", "events"})
  BY <1>3, <1>8 DEF Same
<1>10. d.events = n.events
  BY <1>8 DEF Same, Fields, Unregistered
<1>11. Proposed(c, d, t)
  BY <1>1, <1>3, <1>7, <1>9, <1>10 DEF Proposed, Logs
<1>12. Walk(c, d, t)
  BY <1>11 DEF Walk
<1> QED
  BY <1>1, <1>4, <1>12, SegmentStep

\* The state moves from n to m, and the action has not ended.
Enters(n, m, t) == m \in Slice /\ Moved(n, m, t) /\ Ending(m, m, t)

(* A handler that moves the action and may send a call.                    *)
LEMMA EnterWalks ==
    ASSUME NEW c \in Slice, NEW t, NEW n \in Slice, NEW op, NEW answer,
           Heard(c, n, op, answer, t),
           NEW m, Enters(n, m, t), NEW d, Resulted(m, d),
           m.state \notin RECEIPT_STATES \cup {"BREACHED"},
           Leaves(op, answer, n.state, m.state),
           d.state \in WaitingStates => Called(m, d)
    PROVE  Walk(c, d, t)
<1>1. d.state = m.state
  BY DEF Resulted, Same, Fields, Unregistered
<1>2. Completed(m, d)
  BY <1>1 DEF Completed
<1> QED
  BY <1>2, MoveWalks DEF Enters

(* Authorizing, or denying.                                                *)
LEMMA AuthorizeSegment ==
    ASSUME Inv, NEW a \in Action, Authorize(a)
    PROVE  Segment(a)
<1> DEFINE c == actions[a]
<1>1. PICK t \in 0 .. MaxTime, allow \in BOOLEAN, required \in PreflightDecisions :
        /\ ClockReads(t)
        /\ c.state = "PROPOSED"
        /\ actions' = [actions EXCEPT ![a] =
              [Transition(c, IF allow THEN "AUTHORIZED" ELSE "DENIED", "", t)
               EXCEPT !.preflight_required = required]]
        /\ UNCHANGED implementation
  BY DEF Authorize, Inv, TypeOK
<1> DEFINE next == IF allow THEN "AUTHORIZED" ELSE "DENIED"
           m == Transition(c, next, "", t)
           d == [m EXCEPT !.preflight_required = required]
<1>2. c \in Slice /\ c.state \in States /\ t \in Nat
  BY <1>1, ClockStep DEF Inv, Good, States
<1>3. next \in {"AUTHORIZED", "DENIED"} /\ next \in States /\ "" \in Infos
  BY DEF States, Infos
<1>4. actions' = [actions EXCEPT ![a] = d]
  BY <1>1
<1> HIDE DEF next
<1>5. m \in Slice /\ m.state = next /\ Same(c, m, {"state", "events"})
      /\ LogsMove(c, m, "", t)
  BY <1>2, <1>3, TransitionStep, TransitionLogs
<1>6. required \in BOOLEAN
  BY InputAssumption
<1>7. d = [m EXCEPT !.preflight_required = required]
  OBVIOUS
<1> HIDE DEF m, d
<1>8. d \in Slice /\ d.state = next
  BY <1>5, <1>6, <1>7, AuthorizedFields
<1>9. Same(m, d, {"preflight_required"}) /\ d.events = m.events
  BY <1>5, <1>7, SliceFields DEF Same, Fields, Unregistered
<1>10. Same(c, d, {"state", "events", "preflight_required"})
  BY <1>5, <1>9 DEF Same
<1>11. Moved(c, d, t)
  <2>1. <<c.state, d.state>> \in ALLOWED_TRANSITIONS
    BY <1>1, <1>3, <1>8 DEF ALLOWED_TRANSITIONS
  <2>2. LogsMove(c, d, "", t)
    BY <1>5, <1>8, <1>9 DEF LogsMove
  <2> QED
    BY <1>3, <1>8, <1>10, <2>1, <2>2 DEF Moved
<1>12. Enters(c, d, t)
  BY <1>8, <1>11 DEF Enters, Ending
<1>13. Walk(c, d, t)
  <2>1. Heard(c, c, "none", "none", t)
    BY <1>2, HeardNothing
  <2>2. d.state \notin RECEIPT_STATES \cup {"BREACHED"}
    BY <1>3, <1>8 DEF RECEIPT_STATES, DisputedStates
  <2>3. d.state \notin WaitingStates
    BY <1>3, <1>8 DEF WaitingStates
  <2>4. Leaves("none", "none", c.state, d.state)
    BY <1>1, <1>3, <1>8 DEF Leaves, WaitingStates
  <2> QED
    BY <1>1, <1>2, <1>12, <2>1, <2>2, <2>3, <2>4, NoResult, EnterWalks
<1> QED
  BY <1>1, <1>4, <1>13, SegmentStep

(* Reserving recourse, also when only the connector gets to reserve.       *)
LEMMA ReserveRecourseSegment ==
    ASSUME Inv, NEW a \in Action, ReserveRecourse(a)
    PROVE  Segment(a)
<1> DEFINE c == actions[a]
           w == [c EXCEPT !.recourse = "active"]
<1>0. PICK t \in 0 .. MaxTime, kind \in Kinds, until \in RecourseExpiries,
           attempts \in AttemptLimits :
        \E at \in (now .. t) \cup ReservedAts :
           /\ ClockReads(t)
           /\ c.state = "AUTHORIZED"
           /\ c.mode # "observed"
           /\ until >= c.expires_at + RemedyWindow
           /\ Reaches(a, [Transition(w, "RECOURSE_RESERVED", "", t)
                          EXCEPT !.kind = kind, !.reserved_at = at,
                                 !.reserved_until = until,
                                 !.max_attempts = attempts],
                      {c, w})
           /\ UNCHANGED implementation
  BY DEF ReserveRecourse
<1>1. PICK at \in (now .. t) \cup ReservedAts :
        /\ ClockReads(t)
        /\ c.state = "AUTHORIZED"
        /\ c.mode # "observed"
        /\ until >= c.expires_at + RemedyWindow
        /\ Reaches(a, [Transition(w, "RECOURSE_RESERVED", "", t)
                       EXCEPT !.kind = kind, !.reserved_at = at,
                              !.reserved_until = until,
                              !.max_attempts = attempts],
                   {c, w})
        /\ UNCHANGED implementation
  BY <1>0
<1> DEFINE m == Transition(w, "RECOURSE_RESERVED", "", t)
           d == [m EXCEPT !.kind = kind, !.reserved_at = at,
                          !.reserved_until = until, !.max_attempts = attempts]
<1>2. c \in Slice /\ t \in Nat
  BY <1>1, ClockStep DEF Inv, Good
<1>3. w \in Slice /\ w.recourse = "active" /\ Same(c, w, {"recourse"})
  <2>1. w \in Slice
    BY <1>2, ActiveRecourse
  <2> QED
    BY <1>2, <2>1, SliceFields DEF Same, Fields, Unregistered
<1>4. Reaches(a, d, {c, w})
  BY <1>1
<1> HIDE DEF w
<1>5. /\ w.state = "AUTHORIZED" /\ w.mode = c.mode
      /\ w.expires_at = c.expires_at
  BY <1>1, <1>3 DEF Same, Fields, Unregistered
<1>6. Heard(c, w, "none", "none", t)
  <2>1. Reserved(c, w, "none", "none")
    BY <1>1, <1>3 DEF Reserved
  <2> QED
    BY <1>3, <2>1 DEF Heard, Answering, Definite
<1>7. "AUTHORIZED" \in States /\ "RECOURSE_RESERVED" \in States /\ "" \in Infos
  BY DEF States, Infos
<1>8. /\ m \in Slice /\ m.state = "RECOURSE_RESERVED"
      /\ Same(w, m, {"state", "events"}) /\ LogsMove(w, m, "", t)
  BY <1>2, <1>3, <1>5, <1>7, TransitionStep, TransitionLogs
<1>9. d = [m EXCEPT !.kind = kind, !.reserved_at = at,
                    !.reserved_until = until, !.max_attempts = attempts]
  OBVIOUS
<1>10. /\ kind \in RemedyKinds \cup {"none"} /\ until \in Int /\ attempts \in Nat
       /\ at \in Int
  BY InputAssumption DEF Inv, TypeOK
<1> HIDE DEF m, d
<1>11. d \in Slice
  BY <1>8, <1>9, <1>10 DEF Slice
<1>12. DOMAIN m = Fields
  BY <1>8, SliceFields
<1>13. /\ Same(m, d, {"kind", "reserved_at", "reserved_until", "max_attempts"})
       /\ d.reserved_until = until /\ d.reserved_at = at
  <2>1. /\ "reserved_until" \in Fields /\ "kind" \in Fields
        /\ "max_attempts" \in Fields /\ "reserved_at" \in Fields
    BY DEF Fields, Unregistered
  <2> QED
    BY <1>9, <1>12, <2>1 DEF Same
<1>14. d.events = m.events /\ d.state = m.state
  BY <1>13 DEF Same, Fields, Unregistered
<1>15. Same(w, d, {"state", "events", "kind", "reserved_at", "reserved_until",
                   "max_attempts"})
  BY <1>8, <1>13 DEF Same
<1>16. d.expires_at = c.expires_at
  BY <1>5, <1>15 DEF Same, Fields, Unregistered
<1>17. Moved(w, d, t)
  <2>1. <<w.state, d.state>> \in ALLOWED_TRANSITIONS
    BY <1>5, <1>8, <1>14 DEF ALLOWED_TRANSITIONS
  <2>2. LogsMove(w, d, "", t)
    BY <1>8, <1>14 DEF LogsMove
  <2>3. d.reserved_until >= d.expires_at + RemedyWindow
    BY <1>1, <1>13, <1>16
  <2> QED
    BY <1>1, <1>3, <1>5, <1>8, <1>13, <1>14, <1>15, <2>1, <2>2, <2>3 DEF Moved
<1>18. Enters(w, d, t)
  BY <1>11, <1>17 DEF Enters, Ending
<1>19. Walk(c, d, t)
  <2>1. d.state \notin RECEIPT_STATES \cup {"BREACHED"}
    BY <1>8, <1>14 DEF RECEIPT_STATES, DisputedStates
  <2>2. d.state \notin WaitingStates
    BY <1>8, <1>14 DEF WaitingStates
  <2>3. Leaves("none", "none", w.state, d.state)
    BY <1>5, <1>8, <1>14 DEF Leaves, WaitingStates
  <2> QED
    BY <1>2, <1>3, <1>5, <1>6, <1>18, <2>1, <2>2, <2>3, NoResult, EnterWalks
<1>20. Failures => Walk(c, c, t) /\ Walk(c, w, t)
  BY <1>2, <1>3, <1>6, HeardNothing, PauseWalks DEF Paused
<1> QED
  BY <1>1, <1>4, <1>19, <1>20, ReachesSegment

(* Accepting the attestation of a drill.                                   *)
LEMMA AcceptRecoveryQualificationSegment ==
    ASSUME Inv, NEW a \in Action, AcceptRecoveryQualification(a)
    PROVE  Segment(a)
<1> DEFINE c == actions[a]
<1>1. PICK t \in 0 .. MaxTime, expiry \in DrillExpiries :
        /\ ClockReads(t)
        /\ c.state = "RECOURSE_RESERVED"
        /\ actions' = [actions EXCEPT ![a] =
              [Note(c, "RECOVERY_PREFLIGHT_ACCEPTED", "QUALIFIED_EXACT", t)
               EXCEPT !.qualified_until = expiry,
                      !.qualified_implementation = implementation]]
        /\ UNCHANGED implementation
  BY DEF AcceptRecoveryQualification
<1> DEFINE n == Note(c, "RECOVERY_PREFLIGHT_ACCEPTED", "QUALIFIED_EXACT", t)
           d == [n EXCEPT !.qualified_until = expiry,
                          !.qualified_implementation = implementation]
<1>2. c \in Slice /\ t \in Nat
  BY <1>1, ClockStep DEF Inv, Good
<1>3. /\ n \in Slice /\ Same(c, n, {"events"})
      /\ Logs(c, n, "RECOVERY_PREFLIGHT_ACCEPTED", "QUALIFIED_EXACT", t)
  BY <1>2, NoteLogs, NoteStep DEF EventTypes, Infos
<1>4. actions' = [actions EXCEPT ![a] = d]
  BY <1>1
<1>5. d = [n EXCEPT !.qualified_until = expiry,
                    !.qualified_implementation = implementation]
  OBVIOUS
<1> HIDE DEF n, d
<1>6. DOMAIN n = Fields
  BY <1>3, SliceFields
<1>7. /\ d.qualified_until = expiry
      /\ Same(n, d, {"qualified_until", "qualified_implementation"})
  BY <1>5, <1>6 DEF Same, Fields, Unregistered
<1>8. d.events = n.events
      /\ Same(c, d, {"qualified_until", "qualified_implementation", "events"})
  BY <1>3, <1>7 DEF Same, Fields, Unregistered
<1>9. Qualified(d)
  BY <1>7, InputAssumption DEF Qualified, Never
<1>10. Walk(c, d, t)
  BY <1>1, <1>3, <1>8, <1>9 DEF Walk, Qualifies, Logs
<1> QED
  BY <1>1, <1>4, <1>10, SegmentStep

(* Issuing a permit, or withdrawing.                                       *)
LEMMA IssuePermitSegment ==
    ASSUME Inv, NEW a \in Action, IssuePermit(a)
    PROVE  Segment(a)
<1> DEFINE c == actions[a]
<1>1. PICK t \in 0 .. MaxTime :
        /\ ClockReads(t)
        /\ c.state = "RECOURSE_RESERVED"
        /\ \/ Withdraw(a, c, "EXPIRED", t)
           \/ Withdraw(a, c, "REVOKED", t)
           \/ /\ ~Lapsed(c)
              /\ c.preflight_required => PreflightHolds(c, TRUE)
              /\ actions' = [actions EXCEPT ![a] =
                    [Transition(c, "PERMITTED", "", t)
                     EXCEPT !.permit_issued_at = t]]
        /\ UNCHANGED implementation
  BY DEF IssuePermit
<1>2. c \in Slice /\ t \in Nat
  BY <1>1, ClockStep DEF Inv, Good
<1>3. Heard(c, c, "none", "none", t)
  BY <1>2, HeardNothing
<1>4. ASSUME NEW next \in {"EXPIRED", "REVOKED"}, Withdraw(a, c, next, t)
      PROVE  Segment(a)
  <2>1. /\ next \in WithdrawnStates /\ <<c.state, next>> \in ALLOWED_TRANSITIONS
        /\ Leaves("none", "none", c.state, next)
    BY <1>1 DEF WithdrawnStates, ALLOWED_TRANSITIONS, Leaves, WaitingStates
  <2> QED
    BY <1>1, <1>2, <1>3, <1>4, <2>1, WithdrawSegment
<1>5. CASE /\ ~Lapsed(c)
           /\ c.preflight_required => PreflightHolds(c, TRUE)
           /\ actions' = [actions EXCEPT ![a] =
                 [Transition(c, "PERMITTED", "", t) EXCEPT !.permit_issued_at = t]]
  <2> DEFINE m == Transition(c, "PERMITTED", "", t)
             d == [m EXCEPT !.permit_issued_at = t]
  <2>1. c.state \in States /\ "PERMITTED" \in States /\ "" \in Infos
    BY <1>1 DEF States, Infos
  <2>2. /\ m \in Slice /\ m.state = "PERMITTED"
        /\ Same(c, m, {"state", "events"}) /\ LogsMove(c, m, "", t)
    BY <1>2, <2>1, TransitionStep, TransitionLogs
  <2>3. d = [m EXCEPT !.permit_issued_at = t]
    OBVIOUS
  <2>4. actions' = [actions EXCEPT ![a] = d]
    BY <1>5
  <2> HIDE DEF m, d
  <2>5. d \in Slice
    BY <1>2, <2>2, <2>3, PermitFields
  <2>6. Same(m, d, {"permit_issued_at"}) /\ d.permit_issued_at = t
    BY <2>2, <2>3, SliceFields DEF Same, Fields, Unregistered
  <2>7. d.events = m.events /\ d.state = m.state
        /\ Same(c, d, {"state", "events", "permit_issued_at"})
    BY <2>2, <2>6 DEF Same, Fields, Unregistered
  <2>8. Moved(c, d, t)
    <3>1. <<c.state, d.state>> \in ALLOWED_TRANSITIONS
      BY <1>1, <2>2, <2>7 DEF ALLOWED_TRANSITIONS
    <3>2. LogsMove(c, d, "", t)
      BY <2>2, <2>7 DEF LogsMove
    <3>3. Permits(c, d, t)
      BY <1>5, <2>2, <2>6, <2>7 DEF Permits, PreflightHolds
    <3> QED
      BY <3>1, <3>2, <3>3 DEF Moved
  <2>9. Enters(c, d, t)
    BY <2>5, <2>8 DEF Enters, Ending
  <2>10. Walk(c, d, t)
    <3>1. d.state \notin RECEIPT_STATES \cup {"BREACHED"}
      BY <2>2, <2>7 DEF RECEIPT_STATES, DisputedStates
    <3>2. d.state \notin WaitingStates /\ Leaves("none", "none", c.state, d.state)
      BY <1>1, <2>2, <2>7 DEF WaitingStates, Leaves
    <3> QED
      BY <1>1, <1>2, <1>3, <2>9, <3>1, <3>2, NoResult, EnterWalks
  <2> QED
    BY <1>1, <2>4, <2>10, SegmentStep
<1> QED
  BY <1>1, <1>4, <1>5

(* A call that is sent, and a result that is noted.                        *)
LEMMA BeginCalls ==
    ASSUME NEW c \in Slice, NEW op \in Operations
    PROVE  /\ Begin(c, op) \in Slice
           /\ Same(c, Begin(c, op), {"awaiting"})
           /\ Begin(c, op).awaiting = [c.awaiting EXCEPT ![op] = c.awaiting[op] + 1]
<1>1. Same(c, Begin(c, op), {"awaiting"})
  BY SliceFields DEF Begin, Same, Fields, Unregistered
<1> QED
  BY <1>1, BeginStep

(* A result is written into one field and no other.                        *)
LEMMA ResultNoted ==
    ASSUME NEW c \in Slice, NEW result \in Results
    PROVE  /\ [c EXCEPT !.remedy_result = result] \in Slice
           /\ [c EXCEPT !.execution = result] \in Slice
           /\ Same(c, [c EXCEPT !.remedy_result = result], {"remedy_result"})
           /\ Same(c, [c EXCEPT !.execution = result], {"execution"})
           /\ [c EXCEPT !.execution = result].execution = result
<1>1. /\ Same(c, [c EXCEPT !.remedy_result = result], {"remedy_result"})
      /\ Same(c, [c EXCEPT !.execution = result], {"execution"})
      /\ [c EXCEPT !.execution = result].execution = result
  BY SliceFields DEF Same, Fields, Unregistered
<1> QED
  BY <1>1, ResultStep

(* A result that is written is one the walk may write in this state.       *)
LEMMA ResultResults ==
    ASSUME NEW c \in Slice, NEW result \in Results
    PROVE  /\ Resulted(c, [c EXCEPT !.remedy_result = result])
           /\ \/ c.state = "EXECUTED" \/ result = "unknown"
              \/ c.state = "FAILED" /\ result # "executed"
              => Resulted(c, [c EXCEPT !.execution = result])
<1> DEFINE r == [c EXCEPT !.remedy_result = result]
           e == [c EXCEPT !.execution = result]
<1>1. Same(c, r, {"remedy_result"}) /\ Same(c, e, {"execution"}) /\ e.execution = result
  BY ResultNoted
<1> HIDE DEF r, e
<1>2. /\ r.execution = c.execution /\ r.awaiting = c.awaiting
      /\ e.state = c.state /\ e.awaiting = c.awaiting
  BY <1>1 DEF Same, Fields, Unregistered
<1>3. /\ Same(c, r, {"awaiting", "execution", "remedy_result"})
      /\ Same(c, e, {"awaiting", "execution", "remedy_result"})
  BY <1>1 DEF Same
<1>4. /\ Resulted(c, r)
      /\ \/ c.state = "EXECUTED" \/ result = "unknown"
         \/ c.state = "FAILED" /\ result # "executed"
         => Resulted(c, e)
  BY <1>1, <1>2, <1>3 DEF Resulted
<1> QED
  BY <1>4 DEF r, e

(* Consuming the permit, or withdrawing.                                   *)
LEMMA ExecuteSegment ==
    ASSUME Inv, NEW a \in Action, Execute(a)
    PROVE  Segment(a)
<1> DEFINE c == actions[a]
<1>1. PICK t \in 0 .. MaxTime :
        /\ ClockReads(t)
        /\ c.state = "PERMITTED"
        /\ \/ Withdraw(a, c, "EXPIRED", t)
           \/ Withdraw(a, c, "REVOKED", t)
           \/ /\ ~Lapsed(c)
              /\ actions' = [actions EXCEPT ![a] =
                    [Begin(Transition(c, "EXECUTING", "", t), "execute")
                     EXCEPT !.permit_uses = @ + 1, !.execute_calls = @ + 1]]
        /\ UNCHANGED implementation
  BY DEF Execute
<1>2. c \in Slice /\ t \in Nat
  BY <1>1, ClockStep DEF Inv, Good
<1>3. Heard(c, c, "none", "none", t)
  BY <1>2, HeardNothing
<1>4. ASSUME NEW next \in {"EXPIRED", "REVOKED"}, Withdraw(a, c, next, t)
      PROVE  Segment(a)
  <2>1. /\ next \in WithdrawnStates /\ <<c.state, next>> \in ALLOWED_TRANSITIONS
        /\ Leaves("none", "none", c.state, next)
    BY <1>1 DEF WithdrawnStates, ALLOWED_TRANSITIONS, Leaves, WaitingStates
  <2> QED
    BY <1>1, <1>2, <1>3, <1>4, <2>1, WithdrawSegment
<1>5. CASE /\ ~Lapsed(c)
           /\ actions' = [actions EXCEPT ![a] =
                 [Begin(Transition(c, "EXECUTING", "", t), "execute")
                  EXCEPT !.permit_uses = @ + 1, !.execute_calls = @ + 1]]
  <2> DEFINE x == Transition(c, "EXECUTING", "", t)
             m == [x EXCEPT !.permit_uses = @ + 1, !.execute_calls = @ + 1]
             b == Begin(x, "execute")
             d == [b EXCEPT !.permit_uses = @ + 1, !.execute_calls = @ + 1]
  <2>1. /\ c.state \in States /\ "EXECUTING" \in States /\ "" \in Infos
        /\ "execute" \in Operations
    BY <1>1 DEF States, Infos, Operations
  <2>2. /\ x \in Slice /\ x.state = "EXECUTING"
        /\ Same(c, x, {"state", "events"}) /\ LogsMove(c, x, "", t)
    BY <1>2, <2>1, TransitionStep, TransitionLogs
  <2>3. actions' = [actions EXCEPT ![a] = d]
    BY <1>5
  <2> HIDE DEF x
  <2>4. /\ b \in Slice /\ Same(x, b, {"awaiting"})
        /\ b.awaiting = [x.awaiting EXCEPT !["execute"] = x.awaiting["execute"] + 1]
    BY <2>1, <2>2, BeginCalls
  <2> HIDE DEF b
  <2>5. ASSUME NEW s \in Slice, NEW e,
               e = [s EXCEPT !.permit_uses = @ + 1, !.execute_calls = @ + 1]
        PROVE  /\ e \in Slice /\ Same(s, e, {"permit_uses", "execute_calls"})
               /\ e.permit_uses = s.permit_uses + 1
               /\ e.execute_calls = s.execute_calls + 1
    BY <2>5, ExecuteCounts, SliceFields DEF Same
  <2>6. /\ m \in Slice /\ Same(x, m, {"permit_uses", "execute_calls"})
        /\ m.permit_uses = x.permit_uses + 1 /\ m.execute_calls = x.execute_calls + 1
    BY <2>2, <2>5
  <2>7. /\ d \in Slice /\ Same(b, d, {"permit_uses", "execute_calls"})
        /\ d.permit_uses = b.permit_uses + 1 /\ d.execute_calls = b.execute_calls + 1
    BY <2>4, <2>5
  <2> HIDE DEF m, d
  <2>8. x.permit_uses = c.permit_uses /\ x.execute_calls = c.execute_calls
        /\ b.permit_uses = x.permit_uses /\ b.execute_calls = x.execute_calls
        /\ m.state = x.state /\ m.events = x.events
        /\ m.awaiting = x.awaiting /\ d.awaiting = b.awaiting
    BY <2>2, <2>4, <2>6, <2>7 DEF Same, Fields, Unregistered
  <2>9. Same(c, m, {"state", "events", "permit_uses", "execute_calls"})
    BY <2>2, <2>6 DEF Same
  <2>10. Same(m, d, {"awaiting"})
    <3>1. \A f \in Fields \ {"awaiting", "permit_uses", "execute_calls"} : d[f] = m[f]
      BY <2>4, <2>6, <2>7 DEF Same
    <3>2. d.permit_uses = m.permit_uses /\ d.execute_calls = m.execute_calls
      BY <2>6, <2>7, <2>8
    <3> QED
      BY <3>1, <3>2 DEF Same
  <2>11. Moved(c, m, t)
    <3>1. <<c.state, m.state>> \in ALLOWED_TRANSITIONS
      BY <1>1, <2>2, <2>8 DEF ALLOWED_TRANSITIONS
    <3>2. LogsMove(c, m, "", t)
      BY <2>2, <2>8 DEF LogsMove
    <3>3. Starts(c, m)
      BY <1>5, <2>2, <2>6, <2>8, <2>9 DEF Starts
    <3> QED
      BY <3>1, <3>2, <3>3 DEF Moved
  <2>12. Enters(c, m, t)
    BY <2>6, <2>11 DEF Enters, Ending
  <2>13. d.state = "EXECUTING" /\ d.execution = m.execution
    BY <2>2, <2>8, <2>10 DEF Same, Fields, Unregistered
  <2>14. Called(m, d)
    BY <2>4, <2>8, <2>13 DEF Called, CallOf, WaitingStates
  <2>15. Resulted(m, d)
    <3>1. Same(m, d, {"awaiting", "execution", "remedy_result"})
      BY <2>10 DEF Same
    <3> QED
      BY <2>13, <2>14, <3>1 DEF Resulted
  <2>16. /\ m.state \notin RECEIPT_STATES \cup {"BREACHED"}
         /\ Leaves("none", "none", c.state, m.state)
    BY <1>1, <2>2, <2>8 DEF RECEIPT_STATES, DisputedStates, Leaves, WaitingStates
  <2>17. Walk(c, d, t)
    BY <1>1, <1>2, <1>3, <2>12, <2>14, <2>15, <2>16, EnterWalks
  <2> QED
    BY <1>1, <2>3, <2>17, SegmentStep
<1> QED
  BY <1>1, <1>4, <1>5

(* Resuming execute().                                                     *)
LEMMA ExecuteAnsweredSegment ==
    ASSUME Inv, NEW a \in Action, ExecuteAnswered(a)
    PROVE  Segment(a)
<1> DEFINE c == actions[a]
           n == Finish(c, "execute")
           E(t) == Transition(n, "EXECUTED", "", t)
           U(t) == Transition(n, "UNKNOWN", "", t)
<1>1. PICK t \in 0 .. MaxTime :
        /\ ClockReads(t)
        /\ c.awaiting["execute"] > 0
        /\ \/ Reaches(a, [E(t) EXCEPT !.execution = "executed"],
                      {[U(t) EXCEPT !.execution = "unknown"], n})
           \/ Reaches(a, [U(t) EXCEPT !.execution = "unknown"], {n})
           \/ Withdraw(a, n, "FAILED", t)
        /\ UNCHANGED implementation
  BY DEF ExecuteAnswered
<1> DEFINE e == E(t)
           u == U(t)
           executed == [e EXCEPT !.execution = "executed"]
           ambiguous == [u EXCEPT !.execution = "unknown"]
<1>2. /\ c \in Slice /\ Good(c) /\ t \in Nat /\ "execute" \in Operations
      /\ "executed" \in Results /\ "unknown" \in Results
  BY <1>1, ClockStep DEF Inv, Good, Operations, Results
<1>3. n \in Slice /\ Resumed(c, n, "execute", "none") /\ n.state = "EXECUTING"
  BY <1>1, <1>2, FinishResumes, AnswerIsGood
<1>4. \/ Reaches(a, executed, {ambiguous, n})
      \/ Reaches(a, ambiguous, {n})
      \/ Withdraw(a, n, "FAILED", t)
  BY <1>1
<1> HIDE DEF n
<1>5. Heard(c, n, "execute", "none", t)
  BY <1>2, <1>3, HeardAnswer DEF Definite
<1>6. /\ <<n.state, "EXECUTED">> \in ALLOWED_TRANSITIONS
      /\ <<n.state, "UNKNOWN">> \in ALLOWED_TRANSITIONS
      /\ <<n.state, "FAILED">> \in ALLOWED_TRANSITIONS
      /\ Grounded(n, "EXECUTED") /\ Grounded(n, "UNKNOWN")
      /\ \A next \in {"EXECUTED", "UNKNOWN", "FAILED"} :
            Leaves("execute", "none", n.state, next)
  BY <1>3 DEF ALLOWED_TRANSITIONS, Grounded, Marked, Leaves, WaitingStates, CallOf
<1>7. /\ e.state = "EXECUTED" /\ Enters(n, e, t)
      /\ u.state = "UNKNOWN" /\ Enters(n, u, t)
  BY <1>2, <1>3, <1>6, PlainMove DEF Enters
<1> HIDE DEF E, U, e, u
<1>8. Resulted(e, executed) /\ Resulted(u, ambiguous)
  BY <1>2, <1>7, ResultResults DEF Enters
<1> HIDE DEF executed, ambiguous
<1>9. Walk(c, executed, t) /\ Walk(c, ambiguous, t)
  <2>1. executed.state = e.state /\ ambiguous.state = u.state
    BY <1>8 DEF Resulted, Same, Fields, Unregistered
  <2>2. /\ e.state \notin RECEIPT_STATES \cup {"BREACHED"}
        /\ u.state \notin RECEIPT_STATES \cup {"BREACHED"}
        /\ e.state \notin WaitingStates /\ u.state \notin WaitingStates
    BY <1>7 DEF RECEIPT_STATES, DisputedStates, WaitingStates
  <2>3. /\ Leaves("execute", "none", n.state, e.state)
        /\ Leaves("execute", "none", n.state, u.state)
    BY <1>6, <1>7
  <2> QED
    BY <1>2, <1>3, <1>5, <1>7, <1>8, <2>1, <2>2, <2>3, EnterWalks
<1>10. Failures => Walk(c, n, t)
  BY <1>3, <1>5, PauseWalks DEF Paused
<1>11. CASE Withdraw(a, n, "FAILED", t)
  BY <1>1, <1>3, <1>5, <1>6, <1>11, WithdrawSegment DEF WithdrawnStates
<1> QED
  BY <1>1, <1>4, <1>9, <1>10, <1>11, ReachesSegment

(* Asking for a status.                                                    *)
LEMMA AskSegment ==
    ASSUME Inv, NEW a \in Action, Reconcile(a) \/ ReconcileRemedy(a)
    PROVE  Segment(a)
<1> DEFINE c == actions[a]
<1>1. PICK op \in {"reconcile", "reconcileRemedy"} :
        /\ c.state = IF op = "reconcile" THEN "UNKNOWN" ELSE "REMEDY_UNKNOWN"
        /\ actions' = [actions EXCEPT ![a] = Begin(c, op)]
        /\ UNCHANGED <<now, implementation>>
  BY DEF Reconcile, ReconcileRemedy, Inv, TypeOK
<1> DEFINE d == Begin(c, op)
<1>2. c \in Slice /\ op \in Operations
  BY DEF Inv, Good, Operations
<1>3. Same(c, d, {"awaiting"})
      /\ d.awaiting = [c.awaiting EXCEPT ![op] = c.awaiting[op] + 1]
  BY <1>2, BeginCalls
<1>4. actions' = [actions EXCEPT ![a] = d] /\ now' = now /\ implementation' = implementation
  BY <1>1
<1> HIDE DEF d
<1>5. Walk(c, d, now)
  BY <1>1, <1>3 DEF Walk, Asked
<1>6. now \in 0 .. MaxTime
  BY DEF Inv, TypeOK
<1>7. ClockReads(now)
  BY <1>4, <1>6, ClockAssumption DEF ClockReads
<1> QED
  BY <1>4, <1>5, <1>6, <1>7, SegmentStep

(* Resuming reconcile().                                                   *)
LEMMA ReconcileAnsweredSegment ==
    ASSUME Inv, NEW a \in Action, ReconcileAnswered(a)
    PROVE  Segment(a)
<1> DEFINE c == actions[a]
           n == Finish(c, "reconcile")
           E(t) == Transition(n, "EXECUTED", "", t)
           F(t) == Transition(n, "FAILED", "", t)
           V(t) == Transition(n, "REVIEW_REQUIRED", "", t)
           Reviewed(t) == IF Close(V(t), t).state = "CLOSED"
                          THEN [Close(V(t), t) EXCEPT !.execution = "unknown"]
                          ELSE Close(V(t), t)
<1>1. PICK t \in 0 .. MaxTime :
        /\ ClockReads(t)
        /\ c.awaiting["reconcile"] > 0
        /\ \/ /\ CanMove(n, "EXECUTED")
              /\ Reaches(a, [E(t) EXCEPT !.execution = "executed"], {n})
           \/ /\ CanMove(n, "FAILED")
              /\ Reaches(a, [Finalize(F(t), TRUE, t) EXCEPT !.execution = "no_effect"],
                         {n} \cup FinalizeStops(F(t), TRUE))
           \/ /\ CanMove(n, "REVIEW_REQUIRED")
              /\ Reaches(a, Reviewed(t), {n} \cup CloseStops(V(t), t))
           \/ actions' = [actions EXCEPT ![a] = n]
        /\ UNCHANGED implementation
  BY DEF ReconcileAnswered
<1>2. /\ c \in Slice /\ Good(c) /\ t \in Nat /\ "reconcile" \in Operations
      /\ "executed" \in Results /\ "no_effect" \in Results /\ "unknown" \in Results
  BY <1>1, ClockStep DEF Inv, Good, Operations, Results
<1>3. n \in Slice /\ Resumed(c, n, "reconcile", "none") /\ n.state \in AfterUnknown
  BY <1>1, <1>2, FinishResumes, AnswerIsGood
<1> HIDE DEF n
<1>4. Heard(c, n, "reconcile", "none", t)
  BY <1>2, <1>3, HeardAnswer DEF Definite
<1>5. Walk(c, n, t)
  BY <1>3, <1>4, PauseWalks DEF Paused
<1>6. CASE /\ CanMove(n, "EXECUTED")
           /\ Reaches(a, [E(t) EXCEPT !.execution = "executed"], {n})
  <2> DEFINE e == E(t)
             d == [e EXCEPT !.execution = "executed"]
  <2>1. /\ <<n.state, "EXECUTED">> \in ALLOWED_TRANSITIONS
        /\ Leaves("reconcile", "none", n.state, "EXECUTED") /\ Grounded(n, "EXECUTED")
    BY <1>3, <1>6 DEF CanMove, ALLOWED_TRANSITIONS, Grounded, Marked, Leaves,
                      WaitingStates, AfterUnknown
  <2>2. e.state = "EXECUTED" /\ Enters(n, e, t)
    BY <1>2, <1>3, <2>1, PlainMove DEF Enters
  <2>3. Reaches(a, d, {n})
    BY <1>6
  <2> HIDE DEF E, e
  <2>4. Resulted(e, d)
    BY <1>2, <2>2, ResultResults DEF Enters
  <2> HIDE DEF d
  <2>5. d.state = e.state
    BY <2>4 DEF Resulted, Same, Fields, Unregistered
  <2>6. /\ e.state \notin RECEIPT_STATES \cup {"BREACHED"}
        /\ e.state \notin WaitingStates
    BY <2>2 DEF RECEIPT_STATES, DisputedStates, WaitingStates
  <2>7. Walk(c, d, t)
    BY <1>2, <1>3, <1>4, <2>1, <2>2, <2>4, <2>5, <2>6, EnterWalks
  <2> QED
    BY <1>1, <1>5, <2>3, <2>7, ReachesSegment
<1>7. CASE /\ CanMove(n, "FAILED")
           /\ Reaches(a, [Finalize(F(t), TRUE, t) EXCEPT !.execution = "no_effect"],
                      {n} \cup FinalizeStops(F(t), TRUE))
  <2> DEFINE m == F(t)
             f == Finalize(m, TRUE, t)
             d == [f EXCEPT !.execution = "no_effect"]
  <2>1. /\ "FAILED" \in WithdrawnStates /\ <<n.state, "FAILED">> \in ALLOWED_TRANSITIONS
        /\ Leaves("reconcile", "none", n.state, "FAILED")
    BY <1>3, <1>7 DEF CanMove, WithdrawnStates, ALLOWED_TRANSITIONS, Leaves,
                      WaitingStates, AfterUnknown
  <2>2. /\ \A y : Resulted(f, y) => Walk(c, y, t)
        /\ Failures => \A y \in FinalizeStops(m, TRUE) : Walk(c, y, t)
    BY <1>2, <1>3, <1>4, <2>1, WithdrawWalks
  <2>3. m \in Slice /\ m.state = "FAILED"
    BY <1>2, <1>3, <2>1, PlainMove DEF Grounded, Marked
  <2>4. Reaches(a, d, {n} \cup FinalizeStops(m, TRUE))
    BY <1>7
  <2> HIDE DEF F, m
  <2>5. f \in Slice /\ f.state = "FAILED"
    BY <1>2, <2>3, FinalizeStep
  <2> HIDE DEF f
  <2>6. Resulted(f, d)
    BY <1>2, <2>5, ResultResults
  <2> HIDE DEF d
  <2>7. Walk(c, d, t)
    BY <2>2, <2>6
  <2> QED
    BY <1>1, <1>5, <2>2, <2>4, <2>7, ReachesSegment
<1>8. CASE /\ CanMove(n, "REVIEW_REQUIRED")
           /\ Reaches(a, Reviewed(t), {n} \cup CloseStops(V(t), t))
  <2> DEFINE m == V(t)
             x == Close(m, t)
             d == [x EXCEPT !.execution = "unknown"]
             done == IF x.state = "CLOSED" THEN d ELSE x
  <2>1. /\ <<n.state, "REVIEW_REQUIRED">> \in ALLOWED_TRANSITIONS
        /\ Leaves("reconcile", "none", n.state, "REVIEW_REQUIRED")
        /\ Grounded(n, "REVIEW_REQUIRED") /\ "REVIEW_REQUIRED" \in RECEIPT_STATES
    BY <1>8 DEF CanMove, ALLOWED_TRANSITIONS, Grounded, Marked, RECEIPT_STATES,
                DisputedStates, Leaves, WaitingStates
  <2>2. /\ Walk(c, x, t)
        /\ \A y : Resulted(x, y) => Walk(c, y, t)
        /\ Failures => \A y \in CloseStops(m, t) : Walk(c, y, t)
    BY <1>2, <1>3, <1>4, <2>1, CloseWalks
  <2>3. m \in Slice /\ m.state \in RECEIPT_STATES
    BY <1>2, <1>3, <2>1, PlainMove
  <2>4. Reaches(a, done, {n} \cup CloseStops(m, t))
    BY <1>8
  <2> HIDE DEF V, m
  <2>5. x \in Slice
    BY <1>2, <2>3, CloseEnds
  <2> HIDE DEF x
  <2>6. Resulted(x, d)
    BY <1>2, <2>5, ResultResults
  <2> HIDE DEF d
  <2>7. Walk(c, done, t)
    BY <2>2, <2>6
  <2> HIDE DEF done
  <2> QED
    BY <1>1, <1>5, <2>2, <2>4, <2>7, ReachesSegment
<1>9. CASE actions' = [actions EXCEPT ![a] = n]
  BY <1>1, <1>5, <1>9, SegmentStep
<1> QED
  BY <1>1, <1>6, <1>7, <1>8, <1>9

(* Asking for the outcome.                                                 *)
LEMMA VerifyOutcomeSegment ==
    ASSUME Inv, NEW a \in Action, VerifyOutcome(a)
    PROVE  Segment(a)
<1> DEFINE c == actions[a]
<1>1. PICK t \in 0 .. MaxTime :
        /\ ClockReads(t)
        /\ c.state = "EXECUTED"
        /\ actions' = [actions EXCEPT ![a] =
              Begin(Transition(c, "VERIFYING", "", t), "observe")]
        /\ UNCHANGED implementation
  BY DEF VerifyOutcome, Inv, TypeOK
<1> DEFINE m == Transition(c, "VERIFYING", "", t)
           d == Begin(m, "observe")
<1>2. c \in Slice /\ Good(c) /\ t \in Nat /\ "observe" \in Operations
  BY <1>1, ClockStep DEF Inv, Good, Operations
<1>3. Heard(c, c, "none", "none", t)
  BY <1>2, HeardNothing
<1>4. <<c.state, "VERIFYING">> \in ALLOWED_TRANSITIONS /\ Grounded(c, "VERIFYING")
  BY <1>1 DEF ALLOWED_TRANSITIONS, Grounded, Marked
<1>5. m.state = "VERIFYING" /\ Enters(c, m, t) /\ m \in Slice
  BY <1>2, <1>4, PlainMove DEF Enters
<1>6. actions' = [actions EXCEPT ![a] = d]
  BY <1>1
<1> HIDE DEF m
<1>7. /\ Same(m, d, {"awaiting"})
      /\ d.awaiting = [m.awaiting EXCEPT !["observe"] = m.awaiting["observe"] + 1]
  BY <1>2, <1>5, BeginCalls
<1> HIDE DEF d
<1>8. d.state = m.state /\ d.execution = m.execution
  BY <1>7 DEF Same, Fields, Unregistered
<1>9. Called(m, d)
  BY <1>5, <1>7, <1>8 DEF Called, CallOf, WaitingStates
<1>10. Resulted(m, d)
  <2>1. Same(m, d, {"awaiting", "execution", "remedy_result"})
    BY <1>7 DEF Same
  <2> QED
    BY <1>8, <1>9, <2>1 DEF Resulted
<1>11. /\ m.state \notin RECEIPT_STATES \cup {"BREACHED"}
       /\ Leaves("none", "none", c.state, m.state)
  BY <1>1, <1>5 DEF RECEIPT_STATES, DisputedStates, Leaves, WaitingStates
<1>12. Walk(c, d, t)
  BY <1>1, <1>2, <1>3, <1>5, <1>9, <1>10, <1>11, EnterWalks
<1> QED
  BY <1>1, <1>6, <1>12, SegmentStep

\* What a call for evidence is for, and the events that report the answer.
Weighings ==
    {<<"observe", "initial", "EVIDENCE_ACCEPTED", "EVIDENCE_REJECTED">>,
     <<"observeRemedy", "post-remedy", "REMEDY_EVIDENCE_ACCEPTED",
       "REMEDY_EVIDENCE_REJECTED">>}

(* The evidence an answer brings, accepted or refused.                     *)
LEMMA EvidenceHeard ==
    ASSUME Inv, NEW c, Good(c), NEW op \in {"observe", "observeRemedy"},
           c.awaiting[op] > 0, NEW t \in Nat,
           NEW phase, NEW accepted, NEW rejected,
           <<op, phase, accepted, rejected>> \in Weighings
    PROVE  LET n == Finish(c, op)
           IN /\ n \in Slice /\ n.state = c.state /\ Heard(c, n, op, "none", t)
              /\ \A e : e = Note(n, rejected, "", t) =>
                    e \in Slice /\ e.state = c.state /\ Heard(c, e, op, "none", t)
              /\ \A satisfied \in BOOLEAN, o \in Fresh, own \in Ownership : \A e :
                    e = Accept(n, accepted, phase, satisfied, o, own, t) =>
                       /\ e \in Slice /\ e.state = c.state
                       /\ Heard(c, e, op, "none", t)
                       /\ Shown(e, phase, satisfied)
<1> DEFINE n == Finish(c, op)
<1>0. \/ /\ op = "observe" /\ phase = "initial"
         /\ accepted = "EVIDENCE_ACCEPTED" /\ rejected = "EVIDENCE_REJECTED"
      \/ /\ op = "observeRemedy" /\ phase = "post-remedy"
         /\ accepted = "REMEDY_EVIDENCE_ACCEPTED"
         /\ rejected = "REMEDY_EVIDENCE_REJECTED"
  BY DEF Weighings
<1>1. op \in Operations /\ op \in Answering /\ "none" \in Definite /\ c \in Slice
  BY DEF Operations, Answering, Definite, Good
<1>2. /\ n \in Slice /\ Good(n)
      /\ Same(c, n, {"awaiting"}) /\ Resumed(c, n, op, "none")
  BY <1>1, FinishResumes, AnswerIsGood DEF Good
<1> HIDE DEF n
<1>3. n.state = c.state
  BY <1>2 DEF Same, Fields, Unregistered
<1>4. Heard(c, n, op, "none", t)
  BY <1>1, <1>2, HeardAnswer
<1>5. /\ accepted \in EventTypes /\ rejected \in EventTypes /\ "" \in Infos
      /\ phase \in {"initial", "post-remedy"}
  BY <1>0 DEF EventTypes, Infos
<1>6. ASSUME NEW e, e = Note(n, rejected, "", t)
      PROVE  e \in Slice /\ e.state = c.state /\ Heard(c, e, op, "none", t)
  <2>1. /\ e \in Slice /\ e.state = n.state
        /\ Same(n, e, {"events"}) /\ Logs(n, e, rejected, "", t)
    BY <1>2, <1>5, <1>6, NoteStep, NoteLogs
  <2>2. Rejected(n, e, op, t)
    BY <1>0, <2>1 DEF Rejected
  <2>3. Heard(c, e, op, "none", t)
    BY <1>1, <1>2, <2>1, <2>2 DEF Heard
  <2> QED
    BY <1>3, <2>1, <2>3
<1>7. ASSUME NEW satisfied \in BOOLEAN, NEW o \in Fresh, NEW own \in Ownership,
             NEW e, e = Accept(n, accepted, phase, satisfied, o, own, t)
      PROVE  /\ e \in Slice /\ e.state = c.state
             /\ Heard(c, e, op, "none", t)
             /\ Shown(e, phase, satisfied)
  <2> DEFINE k == Note(n, accepted, Weighs(satisfied), t)
             kept == Append(k.evidence, [phase |-> phase, satisfied |-> satisfied,
                                         observed_at |-> o, own |-> own])
  <2>1. o \in Nat /\ own \in BOOLEAN
    BY ObservationType DEF Inv, TypeOK
  <2>2. e \in Slice /\ e.state = n.state
    <3>1. Good(e)
      BY <1>2, <1>5, <1>7, <2>1, AcceptIsGood, Zenon
    <3>2. Still(n, e)
      BY <1>2, <1>5, <1>7, <2>1, AcceptIsGood, Zenon
    <3> QED
      BY <3>1, <3>2 DEF Good, Still
  <2>3. e = [k EXCEPT !.evidence = kept]
    BY <1>7 DEF Accept, Weighs
  <2>4. /\ k \in Slice /\ Same(n, k, {"events"})
        /\ Logs(n, k, accepted, Weighs(satisfied), t)
    BY <1>2, <1>5, NoteStep, NoteLogs DEF Weighs, Infos
  <2> HIDE DEF k
  <2>5. k.evidence = n.evidence /\ n.evidence \in Seq(Evidence)
    BY <1>2, <2>4 DEF Same, Slice, Fields, Unregistered
  <2>6. kept = Append(n.evidence, [phase |-> phase, satisfied |-> satisfied,
                                   observed_at |-> o, own |-> own])
    BY <2>5
  <2> HIDE DEF kept
  <2>7. Same(k, e, {"evidence"}) /\ e.evidence = kept
    BY <2>3, <2>4, SliceFields DEF Same, Fields, Unregistered
  <2>8. e.events = k.events
    BY <2>7 DEF Same, Fields, Unregistered
  <2>9. Same(n, e, {"events", "evidence"})
    BY <2>4, <2>7 DEF Same
  <2>10. Accepted(n, e, op, t)
    BY <1>0, <2>4, <2>6, <2>7, <2>8, <2>9 DEF Accepted, Logs
  <2>11. Heard(c, e, op, "none", t)
    BY <1>1, <1>2, <2>2, <2>10 DEF Heard
  <2>12. Shown(e, phase, satisfied)
    <3> DEFINE i == Len(n.evidence) + 1
    <3>1. /\ i \in DOMAIN e.evidence
          /\ e.evidence[i] = [phase |-> phase, satisfied |-> satisfied,
                              observed_at |-> o, own |-> own]
      BY <2>5, <2>6, <2>7
    <3> QED
      BY <3>1 DEF Shown
  <2> QED
    BY <1>3, <2>2, <2>11, <2>12
<1> QED
  BY <1>2, <1>3, <1>4, <1>6, <1>7 DEF n

(* Evidence that closes the action, noted first.                           *)
LEMMA EvidenceCloses ==
    ASSUME Inv, NEW a \in Action, NEW t \in 0 .. MaxTime, ClockReads(t),
           NEW op \in {"observe", "observeRemedy"},
           NEW w \in Slice, Heard(actions[a], w, op, "none", t),
           NEW n \in Slice, Heard(actions[a], n, op, "none", t),
           NEW next \in RECEIPT_STATES, <<n.state, next>> \in ALLOWED_TRANSITIONS,
           Grounded(n, next), Leaves(op, "none", n.state, next),
           Reaches(a, Close(Transition(n, next, "", t), t),
                   {w, n} \cup CloseStops(Transition(n, next, "", t), t)),
           UNCHANGED implementation
    PROVE  Segment(a)
<1> DEFINE m == Transition(n, next, "", t)
<1>1. actions[a] \in Slice /\ t \in Nat
  BY ClockStep DEF Inv, Good
<1>2. /\ Walk(actions[a], Close(m, t), t)
      /\ Failures => \A d \in CloseStops(m, t) : Walk(actions[a], d, t)
  BY <1>1, CloseWalks
<1>3. Failures => Walk(actions[a], n, t) /\ Walk(actions[a], w, t)
  BY PauseWalks DEF Paused
<1>4. Reaches(a, Close(m, t), {w, n} \cup CloseStops(m, t))
  OBVIOUS
<1> HIDE DEF m
<1> QED
  BY <1>2, <1>3, <1>4, ReachesSegment

(* Resuming verifyOutcome().                                               *)
LEMMA OutcomeObservedSegment ==
    ASSUME Inv, NEW a \in Action, OutcomeObserved(a)
    PROVE  Segment(a)
<1> DEFINE c == actions[a]
           w == Finish(c, "observe")
           R(t) == Note(w, "EVIDENCE_REJECTED", "", t)
           E(s, o, own, t) == Accept(w, "EVIDENCE_ACCEPTED", "initial", s, o, own, t)
<1>1. PICK t \in 0 .. MaxTime :
        /\ ClockReads(t)
        /\ c.awaiting["observe"] > 0
        /\ \/ Reaches(a, Close(Transition(R(t), "INCONCLUSIVE", "", t), t),
                      {w, R(t)} \cup
                      CloseStops(Transition(R(t), "INCONCLUSIVE", "", t), t))
           \/ \E o \in Fresh, own \in Ownership :
                 Reaches(a, Close(Transition(E(TRUE, o, own, t), "SATISFIED", "", t), t),
                         {w, E(TRUE, o, own, t)} \cup
                         CloseStops(Transition(E(TRUE, o, own, t), "SATISFIED", "", t), t))
           \/ \E o \in Fresh, own \in Ownership :
                 Reaches(a, Transition(Transition(E(FALSE, o, own, t), "BREACHED", "", t),
                                       "REMEDY_DUE", "", t),
                         {w, E(FALSE, o, own, t),
                          Transition(E(FALSE, o, own, t), "BREACHED", "", t)})
        /\ UNCHANGED implementation
  BY DEF OutcomeObserved, RejectEvidence
<1>2. c \in Slice /\ Good(c) /\ t \in Nat /\ "observe" \in Operations
  BY <1>1, ClockStep DEF Inv, Good, Operations
<1>3. c.state = "VERIFYING"
  BY <1>1, <1>2, AnswerIsGood DEF Inv
<1>4. /\ w \in Slice /\ Heard(c, w, "observe", "none", t)
      /\ \A e : e = Note(w, "EVIDENCE_REJECTED", "", t) =>
            e \in Slice /\ e.state = c.state /\ Heard(c, e, "observe", "none", t)
      /\ \A s \in BOOLEAN, o \in Fresh, own \in Ownership : \A e :
            e = Accept(w, "EVIDENCE_ACCEPTED", "initial", s, o, own, t) =>
               /\ e \in Slice /\ e.state = c.state
               /\ Heard(c, e, "observe", "none", t) /\ Shown(e, "initial", s)
  <2>1. <<"observe", "initial", "EVIDENCE_ACCEPTED", "EVIDENCE_REJECTED">> \in Weighings
    BY DEF Weighings
  <2>2. Good(c) /\ c.awaiting["observe"] > 0 /\ t \in Nat
    BY <1>1, <1>2
  <2> HIDE DEF c
  <2> QED
    BY <2>1, <2>2, EvidenceHeard
<1> HIDE DEF w
<1>5. /\ <<"VERIFYING", "INCONCLUSIVE">> \in ALLOWED_TRANSITIONS
      /\ <<"VERIFYING", "SATISFIED">> \in ALLOWED_TRANSITIONS
      /\ <<"VERIFYING", "BREACHED">> \in ALLOWED_TRANSITIONS
      /\ <<"BREACHED", "REMEDY_DUE">> \in ALLOWED_TRANSITIONS
      /\ "INCONCLUSIVE" \in RECEIPT_STATES /\ "SATISFIED" \in RECEIPT_STATES
      /\ Leaves("observe", "none", "VERIFYING", "INCONCLUSIVE")
      /\ Leaves("observe", "none", "VERIFYING", "SATISFIED")
  BY DEF ALLOWED_TRANSITIONS, RECEIPT_STATES, DisputedStates, Leaves, WaitingStates,
         CallOf
<1>6. CASE Reaches(a, Close(Transition(R(t), "INCONCLUSIVE", "", t), t),
                   {w, R(t)} \cup
                   CloseStops(Transition(R(t), "INCONCLUSIVE", "", t), t))
  <2> DEFINE n == R(t)
  <2>1. n \in Slice /\ n.state = "VERIFYING" /\ Heard(c, n, "observe", "none", t)
    BY <1>3, <1>4
  <2>2. Reaches(a, Close(Transition(n, "INCONCLUSIVE", "", t), t),
                {w, n} \cup CloseStops(Transition(n, "INCONCLUSIVE", "", t), t))
    BY <1>6
  <2> HIDE DEF R, n
  <2>3. Grounded(n, "INCONCLUSIVE")
    BY DEF Grounded, Marked
  <2> QED
    BY <1>1, <1>4, <1>5, <2>1, <2>2, <2>3, EvidenceCloses
<1>7. ASSUME NEW o \in Fresh, NEW own \in Ownership,
             Reaches(a, Close(Transition(E(TRUE, o, own, t), "SATISFIED", "", t), t),
                     {w, E(TRUE, o, own, t)} \cup
                     CloseStops(Transition(E(TRUE, o, own, t), "SATISFIED", "", t), t))
      PROVE  Segment(a)
  <2> DEFINE n == E(TRUE, o, own, t)
  <2>1. /\ n \in Slice /\ n.state = "VERIFYING"
        /\ Heard(c, n, "observe", "none", t) /\ Shown(n, "initial", TRUE)
    BY <1>3, <1>4
  <2>2. Reaches(a, Close(Transition(n, "SATISFIED", "", t), t),
                {w, n} \cup CloseStops(Transition(n, "SATISFIED", "", t), t))
    BY <1>7
  <2> HIDE DEF E, n
  <2>3. Grounded(n, "SATISFIED")
    BY <2>1 DEF Grounded, Marked
  <2> QED
    BY <1>1, <1>4, <1>5, <2>1, <2>2, <2>3, EvidenceCloses
<1>8. ASSUME NEW o \in Fresh, NEW own \in Ownership,
             Reaches(a, Transition(Transition(E(FALSE, o, own, t), "BREACHED", "", t),
                                   "REMEDY_DUE", "", t),
                     {w, E(FALSE, o, own, t),
                      Transition(E(FALSE, o, own, t), "BREACHED", "", t)})
      PROVE  Segment(a)
  <2> DEFINE n == E(FALSE, o, own, t)
             m == Transition(n, "BREACHED", "", t)
             d == Transition(m, "REMEDY_DUE", "", t)
  <2>1. /\ n \in Slice /\ n.state = "VERIFYING"
        /\ Heard(c, n, "observe", "none", t) /\ Shown(n, "initial", FALSE)
    BY <1>3, <1>4
  <2>2. Reaches(a, d, {w, n, m})
    BY <1>8
  <2> HIDE DEF E, n
  <2>3. Grounded(n, "BREACHED")
    BY <2>1 DEF Grounded, Marked
  <2>4. /\ m \in Slice /\ m.state = "BREACHED" /\ Moved(n, m, t)
        /\ Ending(m, m, t)
    BY <1>2, <1>5, <2>1, <2>3, PlainMove
  <2> HIDE DEF m
  <2>5. Grounded(m, "REMEDY_DUE")
    BY DEF Grounded, Marked
  <2>6. d \in Slice /\ d.state = "REMEDY_DUE" /\ Moved(m, d, t)
    BY <1>2, <1>5, <2>4, <2>5, PlainMove
  <2> HIDE DEF d
  <2>7. Leaves("observe", "none", n.state, m.state)
    BY <2>1, <2>4 DEF Leaves, WaitingStates, CallOf
  <2>8. Completed(d, d)
    BY <2>6 DEF Completed, RECEIPT_STATES, DisputedStates, WaitingStates
  <2>9. Left("observe", "none", n, d, t)
    BY <2>4, <2>6, <2>7, <2>8, NoResult DEF Left
  <2>10. Walk(c, d, t)
    BY <2>1, <2>9 DEF Walk, Heard
  <2>11. Failures => Walk(c, w, t) /\ Walk(c, n, t)
    BY <1>4, <2>1, PauseWalks DEF Paused
  <2>12. Failures => Walk(c, m, t)
    BY <1>2, <2>1, <2>4, <2>7, NoResult, MoveWalks
  <2> QED
    BY <1>1, <2>2, <2>10, <2>11, <2>12, ReachesSegment
<1> QED
  BY <1>1, <1>6, <1>7, <1>8

(* Resuming verifyRemedyOutcome().                                         *)
LEMMA RemedyObservedSegment ==
    ASSUME Inv, NEW a \in Action, RemedyObserved(a)
    PROVE  Segment(a)
<1> DEFINE c == actions[a]
           w == Finish(c, "observeRemedy")
           R(t) == Note(w, "REMEDY_EVIDENCE_REJECTED", "", t)
           E(s, o, own, t) == Accept(w, "REMEDY_EVIDENCE_ACCEPTED", "post-remedy", s, o, own, t)
           After(s) == IF s THEN "REMEDIATED" ELSE "REMEDY_INCONCLUSIVE"
<1>1. PICK t \in 0 .. MaxTime :
        /\ ClockReads(t)
        /\ c.awaiting["observeRemedy"] > 0
        /\ \/ /\ CanMove(w, "REMEDY_INCONCLUSIVE")
              /\ Reaches(a, Close(Transition(R(t), "REMEDY_INCONCLUSIVE", "", t), t),
                         {w, R(t)} \cup
                         CloseStops(Transition(R(t), "REMEDY_INCONCLUSIVE", "", t), t))
           \/ /\ ~CanMove(w, "REMEDY_INCONCLUSIVE")
              /\ Reaches(a, R(t), {w})
           \/ \E o \in Fresh, s \in BOOLEAN, own \in Ownership :
                 IF CanMove(E(s, o, own, t), After(s))
                 THEN Reaches(a, Close(Transition(E(s, o, own, t), After(s), "", t), t),
                              {w, E(s, o, own, t)} \cup
                              CloseStops(Transition(E(s, o, own, t), After(s), "", t), t))
                 ELSE Reaches(a, E(s, o, own, t), {w})
        /\ UNCHANGED implementation
  BY DEF RemedyObserved, RejectEvidence
<1>2. c \in Slice /\ Good(c) /\ t \in Nat
  BY <1>1, ClockStep DEF Inv, Good
<1>3. /\ w \in Slice /\ w.state = c.state /\ Heard(c, w, "observeRemedy", "none", t)
      /\ \A e : e = Note(w, "REMEDY_EVIDENCE_REJECTED", "", t) =>
            /\ e \in Slice /\ e.state = c.state
            /\ Heard(c, e, "observeRemedy", "none", t)
      /\ \A s \in BOOLEAN, o \in Fresh, own \in Ownership : \A e :
            e = Accept(w, "REMEDY_EVIDENCE_ACCEPTED", "post-remedy", s, o, own, t) =>
               /\ e \in Slice /\ e.state = c.state
               /\ Heard(c, e, "observeRemedy", "none", t)
               /\ Shown(e, "post-remedy", s)
  <2>1. <<"observeRemedy", "post-remedy", "REMEDY_EVIDENCE_ACCEPTED",
          "REMEDY_EVIDENCE_REJECTED">> \in Weighings
    BY DEF Weighings
  <2>2. Good(c) /\ c.awaiting["observeRemedy"] > 0 /\ t \in Nat
    BY <1>1, <1>2
  <2> HIDE DEF c
  <2> QED
    BY <2>1, <2>2, EvidenceHeard
<1> HIDE DEF w
<1>4. /\ "REMEDIATED" \in RECEIPT_STATES /\ "REMEDY_INCONCLUSIVE" \in RECEIPT_STATES
      /\ <<"REMEDY_VERIFYING", "REMEDIATED">> \in ALLOWED_TRANSITIONS
      /\ <<"REMEDY_VERIFYING", "REMEDY_INCONCLUSIVE">> \in ALLOWED_TRANSITIONS
      /\ \A next \in {"REMEDIATED", "REMEDY_INCONCLUSIVE"} : \A s :
            <<s, next>> \in ALLOWED_TRANSITIONS =>
               Leaves("observeRemedy", "none", s, next)
  BY DEF ALLOWED_TRANSITIONS, RECEIPT_STATES, DisputedStates, Leaves, WaitingStates,
         CallOf
<1>5. Failures => Walk(c, w, t)
  BY <1>3, PauseWalks DEF Paused
<1>6. CASE /\ CanMove(w, "REMEDY_INCONCLUSIVE")
           /\ Reaches(a, Close(Transition(R(t), "REMEDY_INCONCLUSIVE", "", t), t),
                      {w, R(t)} \cup
                      CloseStops(Transition(R(t), "REMEDY_INCONCLUSIVE", "", t), t))
  <2> DEFINE n == R(t)
  <2>1. n \in Slice /\ n.state = c.state /\ Heard(c, n, "observeRemedy", "none", t)
    BY <1>3
  <2>2. Reaches(a, Close(Transition(n, "REMEDY_INCONCLUSIVE", "", t), t),
                {w, n} \cup
                CloseStops(Transition(n, "REMEDY_INCONCLUSIVE", "", t), t))
    BY <1>6
  <2> HIDE DEF R, n
  <2>3. Grounded(n, "REMEDY_INCONCLUSIVE")
    BY DEF Grounded, Marked
  <2>4. <<n.state, "REMEDY_INCONCLUSIVE">> \in ALLOWED_TRANSITIONS
    BY <1>3, <1>6, <2>1 DEF CanMove
  <2>5. Leaves("observeRemedy", "none", n.state, "REMEDY_INCONCLUSIVE")
    BY <1>4, <2>4
  <2> QED
    BY <1>1, <1>3, <1>4, <2>1, <2>2, <2>3, <2>4, <2>5, EvidenceCloses
<1>7. CASE ~CanMove(w, "REMEDY_INCONCLUSIVE") /\ Reaches(a, R(t), {w})
  <2> DEFINE n == R(t)
  <2>1. n \in Slice /\ n.state = c.state /\ Heard(c, n, "observeRemedy", "none", t)
    BY <1>3
  <2>2. Reaches(a, n, {w})
    BY <1>7
  <2> HIDE DEF R, n
  <2>3. n.state # "REMEDY_VERIFYING"
    BY <1>3, <1>4, <1>7, <2>1 DEF CanMove
  <2>4. Walk(c, n, t)
    BY <2>1, <2>3, PauseWalks DEF Paused
  <2> QED
    BY <1>1, <1>5, <2>2, <2>4, ReachesSegment
<1>8. ASSUME NEW o \in Fresh, NEW s \in BOOLEAN, NEW own \in Ownership,
             IF CanMove(E(s, o, own, t), After(s))
             THEN Reaches(a, Close(Transition(E(s, o, own, t), After(s), "", t), t),
                          {w, E(s, o, own, t)} \cup
                          CloseStops(Transition(E(s, o, own, t), After(s), "", t), t))
             ELSE Reaches(a, E(s, o, own, t), {w})
      PROVE  Segment(a)
  <2> DEFINE n == E(s, o, own, t)
             next == After(s)
  <2>1. /\ n \in Slice /\ n.state = c.state
        /\ Heard(c, n, "observeRemedy", "none", t) /\ Shown(n, "post-remedy", s)
    BY <1>3
  <2>2. IF CanMove(n, next)
        THEN Reaches(a, Close(Transition(n, next, "", t), t),
                     {w, n} \cup CloseStops(Transition(n, next, "", t), t))
        ELSE Reaches(a, n, {w})
    BY <1>8
  <2> HIDE DEF E, n
  <2>3. /\ next \in RECEIPT_STATES /\ next \in {"REMEDIATED", "REMEDY_INCONCLUSIVE"}
        /\ <<"REMEDY_VERIFYING", next>> \in ALLOWED_TRANSITIONS
    BY <1>4
  <2>4. Grounded(n, next)
    BY <2>1 DEF Grounded, Marked
  <2>5. CASE CanMove(n, next)
    <3>1. Reaches(a, Close(Transition(n, next, "", t), t),
                  {w, n} \cup CloseStops(Transition(n, next, "", t), t))
      BY <2>5, <2>2
    <3>2. <<n.state, next>> \in ALLOWED_TRANSITIONS
      BY <2>5 DEF CanMove
    <3> HIDE DEF next
    <3>3. Leaves("observeRemedy", "none", n.state, next)
      BY <1>4, <2>3, <3>2
    <3> QED
      BY <1>1, <1>3, <2>1, <2>3, <2>4, <3>1, <3>2, <3>3, EvidenceCloses
  <2>6. CASE ~CanMove(n, next)
    <3>1. Reaches(a, n, {w})
      BY <2>6, <2>2
    <3>2. n.state # "REMEDY_VERIFYING"
      BY <2>3, <2>6 DEF CanMove
    <3>3. Walk(c, n, t)
      BY <2>1, <3>2, PauseWalks DEF Paused
    <3> QED
      BY <1>1, <1>5, <3>1, <3>3, ReachesSegment
  <2> QED
    BY <2>5, <2>6
<1> QED
  BY <1>1, <1>6, <1>7, <1>8

(* Starting the remedy, or sending the breach to review.                   *)
LEMMA RemediateSegment ==
    ASSUME Inv, NEW a \in Action, Remediate(a)
    PROVE  Segment(a)
<1> DEFINE c == actions[a]
           y(t) == Transition(c, "REMEDIATING", "", t)
           z(t) == Begin(y(t), "remediate")
<1>1. PICK t \in 0 .. MaxTime :
        /\ ClockReads(t)
        /\ c.state = "REMEDY_DUE"
        /\ \/ Conclude(a, c, "REVIEW_REQUIRED", t)
           \/ /\ Qualified(c) => c.qualified_implementation = implementation
              /\ \E left \in Spent : actions' = [actions EXCEPT ![a] =
                    [z(t) EXCEPT !.remedy_attempts = @ + 1, !.remedy_calls = @ + 1,
                                 !.recourse = left]]
        /\ UNCHANGED implementation
  BY DEF Remediate, AwaitsRemedy, PreflightHolds
<1>2. c \in Slice /\ t \in Nat
  BY <1>1, ClockStep DEF Inv, Good
<1>3. Heard(c, c, "none", "none", t)
  BY <1>2, HeardNothing
<1>4. CASE Conclude(a, c, "REVIEW_REQUIRED", t)
  <2>1. /\ <<c.state, "REVIEW_REQUIRED">> \in ALLOWED_TRANSITIONS
        /\ Leaves("none", "none", c.state, "REVIEW_REQUIRED")
        /\ Grounded(c, "REVIEW_REQUIRED") /\ "REVIEW_REQUIRED" \in RECEIPT_STATES
    BY <1>1 DEF ALLOWED_TRANSITIONS, Grounded, Marked, RECEIPT_STATES, DisputedStates,
                Leaves, WaitingStates
  <2> QED
    BY <1>1, <1>2, <1>3, <1>4, <2>1, ConcludeSegment
<1>5. ASSUME Qualified(c) => c.qualified_implementation = implementation,
             NEW left \in Spent, actions' = [actions EXCEPT ![a] =
                [z(t) EXCEPT !.remedy_attempts = @ + 1, !.remedy_calls = @ + 1,
                             !.recourse = left]]
      PROVE  Segment(a)
  <2> DEFINE x == y(t)
             b == z(t)
             m == [x EXCEPT !.remedy_attempts = @ + 1, !.remedy_calls = @ + 1,
                            !.recourse = left]
             d == [b EXCEPT !.remedy_attempts = @ + 1, !.remedy_calls = @ + 1,
                            !.recourse = left]
             G == {"remedy_attempts", "remedy_calls", "recourse"}
  <2>1. /\ c.state \in States /\ "REMEDIATING" \in States /\ "" \in Infos
        /\ "remediate" \in Operations
    BY <1>1 DEF States, Infos, Operations
  <2>2. /\ x \in Slice /\ x.state = "REMEDIATING"
        /\ Same(c, x, {"state", "events"}) /\ LogsMove(c, x, "", t)
    BY <1>2, <2>1, TransitionStep, TransitionLogs
  <2>3. actions' = [actions EXCEPT ![a] = d]
    BY <1>5
  <2>4. b = Begin(x, "remediate")
    OBVIOUS
  <2> HIDE DEF y, z, x, b
  <2>5. /\ b \in Slice /\ Same(x, b, {"awaiting"})
        /\ b.awaiting = [x.awaiting EXCEPT !["remediate"] = x.awaiting["remediate"] + 1]
    BY <2>1, <2>2, <2>4, BeginCalls
  <2>6. ASSUME NEW s \in Slice, NEW e,
               e = [s EXCEPT !.remedy_attempts = @ + 1, !.remedy_calls = @ + 1,
                             !.recourse = left]
        PROVE  /\ e \in Slice /\ Same(s, e, G)
               /\ e.remedy_attempts = s.remedy_attempts + 1
               /\ e.remedy_calls = s.remedy_calls + 1
               /\ e.recourse = left
    <3>1. DOMAIN s = Fields /\ G \subseteq Fields
      BY SliceFields DEF Fields, Unregistered
    <3>2. Same(s, e, G) /\ e.recourse = left
      BY <2>6, <3>1 DEF Same
    <3> QED
      BY <2>6, <3>2, RemediateCounts
  <2>7. /\ m \in Slice /\ Same(x, m, G)
        /\ m.remedy_attempts = x.remedy_attempts + 1
        /\ m.remedy_calls = x.remedy_calls + 1 /\ m.recourse = left
    BY <2>2, <2>6
  <2>8. /\ d \in Slice /\ Same(b, d, G)
        /\ d.remedy_attempts = b.remedy_attempts + 1
        /\ d.remedy_calls = b.remedy_calls + 1 /\ d.recourse = left
    BY <2>5, <2>6
  <2> HIDE DEF m, d
  <2>9. x.remedy_attempts = c.remedy_attempts /\ x.remedy_calls = c.remedy_calls
        /\ b.remedy_attempts = x.remedy_attempts /\ b.remedy_calls = x.remedy_calls
        /\ m.state = x.state /\ m.events = x.events
        /\ m.awaiting = x.awaiting /\ d.awaiting = b.awaiting
    BY <2>2, <2>5, <2>7, <2>8 DEF Same, Fields, Unregistered
  <2>10. Same(c, m, {"state", "events", "remedy_attempts", "remedy_calls", "recourse"})
    BY <2>2, <2>7 DEF Same
  <2>11. Same(m, d, {"awaiting"})
    <3>1. \A f \in Fields \ ({"awaiting"} \cup G) : d[f] = m[f]
      BY <2>5, <2>7, <2>8 DEF Same
    <3>2. d.remedy_attempts = m.remedy_attempts /\ d.remedy_calls = m.remedy_calls
          /\ d.recourse = m.recourse
      BY <2>7, <2>8, <2>9
    <3> QED
      BY <3>1, <3>2 DEF Same
  <2>12. Moved(c, m, t)
    <3>1. <<c.state, m.state>> \in ALLOWED_TRANSITIONS
      BY <1>1, <2>2, <2>9 DEF ALLOWED_TRANSITIONS
    <3>2. LogsMove(c, m, "", t)
      BY <2>2, <2>9 DEF LogsMove
    <3>3. Remedies(c, m)
      BY <1>5, <2>2, <2>7, <2>9, <2>10 DEF Remedies
    <3> QED
      BY <3>1, <3>2, <3>3 DEF Moved
  <2>13. Enters(c, m, t)
    BY <2>7, <2>12 DEF Enters, Ending
  <2>14. d.state = "REMEDIATING" /\ d.execution = m.execution
    BY <2>2, <2>9, <2>11 DEF Same, Fields, Unregistered
  <2>15. Called(m, d)
    BY <2>5, <2>9, <2>14 DEF Called, CallOf, WaitingStates
  <2>16. Resulted(m, d)
    <3>1. Same(m, d, {"awaiting", "execution", "remedy_result"})
      BY <2>11 DEF Same
    <3> QED
      BY <2>14, <2>15, <3>1 DEF Resulted
  <2>17. /\ m.state \notin RECEIPT_STATES \cup {"BREACHED"}
         /\ Leaves("none", "none", c.state, m.state)
    BY <1>1, <2>2, <2>9 DEF RECEIPT_STATES, DisputedStates, Leaves, WaitingStates
  <2>18. Walk(c, d, t)
    BY <1>1, <1>2, <1>3, <2>13, <2>15, <2>16, <2>17, EnterWalks
  <2> QED
    BY <1>1, <2>3, <2>18, SegmentStep
<1> QED
  BY <1>1, <1>4, <1>5

(* Entering REMEDY_VERIFYING, which asks for evidence of the remedy.       *)
LEMMA VerifyingWalks ==
    ASSUME NEW c \in Slice, NEW t \in Nat, NEW n \in Slice, NEW op,
           Heard(c, n, op, "remediated", t),
           <<n.state, "REMEDY_VERIFYING">> \in ALLOWED_TRANSITIONS,
           Leaves(op, "remediated", n.state, "REMEDY_VERIFYING")
    PROVE  LET b == Begin(Transition(n, "REMEDY_VERIFYING", "", t), "observeRemedy")
           IN Walk(c, b, t) /\ Walk(c, [b EXCEPT !.remedy_result = "remediated"], t)
<1> DEFINE m == Transition(n, "REMEDY_VERIFYING", "", t)
           b == Begin(m, "observeRemedy")
           d == [b EXCEPT !.remedy_result = "remediated"]
<1>1. Grounded(n, "REMEDY_VERIFYING")
      /\ "observeRemedy" \in Operations /\ "remediated" \in Results
  BY DEF Grounded, Marked, ALLOWED_TRANSITIONS, Operations, Results
<1>2. m \in Slice /\ m.state = "REMEDY_VERIFYING" /\ Moved(n, m, t) /\ Ending(m, m, t)
  BY <1>1, PlainMove
<1> HIDE DEF m
<1>3. /\ b \in Slice /\ Same(m, b, {"awaiting"})
      /\ b.awaiting = [m.awaiting EXCEPT
                          !["observeRemedy"] = m.awaiting["observeRemedy"] + 1]
  BY <1>1, <1>2, BeginCalls
<1> HIDE DEF b
<1>4. d \in Slice /\ Same(b, d, {"remedy_result"})
  BY <1>1, <1>3, ResultNoted
<1> HIDE DEF d
<1>5. /\ b.state = m.state /\ b.execution = m.execution
      /\ d.state = b.state /\ d.execution = b.execution /\ d.awaiting = b.awaiting
  BY <1>3, <1>4 DEF Same, Fields, Unregistered
<1>6. Called(m, b) /\ Called(m, d)
  BY <1>2, <1>3, <1>5 DEF Called, CallOf, WaitingStates
<1>7. /\ Same(m, b, {"awaiting", "execution", "remedy_result"})
      /\ Same(m, d, {"awaiting", "execution", "remedy_result"})
  BY <1>3, <1>4 DEF Same
<1>8. Resulted(m, b) /\ Resulted(m, d)
  BY <1>5, <1>6, <1>7 DEF Resulted
<1>9. Completed(m, b) /\ Completed(m, d)
  BY <1>2, <1>5, <1>6 DEF Completed, RECEIPT_STATES, DisputedStates
<1>10. Leaves(op, "remediated", n.state, m.state)
  BY <1>2
<1>11. Walk(c, b, t) /\ Walk(c, d, t)
  BY <1>2, <1>8, <1>9, <1>10, MoveWalks
<1> QED
  BY <1>11 DEF m, b, d

(* Resuming remediate().                                                   *)
LEMMA RemediateAnsweredSegment ==
    ASSUME Inv, NEW a \in Action, RemediateAnswered(a)
    PROVE  Segment(a)
<1> DEFINE c == actions[a]
           w == Finish(c, "remediate")
           p == Answered(w, "remediated")
           remediated == [p EXCEPT !.remedy_result = "remediated"]
           q == Answered(w, "failed")
           failed == [q EXCEPT !.remedy_result = "failed"]
           U(t) == Transition(w, "REMEDY_UNKNOWN", "", t)
<1>1. PICK t \in 0 .. MaxTime :
        /\ ClockReads(t)
        /\ c.awaiting["remediate"] > 0
        /\ \/ Reaches(a, Begin(Transition(remediated, "REMEDY_VERIFYING", "", t),
                               "observeRemedy"),
                      {remediated})
           \/ Conclude(a, failed, "REMEDY_FAILED", t)
           \/ Conclude(a, w, "REMEDY_FAILED", t)
           \/ Reaches(a, [U(t) EXCEPT !.remedy_result = "unknown"], {w})
        /\ UNCHANGED implementation
  BY DEF RemediateAnswered
<1> DEFINE u == U(t)
           unknown == [u EXCEPT !.remedy_result = "unknown"]
<1>2. /\ c \in Slice /\ Good(c) /\ t \in Nat /\ "remediate" \in Operations
      /\ "remediated" \in Results /\ "failed" \in Results /\ "unknown" \in Results
      /\ "none" \in Definite /\ "remediated" \in Definite /\ "failed" \in Definite
  BY <1>1, ClockStep DEF Inv, Good, Operations, Results, Definite
<1>3. w \in Slice /\ Resumed(c, w, "remediate", "none") /\ w.state = "REMEDIATING"
  BY <1>1, <1>2, FinishResumes, AnswerIsGood
<1>4. /\ p \in Slice /\ Resumed(c, p, "remediate", "remediated")
      /\ q \in Slice /\ Resumed(c, q, "remediate", "failed")
  BY <1>1, <1>2, AnswerResumes
<1> HIDE DEF w, p, q
<1>5. /\ remediated \in Slice /\ Same(p, remediated, {"remedy_result"})
      /\ failed \in Slice /\ Same(q, failed, {"remedy_result"})
  BY <1>2, <1>4, ResultNoted
<1> HIDE DEF remediated, failed
<1>6. ASSUME NEW s \in Slice, NEW e \in Slice, NEW answer \in {"remediated", "failed"},
             Resumed(c, s, "remediate", answer), Same(s, e, {"remedy_result"})
      PROVE  /\ e.state = "REMEDIATING"
             /\ Heard(c, e, "remediate", answer, t)
  <2>1. e.awaiting = s.awaiting /\ e.remedy_answer = s.remedy_answer /\ e.state = c.state
    BY <1>6 DEF Resumed, Same, Fields, Unregistered
  <2>2. Same(c, e, {"awaiting", "remedy_answer", "remedy_result"})
    BY <1>6 DEF Resumed, Same
  <2>3. Resumed(c, e, "remediate", answer)
    BY <1>6, <2>1, <2>2 DEF Resumed
  <2>4. c.state = w.state
    BY <1>3 DEF Resumed, Same, Fields, Unregistered
  <2>5. answer \in Definite
    BY <1>2
  <2> QED
    BY <1>2, <1>3, <2>1, <2>3, <2>4, <2>5, HeardAnswer
<1>7. /\ remediated.state = "REMEDIATING"
      /\ Heard(c, remediated, "remediate", "remediated", t)
      /\ failed.state = "REMEDIATING"
      /\ Heard(c, failed, "remediate", "failed", t)
  BY <1>4, <1>5, <1>6
<1>8. Heard(c, w, "remediate", "none", t)
  BY <1>2, <1>3, HeardAnswer
<1>9. /\ <<"REMEDIATING", "REMEDY_VERIFYING">> \in ALLOWED_TRANSITIONS
      /\ <<"REMEDIATING", "REMEDY_FAILED">> \in ALLOWED_TRANSITIONS
      /\ <<"REMEDIATING", "REMEDY_UNKNOWN">> \in ALLOWED_TRANSITIONS
      /\ "REMEDY_FAILED" \in RECEIPT_STATES
      /\ \A n : Grounded(n, "REMEDY_FAILED") /\ Grounded(n, "REMEDY_UNKNOWN")
      /\ Leaves("remediate", "remediated", "REMEDIATING", "REMEDY_VERIFYING")
      /\ \A answer, next : next # "REMEDY_VERIFYING" =>
            Leaves("remediate", answer, "REMEDIATING", next)
  BY DEF ALLOWED_TRANSITIONS, RECEIPT_STATES, DisputedStates, Grounded, Marked, Leaves,
         WaitingStates, CallOf
<1>10. \/ Reaches(a, Begin(Transition(remediated, "REMEDY_VERIFYING", "", t),
                           "observeRemedy"),
                  {remediated})
       \/ Conclude(a, failed, "REMEDY_FAILED", t)
       \/ Conclude(a, w, "REMEDY_FAILED", t)
       \/ Reaches(a, unknown, {w})
  BY <1>1
<1>11. u \in Slice /\ u.state = "REMEDY_UNKNOWN" /\ Enters(w, u, t)
  BY <1>2, <1>3, <1>9, PlainMove DEF Enters
<1> HIDE DEF U, u
<1>12. CASE Reaches(a, Begin(Transition(remediated, "REMEDY_VERIFYING", "", t),
                             "observeRemedy"),
                    {remediated})
  <2>1. Walk(c, Begin(Transition(remediated, "REMEDY_VERIFYING", "", t),
                      "observeRemedy"), t)
    BY <1>2, <1>5, <1>7, <1>9, VerifyingWalks
  <2>2. Failures => Walk(c, remediated, t)
    BY <1>5, <1>7, PauseWalks DEF Paused
  <2> QED
    BY <1>1, <1>12, <2>1, <2>2, ReachesSegment
<1>13. CASE Conclude(a, failed, "REMEDY_FAILED", t)
  BY <1>1, <1>5, <1>7, <1>9, <1>13, ConcludeSegment
<1>14. CASE Conclude(a, w, "REMEDY_FAILED", t)
  BY <1>1, <1>3, <1>8, <1>9, <1>14, ConcludeSegment
<1>15. CASE Reaches(a, unknown, {w})
  <2>1. Resulted(u, unknown)
    BY <1>2, <1>11, ResultResults
  <2> HIDE DEF unknown
  <2>2. unknown.state = u.state
    BY <2>1 DEF Resulted, Same, Fields, Unregistered
  <2>3. /\ u.state \notin RECEIPT_STATES \cup {"BREACHED"}
        /\ u.state \notin WaitingStates
        /\ Leaves("remediate", "none", w.state, u.state)
    BY <1>3, <1>9, <1>11 DEF RECEIPT_STATES, DisputedStates, WaitingStates
  <2>4. Walk(c, unknown, t)
    BY <1>2, <1>3, <1>8, <1>11, <2>1, <2>2, <2>3, EnterWalks
  <2>5. Failures => Walk(c, w, t)
    BY <1>3, <1>8, PauseWalks DEF Paused
  <2> QED
    BY <1>1, <1>15, <2>4, <2>5, ReachesSegment
<1> QED
  BY <1>10, <1>12, <1>13, <1>14, <1>15

(* Closing on a definite or an unresolved remedy status.                   *)
LEMMA ConcludeRemedySegment ==
    ASSUME Inv, NEW a \in Action, NEW t \in 0 .. MaxTime, ClockReads(t),
           NEW n \in Slice, NEW answer,
           Heard(actions[a], n, "reconcileRemedy", answer, t),
           NEW next \in {"REMEDY_FAILED", "REVIEW_REQUIRED"},
           <<n.state, next>> \in ALLOWED_TRANSITIONS,
           Leaves("reconcileRemedy", answer, n.state, next),
           NEW result \in Results,
           ConcludeRemedy(a, n, next, result, t), UNCHANGED implementation
    PROVE  Segment(a)
<1> DEFINE m == Transition(n, next, "", t)
           x == Close(m, t)
           d == [x EXCEPT !.remedy_result = result]
           done == IF x.state = "CLOSED" THEN d ELSE x
<1>1. actions[a] \in Slice /\ t \in Nat
  BY ClockAssumption DEF Inv, Good
<1>2. Grounded(n, next) /\ next \in RECEIPT_STATES
  BY DEF Grounded, Marked, RECEIPT_STATES, DisputedStates
<1>3. /\ Walk(actions[a], x, t)
      /\ \A y : Resulted(x, y) => Walk(actions[a], y, t)
      /\ Failures => \A y \in CloseStops(m, t) : Walk(actions[a], y, t)
  BY <1>1, <1>2, CloseWalks
<1>4. m \in Slice /\ m.state \in RECEIPT_STATES
  BY <1>1, <1>2, PlainMove
<1>5. Reaches(a, done, {n} \cup CloseStops(m, t))
  BY DEF ConcludeRemedy
<1> HIDE DEF m
<1>6. x \in Slice
  BY <1>1, <1>4, CloseEnds
<1> HIDE DEF x
<1>7. Resulted(x, d)
  BY <1>6, ResultResults
<1> HIDE DEF d
<1>8. Walk(actions[a], done, t)
  BY <1>3, <1>7
<1>9. Failures => Walk(actions[a], n, t)
  BY PauseWalks DEF Paused
<1> HIDE DEF done
<1> QED
  BY <1>3, <1>5, <1>8, <1>9, ReachesSegment

(* Resuming reconcileRemedy().                                             *)
LEMMA ReconcileRemedyAnsweredSegment ==
    ASSUME Inv, NEW a \in Action, ReconcileRemedyAnswered(a)
    PROVE  Segment(a)
<1> DEFINE c == actions[a]
           w == Finish(c, "reconcileRemedy")
           p == Answered(w, "remediated")
           q == Answered(w, "failed")
<1>1. PICK t \in 0 .. MaxTime :
        /\ ClockReads(t)
        /\ c.awaiting["reconcileRemedy"] > 0
        /\ \/ /\ Answers(w, "remediated") /\ CanMove(w, "REMEDY_VERIFYING")
              /\ Reaches(a, [Begin(Transition(p, "REMEDY_VERIFYING", "", t),
                                   "observeRemedy")
                             EXCEPT !.remedy_result = "remediated"], {p})
           \/ /\ Answers(w, "failed") /\ CanMove(w, "REMEDY_FAILED")
              /\ ConcludeRemedy(a, q, "REMEDY_FAILED", "failed", t)
           \/ /\ CanMove(w, "REVIEW_REQUIRED")
              /\ ConcludeRemedy(a, w, "REVIEW_REQUIRED", "unknown", t)
           \/ actions' = [actions EXCEPT ![a] = w]
        /\ UNCHANGED implementation
  BY DEF ReconcileRemedyAnswered
<1>2. /\ c \in Slice /\ t \in Nat /\ "reconcileRemedy" \in Operations
      /\ "failed" \in Results /\ "unknown" \in Results
      /\ "none" \in Definite /\ "remediated" \in Definite /\ "failed" \in Definite
  BY <1>1, ClockStep DEF Inv, Good, Operations, Results, Definite
<1>3. /\ w \in Slice /\ w.state \in AfterRemedyUnknown
      /\ Same(c, w, {"awaiting"}) /\ Resumed(c, w, "reconcileRemedy", "none")
  BY <1>1, <1>2, FinishResumes, AnswerIsGood DEF Inv
<1>4. ASSUME NEW answer \in {"remediated", "failed"}, Answers(w, answer)
      PROVE  /\ Answered(w, answer) \in Slice /\ Answered(w, answer).state = w.state
             /\ Heard(c, Answered(w, answer), "reconcileRemedy", answer, t)
  <2>1. w.remedy_answer = c.remedy_answer
    BY <1>3 DEF Same, Fields, Unregistered
  <2>2. Answers(c, answer)
    BY <1>4, <2>1 DEF Answers
  <2>3. /\ Answered(w, answer) \in Slice
        /\ Resumed(c, Answered(w, answer), "reconcileRemedy", answer)
    BY <1>1, <1>2, <2>2, AnswerResumes
  <2>4. answer \in Definite
    BY <1>2
  <2>5. Answered(w, answer).state = w.state
    BY <1>3, AnsweredStep
  <2> QED
    BY <1>2, <2>3, <2>4, <2>5, HeardAnswer
<1> HIDE DEF w
<1>5. Heard(c, w, "reconcileRemedy", "none", t) /\ Walk(c, w, t)
  BY <1>2, <1>3, HeardAnswer, PauseWalks DEF Paused
<1>6. CASE /\ Answers(w, "remediated") /\ CanMove(w, "REMEDY_VERIFYING")
           /\ Reaches(a, [Begin(Transition(p, "REMEDY_VERIFYING", "", t),
                                "observeRemedy")
                          EXCEPT !.remedy_result = "remediated"], {p})
  <2>1. p \in Slice /\ p.state = w.state /\ Heard(c, p, "reconcileRemedy", "remediated", t)
    BY <1>4, <1>6
  <2> HIDE DEF p
  <2>2. /\ <<p.state, "REMEDY_VERIFYING">> \in ALLOWED_TRANSITIONS
        /\ Leaves("reconcileRemedy", "remediated", p.state, "REMEDY_VERIFYING")
    BY <1>3, <1>6, <2>1 DEF CanMove, ALLOWED_TRANSITIONS, AfterRemedyUnknown, Leaves,
                            WaitingStates
  <2>3. Walk(c, [Begin(Transition(p, "REMEDY_VERIFYING", "", t), "observeRemedy")
                 EXCEPT !.remedy_result = "remediated"], t)
    BY <1>2, <2>1, <2>2, VerifyingWalks
  <2>4. Failures => Walk(c, p, t)
    BY <2>1, PauseWalks DEF Paused
  <2> QED
    BY <1>1, <1>6, <2>3, <2>4, ReachesSegment
<1>7. CASE /\ Answers(w, "failed") /\ CanMove(w, "REMEDY_FAILED")
           /\ ConcludeRemedy(a, q, "REMEDY_FAILED", "failed", t)
  <2>1. q \in Slice /\ q.state = w.state /\ Heard(c, q, "reconcileRemedy", "failed", t)
    BY <1>4, <1>7
  <2> HIDE DEF q
  <2>2. /\ <<q.state, "REMEDY_FAILED">> \in ALLOWED_TRANSITIONS
        /\ Leaves("reconcileRemedy", "failed", q.state, "REMEDY_FAILED")
    BY <1>3, <1>7, <2>1 DEF CanMove, ALLOWED_TRANSITIONS, AfterRemedyUnknown, Leaves,
                            WaitingStates
  <2> QED
    BY <1>1, <1>2, <1>7, <2>1, <2>2, ConcludeRemedySegment
<1>8. CASE /\ CanMove(w, "REVIEW_REQUIRED")
           /\ ConcludeRemedy(a, w, "REVIEW_REQUIRED", "unknown", t)
  <2>1. /\ <<w.state, "REVIEW_REQUIRED">> \in ALLOWED_TRANSITIONS
        /\ Leaves("reconcileRemedy", "none", w.state, "REVIEW_REQUIRED")
    BY <1>8 DEF CanMove, ALLOWED_TRANSITIONS, Leaves, WaitingStates
  <2> QED
    BY <1>1, <1>2, <1>3, <1>5, <1>8, <2>1, ConcludeRemedySegment
<1>9. CASE actions' = [actions EXCEPT ![a] = w]
  BY <1>1, <1>5, <1>9, SegmentStep
<1> HIDE DEF p, q
<1> QED
  BY <1>1, <1>6, <1>7, <1>8, <1>9

(* So is every handler.                                                    *)
LEMMA HandlerSegment ==
    ASSUME Inv, NEW a \in Action, Handler(a)
    PROVE  Segment(a)
  BY ProposeSegment, AuthorizeSegment, ReserveRecourseSegment,
     AcceptRecoveryQualificationSegment, IssuePermitSegment, ExecuteSegment,
     ExecuteAnsweredSegment, AskSegment, ReconcileAnsweredSegment,
     VerifyOutcomeSegment, OutcomeObservedSegment, RemediateSegment,
     RemediateAnsweredSegment, ReconcileRemedyAnsweredSegment, RemedyObservedSegment
     DEF Handler

-------------------------------------------------------------------------------
(* What a step of the rail does to a slice. *)

\* The connector alone moves the reservation.
LapsesTo(c, d) ==
    /\ c.recourse = "active" /\ d.recourse \in Lapses
    /\ Same(c, d, {"recourse"})

\* A step of the rail takes the slice c to d, and reads the clock at t.
Goes(c, d, t) == Walk(c, d, t) \/ LapsesTo(c, d) \/ d = c

(* A step of the rail takes one slice along a walk or a lapse, or none.    *)
LEMMA NextGoes ==
    ASSUME Inv, [Next]_vars
    PROVE  \/ UNCHANGED actions /\ now' \in Nat /\ now <= now'
           \/ \E a \in Action, t \in Nat :
                 /\ now <= t /\ t <= now + Drift /\ now' \in {now, t}
                 /\ actions' = [actions EXCEPT ![a] = actions'[a]]
                 /\ Goes(actions[a], actions'[a], t)
<1>1. now \in Nat /\ actions \in [Action -> Slice] /\ Drift \in Nat
  BY ClockAssumption DEF Inv, TypeOK
<1>2. ASSUME NEW a \in Action, Handler(a)
      PROVE  \E t \in Nat :
                /\ now <= t /\ t <= now + Drift /\ now' \in {now, t}
                /\ actions' = [actions EXCEPT ![a] = actions'[a]]
                /\ Goes(actions[a], actions'[a], t)
  <2>1. PICK t \in Nat :
           /\ t \in now .. (now + Drift) /\ now' \in {now, t}
           /\ actions' = [actions EXCEPT ![a] = actions'[a]]
           /\ Walk(actions[a], actions'[a], t)
    BY <1>2, HandlerSegment DEF Segment
  <2> QED
    BY <1>1, <2>1 DEF Goes
<1>3. ASSUME NEW a \in Action, RecourseLapses(a)
      PROVE  /\ now' = now
             /\ actions' = [actions EXCEPT ![a] = actions'[a]]
             /\ Goes(actions[a], actions'[a], now)
  <2> DEFINE c == actions[a]
  <2>1. PICK s \in Lapses :
           /\ c.recourse = "active"
           /\ actions' = [actions EXCEPT ![a] = [c EXCEPT !.recourse = s]]
    BY <1>1, <1>3 DEF RecourseLapses
  <2>2. /\ c \in Slice /\ actions'[a] = [c EXCEPT !.recourse = s]
        /\ actions' = [actions EXCEPT ![a] = actions'[a]]
    BY <1>1, <2>1
  <2> HIDE DEF c
  <2>3. DOMAIN c = Fields /\ "recourse" \in Fields
    BY <2>2, SliceFields DEF Fields, Unregistered
  <2>4. LapsesTo(c, actions'[a])
    BY <2>1, <2>2, <2>3 DEF LapsesTo, Same
  <2> QED
    BY <1>3, <2>2, <2>4 DEF Goes, RecourseLapses, c
<1>4. CASE ReplaceImplementation
  BY <1>1, <1>4 DEF ReplaceImplementation
<1>5. CASE Tick
  BY <1>1, <1>5 DEF Tick
<1>6. CASE UNCHANGED vars
  BY <1>1, <1>6 DEF vars
<1>7. CASE \E a \in Action : Handler(a)
  BY <1>2, <1>7
<1>8. CASE \E a \in Action : RecourseLapses(a)
  <2>1. PICK a \in Action : RecourseLapses(a)
    BY <1>8
  <2>2. /\ now <= now /\ now <= now + Drift /\ now' \in {now, now}
        /\ actions' = [actions EXCEPT ![a] = actions'[a]]
        /\ Goes(actions[a], actions'[a], now)
    BY <1>1, <1>3, <2>1
  <2> QED
    BY <1>1, <2>2
<1> QED
  BY <1>4, <1>5, <1>6, <1>7, <1>8 DEF Next

(* So every slice goes somewhere, and the clock never runs back.           *)
LEMMA SlicesGo ==
    ASSUME Inv, [Next]_vars
    PROVE  \E t \in Nat :
              /\ now <= t /\ t <= now + Drift
              /\ now' \in Nat /\ now <= now'
              /\ UNCHANGED actions \/ now' \in {now, t}
              /\ \A a \in Action : Goes(actions[a], actions'[a], t)
<1>1. now \in Nat /\ actions \in [Action -> Slice] /\ Drift \in Nat
  BY ClockAssumption DEF Inv, TypeOK
<1>2. CASE UNCHANGED actions /\ now' \in Nat /\ now <= now'
  BY <1>1, <1>2 DEF Goes
<1>3. ASSUME NEW a \in Action, NEW t \in Nat,
             now <= t, t <= now + Drift, now' \in {now, t},
             actions' = [actions EXCEPT ![a] = actions'[a]],
             Goes(actions[a], actions'[a], t)
      PROVE  /\ now' \in Nat /\ now <= now'
             /\ \A b \in Action : Goes(actions[b], actions'[b], t)
  <2>1. \A b \in Action : b # a => actions'[b] = actions[b]
    BY <1>1, <1>3
  <2> QED
    BY <1>1, <1>3, <2>1 DEF Goes
<1> QED
  BY <1>2, <1>3, NextGoes
===============================================================================
