------------------------------ MODULE RailProofs ------------------------------
(***************************************************************************)
(* For every value of the constants: the types of module Rail hold, and    *)
(* the protected operation and its remedy are each called at most once.    *)
(*                                                                         *)
(* Neither is inductive alone.  A continuation resumes without reading the *)
(* state again, so that it finds the state its call left is itself part of *)
(* the invariant (Good): without it an answer could be resumed in any      *)
(* state, log a transition that is none, or lead back to REMEDY_DUE.       *)
(***************************************************************************)
EXTENDS RailProperties, TLAPS

\* The states an action passes before its remedy can have been called.
BeforeRemedy ==
    {"UNREGISTERED", "PROPOSED", "AUTHORIZED", "RECOURSE_RESERVED", "PERMITTED",
     "EXECUTING", "EXECUTED", "UNKNOWN", "VERIFYING", "BREACHED", "REMEDY_DUE"}

\* The states an action may have reached when a status read is answered.
AfterUnknown ==
    States \ {"PROPOSED", "DENIED", "AUTHORIZED", "EXPIRED", "REVOKED",
              "RECOURSE_RESERVED", "PERMITTED", "EXECUTING"}

AfterRemedyUnknown ==
    {"REMEDY_UNKNOWN", "REMEDY_VERIFYING", "REMEDY_FAILED", "REVIEW_REQUIRED",
     "REMEDIATED", "REMEDY_INCONCLUSIVE", "CLOSED"}

\* Every call is counted, and counted once.
Counted(c) ==
    /\ c.execute_calls = c.permit_uses /\ c.permit_uses <= 1
    /\ c.remedy_calls = c.remedy_attempts /\ c.remedy_attempts <= 1
    /\ c.state \in BeforeRemedy => c.remedy_attempts = 0

\* A continuation finds the action where its call can have left it.
Resumable(c) ==
    /\ \A op \in {"execute", "observe", "remediate"} : c.awaiting[op] <= 1
    /\ c.awaiting["execute"] > 0 => c.state = "EXECUTING"
    /\ c.awaiting["observe"] > 0 => c.state = "VERIFYING"
    /\ c.awaiting["remediate"] > 0 => c.state = "REMEDIATING"
    /\ c.awaiting["reconcile"] > 0 => c.state \in AfterUnknown
    /\ c.awaiting["reconcileRemedy"] > 0 => c.state \in AfterRemedyUnknown

Good(c) == c \in Slice /\ Counted(c) /\ Resumable(c)

\* The inductive invariant.
Inv ==
    /\ TypeOK
    /\ \A a \in Action : Good(actions[a])

\* d differs from c in no call and no continuation.
Quiet(c, d) ==
    /\ d.awaiting = c.awaiting
    /\ d.permit_uses = c.permit_uses
    /\ d.execute_calls = c.execute_calls
    /\ d.remedy_attempts = c.remedy_attempts
    /\ d.remedy_calls = c.remedy_calls

-------------------------------------------------------------------------------
(* The steps of a segment stay within Slice. *)

(* An appended event (eventStore.append) disturbs nothing but the log.     *)
LEMMA NoteStep ==
    ASSUME NEW c \in Slice, NEW type \in EventTypes, NEW info \in Infos,
           NEW t \in Nat
    PROVE  /\ Note(c, type, info, t) \in Slice
           /\ Note(c, type, info, t).state = c.state
           /\ Quiet(c, Note(c, type, info, t))
<1> DEFINE e == [type |-> type, from |-> "none", to |-> "none",
                 at |-> t, info |-> info]
<1>1. e \in Event
  BY DEF Event
<1>2. Append(c.events, e) \in Seq(Event)
  BY <1>1 DEF Slice
<1> QED
  BY <1>2 DEF Note, Slice, Quiet

(* transition() moves the state and disturbs no call.                      *)
LEMMA TransitionStep ==
    ASSUME NEW c \in Slice, c.state \in States, NEW next \in States,
           NEW info \in Infos, NEW t \in Nat
    PROVE  /\ Transition(c, next, info, t) \in Slice
           /\ Transition(c, next, info, t).state = next
           /\ Quiet(c, Transition(c, next, info, t))
<1> DEFINE e == [type |-> "STATE_TRANSITION", from |-> c.state, to |-> next,
                 at |-> t, info |-> info]
<1>1. e \in Event
  BY DEF Event, EventTypes
<1>2. Append(c.events, e) \in Seq(Event)
  BY <1>1 DEF Slice
<1>3. next \in States \cup {"UNREGISTERED"}
  OBVIOUS
<1> QED
  BY <1>2, <1>3 DEF Transition, Slice, Quiet

(* connector.releaseRecourse touches the reservation alone.                *)
LEMMA ReleaseStep ==
    ASSUME NEW c \in Slice
    PROVE  /\ Release(c) \in Slice
           /\ Release(c).state = c.state
           /\ Quiet(c, Release(c))
<1> DEFINE r == IF c.recourse = "active" THEN "released" ELSE c.recourse
<1>1. r \in RecourseStatuses \cup {"none"}
  BY DEF Slice, RecourseStatuses, RECEIPT_RECOURSE_STATUSES
<1>2. Release(c) = [c EXCEPT !.recourse = r]
  BY DEF Release
<1> HIDE DEF r
<1> QED
  BY <1>1, <1>2 DEF Slice, Quiet

(* Recording the final status disturbs neither state nor calls.            *)
LEMMA StatusStep ==
    ASSUME NEW c \in Slice, NEW status \in RecourseStatuses \cup {"none"}
    PROVE  /\ [c EXCEPT !.final_status = status] \in Slice
           /\ [c EXCEPT !.final_status = status].state = c.state
           /\ Quiet(c, [c EXCEPT !.final_status = status])
  BY DEF Slice, Quiet

(* finalizeRecourse keeps the state and the calls.                         *)
LEMMA FinalizeStep ==
    ASSUME NEW c \in Slice, NEW release \in BOOLEAN, NEW t \in Nat
    PROVE  /\ Finalize(c, release, t) \in Slice
           /\ Finalize(c, release, t).state = c.state
           /\ Quiet(c, Finalize(c, release, t))
<1> DEFINE r == IF release THEN Release(c) ELSE c
           type == IF r.recourse = "active" THEN "RECOURSE_STATUS_RECORDED"
                                            ELSE "RECOURSE_FINALIZED"
           n == Note(r, type, r.recourse, t)
<1>1. r \in Slice /\ r.state = c.state /\ Quiet(c, r)
  BY ReleaseStep DEF Quiet
<1>2. r.recourse \in RecourseStatuses \cup {"none"}
  BY <1>1 DEF Slice
<1>3. r.recourse \in Infos
  BY <1>2 DEF Infos
<1>4. type \in EventTypes
  BY DEF EventTypes
<1> HIDE DEF r, type
<1>5. n \in Slice /\ n.state = r.state /\ Quiet(r, n)
  BY <1>1, <1>3, <1>4, NoteStep
<1> HIDE DEF n
<1>6. CASE c.final_status # "none"
  BY <1>6 DEF Finalize, Quiet
<1>7. CASE c.final_status = "none"
  <2>1. Finalize(c, release, t) = [n EXCEPT !.final_status = r.recourse]
    BY <1>7 DEF Finalize, r, n, type
  <2>2. /\ [n EXCEPT !.final_status = r.recourse] \in Slice
        /\ [n EXCEPT !.final_status = r.recourse].state = n.state
        /\ Quiet(n, [n EXCEPT !.final_status = r.recourse])
    BY <1>2, <1>5, StatusStep
  <2> QED
    BY <2>1, <2>2, <1>1, <1>5 DEF Quiet
<1> QED
  BY <1>6, <1>7

(* A call registers its continuation and leaves the rest alone.            *)
LEMMA BeginStep ==
    ASSUME NEW c \in Slice, NEW op \in Operations
    PROVE  /\ Begin(c, op) \in Slice
           /\ Begin(c, op).state = c.state
           /\ Begin(c, op).awaiting =
                 [c.awaiting EXCEPT ![op] = c.awaiting[op] + 1]
           /\ Begin(c, op).permit_uses = c.permit_uses
           /\ Begin(c, op).execute_calls = c.execute_calls
           /\ Begin(c, op).remedy_attempts = c.remedy_attempts
           /\ Begin(c, op).remedy_calls = c.remedy_calls
<1> DEFINE w == [c.awaiting EXCEPT ![op] = c.awaiting[op] + 1]
<1>1. w \in [Operations -> Nat]
  BY DEF Slice
<1>2. Begin(c, op) = [c EXCEPT !.awaiting = w]
  BY DEF Begin, Slice
<1> HIDE DEF w
<1>3. /\ [c EXCEPT !.awaiting = w] \in Slice
      /\ [c EXCEPT !.awaiting = w].awaiting = w
      /\ [c EXCEPT !.awaiting = w].state = c.state
      /\ [c EXCEPT !.awaiting = w].permit_uses = c.permit_uses
      /\ [c EXCEPT !.awaiting = w].execute_calls = c.execute_calls
      /\ [c EXCEPT !.awaiting = w].remedy_attempts = c.remedy_attempts
      /\ [c EXCEPT !.awaiting = w].remedy_calls = c.remedy_calls
  BY <1>1 DEF Slice
<1> QED
  BY <1>2, <1>3 DEF w

(* An answer resumes a continuation that is waiting, once.                 *)
LEMMA FinishStep ==
    ASSUME NEW c \in Slice, NEW op \in Operations, c.awaiting[op] > 0
    PROVE  /\ Finish(c, op) \in Slice
           /\ Finish(c, op).state = c.state
           /\ Finish(c, op).awaiting =
                 [c.awaiting EXCEPT ![op] = c.awaiting[op] - 1]
           /\ Finish(c, op).permit_uses = c.permit_uses
           /\ Finish(c, op).execute_calls = c.execute_calls
           /\ Finish(c, op).remedy_attempts = c.remedy_attempts
           /\ Finish(c, op).remedy_calls = c.remedy_calls
<1> DEFINE w == [c.awaiting EXCEPT ![op] = c.awaiting[op] - 1]
<1>1. w \in [Operations -> Nat]
  BY DEF Slice
<1>2. Finish(c, op) = [c EXCEPT !.awaiting = w]
  BY DEF Finish, Slice
<1> HIDE DEF w
<1>3. /\ [c EXCEPT !.awaiting = w] \in Slice
      /\ [c EXCEPT !.awaiting = w].awaiting = w
      /\ [c EXCEPT !.awaiting = w].state = c.state
      /\ [c EXCEPT !.awaiting = w].permit_uses = c.permit_uses
      /\ [c EXCEPT !.awaiting = w].execute_calls = c.execute_calls
      /\ [c EXCEPT !.awaiting = w].remedy_attempts = c.remedy_attempts
      /\ [c EXCEPT !.awaiting = w].remedy_calls = c.remedy_calls
  BY <1>1 DEF Slice
<1> QED
  BY <1>2, <1>3 DEF w

(* Every closing state has an outcome.                                     *)
LEMMA OutcomeType ==
    ASSUME NEW s \in RECEIPT_STATES
    PROVE  RECEIPT_OUTCOME_BY_STATE[s] \in Outcomes
  BY DEF RECEIPT_OUTCOME_BY_STATE, Outcomes

(* Cutting the receipt keeps the state and the calls.                      *)
LEMMA CutStep ==
    ASSUME NEW c \in Slice, c.final_status \in RECEIPT_RECOURSE_STATUSES,
           NEW outcome \in Outcomes, NEW t \in Nat
    PROVE  /\ Cut(c, outcome, t) \in Slice
           /\ Cut(c, outcome, t).state = c.state
           /\ Quiet(c, Cut(c, outcome, t))
<1> DEFINE r == [outcome |-> outcome,
                 recourse_final_status |-> c.final_status,
                 evidence |-> c.evidence,
                 event_chain_head |-> Len(c.events),
                 closed_at |-> t]
           receipts == <<r>>
<1>1. r \in Receipt
  <2>1. c.evidence \in Seq(Evidence) /\ c.events \in Seq(Event)
    BY DEF Slice
  <2>2. Len(c.events) \in Nat
    BY <2>1
  <2> QED
    BY <2>1, <2>2 DEF Receipt
<1>2. receipts \in Seq(Receipt)
  BY <1>1
<1>3. Cut(c, outcome, t) = [c EXCEPT !.receipt = receipts]
  BY DEF Cut
<1> HIDE DEF r, receipts
<1> QED
  BY <1>2, <1>3 DEF Slice, Quiet

(* Keeping a list of evidence disturbs neither state nor calls.            *)
LEMMA EvidenceStep ==
    ASSUME NEW c \in Slice, NEW kept \in Seq(Evidence)
    PROVE  /\ [c EXCEPT !.evidence = kept] \in Slice
           /\ [c EXCEPT !.evidence = kept].state = c.state
           /\ Quiet(c, [c EXCEPT !.evidence = kept])
  BY DEF Slice, Quiet

(* When an observation was taken, and whether it is of the action's own.   *)
LEMMA ObservationType ==
    ASSUME now \in 0 .. MaxTime
    PROVE  (\A o \in Fresh : o \in Nat) /\ Ownership \subseteq BOOLEAN
<1>1. \A o \in Fresh : o \in Nat
  BY DEF Fresh
<1>2. Ownership \subseteq BOOLEAN
  BY Zenon DEF Ownership
<1> QED
  BY <1>1, <1>2

(* Accepting evidence keeps the state and the calls.                       *)
LEMMA AcceptStep ==
    ASSUME NEW c \in Slice,
           NEW type \in EventTypes, NEW phase \in {"initial", "post-remedy"},
           NEW satisfied \in BOOLEAN, NEW o \in Nat, NEW w \in BOOLEAN, NEW t \in Nat
    PROVE  /\ Accept(c, type, phase, satisfied, o, w, t) \in Slice
           /\ Accept(c, type, phase, satisfied, o, w, t).state = c.state
           /\ Quiet(c, Accept(c, type, phase, satisfied, o, w, t))
<1> DEFINE info == IF satisfied THEN "satisfied" ELSE "unsatisfied"
           n == Note(c, type, info, t)
           e == [phase |-> phase, satisfied |-> satisfied, observed_at |-> o, own |-> w]
           kept == Append(n.evidence, e)
<1>1. info \in Infos
  BY DEF Infos
<1> HIDE DEF info
<1>2. n \in Slice /\ n.state = c.state /\ Quiet(c, n)
  BY <1>1, NoteStep
<1>3. e \in Evidence
  BY DEF Evidence
<1>4. kept \in Seq(Evidence)
  BY <1>2, <1>3 DEF Slice
<1>5. Accept(c, type, phase, satisfied, o, w, t) = [n EXCEPT !.evidence = kept]
  BY DEF Accept, info
<1> HIDE DEF n, e, kept
<1>6. /\ [n EXCEPT !.evidence = kept] \in Slice
      /\ [n EXCEPT !.evidence = kept].state = n.state
      /\ Quiet(n, [n EXCEPT !.evidence = kept])
  BY <1>2, <1>4, EvidenceStep
<1> QED
  BY <1>2, <1>5, <1>6 DEF Quiet

(* The connector's first definite answer is remembered, and nothing else.  *)
LEMMA AnsweredStep ==
    ASSUME NEW c \in Slice, NEW answer \in {"remediated", "failed"}
    PROVE  /\ Answered(c, answer) \in Slice
           /\ Answered(c, answer).state = c.state
           /\ Quiet(c, Answered(c, answer))
<1> DEFINE r == IF c.remedy_answer = "none" THEN answer ELSE c.remedy_answer
<1>1. r \in {"none", "remediated", "failed"}
  BY DEF Slice
<1>2. Answered(c, answer) = [c EXCEPT !.remedy_answer = r]
  BY DEF Answered
<1> HIDE DEF r
<1>3. [c EXCEPT !.remedy_answer = r] \in Slice
  BY <1>1 DEF Slice
<1> QED
  BY <1>2, <1>3 DEF Slice, Quiet

(* Reporting a remedy or execution result disturbs neither state nor calls. *)
LEMMA ResultStep ==
    ASSUME NEW c \in Slice, NEW result \in Results
    PROVE  /\ [c EXCEPT !.remedy_result = result] \in Slice
           /\ [c EXCEPT !.remedy_result = result].state = c.state
           /\ Quiet(c, [c EXCEPT !.remedy_result = result])
           /\ [c EXCEPT !.execution = result] \in Slice
           /\ [c EXCEPT !.execution = result].state = c.state
           /\ Quiet(c, [c EXCEPT !.execution = result])
<1>1. /\ [c EXCEPT !.remedy_result = result] \in Slice
      /\ [c EXCEPT !.remedy_result = result].state = c.state
      /\ Quiet(c, [c EXCEPT !.remedy_result = result])
  BY DEF Slice, Quiet
<1>2. /\ [c EXCEPT !.execution = result] \in Slice
      /\ [c EXCEPT !.execution = result].state = c.state
      /\ Quiet(c, [c EXCEPT !.execution = result])
  BY DEF Slice, Quiet
<1> QED
  BY <1>1, <1>2

-------------------------------------------------------------------------------
(* Good slices. *)

(* A step that moves neither the state nor a call keeps a slice good.      *)
LEMMA QuietIsGood ==
    ASSUME NEW c, NEW d \in Slice, Good(c), d.state = c.state, Quiet(c, d)
    PROVE  Good(d)
  BY DEF Good, Counted, Resumable, Quiet

\* No continuation waits in a state the action is about to leave.
Settled(c) ==
    /\ c.awaiting["execute"] = 0
    /\ c.awaiting["observe"] = 0
    /\ c.awaiting["remediate"] = 0

(* Outside the three states that wait for their own answer a slice is      *)
(* settled.                                                                *)
LEMMA SettledStates ==
    ASSUME NEW c, Good(c), c.state \notin {"EXECUTING", "VERIFYING", "REMEDIATING"}
    PROVE  Settled(c)
<1>1. /\ c.awaiting["execute"] \in Nat
      /\ c.awaiting["observe"] \in Nat
      /\ c.awaiting["remediate"] \in Nat
  BY DEF Good, Slice, Operations
<1> QED
  BY <1>1 DEF Good, Resumable, Settled

\* next is a state a settled slice may move to.
MayEnter(c, next) ==
    /\ next \in BeforeRemedy => c.remedy_attempts = 0
    /\ c.awaiting["reconcile"] > 0 => next \in AfterUnknown
    /\ c.awaiting["reconcileRemedy"] > 0 => next \in AfterRemedyUnknown

(* Before the protected call nothing bars a move.                          *)
LEMMA EarlyStates ==
    ASSUME NEW c, Good(c), NEW next,
           c.state \in {"PROPOSED", "AUTHORIZED", "RECOURSE_RESERVED", "PERMITTED"}
    PROVE  Settled(c) /\ MayEnter(c, next)
<1>1. Settled(c)
  BY SettledStates
<1>2. c.state \notin AfterUnknown /\ c.state \notin AfterRemedyUnknown
  BY DEF AfterUnknown, AfterRemedyUnknown
<1>3. c.state \in BeforeRemedy
  BY DEF BeforeRemedy
<1> QED
  BY <1>1, <1>2, <1>3 DEF Good, Counted, Resumable, MayEnter

(* A settled slice that moves where it may stays good and settled.         *)
LEMMA MoveIsGood ==
    ASSUME NEW c, Good(c), Settled(c), c.state \in States,
           NEW next \in States, MayEnter(c, next),
           NEW info \in Infos, NEW t \in Nat
    PROVE  /\ Good(Transition(c, next, info, t))
           /\ Transition(c, next, info, t).state = next
           /\ Settled(Transition(c, next, info, t))
           /\ Quiet(c, Transition(c, next, info, t))
<1> DEFINE d == Transition(c, next, info, t)
<1>1. d \in Slice /\ d.state = next /\ Quiet(c, d)
  BY TransitionStep DEF Good
<1> HIDE DEF d
<1>2. Settled(d)
  BY <1>1 DEF Settled, Quiet
<1>3. Counted(d)
  BY <1>1 DEF Good, Counted, Quiet, MayEnter
<1>4. Resumable(d)
  BY <1>1, <1>2 DEF Good, Resumable, Quiet, MayEnter, Settled
<1>5. Good(d) /\ d.state = next /\ Settled(d) /\ Quiet(c, d)
  BY <1>1, <1>2, <1>3, <1>4 DEF Good
<1> QED
  BY <1>5 DEF d

(* finalizeRecourse keeps a slice good, wherever it throws.                *)
LEMMA FinalizeIsGood ==
    ASSUME NEW c, Good(c), NEW release \in BOOLEAN, NEW t \in Nat
    PROVE  /\ Good(Finalize(c, release, t))
           /\ \A d \in FinalizeStops(c, release) : Good(d)
<1>1. c \in Slice
  BY DEF Good
<1>2. Good(Finalize(c, release, t))
  BY <1>1, FinalizeStep, QuietIsGood
<1>3. Good(Release(c))
  BY <1>1, ReleaseStep, QuietIsGood
<1> QED
  BY <1>2, <1>3 DEF FinalizeStops

(* close() keeps a slice good, wherever it throws.                         *)
LEMMA CloseIsGood ==
    ASSUME NEW c, Good(c), c.state \in RECEIPT_STATES, NEW t \in Nat
    PROVE  /\ Good(Close(c, t))
           /\ \A d \in CloseStops(c, t) : Good(d)
<1> DEFINE outcome == RECEIPT_OUTCOME_BY_STATE[c.state]
           f == Finalize(c, Releases(c), t)
           m == Transition(f, "CLOSED", outcome, t)
<1>1. outcome \in Outcomes /\ outcome \in Infos
  BY OutcomeType DEF Infos
<1>2. Releases(c) \in BOOLEAN
  BY DEF Releases
<1>3. Good(f) /\ f.state = c.state /\ f \in Slice
  BY <1>2, FinalizeIsGood, FinalizeStep DEF Good
<1>5. Close(c, t) = IF f.final_status \in RECEIPT_RECOURSE_STATUSES
                    THEN Cut(m, outcome, t) ELSE f
  BY DEF Close
<1>6. ASSUME f.final_status \in RECEIPT_RECOURSE_STATUSES
      PROVE  Good(m) /\ Good(Cut(m, outcome, t))
  <2>1. f.state \in States /\ "CLOSED" \in States
    BY <1>3 DEF RECEIPT_STATES, DisputedStates, States
  <2>2. Settled(f)
    BY <1>3, SettledStates DEF RECEIPT_STATES, DisputedStates
  <2>3. MayEnter(f, "CLOSED")
    BY DEF MayEnter, BeforeRemedy, AfterUnknown, AfterRemedyUnknown, States
  <2>4. m.final_status = f.final_status
    BY <1>3 DEF Transition, Slice
  <2> HIDE DEF f, outcome
  <2>5. Good(m)
    BY <1>1, <1>3, <2>1, <2>2, <2>3, MoveIsGood
  <2> HIDE DEF m
  <2>6. m \in Slice /\ m.final_status \in RECEIPT_RECOURSE_STATUSES
    BY <2>4, <2>5, <1>6 DEF Good
  <2> QED
    BY <1>1, <2>5, <2>6, CutStep, QuietIsGood
<1>4. \A d \in CloseStops(c, t) : Good(d)
  <2>1. \A d \in FinalizeStops(c, Releases(c)) : Good(d)
    BY <1>2, FinalizeIsGood
  <2>2. CloseStops(c, t) = FinalizeStops(c, Releases(c)) \cup {f} \cup
           (IF f.final_status \in RECEIPT_RECOURSE_STATUSES THEN {m} ELSE {})
    BY DEF CloseStops
  <2> QED
    BY <1>3, <1>6, <2>1, <2>2
<1> QED
  BY <1>3, <1>4, <1>5, <1>6

-------------------------------------------------------------------------------
(* Segments that end in good slices keep the invariant. *)

(* A segment of an action that ends in a good slice.                       *)
LEMMA SliceStep ==
    ASSUME Inv, NEW a \in Action, NEW d, Good(d),
           actions' = [actions EXCEPT ![a] = d],
           now' \in 0 .. MaxTime, UNCHANGED implementation
    PROVE  Inv'
<1>1. \A b \in Action : actions'[b] = IF b = a THEN d ELSE actions[b]
  BY DEF Inv, TypeOK
<1>2. \A b \in Action : Good(actions'[b])
  BY <1>1 DEF Inv
<1>3. actions' \in [Action -> Slice]
  BY DEF Inv, TypeOK, Good
<1> QED
  BY <1>2, <1>3 DEF Inv, TypeOK

(* A segment that may stop on its way.                                     *)
LEMMA ReachesStep ==
    ASSUME Inv, NEW a \in Action, NEW done, NEW stops, Reaches(a, done, stops),
           Good(done), \A d \in stops : Good(d),
           now' \in 0 .. MaxTime, UNCHANGED implementation
    PROVE  Inv'
<1>1. PICK d \in {done} \cup (IF Failures THEN stops ELSE {}) :
         actions' = [actions EXCEPT ![a] = d]
  BY DEF Reaches
<1>2. Good(d)
  BY <1>1
<1> QED
  BY <1>1, <1>2, SliceStep

(* The clock of a segment stays in its bound.                              *)
LEMMA ClockStep ==
    ASSUME NEW t \in 0 .. MaxTime, ClockReads(t)
    PROVE  t \in Nat /\ now' \in 0 .. MaxTime
  BY ClockAssumption DEF ClockReads

(* Withdrawing a settled slice.                                            *)
LEMMA WithdrawStep ==
    ASSUME Inv, NEW a \in Action, NEW c, Good(c), Settled(c), c.state \in States,
           NEW next \in States, MayEnter(c, next), NEW t \in Nat,
           Withdraw(a, c, next, t),
           now' \in 0 .. MaxTime, UNCHANGED implementation
    PROVE  Inv'
<1> DEFINE m == Transition(c, next, "", t)
<1>1. "" \in Infos
  BY DEF Infos
<1>2. Good(m)
  BY <1>1, MoveIsGood
<1>3. Good(Finalize(m, TRUE, t)) /\ \A d \in FinalizeStops(m, TRUE) : Good(d)
  BY <1>2, FinalizeIsGood
<1>4. Reaches(a, Finalize(m, TRUE, t), {c} \cup FinalizeStops(m, TRUE))
  BY DEF Withdraw
<1> HIDE DEF m
<1> QED
  BY <1>3, <1>4, ReachesStep

(* Concluding a settled slice.                                             *)
LEMMA ConcludeStep ==
    ASSUME Inv, NEW a \in Action, NEW c, Good(c), Settled(c), c.state \in States,
           NEW next \in RECEIPT_STATES, MayEnter(c, next), NEW t \in Nat,
           Conclude(a, c, next, t),
           now' \in 0 .. MaxTime, UNCHANGED implementation
    PROVE  Inv'
<1> DEFINE m == Transition(c, next, "", t)
<1>1. "" \in Infos /\ next \in States
  BY DEF Infos, RECEIPT_STATES, DisputedStates, States
<1>2. Good(m) /\ m.state = next
  BY <1>1, MoveIsGood
<1>3. Good(Close(m, t)) /\ \A d \in CloseStops(m, t) : Good(d)
  BY <1>2, CloseIsGood
<1>4. Reaches(a, Close(m, t), {c} \cup CloseStops(m, t))
  BY DEF Conclude
<1> HIDE DEF m
<1> QED
  BY <1>3, <1>4, ReachesStep

(* Refusing evidence for a settled slice.                                  *)
LEMMA RejectEvidenceStep ==
    ASSUME Inv, NEW a \in Action, NEW c, Good(c), Settled(c), c.state \in States,
           NEW type \in EventTypes,
           NEW next \in RECEIPT_STATES, MayEnter(c, next), NEW t \in Nat,
           RejectEvidence(a, c, type, next, t),
           now' \in 0 .. MaxTime, UNCHANGED implementation
    PROVE  Inv'
<1> DEFINE n == Note(c, type, "", t)
           m == Transition(n, next, "", t)
<1>1. "" \in Infos /\ next \in States
  BY DEF Infos, RECEIPT_STATES, DisputedStates, States
<1>2. n \in Slice /\ n.state = c.state /\ Quiet(c, n)
  BY <1>1, NoteStep DEF Good
<1>3. Good(n) /\ Settled(n) /\ MayEnter(n, next)
  BY <1>2, QuietIsGood DEF Settled, MayEnter, Quiet
<1>4. Reaches(a, Close(m, t), {c, n} \cup CloseStops(m, t))
  BY DEF RejectEvidence
<1> HIDE DEF n
<1>5. Good(m) /\ m.state = next
  BY <1>1, <1>2, <1>3, MoveIsGood
<1> HIDE DEF m
<1>6. Good(Close(m, t)) /\ \A d \in CloseStops(m, t) : Good(d)
  BY <1>5, CloseIsGood
<1> QED
  BY <1>3, <1>4, <1>6, ReachesStep

\* d differs from c neither in its state nor in a call or continuation.
Still(c, d) == d.state = c.state /\ Quiet(c, d)

(* Accepting evidence keeps a slice good.                                  *)
LEMMA AcceptIsGood ==
    ASSUME NEW c, Good(c), NEW type \in EventTypes,
           NEW phase \in {"initial", "post-remedy"},
           NEW satisfied \in BOOLEAN, NEW o \in Nat, NEW w \in BOOLEAN, NEW t \in Nat,
           NEW e, e = Accept(c, type, phase, satisfied, o, w, t)
    PROVE  Good(e) /\ Still(c, e)
<1>1. e \in Slice /\ e.state = c.state /\ Quiet(c, e)
  BY AcceptStep DEF Good
<1> QED
  BY <1>1, QuietIsGood DEF Still

-------------------------------------------------------------------------------
(* Every handler keeps the invariant. *)

(* The fields propose() fills.                                             *)
LEMMA ProposedFields ==
    ASSUME NEW c \in Slice, NEW mode \in ASSURANCE_MODES,
           NEW requested \in Nat, NEW expiry \in Nat
    PROVE  LET d == [c EXCEPT !.state = "PROPOSED", !.mode = mode,
                              !.requested_at = requested, !.expires_at = expiry]
           IN d \in Slice /\ d.state = "PROPOSED" /\ Quiet(c, d)
<1> DEFINE d == [c EXCEPT !.state = "PROPOSED", !.mode = mode,
                          !.requested_at = requested, !.expires_at = expiry]
<1>1. "PROPOSED" \in States \cup {"UNREGISTERED"}
  BY DEF States
<1>2. mode \in ASSURANCE_MODES \cup {"none"} /\ requested \in Int /\ expiry \in Int
  OBVIOUS
<1>3. d \in Slice
  BY <1>1, <1>2 DEF Slice
<1>4. d.state = "PROPOSED"
  BY DEF Slice
<1>5. Quiet(c, d)
  BY DEF Slice, Quiet
<1> QED
  BY <1>3, <1>4, <1>5

(* Registering a proposal.                                                 *)
LEMMA ProposeStep ==
    ASSUME Inv, NEW a \in Action, Propose(a)
    PROVE  Inv'
<1> DEFINE c == actions[a]
<1>1. PICK t \in 0 .. MaxTime, mode \in Modes,
           requested \in RequestedAts, expiry \in ActionExpiries :
        /\ ClockReads(t)
        /\ c.state = "UNREGISTERED"
        /\ actions' = [actions EXCEPT ![a] =
              [Note(c, "ACTION_PROPOSED", "PROPOSED", t)
               EXCEPT !.state = "PROPOSED", !.mode = mode,
                      !.requested_at = requested, !.expires_at = expiry]]
        /\ UNCHANGED implementation
  BY DEF Propose, Inv, TypeOK
<1> DEFINE n == Note(c, "ACTION_PROPOSED", "PROPOSED", t)
           d == [n EXCEPT !.state = "PROPOSED", !.mode = mode,
                          !.requested_at = requested, !.expires_at = expiry]
<1>2. Good(c) /\ c \in Slice
  BY DEF Inv, Good
<1>3. t \in Nat /\ now' \in 0 .. MaxTime
  BY <1>1, ClockStep
<1>4. n \in Slice /\ Quiet(c, n)
  BY <1>2, <1>3, NoteStep DEF EventTypes, Infos
<1>5. mode \in ASSURANCE_MODES /\ requested \in Nat /\ expiry \in Nat
  BY InputAssumption
<1> HIDE DEF n
<1>6. d \in Slice /\ d.state = "PROPOSED" /\ Quiet(n, d)
  BY <1>4, <1>5, ProposedFields
<1> HIDE DEF d
<1>7. Quiet(c, d)
  BY <1>4, <1>6 DEF Quiet
<1>8. Good(d)
  <2>1. Counted(d)
    BY <1>1, <1>2, <1>7 DEF Good, Counted, Quiet, BeforeRemedy
  <2>2. Resumable(d)
    <3>1. \A op \in {"execute", "observe", "remediate", "reconcile",
                     "reconcileRemedy"} : c.awaiting[op] \in Nat
      BY <1>2 DEF Slice, Operations
    <3> QED
      BY <1>1, <1>2, <1>7, <3>1
         DEF Good, Resumable, Quiet, AfterUnknown, AfterRemedyUnknown, States
  <2> QED
    BY <1>6, <2>1, <2>2 DEF Good
<1> QED
  BY <1>1, <1>3, <1>8, SliceStep DEF d, n

(* A move to a state, with other fields of the record set behind it.       *)
LEMMA MoveStep ==
    ASSUME Inv, NEW a \in Action, NEW c, Good(c), Settled(c), c.state \in States,
           NEW next \in States, MayEnter(c, next), NEW t \in Nat,
           NEW d \in Slice, d.state = next, Quiet(Transition(c, next, "", t), d)
    PROVE  Good(d)
<1> DEFINE m == Transition(c, next, "", t)
<1>1. "" \in Infos
  BY DEF Infos
<1>2. Good(m) /\ m.state = next
  BY <1>1, MoveIsGood
<1> HIDE DEF m
<1> QED
  BY <1>2, QuietIsGood DEF m

(* The field authorize() fills.                                            *)
LEMMA AuthorizedFields ==
    ASSUME NEW c \in Slice, NEW required \in BOOLEAN
    PROVE  LET d == [c EXCEPT !.preflight_required = required]
           IN d \in Slice /\ d.state = c.state /\ Quiet(c, d)
  BY DEF Slice, Quiet

(* Authorizing, or denying.                                                *)
LEMMA AuthorizeStep ==
    ASSUME Inv, NEW a \in Action, Authorize(a)
    PROVE  Inv'
<1> DEFINE c == actions[a]
<1>1. PICK t \in 0 .. MaxTime, allow \in BOOLEAN, required \in PreflightDecisions :
        /\ ClockReads(t)
        /\ c.state = "PROPOSED"
        /\ actions' = [actions EXCEPT ![a] =
              [Transition(c, IF allow THEN "AUTHORIZED" ELSE "DENIED", "", t)
               EXCEPT !.preflight_required = required]]
        /\ UNCHANGED implementation
  BY DEF Authorize, Inv, TypeOK
<1> DEFINE next == IF allow THEN "AUTHORIZED" ELSE "DENIED"
           m == Transition(c, next, "", t)
           d == [m EXCEPT !.preflight_required = required]
<1>2. Good(c) /\ c \in Slice /\ c.state \in States /\ Settled(c)
  BY <1>1, SettledStates DEF Inv, Good, States
<1>3. t \in Nat /\ now' \in 0 .. MaxTime
  BY <1>1, ClockStep
<1>4. next \in States /\ "" \in Infos
  BY DEF States, Infos
<1> HIDE DEF next
<1>5. MayEnter(c, next)
  <2>1. c.state \in {"PROPOSED", "AUTHORIZED", "RECOURSE_RESERVED", "PERMITTED"}
    BY <1>1
  <2> QED
    BY <1>2, <2>1, EarlyStates
<1>7. m \in Slice /\ m.state = next
  BY <1>2, <1>3, <1>4, TransitionStep
<1>8. required \in BOOLEAN
  BY InputAssumption
<1>9. d \in Slice /\ d.state = next /\ Quiet(m, d)
  <2> HIDE DEF m
  <2> QED BY <1>7, <1>8, AuthorizedFields
<1>10. Good(d)
  BY <1>2, <1>3, <1>4, <1>5, <1>9, MoveStep
<1> QED
  BY <1>1, <1>3, <1>10, SliceStep DEF next

(* The connector holds a reservation.                                      *)
LEMMA ActiveRecourse ==
    ASSUME NEW c \in Slice
    PROVE  LET d == [c EXCEPT !.recourse = "active"]
           IN d \in Slice /\ d.state = c.state /\ Quiet(c, d)
<1>1. "active" \in RecourseStatuses \cup {"none"}
  BY DEF RecourseStatuses, RECEIPT_RECOURSE_STATUSES
<1> QED
  BY <1>1 DEF Slice, Quiet

(* Reserving recourse, also when only the connector gets to reserve.       *)
LEMMA ReserveRecourseStep ==
    ASSUME Inv, NEW a \in Action, ReserveRecourse(a)
    PROVE  Inv'
<1> DEFINE c == actions[a]
           reserved == [c EXCEPT !.recourse = "active"]
<1>0. PICK t \in 0 .. MaxTime, kind \in Kinds, until \in RecourseExpiries,
           attempts \in AttemptLimits :
        \E at \in (now .. t) \cup ReservedAts :
           /\ ClockReads(t)
           /\ c.state = "AUTHORIZED"
           /\ Reaches(a, [Transition(reserved, "RECOURSE_RESERVED", "", t)
                          EXCEPT !.kind = kind, !.reserved_at = at,
                                 !.reserved_until = until,
                                 !.max_attempts = attempts],
                      {c, reserved})
           /\ UNCHANGED implementation
  BY DEF ReserveRecourse
<1>1. PICK at \in (now .. t) \cup ReservedAts :
        /\ ClockReads(t)
        /\ c.state = "AUTHORIZED"
        /\ Reaches(a, [Transition(reserved, "RECOURSE_RESERVED", "", t)
                       EXCEPT !.kind = kind, !.reserved_at = at,
                              !.reserved_until = until,
                              !.max_attempts = attempts],
                   {c, reserved})
        /\ UNCHANGED implementation
  BY <1>0
<1> DEFINE m == Transition(reserved, "RECOURSE_RESERVED", "", t)
           d == [m EXCEPT !.kind = kind, !.reserved_at = at,
                          !.reserved_until = until, !.max_attempts = attempts]
<1>2. Good(c) /\ c \in Slice
  BY DEF Inv, Good
<1>3. t \in Nat /\ now' \in 0 .. MaxTime
  BY <1>1, ClockStep
<1>4. reserved \in Slice /\ reserved.state = c.state /\ Quiet(c, reserved)
  BY <1>2, ActiveRecourse
<1>5. Good(reserved)
  BY <1>2, <1>4, QuietIsGood
<1>6. reserved.state \in {"PROPOSED", "AUTHORIZED", "RECOURSE_RESERVED", "PERMITTED"}
  BY <1>1, <1>4
<1>7. kind \in RemedyKinds /\ at \in Int /\ until \in Nat /\ attempts \in Nat
  BY InputAssumption DEF Inv, TypeOK
<1> HIDE DEF reserved
<1>8. Settled(reserved) /\ MayEnter(reserved, "RECOURSE_RESERVED")
  BY <1>5, <1>6, EarlyStates
<1>9. reserved.state \in States /\ "RECOURSE_RESERVED" \in States /\ "" \in Infos
  BY <1>6 DEF States, Infos
<1>10. m \in Slice /\ m.state = "RECOURSE_RESERVED"
  BY <1>3, <1>4, <1>9, TransitionStep
<1>11. d \in Slice /\ d.state = "RECOURSE_RESERVED" /\ Quiet(m, d)
  <2>1. d = [m EXCEPT !.kind = kind, !.reserved_at = at,
                      !.reserved_until = until, !.max_attempts = attempts]
    OBVIOUS
  <2> HIDE DEF m, d
  <2>2. m \in Slice
    BY <1>10
  <2>3. kind \in RemedyKinds \cup {"none"} /\ at \in Int /\ until \in Int
        /\ attempts \in Nat
    BY <1>7
  <2>4. d \in Slice
    BY <2>1, <2>2, <2>3 DEF Slice
  <2>5. d.state = m.state
    BY <2>1, <2>2 DEF Slice
  <2>6. Quiet(m, d)
    BY <2>1, <2>2 DEF Slice, Quiet
  <2> QED
    BY <1>10, <2>4, <2>5, <2>6
<1>12. Good(d)
  BY <1>3, <1>5, <1>8, <1>9, <1>11, MoveStep
<1>13. Reaches(a, d, {c, reserved})
  BY <1>1 DEF reserved
<1> HIDE DEF d
<1> QED
  BY <1>1, <1>2, <1>3, <1>5, <1>12, <1>13, ReachesStep

(* The fields acceptRecoveryQualification() fills.                         *)
LEMMA QualifiedFields ==
    ASSUME NEW c \in Slice, NEW expiry \in Nat, NEW i \in Implementations
    PROVE  LET d == [c EXCEPT !.qualified_until = expiry,
                              !.qualified_implementation = i]
           IN d \in Slice /\ d.state = c.state /\ Quiet(c, d)
<1> DEFINE d == [c EXCEPT !.qualified_until = expiry,
                          !.qualified_implementation = i]
<1>1. i \in Implementations \cup {Never} /\ expiry \in Int
  OBVIOUS
<1>2. d \in Slice
  BY <1>1 DEF Slice
<1>3. d.state = c.state
  BY DEF Slice
<1>4. Quiet(c, d)
  BY DEF Slice, Quiet
<1> QED
  BY <1>2, <1>3, <1>4

(* Accepting a qualification moves no state.                               *)
LEMMA AcceptRecoveryQualificationStep ==
    ASSUME Inv, NEW a \in Action, AcceptRecoveryQualification(a)
    PROVE  Inv'
<1> DEFINE c == actions[a]
<1>1. PICK t \in 0 .. MaxTime, expiry \in DrillExpiries :
        /\ ClockReads(t)
        /\ actions' = [actions EXCEPT ![a] =
              [Note(c, "RECOVERY_PREFLIGHT_ACCEPTED", "QUALIFIED_EXACT", t)
               EXCEPT !.qualified_until = expiry,
                      !.qualified_implementation = implementation]]
        /\ UNCHANGED implementation
  BY DEF AcceptRecoveryQualification
<1> DEFINE n == Note(c, "RECOVERY_PREFLIGHT_ACCEPTED", "QUALIFIED_EXACT", t)
           d == [n EXCEPT !.qualified_until = expiry,
                          !.qualified_implementation = implementation]
<1>2. Good(c) /\ c \in Slice /\ implementation \in Implementations
  BY DEF Inv, Good, TypeOK
<1>3. t \in Nat /\ now' \in 0 .. MaxTime
  BY <1>1, ClockStep
<1>4. n \in Slice /\ n.state = c.state /\ Quiet(c, n)
  <2>1. "RECOVERY_PREFLIGHT_ACCEPTED" \in EventTypes
        /\ "QUALIFIED_EXACT" \in Infos
    BY DEF EventTypes, Infos
  <2> QED
    BY <1>2, <1>3, <2>1, NoteStep
<1>5. expiry \in Nat
  BY InputAssumption
<1> HIDE DEF n
<1>6. d \in Slice /\ d.state = n.state /\ Quiet(n, d)
  BY <1>2, <1>4, <1>5, QualifiedFields
<1> HIDE DEF d
<1>7. Quiet(c, d)
  BY <1>4, <1>6 DEF Quiet
<1>8. Good(d)
  BY <1>2, <1>4, <1>6, <1>7, QuietIsGood
<1> QED
  BY <1>1, <1>3, <1>8, SliceStep DEF d, n

(* The field issuePermit() fills.                                          *)
LEMMA PermitFields ==
    ASSUME NEW c \in Slice, NEW t \in Nat
    PROVE  LET d == [c EXCEPT !.permit_issued_at = t]
           IN d \in Slice /\ d.state = c.state /\ Quiet(c, d)
<1>1. t \in Int
  OBVIOUS
<1> QED
  BY <1>1 DEF Slice, Quiet

(* Issuing the permit, or withdrawing.                                     *)
LEMMA IssuePermitStep ==
    ASSUME Inv, NEW a \in Action, IssuePermit(a)
    PROVE  Inv'
<1> DEFINE c == actions[a]
<1>1. PICK t \in 0 .. MaxTime :
        /\ ClockReads(t)
        /\ c.state = "RECOURSE_RESERVED"
        /\ \/ Withdraw(a, c, "EXPIRED", t)
           \/ Withdraw(a, c, "REVOKED", t)
           \/ actions' = [actions EXCEPT ![a] =
                             [Transition(c, "PERMITTED", "", t)
                              EXCEPT !.permit_issued_at = t]]
        /\ UNCHANGED implementation
  BY DEF IssuePermit
<1> DEFINE m == Transition(c, "PERMITTED", "", t)
           d == [m EXCEPT !.permit_issued_at = t]
<1>2. Good(c) /\ c \in Slice
  BY DEF Inv, Good
<1>3. t \in Nat /\ now' \in 0 .. MaxTime
  BY <1>1, ClockStep
<1>4. c.state \in {"PROPOSED", "AUTHORIZED", "RECOURSE_RESERVED", "PERMITTED"}
  BY <1>1
<1>5. Settled(c) /\ \A next : MayEnter(c, next)
  BY <1>2, <1>4, EarlyStates
<1>6. c.state \in States /\ "" \in Infos /\ "EXPIRED" \in States
      /\ "REVOKED" \in States /\ "PERMITTED" \in States
  BY <1>4 DEF States, Infos
<1>7. CASE Withdraw(a, c, "EXPIRED", t)
  BY <1>1, <1>2, <1>3, <1>5, <1>6, <1>7, WithdrawStep
<1>8. CASE Withdraw(a, c, "REVOKED", t)
  BY <1>1, <1>2, <1>3, <1>5, <1>6, <1>8, WithdrawStep
<1>9. CASE actions' = [actions EXCEPT ![a] = d]
  <2>1. m \in Slice /\ m.state = "PERMITTED"
    BY <1>2, <1>3, <1>6, TransitionStep, ZenonT(30)
  <2>2. d \in Slice /\ d.state = "PERMITTED" /\ Quiet(m, d)
    <3> HIDE DEF m
    <3> QED BY <2>1, <1>3, PermitFields
  <2>3. Good(d)
    BY <1>2, <1>3, <1>5, <1>6, <2>2, MoveStep
  <2> HIDE DEF d
  <2> QED
    BY <1>1, <1>3, <1>9, <2>3, SliceStep
<1> QED
  BY <1>1, <1>7, <1>8, <1>9

(* The counts execute() and remediate() keep.                              *)
LEMMA ExecuteCounts ==
    ASSUME NEW c \in Slice,
           NEW d, d = [c EXCEPT !.permit_uses = @ + 1, !.execute_calls = @ + 1]
    PROVE  /\ d \in Slice
           /\ d.state = c.state
           /\ d.awaiting = c.awaiting
           /\ d.permit_uses = c.permit_uses + 1
           /\ d.execute_calls = c.execute_calls + 1
           /\ d.remedy_attempts = c.remedy_attempts
           /\ d.remedy_calls = c.remedy_calls
<1>1. c.permit_uses + 1 \in Nat /\ c.execute_calls + 1 \in Nat
  BY DEF Slice
<1>2. d = [c EXCEPT !.permit_uses = c.permit_uses + 1,
                    !.execute_calls = c.execute_calls + 1]
  BY DEF Slice
<1>3. d \in Slice
  BY <1>1, <1>2 DEF Slice
<1>4. /\ d.state = c.state
      /\ d.awaiting = c.awaiting
      /\ d.permit_uses = c.permit_uses + 1
      /\ d.execute_calls = c.execute_calls + 1
      /\ d.remedy_attempts = c.remedy_attempts
      /\ d.remedy_calls = c.remedy_calls
  BY <1>2 DEF Slice
<1> QED
  BY <1>3, <1>4

(* Consuming the permit, or withdrawing.                                   *)
LEMMA ExecuteStep ==
    ASSUME Inv, NEW a \in Action, Execute(a)
    PROVE  Inv'
<1> DEFINE c == actions[a]
<1>1. PICK t \in 0 .. MaxTime :
        /\ ClockReads(t)
        /\ c.permit_uses = 0
        /\ c.state = "PERMITTED"
        /\ \/ Withdraw(a, c, "EXPIRED", t)
           \/ Withdraw(a, c, "REVOKED", t)
           \/ actions' = [actions EXCEPT ![a] =
                 [Begin(Transition(c, "EXECUTING", "", t), "execute")
                  EXCEPT !.permit_uses = @ + 1, !.execute_calls = @ + 1]]
        /\ UNCHANGED implementation
  BY DEF Execute
<1> DEFINE m == Transition(c, "EXECUTING", "", t)
           b == Begin(m, "execute")
           d == [b EXCEPT !.permit_uses = @ + 1, !.execute_calls = @ + 1]
<1>2. Good(c) /\ c \in Slice
  BY DEF Inv, Good
<1>3. t \in Nat /\ now' \in 0 .. MaxTime
  BY <1>1, ClockStep
<1>4. c.state \in {"PROPOSED", "AUTHORIZED", "RECOURSE_RESERVED", "PERMITTED"}
  BY <1>1
<1>5. Settled(c) /\ \A next : MayEnter(c, next)
  BY <1>2, <1>4, EarlyStates
<1>6. c.state \in States /\ "" \in Infos /\ "EXPIRED" \in States
      /\ "REVOKED" \in States /\ "EXECUTING" \in States
  BY <1>4 DEF States, Infos
<1>7. CASE Withdraw(a, c, "EXPIRED", t)
  BY <1>1, <1>2, <1>3, <1>5, <1>6, <1>7, WithdrawStep
<1>8. CASE Withdraw(a, c, "REVOKED", t)
  BY <1>1, <1>2, <1>3, <1>5, <1>6, <1>8, WithdrawStep
<1>9. CASE actions' = [actions EXCEPT ![a] = d]
  <2>1. Good(m) /\ m.state = "EXECUTING" /\ Settled(m) /\ Quiet(c, m)
    <3>1. MayEnter(c, "EXECUTING")
      BY <1>5
    <3> HIDE DEF c
    <3> QED
      BY <1>2, <1>3, <1>5, <1>6, <3>1, MoveIsGood
  <2> HIDE DEF m
  <2>2. m \in Slice /\ "execute" \in Operations
    BY <2>1 DEF Good, Operations
  <2>3. /\ b \in Slice
        /\ b.state = "EXECUTING"
        /\ b.awaiting = [m.awaiting EXCEPT !["execute"] = m.awaiting["execute"] + 1]
        /\ b.permit_uses = m.permit_uses
        /\ b.execute_calls = m.execute_calls
        /\ b.remedy_attempts = m.remedy_attempts
        /\ b.remedy_calls = m.remedy_calls
    BY <2>1, <2>2, BeginStep
  <2> HIDE DEF b
  <2>4. /\ d \in Slice
        /\ d.state = b.state
        /\ d.awaiting = b.awaiting
        /\ d.permit_uses = b.permit_uses + 1
        /\ d.execute_calls = b.execute_calls + 1
        /\ d.remedy_attempts = b.remedy_attempts
        /\ d.remedy_calls = b.remedy_calls
    BY <2>3, ExecuteCounts
  <2> HIDE DEF d
  <2>5. Counted(d)
    BY <1>1, <1>2, <2>1, <2>3, <2>4 DEF Good, Counted, Quiet
  <2>6. Resumable(d)
    <3>1. m.awaiting \in [Operations -> Nat]
      BY <2>2 DEF Slice
    <3>2. /\ d.awaiting["execute"] = 1
          /\ d.awaiting["observe"] = m.awaiting["observe"]
          /\ d.awaiting["remediate"] = m.awaiting["remediate"]
          /\ d.awaiting["reconcile"] = m.awaiting["reconcile"]
          /\ d.awaiting["reconcileRemedy"] = m.awaiting["reconcileRemedy"]
      BY <2>1, <2>3, <2>4, <3>1 DEF Operations, Settled
    <3>3. d.state = "EXECUTING"
      BY <2>3, <2>4
    <3> QED
      BY <2>1, <3>2, <3>3 DEF Good, Resumable, Settled
  <2>7. Good(d)
    BY <2>4, <2>5, <2>6 DEF Good
  <2> QED
    BY <1>1, <1>3, <1>9, <2>7, SliceStep
<1> QED
  BY <1>1, <1>7, <1>8, <1>9

(* The transition table never leads back before the remedy, nor out of the *)
(* states a pending status read may find.                                  *)
LEMMA LegalMoves ==
    ASSUME NEW s, NEW next, <<s, next>> \in ALLOWED_TRANSITIONS
    PROVE  /\ s \in States /\ next \in States
           /\ next \in BeforeRemedy => s \in BeforeRemedy
           /\ s \in AfterUnknown => next \in AfterUnknown
           /\ s \in AfterRemedyUnknown => next \in AfterRemedyUnknown
  BY DEF ALLOWED_TRANSITIONS, States, BeforeRemedy, AfterUnknown, AfterRemedyUnknown

(* A good slice may enter every state the table allows.                    *)
LEMMA LegalMove ==
    ASSUME NEW c, Good(c), NEW next, <<c.state, next>> \in ALLOWED_TRANSITIONS
    PROVE  c.state \in States /\ next \in States /\ MayEnter(c, next)
<1>1. /\ c.state \in States /\ next \in States
      /\ next \in BeforeRemedy => c.state \in BeforeRemedy
      /\ c.state \in AfterUnknown => next \in AfterUnknown
      /\ c.state \in AfterRemedyUnknown => next \in AfterRemedyUnknown
  BY LegalMoves
<1> QED
  BY <1>1 DEF Good, Counted, Resumable, MayEnter

(* An answer leaves a good slice, and settles the state that waited for it. *)
LEMMA AnswerIsGood ==
    ASSUME NEW c, Good(c), NEW op \in Operations, c.awaiting[op] > 0
    PROVE  /\ Good(Finish(c, op))
           /\ Finish(c, op).state = c.state
           /\ op \in {"execute", "observe", "remediate"} => Settled(Finish(c, op))
           /\ op = "execute" => c.state = "EXECUTING"
           /\ op = "observe" => c.state = "VERIFYING"
           /\ op = "remediate" => c.state = "REMEDIATING"
           /\ op = "reconcile" => c.state \in AfterUnknown
           /\ op = "reconcileRemedy" => c.state \in AfterRemedyUnknown
<1> DEFINE f == Finish(c, op)
<1>1. c \in Slice /\ c.awaiting \in [Operations -> Nat]
  BY DEF Good, Slice
<1>2. /\ f \in Slice
      /\ f.state = c.state
      /\ f.awaiting = [c.awaiting EXCEPT ![op] = c.awaiting[op] - 1]
      /\ f.permit_uses = c.permit_uses
      /\ f.execute_calls = c.execute_calls
      /\ f.remedy_attempts = c.remedy_attempts
      /\ f.remedy_calls = c.remedy_calls
  BY <1>1, FinishStep
<1> HIDE DEF f
<1>3. \A o \in Operations : /\ f.awaiting[o] \in Nat
                            /\ f.awaiting[o] <= c.awaiting[o]
  BY <1>1, <1>2
<1>4. Counted(f)
  BY <1>2 DEF Good, Counted
<1>5. Resumable(f)
  BY <1>1, <1>2, <1>3 DEF Good, Resumable, Operations
<1>6. Good(f)
  BY <1>2, <1>4, <1>5 DEF Good
<1>7. /\ op = "execute" => c.state = "EXECUTING"
      /\ op = "observe" => c.state = "VERIFYING"
      /\ op = "remediate" => c.state = "REMEDIATING"
      /\ op = "reconcile" => c.state \in AfterUnknown
      /\ op = "reconcileRemedy" => c.state \in AfterRemedyUnknown
  BY DEF Good, Resumable
<1>8. ASSUME op \in {"execute", "observe", "remediate"}
      PROVE  Settled(f)
  <2>1. c.awaiting[op] = 1
    BY <1>1, <1>8 DEF Good, Resumable
  <2>2. f.awaiting[op] = 0
    BY <1>1, <1>2, <2>1
  <2>3. \A o \in {"execute", "observe", "remediate"} :
           o # op => c.awaiting[o] = 0
    BY <1>1, <1>7, <1>8 DEF Good, Resumable, Operations
  <2>4. \A o \in {"execute", "observe", "remediate"} : f.awaiting[o] = 0
    BY <1>1, <1>2, <2>2, <2>3 DEF Operations
  <2> QED
    BY <2>4 DEF Settled
<1> QED
  BY <1>2, <1>6, <1>7, <1>8 DEF f

(* Resuming execute().                                                     *)
LEMMA ExecuteAnsweredStep ==
    ASSUME Inv, NEW a \in Action, ExecuteAnswered(a)
    PROVE  Inv'
<1> DEFINE c == Finish(actions[a], "execute")
<1>1. PICK t \in 0 .. MaxTime :
        /\ ClockReads(t)
        /\ actions[a].awaiting["execute"] > 0
        /\ \/ Reaches(a, [Transition(c, "EXECUTED", "", t)
                          EXCEPT !.execution = "executed"],
                      {[Transition(c, "UNKNOWN", "", t)
                        EXCEPT !.execution = "unknown"], c})
           \/ Reaches(a, [Transition(c, "UNKNOWN", "", t)
                          EXCEPT !.execution = "unknown"], {c})
           \/ Withdraw(a, c, "FAILED", t)
        /\ UNCHANGED implementation
  BY DEF ExecuteAnswered
<1> DEFINE m == Transition(c, "EXECUTED", "", t)
           executed == [m EXCEPT !.execution = "executed"]
           n == Transition(c, "UNKNOWN", "", t)
           ambiguous == [n EXCEPT !.execution = "unknown"]
<1>2. t \in Nat /\ now' \in 0 .. MaxTime
  BY <1>1, ClockStep
<1>3. "execute" \in Operations /\ "" \in Infos
  BY DEF Operations, Infos
<1>4. Good(c) /\ Settled(c) /\ c.state = "EXECUTING"
  BY <1>1, <1>3, AnswerIsGood DEF Inv
<1> HIDE DEF c
<1>5. /\ <<c.state, "EXECUTED">> \in ALLOWED_TRANSITIONS
      /\ <<c.state, "UNKNOWN">> \in ALLOWED_TRANSITIONS
      /\ <<c.state, "FAILED">> \in ALLOWED_TRANSITIONS
  BY <1>4 DEF ALLOWED_TRANSITIONS
<1>6. /\ c.state \in States
      /\ "EXECUTED" \in States /\ MayEnter(c, "EXECUTED")
      /\ "UNKNOWN" \in States /\ MayEnter(c, "UNKNOWN")
      /\ "FAILED" \in States /\ MayEnter(c, "FAILED")
  BY <1>4, <1>5, LegalMove
<1>7. Good(m) /\ Good(n)
  BY <1>2, <1>3, <1>4, <1>6, MoveIsGood
<1> HIDE DEF m, n
<1>8. "executed" \in Results /\ "unknown" \in Results
  BY DEF Results
<1>9. Good(executed) /\ Good(ambiguous)
  BY <1>7, <1>8, ResultStep, QuietIsGood DEF Good
<1>10. CASE Reaches(a, executed, {ambiguous, c})
  <2> HIDE DEF executed, ambiguous
  <2> QED
    BY <1>1, <1>2, <1>4, <1>9, <1>10, ReachesStep
<1>11. CASE Reaches(a, ambiguous, {c})
  <2> HIDE DEF executed, ambiguous
  <2> QED
    BY <1>1, <1>2, <1>4, <1>9, <1>11, ReachesStep
<1>12. CASE Withdraw(a, c, "FAILED", t)
  BY <1>1, <1>2, <1>4, <1>6, <1>12, WithdrawStep
<1> QED
  BY <1>1, <1>10, <1>11, <1>12 DEF m, n

(* A call made in the state that waits for its answer.                     *)
LEMMA CallIsGood ==
    ASSUME NEW c, Good(c), NEW op \in Operations,
           op \in {"execute", "observe", "remediate"} => Settled(c),
           op = "execute" => c.state = "EXECUTING",
           op = "observe" => c.state = "VERIFYING",
           op = "remediate" => c.state = "REMEDIATING",
           op = "reconcile" => c.state \in AfterUnknown,
           op = "reconcileRemedy" => c.state \in AfterRemedyUnknown
    PROVE  Good(Begin(c, op)) /\ Begin(c, op).state = c.state
<1> DEFINE b == Begin(c, op)
<1>1. c \in Slice /\ c.awaiting \in [Operations -> Nat]
  BY DEF Good, Slice
<1>2. /\ b \in Slice
      /\ b.state = c.state
      /\ b.awaiting = [c.awaiting EXCEPT ![op] = c.awaiting[op] + 1]
      /\ b.permit_uses = c.permit_uses
      /\ b.execute_calls = c.execute_calls
      /\ b.remedy_attempts = c.remedy_attempts
      /\ b.remedy_calls = c.remedy_calls
  BY <1>1, BeginStep
<1> HIDE DEF b
<1>3. Counted(b)
  BY <1>2 DEF Good, Counted
<1>4. \A o \in Operations :
         b.awaiting[o] = IF o = op THEN c.awaiting[o] + 1 ELSE c.awaiting[o]
  BY <1>1, <1>2
<1>5. \A o \in {"execute", "observe", "remediate"} : b.awaiting[o] <= 1
  BY <1>1, <1>4 DEF Good, Resumable, Operations, Settled
<1>6. Resumable(b)
  BY <1>1, <1>2, <1>4, <1>5 DEF Good, Resumable, Operations
<1> QED
  BY <1>2, <1>3, <1>6 DEF Good, b

(* Asking for the status of an ambiguous execution.                        *)
LEMMA ReconcileStep ==
    ASSUME Inv, NEW a \in Action, Reconcile(a)
    PROVE  Inv'
<1> DEFINE c == actions[a]
<1>1. /\ c.state = "UNKNOWN"
      /\ actions' = [actions EXCEPT ![a] = Begin(c, "reconcile")]
      /\ now' = now /\ UNCHANGED implementation
  BY DEF Reconcile, Inv, TypeOK
<1>2. Good(c) /\ now' \in 0 .. MaxTime
  BY <1>1 DEF Inv, TypeOK
<1>3. "reconcile" \in Operations /\ c.state \in AfterUnknown
  BY <1>1 DEF Operations, AfterUnknown, States
<1> HIDE DEF c
<1>4. Good(Begin(c, "reconcile"))
  BY <1>2, <1>3, CallIsGood
<1> QED
  BY <1>1, <1>2, <1>4, SliceStep

(* Asking for the status of an ambiguous remedy.                           *)
LEMMA ReconcileRemedyStep ==
    ASSUME Inv, NEW a \in Action, ReconcileRemedy(a)
    PROVE  Inv'
<1> DEFINE c == actions[a]
<1>1. /\ c.state = "REMEDY_UNKNOWN"
      /\ actions' = [actions EXCEPT ![a] = Begin(c, "reconcileRemedy")]
      /\ now' = now /\ UNCHANGED implementation
  BY DEF ReconcileRemedy, Inv, TypeOK
<1>2. Good(c) /\ now' \in 0 .. MaxTime
  BY <1>1 DEF Inv, TypeOK
<1>3. "reconcileRemedy" \in Operations /\ c.state \in AfterRemedyUnknown
  BY <1>1 DEF Operations, AfterRemedyUnknown
<1> HIDE DEF c
<1>4. Good(Begin(c, "reconcileRemedy"))
  BY <1>2, <1>3, CallIsGood
<1> QED
  BY <1>1, <1>2, <1>4, SliceStep

\* A status read is answered in a state that waits for no other answer, if
\* the answer moves it at all.
Movable(c, next) == <<c.state, next>> \in ALLOWED_TRANSITIONS

(* The moves a status read makes start in settled states.                  *)
LEMMA StatusMoves ==
    ASSUME NEW c, Good(c), NEW next, Movable(c, next),
           \/ /\ c.state \in AfterUnknown
              /\ next \in {"EXECUTED", "FAILED", "REVIEW_REQUIRED"}
           \/ /\ c.state \in AfterRemedyUnknown
              /\ next \in {"REMEDY_VERIFYING", "REMEDY_FAILED", "REVIEW_REQUIRED"}
           \/ next \in {"REMEDIATED", "REMEDY_INCONCLUSIVE"}
    PROVE  Settled(c)
<1>1. c.state \notin {"EXECUTING", "VERIFYING", "REMEDIATING"}
  BY DEF Movable, ALLOWED_TRANSITIONS, AfterUnknown, AfterRemedyUnknown, States
<1> QED
  BY <1>1, SettledStates

(* Resuming reconcile().                                                   *)
LEMMA ReconcileAnsweredStep ==
    ASSUME Inv, NEW a \in Action, ReconcileAnswered(a)
    PROVE  Inv'
<1> DEFINE c == Finish(actions[a], "reconcile")
           R(t) == Transition(c, "REVIEW_REQUIRED", "", t)
           Reviewed(t) == IF Close(R(t), t).state = "CLOSED"
                          THEN [Close(R(t), t) EXCEPT !.execution = "unknown"]
                          ELSE Close(R(t), t)
<1>1. PICK t \in 0 .. MaxTime :
        /\ ClockReads(t)
        /\ actions[a].awaiting["reconcile"] > 0
        /\ \/ /\ CanMove(c, "EXECUTED")
              /\ Reaches(a, [Transition(c, "EXECUTED", "", t)
                             EXCEPT !.execution = "executed"], {c})
           \/ /\ CanMove(c, "FAILED")
              /\ Reaches(a, [Finalize(Transition(c, "FAILED", "", t), TRUE, t)
                             EXCEPT !.execution = "no_effect"],
                         {c} \cup FinalizeStops(Transition(c, "FAILED", "", t), TRUE))
           \/ /\ CanMove(c, "REVIEW_REQUIRED")
              /\ Reaches(a, Reviewed(t), {c} \cup CloseStops(R(t), t))
           \/ actions' = [actions EXCEPT ![a] = c]
        /\ UNCHANGED implementation
  BY DEF ReconcileAnswered
<1>2. t \in Nat /\ now' \in 0 .. MaxTime /\ UNCHANGED implementation
  BY <1>1, ClockStep
<1>3. "reconcile" \in Operations /\ "" \in Infos
  BY DEF Operations, Infos
<1>4. Good(c) /\ c.state \in AfterUnknown
  BY <1>1, <1>3, AnswerIsGood DEF Inv
<1> HIDE DEF c
<1>5. ASSUME NEW next \in {"EXECUTED", "FAILED", "REVIEW_REQUIRED"},
             CanMove(c, next)
      PROVE  /\ Settled(c) /\ c.state \in States /\ next \in States
             /\ MayEnter(c, next)
             /\ Good(Transition(c, next, "", t))
  <2>1. Movable(c, next)
    BY <1>5 DEF CanMove, Movable
  <2>2. Settled(c)
    BY <1>4, <2>1, StatusMoves
  <2>3. c.state \in States /\ next \in States /\ MayEnter(c, next)
    BY <1>4, <2>1, LegalMove DEF Movable
  <2> QED
    BY <1>2, <1>3, <1>4, <2>2, <2>3, MoveIsGood
<1>6. CASE /\ CanMove(c, "EXECUTED")
           /\ Reaches(a, [Transition(c, "EXECUTED", "", t)
                          EXCEPT !.execution = "executed"], {c})
  <2> DEFINE m == Transition(c, "EXECUTED", "", t)
             d == [m EXCEPT !.execution = "executed"]
  <2>1. Good(m) /\ "executed" \in Results
    BY <1>5, <1>6 DEF Results
  <2>2. Reaches(a, d, {c})
    BY <1>6
  <2> HIDE DEF m
  <2>3. Good(d)
    BY <2>1, ResultStep, QuietIsGood DEF Good
  <2> HIDE DEF d
  <2> QED
    BY <1>2, <1>4, <2>2, <2>3, ReachesStep
<1>7. CASE /\ CanMove(c, "FAILED")
           /\ Reaches(a, [Finalize(Transition(c, "FAILED", "", t), TRUE, t)
                          EXCEPT !.execution = "no_effect"],
                      {c} \cup FinalizeStops(Transition(c, "FAILED", "", t), TRUE))
  <2> DEFINE m == Transition(c, "FAILED", "", t)
             f == Finalize(m, TRUE, t)
             d == [f EXCEPT !.execution = "no_effect"]
  <2>1. Good(m) /\ "no_effect" \in Results
    BY <1>5, <1>7 DEF Results
  <2>2. Reaches(a, d, {c} \cup FinalizeStops(m, TRUE))
    BY <1>7
  <2> HIDE DEF m
  <2>3. Good(f) /\ \A e \in FinalizeStops(m, TRUE) : Good(e)
    BY <1>2, <2>1, FinalizeIsGood
  <2> HIDE DEF f
  <2>4. Good(d)
    BY <2>1, <2>3, ResultStep, QuietIsGood DEF Good
  <2> HIDE DEF d
  <2> QED
    BY <1>2, <1>4, <2>2, <2>3, <2>4, ReachesStep
<1>8. CASE /\ CanMove(c, "REVIEW_REQUIRED")
           /\ Reaches(a, Reviewed(t), {c} \cup CloseStops(R(t), t))
  <2> DEFINE m == R(t)
             closed == Close(m, t)
             d == [closed EXCEPT !.execution = "unknown"]
             done == IF closed.state = "CLOSED" THEN d ELSE closed
  <2>1. "REVIEW_REQUIRED" \in RECEIPT_STATES /\ "REVIEW_REQUIRED" \in States
        /\ "unknown" \in Results
    BY DEF RECEIPT_STATES, DisputedStates, States, Results
  <2>2. Settled(c) /\ c.state \in States /\ MayEnter(c, "REVIEW_REQUIRED")
    BY <1>5, <1>8
  <2>3. Good(m) /\ m.state = "REVIEW_REQUIRED"
    BY <1>2, <1>3, <1>4, <2>1, <2>2, MoveIsGood
  <2>4. Reaches(a, done, {c} \cup CloseStops(m, t))
    BY <1>8
  <2> HIDE DEF m
  <2>5. Good(closed) /\ \A e \in CloseStops(m, t) : Good(e)
    BY <1>2, <2>1, <2>3, CloseIsGood
  <2> HIDE DEF closed
  <2>6. Good(d)
    BY <2>1, <2>5, ResultStep, QuietIsGood DEF Good
  <2> HIDE DEF d
  <2>7. Good(done)
    BY <2>5, <2>6
  <2> HIDE DEF done
  <2> QED
    BY <1>2, <1>4, <2>4, <2>5, <2>7, ReachesStep
<1>9. CASE actions' = [actions EXCEPT ![a] = c]
  BY <1>2, <1>4, <1>9, SliceStep
<1> QED
  BY <1>1, <1>6, <1>7, <1>8, <1>9

(* Starting outcome verification.                                          *)
LEMMA VerifyOutcomeStep ==
    ASSUME Inv, NEW a \in Action, VerifyOutcome(a)
    PROVE  Inv'
<1> DEFINE c == actions[a]
<1>1. PICK t \in 0 .. MaxTime :
        /\ ClockReads(t)
        /\ c.state = "EXECUTED"
        /\ actions' = [actions EXCEPT ![a] =
              Begin(Transition(c, "VERIFYING", "", t), "observe")]
        /\ UNCHANGED implementation
  BY DEF VerifyOutcome, Inv, TypeOK
<1> DEFINE m == Transition(c, "VERIFYING", "", t)
<1>2. t \in Nat /\ now' \in 0 .. MaxTime /\ UNCHANGED implementation
  BY <1>1, ClockStep
<1>3. "observe" \in Operations /\ "" \in Infos
  BY DEF Operations, Infos
<1>4. Good(c) /\ c.state = "EXECUTED" /\ actions' = [actions EXCEPT ![a] = Begin(m, "observe")]
  BY <1>1 DEF Inv
<1> HIDE DEF c
<1>5. Settled(c)
  BY <1>4, SettledStates
<1>6. <<c.state, "VERIFYING">> \in ALLOWED_TRANSITIONS
  BY <1>4 DEF ALLOWED_TRANSITIONS
<1>7. c.state \in States /\ "VERIFYING" \in States /\ MayEnter(c, "VERIFYING")
  BY <1>4, <1>6, LegalMove
<1>8. Good(m) /\ m.state = "VERIFYING" /\ Settled(m)
  BY <1>2, <1>3, <1>4, <1>5, <1>7, MoveIsGood
<1> HIDE DEF m
<1>9. Good(Begin(m, "observe"))
  BY <1>3, <1>8, CallIsGood
<1> QED
  BY <1>2, <1>4, <1>9, SliceStep

(* Resuming verifyOutcome().                                               *)
LEMMA OutcomeObservedStep ==
    ASSUME Inv, NEW a \in Action, OutcomeObserved(a)
    PROVE  Inv'
<1> DEFINE c == Finish(actions[a], "observe")
           E(s, o, w, t) == Accept(c, "EVIDENCE_ACCEPTED", "initial", s, o, w, t)
<1>1. PICK t \in 0 .. MaxTime :
        /\ ClockReads(t)
        /\ actions[a].awaiting["observe"] > 0
        /\ \/ RejectEvidence(a, c, "EVIDENCE_REJECTED", "INCONCLUSIVE", t)
           \/ \E o \in Fresh, w \in Ownership :
                 Reaches(a, Close(Transition(E(TRUE, o, w, t), "SATISFIED", "", t), t),
                         {c, E(TRUE, o, w, t)} \cup
                         CloseStops(Transition(E(TRUE, o, w, t), "SATISFIED", "", t), t))
           \/ \E o \in Fresh, w \in Ownership :
                 Reaches(a, Transition(Transition(E(FALSE, o, w, t), "BREACHED", "", t),
                                       "REMEDY_DUE", "", t),
                         {c, E(FALSE, o, w, t),
                          Transition(E(FALSE, o, w, t), "BREACHED", "", t)})
        /\ UNCHANGED implementation
  BY DEF OutcomeObserved
<1>2. t \in Nat /\ now' \in 0 .. MaxTime /\ UNCHANGED implementation
  BY <1>1, ClockStep
<1>3. "observe" \in Operations /\ "" \in Infos
  BY DEF Operations, Infos
<1>4. Good(c) /\ Settled(c) /\ c.state = "VERIFYING"
  BY <1>1, <1>3, AnswerIsGood DEF Inv
<1> HIDE DEF c
<1>5. /\ <<c.state, "INCONCLUSIVE">> \in ALLOWED_TRANSITIONS
      /\ <<c.state, "SATISFIED">> \in ALLOWED_TRANSITIONS
      /\ <<c.state, "BREACHED">> \in ALLOWED_TRANSITIONS
  BY <1>4 DEF ALLOWED_TRANSITIONS
<1>6. /\ c.state \in States
      /\ "INCONCLUSIVE" \in States /\ MayEnter(c, "INCONCLUSIVE")
      /\ "SATISFIED" \in States /\ MayEnter(c, "SATISFIED")
      /\ "BREACHED" \in States /\ MayEnter(c, "BREACHED")
  BY <1>4, <1>5, LegalMove
<1>7. /\ "EVIDENCE_REJECTED" \in EventTypes /\ "EVIDENCE_ACCEPTED" \in EventTypes
      /\ "INCONCLUSIVE" \in RECEIPT_STATES /\ "SATISFIED" \in RECEIPT_STATES
  BY DEF EventTypes, RECEIPT_STATES, DisputedStates
<1>8. (\A o \in Fresh : o \in Nat) /\ Ownership \subseteq BOOLEAN
  BY ObservationType DEF Inv, TypeOK
<1>9. CASE RejectEvidence(a, c, "EVIDENCE_REJECTED", "INCONCLUSIVE", t)
  BY <1>2, <1>4, <1>6, <1>7, <1>9, RejectEvidenceStep
<1>10. ASSUME NEW o \in Fresh, NEW w \in Ownership,
              Reaches(a, Close(Transition(E(TRUE, o, w, t), "SATISFIED", "", t), t),
                      {c, E(TRUE, o, w, t)} \cup
                      CloseStops(Transition(E(TRUE, o, w, t), "SATISFIED", "", t), t))
       PROVE  Inv'
  <2> DEFINE e == E(TRUE, o, w, t)
             m == Transition(e, "SATISFIED", "", t)
  <2>1. e = Accept(c, "EVIDENCE_ACCEPTED", "initial", TRUE, o, w, t)
    OBVIOUS
  <2>2. Reaches(a, Close(m, t), {c, e} \cup CloseStops(m, t))
    BY <1>10
  <2> HIDE DEF e
  <2>3. Good(e) /\ e.state = c.state /\ Quiet(c, e)
    <3>1. Good(c) /\ "EVIDENCE_ACCEPTED" \in EventTypes /\ o \in Nat /\ w \in BOOLEAN /\ t \in Nat
      BY <1>2, <1>4, <1>7, <1>8
    <3>2. Good(e)
      BY <2>1, <3>1, AcceptIsGood, Zenon
    <3>3. Still(c, e)
      BY <2>1, <3>1, AcceptIsGood, Zenon
    <3> QED
      BY <3>2, <3>3 DEF Still
  <2>4. Settled(e)
    BY <1>4, <2>3 DEF Settled, Quiet
  <2>5. <<e.state, "SATISFIED">> \in ALLOWED_TRANSITIONS
    BY <1>5, <2>3
  <2>6. e.state \in States /\ "SATISFIED" \in States /\ MayEnter(e, "SATISFIED")
    BY <2>3, <2>5, LegalMove
  <2>7. Good(m) /\ m.state = "SATISFIED" /\ Settled(m)
    BY <1>2, <1>3, <2>3, <2>4, <2>6, MoveIsGood
  <2> HIDE DEF m
  <2>8. Good(Close(m, t)) /\ \A d \in CloseStops(m, t) : Good(d)
    BY <1>2, <1>7, <2>7, CloseIsGood
  <2> QED
    BY <1>2, <1>4, <2>2, <2>3, <2>8, ReachesStep
<1>11. ASSUME NEW o \in Fresh, NEW w \in Ownership,
              Reaches(a, Transition(Transition(E(FALSE, o, w, t), "BREACHED", "", t),
                                    "REMEDY_DUE", "", t),
                      {c, E(FALSE, o, w, t),
                       Transition(E(FALSE, o, w, t), "BREACHED", "", t)})
       PROVE  Inv'
  <2> DEFINE e == E(FALSE, o, w, t)
             m == Transition(e, "BREACHED", "", t)
             d == Transition(m, "REMEDY_DUE", "", t)
  <2>1. e = Accept(c, "EVIDENCE_ACCEPTED", "initial", FALSE, o, w, t)
    OBVIOUS
  <2>2. Reaches(a, d, {c, e, m})
    BY <1>11
  <2> HIDE DEF e
  <2>3. Good(e) /\ e.state = c.state /\ Quiet(c, e)
    <3>1. Good(c) /\ "EVIDENCE_ACCEPTED" \in EventTypes /\ o \in Nat /\ w \in BOOLEAN /\ t \in Nat
      BY <1>2, <1>4, <1>7, <1>8
    <3>2. Good(e)
      BY <2>1, <3>1, AcceptIsGood, Zenon
    <3>3. Still(c, e)
      BY <2>1, <3>1, AcceptIsGood, Zenon
    <3> QED
      BY <3>2, <3>3 DEF Still
  <2>4. Settled(e)
    BY <1>4, <2>3 DEF Settled, Quiet
  <2>5. <<e.state, "BREACHED">> \in ALLOWED_TRANSITIONS
    BY <1>5, <2>3
  <2>6. e.state \in States /\ "BREACHED" \in States /\ MayEnter(e, "BREACHED")
    BY <2>3, <2>5, LegalMove
  <2>7. Good(m) /\ m.state = "BREACHED" /\ Settled(m)
    BY <1>2, <1>3, <2>3, <2>4, <2>6, MoveIsGood
  <2> HIDE DEF m
  <2>8. <<m.state, "REMEDY_DUE">> \in ALLOWED_TRANSITIONS
    BY <2>7 DEF ALLOWED_TRANSITIONS
  <2>9. m.state \in States /\ "REMEDY_DUE" \in States /\ MayEnter(m, "REMEDY_DUE")
    BY <2>7, <2>8, LegalMove
  <2>10. Good(d)
    BY <1>2, <1>3, <2>7, <2>9, MoveIsGood
  <2> HIDE DEF d
  <2> QED
    BY <1>2, <1>4, <2>2, <2>3, <2>7, <2>10, ReachesStep
<1> HIDE DEF E
<1> QED
  BY <1>1, <1>9, <1>10, <1>11

(* The counts remediate() keeps.                                           *)
LEMMA RemediateCounts ==
    ASSUME NEW c \in Slice, NEW left \in Spent,
           NEW d, d = [c EXCEPT !.remedy_attempts = @ + 1, !.remedy_calls = @ + 1,
                                !.recourse = left]
    PROVE  /\ d \in Slice
           /\ d.state = c.state
           /\ d.awaiting = c.awaiting
           /\ d.permit_uses = c.permit_uses
           /\ d.execute_calls = c.execute_calls
           /\ d.remedy_attempts = c.remedy_attempts + 1
           /\ d.remedy_calls = c.remedy_calls + 1
<1>1. /\ c.remedy_attempts + 1 \in Nat /\ c.remedy_calls + 1 \in Nat
      /\ left \in RecourseStatuses \cup {"none"}
  BY DEF Slice, Spent, RecourseStatuses, RECEIPT_RECOURSE_STATUSES
<1>2. d = [c EXCEPT !.remedy_attempts = c.remedy_attempts + 1,
                    !.remedy_calls = c.remedy_calls + 1,
                    !.recourse = left]
  BY DEF Slice
<1>3. d \in Slice
  BY <1>1, <1>2 DEF Slice
<1>4. /\ d.state = c.state
      /\ d.awaiting = c.awaiting
      /\ d.permit_uses = c.permit_uses
      /\ d.execute_calls = c.execute_calls
      /\ d.remedy_attempts = c.remedy_attempts + 1
      /\ d.remedy_calls = c.remedy_calls + 1
  BY <1>2 DEF Slice
<1> QED
  BY <1>3, <1>4

(* Starting the remedy, or sending the breach to review.                   *)
LEMMA RemediateStep ==
    ASSUME Inv, NEW a \in Action, Remediate(a)
    PROVE  Inv'
<1> DEFINE c == actions[a]
<1>1. PICK t \in 0 .. MaxTime :
        /\ ClockReads(t)
        /\ c.state = "REMEDY_DUE"
        /\ \/ Conclude(a, c, "REVIEW_REQUIRED", t)
           \/ \E left \in Spent : actions' = [actions EXCEPT ![a] =
                 [Begin(Transition(c, "REMEDIATING", "", t), "remediate")
                  EXCEPT !.remedy_attempts = @ + 1, !.remedy_calls = @ + 1,
                         !.recourse = left]]
        /\ UNCHANGED implementation
  BY DEF Remediate, AwaitsRemedy
<1> DEFINE m == Transition(c, "REMEDIATING", "", t)
           b == Begin(m, "remediate")
           D(left) == [b EXCEPT !.remedy_attempts = @ + 1,
                                !.remedy_calls = @ + 1, !.recourse = left]
<1>2. t \in Nat /\ now' \in 0 .. MaxTime /\ UNCHANGED implementation
  BY <1>1, ClockStep
<1>3. Good(c) /\ c.state = "REMEDY_DUE"
  BY <1>1 DEF Inv
<1>4. \/ Conclude(a, c, "REVIEW_REQUIRED", t)
      \/ \E left \in Spent : actions' = [actions EXCEPT ![a] = D(left)]
  BY <1>1
<1> HIDE DEF c
<1>5. Settled(c)
  BY <1>3, SettledStates
<1>6. <<c.state, "REVIEW_REQUIRED">> \in ALLOWED_TRANSITIONS
      /\ <<c.state, "REMEDIATING">> \in ALLOWED_TRANSITIONS
  BY <1>3 DEF ALLOWED_TRANSITIONS
<1>7. c.state \in States
      /\ "REVIEW_REQUIRED" \in States /\ MayEnter(c, "REVIEW_REQUIRED")
      /\ "REMEDIATING" \in States /\ MayEnter(c, "REMEDIATING")
  BY <1>3, <1>6, LegalMove
<1>8. "REVIEW_REQUIRED" \in RECEIPT_STATES /\ "" \in Infos
      /\ "remediate" \in Operations
  BY DEF RECEIPT_STATES, DisputedStates, Infos, Operations
<1>9. CASE Conclude(a, c, "REVIEW_REQUIRED", t)
  BY <1>2, <1>3, <1>5, <1>7, <1>8, <1>9, ConcludeStep
<1>10. ASSUME NEW left \in Spent, actions' = [actions EXCEPT ![a] = D(left)]
       PROVE  Inv'
  <2> DEFINE d == D(left)
  <2>0. actions' = [actions EXCEPT ![a] = d]
    BY <1>10
  <2>1. Good(m) /\ m.state = "REMEDIATING" /\ Settled(m) /\ Quiet(c, m)
    BY <1>2, <1>3, <1>5, <1>7, <1>8, MoveIsGood
  <2> HIDE DEF m
  <2>2. m \in Slice
    BY <2>1 DEF Good
  <2>3. /\ b \in Slice
        /\ b.state = "REMEDIATING"
        /\ b.awaiting = [m.awaiting EXCEPT !["remediate"] = m.awaiting["remediate"] + 1]
        /\ b.permit_uses = m.permit_uses
        /\ b.execute_calls = m.execute_calls
        /\ b.remedy_attempts = m.remedy_attempts
        /\ b.remedy_calls = m.remedy_calls
    BY <1>8, <2>1, <2>2, BeginStep
  <2> HIDE DEF b
  <2>4. /\ d \in Slice
        /\ d.state = b.state
        /\ d.awaiting = b.awaiting
        /\ d.permit_uses = b.permit_uses
        /\ d.execute_calls = b.execute_calls
        /\ d.remedy_attempts = b.remedy_attempts + 1
        /\ d.remedy_calls = b.remedy_calls + 1
    BY <2>3, RemediateCounts
  <2> HIDE DEF d
  <2>5. d.state = "REMEDIATING" /\ d.state \notin BeforeRemedy
    BY <2>3, <2>4 DEF BeforeRemedy
  <2>6. c.remedy_attempts = 0
    BY <1>3 DEF Good, Counted, BeforeRemedy
  <2>7. Counted(d)
    BY <1>3, <2>1, <2>3, <2>4, <2>5, <2>6 DEF Good, Counted, Quiet
  <2>8. Resumable(d)
    <3>1. m.awaiting \in [Operations -> Nat]
      BY <2>2 DEF Slice
    <3>2. /\ d.awaiting["remediate"] = 1
          /\ d.awaiting["observe"] = m.awaiting["observe"]
          /\ d.awaiting["execute"] = m.awaiting["execute"]
          /\ d.awaiting["reconcile"] = m.awaiting["reconcile"]
          /\ d.awaiting["reconcileRemedy"] = m.awaiting["reconcileRemedy"]
      BY <2>1, <2>3, <2>4, <3>1 DEF Operations, Settled
    <3> QED
      BY <2>1, <2>5, <3>2 DEF Good, Resumable, Settled
  <2>9. Good(d)
    BY <2>4, <2>7, <2>8 DEF Good
  <2> QED
    BY <1>2, <2>0, <2>9, SliceStep
<1> HIDE DEF D
<1> QED
  BY <1>4, <1>9, <1>10

(* Resuming remediate().                                                   *)
LEMMA RemediateAnsweredStep ==
    ASSUME Inv, NEW a \in Action, RemediateAnswered(a)
    PROVE  Inv'
<1> DEFINE c == Finish(actions[a], "remediate")
           p == Answered(c, "remediated")
           remediated == [p EXCEPT !.remedy_result = "remediated"]
           q == Answered(c, "failed")
           failed == [q EXCEPT !.remedy_result = "failed"]
<1>1. PICK t \in 0 .. MaxTime :
        /\ ClockReads(t)
        /\ actions[a].awaiting["remediate"] > 0
        /\ \/ Reaches(a, Begin(Transition(remediated, "REMEDY_VERIFYING", "", t),
                               "observeRemedy"),
                      {remediated})
           \/ Conclude(a, failed, "REMEDY_FAILED", t)
           \/ Conclude(a, c, "REMEDY_FAILED", t)
           \/ Reaches(a, [Transition(c, "REMEDY_UNKNOWN", "", t)
                          EXCEPT !.remedy_result = "unknown"], {c})
        /\ UNCHANGED implementation
  BY DEF RemediateAnswered
<1> DEFINE m == Transition(remediated, "REMEDY_VERIFYING", "", t)
           n == Transition(c, "REMEDY_UNKNOWN", "", t)
           unknown == [n EXCEPT !.remedy_result = "unknown"]
<1>2. t \in Nat /\ now' \in 0 .. MaxTime /\ UNCHANGED implementation
  BY <1>1, ClockStep
<1>3. "remediate" \in Operations /\ "observeRemedy" \in Operations /\ "" \in Infos
      /\ "remediated" \in Results /\ "failed" \in Results /\ "unknown" \in Results
      /\ "REMEDY_FAILED" \in RECEIPT_STATES
  BY DEF Operations, Infos, Results, RECEIPT_STATES, DisputedStates
<1>4. Good(c) /\ Settled(c) /\ c.state = "REMEDIATING"
  BY <1>1, <1>3, AnswerIsGood DEF Inv
<1>5. \/ Reaches(a, Begin(m, "observeRemedy"), {remediated})
      \/ Conclude(a, failed, "REMEDY_FAILED", t)
      \/ Conclude(a, c, "REMEDY_FAILED", t)
      \/ Reaches(a, unknown, {c})
  BY <1>1
<1> HIDE DEF c
<1>6. \A answer \in {"remediated", "failed"} :
         Good(Answered(c, answer)) /\ Still(c, Answered(c, answer))
  BY <1>4, AnsweredStep, QuietIsGood DEF Good, Still
<1>7. Good(p) /\ Still(c, p) /\ Good(q) /\ Still(c, q)
  BY <1>6
<1> HIDE DEF p, q
<1>8. Good(remediated) /\ Still(p, remediated) /\ Good(failed) /\ Still(q, failed)
  BY <1>3, <1>7, ResultStep, QuietIsGood DEF Good, Still
<1> HIDE DEF remediated, failed
<1>9. \A d \in {c, remediated, failed} :
         Good(d) /\ Settled(d) /\ d.state = "REMEDIATING"
  BY <1>4, <1>7, <1>8 DEF Still, Quiet, Settled
<1>10. ASSUME NEW d \in {c, remediated, failed}
       PROVE  /\ d.state \in States
              /\ "REMEDY_VERIFYING" \in States /\ MayEnter(d, "REMEDY_VERIFYING")
              /\ "REMEDY_FAILED" \in States /\ MayEnter(d, "REMEDY_FAILED")
              /\ "REMEDY_UNKNOWN" \in States /\ MayEnter(d, "REMEDY_UNKNOWN")
  <2>1. Good(d) /\ d.state = "REMEDIATING"
    BY <1>9, <1>10
  <2>2. /\ <<d.state, "REMEDY_VERIFYING">> \in ALLOWED_TRANSITIONS
        /\ <<d.state, "REMEDY_FAILED">> \in ALLOWED_TRANSITIONS
        /\ <<d.state, "REMEDY_UNKNOWN">> \in ALLOWED_TRANSITIONS
    BY <2>1 DEF ALLOWED_TRANSITIONS
  <2> QED
    BY <2>1, <2>2, LegalMove
<1>11. CASE Reaches(a, Begin(m, "observeRemedy"), {remediated})
  <2>1. Good(m)
    BY <1>2, <1>3, <1>9, <1>10, MoveIsGood
  <2> HIDE DEF m
  <2>2. Good(Begin(m, "observeRemedy"))
    BY <1>3, <2>1, CallIsGood
  <2> QED
    BY <1>2, <1>8, <1>11, <2>2, ReachesStep
<1>12. CASE Conclude(a, failed, "REMEDY_FAILED", t)
  BY <1>2, <1>3, <1>9, <1>10, <1>12, ConcludeStep
<1>13. CASE Conclude(a, c, "REMEDY_FAILED", t)
  BY <1>2, <1>3, <1>9, <1>10, <1>13, ConcludeStep
<1>14. CASE Reaches(a, unknown, {c})
  <2>1. Good(n)
    BY <1>2, <1>3, <1>9, <1>10, MoveIsGood
  <2> HIDE DEF n
  <2>2. Good(unknown)
    BY <1>3, <2>1, ResultStep, QuietIsGood DEF Good
  <2> HIDE DEF unknown
  <2> QED
    BY <1>2, <1>4, <1>14, <2>2, ReachesStep
<1> QED
  BY <1>5, <1>11, <1>12, <1>13, <1>14

(* Closing on a definite or an unresolved remedy status.                   *)
LEMMA ConcludeRemedyStep ==
    ASSUME Inv, NEW a \in Action, NEW c, Good(c), Settled(c), c.state \in States,
           NEW next \in RECEIPT_STATES, MayEnter(c, next),
           NEW result \in Results, NEW t \in Nat,
           ConcludeRemedy(a, c, next, result, t),
           now' \in 0 .. MaxTime, UNCHANGED implementation
    PROVE  Inv'
<1> DEFINE m == Transition(c, next, "", t)
           closed == Close(m, t)
           d == [closed EXCEPT !.remedy_result = result]
           done == IF closed.state = "CLOSED" THEN d ELSE closed
<1>1. "" \in Infos /\ next \in States
  BY DEF Infos, RECEIPT_STATES, DisputedStates, States
<1>2. Good(m) /\ m.state = next
  BY <1>1, MoveIsGood
<1>3. Reaches(a, done, {c} \cup CloseStops(m, t))
  BY DEF ConcludeRemedy
<1> HIDE DEF m
<1>4. Good(closed) /\ \A e \in CloseStops(m, t) : Good(e)
  BY <1>2, CloseIsGood
<1> HIDE DEF closed
<1>5. Good(d)
  BY <1>4, ResultStep, QuietIsGood DEF Good
<1> HIDE DEF d
<1>6. Good(done)
  BY <1>4, <1>5
<1> HIDE DEF done
<1> QED
  BY <1>3, <1>4, <1>6, ReachesStep

(* Resuming reconcileRemedy().                                             *)
LEMMA ReconcileRemedyAnsweredStep ==
    ASSUME Inv, NEW a \in Action, ReconcileRemedyAnswered(a)
    PROVE  Inv'
<1> DEFINE c == Finish(actions[a], "reconcileRemedy")
           p == Answered(c, "remediated")
           q == Answered(c, "failed")
<1>1. PICK t \in 0 .. MaxTime :
        /\ ClockReads(t)
        /\ actions[a].awaiting["reconcileRemedy"] > 0
        /\ \/ /\ CanMove(c, "REMEDY_VERIFYING")
              /\ Reaches(a, [Begin(Transition(p, "REMEDY_VERIFYING", "", t),
                                   "observeRemedy")
                             EXCEPT !.remedy_result = "remediated"], {p})
           \/ /\ CanMove(c, "REMEDY_FAILED")
              /\ ConcludeRemedy(a, q, "REMEDY_FAILED", "failed", t)
           \/ /\ CanMove(c, "REVIEW_REQUIRED")
              /\ ConcludeRemedy(a, c, "REVIEW_REQUIRED", "unknown", t)
           \/ actions' = [actions EXCEPT ![a] = c]
        /\ UNCHANGED implementation
  BY DEF ReconcileRemedyAnswered
<1>2. t \in Nat /\ now' \in 0 .. MaxTime /\ UNCHANGED implementation
  BY <1>1, ClockStep
<1>3. "reconcileRemedy" \in Operations /\ "observeRemedy" \in Operations
      /\ "" \in Infos
      /\ "remediated" \in Results /\ "failed" \in Results /\ "unknown" \in Results
      /\ "REMEDY_FAILED" \in RECEIPT_STATES /\ "REVIEW_REQUIRED" \in RECEIPT_STATES
  BY DEF Operations, Infos, Results, RECEIPT_STATES, DisputedStates
<1>4. Good(c) /\ c.state \in AfterRemedyUnknown
  BY <1>1, <1>3, AnswerIsGood DEF Inv
<1> HIDE DEF c
<1>5. ASSUME NEW answer \in {"remediated", "failed"}
      PROVE  Good(Answered(c, answer)) /\ Answered(c, answer).state = c.state
  BY <1>4, AnsweredStep, QuietIsGood DEF Good
<1>6. Good(p) /\ p.state = c.state /\ Good(q) /\ q.state = c.state
  BY <1>5
<1> HIDE DEF p, q
<1>7. ASSUME NEW d, Good(d), d.state = c.state,
             NEW next \in {"REMEDY_VERIFYING", "REMEDY_FAILED", "REVIEW_REQUIRED"},
             CanMove(c, next)
      PROVE  Settled(d) /\ d.state \in States /\ next \in States /\ MayEnter(d, next)
  <2>1. Movable(d, next)
    BY <1>7 DEF CanMove, Movable
  <2>2. Settled(d)
    BY <1>4, <1>7, <2>1, StatusMoves
  <2> QED
    BY <1>7, <2>1, <2>2, LegalMove DEF Movable
<1>8. CASE /\ CanMove(c, "REMEDY_VERIFYING")
           /\ Reaches(a, [Begin(Transition(p, "REMEDY_VERIFYING", "", t),
                                "observeRemedy")
                          EXCEPT !.remedy_result = "remediated"], {p})
  <2> DEFINE m == Transition(p, "REMEDY_VERIFYING", "", t)
             b == Begin(m, "observeRemedy")
             d == [b EXCEPT !.remedy_result = "remediated"]
  <2>1. /\ Settled(p) /\ p.state \in States /\ "REMEDY_VERIFYING" \in States
        /\ MayEnter(p, "REMEDY_VERIFYING")
    BY <1>6, <1>7, <1>8
  <2>2. Reaches(a, d, {p})
    BY <1>8
  <2>3. Good(m)
    BY <1>2, <1>3, <1>6, <2>1, MoveIsGood
  <2> HIDE DEF m
  <2>4. Good(b)
    BY <1>3, <2>3, CallIsGood
  <2> HIDE DEF b
  <2>5. Good(d)
    BY <1>3, <2>4, ResultStep, QuietIsGood DEF Good
  <2> HIDE DEF d
  <2> QED
    BY <1>2, <1>6, <2>2, <2>5, ReachesStep
<1>9. CASE /\ CanMove(c, "REMEDY_FAILED")
           /\ ConcludeRemedy(a, q, "REMEDY_FAILED", "failed", t)
  <2>1. Settled(q) /\ q.state \in States /\ MayEnter(q, "REMEDY_FAILED")
    BY <1>6, <1>7, <1>9
  <2> QED
    BY <1>2, <1>3, <1>6, <1>9, <2>1, ConcludeRemedyStep
<1>10. CASE /\ CanMove(c, "REVIEW_REQUIRED")
            /\ ConcludeRemedy(a, c, "REVIEW_REQUIRED", "unknown", t)
  <2>1. Settled(c) /\ c.state \in States /\ MayEnter(c, "REVIEW_REQUIRED")
    BY <1>4, <1>7, <1>10
  <2> QED
    BY <1>2, <1>3, <1>4, <1>10, <2>1, ConcludeRemedyStep
<1>11. CASE actions' = [actions EXCEPT ![a] = c]
  BY <1>2, <1>4, <1>11, SliceStep
<1> QED
  BY <1>1, <1>8, <1>9, <1>10, <1>11

(* Resuming verifyRemedyOutcome(), whatever the state it finds.            *)
LEMMA RemedyObservedStep ==
    ASSUME Inv, NEW a \in Action, RemedyObserved(a)
    PROVE  Inv'
<1> DEFINE c == Finish(actions[a], "observeRemedy")
           E(s, o, w, t) == Accept(c, "REMEDY_EVIDENCE_ACCEPTED", "post-remedy", s, o, w, t)
           N(s) == IF s THEN "REMEDIATED" ELSE "REMEDY_INCONCLUSIVE"
<1>1. PICK t \in 0 .. MaxTime :
        /\ ClockReads(t)
        /\ actions[a].awaiting["observeRemedy"] > 0
        /\ \/ /\ CanMove(c, "REMEDY_INCONCLUSIVE")
              /\ RejectEvidence(a, c, "REMEDY_EVIDENCE_REJECTED",
                                "REMEDY_INCONCLUSIVE", t)
           \/ Reaches(a, Note(c, "REMEDY_EVIDENCE_REJECTED", "", t), {c})
           \/ \E o \in Fresh, s \in BOOLEAN, w \in Ownership :
                 IF CanMove(E(s, o, w, t), N(s))
                 THEN Reaches(a, Close(Transition(E(s, o, w, t), N(s), "", t), t),
                              {c, E(s, o, w, t)} \cup
                              CloseStops(Transition(E(s, o, w, t), N(s), "", t), t))
                 ELSE Reaches(a, E(s, o, w, t), {c})
        /\ UNCHANGED implementation
  BY DEF RemedyObserved
<1>2. t \in Nat /\ now' \in 0 .. MaxTime /\ UNCHANGED implementation
  BY <1>1, ClockStep
<1>3. /\ "observeRemedy" \in Operations /\ "" \in Infos
      /\ "REMEDY_EVIDENCE_REJECTED" \in EventTypes
      /\ "REMEDY_EVIDENCE_ACCEPTED" \in EventTypes
      /\ "REMEDY_INCONCLUSIVE" \in RECEIPT_STATES /\ "REMEDIATED" \in RECEIPT_STATES
  BY DEF Operations, Infos, EventTypes, RECEIPT_STATES, DisputedStates
<1>4. Good(c)
  BY <1>1, <1>3, AnswerIsGood DEF Inv
<1> HIDE DEF c
<1>5. (\A o \in Fresh : o \in Nat) /\ Ownership \subseteq BOOLEAN
  BY ObservationType DEF Inv, TypeOK
<1>6. ASSUME NEW d, Good(d), NEW next \in {"REMEDIATED", "REMEDY_INCONCLUSIVE"},
             CanMove(d, next)
      PROVE  Settled(d) /\ d.state \in States /\ next \in States /\ MayEnter(d, next)
  <2>1. Movable(d, next)
    BY <1>6 DEF CanMove, Movable
  <2>2. Settled(d)
    BY <1>6, <2>1, StatusMoves
  <2> QED
    BY <1>6, <2>1, <2>2, LegalMove DEF Movable
<1>7. CASE /\ CanMove(c, "REMEDY_INCONCLUSIVE")
           /\ RejectEvidence(a, c, "REMEDY_EVIDENCE_REJECTED",
                             "REMEDY_INCONCLUSIVE", t)
  <2>1. Settled(c) /\ c.state \in States /\ MayEnter(c, "REMEDY_INCONCLUSIVE")
    BY <1>4, <1>6, <1>7
  <2> QED
    BY <1>2, <1>3, <1>4, <1>7, <2>1, RejectEvidenceStep
<1>8. CASE Reaches(a, Note(c, "REMEDY_EVIDENCE_REJECTED", "", t), {c})
  <2> DEFINE n == Note(c, "REMEDY_EVIDENCE_REJECTED", "", t)
  <2>1. n \in Slice /\ n.state = c.state /\ Quiet(c, n)
    BY <1>2, <1>3, <1>4, NoteStep DEF Good
  <2>2. Reaches(a, n, {c})
    BY <1>8
  <2> HIDE DEF n
  <2>3. Good(n)
    BY <1>4, <2>1, QuietIsGood
  <2> QED
    BY <1>2, <1>4, <2>2, <2>3, ReachesStep
<1>9. ASSUME NEW o \in Fresh, NEW w \in Ownership, NEW s \in BOOLEAN,
             IF CanMove(E(s, o, w, t), N(s))
             THEN Reaches(a, Close(Transition(E(s, o, w, t), N(s), "", t), t),
                          {c, E(s, o, w, t)} \cup
                          CloseStops(Transition(E(s, o, w, t), N(s), "", t), t))
             ELSE Reaches(a, E(s, o, w, t), {c})
      PROVE  Inv'
  <2> DEFINE e == E(s, o, w, t)
             next == N(s)
             m == Transition(e, next, "", t)
  <2>1. e = Accept(c, "REMEDY_EVIDENCE_ACCEPTED", "post-remedy", s, o, w, t)
    OBVIOUS
  <2>2. next \in {"REMEDIATED", "REMEDY_INCONCLUSIVE"} /\ next \in RECEIPT_STATES
    BY <1>3
  <2>3. IF CanMove(e, next)
        THEN Reaches(a, Close(m, t), {c, e} \cup CloseStops(m, t))
        ELSE Reaches(a, e, {c})
    BY <1>9
  <2> HIDE DEF e, next
  <2>4. Good(e)
    <3>1. /\ Good(c) /\ "REMEDY_EVIDENCE_ACCEPTED" \in EventTypes
          /\ o \in Nat /\ w \in BOOLEAN /\ t \in Nat
      BY <1>2, <1>3, <1>4, <1>5
    <3> QED
      BY <2>1, <3>1, AcceptIsGood
  <2>5. CASE ~CanMove(e, next)
    BY <1>2, <1>4, <2>3, <2>4, <2>5, ReachesStep
  <2>6. CASE CanMove(e, next)
    <3>1. /\ Settled(e) /\ e.state \in States /\ next \in States
          /\ MayEnter(e, next)
      BY <1>6, <2>2, <2>4, <2>6
    <3>2. Good(m) /\ m.state = next
      BY <1>2, <1>3, <2>4, <3>1, MoveIsGood
    <3>3. Reaches(a, Close(m, t), {c, e} \cup CloseStops(m, t))
      BY <2>3, <2>6
    <3> HIDE DEF m
    <3>4. Good(Close(m, t)) /\ \A d \in CloseStops(m, t) : Good(d)
      BY <1>2, <2>2, <3>2, CloseIsGood
    <3> QED
      BY <1>2, <1>4, <2>4, <3>3, <3>4, ReachesStep
  <2> QED
    BY <2>5, <2>6
<1> HIDE DEF E, N
<1> QED
  BY <1>1, <1>7, <1>8, <1>9

(* A reservation that lapses at the connector.                             *)
LEMMA RecourseLapsesStep ==
    ASSUME Inv, NEW a \in Action, RecourseLapses(a)
    PROVE  Inv'
<1> DEFINE c == actions[a]
<1>1. PICK s \in Lapses : actions' = [actions EXCEPT ![a] = [c EXCEPT !.recourse = s]]
  BY DEF RecourseLapses, Inv, TypeOK
<1> DEFINE d == [c EXCEPT !.recourse = s]
<1>2. now' \in 0 .. MaxTime /\ UNCHANGED implementation
  BY DEF RecourseLapses, Inv, TypeOK
<1>3. s \in RecourseStatuses \cup {"none"}
  BY EnvironmentAssumption
<1>4. Good(c) /\ c \in Slice
  BY DEF Inv, Good
<1>5. actions' = [actions EXCEPT ![a] = d]
  BY <1>1
<1> HIDE DEF c
<1>6. d \in Slice
  BY <1>3, <1>4 DEF Slice
<1>7. d.state = c.state /\ Quiet(c, d)
  BY <1>4 DEF Slice, Quiet
<1> HIDE DEF d
<1>8. Good(d)
  BY <1>4, <1>6, <1>7, QuietIsGood
<1> QED
  BY <1>2, <1>5, <1>8, SliceStep

-------------------------------------------------------------------------------
(* The theorems. *)

(* Nothing is registered, called or awaited at the start.                  *)
LEMMA InitInv == Init => Inv
<1> SUFFICES ASSUME Init PROVE Inv
  OBVIOUS
<1>1. Unregistered.awaiting \in [Operations -> Nat]
  BY DEF Unregistered
<1>2. Unregistered \in Slice
  <2>1. Unregistered.evidence \in Seq(Evidence) /\ Unregistered.events \in Seq(Event)
        /\ Unregistered.receipt \in Seq(Receipt)
    BY DEF Unregistered
  <2>2. Never \in Int
    BY DEF Never
  <2> QED
    BY <2>1, <2>2 DEF Slice, Unregistered, Results
<1>3. Counted(Unregistered)
  BY DEF Counted, Unregistered
<1>4. Resumable(Unregistered)
  BY DEF Resumable, Unregistered, Operations
<1>5. \A a \in Action : actions[a] = Unregistered
  BY DEF Init
<1>6. TypeOK
  BY <1>2, ClockAssumption DEF Init, TypeOK
<1> QED
  BY <1>2, <1>3, <1>4, <1>5, <1>6 DEF Inv, Good

(* Every step of the rail, of its connector and of time keeps the          *)
(* invariant.                                                              *)
LEMMA NextInv == Inv /\ [Next]_vars => Inv'
<1> SUFFICES ASSUME Inv, [Next]_vars PROVE Inv'
  OBVIOUS
<1>1. ASSUME NEW a \in Action, Handler(a) PROVE Inv'
  BY <1>1, ProposeStep, AuthorizeStep, ReserveRecourseStep,
     AcceptRecoveryQualificationStep, IssuePermitStep, ExecuteStep,
     ExecuteAnsweredStep, ReconcileStep, ReconcileAnsweredStep,
     VerifyOutcomeStep, OutcomeObservedStep, RemediateStep,
     RemediateAnsweredStep, ReconcileRemedyStep, ReconcileRemedyAnsweredStep,
     RemedyObservedStep
     DEF Handler
<1>2. ASSUME NEW a \in Action, RecourseLapses(a) PROVE Inv'
  BY <1>2, RecourseLapsesStep
<1>3. CASE ReplaceImplementation
  BY <1>3 DEF ReplaceImplementation, Inv, TypeOK, Good
<1>4. CASE Tick
  BY <1>4, ClockAssumption DEF Tick, Inv, TypeOK, Good
<1>5. CASE UNCHANGED vars
  BY <1>5 DEF vars, Inv, TypeOK, Good
<1> QED
  BY <1>1, <1>2, <1>3, <1>4, <1>5 DEF Next

(* The invariant holds of every behaviour.                                 *)
LEMMA Invariant == Spec => []Inv
  BY InitInv, NextInv, PTL DEF Spec

(* Every slice, the clock and the implementation keep their types, for any *)
(* number of actions, any clock and any connector.                         *)
THEOREM TypeCorrect == Spec => []TypeOK
<1>1. Inv => TypeOK
  BY DEF Inv
<1> QED
  BY <1>1, Invariant, PTL

(* The protected operation and its remedy are each called at most once,    *)
(* and counted, however calls overlap, answers are delayed or lost, the    *)
(* store throws or the reservation lapses.                                 *)
THEOREM SingleCalls == Spec => []AtMostOneCall
<1>1. Inv => AtMostOneCall
  BY DEF Inv, Good, Counted, AtMostOneCall, Slices
<1> QED
  BY <1>1, Invariant, PTL
===============================================================================
