---------------------------- MODULE RecordProofs ----------------------------
(***************************************************************************)
(* From the walks of module RailWalks, one relation at a time: recourse is *)
(* held while an effect may stand and the rail implements Settlement; the  *)
(* record follows the log; a permit follows its preflight; nothing is      *)
(* stranded and a receipt is final.                                        *)
(***************************************************************************)
EXTENDS RailWalks, FiniteSetTheorems

\* What RecourseHeldWhileExposed says of one slice.
Held(c) ==
    c.recourse = "released" =>
        \/ c.state \in ReturningStates
        \/ c.state = "CLOSED" /\ ClosedAs(c) # "disputed"

\* Only a closed action has a receipt, for the outcome it closed with.
Receipted(c) ==
    c.receipt # <<>> => c.state = "CLOSED" /\ c.receipt[1].outcome = ClosedAs(c)

\* The last move in the log.
Topped(c) == \E k \in Moves(c) : \A i \in Moves(c) : i <= k

Secured(c) ==
    /\ c \in Slice /\ Held(c) /\ Receipted(c)
    /\ c.state = "CLOSED" => Topped(c)

SettlementInv == \A a \in Action : Secured(actions[a])

-------------------------------------------------------------------------------
(* What module Settlement sees of a slice. *)

Outcome(c) == IF Exportable(c) THEN c.receipt[1].outcome ELSE "none"

Alike(c, d) ==
    /\ PhaseOf(d) = PhaseOf(c)
    /\ d.recourse = "released" <=> c.recourse = "released"
    /\ d.execute_calls = c.execute_calls
    /\ d.remedy_calls = c.remedy_calls
    /\ Outcome(d) = Outcome(c)

Proceeds(c, d) ==
    /\ <<PhaseOf(c), PhaseOf(d)>> \in Promise!Course
    /\ d.execute_calls = IF PhaseOf(d) = "exposed" THEN c.execute_calls + 1
                         ELSE c.execute_calls
    /\ d.remedy_calls = IF PhaseOf(d) = "remedying" THEN c.remedy_calls + 1
                        ELSE c.remedy_calls
    /\ \/ d.recourse = "released" <=> c.recourse = "released"
       \/ PhaseOf(d) \in Promise!Harmless /\ d.recourse = "released"
    /\ \/ Outcome(d) = Outcome(c)
       \/ PhaseOf(d) \in Promise!Verdicts /\ Outcome(d) = PhaseOf(d)

(* A move of the table either keeps the phase, and then ends nothing and   *)
(* calls nothing, or follows the course of module Settlement.              *)
LEMMA PhaseMoves ==
    ASSUME NEW n, NEW m, <<n.state, m.state>> \in ALLOWED_TRANSITIONS,
           m.state # "CLOSED"
    PROVE  /\ n.state \notin ReturningStates /\ n.state # "CLOSED"
           /\ \/ /\ PhaseOf(m) = PhaseOf(n)
                 /\ m.state \notin EndStates \cup {"EXECUTING", "REMEDIATING"}
              \/ /\ <<PhaseOf(n), PhaseOf(m)>> \in Promise!Course
                 /\ PhaseOf(m) = "exposed" <=> m.state = "EXECUTING"
                 /\ PhaseOf(m) = "remedying" <=> m.state = "REMEDIATING"
                 /\ m.state \in ReturningStates => PhaseOf(m) \in Promise!Harmless
                 /\ m.state \in RECEIPT_STATES =>
                       /\ PhaseOf(m) = RECEIPT_OUTCOME_BY_STATE[m.state]
                       /\ PhaseOf(m) \in Promise!Verdicts
  BY DEF ALLOWED_TRANSITIONS, ReturningStates, WithdrawnStates, EndStates,
         RECEIPT_STATES, DisputedStates, RECEIPT_OUTCOME_BY_STATE, PhaseOf,
         Promise!Course, Promise!Harmless, Promise!Verdicts

-------------------------------------------------------------------------------
(* What an event does to the log. *)

\* The log leads to the state the record is in.
Led(c) ==
    \/ Moves(c) = {} /\ c.state = "PROPOSED"
    \/ \E k \in Moves(c) : /\ \A i \in Moves(c) : i <= k
                           /\ c.events[k].to = c.state

(* A greatest element is the maximum.                                      *)
LEMMA MaxIs ==
    ASSUME NEW S \in SUBSET Nat, NEW k \in S, \A i \in S : i <= k
    PROVE  Max(S) = k
<1>1. \A y \in S : k >= y
  OBVIOUS
<1>2. PICK x \in S : x = Max(S) /\ \A y \in S : x >= y
  BY <1>1 DEF Max
<1> QED
  BY <1>1, <1>2

(* The log leads where StateBeforeEvent says.                              *)
LEMMA LedState ==
    ASSUME NEW c \in Slice, Led(c)
    PROVE  c.state = StateBeforeEvent(c, Len(c.events) + 1)
<1>1. /\ DOMAIN c.events = 1 .. Len(c.events) /\ Len(c.events) \in Nat
  BY DEF Slice
<1> DEFINE earlier == {i \in Moves(c) : i < Len(c.events) + 1}
<1>2. earlier = Moves(c) /\ Moves(c) \in SUBSET Nat
  BY <1>1 DEF Moves
<1>3. CASE Moves(c) = {} /\ c.state = "PROPOSED"
  BY <1>2, <1>3 DEF StateBeforeEvent
<1>4. ASSUME NEW k \in Moves(c), \A i \in Moves(c) : i <= k, c.events[k].to = c.state
      PROVE  c.state = StateBeforeEvent(c, Len(c.events) + 1)
  <2>1. Max(Moves(c)) = k
    BY <1>2, <1>4, MaxIs
  <2>2. Moves(c) # {}
    BY <1>4
  <2> QED
    BY <1>2, <1>4, <2>1, <2>2 DEF StateBeforeEvent
<1> QED
  BY <1>3, <1>4 DEF Led

(* Appending an event makes one more of its kind.                          *)
LEMMA OneMore ==
    ASSUME NEW n \in Nat, NEW S \in SUBSET (1 .. n)
    PROVE  /\ Cardinality(S \cup {n + 1}) = Cardinality(S) + 1
           /\ Cardinality(S) \in Nat
<1>1. IsFiniteSet(1 .. n)
  BY FS_Interval
<1>3. IsFiniteSet(S)
  BY <1>1, FS_Subset
<1>2. n + 1 \notin S
  OBVIOUS
<1> QED
  BY <1>2, <1>3, FS_AddElement, FS_CardinalityType

\* An event is appended and the others stay.
Grows(c, d) ==
    /\ DOMAIN c.events = 1 .. Len(c.events) /\ Len(c.events) \in Nat
    /\ DOMAIN d.events = 1 .. (Len(c.events) + 1)
    /\ Len(d.events) = Len(c.events) + 1
    /\ \A i \in 1 .. Len(c.events) : d.events[i] = c.events[i]

(* An event that is no transition leaves every move where it was.          *)
LEMMA LogsGrows ==
    ASSUME NEW c \in Slice, NEW d, NEW type, NEW info, NEW t,
           Logs(c, d, type, info, t)
    PROVE  /\ Grows(c, d)
           /\ d.events[Len(c.events) + 1].type = type
           /\ type # "STATE_TRANSITION" =>
                 Moves(d) = Moves(c) /\ \A s : Entries(d, s) = Entries(c, s)
<1> DEFINE n == Len(c.events)
<1>1. c.events \in Seq(Event) /\ n \in Nat /\ DOMAIN c.events = 1 .. n
  BY DEF Slice
<1>2. /\ Grows(c, d) /\ d.events[n + 1].type = type
  BY <1>1 DEF Logs, Grows
<1> HIDE DEF n
<1>3. ASSUME type # "STATE_TRANSITION"
      PROVE  Moves(d) = Moves(c)
  BY <1>1, <1>2, <1>3 DEF Moves, Grows, n
<1>4. ASSUME type # "STATE_TRANSITION", NEW s
      PROVE  Entries(d, s) = Entries(c, s)
  <2>1. \A i \in Moves(c) : d.events[i] = c.events[i]
    BY <1>2 DEF Grows, Moves
  <2> QED
    BY <1>3, <1>4, <2>1 DEF Entries
<1> QED
  BY <1>2, <1>3, <1>4 DEF n

(* A transition is one more move, to the state it enters.                  *)
LEMMA LogsMoveGrows ==
    ASSUME NEW c \in Slice, NEW d, NEW info, NEW t, LogsMove(c, d, info, t)
    PROVE  /\ Grows(c, d)
           /\ d.events[Len(c.events) + 1].type = "STATE_TRANSITION"
           /\ Moves(d) = Moves(c) \cup {Len(c.events) + 1}
           /\ Entries(d, d.state) = Entries(c, d.state) \cup {Len(c.events) + 1}
           /\ \A s : s # d.state => Entries(d, s) = Entries(c, s)
           /\ Led(d)
<1> DEFINE n == Len(c.events)
<1>1. c.events \in Seq(Event) /\ n \in Nat /\ DOMAIN c.events = 1 .. n
  BY DEF Slice
<1>2. /\ Grows(c, d) /\ d.events[n + 1].type = "STATE_TRANSITION"
      /\ d.events[n + 1].to = d.state
  BY <1>1 DEF LogsMove, Grows
<1> HIDE DEF n
<1>3. Moves(d) = Moves(c) \cup {n + 1}
  BY <1>1, <1>2 DEF Moves, Grows, n
<1>4. \A i \in Moves(c) : d.events[i] = c.events[i] /\ i <= n /\ i # n + 1
  BY <1>1, <1>2 DEF Grows, Moves
<1>5. Entries(d, d.state) = Entries(c, d.state) \cup {n + 1}
  BY <1>2, <1>3, <1>4 DEF Entries
<1>6. \A s : s # d.state => Entries(d, s) = Entries(c, s)
  BY <1>2, <1>3, <1>4 DEF Entries
<1>7. Led(d)
  <2>1. \A i \in Moves(d) : i <= n + 1
    BY <1>1, <1>3, <1>4 DEF Moves
  <2> QED
    BY <1>2, <1>3, <2>1 DEF Led
<1> QED
  BY <1>2, <1>3, <1>5, <1>6, <1>7 DEF n


-------------------------------------------------------------------------------
(* The outcome an action closed with stands in the last move of its log. *)

\* What is appended is no move, and the last one stays.
KeepsTop(c, d) == Topped(c) => Topped(d) /\ ClosedAs(d) = ClosedAs(c)

(* It stays as long as the log does,                                       *)
LEMMA TopFields ==
    ASSUME NEW c, NEW d, d.events = c.events
    PROVE  KeepsTop(c, d)
  BY DEF KeepsTop, Topped, ClosedAs, Moves

(* and behind what is noted but no move.                                   *)
LEMMA TopLogs ==
    ASSUME NEW c \in Slice, NEW d, NEW type, NEW info, NEW t,
           Logs(c, d, type, info, t), type # "STATE_TRANSITION"
    PROVE  KeepsTop(c, d)
<1>1. Grows(c, d) /\ Moves(d) = Moves(c)
  BY LogsGrows
<1>2. ASSUME NEW k \in Moves(c), \A i \in Moves(c) : i <= k
      PROVE  Topped(d) /\ ClosedAs(d) = ClosedAs(c)
  <2>1. Moves(c) \in SUBSET Nat /\ k \in 1 .. Len(c.events)
    BY <1>1 DEF Moves, Grows
  <2>2. Max(Moves(c)) = k /\ Max(Moves(d)) = k
    BY <1>1, <1>2, <2>1, MaxIs
  <2>3. d.events[k] = c.events[k]
    BY <1>1, <2>1 DEF Grows
  <2> QED
    BY <1>1, <1>2, <2>2, <2>3 DEF Topped, ClosedAs
<1> QED
  BY <1>2 DEF KeepsTop, Topped

(* A move is the last one, with what it says.                              *)
LEMMA ToppedMoves ==
    ASSUME NEW c \in Slice, NEW d, NEW info, NEW t, LogsMove(c, d, info, t)
    PROVE  Topped(d) /\ ClosedAs(d) = info
<1> DEFINE n == Len(c.events)
<1>1. Grows(c, d) /\ Moves(d) = Moves(c) \cup {n + 1}
  BY LogsMoveGrows
<1>2. n \in Nat /\ Moves(c) \in SUBSET (1 .. n)
  BY <1>1 DEF Grows, Moves
<1>3. d.events[n + 1].info = info
  BY DEF LogsMove, Slice
<1> HIDE DEF n
<1>4. Max(Moves(d)) = n + 1 /\ \A i \in Moves(d) : i <= n + 1
  BY <1>1, <1>2, MaxIs
<1> QED
  BY <1>1, <1>3, <1>4 DEF Topped, ClosedAs

-------------------------------------------------------------------------------
(* Each relation of a walk, as module Settlement sees it. *)

(* Slices that differ in nothing module Settlement reads are alike.        *)
LEMMA AlikeFields ==
    ASSUME NEW c, Secured(c), NEW d, KeepsTop(c, d),
           d.state = c.state, d.receipt = c.receipt,
           d.recourse = "released" <=> c.recourse = "released",
           d.execute_calls = c.execute_calls, d.remedy_calls = c.remedy_calls
    PROVE  Alike(c, d)
<1>1. c.state = "CLOSED" => ClosedAs(d) = ClosedAs(c)
  BY DEF Secured, KeepsTop
<1>2. PhaseOf(d) = PhaseOf(c)
  BY <1>1 DEF PhaseOf
<1> QED
  BY <1>2 DEF Alike, Outcome, Exportable

(* Nor does the recourse become held or given back in between.             *)
LEMMA SecuredFields ==
    ASSUME NEW c, Secured(c), NEW d \in Slice, KeepsTop(c, d),
           d.state = c.state, d.receipt = c.receipt,
           d.recourse = "released" => c.recourse = "released"
    PROVE  Secured(d)
  BY DEF Secured, Held, Receipted, KeepsTop

(* Being alike is transitive, and may precede or follow a step of the course. *)
LEMMA AlikeProceeds ==
    ASSUME NEW c, NEW n, NEW m, NEW d
    PROVE  /\ Alike(c, n) /\ Alike(n, m) => Alike(c, m)
           /\ Alike(c, n) /\ Proceeds(n, m) => Proceeds(c, m)
           /\ Proceeds(c, n) /\ Alike(n, m) => Proceeds(c, m)
  BY DEF Alike, Proceeds

(* What arrives before the state moves changes nothing of the promise.     *)
LEMMA HeardSettles ==
    ASSUME NEW c, Secured(c), NEW n, NEW op, NEW answer, NEW t,
           Heard(c, n, op, answer, t)
    PROVE  Secured(n) /\ Alike(c, n)
<1>1. PICK w \in Slice : /\ Resumed(c, w, op, answer) \/ Reserved(c, w, op, answer)
                         /\ n = w \/ Rejected(w, n, op, t) \/ Accepted(w, n, op, t)
  BY DEF Heard
<1>2. n \in Slice
  BY DEF Heard
<1>3. /\ w.state = c.state /\ w.receipt = c.receipt
      /\ w.execute_calls = c.execute_calls /\ w.remedy_calls = c.remedy_calls
      /\ w.recourse = "released" <=> c.recourse = "released"
      /\ w.events = c.events
  <2>1. CASE Resumed(c, w, op, answer)
    BY <2>1 DEF Resumed, Same, Fields, Unregistered
  <2>2. CASE Reserved(c, w, op, answer)
    <3>1. c.recourse # "released"
      BY <2>2 DEF Reserved, Secured, Held, ReturningStates, WithdrawnStates
    <3> QED
      BY <2>2, <3>1 DEF Reserved, Same, Fields, Unregistered
  <2> QED
    BY <1>1, <2>1, <2>2
<1>4. /\ n.state = w.state /\ n.receipt = w.receipt
      /\ n.execute_calls = w.execute_calls /\ n.remedy_calls = w.remedy_calls
      /\ n.recourse = w.recourse
  <2>1. n = w \/ Same(w, n, {"events", "evidence"})
    BY <1>1 DEF Rejected, Accepted, Same
  <2> QED
    BY <2>1 DEF Same, Fields, Unregistered
<1>5. KeepsTop(w, n)
  <2>1. CASE n = w
    BY <2>1, TopFields
  <2>2. CASE Rejected(w, n, op, t)
    <3>1. PICK type \in {"EVIDENCE_REJECTED", "REMEDY_EVIDENCE_REJECTED"} :
             Logs(w, n, type, "", t)
      BY <2>2 DEF Rejected
    <3> QED
      BY <3>1, TopLogs
  <2>3. CASE Accepted(w, n, op, t)
    <3>1. PICK type \in {"EVIDENCE_ACCEPTED", "REMEDY_EVIDENCE_ACCEPTED"},
               satisfied \in BOOLEAN : Logs(w, n, type, Weighs(satisfied), t)
      BY <2>3 DEF Accepted
    <3> QED
      BY <3>1, TopLogs
  <2> QED
    BY <1>1, <2>1, <2>2, <2>3
<1>6. KeepsTop(c, n)
  BY <1>3, <1>5, TopFields DEF KeepsTop
<1> QED
  BY <1>2, <1>3, <1>4, <1>6, AlikeFields, SecuredFields

(* A move follows the course, with nothing given back yet and no receipt.  *)
LEMMA MovedSettles ==
    ASSUME NEW n, Secured(n), NEW m \in Slice, NEW t, Moved(n, m, t)
    PROVE  /\ Secured(m) /\ m.state # "CLOSED" /\ m.receipt = <<>>
           /\ m.recourse # "released"
           /\ (Alike(n, m) /\ m.state \notin EndStates) \/ Proceeds(n, m)
<1>1. <<n.state, m.state>> \in ALLOWED_TRANSITIONS /\ m.state # "CLOSED"
  BY DEF Moved, Permits, Starts, Remedies, Marked
<1>2. /\ n.state \notin ReturningStates /\ n.state # "CLOSED"
      /\ \/ /\ PhaseOf(m) = PhaseOf(n)
            /\ m.state \notin EndStates \cup {"EXECUTING", "REMEDIATING"}
         \/ /\ <<PhaseOf(n), PhaseOf(m)>> \in Promise!Course
            /\ PhaseOf(m) = "exposed" <=> m.state = "EXECUTING"
            /\ PhaseOf(m) = "remedying" <=> m.state = "REMEDIATING"
  BY <1>1, PhaseMoves
<1>3. n.recourse # "released" /\ n.receipt = <<>>
  BY <1>2 DEF Secured, Held, Receipted
<1>4. /\ m.receipt = n.receipt
      /\ m.recourse # "released"
      /\ m.execute_calls = IF m.state = "EXECUTING" THEN n.execute_calls + 1
                           ELSE n.execute_calls
      /\ m.remedy_calls = IF m.state = "REMEDIATING" THEN n.remedy_calls + 1
                          ELSE n.remedy_calls
  <2>1. CASE Starts(n, m)
    BY <1>3, <2>1 DEF Starts, Same, Fields, Unregistered
  <2>2. CASE Remedies(n, m)
    BY <1>3, <2>2 DEF Remedies, Same, Fields, Unregistered, Spent
  <2>3. CASE /\ m.state \notin {"EXECUTING", "REMEDIATING"}
             /\ Same(n, m, {"state", "events", "preflight_required", "kind",
                            "reserved_at", "reserved_until", "max_attempts",
                            "permit_issued_at"})
    BY <1>3, <2>3 DEF Same, Fields, Unregistered
  <2> QED
    BY <2>1, <2>2, <2>3 DEF Moved, Permits, Same, Marked
<1>5. Secured(m)
  BY <1>1, <1>3, <1>4 DEF Secured, Held, Receipted
<1>6. Outcome(m) = Outcome(n)
  BY <1>3, <1>4 DEF Outcome, Exportable
<1>7. (Alike(n, m) /\ m.state \notin EndStates) \/ Proceeds(n, m)
  BY <1>2, <1>3, <1>4, <1>6 DEF Alike, Proceeds
<1> QED
  BY <1>1, <1>3, <1>4, <1>5, <1>7

(* The end of an action gives back only what may be, and its receipt says  *)
(* where the exposure ended.                                               *)
LEMMA EndingSettles ==
    ASSUME NEW m, Secured(m), m.state # "CLOSED", m.receipt = <<>>,
           m.recourse # "released", NEW x \in Slice, NEW t, Ending(m, x, t)
    PROVE  /\ Secured(x)
           /\ PhaseOf(x) = PhaseOf(m)
           /\ x.execute_calls = m.execute_calls /\ x.remedy_calls = m.remedy_calls
           /\ x.recourse = "released" => m.state \in ReturningStates
           /\ \/ Outcome(x) = Outcome(m)
              \/ m.state \in RECEIPT_STATES /\ Outcome(x) = PhaseOf(m)
           /\ m.state \notin EndStates => Alike(m, x)
<1>1. PICK r, f \in Slice : /\ r = m \/ Returned(m, r)
                            /\ f = r \/ Recorded(r, f, t)
                            /\ x = f \/ Closed(f, x, t)
  BY DEF Ending
<1>2. /\ r.state = m.state /\ r.receipt = m.receipt
      /\ r.execute_calls = m.execute_calls /\ r.remedy_calls = m.remedy_calls
      /\ r.recourse = "released" => m.state \in ReturningStates
  BY <1>1 DEF Returned, Same, Fields, Unregistered
<1>3. /\ f.state = r.state /\ f.receipt = r.receipt
      /\ f.execute_calls = r.execute_calls /\ f.remedy_calls = r.remedy_calls
      /\ f.recourse = r.recourse
  BY <1>1 DEF Recorded, Same, Fields, Unregistered
<1>4. Outcome(m) = "none"
  BY DEF Outcome, Exportable
<1>5. CASE x = f
  <2>1. Secured(x)
    BY <1>2, <1>3, <1>5 DEF Secured, Held, Receipted
  <2>2. PhaseOf(x) = PhaseOf(m) /\ Outcome(x) = Outcome(m)
    BY <1>2, <1>3, <1>5 DEF PhaseOf, Outcome, Exportable
  <2>3. m.state \notin EndStates => m.state \notin ReturningStates
    BY DEF EndStates, ReturningStates, RECEIPT_STATES
  <2>4. /\ x.execute_calls = m.execute_calls /\ x.remedy_calls = m.remedy_calls
        /\ x.recourse = "released" => m.state \in ReturningStates
    BY <1>2, <1>3, <1>5
  <2>5. m.state \notin EndStates => Alike(m, x)
    BY <2>2, <2>3, <2>4 DEF Alike
  <2> QED
    BY <2>1, <2>2, <2>4, <2>5
<1>6. CASE Closed(f, x, t)
  <2>1. /\ x.state = "CLOSED" /\ m.state \in RECEIPT_STATES
        /\ x.recourse = f.recourse
        /\ x.execute_calls = f.execute_calls /\ x.remedy_calls = f.remedy_calls
    BY <1>2, <1>3, <1>6 DEF Closed, Same, Fields, Unregistered
  <2>2. Topped(x) /\ ClosedAs(x) = RECEIPT_OUTCOME_BY_STATE[m.state]
    BY <1>2, <1>3, <1>6, ToppedMoves DEF Closed
  <2>8. \/ x.receipt # <<>> /\ x.receipt[1].outcome = RECEIPT_OUTCOME_BY_STATE[m.state]
        \/ x.receipt = <<>>
    BY <1>2, <1>3, <1>6 DEF Closed
  <2>3. /\ PhaseOf(m) = RECEIPT_OUTCOME_BY_STATE[m.state]
        /\ m.state \in ReturningStates => RECEIPT_OUTCOME_BY_STATE[m.state] # "disputed"
    BY <2>1 DEF PhaseOf, RECEIPT_STATES, DisputedStates, RECEIPT_OUTCOME_BY_STATE,
                ReturningStates, WithdrawnStates
  <2>4. PhaseOf(x) = ClosedAs(x) /\ Outcome(x) \in {"none", ClosedAs(x)}
    BY <2>1, <2>2, <2>8 DEF PhaseOf, Outcome, Exportable, RECEIPT_STATES, DisputedStates
  <2>5. Held(x)
    BY <1>2, <1>3, <2>1, <2>2, <2>3 DEF Held
  <2>6. Secured(x)
    BY <2>1, <2>2, <2>5, <2>8 DEF Secured, Receipted
  <2>7. m.state \in EndStates
    BY <2>1 DEF EndStates
  <2> QED
    BY <1>2, <1>3, <1>4, <2>1, <2>2, <2>3, <2>4, <2>6, <2>7
<1> QED
  BY <1>1, <1>5, <1>6

(* Nor does the call that is sent at the end, or the result it notes.      *)
LEMMA ResultedSettles ==
    ASSUME NEW x, Secured(x), NEW d \in Slice, Resulted(x, d)
    PROVE  Secured(d) /\ Alike(x, d)
<1>1. /\ d.state = x.state /\ d.receipt = x.receipt /\ d.recourse = x.recourse
      /\ d.execute_calls = x.execute_calls /\ d.remedy_calls = x.remedy_calls
      /\ d.events = x.events
  BY DEF Resulted, Same, Fields, Unregistered
<1> QED
  BY <1>1, TopFields, AlikeFields, SecuredFields

(* A move and its end are one step of the course, or none.                 *)
LEMMA LeftSettles ==
    ASSUME NEW n, Secured(n), NEW op, NEW answer, NEW d \in Slice, NEW t,
           Left(op, answer, n, d, t)
    PROVE  Secured(d) /\ (Alike(n, d) \/ Proceeds(n, d))
<1>1. PICK m \in Slice, x \in Slice :
         /\ Moved(n, m, t)
         /\ Ending(m, x, t) \/ (Moved(m, x, t) /\ x.state = "REMEDY_DUE")
         /\ Resulted(x, d)
  BY DEF Left
<1>2. /\ Secured(m) /\ m.state # "CLOSED" /\ m.receipt = <<>>
      /\ m.recourse # "released"
      /\ (Alike(n, m) /\ m.state \notin EndStates) \/ Proceeds(n, m)
  BY <1>1, MovedSettles
<1>3. Secured(x) /\ (Alike(n, x) \/ Proceeds(n, x))
  <2>1. CASE Ending(m, x, t)
    <3>1. /\ Secured(x)
          /\ PhaseOf(x) = PhaseOf(m)
          /\ x.execute_calls = m.execute_calls /\ x.remedy_calls = m.remedy_calls
          /\ x.recourse = "released" => m.state \in ReturningStates
          /\ \/ Outcome(x) = Outcome(m)
             \/ m.state \in RECEIPT_STATES /\ Outcome(x) = PhaseOf(m)
          /\ m.state \notin EndStates => Alike(m, x)
      BY <1>2, <2>1, EndingSettles
    <3>2. CASE Alike(n, m) /\ m.state \notin EndStates
      BY <3>1, <3>2, AlikeProceeds
    <3>3. CASE Proceeds(n, m)
      <4>1. /\ m.state \in ReturningStates => PhaseOf(m) \in Promise!Harmless
            /\ m.state \in RECEIPT_STATES => PhaseOf(m) \in Promise!Verdicts
        BY DEF ReturningStates, WithdrawnStates, RECEIPT_STATES, DisputedStates,
               RECEIPT_OUTCOME_BY_STATE, PhaseOf, Promise!Harmless, Promise!Verdicts
      <4>2. Outcome(n) = "none" /\ Outcome(m) = "none"
        <5>1. n.state # "CLOSED"
          BY <1>1 DEF Moved, ALLOWED_TRANSITIONS
        <5> QED
          BY <1>2, <5>1 DEF Secured, Receipted, Outcome, Exportable
      <4>3. n.recourse # "released"
        <5>1. n.state \notin ReturningStates /\ n.state # "CLOSED"
          BY <1>1, <1>2, PhaseMoves DEF Moved
        <5> QED
          BY <5>1 DEF Secured, Held
      <4> QED
        BY <1>2, <3>1, <3>3, <4>1, <4>2, <4>3 DEF Proceeds
    <3> QED
      BY <1>2, <3>1, <3>2, <3>3
  <2>2. CASE Moved(m, x, t) /\ x.state = "REMEDY_DUE"
    <3>1. m.state = "BREACHED"
      BY <2>2 DEF Moved, ALLOWED_TRANSITIONS
    <3>2. Secured(x) /\ (Alike(m, x) \/ Proceeds(m, x))
      BY <1>2, <2>2, MovedSettles
    <3>3. PhaseOf(m) = "breached" /\ PhaseOf(x) = "breached"
      BY <2>2, <3>1 DEF PhaseOf, RECEIPT_STATES, DisputedStates
    <3>4. <<"breached", "breached">> \notin Promise!Course
      BY DEF Promise!Course
    <3>5. Alike(m, x)
      BY <3>2, <3>3, <3>4 DEF Proceeds
    <3> QED
      BY <1>2, <3>2, <3>5, AlikeProceeds
  <2> QED
    BY <1>1, <2>1, <2>2
<1>4. Secured(d) /\ Alike(x, d)
  BY <1>1, <1>3, ResultedSettles
<1> QED
  BY <1>3, <1>4, AlikeProceeds

(* So is every step of the rail.                                           *)
LEMMA GoesSettles ==
    ASSUME "released" \notin Lapses,
           NEW c, Secured(c), NEW d \in Slice, NEW t, Goes(c, d, t)
    PROVE  Secured(d) /\ (Alike(c, d) \/ Proceeds(c, d))
<1>1. CASE Proposed(c, d, t)
  <2>1. /\ c.state = "UNREGISTERED" /\ d.state = "PROPOSED"
        /\ d.receipt = c.receipt /\ d.recourse = c.recourse
        /\ d.execute_calls = c.execute_calls /\ d.remedy_calls = c.remedy_calls
    BY <1>1 DEF Proposed, Same, Fields, Unregistered
  <2>2. c.receipt = <<>> /\ c.recourse # "released"
    BY <2>1 DEF Secured, Held, Receipted, ReturningStates, WithdrawnStates
  <2>3. Secured(d)
    BY <2>1, <2>2 DEF Secured, Held, Receipted
  <2>4. PhaseOf(d) = "idle" /\ PhaseOf(c) = "idle"
    BY <2>1 DEF PhaseOf, RECEIPT_STATES, DisputedStates
  <2>5. Outcome(d) = Outcome(c)
    BY <2>1 DEF Outcome, Exportable
  <2> QED
    BY <2>1, <2>3, <2>4, <2>5 DEF Alike
<1>2. CASE \/ Qualifies(c, d, t) \/ Asked(c, d) \/ LapsesTo(c, d) \/ d = c
  <2>1. /\ d.state = c.state /\ d.receipt = c.receipt
        /\ d.recourse = "released" <=> c.recourse = "released"
        /\ d.execute_calls = c.execute_calls /\ d.remedy_calls = c.remedy_calls
    <3>1. CASE Qualifies(c, d, t)
      BY <3>1 DEF Qualifies, Same, Fields, Unregistered
    <3>2. CASE Asked(c, d)
      BY <3>2 DEF Asked, Same, Fields, Unregistered
    <3>3. CASE LapsesTo(c, d)
      BY <3>3 DEF LapsesTo, Same, Fields, Unregistered
    <3> QED
      BY <1>2, <3>1, <3>2, <3>3
  <2>2. KeepsTop(c, d)
    <3>1. CASE Qualifies(c, d, t)
      BY <3>1, TopLogs DEF Qualifies, Secured
    <3>2. CASE Asked(c, d) \/ LapsesTo(c, d) \/ d = c
      <4>1. d.events = c.events
        BY <3>2 DEF Asked, LapsesTo, Same, Fields, Unregistered
      <4> QED
        BY <4>1, TopFields
    <3> QED
      BY <1>2, <3>1, <3>2
  <2> QED
    BY <2>1, <2>2, AlikeFields, SecuredFields
<1>3. ASSUME NEW op, NEW answer, NEW n, Heard(c, n, op, answer, t),
             (d = n /\ Paused(op, n)) \/ Left(op, answer, n, d, t)
      PROVE  Secured(d) /\ (Alike(c, d) \/ Proceeds(c, d))
  <2>1. Secured(n) /\ Alike(c, n)
    BY <1>3, HeardSettles
  <2>2. CASE d = n
    BY <2>1, <2>2
  <2>3. CASE Left(op, answer, n, d, t)
    <3>1. Secured(d) /\ (Alike(n, d) \/ Proceeds(n, d))
      BY <2>1, <2>3, LeftSettles
    <3> QED
      BY <2>1, <3>1, AlikeProceeds
  <2> QED
    BY <1>3, <2>2, <2>3
<1> QED
  BY <1>1, <1>2, <1>3 DEF Goes, Walk

-------------------------------------------------------------------------------
(* The invariant. *)

(* An action that was never proposed holds and owes nothing.               *)
LEMMA InitSettlement == Init => SettlementInv
<1> SUFFICES ASSUME Init, NEW a \in Action PROVE Secured(actions[a])
  BY DEF SettlementInv
<1>1. actions[a] = Unregistered /\ actions[a] \in Slice
  BY InitInv DEF Init, Inv, Good
<1> QED
  BY <1>1 DEF Secured, Held, Receipted, Unregistered

(* Every step secures every action, if the connector does not itself give  *)
(* a reservation back.                                                     *)
LEMMA NextSettlement ==
    ASSUME "released" \notin Lapses, Inv, SettlementInv, [Next]_vars
    PROVE  /\ SettlementInv'
           /\ \A a \in Action :
                 Alike(actions[a], actions'[a]) \/ Proceeds(actions[a], actions'[a])
<1>1. PICK t \in Nat : \A a \in Action : Goes(actions[a], actions'[a], t)
  BY SlicesGo
<1>2. ASSUME NEW a \in Action
      PROVE  /\ Secured(actions'[a])
             /\ Alike(actions[a], actions'[a]) \/ Proceeds(actions[a], actions'[a])
  <2>1. actions'[a] \in Slice
    BY NextInv DEF Inv, Good
  <2>2. Secured(actions[a]) /\ Goes(actions[a], actions'[a], t)
    BY <1>1 DEF SettlementInv
  <2> QED
    BY <2>1, <2>2, GoesSettles
<1> QED
  BY <1>2 DEF SettlementInv

-------------------------------------------------------------------------------
(* The theorems. *)

(* finalizeRecourse gives recourse back only once nothing is left to undo, *)
(* whatever fails, lapses or answers late.                                 *)
THEOREM RecourseHeld ==
    ASSUME "released" \notin Lapses
    PROVE  Spec => []RecourseHeldWhileExposed
<1>1. Init => Inv /\ SettlementInv
  BY InitInv, InitSettlement
<1>2. Inv /\ SettlementInv /\ [Next]_vars => (Inv /\ SettlementInv)'
  BY NextInv, NextSettlement
<1>3. SettlementInv => RecourseHeldWhileExposed
  BY DEF SettlementInv, Secured, Held, ReturningStates, WithdrawnStates,
         RecourseHeldWhileExposed, Slices
<1> QED
  BY <1>1, <1>2, <1>3, PTL DEF Spec

(* What module Settlement sees of the actions, one slice changing.         *)
LEMMA StepImplements ==
    ASSUME "released" \notin Lapses, Inv, SettlementInv, [Next]_vars
    PROVE  [Promise!Next]_(Promise!svars)
<1>1. CASE UNCHANGED actions
  BY <1>1 DEF Promise!svars, PhaseOf, Exportable
<1>2. ASSUME NEW a \in Action, actions' = [actions EXCEPT ![a] = actions'[a]]
      PROVE  [Promise!Next]_(Promise!svars)
  <2> DEFINE c == actions[a]
             d == actions'[a]
  <2>1. Alike(c, d) \/ Proceeds(c, d)
    BY NextSettlement
  <2>2. ASSUME NEW b \in Action, b # a PROVE actions'[b] = actions[b]
    BY <1>2, <2>2 DEF Inv, TypeOK
  <2>3. CASE Alike(c, d)
    <3>1. \A b \in Action : Alike(actions[b], actions'[b])
      BY <2>2, <2>3 DEF Alike
    <3> QED
      BY <3>1 DEF Alike, Outcome, Promise!svars
  <2>4. CASE Proceeds(c, d)
    <3>1. \A b \in Action : b # a => Alike(actions[b], actions'[b])
      BY <2>2 DEF Alike
    <3>2. PICK next \in Promise!Phases : next = PhaseOf(d)
      BY <2>4 DEF Proceeds, Promise!Course, Promise!Phases, Promise!Verdicts
    <3> DEFINE phase == [b \in Action |-> PhaseOf(actions[b])]
               released == [b \in Action |-> actions[b].recourse = "released"]
               executions == [b \in Action |-> actions[b].execute_calls]
               remedies == [b \in Action |-> actions[b].remedy_calls]
               receipt == [b \in Action |-> Outcome(actions[b])]
    <3>3. phase' = [phase EXCEPT ![a] = next]
      BY <3>1, <3>2 DEF Alike
    <3>4. executions' = [executions EXCEPT ![a] = IF next = "exposed" THEN @ + 1 ELSE @]
      BY <2>4, <3>1, <3>2 DEF Alike, Proceeds
    <3>5. remedies' = [remedies EXCEPT ![a] = IF next = "remedying" THEN @ + 1 ELSE @]
      BY <2>4, <3>1, <3>2 DEF Alike, Proceeds
    <3>6. released' \in {released} \cup
            (IF next \in Promise!Harmless THEN {[released EXCEPT ![a] = TRUE]} ELSE {})
      BY <2>4, <3>1, <3>2 DEF Alike, Proceeds
    <3>7. receipt' \in {receipt} \cup
            (IF next \in Promise!Verdicts THEN {[receipt EXCEPT ![a] = next]} ELSE {})
      BY <2>4, <3>1, <3>2 DEF Alike, Proceeds
    <3>8. <<phase[a], next>> \in Promise!Course
      BY <2>4, <3>2 DEF Proceeds
    <3>9. Promise!Proceed(a, next)
      BY <3>3, <3>4, <3>5, <3>6, <3>7, <3>8 DEF Promise!Proceed, Outcome
    <3> HIDE DEF phase, released, executions, remedies, receipt
    <3>10. Promise!Next
      BY <3>2, <3>9 DEF Promise!Next
    <3> QED
      BY <3>10
  <2> QED
    BY <2>1, <2>3, <2>4
<1> QED
  BY <1>1, <1>2, NextGoes

(* The rail implements module Settlement: an action is exposed at most     *)
(* once, remedied at most once and only after a breach, its recourse comes *)
(* back only when nothing is left to undo, and its one receipt says where  *)
(* the exposure ended.                                                     *)
THEOREM SettlementImplemented ==
    ASSUME "released" \notin Lapses
    PROVE  Spec => ImplementsSettlement
<1>1. Init => Inv /\ SettlementInv
  BY InitInv, InitSettlement
<1>2. Inv /\ SettlementInv /\ [Next]_vars => (Inv /\ SettlementInv)'
  BY NextInv, NextSettlement
<1>3. Init => Promise!Init
  <2>1. /\ PhaseOf(Unregistered) = "idle" /\ ~Exportable(Unregistered)
        /\ Unregistered.recourse = "none"
        /\ Unregistered.execute_calls = 0 /\ Unregistered.remedy_calls = 0
    BY DEF PhaseOf, Unregistered, Exportable, RECEIPT_STATES, DisputedStates
  <2> SUFFICES ASSUME Init PROVE Promise!Init
    OBVIOUS
  <2>2. \A a \in Action : actions[a] = Unregistered
    BY DEF Init
  <2> QED
    BY <2>1, <2>2 DEF Promise!Init
<1>4. Inv /\ SettlementInv /\ [Next]_vars => [Promise!Next]_(Promise!svars)
  BY StepImplements
<1> QED
  BY <1>1, <1>2, <1>3, <1>4, PTL DEF Spec, ImplementsSettlement, Promise!Spec

-------------------------------------------------------------------------------
Acceptances(c) ==
    {i \in DOMAIN c.events :
        c.events[i].type \in {"EVIDENCE_ACCEPTED", "REMEDY_EVIDENCE_ACCEPTED"}}

Finalized(c) == Logged(c, "RECOURSE_FINALIZED") \/ Logged(c, "RECOURSE_STATUS_RECORDED")

\* The record is what the log says.
Told(c) ==
    /\ c.state = "UNREGISTERED" => c.events = <<>>
    /\ c.state # "UNREGISTERED" => Led(c)
    /\ c.permit_uses = Cardinality(Entries(c, "EXECUTING"))
    /\ c.remedy_attempts = Cardinality(Entries(c, "REMEDIATING"))
    /\ c.permit_issued_at # Never <=> Entries(c, "PERMITTED") # {}
    /\ c.execution = "executed" => Entries(c, "EXECUTED") # {}
    /\ Len(c.evidence) = Cardinality(Acceptances(c))
    /\ c.final_status # "none" <=> Finalized(c)

\* Recourse stands behind every action from its reservation on.
Backed(c) ==
    c.state \notin {"UNREGISTERED", "PROPOSED", "AUTHORIZED", "DENIED"} =>
        c.recourse # "none"

AfterRemedyVerifying ==
    {"REMEDY_VERIFYING", "REMEDIATED", "REMEDY_FAILED", "REMEDY_INCONCLUSIVE", "CLOSED"}

\* Evidence about the remedy arrives no earlier than it was asked for.
Awaited(c) == c.awaiting["observeRemedy"] > 0 => c.state \in AfterRemedyVerifying

-------------------------------------------------------------------------------
(* The record follows the log. *)

(* As long as nothing the log tells of changes.                            *)
LEMMA ToldFields ==
    ASSUME NEW c, NEW d, Told(c),
           d.state = c.state, d.events = c.events,
           d.permit_uses = c.permit_uses, d.remedy_attempts = c.remedy_attempts,
           d.permit_issued_at = c.permit_issued_at,
           d.execution = "executed" =>
              c.execution = "executed" \/ c.state = "EXECUTED",
           d.evidence = c.evidence, d.final_status = c.final_status
    PROVE  Told(d)
<1>1. Moves(d) = Moves(c) /\ \A s : Entries(d, s) = Entries(c, s)
  BY DEF Moves, Entries
<1>2. Acceptances(d) = Acceptances(c) /\ (Finalized(d) <=> Finalized(c))
  BY DEF Acceptances, Finalized, Logged
<1>3. Led(c) => Led(d)
  BY <1>1 DEF Led
<1>4. c.state = "EXECUTED" => Entries(c, "EXECUTED") # {}
  BY DEF Told, Led, Entries
<1> QED
  BY <1>1, <1>2, <1>3, <1>4 DEF Told

(* As events other than moves are logged with what they report.            *)
LEMMA ToldLogs ==
    ASSUME NEW c \in Slice, NEW d \in Slice, Told(c),
           NEW type, NEW info, NEW t,
           Logs(c, d, type, info, t), type # "STATE_TRANSITION",
           \/ d.state = c.state /\ c.state # "UNREGISTERED"
           \/ d.state = "PROPOSED" /\ c.state = "UNREGISTERED",
           d.permit_uses = c.permit_uses, d.remedy_attempts = c.remedy_attempts,
           d.permit_issued_at = c.permit_issued_at, d.execution = c.execution,
           Len(d.evidence) = Len(c.evidence)
              + IF type \in {"EVIDENCE_ACCEPTED", "REMEDY_EVIDENCE_ACCEPTED"}
                THEN 1 ELSE 0,
           d.final_status # "none" <=>
              \/ c.final_status # "none"
              \/ type \in {"RECOURSE_FINALIZED", "RECOURSE_STATUS_RECORDED"}
    PROVE  Told(d)
<1> DEFINE n == Len(c.events)
<1>1. /\ Grows(c, d) /\ d.events[n + 1].type = type
      /\ Moves(d) = Moves(c) /\ \A s : Entries(d, s) = Entries(c, s)
  BY LogsGrows
<1>2. n \in Nat /\ DOMAIN c.events = 1 .. n /\ d.events # <<>>
  BY <1>1 DEF Grows
<1> HIDE DEF n
<1>3. \A i \in 1 .. n : d.events[i] = c.events[i]
  BY <1>1 DEF Grows, n
<1>4. DOMAIN d.events = 1 .. (n + 1)
  BY <1>1 DEF Grows, n
<1>5. Led(d)
  <2>1. CASE c.state = "UNREGISTERED"
    <3>1. Moves(c) = {}
      BY <2>1 DEF Told, Moves
    <3> QED
      BY <1>1, <2>1, <3>1 DEF Led
  <2>2. CASE c.state # "UNREGISTERED"
    <3>1. Led(c)
      BY <2>2 DEF Told
    <3>2. \A i \in Moves(c) : d.events[i] = c.events[i]
      BY <1>2, <1>3 DEF Moves
    <3> QED
      BY <1>1, <2>2, <3>1, <3>2 DEF Led
  <2> QED
    BY <2>1, <2>2
<1>6. Len(d.evidence) = Cardinality(Acceptances(d))
  <2>1. /\ Acceptances(c) \in SUBSET (1 .. n)
        /\ Len(c.evidence) = Cardinality(Acceptances(c))
    BY <1>2 DEF Acceptances, Told
  <2>2. Acceptances(d) = IF type \in {"EVIDENCE_ACCEPTED", "REMEDY_EVIDENCE_ACCEPTED"}
                         THEN Acceptances(c) \cup {n + 1} ELSE Acceptances(c)
    BY <1>1, <1>2, <1>3, <1>4 DEF Acceptances
  <2> QED
    BY <1>2, <2>1, <2>2, OneMore
<1>7. d.final_status # "none" <=> Finalized(d)
  <2>1. Finalized(d) <=> \/ Finalized(c)
                         \/ type \in {"RECOURSE_FINALIZED", "RECOURSE_STATUS_RECORDED"}
    BY <1>1, <1>2, <1>3, <1>4 DEF Finalized, Logged
  <2> QED
    BY <2>1 DEF Told
<1>8. d.state # "UNREGISTERED"
  OBVIOUS
<1> QED
  BY <1>1, <1>5, <1>6, <1>7, <1>8 DEF Told

(* As the state moves, with the counter and the permit of its own.         *)
LEMMA ToldMove ==
    ASSUME NEW c \in Slice, NEW d \in Slice, Told(c), c.state # "UNREGISTERED",
           d.state # "UNREGISTERED", NEW info, NEW t, LogsMove(c, d, info, t),
           d.permit_uses = c.permit_uses + IF d.state = "EXECUTING" THEN 1 ELSE 0,
           d.remedy_attempts =
              c.remedy_attempts + IF d.state = "REMEDIATING" THEN 1 ELSE 0,
           d.permit_issued_at # Never <=>
              c.permit_issued_at # Never \/ d.state = "PERMITTED",
           d.execution = c.execution, d.evidence = c.evidence,
           d.final_status = c.final_status
    PROVE  Told(d)
<1> DEFINE n == Len(c.events)
<1>1. /\ Grows(c, d) /\ d.events[n + 1].type = "STATE_TRANSITION"
      /\ Entries(d, d.state) = Entries(c, d.state) \cup {n + 1}
      /\ \A s : s # d.state => Entries(d, s) = Entries(c, s)
      /\ Led(d)
  BY LogsMoveGrows
<1>2. n \in Nat /\ DOMAIN c.events = 1 .. n
  BY <1>1 DEF Grows
<1> HIDE DEF n
<1>3. \A i \in 1 .. n : d.events[i] = c.events[i]
  BY <1>1 DEF Grows, n
<1>4. DOMAIN d.events = 1 .. (n + 1)
  BY <1>1 DEF Grows, n
<1>5. \A s : /\ Entries(c, s) \in SUBSET (1 .. n)
             /\ Entries(c, s) # {} => Entries(d, s) # {}
  <2>1. \A s : Entries(c, s) \in SUBSET (1 .. n)
    BY <1>2 DEF Entries, Moves
  <2> QED
    BY <1>1, <2>1
<1>6. /\ d.permit_uses = Cardinality(Entries(d, "EXECUTING"))
      /\ d.remedy_attempts = Cardinality(Entries(d, "REMEDIATING"))
  <2>1. \A s : s = d.state =>
           Cardinality(Entries(d, s)) = Cardinality(Entries(c, s)) + 1
    BY <1>1, <1>2, <1>5, OneMore
  <2>2. \A s : Cardinality(Entries(c, s)) \in Nat
    BY <1>2, <1>5, OneMore
  <2>3. \A s : Cardinality(Entries(d, s)) =
                  Cardinality(Entries(c, s)) + IF d.state = s THEN 1 ELSE 0
    BY <1>1, <2>1, <2>2
  <2> QED
    BY <2>3 DEF Told
<1>7. d.permit_issued_at # Never <=> Entries(d, "PERMITTED") # {}
  BY <1>1 DEF Told
<1>8. d.execution = "executed" => Entries(d, "EXECUTED") # {}
  BY <1>5 DEF Told
<1>9. Acceptances(d) = Acceptances(c) /\ (Finalized(d) <=> Finalized(c))
  BY <1>1, <1>2, <1>3, <1>4 DEF Acceptances, Finalized, Logged
<1> QED
  BY <1>1, <1>6, <1>7, <1>8, <1>9 DEF Told

-------------------------------------------------------------------------------
(* Each relation of a walk keeps record and log together. *)

Faithful(c) == c \in Slice /\ Told(c) /\ Backed(c) /\ Awaited(c) /\ Receipted(c)

(* A receipt keeps stating the outcome the action closed with.             *)
LEMMA ReceiptedFields ==
    ASSUME NEW c, Told(c), Receipted(c), NEW d, KeepsTop(c, d),
           d.state = c.state, d.receipt = c.receipt
    PROVE  Receipted(d)
<1>1. c.state = "CLOSED" => Topped(c)
  BY DEF Told, Led, Topped
<1> QED
  BY <1>1 DEF Receipted, KeepsTop

(* An answer, and the evidence it brings.                                  *)
LEMMA HeardTold ==
    ASSUME NEW c, Good(c), Faithful(c), NEW n, NEW op, NEW answer, NEW t,
           Heard(c, n, op, answer, t)
    PROVE  /\ Faithful(n) /\ n.state = c.state
           /\ n.preflight_required = c.preflight_required
           /\ n.qualified_until = c.qualified_until
           /\ n.qualified_implementation = c.qualified_implementation
           /\ n.remedy_calls = c.remedy_calls
           /\ n.receipt = c.receipt
<1>1. PICK w \in Slice : /\ Resumed(c, w, op, answer) \/ Reserved(c, w, op, answer)
                         /\ n = w \/ Rejected(w, n, op, t) \/ Accepted(w, n, op, t)
  BY DEF Heard
<1>2. n \in Slice /\ op \in Answering /\ c \in Slice
  BY DEF Heard, Faithful
<1>3. /\ Same(c, w, {"awaiting", "remedy_answer", "remedy_result", "recourse"})
      /\ w.recourse = c.recourse \/ w.recourse = "active"
  BY <1>1 DEF Resumed, Reserved, Same, Fields, Unregistered
<1>4. /\ w.state = c.state /\ w.events = c.events /\ w.receipt = c.receipt
      /\ w.permit_uses = c.permit_uses /\ w.remedy_attempts = c.remedy_attempts
      /\ w.permit_issued_at = c.permit_issued_at /\ w.execution = c.execution
      /\ w.evidence = c.evidence /\ w.final_status = c.final_status
      /\ w.preflight_required = c.preflight_required
      /\ w.qualified_until = c.qualified_until
      /\ w.qualified_implementation = c.qualified_implementation
      /\ w.remedy_calls = c.remedy_calls
  BY <1>3 DEF Same, Fields, Unregistered
<1>5. w.awaiting["observeRemedy"] > 0 => c.awaiting["observeRemedy"] > 0
  <2>1. c.awaiting \in [Operations -> Nat] /\ "observeRemedy" \in Operations
    BY <1>2 DEF Slice, Operations
  <2>2. CASE Resumed(c, w, op, answer)
    <3>1. \/ w.awaiting = c.awaiting
          \/ w.awaiting = [c.awaiting EXCEPT ![op] = c.awaiting[op] - 1]
      BY <2>2 DEF Resumed
    <3> QED
      BY <2>1, <3>1
  <2>3. CASE Reserved(c, w, op, answer)
    BY <2>3 DEF Reserved, Same, Fields, Unregistered
  <2> QED
    BY <1>1, <2>2, <2>3
<1>6. Faithful(w)
  <2>1. Told(w)
    BY <1>4, ToldFields DEF Faithful
  <2>2. Backed(w) /\ Awaited(w)
    BY <1>3, <1>4, <1>5 DEF Faithful, Backed, Awaited
  <2>3. Receipted(w)
    BY <1>4, TopFields, ReceiptedFields DEF Faithful
  <2> QED
    BY <2>1, <2>2, <2>3 DEF Faithful
<1>7. CASE n = w
  BY <1>4, <1>6, <1>7
<1>8. ASSUME NEW type \in {"EVIDENCE_REJECTED", "REMEDY_EVIDENCE_REJECTED",
                           "EVIDENCE_ACCEPTED", "REMEDY_EVIDENCE_ACCEPTED"},
             op \in {"observe", "observeRemedy"}, NEW info, NEW e,
             Logs(w, n, type, info, t), Same(w, n, {"events", "evidence"}),
             IF type \in {"EVIDENCE_ACCEPTED", "REMEDY_EVIDENCE_ACCEPTED"}
             THEN n.evidence = Append(w.evidence, e) ELSE n.evidence = w.evidence
      PROVE  Faithful(n) /\ Same(w, n, {"events", "evidence"})
  <2>1. /\ n.state = w.state /\ n.receipt = w.receipt
        /\ n.permit_uses = w.permit_uses /\ n.remedy_attempts = w.remedy_attempts
        /\ n.permit_issued_at = w.permit_issued_at /\ n.execution = w.execution
        /\ n.final_status = w.final_status /\ n.awaiting = w.awaiting
        /\ n.recourse = w.recourse
    BY <1>8 DEF Same, Fields, Unregistered
  <2>2. c.state # "UNREGISTERED"
    <3>1. c.awaiting[op] > 0
      BY <1>1, <1>8 DEF Resumed, Reserved
    <3>2. op = "observe" => c.state = "VERIFYING"
      BY <3>1 DEF Good, Resumable
    <3>3. op = "observeRemedy" => c.state \in AfterRemedyVerifying
      BY <3>1 DEF Faithful, Awaited
    <3> QED
      BY <1>8, <3>2, <3>3 DEF AfterRemedyVerifying
  <2>3. Len(n.evidence) = Len(w.evidence)
           + IF type \in {"EVIDENCE_ACCEPTED", "REMEDY_EVIDENCE_ACCEPTED"}
             THEN 1 ELSE 0
    <3>1. w.evidence \in Seq(Evidence)
      BY DEF Slice
    <3>2. Len(Append(w.evidence, e)) = Len(w.evidence) + 1 /\ Len(w.evidence) \in Nat
      BY <3>1
    <3>3. CASE type \in {"EVIDENCE_ACCEPTED", "REMEDY_EVIDENCE_ACCEPTED"}
      <4>1. n.evidence = Append(w.evidence, e)
        BY <1>8, <3>3
      <4> QED
        BY <3>2, <3>3, <4>1
    <3>4. CASE type \notin {"EVIDENCE_ACCEPTED", "REMEDY_EVIDENCE_ACCEPTED"}
      <4>1. n.evidence = w.evidence
        BY <1>8, <3>4
      <4> QED
        BY <3>2, <3>4, <4>1
    <3> QED
      BY <3>3, <3>4
  <2>4. /\ type # "STATE_TRANSITION"
        /\ type \notin {"RECOURSE_FINALIZED", "RECOURSE_STATUS_RECORDED"}
    BY <1>8
  <2>5. Told(n)
    BY <1>2, <1>4, <1>6, <1>8, <2>1, <2>2, <2>3, <2>4, ToldLogs DEF Faithful
  <2>6. Backed(n) /\ Awaited(n)
    BY <1>6, <2>1 DEF Faithful, Backed, Awaited
  <2>7. Receipted(n)
    <3>1. KeepsTop(w, n)
      BY <1>8, <2>4, TopLogs
    <3> QED
      BY <1>6, <2>1, <3>1, ReceiptedFields DEF Faithful
  <2> QED
    BY <1>2, <1>8, <2>5, <2>6, <2>7 DEF Faithful
<1>9. CASE Rejected(w, n, op, t)
  <2>1. n.evidence = w.evidence /\ Same(w, n, {"events", "evidence"})
    BY <1>9 DEF Rejected, Same, Fields, Unregistered
  <2>2. Faithful(n)
    BY <1>8, <1>9, <2>1 DEF Rejected
  <2> QED
    BY <1>4, <2>1, <2>2 DEF Same, Fields, Unregistered
<1>10. CASE Accepted(w, n, op, t)
  <2>1. PICK satisfied \in BOOLEAN, o \in Fresh, own \in Ownership :
        /\ \/ /\ op = "observe"
              /\ Logs(w, n, "EVIDENCE_ACCEPTED", Weighs(satisfied), t)
              /\ n.evidence = Append(w.evidence, [phase |-> "initial",
                                 satisfied |-> satisfied, observed_at |-> o, own |-> own])
           \/ /\ op = "observeRemedy"
              /\ Logs(w, n, "REMEDY_EVIDENCE_ACCEPTED", Weighs(satisfied), t)
              /\ n.evidence = Append(w.evidence, [phase |-> "post-remedy",
                                 satisfied |-> satisfied, observed_at |-> o, own |-> own])
        /\ Same(w, n, {"events", "evidence"})
    BY <1>10 DEF Accepted
  <2>2. Faithful(n)
    BY <1>8, <2>1
  <2> QED
    BY <1>4, <2>1, <2>2 DEF Same, Fields, Unregistered
<1> QED
  BY <1>1, <1>7, <1>9, <1>10

(* A move of the state.                                                    *)
LEMMA MovedTold ==
    ASSUME NEW n, Faithful(n), NEW m \in Slice, NEW t \in Nat, Moved(n, m, t),
           m.state \in {"EXPIRED", "REVOKED"} => n.state # "AUTHORIZED"
    PROVE  Faithful(m) /\ m.state # "CLOSED" /\ m.receipt = <<>>
<1>1. /\ <<n.state, m.state>> \in ALLOWED_TRANSITIONS /\ m.state # "CLOSED"
      /\ LogsMove(n, m, "", t)
  BY DEF Moved, Permits, Starts, Remedies, Marked
<1>2. /\ n.state \notin {"UNREGISTERED", "DENIED", "CLOSED"} /\ m.state # "UNREGISTERED"
      /\ n.state \in AfterRemedyVerifying => m.state \in AfterRemedyVerifying
      /\ m.state = "RECOURSE_RESERVED" <=> n.state = "AUTHORIZED"
                                           /\ m.state \notin {"EXPIRED", "REVOKED"}
      /\ m.state \in {"AUTHORIZED", "DENIED"} <=> n.state = "PROPOSED"
  BY <1>1 DEF ALLOWED_TRANSITIONS, AfterRemedyVerifying
<1>3. /\ m.permit_uses = n.permit_uses + IF m.state = "EXECUTING" THEN 1 ELSE 0
      /\ m.remedy_attempts =
            n.remedy_attempts + IF m.state = "REMEDIATING" THEN 1 ELSE 0
      /\ m.permit_issued_at # Never <=>
            n.permit_issued_at # Never \/ m.state = "PERMITTED"
      /\ m.execution = n.execution /\ m.evidence = n.evidence
      /\ m.final_status = n.final_status /\ m.receipt = n.receipt
      /\ m.awaiting = n.awaiting
      /\ m.recourse = n.recourse \/ m.recourse # "none"
      /\ m.state = "RECOURSE_RESERVED" => m.recourse # "none"
  <2>1. n.permit_uses \in Nat /\ n.remedy_attempts \in Nat /\ t # Never
    BY DEF Faithful, Slice, Never
  <2>2. CASE Permits(n, m, t)
    BY <2>1, <2>2 DEF Permits, Same, Fields, Unregistered
  <2>3. CASE Starts(n, m)
    BY <2>1, <2>3 DEF Starts, Same, Fields, Unregistered
  <2>4. CASE Remedies(n, m)
    BY <2>1, <2>4 DEF Remedies, Same, Fields, Unregistered, Spent
  <2>5. CASE /\ m.state \notin {"EXECUTING", "REMEDIATING", "PERMITTED"}
             /\ m.state = "RECOURSE_RESERVED" => n.recourse = "active"
             /\ Same(n, m, {"state", "events", "preflight_required", "kind",
                            "reserved_at", "reserved_until", "max_attempts"})
    BY <2>1, <2>5 DEF Same, Fields, Unregistered
  <2> QED
    BY <2>2, <2>3, <2>4, <2>5 DEF Moved, Same, Marked
<1>4. Told(m)
  BY <1>1, <1>2, <1>3, ToldMove DEF Faithful
<1>5. Backed(m)
  BY <1>2, <1>3 DEF Faithful, Backed
<1>6. Awaited(m)
  BY <1>2, <1>3 DEF Faithful, Awaited
<1>7. Receipted(m) /\ m.receipt = <<>>
  BY <1>1, <1>2, <1>3 DEF Faithful, Receipted
<1> QED
  BY <1>1, <1>4, <1>5, <1>6, <1>7 DEF Faithful

(* The end of an action: its recourse, its status and its receipt.         *)
LEMMA EndingTold ==
    ASSUME NEW m, Faithful(m), m.state \notin {"UNREGISTERED", "CLOSED"},
           m.receipt = <<>>, NEW x \in Slice, NEW t \in Nat, Ending(m, x, t)
    PROVE  Faithful(x) /\ (x.state = m.state \/ x.state = "CLOSED")
<1>1. PICK r, f \in Slice : /\ r = m \/ Returned(m, r)
                            /\ f = r \/ Recorded(r, f, t)
                            /\ x = f \/ Closed(f, x, t)
  BY DEF Ending
<1>2. Faithful(r) /\ r.state = m.state /\ r.receipt = m.receipt
  <2>1. CASE Returned(m, r)
    <3>1. /\ r.state = m.state /\ r.events = m.events /\ r.receipt = m.receipt
          /\ r.permit_uses = m.permit_uses /\ r.remedy_attempts = m.remedy_attempts
          /\ r.permit_issued_at = m.permit_issued_at /\ r.execution = m.execution
          /\ r.evidence = m.evidence /\ r.final_status = m.final_status
          /\ r.awaiting = m.awaiting
          /\ m.recourse # "none" => r.recourse # "none"
      BY <2>1 DEF Returned, Same, Fields, Unregistered
    <3>2. Told(r)
      BY <3>1, ToldFields DEF Faithful
    <3> QED
      BY <3>1, <3>2 DEF Faithful, Backed, Awaited, Receipted
  <2> QED
    BY <1>1, <2>1
<1>3. Faithful(f) /\ f.state = m.state /\ f.receipt = m.receipt
  <2>1. CASE Recorded(r, f, t)
    <3> DEFINE type == IF r.recourse = "active" THEN "RECOURSE_STATUS_RECORDED"
                                                ELSE "RECOURSE_FINALIZED"
    <3>1. /\ f.state = r.state /\ f.receipt = r.receipt
          /\ f.permit_uses = r.permit_uses /\ f.remedy_attempts = r.remedy_attempts
          /\ f.permit_issued_at = r.permit_issued_at /\ f.execution = r.execution
          /\ f.evidence = r.evidence /\ f.final_status = r.recourse
          /\ f.awaiting = r.awaiting /\ f.recourse = r.recourse
      BY <2>1 DEF Recorded, Same, Fields, Unregistered
    <3>2. /\ Logs(r, f, type, r.recourse, t)
          /\ r.state \in EndStates
      BY <2>1 DEF Recorded
    <3>3. /\ type \in {"RECOURSE_FINALIZED", "RECOURSE_STATUS_RECORDED"}
          /\ type \notin {"EVIDENCE_ACCEPTED", "REMEDY_EVIDENCE_ACCEPTED"}
          /\ type # "STATE_TRANSITION"
      OBVIOUS
    <3>4. f.final_status # "none"
      BY <1>2, <3>1, <3>2 DEF Faithful, Backed, EndStates, WithdrawnStates,
                              RECEIPT_STATES, DisputedStates
    <3> HIDE DEF type
    <3>5. r.evidence \in Seq(Evidence) /\ Len(r.evidence) \in Nat
      BY DEF Slice
    <3>6. Len(f.evidence) = Len(r.evidence) + 0
      BY <3>1, <3>5
    <3>7. Told(f)
      BY <1>2, <3>1, <3>2, <3>3, <3>4, <3>6, ToldLogs DEF Faithful
    <3> QED
      BY <1>2, <3>1, <3>7 DEF Faithful, Backed, Awaited, Receipted
  <2> QED
    BY <1>1, <1>2, <2>1
<1>4. CASE Closed(f, x, t)
  <2>1. /\ x.state = "CLOSED"
        /\ x.permit_uses = f.permit_uses /\ x.remedy_attempts = f.remedy_attempts
        /\ x.permit_issued_at = f.permit_issued_at /\ x.execution = f.execution
        /\ x.evidence = f.evidence /\ x.final_status = f.final_status
        /\ x.awaiting = f.awaiting /\ x.recourse = f.recourse
    BY <1>4 DEF Closed, Same, Fields, Unregistered
  <2>2. LogsMove(f, x, RECEIPT_OUTCOME_BY_STATE[f.state], t) /\ f.state \in RECEIPT_STATES
    BY <1>4 DEF Closed
  <2>3. f.permit_uses \in Nat /\ f.remedy_attempts \in Nat
    BY DEF Slice
  <2>4. Told(x)
    BY <1>3, <2>1, <2>2, <2>3, ToldMove DEF Faithful
  <2>5. Backed(x)
    BY <1>3, <2>1, <2>2 DEF Faithful, Backed, RECEIPT_STATES, DisputedStates
  <2>6. ClosedAs(x) = RECEIPT_OUTCOME_BY_STATE[f.state]
    BY <2>2, ToppedMoves
  <2>7. Receipted(x)
    BY <1>3, <1>4, <2>1, <2>6 DEF Closed, Receipted
  <2> QED
    BY <2>1, <2>4, <2>5, <2>7 DEF Faithful, Awaited, AfterRemedyVerifying
<1> QED
  BY <1>1, <1>3, <1>4

(* A result, and the next call.                                            *)
LEMMA ResultedTold ==
    ASSUME NEW x, Faithful(x), NEW d \in Slice, Resulted(x, d)
    PROVE  Faithful(d) /\ d.state = x.state
<1>1. /\ d.state = x.state /\ d.events = x.events /\ d.receipt = x.receipt
      /\ d.permit_uses = x.permit_uses /\ d.remedy_attempts = x.remedy_attempts
      /\ d.permit_issued_at = x.permit_issued_at
      /\ d.evidence = x.evidence /\ d.final_status = x.final_status
      /\ d.recourse = x.recourse
      /\ d.execution = "executed" => x.execution = "executed" \/ x.state = "EXECUTED"
  BY DEF Resulted, Same, Fields, Unregistered
<1>2. Told(d)
  BY <1>1, ToldFields DEF Faithful
<1>3. Awaited(d)
  <2>1. CASE d.awaiting = x.awaiting
    BY <1>1, <2>1 DEF Faithful, Awaited
  <2>2. CASE Called(x, d)
    <3> DEFINE op == CallOf(d.state)
    <3>1. /\ d.state \in WaitingStates
          /\ d.awaiting = [x.awaiting EXCEPT ![op] = x.awaiting[op] + 1]
      BY <2>2 DEF Called
    <3>2. x.awaiting \in [Operations -> Nat] /\ "observeRemedy" \in Operations
      BY DEF Faithful, Slice, Operations
    <3>3. CASE op = "observeRemedy"
      BY <3>1, <3>3 DEF CallOf, WaitingStates, Awaited, AfterRemedyVerifying
    <3>4. CASE op # "observeRemedy"
      <4>1. d.awaiting["observeRemedy"] = x.awaiting["observeRemedy"]
        BY <3>1, <3>2, <3>4
      <4> QED
        BY <1>1, <4>1 DEF Faithful, Awaited
    <3> QED
      BY <3>3, <3>4
  <2> QED
    BY <2>1, <2>2 DEF Resulted
<1>4. Receipted(d)
  BY <1>1, TopFields, ReceiptedFields DEF Faithful
<1> QED
  BY <1>1, <1>2, <1>3, <1>4 DEF Faithful, Backed

(* A move and what follows it.                                             *)
LEMMA LeftTold ==
    ASSUME NEW n, Faithful(n), NEW op, NEW answer, NEW d \in Slice, NEW t \in Nat,
           Left(op, answer, n, d, t)
    PROVE  Faithful(d)
<1>1. PICK m \in Slice, x \in Slice :
         /\ Leaves(op, answer, n.state, m.state)
         /\ Moved(n, m, t)
         /\ Ending(m, x, t) \/ (Moved(m, x, t) /\ x.state = "REMEDY_DUE")
         /\ Resulted(x, d)
  BY DEF Left
<1>2. Faithful(m) /\ m.state # "CLOSED" /\ m.receipt = <<>>
  BY <1>1, MovedTold DEF Leaves
<1>3. m.state # "UNREGISTERED"
  BY <1>1 DEF Moved, ALLOWED_TRANSITIONS
<1>4. Faithful(x)
  BY <1>1, <1>2, <1>3, EndingTold, MovedTold
<1> QED
  BY <1>1, <1>4, ResultedTold

(* Every step of the rail.                                                 *)
LEMMA GoesTold ==
    ASSUME NEW c, Good(c), Faithful(c), NEW d \in Slice, NEW t \in Nat, Goes(c, d, t)
    PROVE  Faithful(d)
<1>1. c \in Slice
  BY DEF Faithful
<1>2. CASE Proposed(c, d, t)
  <2>1. /\ c.state = "UNREGISTERED" /\ d.state = "PROPOSED"
        /\ Logs(c, d, "ACTION_PROPOSED", "PROPOSED", t)
        /\ d.permit_uses = c.permit_uses /\ d.remedy_attempts = c.remedy_attempts
        /\ d.permit_issued_at = c.permit_issued_at /\ d.execution = c.execution
        /\ d.evidence = c.evidence /\ d.final_status = c.final_status
        /\ d.awaiting = c.awaiting /\ d.receipt = c.receipt
    BY <1>2 DEF Proposed, Same, Fields, Unregistered
  <2>2. c.evidence \in Seq(Evidence) /\ Len(c.evidence) \in Nat
    BY <1>1 DEF Slice
  <2>3. Len(d.evidence) = Len(c.evidence) + 0
    BY <2>1, <2>2
  <2>4. Told(d)
    BY <1>1, <2>1, <2>3, ToldLogs DEF Faithful
  <2> QED
    BY <2>1, <2>4 DEF Faithful, Backed, Awaited, Receipted, AfterRemedyVerifying
<1>3. CASE Qualifies(c, d, t)
  <2>1. /\ c.state = "RECOURSE_RESERVED" /\ d.state = c.state
        /\ Logs(c, d, "RECOVERY_PREFLIGHT_ACCEPTED", "QUALIFIED_EXACT", t)
        /\ d.permit_uses = c.permit_uses /\ d.remedy_attempts = c.remedy_attempts
        /\ d.permit_issued_at = c.permit_issued_at /\ d.execution = c.execution
        /\ d.evidence = c.evidence /\ d.final_status = c.final_status
        /\ d.awaiting = c.awaiting /\ d.receipt = c.receipt
        /\ d.recourse = c.recourse
    BY <1>3 DEF Qualifies, Same, Fields, Unregistered
  <2>2. c.evidence \in Seq(Evidence) /\ Len(c.evidence) \in Nat
    BY <1>1 DEF Slice
  <2>3. Len(d.evidence) = Len(c.evidence) + 0
    BY <2>1, <2>2
  <2>4. Told(d)
    BY <1>1, <2>1, <2>3, ToldLogs DEF Faithful
  <2> QED
    BY <2>1, <2>4 DEF Faithful, Backed, Awaited, Receipted
<1>4. CASE Asked(c, d) \/ LapsesTo(c, d)
  <2>1. /\ d.state = c.state /\ d.events = c.events
        /\ d.permit_uses = c.permit_uses /\ d.remedy_attempts = c.remedy_attempts
        /\ d.permit_issued_at = c.permit_issued_at /\ d.execution = c.execution
        /\ d.evidence = c.evidence /\ d.final_status = c.final_status
        /\ d.receipt = c.receipt
    BY <1>4 DEF Asked, LapsesTo, Same, Fields, Unregistered
  <2>2. d.recourse = c.recourse \/ d.recourse # "none"
    BY <1>4, EnvironmentAssumption
       DEF Asked, LapsesTo, Same, Fields, Unregistered, RecourseStatuses,
           RECEIPT_RECOURSE_STATUSES
  <2>3. d.awaiting["observeRemedy"] = c.awaiting["observeRemedy"]
    <3>1. c.awaiting \in [Operations -> Nat] /\ "observeRemedy" \in Operations
      BY <1>1 DEF Slice, Operations
    <3>2. CASE Asked(c, d)
      <4>1. PICK op \in {"reconcile", "reconcileRemedy"} :
               d.awaiting = [c.awaiting EXCEPT ![op] = c.awaiting[op] + 1]
        BY <3>2 DEF Asked
      <4> QED
        BY <3>1, <4>1
    <3>3. CASE LapsesTo(c, d)
      BY <3>3 DEF LapsesTo, Same, Fields, Unregistered
    <3> QED
      BY <1>4, <3>2, <3>3
  <2>4. Told(d)
    BY <2>1, ToldFields DEF Faithful
  <2>5. Receipted(d)
    BY <2>1, TopFields, ReceiptedFields DEF Faithful
  <2> QED
    BY <2>1, <2>2, <2>3, <2>4, <2>5 DEF Faithful, Backed, Awaited
<1>5. ASSUME NEW op, NEW answer, NEW n, Heard(c, n, op, answer, t),
             (d = n /\ Paused(op, n)) \/ Left(op, answer, n, d, t)
      PROVE  Faithful(d)
  <2>1. Faithful(n)
    BY <1>5, HeardTold
  <2> QED
    BY <1>5, <2>1, LeftTold
<1> QED
  BY <1>2, <1>3, <1>4, <1>5 DEF Goes, Walk

-------------------------------------------------------------------------------
(* The preflight an authorization requires. *)

\* The states an action passes, or is withdrawn to, without a permit.
Unpermitted ==
    {"UNREGISTERED", "PROPOSED", "AUTHORIZED", "DENIED", "RECOURSE_RESERVED",
     "EXPIRED", "REVOKED"}

\* An accepted preflight is in the log, and a required one is there before the
\* permit is issued; an action that has a permit has it.
Drilled(c) ==
    /\ c.state \in {"UNREGISTERED", "PROPOSED"} => Moves(c) = {}
    /\ Qualified(c) => Logged(c, "RECOVERY_PREFLIGHT_ACCEPTED")
    /\ c.preflight_required =>
          /\ c.state \notin Unpermitted => Qualified(c)
          /\ \A i \in Entries(c, "PERMITTED") :
                \E j \in 1 .. i : c.events[j].type = "RECOVERY_PREFLIGHT_ACCEPTED"

(* A longer log still holds what a shorter one held.                       *)
LEMMA GrowsHolds ==
    ASSUME NEW c, NEW d, Grows(c, d)
    PROVE  /\ \A type : Logged(c, type) => Logged(d, type)
           /\ \A i \in Entries(c, "PERMITTED") : \A j \in 1 .. i :
                 d.events[j] = c.events[j]
<1>1. \A i \in Entries(c, "PERMITTED") : i \in 1 .. Len(c.events)
  BY DEF Entries, Moves, Grows
<1>2. \A i \in DOMAIN c.events : i \in DOMAIN d.events /\ d.events[i] = c.events[i]
  BY DEF Grows
<1>3. \A type : Logged(c, type) => Logged(d, type)
  BY <1>2 DEF Logged
<1>4. ASSUME NEW i \in Entries(c, "PERMITTED"), NEW j \in 1 .. i
      PROVE  d.events[j] = c.events[j]
  <2>1. j \in 1 .. Len(c.events)
    BY <1>1 DEF Grows
  <2> QED
    BY <2>1 DEF Grows
<1> QED
  BY <1>3, <1>4

(* Nothing but moves and decisions bears on the preflight.                 *)
LEMMA DrilledFields ==
    ASSUME NEW c, NEW d, Drilled(c), d.state = c.state, d.events = c.events,
           d.preflight_required = c.preflight_required,
           d.qualified_until = c.qualified_until
    PROVE  Drilled(d)
<1>1. Moves(d) = Moves(c) /\ Entries(d, "PERMITTED") = Entries(c, "PERMITTED")
  BY DEF Moves, Entries
<1>2. (Qualified(d) <=> Qualified(c)) /\ \A type : Logged(d, type) <=> Logged(c, type)
  BY DEF Qualified, Logged
<1> QED
  BY <1>1, <1>2 DEF Drilled

(* An accepted preflight is logged; other events leave it as it was.       *)
LEMMA DrilledLogs ==
    ASSUME NEW c \in Slice, NEW d, Drilled(c), NEW type, NEW info, NEW t,
           Logs(c, d, type, info, t), type # "STATE_TRANSITION",
           \/ d.state = c.state
           \/ c.state = "UNREGISTERED" /\ d.state = "PROPOSED",
           d.preflight_required = c.preflight_required,
           \/ d.qualified_until = c.qualified_until
           \/ type = "RECOVERY_PREFLIGHT_ACCEPTED" /\ Qualified(d)
    PROVE  Drilled(d)
<1>1. /\ Grows(c, d) /\ d.events[Len(c.events) + 1].type = type
      /\ Moves(d) = Moves(c) /\ Entries(d, "PERMITTED") = Entries(c, "PERMITTED")
  BY LogsGrows
<1>2. /\ \A e : Logged(c, e) => Logged(d, e)
      /\ \A i \in Entries(c, "PERMITTED") : \A j \in 1 .. i : d.events[j] = c.events[j]
  BY <1>1, GrowsHolds
<1>3. Logged(d, type)
  BY <1>1 DEF Grows, Logged
<1>4. Qualified(d) => Qualified(c) \/ type = "RECOVERY_PREFLIGHT_ACCEPTED"
  BY DEF Qualified
<1>5. Qualified(c) => Qualified(d)
  BY DEF Qualified
<1>6. c.state = "UNREGISTERED" => c.state \in Unpermitted /\ "PROPOSED" \in Unpermitted
  BY DEF Unpermitted
<1> QED
  BY <1>1, <1>2, <1>3, <1>4, <1>5, <1>6 DEF Drilled

(* A permit is issued on the accepted preflight alone.                     *)
LEMMA DrilledMove ==
    ASSUME NEW c \in Slice, NEW d, Drilled(c), NEW info, NEW t,
           LogsMove(c, d, info, t), <<c.state, d.state>> \in ALLOWED_TRANSITIONS,
           \/ d.preflight_required = c.preflight_required
           \/ d.state \in {"AUTHORIZED", "DENIED"},
           d.qualified_until = c.qualified_until,
           d.state = "PERMITTED" /\ c.preflight_required => Qualified(c)
    PROVE  Drilled(d)
<1> DEFINE n == Len(c.events)
<1>1. /\ Grows(c, d)
      /\ Entries(d, d.state) = Entries(c, d.state) \cup {n + 1}
      /\ \A s : s # d.state => Entries(d, s) = Entries(c, s)
  BY LogsMoveGrows
<1>2. /\ \A e : Logged(c, e) => Logged(d, e)
      /\ \A i \in Entries(c, "PERMITTED") : \A j \in 1 .. i : d.events[j] = c.events[j]
  BY <1>1, GrowsHolds
<1>3. Qualified(d) <=> Qualified(c)
  BY DEF Qualified
<1>4. d.state \notin {"UNREGISTERED", "PROPOSED"}
  BY DEF ALLOWED_TRANSITIONS
<1>5. CASE d.state \in {"AUTHORIZED", "DENIED"}
  <2>1. c.state = "PROPOSED"
    BY <1>5 DEF ALLOWED_TRANSITIONS
  <2>2. Entries(c, "PERMITTED") = {}
    BY <2>1 DEF Drilled, Entries
  <2>3. Entries(d, "PERMITTED") = {}
    BY <1>1, <1>5, <2>2
  <2>4. d.state \in Unpermitted
    BY <1>5 DEF Unpermitted
  <2> QED
    BY <1>2, <1>3, <1>4, <2>3, <2>4 DEF Drilled
<1>6. CASE d.state \notin {"AUTHORIZED", "DENIED"}
  <2>1. c.preflight_required /\ d.state \notin Unpermitted => Qualified(c)
    <3>1. d.state \notin Unpermitted =>
             d.state = "PERMITTED" \/ c.state \notin Unpermitted
      BY DEF ALLOWED_TRANSITIONS, Unpermitted
    <3> QED
      BY <3>1 DEF Drilled
  <2>2. ASSUME c.preflight_required, NEW i \in Entries(d, "PERMITTED")
        PROVE  \E j \in 1 .. i : d.events[j].type = "RECOVERY_PREFLIGHT_ACCEPTED"
    <3>1. CASE i \in Entries(c, "PERMITTED")
      <4>1. PICK j \in 1 .. i : c.events[j].type = "RECOVERY_PREFLIGHT_ACCEPTED"
        BY <2>2, <3>1 DEF Drilled
      <4> QED
        BY <1>2, <3>1, <4>1
    <3>2. CASE i \notin Entries(c, "PERMITTED")
      <4>1. d.state = "PERMITTED" /\ i = n + 1
        BY <1>1, <2>2, <3>2
      <4>2. Logged(c, "RECOVERY_PREFLIGHT_ACCEPTED")
        BY <2>2, <4>1 DEF Drilled
      <4>3. PICK j \in 1 .. n : c.events[j].type = "RECOVERY_PREFLIGHT_ACCEPTED"
        BY <1>1, <4>2 DEF Logged, Grows
      <4>4. j \in 1 .. i /\ d.events[j] = c.events[j]
        BY <1>1, <4>1, <4>3 DEF Grows
      <4> QED
        BY <4>3, <4>4
    <3> QED
      BY <3>1, <3>2
  <2> QED
    BY <1>2, <1>3, <1>4, <1>6, <2>1, <2>2 DEF Drilled
<1> QED
  BY <1>5, <1>6

(* An answer bears on no preflight.                                        *)
LEMMA HeardDrilled ==
    ASSUME NEW c \in Slice, Drilled(c), NEW n, NEW op, NEW answer, NEW t,
           Heard(c, n, op, answer, t)
    PROVE  Drilled(n)
<1>1. PICK w \in Slice : /\ Resumed(c, w, op, answer) \/ Reserved(c, w, op, answer)
                         /\ n = w \/ Rejected(w, n, op, t) \/ Accepted(w, n, op, t)
  BY DEF Heard
<1>2. Drilled(w)
  <2>1. /\ w.state = c.state /\ w.events = c.events
        /\ w.preflight_required = c.preflight_required
        /\ w.qualified_until = c.qualified_until
    BY <1>1 DEF Resumed, Reserved, Same, Fields, Unregistered
  <2> QED
    BY <2>1, DrilledFields
<1>3. CASE n = w
  BY <1>2, <1>3
<1>4. CASE n # w
  <2>1. /\ n.state = w.state
        /\ n.preflight_required = w.preflight_required
        /\ n.qualified_until = w.qualified_until
    <3>1. Same(w, n, {"events", "evidence"})
      BY <1>1, <1>4 DEF Rejected, Accepted, Same
    <3> QED
      BY <3>1 DEF Same, Fields, Unregistered
  <2>2. PICK type \in EventTypes :
           type # "STATE_TRANSITION" /\ \E info : Logs(w, n, type, info, t)
    BY <1>1, <1>4 DEF Rejected, Accepted, EventTypes
  <2> QED
    BY <1>2, <2>1, <2>2, DrilledLogs
<1> QED
  BY <1>3, <1>4

(* A move takes a permit on its preflight, and a remedy on its binding.    *)
LEMMA MovedDrilled ==
    ASSUME NEW n \in Slice, Drilled(n), NEW m, NEW t, Moved(n, m, t)
    PROVE  /\ Drilled(m)
           /\ m.remedy_calls # n.remedy_calls /\ n.preflight_required =>
                 /\ m.state = "REMEDIATING"
                 /\ n.qualified_implementation = implementation
<1>1. /\ <<n.state, m.state>> \in ALLOWED_TRANSITIONS
      /\ LogsMove(n, m, "", t)
  BY DEF Moved
<1>2. /\ \/ m.preflight_required = n.preflight_required
         \/ m.state \in {"AUTHORIZED", "DENIED"}
      /\ m.qualified_until = n.qualified_until
      /\ m.state = "PERMITTED" /\ n.preflight_required => Qualified(n)
      /\ m.remedy_calls # n.remedy_calls => Remedies(n, m)
  <2>1. CASE Permits(n, m, t)
    BY <2>1 DEF Permits, Same, Fields, Unregistered
  <2>2. CASE Starts(n, m)
    BY <2>2 DEF Starts, Same, Fields, Unregistered
  <2>3. CASE Remedies(n, m)
    BY <2>3 DEF Remedies, Same, Fields, Unregistered
  <2>4. CASE /\ m.state \in {"AUTHORIZED", "DENIED"}
             /\ Same(n, m, {"state", "events", "preflight_required"})
    BY <2>4 DEF Same, Fields, Unregistered
  <2>5. CASE /\ m.state # "PERMITTED"
             /\ Same(n, m, {"state", "events", "kind", "reserved_at", "reserved_until",
                            "max_attempts"})
    BY <2>5 DEF Same, Fields, Unregistered
  <2> QED
    BY <2>1, <2>2, <2>3, <2>4, <2>5 DEF Moved, Same, Marked
<1>3. Drilled(m)
  BY <1>1, <1>2, DrilledMove
<1>4. ASSUME m.remedy_calls # n.remedy_calls, n.preflight_required
      PROVE  m.state = "REMEDIATING" /\ n.qualified_implementation = implementation
  <2>1. /\ m.state = "REMEDIATING"
        /\ Qualified(n) => n.qualified_implementation = implementation
    BY <1>2, <1>4 DEF Remedies
  <2>2. n.state \notin Unpermitted
    BY <1>1, <2>1 DEF ALLOWED_TRANSITIONS, Unpermitted
  <2> QED
    BY <1>4, <2>1, <2>2 DEF Drilled
<1> QED
  BY <1>3, <1>4

(* Nor does the end of an action, nor a result, bear on it.                *)
LEMMA EndingDrilled ==
    ASSUME NEW m \in Slice, Drilled(m), m.state \notin {"UNREGISTERED", "CLOSED"},
           NEW x, NEW t, Ending(m, x, t)
    PROVE  Drilled(x) /\ x.remedy_calls = m.remedy_calls
<1>1. PICK r, f \in Slice : /\ r = m \/ Returned(m, r)
                            /\ f = r \/ Recorded(r, f, t)
                            /\ x = f \/ Closed(f, x, t)
  BY DEF Ending
<1>2. Drilled(r) /\ r.state = m.state /\ r.remedy_calls = m.remedy_calls
  <2>1. /\ r.state = m.state /\ r.events = m.events
        /\ r.preflight_required = m.preflight_required
        /\ r.qualified_until = m.qualified_until /\ r.remedy_calls = m.remedy_calls
    BY <1>1 DEF Returned, Same, Fields, Unregistered
  <2> QED
    BY <2>1, DrilledFields
<1>3. Drilled(f) /\ f.remedy_calls = m.remedy_calls
  <2>1. CASE f = r
    BY <1>2, <2>1
  <2>2. CASE Recorded(r, f, t)
    <3>1. /\ f.state = r.state
          /\ f.preflight_required = r.preflight_required
          /\ f.qualified_until = r.qualified_until /\ f.remedy_calls = r.remedy_calls
      BY <2>2 DEF Recorded, Same, Fields, Unregistered
    <3>2. PICK type \in EventTypes :
           type # "STATE_TRANSITION" /\ \E info : Logs(r, f, type, info, t)
      BY <2>2 DEF Recorded, EventTypes
    <3> QED
      BY <1>2, <3>1, <3>2, DrilledLogs
  <2> QED
    BY <1>1, <2>1, <2>2
<1>4. CASE x = f
  BY <1>3, <1>4
<1>5. CASE Closed(f, x, t)
  <2>1. /\ x.state = "CLOSED"
        /\ x.preflight_required = f.preflight_required
        /\ x.qualified_until = f.qualified_until /\ x.remedy_calls = f.remedy_calls
    BY <1>5 DEF Closed, Same, Fields, Unregistered
  <2>2. LogsMove(f, x, RECEIPT_OUTCOME_BY_STATE[f.state], t) /\ f.state \in RECEIPT_STATES
    BY <1>5 DEF Closed
  <2>3. <<f.state, x.state>> \in ALLOWED_TRANSITIONS
    BY <2>1, <2>2 DEF ALLOWED_TRANSITIONS, RECEIPT_STATES, DisputedStates
  <2> QED
    BY <1>3, <2>1, <2>2, <2>3, DrilledMove
<1> QED
  BY <1>1, <1>4, <1>5

(* A resumed segment keeps the drill, and calls the measured remedy only.  *)
LEMMA LeftDrilled ==
    ASSUME NEW n \in Slice, Drilled(n), NEW op, NEW answer, NEW d, NEW t,
           Left(op, answer, n, d, t)
    PROVE  /\ Drilled(d)
           /\ d.remedy_calls # n.remedy_calls /\ n.preflight_required =>
                 n.qualified_implementation = implementation
<1>1. PICK m \in Slice, x \in Slice :
         /\ Moved(n, m, t)
         /\ Ending(m, x, t) \/ (Moved(m, x, t) /\ x.state = "REMEDY_DUE")
         /\ Resulted(x, d)
  BY DEF Left
<1>2. /\ Drilled(m)
      /\ m.remedy_calls # n.remedy_calls /\ n.preflight_required =>
            n.qualified_implementation = implementation
  BY <1>1, MovedDrilled
<1>3. m.state \notin {"UNREGISTERED", "CLOSED"}
  BY <1>1 DEF Moved, ALLOWED_TRANSITIONS, Permits, Starts, Remedies, Marked
<1>4. Drilled(x) /\ x.remedy_calls = m.remedy_calls
  <2>1. CASE Ending(m, x, t)
    BY <1>2, <1>3, <2>1, EndingDrilled
  <2>2. CASE Moved(m, x, t) /\ x.state = "REMEDY_DUE"
    <3>1. Drilled(x)
      BY <1>2, <2>2, MovedDrilled
    <3>2. x.remedy_calls = m.remedy_calls
      BY <2>2 DEF Moved, Permits, Starts, Remedies, Same, Fields, Unregistered
    <3> QED
      BY <3>1, <3>2
  <2> QED
    BY <1>1, <2>1, <2>2
<1>5. /\ d.state = x.state /\ d.events = x.events
      /\ d.preflight_required = x.preflight_required
      /\ d.qualified_until = x.qualified_until /\ d.remedy_calls = x.remedy_calls
  BY <1>1 DEF Resulted, Same, Fields, Unregistered
<1>6. Drilled(d)
  BY <1>4, <1>5, DrilledFields
<1> QED
  BY <1>2, <1>4, <1>5, <1>6

(* A step of the rail permits and remedies on the accepted preflight alone. *)
LEMMA GoesDrilled ==
    ASSUME NEW c, Good(c), Faithful(c), Drilled(c), NEW d, NEW t, Goes(c, d, t)
    PROVE  /\ Drilled(d)
           /\ d.remedy_calls # c.remedy_calls /\ c.preflight_required =>
                 c.qualified_implementation = implementation
<1>1. c \in Slice
  BY DEF Faithful
<1>2. CASE Proposed(c, d, t)
  <2>1. /\ c.state = "UNREGISTERED" /\ d.state = "PROPOSED"
        /\ Logs(c, d, "ACTION_PROPOSED", "PROPOSED", t)
        /\ d.preflight_required = c.preflight_required
        /\ d.qualified_until = c.qualified_until /\ d.remedy_calls = c.remedy_calls
    BY <1>2 DEF Proposed, Same, Fields, Unregistered
  <2>2. Drilled(d)
    BY <1>1, <2>1, DrilledLogs
  <2> QED
    BY <2>1, <2>2
<1>3. CASE Qualifies(c, d, t)
  <2>1. /\ d.state = c.state
        /\ Logs(c, d, "RECOVERY_PREFLIGHT_ACCEPTED", "QUALIFIED_EXACT", t)
        /\ d.preflight_required = c.preflight_required
        /\ Qualified(d) /\ d.remedy_calls = c.remedy_calls
    BY <1>3 DEF Qualifies, Same, Fields, Unregistered
  <2>2. Drilled(d)
    BY <1>1, <2>1, DrilledLogs
  <2> QED
    BY <2>1, <2>2
<1>4. CASE Asked(c, d) \/ LapsesTo(c, d) \/ d = c
  <2>1. /\ d.state = c.state /\ d.events = c.events
        /\ d.preflight_required = c.preflight_required
        /\ d.qualified_until = c.qualified_until /\ d.remedy_calls = c.remedy_calls
    BY <1>4 DEF Asked, LapsesTo, Same, Fields, Unregistered
  <2> QED
    BY <2>1, DrilledFields
<1>5. ASSUME NEW op, NEW answer, NEW n, Heard(c, n, op, answer, t),
             (d = n /\ Paused(op, n)) \/ Left(op, answer, n, d, t)
      PROVE  /\ Drilled(d)
             /\ d.remedy_calls # c.remedy_calls /\ c.preflight_required =>
                   c.qualified_implementation = implementation
  <2>1. /\ n.preflight_required = c.preflight_required
        /\ n.qualified_implementation = c.qualified_implementation
        /\ n.remedy_calls = c.remedy_calls
        /\ Drilled(n) /\ n \in Slice
    BY <1>1, <1>5, HeardTold, HeardDrilled DEF Heard
  <2> QED
    BY <1>5, <2>1, LeftDrilled
<1> QED
  BY <1>2, <1>3, <1>4, <1>5 DEF Goes, Walk

-------------------------------------------------------------------------------
(* The invariant and its theorems. *)

RecordInv == \A a \in Action : Faithful(actions[a]) /\ Drilled(actions[a])

(* Nothing is logged or recorded at the start.                             *)
LEMMA InitRecord == Init => RecordInv
<1> SUFFICES ASSUME Init, NEW a \in Action
             PROVE  Faithful(actions[a]) /\ Drilled(actions[a])
  BY DEF RecordInv
<1>1. actions[a] = Unregistered /\ Unregistered \in Slice
  BY InitInv DEF Init, Inv, Good
<1>2. /\ Unregistered.events = <<>> /\ Unregistered.evidence = <<>>
      /\ Unregistered.state = "UNREGISTERED" /\ Unregistered.final_status = "none"
      /\ Unregistered.permit_uses = 0 /\ Unregistered.remedy_attempts = 0
      /\ Unregistered.permit_issued_at = Never /\ Unregistered.execution = "none"
      /\ Unregistered.receipt = <<>> /\ Unregistered.awaiting["observeRemedy"] = 0
      /\ Unregistered.qualified_until = Never
      /\ Unregistered.preflight_required = FALSE
  BY DEF Unregistered, Operations
<1>3. /\ Moves(Unregistered) = {} /\ Acceptances(Unregistered) = {}
      /\ \A s : Entries(Unregistered, s) = {}
      /\ ~Finalized(Unregistered)
  BY <1>2 DEF Moves, Entries, Acceptances, Finalized, Logged
<1>4. Cardinality({}) = 0
  BY FS_EmptySet
<1>5. Told(Unregistered)
  BY <1>2, <1>3, <1>4 DEF Told
<1>6. Faithful(Unregistered)
  BY <1>1, <1>2, <1>5 DEF Faithful, Backed, Awaited, Receipted
<1>7. Drilled(Unregistered)
  BY <1>2, <1>3 DEF Drilled, Qualified
<1> QED
  BY <1>1, <1>6, <1>7

(* Every step keeps record, log and preflight together.                    *)
LEMMA NextRecord ==
    ASSUME Inv, RecordInv, [Next]_vars
    PROVE  /\ RecordInv'
           /\ \A a \in Action :
                 actions'[a].remedy_calls # actions[a].remedy_calls
                     /\ actions[a].preflight_required
                 => actions[a].qualified_implementation = implementation
<1>1. PICK t \in Nat : \A a \in Action : Goes(actions[a], actions'[a], t)
  BY SlicesGo
<1>2. ASSUME NEW a \in Action
      PROVE  /\ Faithful(actions'[a]) /\ Drilled(actions'[a])
             /\ actions'[a].remedy_calls # actions[a].remedy_calls
                    /\ actions[a].preflight_required
                => actions[a].qualified_implementation = implementation
  <2>1. actions'[a] \in Slice /\ Good(actions[a])
    BY NextInv DEF Inv, Good
  <2>2. Faithful(actions[a]) /\ Drilled(actions[a]) /\ Goes(actions[a], actions'[a], t)
    BY <1>1 DEF RecordInv
  <2> QED
    BY <2>1, <2>2, GoesTold, GoesDrilled
<1> QED
  BY <1>2 DEF RecordInv

(* The invariant holds in every behaviour of the rail.                     *)
LEMMA RecordInvariant == Spec => [](Inv /\ RecordInv)
<1>1. Init => Inv /\ RecordInv
  BY InitInv, InitRecord
<1>2. Inv /\ RecordInv /\ [Next]_vars => (Inv /\ RecordInv)'
  BY NextInv, NextRecord
<1> QED
  BY <1>1, <1>2, PTL DEF Spec

(* State, counters, permit, evidence, recourse status and receipt are each *)
(* what the log says, also where an append, a release, the log read back   *)
(* or a signature throws half way through transition(), finalizeRecourse() *)
(* or close(), an action closed without a receipt included.                *)
THEOREM RecordTold == Spec => []RecordFollowsLog
<1>1. RecordInv => RecordFollowsLog
  <2> SUFFICES ASSUME RecordInv, NEW a \in Action, actions[a].state # "UNREGISTERED"
               PROVE  LET c == actions[a]
                      IN /\ c.state = StateBeforeEvent(c, Len(c.events) + 1)
                         /\ c.permit_uses = Cardinality(Entries(c, "EXECUTING"))
                         /\ c.remedy_attempts = Cardinality(Entries(c, "REMEDIATING"))
                         /\ (c.permit_issued_at # Never) = (Entries(c, "PERMITTED") # {})
                         /\ (c.execution = "executed") => Entries(c, "EXECUTED") # {}
                         /\ Len(c.evidence) = Cardinality(Acceptances(c))
                         /\ (c.final_status # "none") = Finalized(c)
                         /\ Receipted(c)
    BY DEF RecordFollowsLog, Slices, Acceptances, Finalized, Receipted
  <2> DEFINE c == actions[a]
  <2>1. Faithful(c)
    BY DEF RecordInv
  <2> HIDE DEF c
  <2>2. c.state = StateBeforeEvent(c, Len(c.events) + 1)
    BY <2>1, LedState DEF Faithful, Told, c
  <2>3. (c.final_status # "none") = Finalized(c)
    BY <2>1 DEF Faithful, Told, Finalized, Logged
  <2> QED
    BY <2>1, <2>2, <2>3 DEF Faithful, Told, c
<1> QED
  BY <1>1, RecordInvariant, PTL

(* issuePermit's third gate: a preflight the authorization requires was    *)
(* accepted, and logged, before the permit was issued.                     *)
THEOREM PermitOnPreflight == Spec => []PreflightBeforePermit
<1>1. RecordInv => PreflightBeforePermit
  BY DEF RecordInv, Drilled, PreflightBeforePermit, Slices
<1> QED
  BY <1>1, RecordInvariant, PTL

(* assertRecoveryBinding in remediate: the remedy that runs for an action  *)
(* with a required preflight is the implementation its drill was bound to, *)
(* however often the connector's callable is replaced.                     *)
THEOREM RemedyIsTheDrilledOne == Spec => QualifiedRemedyOnly
<1>1. Inv /\ RecordInv /\ [Next]_vars =>
        [\A a \in Action :
            actions'[a].remedy_calls # actions[a].remedy_calls
                /\ actions[a].preflight_required
            => actions[a].qualified_implementation = implementation]_vars
  BY NextRecord
<1> QED
  BY <1>1, RecordInvariant, PTL DEF Spec, QualifiedRemedyOnly

-------------------------------------------------------------------------------
(* Late answers: the connector never contradicts a definite one. *)

\* One observation of the remedy is awaited at a time, where it is read.
Observing(c) ==
    /\ c.awaiting["observeRemedy"] <= 1
    /\ c.awaiting["observeRemedy"] > 0 => c.state = "REMEDY_VERIFYING"

\* The remedy that is verified was confirmed, and nothing was answered before
\* the remedy was called.
Consistent(c) ==
    /\ Observing(c)
    /\ c.state = "REMEDY_VERIFYING" => c.remedy_answer = "remediated"
    /\ c.awaiting["remediate"] > 0 => c.remedy_answer = "none"
    /\ c.state \in BeforeRemedy => c.remedy_answer = "none"

\* What an answer to op changes of the calls and the answers that are out.
Hears(c, n, op, answer) ==
    /\ n.state = c.state /\ n.final_status = c.final_status
    /\ n.receipt = c.receipt
    /\ IF op = "none" THEN n.awaiting = c.awaiting
       ELSE /\ c.awaiting[op] > 0
            /\ n.awaiting = [c.awaiting EXCEPT ![op] = c.awaiting[op] - 1]
    /\ n.remedy_answer = IF c.remedy_answer = "none" THEN answer ELSE c.remedy_answer
    /\ answer # "none" => op \in {"remediate", "reconcileRemedy"}
    /\ answer # "none" /\ op = "reconcileRemedy" /\ FinalAnswers =>
          c.remedy_answer \in {"none", answer}
    /\ \/ op \in {"observe", "observeRemedy"}
       \/ n.events = c.events /\ n.evidence = c.evidence

(* An answer is heard once.                                                *)
LEMMA HeardHears ==
    ASSUME NEW c, NEW n, NEW op, NEW answer, NEW t, Heard(c, n, op, answer, t)
    PROVE  Hears(c, n, op, answer)
<1>1. PICK w \in Slice : /\ Resumed(c, w, op, answer) \/ Reserved(c, w, op, answer)
                         /\ n = w \/ Rejected(w, n, op, t) \/ Accepted(w, n, op, t)
  BY DEF Heard
<1>2. Hears(c, w, op, answer) /\ w.events = c.events /\ w.evidence = c.evidence
  <2>1. CASE Resumed(c, w, op, answer)
    BY <2>1 DEF Resumed, Same, Fields, Unregistered, Hears
  <2>2. CASE Reserved(c, w, op, answer)
    BY <2>2 DEF Reserved, Same, Fields, Unregistered, Hears
  <2> QED
    BY <1>1, <2>1, <2>2
<1>3. CASE n = w
  BY <1>2, <1>3
<1>4. CASE n # w
  <2>1. op \in {"observe", "observeRemedy"} /\ Same(w, n, {"events", "evidence"})
    BY <1>1, <1>4 DEF Rejected, Accepted, Same
  <2>2. /\ n.state = w.state /\ n.final_status = w.final_status
        /\ n.receipt = w.receipt /\ n.awaiting = w.awaiting
        /\ n.remedy_answer = w.remedy_answer
    BY <2>1 DEF Same, Fields, Unregistered
  <2> QED
    BY <1>2, <2>1, <2>2 DEF Hears
<1> QED
  BY <1>3, <1>4

\* What a move, and what follows it, changes of them.
MovesOn(n, d, op, answer) ==
    \E next \in States :
        /\ <<n.state, next>> \in ALLOWED_TRANSITIONS
        /\ Leaves(op, answer, n.state, next)
        /\ \/ d.state = next
           \/ d.state = "CLOSED"
           \/ next = "BREACHED" /\ d.state = "REMEDY_DUE"
        /\ d.remedy_answer = n.remedy_answer
        /\ d.awaiting = n.awaiting \/ Called(n, d)
        /\ Failures \/ Completed(n, d)

(* A move sends one call, or none.                                         *)
LEMMA LeftMovesOn ==
    ASSUME NEW n, NEW op, NEW answer, NEW d, NEW t, Left(op, answer, n, d, t)
    PROVE  MovesOn(n, d, op, answer)
<1>1. PICK m \in Slice, x \in Slice :
         /\ Leaves(op, answer, n.state, m.state)
         /\ Moved(n, m, t)
         /\ Ending(m, x, t) \/ (Moved(m, x, t) /\ x.state = "REMEDY_DUE")
         /\ Resulted(x, d)
         /\ Failures \/ Completed(x, d)
  BY DEF Left
<1>2. <<n.state, m.state>> \in ALLOWED_TRANSITIONS /\ m.state \in States
  BY <1>1 DEF Moved, ALLOWED_TRANSITIONS, States
<1>3. ASSUME NEW p, NEW q, Moved(p, q, t)
      PROVE  q.awaiting = p.awaiting /\ q.remedy_answer = p.remedy_answer
  BY <1>3 DEF Moved, Permits, Starts, Remedies, Same, Fields, Unregistered
<1>4. /\ x.awaiting = m.awaiting /\ x.remedy_answer = m.remedy_answer
      /\ \/ x.state = m.state
         \/ x.state = "CLOSED"
         \/ m.state = "BREACHED" /\ x.state = "REMEDY_DUE"
  <2>1. CASE Ending(m, x, t)
    <3>1. PICK r, f \in Slice : /\ r = m \/ Returned(m, r)
                                /\ f = r \/ Recorded(r, f, t)
                                /\ x = f \/ Closed(f, x, t)
      BY <2>1 DEF Ending
    <3>2. /\ r.awaiting = m.awaiting /\ r.remedy_answer = m.remedy_answer
          /\ r.state = m.state
      BY <3>1 DEF Returned, Same, Fields, Unregistered
    <3>3. /\ f.awaiting = r.awaiting /\ f.remedy_answer = r.remedy_answer
          /\ f.state = r.state
      BY <3>1 DEF Recorded, Same, Fields, Unregistered
    <3>4. /\ x.awaiting = f.awaiting /\ x.remedy_answer = f.remedy_answer
          /\ x.state = f.state \/ x.state = "CLOSED"
      BY <3>1 DEF Closed, Same, Fields, Unregistered
    <3> QED
      BY <3>2, <3>3, <3>4
  <2>2. CASE Moved(m, x, t) /\ x.state = "REMEDY_DUE"
    <3>1. m.state = "BREACHED"
      BY <2>2 DEF Moved, ALLOWED_TRANSITIONS
    <3> QED
      BY <1>3, <2>2, <3>1
  <2> QED
    BY <1>1, <2>1, <2>2
<1>5. d.state = x.state /\ d.remedy_answer = x.remedy_answer
  BY <1>1 DEF Resulted, Same, Fields, Unregistered
<1>6. x.awaiting = n.awaiting /\ x.remedy_answer = n.remedy_answer
  BY <1>1, <1>3, <1>4
<1>7. (d.awaiting = n.awaiting \/ Called(n, d)) /\ (Failures \/ Completed(n, d))
  BY <1>1, <1>6 DEF Resulted, Called, Completed
<1> QED
  BY <1>1, <1>2, <1>4, <1>5, <1>6, <1>7 DEF MovesOn

(* Nothing contradicts the answers that are out.                           *)
LEMMA HearsConsistent ==
    ASSUME FinalAnswers, NEW c, Good(c), Consistent(c), NEW n \in Slice,
           NEW op \in Answering, NEW answer \in Definite, Hears(c, n, op, answer)
    PROVE  /\ Consistent(n)
           /\ op = "observeRemedy" => n.awaiting["observeRemedy"] = 0
           /\ n.state = "REMEDY_VERIFYING" => answer # "failed"
           /\ answer = "remediated" => n.remedy_answer = "remediated"
<1>1. /\ c.awaiting \in [Operations -> Nat] /\ n.awaiting \in [Operations -> Nat]
      /\ "observeRemedy" \in Operations /\ "remediate" \in Operations
      /\ "reconcileRemedy" \in Operations
  BY DEF Good, Slice, Operations
<1>2. /\ n.state = c.state
      /\ n.remedy_answer = IF c.remedy_answer = "none" THEN answer ELSE c.remedy_answer
      /\ answer # "none" => op \in {"remediate", "reconcileRemedy"}
      /\ answer # "none" /\ op = "reconcileRemedy" =>
            c.remedy_answer \in {"none", answer}
      /\ op = "none" => n.awaiting = c.awaiting
      /\ op # "none" => /\ c.awaiting[op] > 0
                        /\ n.awaiting = [c.awaiting EXCEPT ![op] = c.awaiting[op] - 1]
  BY DEF Hears
<1>3. /\ c.awaiting["remediate"] > 0 =>
            c.state = "REMEDIATING" /\ c.awaiting["remediate"] <= 1
      /\ c.awaiting["reconcileRemedy"] > 0 => c.state \in AfterRemedyUnknown
  BY DEF Good, Resumable
<1>4. /\ n.awaiting["observeRemedy"] <= c.awaiting["observeRemedy"]
      /\ n.awaiting["remediate"] <= c.awaiting["remediate"]
      /\ op = "observeRemedy" =>
            n.awaiting["observeRemedy"] = c.awaiting["observeRemedy"] - 1
      /\ op = "remediate" => n.awaiting["remediate"] = c.awaiting["remediate"] - 1
  <2>1. CASE op = "none"
    BY <1>1, <1>2, <2>1
  <2>2. CASE op # "none"
    BY <1>1, <1>2, <2>2
  <2> QED
    BY <2>1, <2>2
<1>5. answer # "none" =>
         /\ c.state = "REMEDIATING" \/ c.state \in AfterRemedyUnknown
         /\ c.state \notin BeforeRemedy
         /\ op = "remediate" => c.state = "REMEDIATING" /\ c.remedy_answer = "none"
                                /\ n.awaiting["remediate"] = 0
         /\ op = "reconcileRemedy" => c.awaiting["remediate"] = 0
  <2> SUFFICES ASSUME answer # "none"
               PROVE  /\ c.state = "REMEDIATING" \/ c.state \in AfterRemedyUnknown
                      /\ op = "remediate" =>
                            /\ c.state = "REMEDIATING" /\ c.remedy_answer = "none"
                            /\ n.awaiting["remediate"] = 0
                      /\ op = "reconcileRemedy" => c.awaiting["remediate"] = 0
    BY DEF BeforeRemedy, AfterRemedyUnknown
  <2>1. CASE op = "remediate"
    <3>1. c.awaiting["remediate"] > 0
      BY <1>2, <2>1
    <3> QED
      BY <1>1, <1>3, <1>4, <2>1, <3>1 DEF Consistent, Observing
  <2>2. CASE op = "reconcileRemedy"
    <3>1. c.awaiting["reconcileRemedy"] > 0
      BY <1>2, <2>2
    <3>2. c.state \in AfterRemedyUnknown /\ c.state # "REMEDIATING"
      BY <1>3, <3>1 DEF AfterRemedyUnknown
    <3> QED
      BY <1>1, <1>3, <2>2, <3>2
  <2> QED
    BY <1>2, <2>1, <2>2
<1>6. n.awaiting["observeRemedy"] <= 1
      /\ (n.awaiting["observeRemedy"] > 0 => n.state = "REMEDY_VERIFYING")
  BY <1>1, <1>2, <1>4 DEF Consistent, Observing
<1>7. n.state = "REMEDY_VERIFYING" =>
         n.remedy_answer = "remediated" /\ answer # "failed"
  <2>1. c.state = "REMEDY_VERIFYING" => c.remedy_answer = "remediated"
    BY DEF Consistent, Observing
  <2> QED
    BY <1>2, <1>5, <2>1
<1>8. n.awaiting["remediate"] > 0 => n.remedy_answer = "none"
  <2>1. n.awaiting["remediate"] > 0 => c.awaiting["remediate"] > 0
    BY <1>1, <1>4
  <2>2. n.awaiting["remediate"] > 0 => answer = "none"
    BY <1>1, <1>2, <1>5, <2>1
  <2> QED
    BY <1>2, <2>1, <2>2 DEF Consistent, Observing
<1>9. n.state \in BeforeRemedy => n.remedy_answer = "none"
  BY <1>2, <1>5 DEF Consistent, Observing
<1>10. op = "observeRemedy" => n.awaiting["observeRemedy"] = 0
  <2>1. ASSUME op = "observeRemedy" PROVE c.awaiting["observeRemedy"] = 1
    <3>1. c.awaiting["observeRemedy"] > 0
      BY <1>2, <2>1
    <3> QED
      BY <1>1, <3>1 DEF Consistent, Observing
  <2> QED
    BY <1>1, <1>4, <2>1
<1>11. answer = "remediated" => n.remedy_answer = "remediated"
  BY <1>2, <1>5
<1> QED
  BY <1>6, <1>7, <1>8, <1>9, <1>10, <1>11 DEF Consistent, Observing

(* Nor does a move, or the call it sends.                                  *)
LEMMA MovesOnConsistent ==
    ASSUME NEW n \in Slice, Consistent(n), NEW op, NEW answer,
           op = "observeRemedy" => n.awaiting["observeRemedy"] = 0,
           n.state = "REMEDY_VERIFYING" => answer # "failed",
           answer = "remediated" => n.remedy_answer = "remediated",
           NEW d, MovesOn(n, d, op, answer)
    PROVE  Consistent(d)
<1>1. PICK next \in States :
        /\ <<n.state, next>> \in ALLOWED_TRANSITIONS
        /\ Leaves(op, answer, n.state, next)
        /\ \/ d.state = next
           \/ d.state = "CLOSED"
           \/ next = "BREACHED" /\ d.state = "REMEDY_DUE"
        /\ d.remedy_answer = n.remedy_answer
        /\ d.awaiting = n.awaiting \/ Called(n, d)
  BY DEF MovesOn
<1>2. /\ n.awaiting \in [Operations -> Nat]
      /\ "observeRemedy" \in Operations /\ "remediate" \in Operations
  BY DEF Slice, Operations
<1>3. n.awaiting["observeRemedy"] = 0
  <2>1. CASE n.state = "REMEDY_VERIFYING"
    <3>1. op = "observeRemedy"
      BY <1>1, <2>1 DEF Leaves, WaitingStates, CallOf
    <3> QED
      BY <3>1
  <2>2. CASE n.state # "REMEDY_VERIFYING"
    BY <1>2, <2>2 DEF Consistent, Observing
  <2> QED
    BY <2>1, <2>2
<1>4. /\ d.awaiting["observeRemedy"] # n.awaiting["observeRemedy"] =>
            /\ d.awaiting["observeRemedy"] = n.awaiting["observeRemedy"] + 1
            /\ d.state = "REMEDY_VERIFYING"
      /\ d.awaiting["remediate"] # n.awaiting["remediate"] => d.state = "REMEDIATING"
  <2>1. CASE Called(n, d)
    <3> DEFINE call == CallOf(d.state)
    <3>1. /\ d.state \in WaitingStates
          /\ d.awaiting = [n.awaiting EXCEPT ![call] = n.awaiting[call] + 1]
      BY <2>1 DEF Called
    <3>2. /\ call = "observeRemedy" => d.state = "REMEDY_VERIFYING"
          /\ call = "remediate" => d.state = "REMEDIATING"
      BY <3>1 DEF CallOf, WaitingStates
    <3> HIDE DEF call
    <3> QED
      BY <1>2, <3>1, <3>2
  <2> QED
    BY <1>1, <2>1
<1>5. d.state = "REMEDY_VERIFYING" => d.remedy_answer = "remediated"
  BY <1>1 DEF Leaves
<1>6. d.state = "REMEDIATING" => d.remedy_answer = "none"
  <2>1. ASSUME d.state = "REMEDIATING" PROVE n.state \in BeforeRemedy
    BY <1>1, <2>1 DEF ALLOWED_TRANSITIONS, BeforeRemedy
  <2> QED
    BY <1>1, <2>1 DEF Consistent, Observing
<1>7. d.state \in BeforeRemedy => d.remedy_answer = "none"
  <2>1. ASSUME d.state \in BeforeRemedy PROVE n.state \in BeforeRemedy
    BY <1>1, <2>1 DEF ALLOWED_TRANSITIONS, BeforeRemedy
  <2> QED
    BY <1>1, <2>1 DEF Consistent, Observing
<1>8. d.awaiting["observeRemedy"] <= 1
      /\ (d.awaiting["observeRemedy"] > 0 => d.state = "REMEDY_VERIFYING")
  BY <1>3, <1>4
<1>9. d.awaiting["remediate"] > 0 => d.remedy_answer = "none"
  BY <1>1, <1>4, <1>6 DEF Consistent, Observing
<1> QED
  BY <1>5, <1>7, <1>8, <1>9 DEF Consistent, Observing

(* Once the receipt is cut every step leaves log and evidence alone.       *)
LEMMA GoesConsistent ==
    ASSUME FinalAnswers, NEW c, Good(c), Faithful(c), Consistent(c),
           NEW d, NEW t, Goes(c, d, t)
    PROVE  /\ Consistent(d)
           /\ Exportable(c) => /\ d.receipt = c.receipt
                               /\ d.events = c.events
                               /\ d.evidence = c.evidence
<1>1. c \in Slice /\ (Exportable(c) => c.state = "CLOSED")
  BY DEF Faithful, Receipted, Exportable
<1>2. /\ c.awaiting \in [Operations -> Nat]
      /\ "observeRemedy" \in Operations /\ "remediate" \in Operations
  BY <1>1 DEF Slice, Operations
<1>3. CASE Proposed(c, d, t)
  <2>1. /\ d.awaiting = c.awaiting /\ d.remedy_answer = c.remedy_answer
        /\ c.state = "UNREGISTERED" /\ d.state = "PROPOSED"
    BY <1>3 DEF Proposed, Same, Fields, Unregistered
  <2> QED
    BY <1>1, <2>1 DEF Consistent, Observing, BeforeRemedy
<1>4. CASE Qualifies(c, d, t)
  <2>1. /\ d.awaiting = c.awaiting /\ d.remedy_answer = c.remedy_answer
        /\ c.state = "RECOURSE_RESERVED" /\ d.state = c.state
    BY <1>4 DEF Qualifies, Same, Fields, Unregistered
  <2> QED
    BY <1>1, <2>1 DEF Consistent, Observing
<1>5. CASE Asked(c, d) \/ LapsesTo(c, d) \/ d = c
  <2>1. /\ d.remedy_answer = c.remedy_answer /\ d.state = c.state
        /\ d.receipt = c.receipt /\ d.events = c.events /\ d.evidence = c.evidence
    BY <1>5 DEF Asked, LapsesTo, Same, Fields, Unregistered
  <2>2. /\ d.awaiting["observeRemedy"] = c.awaiting["observeRemedy"]
        /\ d.awaiting["remediate"] = c.awaiting["remediate"]
    <3>1. CASE Asked(c, d)
      <4>1. PICK op \in {"reconcile", "reconcileRemedy"} :
               d.awaiting = [c.awaiting EXCEPT ![op] = c.awaiting[op] + 1]
        BY <3>1 DEF Asked
      <4> QED
        BY <1>2, <4>1
    <3>2. CASE LapsesTo(c, d) \/ d = c
      BY <3>2 DEF LapsesTo, Same, Fields, Unregistered
    <3> QED
      BY <1>5, <3>1, <3>2
  <2> QED
    BY <2>1, <2>2 DEF Consistent, Observing
<1>6. ASSUME NEW op, NEW answer, NEW n, Heard(c, n, op, answer, t),
             (d = n /\ Paused(op, n)) \/ Left(op, answer, n, d, t)
      PROVE  /\ Consistent(d)
             /\ Exportable(c) => /\ d.receipt = c.receipt
                                 /\ d.events = c.events
                                 /\ d.evidence = c.evidence
  <2>1. /\ n \in Slice /\ op \in Answering /\ answer \in Definite
        /\ Hears(c, n, op, answer)
    BY <1>6, HeardHears DEF Heard
  <2>2. /\ Consistent(n)
        /\ op = "observeRemedy" => n.awaiting["observeRemedy"] = 0
        /\ n.state = "REMEDY_VERIFYING" => answer # "failed"
        /\ answer = "remediated" => n.remedy_answer = "remediated"
    BY <2>1, HearsConsistent
  <2>3. Left(op, answer, n, d, t) => MovesOn(n, d, op, answer)
    BY LeftMovesOn
  <2>4. Consistent(d)
    <3>1. CASE d = n
      BY <2>2, <3>1
    <3>2. CASE MovesOn(n, d, op, answer)
      BY <2>1, <2>2, <3>2, MovesOnConsistent
    <3> QED
      BY <1>6, <2>3, <3>1, <3>2
  <2>5. ASSUME Exportable(c)
        PROVE  d.receipt = c.receipt /\ d.events = c.events /\ d.evidence = c.evidence
    <3>1. c.state = "CLOSED" /\ n.state = c.state
      BY <1>1, <2>1, <2>5 DEF Hears
    <3>2. op \notin {"observe", "observeRemedy"}
      <4>1. c.awaiting["observe"] > 0 => c.state = "VERIFYING"
        BY DEF Good, Resumable
      <4>2. c.awaiting["observeRemedy"] > 0 => c.state = "REMEDY_VERIFYING"
        BY DEF Consistent, Observing
      <4> QED
        BY <2>1, <3>1, <4>1, <4>2 DEF Hears
    <3>3. ~MovesOn(n, d, op, answer)
      BY <3>1 DEF MovesOn, ALLOWED_TRANSITIONS
    <3>4. d = n
      BY <1>6, <2>3, <3>3
    <3> QED
      BY <2>1, <3>2, <3>4 DEF Hears
  <2> QED
    BY <2>4, <2>5
<1> QED
  BY <1>3, <1>4, <1>5, <1>6 DEF Goes, Walk

ConsistentInv == \A a \in Action : Consistent(actions[a])

(* The answers that are out stay consistent.                               *)
LEMMA NextConsistent ==
    ASSUME FinalAnswers, Inv, RecordInv, ConsistentInv, [Next]_vars
    PROVE  /\ ConsistentInv'
           /\ \A a \in Action :
                 Exportable(actions[a]) =>
                    /\ actions'[a].receipt = actions[a].receipt
                    /\ actions'[a].events = actions[a].events
                    /\ actions'[a].evidence = actions[a].evidence
<1>1. PICK t \in Nat : \A a \in Action : Goes(actions[a], actions'[a], t)
  BY SlicesGo
<1>2. ASSUME NEW a \in Action
      PROVE  /\ Consistent(actions'[a])
             /\ Exportable(actions[a]) =>
                    /\ actions'[a].receipt = actions[a].receipt
                    /\ actions'[a].events = actions[a].events
                    /\ actions'[a].evidence = actions[a].evidence
  <2>1. /\ Good(actions[a]) /\ Faithful(actions[a]) /\ Consistent(actions[a])
        /\ Goes(actions[a], actions'[a], t)
    BY <1>1 DEF Inv, RecordInv, ConsistentInv
  <2> QED
    BY <2>1, GoesConsistent
<1> QED
  BY <1>2 DEF ConsistentInv

(* Nothing is asked or answered at the start.                              *)
LEMMA InitConsistent == Init => ConsistentInv
  BY DEF Init, ConsistentInv, Consistent, Observing, Unregistered, Operations

(* Once the receipt is cut no event is appended behind the head it binds   *)
(* and no evidence is added, however late a pending answer arrives, as     *)
(* long as the connector does not contradict its own definite answers      *)
(* (the late_answer run shows why that is needed).                         *)
THEOREM ReceiptFinality ==
    ASSUME FinalAnswers
    PROVE  Spec => ReceiptIsFinal
<1>1. Init => Inv /\ RecordInv /\ ConsistentInv
  BY InitInv, InitRecord, InitConsistent
<1>2. Inv /\ RecordInv /\ ConsistentInv /\ [Next]_vars =>
         (Inv /\ RecordInv /\ ConsistentInv)'
  BY NextInv, NextRecord, NextConsistent
<1>3. Inv /\ RecordInv /\ ConsistentInv /\ [Next]_vars =>
        [\A a \in Action :
            Exportable(actions[a]) =>
               /\ actions'[a].receipt = actions[a].receipt
               /\ actions'[a].events = actions[a].events
               /\ actions'[a].evidence = actions[a].evidence]_vars
  BY NextConsistent
<1> QED
  BY <1>1, <1>2, <1>3, PTL DEF Spec, ReceiptIsFinal

-------------------------------------------------------------------------------
(* Nothing is stranded while nothing throws. *)

Awaits(c, op, state) == c.awaiting[op] = IF c.state = state THEN 1 ELSE 0

\* A state that waits has the one call it waits for, and no other call waits;
\* only an unknown recourse status keeps an action from closing.
Waits(c) ==
    /\ Awaits(c, "execute", "EXECUTING")
    /\ Awaits(c, "observe", "VERIFYING")
    /\ Awaits(c, "remediate", "REMEDIATING")
    /\ Awaits(c, "observeRemedy", "REMEDY_VERIFYING")
    /\ c.state \in RECEIPT_STATES => c.final_status = "unknown"
    /\ c.state # "BREACHED"

Sends == {"execute", "observe", "remediate", "observeRemedy"}

(* Every step leaves a waiting state by the answer it waits for.           *)
LEMMA GoesWaits ==
    ASSUME FinalAnswers, ~Failures,
           NEW c, Good(c), Faithful(c), Consistent(c), Waits(c),
           NEW d, Good(d), Faithful(d), NEW t, Goes(c, d, t)
    PROVE  Waits(d)
<1>1. c.awaiting \in [Operations -> Nat] /\ Sends \subseteq Operations
  BY DEF Good, Slice, Operations, Sends
<1>2. ASSUME d.state = c.state \/ (c.state = "UNREGISTERED" /\ d.state = "PROPOSED"),
             d.final_status = c.final_status,
             \A op \in Sends : d.awaiting[op] = c.awaiting[op]
      PROVE  Waits(d)
  BY <1>2 DEF Waits, Awaits, Sends, RECEIPT_STATES, DisputedStates
<1>3. CASE Proposed(c, d, t)
  BY <1>2, <1>3 DEF Proposed, Same, Fields, Unregistered
<1>4. CASE Qualifies(c, d, t)
  BY <1>2, <1>4 DEF Qualifies, Same, Fields, Unregistered
<1>5. CASE Asked(c, d)
  <2>1. PICK op \in {"reconcile", "reconcileRemedy"} :
           d.awaiting = [c.awaiting EXCEPT ![op] = c.awaiting[op] + 1]
    BY <1>5 DEF Asked
  <2>2. \A p \in Sends : d.awaiting[p] = c.awaiting[p]
    BY <1>1, <2>1 DEF Sends
  <2>3. d.state = c.state /\ d.final_status = c.final_status
    BY <1>5 DEF Asked, Same, Fields, Unregistered
  <2> QED
    BY <1>2, <2>2, <2>3
<1>6. CASE LapsesTo(c, d) \/ d = c
  BY <1>2, <1>6 DEF LapsesTo, Same, Fields, Unregistered
<1>7. ASSUME NEW op, NEW answer, NEW n, Heard(c, n, op, answer, t),
             (d = n /\ Paused(op, n)) \/ Left(op, answer, n, d, t)
      PROVE  Waits(d)
  <2>1. /\ n \in Slice /\ op \in Answering /\ answer \in Definite
        /\ Hears(c, n, op, answer)
    BY <1>7, HeardHears DEF Heard
  <2>2. n.state = "REMEDY_VERIFYING" => answer # "failed"
    BY <2>1, HearsConsistent
  <2>3. /\ n.state = c.state /\ n.final_status = c.final_status
        /\ op = "none" => n.awaiting = c.awaiting
        /\ op # "none" => /\ c.awaiting[op] > 0
                          /\ n.awaiting = [c.awaiting EXCEPT ![op] = c.awaiting[op] - 1]
    BY <2>1 DEF Hears
  <2>4. \A p \in Sends : p # op => n.awaiting[p] = c.awaiting[p]
    BY <1>1, <2>3
  <2>5. CASE d = n /\ Paused(op, n)
    <3>1. op \notin Sends
      <4>1. c.awaiting["observeRemedy"] > 0 => c.state = "REMEDY_VERIFYING"
        BY DEF Consistent, Observing
      <4> QED
        BY <2>3, <2>5, <4>1 DEF Paused, Sends
    <3>2. \A p \in Sends : n.awaiting[p] = c.awaiting[p]
      BY <2>4, <3>1
    <3> QED
      BY <1>2, <2>3, <2>5, <3>2
  <2>6. CASE Left(op, answer, n, d, t)
    <3>1. MovesOn(n, d, op, answer)
      BY <2>6, LeftMovesOn
    <3>2. PICK next \in States :
            /\ Leaves(op, answer, n.state, next)
            /\ d.awaiting = n.awaiting \/ Called(n, d)
            /\ Completed(n, d)
      BY <3>1 DEF MovesOn
    <3>3. n.state \in WaitingStates => op = CallOf(n.state)
      BY <2>2, <3>2 DEF Leaves
    <3>4. ASSUME NEW p \in Sends PROVE n.awaiting[p] = 0
      <4>1. c.awaiting[p] = IF c.state \in WaitingStates /\ p = CallOf(c.state)
                            THEN 1 ELSE 0
        BY DEF Waits, Awaits, Sends, WaitingStates, CallOf
      <4>2. CASE p = op
        <5>1. c.awaiting[p] = 1 /\ op # "none"
          BY <2>3, <4>1, <4>2 DEF Sends
        <5> QED
          BY <1>1, <2>3, <4>2, <5>1
      <4>3. CASE p # op
        BY <2>3, <2>4, <3>3, <4>1, <4>3
      <4> QED
        BY <4>2, <4>3
    <3>5. \A p \in Sends :
             d.awaiting[p] = IF d.state \in WaitingStates /\ p = CallOf(d.state)
                             THEN 1 ELSE 0
      <4>1. n.awaiting \in [Operations -> Nat]
        BY <2>1 DEF Slice
      <4>2. CASE d.state \in WaitingStates
        <5> DEFINE call == CallOf(d.state)
        <5>1. d.awaiting = [n.awaiting EXCEPT ![call] = n.awaiting[call] + 1]
          BY <3>2, <4>2 DEF Completed, Called
        <5> HIDE DEF call
        <5>2. \A p \in Sends : d.awaiting[p] = IF p = call THEN 1 ELSE 0
          BY <1>1, <3>4, <4>1, <5>1
        <5> QED
          BY <4>2, <5>2 DEF call
      <4>3. CASE d.state \notin WaitingStates
        BY <3>2, <3>4, <4>3 DEF Called
      <4> QED
        BY <4>2, <4>3
    <3>6. /\ Awaits(d, "execute", "EXECUTING")
          /\ Awaits(d, "observe", "VERIFYING")
          /\ Awaits(d, "remediate", "REMEDIATING")
          /\ Awaits(d, "observeRemedy", "REMEDY_VERIFYING")
      BY <3>5 DEF Awaits, Sends, WaitingStates, CallOf
    <3>7. d.state \in RECEIPT_STATES => d.final_status = "unknown"
      <4>1. d.final_status \in RecourseStatuses \cup {"none"}
        BY DEF Good, Slice
      <4>2. d.state \in RECEIPT_STATES => d.recourse # "none"
        BY DEF Faithful, Backed, RECEIPT_STATES, DisputedStates
      <4> QED
        BY <3>2, <4>1, <4>2 DEF Completed, RecourseStatuses
    <3>8. d.state # "BREACHED"
      BY <3>2 DEF Completed
    <3> QED
      BY <3>6, <3>7, <3>8 DEF Waits
  <2> QED
    BY <1>7, <2>5, <2>6
<1> QED
  BY <1>3, <1>4, <1>5, <1>6, <1>7 DEF Goes, Walk

WaitsInv == \A a \in Action : Waits(actions[a])

(* Between two segments a transient state always has the one continuation  *)
(* that will leave it, if neither the store nor the connector throws and   *)
(* no definite answer is contradicted.                                     *)
THEOREM NoneStranded ==
    ASSUME FinalAnswers, ~Failures
    PROVE  Spec => []NothingStranded
<1>1. Init => Inv /\ RecordInv /\ ConsistentInv /\ WaitsInv
  <2>1. Init => WaitsInv
    BY DEF Init, WaitsInv, Waits, Awaits, Unregistered, Operations,
           RECEIPT_STATES, DisputedStates
  <2> QED
    BY <2>1, InitInv, InitRecord, InitConsistent
<1>2. Inv /\ RecordInv /\ ConsistentInv /\ WaitsInv /\ [Next]_vars =>
         (Inv /\ RecordInv /\ ConsistentInv /\ WaitsInv)'
  <2> SUFFICES ASSUME Inv, RecordInv, ConsistentInv, WaitsInv, [Next]_vars
               PROVE  (Inv /\ RecordInv /\ ConsistentInv /\ WaitsInv)'
    OBVIOUS
  <2>1. Inv' /\ RecordInv' /\ ConsistentInv'
    BY NextInv, NextRecord, NextConsistent
  <2>2. PICK t \in Nat : \A a \in Action : Goes(actions[a], actions'[a], t)
    BY SlicesGo
  <2>3. ASSUME NEW a \in Action PROVE Waits(actions'[a])
    <3>1. /\ Good(actions[a]) /\ Faithful(actions[a]) /\ Consistent(actions[a])
          /\ Waits(actions[a]) /\ Goes(actions[a], actions'[a], t)
      BY <2>2 DEF Inv, RecordInv, ConsistentInv, WaitsInv
    <3>2. Good(actions'[a]) /\ Faithful(actions'[a])
      BY <2>1 DEF Inv, RecordInv
    <3> QED
      BY <3>1, <3>2, GoesWaits
  <2> QED
    BY <2>1, <2>3 DEF WaitsInv
<1>3. WaitsInv => NothingStranded
  BY DEF WaitsInv, Waits, Awaits, NothingStranded, Slices
<1> QED
  BY <1>1, <1>2, <1>3, PTL DEF Spec
===============================================================================
