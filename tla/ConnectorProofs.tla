---------------------------- MODULE ConnectorProofs ----------------------------
(***************************************************************************)
(* The rail and its reference connectors together, for every number of     *)
(* actions, keys and orders and whatever answers are lost.                 *)
(*                                                                         *)
(* The invariant relates four pieces of state that no single step writes   *)
(* together: the record's state, the answers on their way, the results the *)
(* connector remembers by key, and the effects.  A result is remembered    *)
(* for the action that caused it (Remembered); an action that is past its  *)
(* execution holds its key (Bound), unless it was refused; and an answer   *)
(* still on its way says what is remembered (Truthful).  Answers about a   *)
(* remedy agree with each other (Agreed), which makes a receipt final.     *)
(***************************************************************************)
EXTENDS ConnectorProperties, BundleProofs, WellFoundedInduction

-------------------------------------------------------------------------------
(* Types of the connector's state. *)

Effect == [by : Action, key : Keys, order : Orders, live : BOOLEAN]

Proposal == [key : Keys, remedyKey : Keys, order : Orders]

\* What is remembered by key.
Memory(memory, statuses) ==
    \A k \in DOMAIN memory :
        memory[k].by \in Action /\ memory[k].status \in statuses

\* What an answer may say.
Statuses ==
    {"executed", "no_effect", "refused", "lost", "unknown",
     "satisfied", "unsatisfied", "stale", "remediated", "failed", "no_change"}

Replied == [status : Statuses, at : Nat]

Replies == [Action -> [Operations -> Seq(Replied)]]

ConnectorType ==
    /\ product \in Products
    /\ proposal \in [Action -> Proposal]
    /\ effects \in Seq(Effect)
    /\ stock \in Nat
    /\ Memory(executions, {"executed", "no_effect"})
    /\ Memory(remedies, Statuses)
    /\ replies \in Replies

-------------------------------------------------------------------------------
(* The states of an action, as the connector sees them. *)

\* The connector was not asked to execute.
Unasked == {"UNREGISTERED", "PROPOSED", "DENIED", "AUTHORIZED",
                "RECOURSE_RESERVED", "PERMITTED", "EXPIRED", "REVOKED"}

\* It was asked, and did not refuse.
Acted(c) == c.state \notin Unasked \cup {"EXECUTING", "FAILED"}

\* The rail counts the action as executed, or as without effect.
Counts(c) == c.state = "EXECUTED" \/ Entries(c, "EXECUTED") # {}
Absent(c) == c.state = "FAILED" /\ c.execution = "no_effect"

\* The evidence settled the action.
Settles(c) ==
    \/ c.state = "SATISFIED"
    \/ c.state = "CLOSED" /\ c.receipt[1].outcome = "settled"

-------------------------------------------------------------------------------
(* The invariant. *)

\* a's key holds the result of a's own execution.
Bound(a) ==
    LET key == proposal[a].key
    IN key \in DOMAIN executions /\ executions[key].by = a

Says(a, status) == Bound(a) /\ executions[proposal[a].key].status = status

\* Every answer awaited is on its way, and no other.
Linked(a) == \A op \in Operations : Len(replies[a][op]) = actions[a].awaiting[op]

\* An answer of op says what is remembered and what was seen.
Tells(a, op, status) ==
    /\ op = "execute" /\ status # "refused" =>
          Bound(a) /\ (status = "executed" => Says(a, status))
    /\ op = "reconcile" => Says(a, status)
    /\ op = "observe" /\ status = "satisfied" => Cardinality(StillLive(a)) = 1

\* What the answers of op on their way to a say.
Underway(a, op) == {replies[a][op][i].status : i \in DOMAIN replies[a][op]}

Truthful(a) ==
    \A op \in Operations : \A status \in Underway(a, op) : Tells(a, op, status)

\* What the rail may conclude about a's effects.
Concluded(a) ==
    LET c == actions[a]
    IN /\ c.state \in Unasked =>
             /\ Made(a) = {}
             /\ \A k \in DOMAIN executions : executions[k].by # a
       /\ c.state \in Unasked \cup {"EXECUTING"} => c.execution # "no_effect"
       /\ Acted(c) => Bound(a)
       /\ Counts(c) => Says(a, "executed")
       /\ Absent(c) => Made(a) = {}
       /\ c.remedy_calls = 0 => StillLive(a) = Made(a)
       /\ Settles(c) => Cardinality(StillLive(a)) = 1

\* A result is remembered for the action that caused it, under its key.
Remembered ==
    \A k \in DOMAIN executions, b \in Action :
        executions[k].by = b =>
            /\ proposal[b].key = k
            /\ executions[k].status = "executed" <=> Made(b) # {}

\* An effect was made under its action's key and order.
Labelled ==
    \A i \in DOMAIN effects, b \in Action :
        effects[i].by = b =>
            /\ effects[i].key = proposal[b].key
            /\ effects[i].order = proposal[b].order
            /\ Bound(b)

ConnectorInv ==
    /\ ConnectorType /\ StockConserved
    /\ Remembered /\ Labelled
    /\ \A a \in Action : Linked(a) /\ Truthful(a) /\ Concluded(a)

-------------------------------------------------------------------------------
(* A step of the rail, as far as the connectors are concerned. *)

\* The states whose answer decides what the rail believes of an effect.
Deciding == {"EXECUTING", "UNKNOWN", "VERIFYING"}

\* d claims nothing of its effects that c did not.
Quieter(c, d) ==
    /\ d.state \in Unasked => c.state \in Unasked
    /\ d.state \in Unasked \cup {"EXECUTING"} =>
          c.state \in Unasked \cup {"EXECUTING"} /\ d.execution \in {c.execution, "unknown"}
    /\ Acted(d) => Acted(c)
    /\ Counts(d) => Counts(c)
    /\ Absent(d) => Absent(c)
    /\ d.remedy_calls = 0 => c.remedy_calls = 0
    /\ Settles(d) => Settles(c)

\* An answer decides what d claims beyond c.
Decides(c, d) ==
    /\ c.state \in Deciding /\ d.state # c.state
    /\ d.state \notin Unasked \cup {"EXECUTING"}
    /\ Counts(d) => Counts(c) \/ d.state = "EXECUTED"
    /\ d.remedy_calls = 0 => c.remedy_calls = 0
    /\ Settles(d) => c.state = "VERIFYING"
    /\ d.state \in {"EXECUTED", "FAILED"} => c.state # "VERIFYING"

\* c and d claim the same.
Alone(c, d) ==
    /\ d.state = c.state /\ d.execution = c.execution
    /\ d.receipt = c.receipt /\ d.remedy_calls = c.remedy_calls
    /\ Entries(d, "EXECUTED") = Entries(c, "EXECUTED")

(* Slices that claim the same are equally quiet.                           *)
LEMMA AloneQuieter ==
    ASSUME NEW c, NEW d, Alone(c, d)
    PROVE  Quieter(c, d)
  BY DEF Alone, Quieter, Acted, Counts, Absent, Settles

(* An answer that arrives, and evidence that is logged, claim nothing.     *)
LEMMA HeardAlone ==
    ASSUME NEW c \in Slice, NEW n, NEW op, NEW answer, NEW t,
           Heard(c, n, op, answer, t)
    PROVE  Alone(c, n)
<1>1. PICK w \in Slice : /\ Resumed(c, w, op, answer) \/ Reserved(c, w, op, answer)
                         /\ n = w \/ Rejected(w, n, op, t) \/ Accepted(w, n, op, t)
  BY DEF Heard
<1>2. /\ w.state = c.state /\ w.execution = c.execution
      /\ w.receipt = c.receipt /\ w.remedy_calls = c.remedy_calls
      /\ w.events = c.events
  BY <1>1 DEF Resumed, Reserved, Same, Fields, Unregistered
<1>3. Alone(c, w)
  BY <1>2 DEF Alone, Entries, Moves
<1>4. CASE n = w
  BY <1>3, <1>4
<1>5. CASE Rejected(w, n, op, t)
  <2>1. /\ n.state = w.state /\ n.execution = w.execution
        /\ n.receipt = w.receipt /\ n.remedy_calls = w.remedy_calls
    BY <1>5 DEF Rejected, Same, Fields, Unregistered
  <2>2. PICK type \in {"EVIDENCE_REJECTED", "REMEDY_EVIDENCE_REJECTED"}, info \in Infos :
           Logs(w, n, type, info, t)
    BY <1>5 DEF Rejected, Infos
  <2>3. Entries(n, "EXECUTED") = Entries(w, "EXECUTED")
    BY <2>2, LogsGrows
  <2> QED
    BY <1>3, <2>1, <2>3 DEF Alone
<1>6. CASE Accepted(w, n, op, t)
  <2>1. /\ n.state = w.state /\ n.execution = w.execution
        /\ n.receipt = w.receipt /\ n.remedy_calls = w.remedy_calls
    BY <1>6 DEF Accepted, Same, Fields, Unregistered
  <2>2. PICK satisfied \in BOOLEAN, type \in {"EVIDENCE_ACCEPTED", "REMEDY_EVIDENCE_ACCEPTED"} :
           Logs(w, n, type, Weighs(satisfied), t)
    BY <1>6 DEF Accepted
  <2>3. Entries(n, "EXECUTED") = Entries(w, "EXECUTED")
    BY <2>2, LogsGrows
  <2> QED
    BY <1>3, <2>1, <2>3 DEF Alone
<1> QED
  BY <1>1, <1>4, <1>5, <1>6

(* A move claims what the state it enters says.                            *)
LEMMA MovedClaims ==
    ASSUME NEW n \in Slice, NEW m, NEW t, Moved(n, m, t)
    PROVE  /\ <<n.state, m.state>> \in ALLOWED_TRANSITIONS /\ m.state # "CLOSED"
           /\ m.execution = n.execution /\ m.receipt = n.receipt
           /\ m.remedy_calls = 0 => n.remedy_calls = 0
           /\ m.state # "EXECUTED" => Entries(m, "EXECUTED") = Entries(n, "EXECUTED")
<1>1. /\ <<n.state, m.state>> \in ALLOWED_TRANSITIONS /\ m.state # "CLOSED"
      /\ LogsMove(n, m, "", t)
  BY DEF Moved, Permits, Starts, Remedies, Marked
<1>2. m.execution = n.execution /\ m.receipt = n.receipt
  BY DEF Moved, Permits, Starts, Remedies, Same, Fields, Unregistered
<1>3. m.remedy_calls = n.remedy_calls \/ m.remedy_calls = n.remedy_calls + 1
  BY DEF Moved, Permits, Starts, Remedies, Same, Fields, Unregistered
<1>4. m.state # "EXECUTED" => Entries(m, "EXECUTED") = Entries(n, "EXECUTED")
  <2>1. PICK info : LogsMove(n, m, info, t)
    BY <1>1
  <2> QED
    BY <2>1, LogsMoveGrows
<1>5. n.remedy_calls \in Nat
  BY DEF Slice
<1>6. m.remedy_calls = 0 => n.remedy_calls = 0
  BY <1>3, <1>5
<1> QED
  BY <1>1, <1>2, <1>4, <1>6

(* An ending claims what its receipt says.                                 *)
LEMMA EndingClaims ==
    ASSUME NEW m \in Slice, NEW x, NEW t, Ending(m, x, t)
    PROVE  /\ x.execution = m.execution /\ x.remedy_calls = m.remedy_calls
           /\ Entries(x, "EXECUTED") = Entries(m, "EXECUTED")
           /\ x.awaiting = m.awaiting
           /\ \/ x.state = m.state /\ x.receipt = m.receipt
              \/ /\ m.state \in RECEIPT_STATES /\ x.state = "CLOSED"
                 /\ x.receipt[1].outcome = RECEIPT_OUTCOME_BY_STATE[m.state]
<1>1. PICK r \in Slice, f \in Slice : /\ r = m \/ Returned(m, r)
                                      /\ f = r \/ Recorded(r, f, t)
                                      /\ x = f \/ Closed(f, x, t)
  BY DEF Ending
<1>2. /\ r.execution = m.execution /\ r.remedy_calls = m.remedy_calls
      /\ r.events = m.events /\ r.state = m.state /\ r.receipt = m.receipt
      /\ r.awaiting = m.awaiting
  BY <1>1 DEF Returned, Same, Fields, Unregistered
<1>3. Entries(r, "EXECUTED") = Entries(m, "EXECUTED")
  BY <1>2 DEF Entries, Moves
<1>4. /\ f.execution = r.execution /\ f.remedy_calls = r.remedy_calls
      /\ f.state = r.state /\ f.receipt = r.receipt /\ f.awaiting = r.awaiting
  BY <1>1 DEF Recorded, Same, Fields, Unregistered
<1>5. Entries(f, "EXECUTED") = Entries(r, "EXECUTED")
  <2>1. CASE Recorded(r, f, t)
    <3>1. PICK type \in {"RECOURSE_STATUS_RECORDED", "RECOURSE_FINALIZED"} :
             Logs(r, f, type, r.recourse, t)
      BY <2>1 DEF Recorded
    <3> QED
      BY <3>1, LogsGrows
  <2> QED
    BY <1>1, <2>1
<1>6. CASE x = f
  BY <1>2, <1>3, <1>4, <1>5, <1>6
<1>7. CASE Closed(f, x, t)
  <2>1. /\ x.execution = f.execution /\ x.remedy_calls = f.remedy_calls
        /\ x.state = "CLOSED" /\ f.state \in RECEIPT_STATES /\ x.awaiting = f.awaiting
    BY <1>7 DEF Closed, Same, Fields, Unregistered
  <2>2. x.receipt[1].outcome = RECEIPT_OUTCOME_BY_STATE[f.state]
    BY <1>7, ConnectorAssumption DEF Closed
  <2>3. PICK info : LogsMove(f, x, info, t)
    BY <1>7 DEF Closed
  <2>4. Entries(x, "EXECUTED") = Entries(f, "EXECUTED")
    BY <2>1, <2>3, LogsMoveGrows
  <2> QED
    BY <1>2, <1>3, <1>4, <1>5, <2>1, <2>2, <2>4
<1> QED
  BY <1>1, <1>6, <1>7

(* Only evidence of a satisfied postcondition settles.                     *)
LEMMA SettledBySatisfied ==
    ASSUME NEW s \in RECEIPT_STATES, RECEIPT_OUTCOME_BY_STATE[s] = "settled"
    PROVE  s = "SATISFIED"
  BY DEF RECEIPT_STATES, DisputedStates, RECEIPT_OUTCOME_BY_STATE

(* A segment that moves on claims more only where an answer decides.       *)
LEMMA LeftQuieter ==
    ASSUME NEW n \in Slice, NEW d, NEW op, NEW answer, NEW t,
           Left(op, answer, n, d, t)
    PROVE  Quieter(n, d) \/ Decides(n, d)
<1>1. PICK m \in Slice, x \in Slice :
         /\ Moved(n, m, t)
         /\ Ending(m, x, t) \/ (Moved(m, x, t) /\ x.state = "REMEDY_DUE")
         /\ Resulted(x, d)
  BY DEF Left
<1>2. /\ <<n.state, m.state>> \in ALLOWED_TRANSITIONS /\ m.state # "CLOSED"
      /\ m.execution = n.execution /\ m.receipt = n.receipt
      /\ m.remedy_calls = 0 => n.remedy_calls = 0
      /\ m.state # "EXECUTED" => Entries(m, "EXECUTED") = Entries(n, "EXECUTED")
  BY <1>1, MovedClaims
<1>3. /\ d.state = x.state /\ d.receipt = x.receipt /\ d.remedy_calls = x.remedy_calls
      /\ d.events = x.events
      /\ d.execution \in {x.execution, "unknown"} \/ d.state \in {"EXECUTED", "FAILED"}
  BY <1>1 DEF Resulted, Same, Fields, Unregistered
<1>4. Entries(d, "EXECUTED") = Entries(x, "EXECUTED")
  BY <1>3 DEF Entries, Moves
<1>5. CASE Moved(m, x, t) /\ x.state = "REMEDY_DUE"
  <2>1. /\ <<m.state, x.state>> \in ALLOWED_TRANSITIONS
    BY <1>1, <1>5, MovedClaims
  <2>2. m.state = "BREACHED"
    BY <1>5, <2>1 DEF ALLOWED_TRANSITIONS
  <2>3. n.state = "VERIFYING"
    BY <1>2, <2>2 DEF ALLOWED_TRANSITIONS
  <2>4. /\ x.remedy_calls = 0 => m.remedy_calls = 0
        /\ Entries(x, "EXECUTED") = Entries(m, "EXECUTED")
    BY <1>1, <1>5, MovedClaims
  <2>5. Entries(d, "EXECUTED") = Entries(n, "EXECUTED")
    BY <1>2, <1>4, <2>2, <2>4
  <2> QED
    BY <1>2, <1>3, <1>5, <2>3, <2>4, <2>5 DEF Decides, Deciding, Unasked, Counts
<1>6. CASE Ending(m, x, t)
  <2>1. /\ x.execution = m.execution /\ x.remedy_calls = m.remedy_calls
        /\ Entries(x, "EXECUTED") = Entries(m, "EXECUTED")
        /\ \/ x.state = m.state /\ x.receipt = m.receipt
           \/ /\ m.state \in RECEIPT_STATES /\ x.state = "CLOSED"
              /\ x.receipt[1].outcome = RECEIPT_OUTCOME_BY_STATE[m.state]
    BY <1>1, <1>6, EndingClaims
  <2>2. CASE n.state \in Deciding
    <3>1. /\ m.state # n.state /\ n.state # "CLOSED"
          /\ m.state \notin Unasked \cup {"EXECUTING", "CLOSED"}
          /\ m.state = "SATISFIED" => n.state = "VERIFYING"
          /\ m.state \in {"EXECUTED", "FAILED"} => n.state # "VERIFYING"
      BY <1>2, <2>2 DEF ALLOWED_TRANSITIONS, Deciding, Unasked
    <3>2. d.state # n.state /\ d.state \notin Unasked \cup {"EXECUTING"}
      BY <1>3, <2>1, <3>1 DEF Unasked
    <3>3. Counts(d) => Counts(n) \/ d.state = "EXECUTED"
      <4>1. CASE m.state = "EXECUTED"
        BY <1>3, <2>1, <4>1 DEF RECEIPT_STATES, DisputedStates
      <4> QED
        BY <1>2, <1>4, <2>1, <4>1 DEF Counts
    <3>4. Settles(d) => n.state = "VERIFYING"
      <4>1. ASSUME d.state = "CLOSED", d.receipt[1].outcome = "settled"
            PROVE  m.state = "SATISFIED"
        <5>1. m.state \in RECEIPT_STATES /\ d.receipt[1].outcome = RECEIPT_OUTCOME_BY_STATE[m.state]
          BY <1>3, <2>1, <3>1, <4>1
        <5> QED
          BY <4>1, <5>1, SettledBySatisfied
      <4>2. d.state = "SATISFIED" => m.state = "SATISFIED"
        BY <1>3, <2>1
      <4> QED
        BY <3>1, <4>1, <4>2 DEF Settles
    <3>5. d.state \in {"EXECUTED", "FAILED"} => n.state # "VERIFYING"
      BY <1>3, <2>1, <3>1
    <3> QED
      BY <1>2, <1>3, <2>1, <2>2, <3>2, <3>3, <3>4, <3>5 DEF Decides
  <2>3. CASE n.state \notin Deciding
    <3>1. /\ m.state \in Unasked => n.state \in Unasked
          /\ m.state = "EXECUTING" => n.state \in Unasked
          /\ m.state \notin {"EXECUTED", "UNKNOWN", "FAILED", "SATISFIED"}
          /\ Acted(m) => Acted(n)
      BY <1>2, <2>3 DEF ALLOWED_TRANSITIONS, Deciding, Unasked, Acted
    <3>2. m.state \in RECEIPT_STATES => Acted(m) /\ m.state \notin Unasked
      BY DEF RECEIPT_STATES, DisputedStates, Acted, Unasked
    <3>3. d.state \in {m.state, "CLOSED"} /\ (d.state = "CLOSED" => m.state \in RECEIPT_STATES)
      BY <1>2, <1>3, <2>1
    <3>4. d.execution \in {n.execution, "unknown"}
      BY <1>2, <1>3, <2>1, <3>1, <3>3
    <3>5. ~Settles(d)
      <4>1. CASE d.state = "CLOSED"
        <5>1. m.state \in RECEIPT_STATES /\ d.receipt[1].outcome = RECEIPT_OUTCOME_BY_STATE[m.state]
          BY <1>2, <1>3, <2>1, <4>1
        <5> QED
          BY <3>1, <4>1, <5>1, SettledBySatisfied DEF Settles
      <4> QED
        BY <3>1, <3>3, <4>1 DEF Settles
    <3>6. Counts(d) => Counts(n)
      BY <1>2, <1>4, <2>1, <3>1, <3>3 DEF Counts
    <3>7. ~Absent(d)
      BY <3>1, <3>3 DEF Absent
    <3>8. Acted(d) => Acted(n)
      BY <3>1, <3>2, <3>3 DEF Acted
    <3>9. /\ d.state \in Unasked => n.state \in Unasked
          /\ d.state \in Unasked \cup {"EXECUTING"} => n.state \in Unasked \cup {"EXECUTING"}
      BY <3>1, <3>3 DEF Unasked
    <3> QED
      BY <1>2, <1>3, <2>1, <3>4, <3>5, <3>6, <3>7, <3>8, <3>9 DEF Quieter
  <2> QED
    BY <2>2, <2>3
<1> QED
  BY <1>1, <1>5, <1>6

(* So does any step of the rail.                                           *)
LEMMA GoesQuieter ==
    ASSUME NEW c \in Slice, NEW d, NEW t, Goes(c, d, t)
    PROVE  Quieter(c, d) \/ Decides(c, d)
<1>1. CASE Proposed(c, d, t)
  <2>1. /\ c.state = "UNREGISTERED" /\ d.state = "PROPOSED"
        /\ d.execution = c.execution /\ d.remedy_calls = c.remedy_calls
    BY <1>1 DEF Proposed, Same, Fields, Unregistered
  <2>2. Entries(d, "EXECUTED") = Entries(c, "EXECUTED")
    BY <1>1, LogsGrows DEF Proposed
  <2> QED
    BY <2>1, <2>2 DEF Quieter, Unasked, Acted, Counts, Absent, Settles
<1>2. CASE Qualifies(c, d, t)
  <2>1. /\ d.state = c.state /\ d.execution = c.execution
        /\ d.receipt = c.receipt /\ d.remedy_calls = c.remedy_calls
    BY <1>2 DEF Qualifies, Same, Fields, Unregistered
  <2>2. Entries(d, "EXECUTED") = Entries(c, "EXECUTED")
    BY <1>2, LogsGrows DEF Qualifies
  <2> QED
    BY <2>1, <2>2, AloneQuieter DEF Alone
<1>3. CASE Asked(c, d) \/ LapsesTo(c, d) \/ d = c
  <2>1. /\ d.state = c.state /\ d.execution = c.execution /\ d.events = c.events
        /\ d.receipt = c.receipt /\ d.remedy_calls = c.remedy_calls
    BY <1>3 DEF Asked, LapsesTo, Same, Fields, Unregistered
  <2> QED
    BY <2>1, AloneQuieter DEF Alone, Entries, Moves
<1>4. ASSUME NEW op, NEW answer, NEW n, Heard(c, n, op, answer, t),
             (d = n /\ Paused(op, n)) \/ Left(op, answer, n, d, t)
      PROVE  Quieter(c, d) \/ Decides(c, d)
  <2>1. Alone(c, n) /\ n \in Slice
    BY <1>4, HeardAlone DEF Heard
  <2>2. CASE d = n
    BY <2>1, <2>2, AloneQuieter
  <2>3. CASE Left(op, answer, n, d, t)
    <3>1. n.state = c.state /\ Quieter(c, n)
      BY <2>1, AloneQuieter DEF Alone
    <3>2. CASE Quieter(n, d)
      <4>1. n.execution = c.execution
        BY <2>1 DEF Alone
      <4> QED
        BY <3>1, <3>2, <4>1 DEF Quieter
    <3>3. CASE Decides(n, d)
      <4>1. (Counts(n) <=> Counts(c)) /\ n.remedy_calls = c.remedy_calls
        BY <2>1 DEF Alone, Counts
      <4> QED
        BY <3>1, <3>3, <4>1 DEF Decides
    <3> QED
      BY <2>1, <2>3, <3>2, <3>3, LeftQuieter
  <2> QED
    BY <1>4, <2>2, <2>3
<1> QED
  BY <1>1, <1>2, <1>3, <1>4 DEF Goes, Walk

-------------------------------------------------------------------------------
(* The rail's side: which answers a step awaits, and what it logs first.   *)

\* d awaits the same answers, and knows the same of the execution.
Steady(c, d) == d.awaiting = c.awaiting /\ d.execution = c.execution

\* The log of d begins with that of c.
Prolongs(c, d) ==
    \A i \in DOMAIN c.events : i \in DOMAIN d.events /\ d.events[i] = c.events[i]

(* An event more is an extension.                                          *)
LEMMA GrowsProlongs ==
    ASSUME NEW c, NEW d, Grows(c, d)
    PROVE  Prolongs(c, d)
  BY DEF Grows, Prolongs

(* An ending awaits nothing and only appends.                              *)
LEMMA EndingSteady ==
    ASSUME NEW m \in Slice, NEW x, NEW t, Ending(m, x, t)
    PROVE  Steady(m, x) /\ Prolongs(m, x)
<1>1. Steady(m, x)
  BY EndingClaims DEF Steady
<1>2. PICK r \in Slice, f \in Slice : /\ r = m \/ Returned(m, r)
                                      /\ f = r \/ Recorded(r, f, t)
                                      /\ x = f \/ Closed(f, x, t)
  BY DEF Ending
<1>3. r.events = m.events
  BY <1>2 DEF Returned, Same, Fields, Unregistered
<1>4. f.events = r.events \/ Grows(r, f)
  <2>1. CASE Recorded(r, f, t)
    <3>1. PICK type \in {"RECOURSE_STATUS_RECORDED", "RECOURSE_FINALIZED"} :
             Logs(r, f, type, r.recourse, t)
      BY <2>1 DEF Recorded
    <3> QED
      BY <3>1, LogsGrows
  <2> QED
    BY <1>2, <2>1
<1>5. x = f \/ Grows(f, x)
  <2>1. CASE Closed(f, x, t)
    <3>1. PICK info : LogsMove(f, x, info, t)
      BY <2>1 DEF Closed
    <3> QED
      BY <3>1, LogsMoveGrows
  <2> QED
    BY <1>2, <2>1
<1>6. Prolongs(r, f) /\ Prolongs(f, x)
  BY <1>4, <1>5, GrowsProlongs DEF Prolongs
<1> QED
  BY <1>1, <1>3, <1>6 DEF Prolongs

(* A transition awaits nothing and only appends.                           *)
LEMMA TransitionSteady ==
    ASSUME NEW c \in Slice, c.state \in States, NEW next \in States, NEW t \in Nat
    PROVE  LET m == Transition(c, next, "", t)
           IN /\ m \in Slice /\ m.state = next
              /\ Steady(c, m) /\ Prolongs(c, m)
<1> DEFINE m == Transition(c, next, "", t)
<1>1. "" \in Infos
  BY DEF Infos
<1>2. /\ m \in Slice /\ m.state = next
      /\ Same(c, m, {"state", "events"}) /\ LogsMove(c, m, "", t)
  BY <1>1, TransitionStep, TransitionLogs
<1> HIDE DEF m
<1>3. Steady(c, m)
  BY <1>2 DEF Steady, Same, Fields, Unregistered
<1>4. Prolongs(c, m)
  <2>1. PICK info : LogsMove(c, m, info, t)
    BY <1>2
  <2> QED
    BY <2>1, LogsMoveGrows, GrowsProlongs
<1> QED
  BY <1>2, <1>3, <1>4 DEF m

(* While nothing throws a segment ends where it should.                    *)
LEMMA Completes ==
    ASSUME Inv, NEW a \in Action, NEW done, NEW stops, Reaches(a, done, stops)
    PROVE  actions'[a] = done
  BY ConnectorAssumption DEF Reaches, Inv, TypeOK

(* Withdrawing awaits nothing.                                             *)
LEMMA WithdrawSteady ==
    ASSUME Inv, NEW a \in Action, NEW c \in Slice, c.state \in States,
           NEW next \in WithdrawnStates, NEW t \in Nat, Withdraw(a, c, next, t)
    PROVE  Steady(c, actions'[a])
<1> DEFINE m == Transition(c, next, "", t)
           f == Finalize(m, TRUE, t)
<1>1. actions'[a] = f
  BY Completes DEF Withdraw
<1>2. /\ next \in States /\ next \in EndStates /\ next \in ReturningStates
  BY DEF WithdrawnStates, States, EndStates, ReturningStates
<1>3. m \in Slice /\ m.state = next /\ Steady(c, m)
  BY <1>2, TransitionSteady
<1> HIDE DEF m
<1>4. \E r \in Slice : /\ r = m \/ Returned(m, r)
                       /\ f = r \/ Recorded(r, f, t)
  BY <1>2, <1>3, FinalizeEnds
<1>5. f \in Slice
  BY <1>3, FinalizeStep
<1>6. Ending(m, f, t)
  BY <1>4, <1>5 DEF Ending
<1> QED
  BY <1>1, <1>3, <1>6, EndingSteady DEF Steady

(* So does concluding.                                                     *)
LEMMA CloseSteady ==
    ASSUME NEW c \in Slice, c.state \in States,
           NEW next \in RECEIPT_STATES, NEW t \in Nat
    PROVE  LET m == Transition(c, next, "", t)
               d == Close(m, t)
           IN /\ d \in Slice /\ Steady(c, d) /\ Prolongs(c, d)
              /\ \/ d.state = next
                 \/ /\ d.state = "CLOSED"
                    /\ d.receipt[1].outcome = RECEIPT_OUTCOME_BY_STATE[next]
<1> DEFINE m == Transition(c, next, "", t)
           d == Close(m, t)
<1>1. next \in States
  BY DEF RECEIPT_STATES, DisputedStates, States
<1>2. m \in Slice /\ m.state = next /\ Steady(c, m) /\ Prolongs(c, m)
  BY <1>1, TransitionSteady
<1> HIDE DEF m
<1>3. d \in Slice /\ Ending(m, d, t)
  BY <1>2, CloseEnds
<1> HIDE DEF d
<1>4. Steady(m, d) /\ Prolongs(m, d)
  BY <1>2, <1>3, EndingSteady
<1>5. \/ d.state = m.state
      \/ d.state = "CLOSED" /\ d.receipt[1].outcome = RECEIPT_OUTCOME_BY_STATE[m.state]
  BY <1>2, <1>3, EndingClaims
<1>6. Steady(c, d)
  BY <1>2, <1>4 DEF Steady
<1>7. Prolongs(c, d)
  BY <1>2, <1>4 DEF Prolongs
<1> QED
  BY <1>2, <1>3, <1>5, <1>6, <1>7 DEF m, d

LEMMA ConcludeSteady ==
    ASSUME Inv, NEW a \in Action, NEW c \in Slice, c.state \in States,
           NEW next \in RECEIPT_STATES, NEW t \in Nat, Conclude(a, c, next, t)
    PROVE  Steady(c, actions'[a])
  BY Completes, CloseSteady DEF Conclude

\* One answer of op more, or less, is awaited, and no other.
Asks(c, d, op) == d.awaiting = [c.awaiting EXCEPT ![op] = c.awaiting[op] + 1]
Gets(c, d, op) == d.awaiting = [c.awaiting EXCEPT ![op] = c.awaiting[op] - 1]

(* The handlers up to the permit await nothing.                            *)
LEMMA QuietlyAwaits ==
    ASSUME Inv, NEW a \in Action,
           Propose(a) \/ Authorize(a) \/ ReserveRecourse(a) \/ IssuePermit(a)
    PROVE  /\ actions[a].state \in Unasked
           /\ actions'[a].awaiting = actions[a].awaiting
<1> DEFINE c == actions[a]
<1>1. c \in Slice /\ actions \in [Action -> Slice]
  BY DEF Inv, TypeOK, Good
<1>2. CASE Propose(a)
  <2>1. PICK t \in 0 .. MaxTime, mode \in Modes,
             requested \in RequestedAts, expiry \in ActionExpiries :
           /\ c.state = "UNREGISTERED"
           /\ actions' = [actions EXCEPT ![a] =
                 [Note(c, "ACTION_PROPOSED", "PROPOSED", t)
                  EXCEPT !.state = "PROPOSED", !.mode = mode,
                         !.requested_at = requested, !.expires_at = expiry]]
    BY <1>2 DEF Propose
  <2>2. actions'[a] = [Note(c, "ACTION_PROPOSED", "PROPOSED", t)
                       EXCEPT !.state = "PROPOSED", !.mode = mode,
                              !.requested_at = requested, !.expires_at = expiry]
    BY <1>1, <2>1
  <2>3. actions'[a].awaiting = c.awaiting
    BY <1>1, <2>2 DEF Note, Slice
  <2> QED
    BY <2>1, <2>3 DEF Unasked
<1>3. CASE Authorize(a)
  <2>1. PICK t \in 0 .. MaxTime, allow \in BOOLEAN, required \in PreflightDecisions :
           /\ c.state = "PROPOSED"
           /\ actions' = [actions EXCEPT ![a] =
                 [Transition(c, IF allow THEN "AUTHORIZED" ELSE "DENIED", "", t)
                  EXCEPT !.preflight_required = required]]
    BY <1>3 DEF Authorize
  <2>2. actions'[a] = [Transition(c, IF allow THEN "AUTHORIZED" ELSE "DENIED", "", t)
                       EXCEPT !.preflight_required = required]
    BY <1>1, <2>1
  <2>3. actions'[a].awaiting = c.awaiting
    BY <1>1, <2>2 DEF Transition, Slice
  <2> QED
    BY <2>1, <2>3 DEF Unasked
<1>4. CASE ReserveRecourse(a)
  <2>1. PICK t \in 0 .. MaxTime, kind \in Kinds, until \in RecourseExpiries,
             attempts \in AttemptLimits :
           /\ c.state = "AUTHORIZED"
           /\ \E at : Reaches(a, [Transition([c EXCEPT !.recourse = "active"],
                                              "RECOURSE_RESERVED", "", t)
                                   EXCEPT !.kind = kind, !.reserved_at = at,
                                          !.reserved_until = until,
                                          !.max_attempts = attempts],
                               {c, [c EXCEPT !.recourse = "active"]})
    BY <1>4 DEF ReserveRecourse
  <2>2. PICK at :
           actions'[a] = [Transition([c EXCEPT !.recourse = "active"],
                                     "RECOURSE_RESERVED", "", t)
                          EXCEPT !.kind = kind, !.reserved_at = at,
                                 !.reserved_until = until,
                                 !.max_attempts = attempts]
    BY <2>1, Completes
  <2> QED
    BY <1>1, <2>1, <2>2 DEF Transition, Unasked, Slice
<1>5. CASE IssuePermit(a)
  <2>1. PICK t \in 0 .. MaxTime :
           /\ c.state = "RECOURSE_RESERVED"
           /\ \/ Withdraw(a, c, "EXPIRED", t)
              \/ Withdraw(a, c, "REVOKED", t)
              \/ actions' = [actions EXCEPT ![a] =
                    [Transition(c, "PERMITTED", "", t) EXCEPT !.permit_issued_at = t]]
    BY <1>5 DEF IssuePermit
  <2>5. c.state = "RECOURSE_RESERVED"
    BY <2>1
  <2>2. t \in Nat /\ c.state \in States
    BY <2>5, ClockAssumption DEF States
  <2>3. CASE Withdraw(a, c, "EXPIRED", t) \/ Withdraw(a, c, "REVOKED", t)
    BY <1>1, <2>1, <2>2, <2>3, WithdrawSteady DEF WithdrawnStates, Steady, Unasked
  <2>4. CASE actions' = [actions EXCEPT ![a] =
                [Transition(c, "PERMITTED", "", t) EXCEPT !.permit_issued_at = t]]
    BY <1>1, <2>1, <2>4 DEF Transition, Unasked, Slice
  <2> QED
    BY <2>1, <2>3, <2>4
<1> QED
  BY <1>2, <1>3, <1>4, <1>5

(* execute() calls the connector, or withdraws.                            *)
LEMMA ExecuteAwaits ==
    ASSUME Inv, NEW a \in Action, Execute(a)
    PROVE  /\ actions[a].state = "PERMITTED"
           /\ \/ actions'[a].awaiting = actions[a].awaiting
              \/ Asks(actions[a], actions'[a], "execute") /\ actions'[a].state = "EXECUTING"
<1> DEFINE c == actions[a]
<1>1. c \in Slice /\ actions \in [Action -> Slice]
  BY DEF Inv, TypeOK, Good
<1>2. PICK t \in 0 .. MaxTime :
        /\ c.state = "PERMITTED"
        /\ \/ Withdraw(a, c, "EXPIRED", t)
           \/ Withdraw(a, c, "REVOKED", t)
           \/ actions' = [actions EXCEPT ![a] =
                 [Begin(Transition(c, "EXECUTING", "", t), "execute")
                  EXCEPT !.permit_uses = @ + 1, !.execute_calls = @ + 1]]
  BY DEF Execute
<1>3. t \in Nat /\ c.state \in States /\ "EXECUTING" \in States /\ "execute" \in Operations
  BY <1>2, ClockAssumption DEF States, Operations
<1>4. CASE Withdraw(a, c, "EXPIRED", t) \/ Withdraw(a, c, "REVOKED", t)
  BY <1>1, <1>2, <1>3, <1>4, WithdrawSteady DEF WithdrawnStates, Steady
<1>5. CASE actions' = [actions EXCEPT ![a] =
              [Begin(Transition(c, "EXECUTING", "", t), "execute")
               EXCEPT !.permit_uses = @ + 1, !.execute_calls = @ + 1]]
  <2> DEFINE m == Transition(c, "EXECUTING", "", t)
             b == Begin(m, "execute")
  <2>1. m \in Slice /\ m.state = "EXECUTING" /\ Steady(c, m)
    BY <1>1, <1>3, TransitionSteady
  <2>2. actions'[a] = [b EXCEPT !.permit_uses = @ + 1, !.execute_calls = @ + 1]
    BY <1>1, <1>5
  <2> HIDE DEF m
  <2>3. b \in Slice /\ b.state = m.state /\ Asks(m, b, "execute")
    BY <1>3, <2>1, BeginStep DEF Asks
  <2> HIDE DEF b
  <2>4. actions'[a].state = b.state /\ actions'[a].awaiting = b.awaiting
    BY <2>2, <2>3 DEF Slice
  <2> QED
    BY <1>2, <2>1, <2>3, <2>4 DEF Steady, Asks
<1> QED
  BY <1>2, <1>4, <1>5

(* Status reads and observations are asked for one at a time.              *)
LEMMA ReadAwaits ==
    ASSUME Inv, NEW a \in Action
    PROVE  /\ Reconcile(a) => /\ actions[a].state = "UNKNOWN"
                              /\ Asks(actions[a], actions'[a], "reconcile")
           /\ ReconcileRemedy(a) =>
                 /\ actions[a].state = "REMEDY_UNKNOWN"
                 /\ Asks(actions[a], actions'[a], "reconcileRemedy")
           /\ VerifyOutcome(a) => /\ actions[a].state = "EXECUTED"
                                  /\ Asks(actions[a], actions'[a], "observe")
<1> DEFINE c == actions[a]
<1>1. c \in Slice /\ actions \in [Action -> Slice]
  BY DEF Inv, TypeOK, Good
<1>2. \A op \in {"reconcile", "reconcileRemedy"} : Asks(c, Begin(c, op), op)
  BY <1>1, BeginStep DEF Asks, Operations
<1>3. /\ Reconcile(a) => c.state = "UNKNOWN" /\ Asks(c, actions'[a], "reconcile")
      /\ ReconcileRemedy(a) =>
            c.state = "REMEDY_UNKNOWN" /\ Asks(c, actions'[a], "reconcileRemedy")
  BY <1>1, <1>2 DEF Reconcile, ReconcileRemedy
<1>4. ASSUME VerifyOutcome(a)
      PROVE  c.state = "EXECUTED" /\ Asks(c, actions'[a], "observe")
  <2>1. PICK t \in 0 .. MaxTime :
           /\ c.state = "EXECUTED"
           /\ actions' = [actions EXCEPT ![a] =
                 Begin(Transition(c, "VERIFYING", "", t), "observe")]
    BY <1>4 DEF VerifyOutcome
  <2> DEFINE m == Transition(c, "VERIFYING", "", t)
  <2>5. c.state = "EXECUTED"
    BY <2>1
  <2>2. t \in Nat /\ c.state \in States /\ "VERIFYING" \in States /\ "observe" \in Operations
    BY <2>5, ClockAssumption DEF States, Operations
  <2>3. m \in Slice /\ Steady(c, m)
    BY <1>1, <2>2, TransitionSteady
  <2>4. actions'[a] = Begin(m, "observe")
    BY <1>1, <2>1
  <2> HIDE DEF m
  <2>6. Asks(m, actions'[a], "observe")
    BY <2>2, <2>3, <2>4, BeginStep DEF Asks
  <2> QED
    BY <2>3, <2>5, <2>6 DEF Asks, Steady
<1> QED
  BY <1>3, <1>4

(* remediate() calls the connector, and counts it, or concludes.           *)
LEMMA RemediateAwaits ==
    ASSUME Inv, NEW a \in Action, Remediate(a)
    PROVE  /\ actions[a].state = "REMEDY_DUE"
           /\ \/ actions'[a].awaiting = actions[a].awaiting
              \/ Asks(actions[a], actions'[a], "remediate") /\ actions'[a].remedy_calls # 0
<1> DEFINE c == actions[a]
<1>1. c \in Slice /\ actions \in [Action -> Slice]
  BY DEF Inv, TypeOK, Good
<1>2. PICK t \in 0 .. MaxTime, left \in Spent :
        /\ c.state = "REMEDY_DUE"
        /\ \/ Conclude(a, c, "REVIEW_REQUIRED", t)
           \/ actions' = [actions EXCEPT ![a] =
                 [Begin(Transition(c, "REMEDIATING", "", t), "remediate")
                  EXCEPT !.remedy_attempts = @ + 1, !.remedy_calls = @ + 1,
                         !.recourse = left]]
  BY DEF Remediate, AwaitsRemedy, Spent
<1>3. /\ t \in Nat /\ c.state \in States /\ "REMEDIATING" \in States
      /\ "remediate" \in Operations /\ "" \in Infos
  BY <1>2, ClockAssumption DEF States, Operations, Infos
<1>4. CASE Conclude(a, c, "REVIEW_REQUIRED", t)
  BY <1>1, <1>2, <1>3, <1>4, ConcludeSteady DEF RECEIPT_STATES, DisputedStates, Steady
<1>5. CASE actions' = [actions EXCEPT ![a] =
              [Begin(Transition(c, "REMEDIATING", "", t), "remediate")
               EXCEPT !.remedy_attempts = @ + 1, !.remedy_calls = @ + 1,
                      !.recourse = left]]
  <2> DEFINE m == Transition(c, "REMEDIATING", "", t)
             b == Begin(m, "remediate")
  <2>1. m \in Slice /\ Steady(c, m)
    BY <1>1, <1>3, TransitionSteady
  <2>2. actions'[a] = [b EXCEPT !.remedy_attempts = @ + 1, !.remedy_calls = @ + 1,
                                !.recourse = left]
    BY <1>1, <1>5
  <2> HIDE DEF m
  <2>3. b \in Slice /\ Asks(m, b, "remediate")
    BY <1>3, <2>1, BeginStep DEF Asks
  <2> HIDE DEF b
  <2>4. actions'[a].awaiting = b.awaiting /\ actions'[a].remedy_calls = b.remedy_calls + 1
    BY <2>2, <2>3 DEF Slice
  <2>5. b.remedy_calls \in Nat
    BY <2>3 DEF Slice
  <2>6. actions'[a].remedy_calls # 0
    BY <2>4, <2>5
  <2> QED
    BY <1>2, <2>1, <2>3, <2>4, <2>6 DEF Steady, Asks
<1> QED
  BY <1>2, <1>4, <1>5

\* The answer of op arrives and the remedy is observed at once.
Turns(c, d, op) ==
    d.awaiting = [[c.awaiting EXCEPT ![op] = c.awaiting[op] - 1]
                  EXCEPT !["observeRemedy"] = @ + 1]

(* A resumed continuation has taken its answer and nothing else.           *)
LEMMA FinishSteady ==
    ASSUME NEW c \in Slice, NEW op \in Operations, c.awaiting[op] > 0
    PROVE  LET n == Finish(c, op)
           IN /\ n \in Slice /\ Gets(c, n, op)
              /\ n.state = c.state /\ n.execution = c.execution /\ n.events = c.events
<1> DEFINE n == Finish(c, op)
<1>1. n \in Slice /\ Same(c, n, {"awaiting"}) /\ Gets(c, n, op)
  BY FinishResumes, FinishStep DEF Gets
<1> HIDE DEF n
<1>2. n.state = c.state /\ n.execution = c.execution /\ n.events = c.events
  BY <1>1 DEF Same, Fields, Unregistered
<1> QED
  BY <1>1, <1>2 DEF n

(* A state with a continuation of its own, and what holds of it.           *)
LEMMA AwaitedStates ==
    ASSUME Inv, NEW a \in Action
    PROVE  /\ actions[a] \in Slice /\ actions \in [Action -> Slice]
           /\ actions[a].awaiting["execute"] > 0 => actions[a].state = "EXECUTING"
           /\ actions[a].awaiting["observe"] > 0 => actions[a].state = "VERIFYING"
           /\ actions[a].awaiting["remediate"] > 0 => actions[a].state = "REMEDIATING"
           /\ actions[a].awaiting["reconcile"] > 0 =>
                 actions[a].state \in States \ Unasked /\ actions[a].state # "EXECUTING"
           /\ actions[a].awaiting["reconcileRemedy"] > 0 =>
                 actions[a].state \in States \ (Unasked \cup Deciding)
  BY DEF Inv, TypeOK, Good, Resumable, AfterUnknown, AfterRemedyUnknown, States,
         Unasked, Deciding

(* Resuming execute().                                                     *)
LEMMA ExecuteAnsweredGets ==
    ASSUME Inv, NEW a \in Action, ExecuteAnswered(a)
    PROVE  /\ actions[a].state = "EXECUTING" /\ actions[a].awaiting["execute"] > 0
           /\ Gets(actions[a], actions'[a], "execute")
           /\ actions'[a].execution \in {actions[a].execution, "executed", "unknown"}
<1> DEFINE c == actions[a]
           n == Finish(c, "execute")
           d == actions'[a]
           E(t) == Transition(n, "EXECUTED", "", t)
           U(t) == Transition(n, "UNKNOWN", "", t)
<1>1. PICK t \in 0 .. MaxTime :
        /\ c.awaiting["execute"] > 0
        /\ \/ Reaches(a, [E(t) EXCEPT !.execution = "executed"],
                      {[U(t) EXCEPT !.execution = "unknown"], n})
           \/ Reaches(a, [U(t) EXCEPT !.execution = "unknown"], {n})
           \/ Withdraw(a, n, "FAILED", t)
  BY DEF ExecuteAnswered
<1>0. c \in Slice /\ c.state = "EXECUTING"
  BY <1>1, AwaitedStates
<1>2. /\ c \in Slice /\ c.state = "EXECUTING" /\ t \in Nat /\ "execute" \in Operations
      /\ {"EXECUTED", "UNKNOWN", "EXECUTING"} \subseteq States
      /\ "executed" \in Results /\ "unknown" \in Results
  BY <1>0, ClockAssumption DEF Operations, States, Results
<1>3. /\ n \in Slice /\ Gets(c, n, "execute") /\ n.state = "EXECUTING"
      /\ n.execution = c.execution
  BY <1>1, <1>2, FinishSteady
<1> DEFINE e == E(t)
           u == U(t)
<1>4. \/ d = [e EXCEPT !.execution = "executed"]
      \/ d = [u EXCEPT !.execution = "unknown"]
      \/ Withdraw(a, n, "FAILED", t)
  BY <1>1, Completes
<1> HIDE DEF n
<1>5. e \in Slice /\ Steady(n, e) /\ u \in Slice /\ Steady(n, u)
  BY <1>2, <1>3, TransitionSteady
<1> HIDE DEF e, u
<1>6. CASE Withdraw(a, n, "FAILED", t)
  <2>1. Steady(n, d)
    BY <1>2, <1>3, <1>6, WithdrawSteady DEF WithdrawnStates
  <2> QED
    BY <1>1, <1>2, <1>3, <2>1 DEF Steady, Gets
<1>7. ASSUME NEW x \in Slice, NEW result \in {"executed", "unknown"},
             Steady(n, x), d = [x EXCEPT !.execution = result]
      PROVE  Gets(c, d, "execute") /\ d.execution = result
  <2>1. d.awaiting = x.awaiting /\ d.execution = result
    BY <1>7 DEF Slice
  <2> QED
    BY <1>3, <1>7, <2>1 DEF Steady, Gets
<1> QED
  BY <1>1, <1>2, <1>4, <1>5, <1>6, <1>7

(* Resuming reconcile().                                                   *)
LEMMA ReconcileAnsweredGets ==
    ASSUME Inv, NEW a \in Action, ReconcileAnswered(a)
    PROVE  /\ actions[a].awaiting["reconcile"] > 0
           /\ Gets(actions[a], actions'[a], "reconcile")
<1> DEFINE c == actions[a]
           n == Finish(c, "reconcile")
           d == actions'[a]
           E(t) == Transition(n, "EXECUTED", "", t)
           F(t) == Transition(n, "FAILED", "", t)
           R(t) == Close(Transition(n, "REVIEW_REQUIRED", "", t), t)
<1>1. PICK t \in 0 .. MaxTime :
        /\ c.awaiting["reconcile"] > 0
        /\ \/ Reaches(a, [E(t) EXCEPT !.execution = "executed"], {n})
           \/ Reaches(a, [Finalize(F(t), TRUE, t) EXCEPT !.execution = "no_effect"],
                      {n} \cup FinalizeStops(F(t), TRUE))
           \/ Reaches(a, IF R(t).state = "CLOSED"
                         THEN [R(t) EXCEPT !.execution = "unknown"] ELSE R(t),
                      {n} \cup CloseStops(Transition(n, "REVIEW_REQUIRED", "", t), t))
           \/ actions' = [actions EXCEPT ![a] = n]
  BY DEF ReconcileAnswered
<1>0. c \in Slice /\ actions \in [Action -> Slice] /\ c.state \in States
  BY <1>1, AwaitedStates
<1>2. /\ c \in Slice /\ actions \in [Action -> Slice]
      /\ c.state \in States /\ t \in Nat /\ "reconcile" \in Operations
      /\ {"EXECUTED", "FAILED"} \subseteq States
      /\ "REVIEW_REQUIRED" \in RECEIPT_STATES
  BY <1>0, ClockAssumption DEF Operations, States, RECEIPT_STATES, DisputedStates
<1>3. n \in Slice /\ Gets(c, n, "reconcile") /\ n.state \in States
  BY <1>1, <1>2, FinishSteady
<1> DEFINE e == E(t)
           m == F(t)
           f == Finalize(m, TRUE, t)
           y == R(t)
<1>4. \/ d = [e EXCEPT !.execution = "executed"]
      \/ d = [f EXCEPT !.execution = "no_effect"]
      \/ d = y \/ d = [y EXCEPT !.execution = "unknown"]
      \/ d = n
  BY <1>1, <1>2, Completes
<1> HIDE DEF n
<1>5. e \in Slice /\ Steady(n, e) /\ m \in Slice /\ Steady(n, m)
  BY <1>2, <1>3, TransitionSteady
<1>10. y \in Slice /\ Steady(n, y)
  BY <1>2, <1>3, CloseSteady
<1> HIDE DEF e, m, y
<1>6. f \in Slice /\ Quiet(m, f)
  BY <1>2, <1>5, FinalizeStep
<1> HIDE DEF f
<1>7. CASE d = [e EXCEPT !.execution = "executed"]
  <2>1. d.awaiting = e.awaiting
    BY <1>5, <1>7 DEF Slice
  <2> QED
    BY <1>1, <1>3, <1>5, <2>1 DEF Steady, Gets
<1>8. CASE d = [f EXCEPT !.execution = "no_effect"]
  <2>1. d.awaiting = f.awaiting
    BY <1>6, <1>8 DEF Slice
  <2> QED
    BY <1>1, <1>3, <1>5, <1>6, <2>1 DEF Steady, Gets, Quiet
<1>9. CASE d = y \/ d = [y EXCEPT !.execution = "unknown"]
  <2>1. d.awaiting = y.awaiting
    BY <1>9, <1>10 DEF Slice
  <2> QED
    BY <1>1, <1>3, <1>10, <2>1 DEF Steady, Gets
<1> QED
  BY <1>1, <1>3, <1>4, <1>7, <1>8, <1>9

\* What the log of d says first beyond that of c.
Says1st(c, d, type, info) ==
    LET i == Len(c.events) + 1
    IN /\ i \in DOMAIN d.events
       /\ d.events[i].type = type /\ d.events[i].info = info

(* Evidence refused is logged, and the action is disputed.                 *)
LEMMA RejectSteady ==
    ASSUME Inv, NEW a \in Action, NEW c \in Slice, c.state \in States,
           NEW type \in EventTypes, NEW next \in DisputedStates, NEW t \in Nat,
           RejectEvidence(a, c, type, next, t)
    PROVE  Steady(c, actions'[a]) /\ ~Settles(actions'[a])
<1> DEFINE n == Note(c, type, "", t)
           m == Transition(n, next, "", t)
           d == Close(m, t)
<1>1. actions'[a] = d
  BY Completes DEF RejectEvidence
<1>2. "" \in Infos /\ next \in RECEIPT_STATES
  BY DEF Infos, RECEIPT_STATES
<1>3. n \in Slice /\ n.state = c.state /\ Same(c, n, {"events"})
  BY <1>2, NoteStep, NoteLogs
<1> HIDE DEF n
<1>4. Steady(c, n)
  BY <1>3 DEF Steady, Same, Fields, Unregistered
<1>5. /\ Steady(n, d)
      /\ \/ d.state = next
         \/ /\ d.state = "CLOSED"
            /\ d.receipt[1].outcome = RECEIPT_OUTCOME_BY_STATE[next]
  BY <1>2, <1>3, CloseSteady
<1> HIDE DEF d
<1>6. ~Settles(d)
  <2>1. RECEIPT_OUTCOME_BY_STATE[next] = "disputed"
    BY <1>2 DEF RECEIPT_OUTCOME_BY_STATE, DisputedStates
  <2>2. next \notin {"SATISFIED", "CLOSED"}
    BY DEF DisputedStates
  <2> QED
    BY <1>5, <2>1, <2>2 DEF Settles
<1> QED
  BY <1>1, <1>4, <1>5, <1>6 DEF Steady

(* Evidence accepted is logged as what it says.                            *)
LEMMA AcceptSteady ==
    ASSUME NEW c \in Slice,
           NEW type \in EventTypes, NEW phase \in {"initial", "post-remedy"},
           NEW satisfied \in BOOLEAN, NEW o \in Nat, NEW own \in BOOLEAN, NEW t \in Nat
    PROVE  LET e == Accept(c, type, phase, satisfied, o, own, t)
           IN /\ e \in Slice /\ e.state = c.state /\ Steady(c, e)
              /\ Says1st(c, e, type, Weighs(satisfied))
<1> DEFINE info == IF satisfied THEN "satisfied" ELSE "unsatisfied"
           n == Note(c, type, info, t)
           e == Accept(c, type, phase, satisfied, o, own, t)
<1>1. info \in Infos /\ info = Weighs(satisfied)
  BY DEF Infos, Weighs
<1> HIDE DEF info
<1>2. n \in Slice /\ Same(c, n, {"events"}) /\ Logs(c, n, type, info, t)
  BY <1>1, NoteStep, NoteLogs
<1>3. e \in Slice /\ e.state = c.state
  BY AcceptStep
<1>4. e.events = n.events /\ e.execution = n.execution /\ e.awaiting = n.awaiting
  BY <1>2, SliceFields DEF Accept, info, Fields, Unregistered
<1> HIDE DEF n, e
<1>5. n.execution = c.execution /\ n.awaiting = c.awaiting
  BY <1>2 DEF Same, Fields, Unregistered
<1>6. Says1st(c, e, type, info)
  <2>1. c.events \in Seq(Event)
    BY DEF Slice
  <2> QED
    BY <1>2, <1>4, <2>1 DEF Logs, Says1st
<1> QED
  BY <1>1, <1>3, <1>4, <1>5, <1>6 DEF Steady, e

(* What is said first stays first.                                         *)
LEMMA Extends1st ==
    ASSUME NEW c, NEW e, NEW d, NEW type, NEW info,
           Says1st(c, e, type, info), Prolongs(e, d)
    PROVE  Says1st(c, d, type, info)
  BY DEF Says1st, Prolongs

(* Resuming the initial verification.                                      *)
LEMMA OutcomeObservedGets ==
    ASSUME Inv, NEW a \in Action, OutcomeObserved(a)
    PROVE  /\ actions[a].state = "VERIFYING" /\ actions[a].awaiting["observe"] > 0
           /\ Gets(actions[a], actions'[a], "observe")
           /\ Settles(actions'[a]) =>
                 Says1st(actions[a], actions'[a], "EVIDENCE_ACCEPTED", "satisfied")
<1> DEFINE c == actions[a]
           n == Finish(c, "observe")
           d == actions'[a]
           A(satisfied, o, own, t) ==
              Accept(n, "EVIDENCE_ACCEPTED", "initial", satisfied, o, own, t)
<1>1. PICK t \in 0 .. MaxTime :
        /\ c.awaiting["observe"] > 0
        /\ \/ RejectEvidence(a, n, "EVIDENCE_REJECTED", "INCONCLUSIVE", t)
           \/ \E o \in Fresh, own \in Ownership :
                 LET m == Transition(A(TRUE, o, own, t), "SATISFIED", "", t)
                 IN Reaches(a, Close(m, t), {n, A(TRUE, o, own, t)} \cup CloseStops(m, t))
           \/ \E o \in Fresh, own \in Ownership :
                 LET m == Transition(A(FALSE, o, own, t), "BREACHED", "", t)
                 IN Reaches(a, Transition(m, "REMEDY_DUE", "", t),
                            {n, A(FALSE, o, own, t), m})
  BY DEF OutcomeObserved
<1>0. c \in Slice /\ c.state = "VERIFYING"
  BY <1>1, AwaitedStates
<1>2. /\ t \in Nat /\ "observe" \in Operations /\ "VERIFYING" \in States
      /\ {"BREACHED", "REMEDY_DUE"} \subseteq States
      /\ "INCONCLUSIVE" \in DisputedStates /\ "SATISFIED" \in RECEIPT_STATES
      /\ {"EVIDENCE_ACCEPTED", "EVIDENCE_REJECTED"} \subseteq EventTypes
  BY ClockAssumption DEF Operations, States, DisputedStates, RECEIPT_STATES, EventTypes
<1>3. /\ n \in Slice /\ Gets(c, n, "observe") /\ n.state = "VERIFYING"
      /\ n.events = c.events
  BY <1>0, <1>1, <1>2, FinishSteady
<1> HIDE DEF n
<1>4. CASE RejectEvidence(a, n, "EVIDENCE_REJECTED", "INCONCLUSIVE", t)
  <2>1. Steady(n, d) /\ ~Settles(d)
    BY <1>2, <1>3, <1>4, RejectSteady
  <2> QED
    BY <1>0, <1>1, <1>3, <2>1 DEF Steady, Gets
<1>5. ASSUME NEW satisfied \in BOOLEAN, NEW o \in Fresh, NEW own \in Ownership
      PROVE  LET e == A(satisfied, o, own, t)
             IN /\ e \in Slice /\ e.state = "VERIFYING" /\ Steady(n, e)
                /\ Says1st(n, e, "EVIDENCE_ACCEPTED", Weighs(satisfied))
  <2>1. o \in Nat /\ own \in BOOLEAN
    BY ObservationType DEF Inv, TypeOK
  <2> QED
    BY <1>2, <1>3, <2>1, AcceptSteady
<1>6. ASSUME NEW o \in Fresh, NEW own \in Ownership,
             d = Close(Transition(A(TRUE, o, own, t), "SATISFIED", "", t), t)
      PROVE  Gets(c, d, "observe") /\ Says1st(c, d, "EVIDENCE_ACCEPTED", "satisfied")
  <2> DEFINE e == A(TRUE, o, own, t)
  <2>1. /\ e \in Slice /\ e.state = "VERIFYING" /\ Steady(n, e)
        /\ Says1st(n, e, "EVIDENCE_ACCEPTED", Weighs(TRUE))
    BY <1>5
  <2>2. d = Close(Transition(e, "SATISFIED", "", t), t)
    BY <1>6
  <2> HIDE DEF e
  <2>3. Steady(e, d) /\ Prolongs(e, d)
    BY <1>2, <2>1, <2>2, CloseSteady
  <2>4. Says1st(n, d, "EVIDENCE_ACCEPTED", "satisfied")
    BY <2>1, <2>3, Extends1st DEF Weighs
  <2> QED
    BY <1>3, <2>1, <2>3, <2>4 DEF Steady, Gets, Says1st
<1>7. ASSUME NEW o \in Fresh, NEW own \in Ownership,
             d = Transition(Transition(A(FALSE, o, own, t), "BREACHED", "", t),
                            "REMEDY_DUE", "", t)
      PROVE  Gets(c, d, "observe") /\ ~Settles(d)
  <2> DEFINE e == A(FALSE, o, own, t)
             m == Transition(e, "BREACHED", "", t)
  <2>1. e \in Slice /\ e.state = "VERIFYING" /\ Steady(n, e)
    BY <1>5
  <2>2. d = Transition(m, "REMEDY_DUE", "", t)
    BY <1>7
  <2> HIDE DEF e
  <2>3. m \in Slice /\ m.state \in States /\ Steady(e, m)
    BY <1>2, <2>1, TransitionSteady
  <2> HIDE DEF m
  <2> DEFINE r == Transition(m, "REMEDY_DUE", "", t)
  <2>5. Steady(m, r) /\ r.state = "REMEDY_DUE"
    BY <1>2, <2>3, TransitionSteady
  <2> HIDE DEF r
  <2>4. Steady(m, d) /\ d.state = "REMEDY_DUE"
    BY <2>2, <2>5 DEF r
  <2> QED
    BY <1>3, <2>1, <2>3, <2>4 DEF Steady, Gets, Settles
<1>8. \/ RejectEvidence(a, n, "EVIDENCE_REJECTED", "INCONCLUSIVE", t)
      \/ \E o \in Fresh, own \in Ownership :
            d = Close(Transition(A(TRUE, o, own, t), "SATISFIED", "", t), t)
      \/ \E o \in Fresh, own \in Ownership :
            d = Transition(Transition(A(FALSE, o, own, t), "BREACHED", "", t),
                           "REMEDY_DUE", "", t)
  BY <1>1, Completes
<1> QED
  BY <1>0, <1>1, <1>4, <1>6, <1>7, <1>8

(* An answer about the remedy is remembered, and nothing else.             *)
LEMMA AnsweredSteady ==
    ASSUME NEW c \in Slice, NEW answer \in {"remediated", "failed"},
           NEW result \in Results
    PROVE  LET w == Answered(c, answer)
               r == [w EXCEPT !.remedy_result = result]
           IN /\ w \in Slice /\ w.state = c.state /\ w.awaiting = c.awaiting
              /\ r \in Slice /\ r.state = c.state /\ r.awaiting = c.awaiting
<1> DEFINE w == Answered(c, answer)
<1>1. w \in Slice /\ w.state = c.state /\ w.awaiting = c.awaiting
  BY AnsweredStep DEF Quiet
<1> HIDE DEF w
<1>2. /\ [w EXCEPT !.remedy_result = result] \in Slice
      /\ [w EXCEPT !.remedy_result = result].state = w.state
      /\ [w EXCEPT !.remedy_result = result].awaiting = w.awaiting
  BY <1>1, ResultStep DEF Quiet
<1> QED
  BY <1>1, <1>2 DEF w

(* A confirmed remedy is observed at once.                                 *)
LEMMA ConfirmedTurns ==
    ASSUME NEW c \in Slice, NEW op \in {"remediate", "reconcileRemedy"},
           NEW w \in Slice, w.state \in States, Gets(c, w, op), NEW t \in Nat,
           NEW result \in Results
    PROVE  LET b == Begin(Transition(w, "REMEDY_VERIFYING", "", t), "observeRemedy")
           IN /\ Turns(c, b, op)
              /\ Turns(c, [b EXCEPT !.remedy_result = result], op)
<1> DEFINE m == Transition(w, "REMEDY_VERIFYING", "", t)
           b == Begin(m, "observeRemedy")
<1>1. "REMEDY_VERIFYING" \in States /\ "observeRemedy" \in Operations
  BY DEF States, Operations
<1>2. m \in Slice /\ Steady(w, m)
  BY <1>1, TransitionSteady
<1> HIDE DEF m
<1>3. b \in Slice /\ b.awaiting = [m.awaiting EXCEPT !["observeRemedy"]
                                                      = m.awaiting["observeRemedy"] + 1]
  BY <1>1, <1>2, BeginStep
<1> HIDE DEF b
<1>4. [b EXCEPT !.remedy_result = result].awaiting = b.awaiting
  BY <1>3, ResultStep DEF Quiet
<1>5. Turns(c, b, op)
  BY <1>2, <1>3 DEF Steady, Gets, Turns
<1> QED
  BY <1>4, <1>5 DEF Turns, b, m

(* Resuming remediate().                                                   *)
LEMMA RemediateAnsweredGets ==
    ASSUME Inv, NEW a \in Action, RemediateAnswered(a)
    PROVE  /\ actions[a].state = "REMEDIATING" /\ actions[a].awaiting["remediate"] > 0
           /\ \/ Gets(actions[a], actions'[a], "remediate")
              \/ Turns(actions[a], actions'[a], "remediate")
<1> DEFINE c == actions[a]
           n == Finish(c, "remediate")
           d == actions'[a]
           remediated == [Answered(n, "remediated") EXCEPT !.remedy_result = "remediated"]
           failed == [Answered(n, "failed") EXCEPT !.remedy_result = "failed"]
<1>1. PICK t \in 0 .. MaxTime :
        /\ c.awaiting["remediate"] > 0
        /\ \/ Reaches(a, Begin(Transition(remediated, "REMEDY_VERIFYING", "", t),
                               "observeRemedy"),
                      {remediated})
           \/ Conclude(a, failed, "REMEDY_FAILED", t)
           \/ Conclude(a, n, "REMEDY_FAILED", t)
           \/ Reaches(a, [Transition(n, "REMEDY_UNKNOWN", "", t)
                          EXCEPT !.remedy_result = "unknown"], {n})
  BY DEF RemediateAnswered
<1>0. c \in Slice /\ c.state = "REMEDIATING"
  BY <1>1, AwaitedStates
<1>2. /\ t \in Nat /\ "remediate" \in Operations
      /\ {"REMEDIATING", "REMEDY_UNKNOWN"} \subseteq States
      /\ "REMEDY_FAILED" \in RECEIPT_STATES
      /\ {"remediated", "failed", "unknown"} \subseteq Results
  BY ClockAssumption DEF Operations, States, RECEIPT_STATES, DisputedStates, Results
<1>3. n \in Slice /\ Gets(c, n, "remediate") /\ n.state = "REMEDIATING"
  BY <1>0, <1>1, <1>2, FinishSteady
<1>4. /\ remediated \in Slice /\ Gets(c, remediated, "remediate")
      /\ remediated.state = "REMEDIATING"
      /\ failed \in Slice /\ Gets(c, failed, "remediate") /\ failed.state = "REMEDIATING"
  BY <1>2, <1>3, AnsweredSteady DEF Gets
<1>5. \/ d = Begin(Transition(remediated, "REMEDY_VERIFYING", "", t), "observeRemedy")
      \/ Conclude(a, failed, "REMEDY_FAILED", t)
      \/ Conclude(a, n, "REMEDY_FAILED", t)
      \/ d = [Transition(n, "REMEDY_UNKNOWN", "", t) EXCEPT !.remedy_result = "unknown"]
  BY <1>1, Completes
<1> HIDE DEF remediated, failed, n
<1>6. CASE d = Begin(Transition(remediated, "REMEDY_VERIFYING", "", t), "observeRemedy")
  <2>1. "remediate" \in {"remediate", "reconcileRemedy"} /\ "unknown" \in Results
        /\ remediated.state \in States
    BY <1>2, <1>4
  <2>2. Turns(c, Begin(Transition(remediated, "REMEDY_VERIFYING", "", t),
                       "observeRemedy"), "remediate")
    BY <1>0, <1>2, <1>4, <2>1, ConfirmedTurns
  <2> QED
    BY <1>0, <1>1, <1>6, <2>2 DEF Turns
<1>7. ASSUME NEW x \in Slice, x.state = "REMEDIATING", Gets(c, x, "remediate"),
             Conclude(a, x, "REMEDY_FAILED", t)
      PROVE  Gets(c, d, "remediate")
  BY <1>2, <1>7, ConcludeSteady DEF Gets, Steady
<1>8. CASE d = [Transition(n, "REMEDY_UNKNOWN", "", t) EXCEPT !.remedy_result = "unknown"]
  <2> DEFINE m == Transition(n, "REMEDY_UNKNOWN", "", t)
  <2>1. m \in Slice /\ Steady(n, m)
    BY <1>2, <1>3, TransitionSteady
  <2> HIDE DEF m
  <2>2. [m EXCEPT !.remedy_result = "unknown"].awaiting = m.awaiting
    BY <1>2, <2>1, ResultStep DEF Quiet
  <2> QED
    BY <1>0, <1>1, <1>3, <1>8, <2>1, <2>2 DEF Gets, Steady, m
<1> QED
  BY <1>0, <1>1, <1>3, <1>4, <1>5, <1>6, <1>7, <1>8

(* Resuming reconcileRemedy().                                             *)
LEMMA ReconcileRemedyAnsweredGets ==
    ASSUME Inv, NEW a \in Action, ReconcileRemedyAnswered(a)
    PROVE  /\ actions[a].state \notin Deciding
           /\ actions[a].awaiting["reconcileRemedy"] > 0
           /\ \/ Gets(actions[a], actions'[a], "reconcileRemedy")
              \/ Turns(actions[a], actions'[a], "reconcileRemedy")
<1> DEFINE c == actions[a]
           n == Finish(c, "reconcileRemedy")
           d == actions'[a]
           w == Answered(n, "remediated")
           failed == Answered(n, "failed")
<1>1. PICK t \in 0 .. MaxTime :
        /\ c.awaiting["reconcileRemedy"] > 0
        /\ \/ Reaches(a, [Begin(Transition(w, "REMEDY_VERIFYING", "", t), "observeRemedy")
                          EXCEPT !.remedy_result = "remediated"], {w})
           \/ ConcludeRemedy(a, failed, "REMEDY_FAILED", "failed", t)
           \/ ConcludeRemedy(a, n, "REVIEW_REQUIRED", "unknown", t)
           \/ actions' = [actions EXCEPT ![a] = n]
  BY DEF ReconcileRemedyAnswered
<1>0. /\ c \in Slice /\ actions \in [Action -> Slice]
      /\ c.state \in States /\ c.state \notin Deciding
  BY <1>1, AwaitedStates
<1>2. /\ t \in Nat /\ "reconcileRemedy" \in Operations
      /\ {"REMEDY_FAILED", "REVIEW_REQUIRED"} \subseteq RECEIPT_STATES
      /\ {"remediated", "failed", "unknown"} \subseteq Results
  BY ClockAssumption DEF Operations, RECEIPT_STATES, DisputedStates, Results
<1>3. n \in Slice /\ Gets(c, n, "reconcileRemedy") /\ n.state \in States
  BY <1>0, <1>1, <1>2, FinishSteady
<1>4. /\ w \in Slice /\ Gets(c, w, "reconcileRemedy") /\ w.state \in States
      /\ failed \in Slice /\ Gets(c, failed, "reconcileRemedy") /\ failed.state \in States
  BY <1>2, <1>3, AnsweredSteady DEF Gets
<1>5. \/ d = [Begin(Transition(w, "REMEDY_VERIFYING", "", t), "observeRemedy")
              EXCEPT !.remedy_result = "remediated"]
      \/ ConcludeRemedy(a, failed, "REMEDY_FAILED", "failed", t)
      \/ ConcludeRemedy(a, n, "REVIEW_REQUIRED", "unknown", t)
      \/ d = n
  BY <1>0, <1>1, Completes
<1> HIDE DEF w, failed, n
<1>6. CASE d = [Begin(Transition(w, "REMEDY_VERIFYING", "", t), "observeRemedy")
                EXCEPT !.remedy_result = "remediated"]
  <2>1. "reconcileRemedy" \in {"remediate", "reconcileRemedy"} /\ "remediated" \in Results
    BY <1>2
  <2>2. Turns(c, [Begin(Transition(w, "REMEDY_VERIFYING", "", t), "observeRemedy")
                  EXCEPT !.remedy_result = "remediated"], "reconcileRemedy")
    BY <1>0, <1>2, <1>4, <2>1, ConfirmedTurns
  <2> QED
    BY <1>0, <1>1, <1>6, <2>2 DEF Turns
<1>7. ASSUME NEW x \in Slice, x.state \in States, Gets(c, x, "reconcileRemedy"),
             NEW next \in {"REMEDY_FAILED", "REVIEW_REQUIRED"}, NEW result \in Results,
             ConcludeRemedy(a, x, next, result, t)
      PROVE  Gets(c, d, "reconcileRemedy")
  <2> DEFINE m == Transition(x, next, "", t)
             y == Close(m, t)
  <2>1. y \in Slice /\ Steady(x, y)
    BY <1>2, <1>7, CloseSteady
  <2>2. d = y \/ d = [y EXCEPT !.remedy_result = result]
    BY <1>7, Completes DEF ConcludeRemedy
  <2> HIDE DEF y
  <2>3. [y EXCEPT !.remedy_result = result].awaiting = y.awaiting
    BY <1>7, <2>1, ResultStep DEF Quiet
  <2> QED
    BY <1>7, <2>1, <2>2, <2>3 DEF Gets, Steady
<1>8. /\ "REMEDY_FAILED" \in {"REMEDY_FAILED", "REVIEW_REQUIRED"}
      /\ "REVIEW_REQUIRED" \in {"REMEDY_FAILED", "REVIEW_REQUIRED"}
      /\ "failed" \in Results /\ "unknown" \in Results
  BY <1>2
<1> QED
  BY <1>0, <1>1, <1>3, <1>4, <1>5, <1>6, <1>7, <1>8

(* Resuming the verification of the remedy.                                *)
LEMMA RemedyObservedGets ==
    ASSUME Inv, RecordInv, NEW a \in Action, RemedyObserved(a)
    PROVE  /\ actions[a].state \notin Deciding
           /\ actions[a].awaiting["observeRemedy"] > 0
           /\ Gets(actions[a], actions'[a], "observeRemedy")
<1> DEFINE c == actions[a]
           n == Finish(c, "observeRemedy")
           d == actions'[a]
           type == "REMEDY_EVIDENCE_ACCEPTED"
           noted == "REMEDY_EVIDENCE_REJECTED"
           A(satisfied, o, own, t) ==
              Accept(n, type, "post-remedy", satisfied, o, own, t)
<1>1. PICK t \in 0 .. MaxTime :
        /\ c.awaiting["observeRemedy"] > 0
        /\ \/ RejectEvidence(a, n, noted, "REMEDY_INCONCLUSIVE", t)
           \/ Reaches(a, Note(n, noted, "", t), {n})
           \/ \E o \in Fresh, satisfied \in BOOLEAN, own \in Ownership,
                 next \in {"REMEDIATED", "REMEDY_INCONCLUSIVE"} :
                 LET e == A(satisfied, o, own, t)
                     m == Transition(e, next, "", t)
                 IN \/ Reaches(a, Close(m, t), {n, e} \cup CloseStops(m, t))
                    \/ Reaches(a, e, {n})
  <2>1. PICK t \in 0 .. MaxTime :
        /\ c.awaiting["observeRemedy"] > 0
        /\ \/ RejectEvidence(a, n, noted, "REMEDY_INCONCLUSIVE", t)
           \/ Reaches(a, Note(n, noted, "", t), {n})
           \/ \E o \in Fresh, satisfied \in BOOLEAN, own \in Ownership :
                 LET e == A(satisfied, o, own, t)
                     next == IF satisfied THEN "REMEDIATED" ELSE "REMEDY_INCONCLUSIVE"
                     m == Transition(e, next, "", t)
                 IN IF CanMove(e, next)
                    THEN Reaches(a, Close(m, t), {n, e} \cup CloseStops(m, t))
                    ELSE Reaches(a, e, {n})
    BY DEF RemedyObserved
  <2> HIDE DEF n
  <2> QED
    BY <2>1
<1>0. c \in Slice /\ c.state \in States /\ c.state \notin Deciding
  <2>1. c.state \in AfterRemedyVerifying /\ c \in Slice
    BY <1>1 DEF RecordInv, Faithful, Awaited
  <2> QED
    BY <2>1 DEF AfterRemedyVerifying, States, Deciding
<1>2. /\ t \in Nat /\ "observeRemedy" \in Operations
      /\ "REMEDY_INCONCLUSIVE" \in DisputedStates
      /\ {"REMEDIATED", "REMEDY_INCONCLUSIVE"} \subseteq RECEIPT_STATES
      /\ {type, noted} \subseteq EventTypes /\ "" \in Infos
  BY ClockAssumption DEF Operations, DisputedStates, RECEIPT_STATES, EventTypes, Infos
<1>3. n \in Slice /\ Gets(c, n, "observeRemedy") /\ n.state \in States
  BY <1>0, <1>1, <1>2, FinishSteady
<1> HIDE DEF n
<1>4. Steady(n, d) => Gets(c, d, "observeRemedy")
  BY <1>3 DEF Steady, Gets
<1>5. CASE RejectEvidence(a, n, noted, "REMEDY_INCONCLUSIVE", t)
  <2>1. noted \in EventTypes
    BY <1>2
  <2>2. Steady(n, d)
    BY <1>2, <1>3, <1>5, <2>1, RejectSteady
  <2> QED
    BY <1>0, <1>1, <1>4, <2>2
<1>6. CASE Reaches(a, Note(n, noted, "", t), {n})
  <2> DEFINE x == Note(n, noted, "", t)
  <2>1. Same(n, x, {"events"})
    BY <1>3, NoteLogs
  <2>2. d = x
    BY <1>6, Completes
  <2> HIDE DEF x
  <2>3. Steady(n, x)
    BY <2>1 DEF Steady, Same, Fields, Unregistered
  <2> QED
    BY <1>0, <1>1, <1>4, <2>2, <2>3
<1>7. ASSUME NEW o \in Fresh, NEW satisfied \in BOOLEAN, NEW own \in Ownership,
             NEW next \in {"REMEDIATED", "REMEDY_INCONCLUSIVE"},
             \/ d = Close(Transition(A(satisfied, o, own, t), next, "", t), t)
             \/ d = A(satisfied, o, own, t)
      PROVE  Gets(c, d, "observeRemedy")
  <2> DEFINE e == A(satisfied, o, own, t)
             y == Close(Transition(e, next, "", t), t)
  <2>1. e \in Slice /\ e.state \in States /\ Steady(n, e)
    <3>1. o \in Nat /\ own \in BOOLEAN
      BY ObservationType DEF Inv, TypeOK
    <3>2. type \in EventTypes
      BY <1>2
    <3>3. "post-remedy" \in {"initial", "post-remedy"}
      OBVIOUS
    <3>4. n \in Slice /\ n.state \in States /\ t \in Nat
      BY <1>2, <1>3
    <3> HIDE DEF type
    <3>5. e \in Slice /\ e.state = n.state /\ Steady(n, e)
      BY <3>1, <3>2, <3>3, <3>4, AcceptSteady
    <3> HIDE DEF e
    <3> QED
      BY <3>4, <3>5
  <2>2. d = y \/ d = e
    BY <1>7
  <2> HIDE DEF e
  <2>3. Steady(e, y)
    BY <1>2, <1>7, <2>1, CloseSteady
  <2> HIDE DEF y
  <2>4. Steady(n, y)
    BY <2>1, <2>3 DEF Steady
  <2> QED
    BY <1>4, <2>1, <2>2, <2>4
<1>8. \/ RejectEvidence(a, n, noted, "REMEDY_INCONCLUSIVE", t)
      \/ Reaches(a, Note(n, noted, "", t), {n})
      \/ \E o \in Fresh, satisfied \in BOOLEAN, own \in Ownership,
            next \in {"REMEDIATED", "REMEDY_INCONCLUSIVE"} :
            \/ d = Close(Transition(A(satisfied, o, own, t), next, "", t), t)
            \/ d = A(satisfied, o, own, t)
  BY <1>1, Completes
<1> HIDE DEF A, type, noted
<1>9. CASE \E o \in Fresh, satisfied \in BOOLEAN, own \in Ownership,
            next \in {"REMEDIATED", "REMEDY_INCONCLUSIVE"} :
            \/ d = Close(Transition(A(satisfied, o, own, t), next, "", t), t)
            \/ d = A(satisfied, o, own, t)
  BY <1>0, <1>1, <1>7, <1>9
<1> QED
  BY <1>0, <1>1, <1>5, <1>6, <1>8, <1>9

-------------------------------------------------------------------------------
(* What decides is logged first.                                           *)

(* An answer alone leaves the log; evidence is logged as no transition.    *)
LEMMA HeardLog ==
    ASSUME NEW c \in Slice, NEW n, NEW op, NEW answer, NEW t,
           Heard(c, n, op, answer, t)
    PROVE  \/ n.events = c.events
           \/ /\ Len(c.events) + 1 \in DOMAIN n.events
              /\ n.events[Len(c.events) + 1].to = "none"
<1>1. PICK w \in Slice : /\ Resumed(c, w, op, answer) \/ Reserved(c, w, op, answer)
                         /\ n = w \/ Rejected(w, n, op, t) \/ Accepted(w, n, op, t)
  BY DEF Heard
<1>2. w.events = c.events /\ c.events \in Seq(Event)
  BY <1>1 DEF Resumed, Reserved, Same, Fields, Unregistered, Slice
<1>3. ASSUME NEW type, NEW info, Logs(w, n, type, info, t)
      PROVE  /\ Len(c.events) + 1 \in DOMAIN n.events
             /\ n.events[Len(c.events) + 1].to = "none"
  BY <1>2, <1>3 DEF Logs
<1>4. CASE Rejected(w, n, op, t)
  <2>1. PICK type \in {"EVIDENCE_REJECTED", "REMEDY_EVIDENCE_REJECTED"}, info \in Infos :
           Logs(w, n, type, info, t)
    BY <1>4 DEF Rejected, Infos
  <2> QED
    BY <1>3, <2>1
<1>5. CASE Accepted(w, n, op, t)
  <2>1. PICK satisfied \in BOOLEAN, type \in {"EVIDENCE_ACCEPTED", "REMEDY_EVIDENCE_ACCEPTED"} :
           Logs(w, n, type, Weighs(satisfied), t)
    BY <1>5 DEF Accepted
  <2> QED
    BY <1>3, <2>1
<1> QED
  BY <1>1, <1>2, <1>4, <1>5

(* A move is logged, and first unless evidence is.                         *)
LEMMA MoveLogged ==
    ASSUME NEW c \in Slice, NEW d, NEW t, Goes(c, d, t),
           c.state # "UNREGISTERED", d.state # c.state
    PROVE  LET i == Len(c.events) + 1
           IN /\ i \in DOMAIN d.events
              /\ d.events[i].to # "none" =>
                    /\ <<c.state, d.events[i].to>> \in ALLOWED_TRANSITIONS
                    /\ \/ d.state = d.events[i].to \/ d.events[i].to = "BREACHED"
                       \/ d.state = "CLOSED" /\ d.events[i].to \in RECEIPT_STATES
<1> DEFINE i == Len(c.events) + 1
<1>1. PICK op \in Answering, answer \in Definite, n \in Slice :
         Heard(c, n, op, answer, t) /\ Left(op, answer, n, d, t)
  <2>1. ~Proposed(c, d, t)
    BY DEF Proposed
  <2>2. ~Qualifies(c, d, t) /\ ~Asked(c, d) /\ ~LapsesTo(c, d) /\ d # c
    BY DEF Qualifies, Asked, LapsesTo, Same, Fields, Unregistered
  <2>3. \A op, answer, n : Heard(c, n, op, answer, t) => d # n
    <3> SUFFICES ASSUME NEW op, NEW answer, NEW n, Heard(c, n, op, answer, t)
                 PROVE  d # n
      OBVIOUS
    <3>1. n.state = c.state
      BY HeardAlone DEF Alone
    <3> QED
      BY <3>1
  <2> QED
    BY <2>1, <2>2, <2>3 DEF Goes, Walk
<1>2. n.state = c.state
  BY <1>1, HeardAlone DEF Alone
<1>3. PICK m \in Slice, x \in Slice :
         /\ Moved(n, m, t)
         /\ Ending(m, x, t) \/ (Moved(m, x, t) /\ x.state = "REMEDY_DUE")
         /\ Resulted(x, d)
  BY <1>1 DEF Left
<1>4. d.events = x.events /\ d.state = x.state
  BY <1>3 DEF Resulted, Same, Fields, Unregistered
<1>5. <<n.state, m.state>> \in ALLOWED_TRANSITIONS
  BY <1>3, MovedClaims
<1>6. PICK info : LogsMove(n, m, info, t)
  BY <1>3 DEF Moved
<1>7. /\ Prolongs(n, m) /\ n.events \in Seq(Event)
      /\ Len(n.events) + 1 \in DOMAIN m.events
      /\ m.events[Len(n.events) + 1].to = m.state
  <2>1. Grows(n, m) /\ n.events \in Seq(Event)
    BY <1>6, LogsMoveGrows DEF Slice
  <2> QED
    BY <1>6, <2>1, GrowsProlongs DEF LogsMove, Grows
<1>8. Prolongs(m, x)
  <2>1. CASE Moved(m, x, t)
    <3>1. PICK text : LogsMove(m, x, text, t)
      BY <2>1 DEF Moved
    <3> QED
      BY <3>1, LogsMoveGrows, GrowsProlongs
  <2> QED
    BY <1>3, <2>1, EndingSteady
<1>9. CASE n.events = c.events
  <2>1. i \in DOMAIN d.events /\ d.events[i].to = m.state
    BY <1>4, <1>7, <1>8, <1>9 DEF Prolongs
  <2>2. \/ x.state = m.state \/ m.state = "BREACHED"
        \/ x.state = "CLOSED" /\ m.state \in RECEIPT_STATES
    <3>1. CASE Moved(m, x, t) /\ x.state = "REMEDY_DUE"
      <4>1. <<m.state, x.state>> \in ALLOWED_TRANSITIONS
        BY <3>1, MovedClaims
      <4> QED
        BY <3>1, <4>1 DEF ALLOWED_TRANSITIONS
    <3> QED
      BY <1>3, <3>1, EndingClaims
  <2> QED
    BY <1>2, <1>4, <1>5, <2>1, <2>2
<1>10. CASE i \in DOMAIN n.events /\ n.events[i].to = "none"
  BY <1>4, <1>7, <1>8, <1>10 DEF Prolongs
<1> QED
  BY <1>1, <1>9, <1>10, HeardLog

-------------------------------------------------------------------------------
(* The connector's side: answers on their way.                             *)

\* Every answer in u was in s, or it says status.
Among(u, s, status) ==
    \A i \in DOMAIN u : (\E j \in DOMAIN s : u[i] = s[j]) \/ u[i].status = status

\* The list of a's answers of op becomes u.
Put(q, a, op, u) == [q EXCEPT ![a] = [q[a] EXCEPT ![op] = u]]

OnlyOld(u, s) == \A i \in DOMAIN u : \E j \in DOMAIN s : u[i] = s[j]

(* A list of answers is replaced, and no other.                            *)
LEMMA PutStep ==
    ASSUME NEW q \in Replies, NEW a \in Action, NEW op \in Operations,
           NEW u \in Seq(Replied)
    PROVE  /\ Put(q, a, op, u) \in Replies
           /\ \A b \in Action : b # a => Put(q, a, op, u)[b] = q[b]
           /\ \A p \in Operations :
                 Put(q, a, op, u)[a][p] = IF p = op THEN u ELSE q[a][p]
  BY DEF Put, Replies

\* The list of a's answers of op, with one more.
Added(q, a, op, status, at) ==
    [q EXCEPT ![a][op] = Append(@, [status |-> status, at |-> at])]

(* An answer is sent behind the others.                                    *)
LEMMA SentStep ==
    ASSUME NEW q \in Replies, NEW a \in Action, NEW op \in Operations,
           NEW status \in Statuses, NEW at \in Nat
    PROVE  LET r == Added(q, a, op, status, at)
           IN /\ r \in Replies
              /\ \A b \in Action : b # a => r[b] = q[b]
              /\ \A p \in Operations :
                    /\ Len(r[a][p]) = IF p = op THEN Len(q[a][p]) + 1 ELSE Len(q[a][p])
                    /\ p # op => r[a][p] = q[a][p]
              /\ Among(r[a][op], q[a][op], status)
<1> DEFINE reply == [status |-> status, at |-> at]
           s == q[a][op]
           u == Append(s, reply)
           r == Added(q, a, op, status, at)
<1>1. reply \in Replied /\ reply.status = status
  BY DEF Replied
<1>2. r = Put(q, a, op, u)
  BY DEF Put, Added
<1> HIDE DEF reply
<1> HIDE DEF r
<1>3. s \in Seq(Replied)
  BY DEF Replies
<1> HIDE DEF s
<1>4. u \in Seq(Replied) /\ Len(u) = Len(s) + 1
  BY <1>1, <1>3
<1>5. Among(u, s, status)
  <2>1. DOMAIN u = 1 .. (Len(s) + 1) /\ DOMAIN s = 1 .. Len(s)
    BY <1>1, <1>3
  <2>2. \A i \in 1 .. Len(s) : u[i] = s[i]
    BY <1>1, <1>3
  <2>3. u[Len(s) + 1] = reply
    BY <1>1, <1>3
  <2>4. \A i \in 1 .. (Len(s) + 1) : i \in 1 .. Len(s) \/ i = Len(s) + 1
    BY <1>3
  <2> HIDE DEF u
  <2> QED
    BY <1>1, <2>1, <2>2, <2>3, <2>4 DEF Among
<1> HIDE DEF u
<1>6. /\ r \in Replies
      /\ \A b \in Action : b # a => r[b] = q[b]
      /\ \A p \in Operations : r[a][p] = IF p = op THEN u ELSE q[a][p]
  BY <1>2, <1>4, PutStep
<1> QED
  BY <1>4, <1>5, <1>6 DEF s, r, reply

(* The oldest answer is taken.                                             *)
LEMMA TakenStep ==
    ASSUME NEW q \in Replies, NEW a \in Action, NEW op \in Operations,
           Len(q[a][op]) > 0
    PROVE  LET r == Taken(q, a, op)
           IN /\ r \in Replies
              /\ \A b \in Action : b # a => r[b] = q[b]
              /\ \A p \in Operations :
                    /\ Len(r[a][p]) = IF p = op THEN Len(q[a][p]) - 1 ELSE Len(q[a][p])
                    /\ OnlyOld(r[a][p], q[a][p])
<1> DEFINE s == q[a][op]
           u == Tail(s)
           r == Taken(q, a, op)
<1>1. s \in Seq(Replied) /\ s # <<>>
  BY DEF Replies
<1>2. r = Put(q, a, op, u)
  BY DEF Taken, Put
<1> HIDE DEF r, s
<1>3. u \in Seq(Replied) /\ Len(u) = Len(s) - 1
  BY <1>1
<1>4. OnlyOld(u, s)
  <2>1. DOMAIN u = 1 .. (Len(s) - 1) /\ DOMAIN s = 1 .. Len(s) /\ Len(s) \in Nat
    BY <1>1
  <2>2. \A i \in 1 .. (Len(s) - 1) : u[i] = s[i + 1]
    BY <1>1
  <2>3. \A i \in DOMAIN u : i + 1 \in DOMAIN s
    BY <2>1
  <2> HIDE DEF u
  <2> QED
    BY <2>1, <2>2, <2>3 DEF OnlyOld
<1> HIDE DEF u
<1>5. /\ r \in Replies
      /\ \A b \in Action : b # a => r[b] = q[b]
      /\ \A p \in Operations : r[a][p] = IF p = op THEN u ELSE q[a][p]
  BY <1>2, <1>3, PutStep
<1> QED
  BY <1>3, <1>4, <1>5 DEF OnlyOld, s, r

\* A step of a, and what becomes of the answers it waits for: none is asked,
\* one is asked for op and says status, one is taken, or both.
Exchanges(a, op, status) ==
    LET c == actions[a]
        d == actions'[a]
    IN \/ d.awaiting = c.awaiting /\ replies' = replies
       \/ Asks(c, d, op) /\ replies' = Sent(replies, a, op, status)
       \/ \E p \in Operations :
             c.awaiting[p] > 0 /\ Gets(c, d, p) /\ replies' = Taken(replies, a, p)
       \/ \E p \in {"remediate", "reconcileRemedy"} :
             /\ op = "observeRemedy" /\ c.awaiting[p] > 0 /\ Turns(c, d, p)
             /\ replies' = Sent(Taken(replies, a, p), a, op, status)

(* Then what is awaited is on its way, and only what op says is new.       *)
LEMMA ExchangeStep ==
    ASSUME Inv, Inv', replies \in Replies, NEW a \in Action, Linked(a),
           NEW op \in Operations, NEW status \in Statuses, Exchanges(a, op, status)
    PROVE  /\ replies' \in Replies
           /\ \A b \in Action : b # a => replies'[b] = replies[b]
           /\ Linked(a)'
           /\ \A p \in Operations :
                 IF p = op THEN Among(replies'[a][p], replies[a][p], status)
                 ELSE OnlyOld(replies'[a][p], replies[a][p])
<1> DEFINE c == actions[a]
           d == actions'[a]
           q == replies
           r == replies'
<1>1. /\ c.awaiting \in [Operations -> Nat] /\ d.awaiting \in [Operations -> Nat]
      /\ now' \in Nat
  <2>1. c \in Slice /\ d \in Slice
    BY DEF Inv, TypeOK, Good
  <2>2. now' \in Nat
    BY ClockAssumption DEF Inv, TypeOK
  <2> QED
    BY <2>1, <2>2 DEF Slice
<1>2. \A p \in Operations : Len(q[a][p]) = c.awaiting[p]
  BY DEF Linked
<1>3. Linked(a)' <=> \A p \in Operations : Len(r[a][p]) = d.awaiting[p]
  BY DEF Linked
<1>4. \A p \in Operations :
         /\ OnlyOld(q[a][p], q[a][p])
         /\ OnlyOld(r[a][p], q[a][p]) => Among(r[a][p], q[a][p], status)
  BY DEF OnlyOld, Among
<1>5. CASE d.awaiting = c.awaiting /\ r = q
  BY <1>2, <1>3, <1>4, <1>5
<1>6. CASE Asks(c, d, op) /\ r = Sent(q, a, op, status)
  <2>1. r = Added(q, a, op, status, now')
    BY <1>6 DEF Sent, Reply, Added
  <2>2. /\ r \in Replies
        /\ \A b \in Action : b # a => r[b] = q[b]
        /\ \A p \in Operations :
              /\ Len(r[a][p]) = IF p = op THEN Len(q[a][p]) + 1 ELSE Len(q[a][p])
              /\ p # op => r[a][p] = q[a][p]
        /\ Among(r[a][op], q[a][op], status)
    BY <1>1, <2>1, SentStep
  <2>3. \A p \in Operations : d.awaiting[p] = IF p = op THEN c.awaiting[p] + 1 ELSE c.awaiting[p]
    BY <1>1, <1>6 DEF Asks
  <2> QED
    BY <1>2, <1>3, <1>4, <2>2, <2>3
<1>7. ASSUME NEW p \in Operations, c.awaiting[p] > 0, Gets(c, d, p), r = Taken(q, a, p)
      PROVE  /\ r \in Replies
             /\ \A b \in Action : b # a => r[b] = q[b]
             /\ \A o \in Operations :
                   Len(r[a][o]) = d.awaiting[o] /\ OnlyOld(r[a][o], q[a][o])
  <2>1. Len(q[a][p]) > 0
    BY <1>2, <1>7
  <2>2. /\ r \in Replies
        /\ \A b \in Action : b # a => r[b] = q[b]
        /\ \A o \in Operations :
              /\ Len(r[a][o]) = IF o = p THEN Len(q[a][o]) - 1 ELSE Len(q[a][o])
              /\ OnlyOld(r[a][o], q[a][o])
    BY <1>7, <2>1, TakenStep
  <2>3. \A o \in Operations : d.awaiting[o] = IF o = p THEN c.awaiting[o] - 1 ELSE c.awaiting[o]
    BY <1>1, <1>7 DEF Gets
  <2> QED
    BY <1>2, <2>2, <2>3
<1>8. ASSUME NEW p \in {"remediate", "reconcileRemedy"}, op = "observeRemedy",
             c.awaiting[p] > 0, Turns(c, d, p), r = Sent(Taken(q, a, p), a, op, status)
      PROVE  /\ r \in Replies
             /\ \A b \in Action : b # a => r[b] = q[b]
             /\ \A o \in Operations :
                   /\ Len(r[a][o]) = d.awaiting[o]
                   /\ IF o = op THEN Among(r[a][o], q[a][o], status)
                      ELSE OnlyOld(r[a][o], q[a][o])
  <2> DEFINE s == Taken(q, a, p)
  <2>1. p \in Operations /\ p # op /\ Len(q[a][p]) > 0
    BY <1>2, <1>8 DEF Operations
  <2>2. /\ s \in Replies
        /\ \A b \in Action : b # a => s[b] = q[b]
        /\ \A o \in Operations :
              /\ Len(s[a][o]) = IF o = p THEN Len(q[a][o]) - 1 ELSE Len(q[a][o])
              /\ OnlyOld(s[a][o], q[a][o])
    BY <2>1, TakenStep
  <2>3. r = Added(s, a, op, status, now')
    BY <1>8 DEF Sent, Reply, Added
  <2> HIDE DEF s
  <2>4. /\ r \in Replies
        /\ \A b \in Action : b # a => r[b] = s[b]
        /\ \A o \in Operations :
              /\ Len(r[a][o]) = IF o = op THEN Len(s[a][o]) + 1 ELSE Len(s[a][o])
              /\ o # op => r[a][o] = s[a][o]
        /\ Among(r[a][op], s[a][op], status)
    <3>1. s \in Replies /\ now' \in Nat
      BY <1>1, <2>2
    <3> QED
      BY <2>3, <3>1, SentStep
  <2>5. \A o \in Operations :
           d.awaiting[o] = IF o = p THEN c.awaiting[o] - 1
                           ELSE IF o = op THEN c.awaiting[o] + 1 ELSE c.awaiting[o]
    BY <1>1, <1>8, <2>1 DEF Turns
  <2>6. Among(r[a][op], q[a][op], status)
    BY <2>2, <2>4 DEF Among, OnlyOld
  <2> QED
    BY <1>2, <2>1, <2>2, <2>4, <2>5, <2>6
<1>9. CASE \E p \in Operations : c.awaiting[p] > 0 /\ Gets(c, d, p) /\ r = Taken(q, a, p)
  BY <1>3, <1>4, <1>7, <1>9
<1>10. CASE \E p \in {"remediate", "reconcileRemedy"} :
              /\ op = "observeRemedy" /\ c.awaiting[p] > 0 /\ Turns(c, d, p)
              /\ r = Sent(Taken(q, a, p), a, op, status)
  BY <1>3, <1>8, <1>10
<1> QED
  BY <1>5, <1>6, <1>9, <1>10 DEF Exchanges

-------------------------------------------------------------------------------
(* Steps that leave an action's effects alone. *)

\* Nothing that is b's changes at the connector.
Undisturbed(b) ==
    /\ proposal' = proposal
    /\ Made(b)' = Made(b) /\ StillLive(b)' = StillLive(b)
    /\ \A k \in DOMAIN executions :
          k \in DOMAIN executions' /\ executions'[k] = executions[k]
    /\ \A k \in DOMAIN executions' :
          k \notin DOMAIN executions => executions'[k].by # b

\* The connector's effects and what it remembers of them stay as they are.
EffectsStand == UNCHANGED <<product, proposal, effects, stock, executions>>

(* If no effect changes, none of any action does.                          *)
LEMMA StandUndisturbed ==
    ASSUME EffectsStand, NEW b
    PROVE  Undisturbed(b)
<1>1. Made(b)' = Made(b) /\ StillLive(b)' = StillLive(b)
  BY DEF Made, StillLive, EffectsStand
<1> QED
  BY <1>1 DEF Undisturbed, EffectsStand

(* What is remembered for b stays remembered.                              *)
LEMMA UndisturbedBound ==
    ASSUME NEW b, Undisturbed(b)
    PROVE  /\ Bound(b) => Bound(b)'
           /\ \A status : Says(b, status) => Says(b, status)'
  BY DEF Undisturbed, Bound, Says

(* An answer on its way stays true.                                        *)
LEMMA UndisturbedTells ==
    ASSUME NEW b, Undisturbed(b), NEW op, NEW status, Tells(b, op, status)
    PROVE  Tells(b, op, status)'
<1>1. StillLive(b)' = StillLive(b)
  BY DEF Undisturbed
<1>2. /\ Bound(b) => Bound(b)'
      /\ Says(b, status) => Says(b, status)'
  BY UndisturbedBound
<1> QED
  BY <1>1, <1>2 DEF Tells

(* What the rail concluded stays right while it claims nothing more.       *)
LEMMA QuieterConcludes ==
    ASSUME NEW a, Concluded(a), Undisturbed(a), Quieter(actions[a], actions'[a])
    PROVE  Concluded(a)'
<1> DEFINE c == actions[a]
           d == actions'[a]
<1>1. /\ d.state \in Unasked => c.state \in Unasked
      /\ d.state \in Unasked \cup {"EXECUTING"} =>
            c.state \in Unasked \cup {"EXECUTING"} /\ d.execution \in {c.execution, "unknown"}
      /\ Acted(d) => Acted(c)
      /\ Counts(d) => Counts(c)
      /\ Absent(d) => Absent(c)
      /\ d.remedy_calls = 0 => c.remedy_calls = 0
      /\ Settles(d) => Settles(c)
  BY DEF Quieter
<1>2. /\ c.state \in Unasked =>
             /\ Made(a) = {}
             /\ \A k \in DOMAIN executions : executions[k].by # a
      /\ c.state \in Unasked \cup {"EXECUTING"} => c.execution # "no_effect"
      /\ Acted(c) => Bound(a)
      /\ Counts(c) => Says(a, "executed")
      /\ Absent(c) => Made(a) = {}
      /\ c.remedy_calls = 0 => StillLive(a) = Made(a)
      /\ Settles(c) => Cardinality(StillLive(a)) = 1
  BY DEF Concluded
<1> HIDE DEF c, d
<1>3. /\ d.state \in Unasked =>
             /\ Made(a)' = {}
             /\ \A k \in DOMAIN executions' : executions'[k].by # a
      /\ Absent(d) => Made(a)' = {}
      /\ d.remedy_calls = 0 => StillLive(a)' = Made(a)'
      /\ Settles(d) => Cardinality(StillLive(a)') = 1
  BY <1>1, <1>2 DEF Undisturbed
<1>4. /\ Acted(d) => Bound(a)'
      /\ Counts(d) => Says(a, "executed")'
  BY <1>1, <1>2, UndisturbedBound
<1>5. d.state \in Unasked \cup {"EXECUTING"} => d.execution # "no_effect"
  BY <1>1, <1>2
<1> QED
  BY <1>3, <1>4, <1>5 DEF Concluded, d

(* And while an answer bears out what it claims.                           *)
LEMMA DecidesConcludes ==
    ASSUME NEW a, Concluded(a), Undisturbed(a), Decides(actions[a], actions'[a]),
           Acted(actions'[a]) => Bound(a),
           actions'[a].state = "EXECUTED" => Says(a, "executed"),
           Absent(actions'[a]) => Made(a) = {},
           Settles(actions'[a]) => Cardinality(StillLive(a)) = 1
    PROVE  Concluded(a)'
<1> DEFINE c == actions[a]
           d == actions'[a]
<1>1. /\ d.state \notin Unasked \cup {"EXECUTING"}
      /\ Counts(d) => Counts(c) \/ d.state = "EXECUTED"
      /\ d.remedy_calls = 0 => c.remedy_calls = 0
  BY DEF Decides
<1>2. /\ Counts(c) => Says(a, "executed")
      /\ c.remedy_calls = 0 => StillLive(a) = Made(a)
  BY DEF Concluded
<1>3. /\ Acted(d) => Bound(a)
      /\ d.state = "EXECUTED" => Says(a, "executed")
      /\ Absent(d) => Made(a) = {}
      /\ Settles(d) => Cardinality(StillLive(a)) = 1
  OBVIOUS
<1> HIDE DEF c, d
<1>4. /\ Absent(d) => Made(a)' = {}
      /\ d.remedy_calls = 0 => StillLive(a)' = Made(a)'
      /\ Settles(d) => Cardinality(StillLive(a)') = 1
  BY <1>1, <1>2, <1>3 DEF Undisturbed
<1>5. /\ Acted(d) => Bound(a)'
      /\ Counts(d) => Says(a, "executed")'
  BY <1>1, <1>2, <1>3, UndisturbedBound
<1> QED
  BY <1>1, <1>4, <1>5 DEF Concluded, d

(* An action that takes no step and is not disturbed keeps its part.       *)
LEMMA OthersStand ==
    ASSUME NEW b, Undisturbed(b), actions'[b] = actions[b], replies'[b] = replies[b],
           Linked(b), Truthful(b), Concluded(b)
    PROVE  Linked(b)' /\ Truthful(b)' /\ Concluded(b)'
<1>1. Linked(b)'
  BY DEF Linked
<1>2. Truthful(b)'
  <2>1. \A op : Underway(b, op)' = Underway(b, op)
    BY DEF Underway
  <2>2. ASSUME NEW op \in Operations, NEW status \in Underway(b, op)
        PROVE  Tells(b, op, status)'
    BY <2>2, UndisturbedTells DEF Truthful
  <2> QED
    BY <2>1, <2>2 DEF Truthful
<1>3. Quieter(actions[b], actions'[b])
  BY AloneQuieter DEF Alone
<1> QED
  BY <1>1, <1>2, <1>3, QuieterConcludes

\* Action a alone takes a step.
Steps(a) == actions' = [actions EXCEPT ![a] = actions'[a]]

(* A step of a that keeps its own promises and disturbs no other action    *)
(* keeps those of all.                                                     *)
LEMMA RepliesKeep ==
    ASSUME Inv, Inv', ConnectorInv, NEW a \in Action, Steps(a),
           \A b \in Action : b # a => Undisturbed(b),
           NEW op \in Operations, NEW status \in Statuses, Exchanges(a, op, status),
           Tells(a, op, status)',
           \A o \in Operations : \A s \in Underway(a, o) : Tells(a, o, s)',
           Concluded(a)'
    PROVE  /\ replies' \in Replies
           /\ \A b \in Action : Linked(b)' /\ Truthful(b)' /\ Concluded(b)'
<1>1. /\ replies \in Replies /\ actions \in [Action -> Slice]
      /\ \A b \in Action : Linked(b) /\ Truthful(b) /\ Concluded(b)
  BY DEF ConnectorInv, ConnectorType, Inv, TypeOK
<1>2. /\ replies' \in Replies
      /\ \A b \in Action : b # a => replies'[b] = replies[b]
      /\ Linked(a)'
      /\ \A p \in Operations :
            IF p = op THEN Among(replies'[a][p], replies[a][p], status)
            ELSE OnlyOld(replies'[a][p], replies[a][p])
  BY <1>1, ExchangeStep
<1>3. Truthful(a)'
  <2>1. ASSUME NEW p \in Operations, NEW s \in Underway(a, p)'
        PROVE  s \in Underway(a, p) \/ (p = op /\ s = status)
    <3>1. PICK i \in DOMAIN replies'[a][p] : s = replies'[a][p][i].status
      BY <2>1 DEF Underway
    <3>2. CASE \E j \in DOMAIN replies[a][p] : replies'[a][p][i] = replies[a][p][j]
      BY <3>1, <3>2 DEF Underway
    <3>3. CASE p = op /\ replies'[a][p][i].status = status
      BY <3>1, <3>3
    <3> QED
      BY <1>2, <3>1, <3>2, <3>3 DEF Among, OnlyOld
  <2>2. ASSUME NEW p \in Operations, NEW s \in Underway(a, p)'
        PROVE  Tells(a, p, s)'
    BY <2>1, <2>2
  <2> QED
    BY <2>2 DEF Truthful
<1>4. ASSUME NEW b \in Action, b # a
      PROVE  Linked(b)' /\ Truthful(b)' /\ Concluded(b)'
  <2>1. actions'[b] = actions[b]
    BY <1>1, <1>4 DEF Steps
  <2> QED
    BY <1>1, <1>2, <1>4, <2>1, OthersStand
<1> QED
  BY <1>2, <1>3, <1>4

(* While the effects stand an answer and what the rail concludes from it   *)
(* are all there is to show.                                               *)
LEMMA StandKeeps ==
    ASSUME Inv, Inv', ConnectorInv, NEW a \in Action, Steps(a),
           EffectsStand, Memory(remedies, Statuses)',
           NEW op \in Operations, NEW status \in Statuses, Exchanges(a, op, status),
           Tells(a, op, status), Concluded(a)'
    PROVE  ConnectorInv'
<1>1. \A b : Undisturbed(b)
  BY StandUndisturbed
<1>2. Tells(a, op, status)'
  BY <1>1, UndisturbedTells
<1>3. \A o \in Operations : \A s \in Underway(a, o) : Tells(a, o, s)'
  BY <1>1, UndisturbedTells DEF ConnectorInv, Truthful
<1>4. /\ replies' \in Replies
      /\ \A b \in Action : Linked(b)' /\ Truthful(b)' /\ Concluded(b)'
  BY <1>1, <1>2, <1>3, RepliesKeep
<1>5. ConnectorType'
  BY <1>4 DEF ConnectorInv, ConnectorType, EffectsStand, Memory
<1>6. StockConserved'
  BY DEF ConnectorInv, StockConserved, EffectsStand
<1>7. Remembered'
  BY DEF ConnectorInv, Remembered, Made, EffectsStand
<1>8. Labelled'
  BY DEF ConnectorInv, Labelled, Bound, EffectsStand
<1> QED
  BY <1>4, <1>5, <1>6, <1>7, <1>8 DEF ConnectorInv

-------------------------------------------------------------------------------
(* What the rail's step claims. *)

(* A handler of a steps with a and claims more only by deciding.           *)
LEMMA HandlerClaims ==
    ASSUME Inv, NEW a \in Action, Handler(a)
    PROVE  /\ Steps(a) /\ actions[a] \in Slice
           /\ \/ Quieter(actions[a], actions'[a])
              \/ /\ Decides(actions[a], actions'[a])
                 /\ \E t : Goes(actions[a], actions'[a], t)
<1>1. PICK t \in Nat :
         /\ actions' = [actions EXCEPT ![a] = actions'[a]]
         /\ Walk(actions[a], actions'[a], t)
  BY HandlerSegment DEF Segment
<1>2. Goes(actions[a], actions'[a], t) /\ actions[a] \in Slice
  BY <1>1 DEF Goes, Inv, TypeOK
<1>3. Quieter(actions[a], actions'[a]) \/ Decides(actions[a], actions'[a])
  BY <1>2, GoesQuieter
<1> QED
  BY <1>1, <1>2, <1>3 DEF Steps

(* A step of the rail that decides nothing, and whose answer is true.      *)
LEMMA UndecidedKeeps ==
    ASSUME Inv, ConnectorInv, NEW a \in Action, Handler(a),
           actions[a].state \notin Deciding \/ actions'[a].state = actions[a].state,
           EffectsStand, Memory(remedies, Statuses)',
           NEW op \in Operations, NEW status \in Statuses, Exchanges(a, op, status),
           Tells(a, op, status)
    PROVE  ConnectorInv'
<1>1. Steps(a) /\ Quieter(actions[a], actions'[a])
  BY HandlerClaims DEF Decides
<1>2. Inv'
  BY NextInv DEF Next
<1>3. Undisturbed(a) /\ Concluded(a)
  BY StandUndisturbed DEF ConnectorInv
<1>4. Concluded(a)'
  BY <1>1, <1>3, QuieterConcludes
<1> QED
  BY <1>1, <1>2, <1>4, StandKeeps

(* A step of the rail that decides, and decides what the answer bears out. *)
LEMMA DecidedKeeps ==
    ASSUME Inv, ConnectorInv, NEW a \in Action, Handler(a),
           EffectsStand, UNCHANGED remedies,
           NEW op \in Operations, Gets(actions[a], actions'[a], op),
           actions[a].awaiting[op] > 0, replies' = Taken(replies, a, op),
           Decides(actions[a], actions'[a]) =>
              /\ Acted(actions'[a]) => Bound(a)
              /\ actions'[a].state = "EXECUTED" => Says(a, "executed")
              /\ Absent(actions'[a]) => Made(a) = {}
              /\ Settles(actions'[a]) => Cardinality(StillLive(a)) = 1
    PROVE  ConnectorInv'
<1>1. Steps(a) /\ (Quieter(actions[a], actions'[a]) \/ Decides(actions[a], actions'[a]))
  BY HandlerClaims
<1>2. Inv'
  BY NextInv DEF Next
<1>3. Undisturbed(a) /\ Concluded(a)
  BY StandUndisturbed DEF ConnectorInv
<1>4. Concluded(a)'
  <2>1. CASE Quieter(actions[a], actions'[a])
    BY <1>3, <2>1, QuieterConcludes
  <2>2. CASE Decides(actions[a], actions'[a])
    BY <1>3, <2>2, DecidesConcludes
  <2> QED
    BY <1>1, <2>1, <2>2
<1>5. "observeRemedy" \in Operations /\ Tells(a, "observeRemedy", "stale")
  BY DEF Operations, Tells
<1> "stale" \in Statuses
  BY DEF Statuses
<1>6. Exchanges(a, "observeRemedy", "stale")
  BY DEF Exchanges
<1>7. Memory(remedies, Statuses)'
  BY DEF ConnectorInv, ConnectorType, Memory
<1> QED
  BY <1>1, <1>2, <1>4, <1>5, <1>6, <1>7, StandKeeps

-------------------------------------------------------------------------------
(* The steps of the rail that leave the effects as they are. *)

(* A caller's step up to the permit, or one that asks nothing.             *)
LEMMA QuietlyKeeps ==
    ASSUME Inv, ConnectorInv, NEW a \in Action, Handler(a),
           actions[a].state \notin Deciding,
           actions'[a].awaiting = actions[a].awaiting, UNCHANGED cvars
    PROVE  ConnectorInv'
<1>1. "observeRemedy" \in Operations /\ Tells(a, "observeRemedy", "stale")
  BY DEF Operations, Tells
<1>2. "stale" \in Statuses
  BY DEF Statuses
<1>3. Exchanges(a, "observeRemedy", "stale")
  BY DEF Exchanges, cvars
<1>4. EffectsStand /\ Memory(remedies, Statuses)'
  BY DEF ConnectorInv, ConnectorType, Memory, EffectsStand, cvars
<1> QED
  BY <1>1, <1>2, <1>3, <1>4, UndecidedKeeps

(* reconcile() reads what execute() left.                                  *)
LEMMA CallStatusKeeps ==
    ASSUME Inv, ConnectorInv, NEW a \in Action, CallStatus(a)
    PROVE  ConnectorInv'
<1> DEFINE status == Recall(executions, proposal[a].key)
<1>1. actions[a].state = "UNKNOWN" /\ Asks(actions[a], actions'[a], "reconcile")
  BY ReadAwaits DEF CallStatus
<1>2. Bound(a)
  BY <1>1 DEF ConnectorInv, Concluded, Acted, Unasked
<1>3. Says(a, status)
  BY <1>2 DEF Says, Recall, Bound
<1>4. status \in Statuses
  BY <1>2 DEF Recall, Bound, ConnectorInv, ConnectorType, Memory, Statuses
<1>5. Exchanges(a, "reconcile", status)
  BY <1>1 DEF CallStatus, Exchanges
<1>6. Tells(a, "reconcile", status)
  BY <1>3 DEF Tells
<1>7. EffectsStand /\ Memory(remedies, Statuses)'
  BY DEF CallStatus, ConnectorInv, ConnectorType, Memory, EffectsStand
<1>8. Handler(a) /\ "reconcile" \in Operations
  BY DEF CallStatus, Handler, Operations
<1>9. actions'[a].state = actions[a].state
  <2>1. actions[a] \in Slice /\ actions' = [actions EXCEPT ![a] = Begin(actions[a], "reconcile")]
        /\ actions \in [Action -> Slice]
    BY DEF CallStatus, Reconcile, Inv, TypeOK
  <2> QED
    BY <1>8, <2>1, BeginStep
<1> QED
  BY <1>4, <1>5, <1>6, <1>7, <1>8, <1>9, UndecidedKeeps

(* There are finitely many effects.                                        *)
LEMMA FiniteEffects ==
    ASSUME effects \in Seq(Effect), NEW S \in SUBSET DOMAIN effects
    PROVE  IsFiniteSet(S)
<1>1. DOMAIN effects = 1 .. Len(effects) /\ Len(effects) \in Int /\ 1 \in Int
  OBVIOUS
<1>2. IsFiniteSet(1 .. Len(effects))
  BY <1>1, FS_Interval
<1> QED
  BY <1>1, <1>2, FS_Subset

(* observe() counts one live effect of the order: it is the action's.      *)
LEMMA CallObserveKeeps ==
    ASSUME Inv, ConnectorInv, NEW a \in Action, CallObserve(a)
    PROVE  ConnectorInv'
<1> DEFINE c == actions[a]
<1>1. c.state = "EXECUTED" /\ Asks(c, actions'[a], "observe")
  BY ReadAwaits DEF CallObserve
<1>2. PICK status \in Reports(a, "observe") :
         replies' = Sent(replies, a, "observe", status)
  BY DEF CallObserve
<1>3. status \in Statuses
  BY <1>2 DEF Reports, Statuses
<1>4. ASSUME status = "satisfied" PROVE Cardinality(StillLive(a)) = 1
  <2> DEFINE order == proposal[a].order
  <2>1. Cardinality(Live(order)) = 1
    <3>1. Cardinality(Live(order)) + 0 = 1
      BY <1>2, <1>4 DEF Reports
    <3>2. IsFiniteSet(Live(order))
      BY FiniteEffects DEF Live, ConnectorInv, ConnectorType
    <3> QED
      BY <3>1, <3>2, FS_CardinalityType
  <2>2. StillLive(a) \subseteq Live(order)
    BY DEF StillLive, Made, Live, ConnectorInv, Labelled
  <2>3. StillLive(a) # {}
    <3>1. Says(a, "executed") /\ (c.remedy_calls = 0 => StillLive(a) = Made(a))
      BY <1>1 DEF ConnectorInv, Concluded, Counts
    <3>2. Made(a) # {}
      BY <3>1 DEF Says, Bound, ConnectorInv, Remembered
    <3>3. c.remedy_calls = 0
      BY <1>1 DEF Inv, Good, Counted, BeforeRemedy
    <3> QED
      BY <3>1, <3>2, <3>3
  <2>4. PICK i : Live(order) = {i}
    <3>1. IsFiniteSet(Live(order))
      BY FiniteEffects DEF Live, ConnectorInv, ConnectorType
    <3> QED
      BY <2>1, <3>1, FS_Singleton
  <2>5. StillLive(a) = Live(order)
    BY <2>2, <2>3, <2>4
  <2> QED
    BY <2>1, <2>5
<1>5. Tells(a, "observe", status)
  BY <1>4 DEF Tells
<1>6. Exchanges(a, "observe", status)
  BY <1>1, <1>2 DEF Exchanges
<1>7. EffectsStand /\ Memory(remedies, Statuses)'
  BY DEF CallObserve, ConnectorInv, ConnectorType, Memory, EffectsStand
<1>8. Handler(a) /\ "observe" \in Operations /\ c.state \notin Deciding
  BY <1>1 DEF CallObserve, Handler, Operations, Deciding
<1> QED
  BY <1>3, <1>5, <1>6, <1>7, <1>8, UndecidedKeeps

(* reconcileRemedy() reads what remediate() left.                          *)
LEMMA CallRemedyStatusKeeps ==
    ASSUME Inv, ConnectorInv, NEW a \in Action, CallRemedyStatus(a)
    PROVE  ConnectorInv'
<1> DEFINE status == Recall(remedies, proposal[a].remedyKey)
<1>1. /\ actions[a].state = "REMEDY_UNKNOWN"
      /\ Asks(actions[a], actions'[a], "reconcileRemedy")
  BY ReadAwaits DEF CallRemedyStatus
<1>2. status \in Statuses
  BY DEF Recall, ConnectorInv, ConnectorType, Memory, Statuses
<1>3. Exchanges(a, "reconcileRemedy", status)
  BY <1>1 DEF CallRemedyStatus, Exchanges
<1>4. Tells(a, "reconcileRemedy", status)
  BY DEF Tells
<1>5. EffectsStand /\ Memory(remedies, Statuses)'
  BY DEF CallRemedyStatus, ConnectorInv, ConnectorType, Memory, EffectsStand
<1>6. /\ Handler(a) /\ "reconcileRemedy" \in Operations
      /\ actions[a].state \notin Deciding
  BY <1>1 DEF CallRemedyStatus, Handler, Operations, Deciding
<1> QED
  BY <1>2, <1>3, <1>4, <1>5, <1>6, UndecidedKeeps

-------------------------------------------------------------------------------
(* The steps that resume with an answer. *)

(* The answer a continuation resumes with is true.                         *)
LEMMA AnswerTells ==
    ASSUME ConnectorInv, NEW a \in Action, NEW op \in Operations,
           actions[a].awaiting[op] > 0
    PROVE  Tells(a, op, Answer(a, op).status)
<1> DEFINE q == replies[a][op]
<1>1. q \in Seq(Replied) /\ Len(q) > 0
  BY DEF ConnectorInv, ConnectorType, Replies, Linked
<1>2. Head(q) = q[1] /\ 1 \in DOMAIN q
  BY <1>1
<1>3. Answer(a, op).status \in Underway(a, op)
  BY <1>2 DEF Answer, Underway
<1> QED
  BY <1>3 DEF ConnectorInv, Truthful

(* A resumption that asks nothing takes its answer.                        *)
LEMMA DeliveredTakes ==
    ASSUME Inv, NEW a \in Action, NEW op \in Operations,
           Delivered(a, op), Gets(actions[a], actions'[a], op)
    PROVE  replies' = Taken(replies, a, op) /\ EffectsStand /\ UNCHANGED remedies
<1>1. actions[a].awaiting \in [Operations -> Nat]
  BY DEF Inv, TypeOK, Slice
<1>2. "observeRemedy" \in Operations
  BY DEF Operations
<1>3. ~(actions'[a].awaiting["observeRemedy"] > actions[a].awaiting["observeRemedy"])
  BY <1>1, <1>2 DEF Gets
<1> QED
  BY <1>3 DEF Delivered, Calls, EffectsStand

(* The first event of a step.                                              *)
LEMMA AppendedFirst ==
    ASSUME NEW a, actions[a] \in Slice, actions'[a] \in Slice,
           Len(actions[a].events) + 1 \in DOMAIN actions'[a].events
    PROVE  /\ Appended(a) # <<>>
           /\ Appended(a)[1] = actions'[a].events[Len(actions[a].events) + 1]
<1> DEFINE s == actions[a].events
           u == actions'[a].events
<1>1. s \in Seq(Event) /\ u \in Seq(Event)
  BY DEF Slice
<1>2. Appended(a) = SubSeq(u, Len(s) + 1, Len(u))
  BY DEF Appended
<1>3. Len(s) + 1 \in 1 .. Len(u)
  BY <1>1
<1> HIDE DEF s, u
<1>4. Len(SubSeq(u, Len(s) + 1, Len(u))) >= 1
  BY <1>1, <1>3
<1>5. SubSeq(u, Len(s) + 1, Len(u))[1] = u[Len(s) + 1]
  BY <1>1, <1>3
<1>6. SubSeq(u, Len(s) + 1, Len(u)) # <<>>
  <2> DEFINE v == SubSeq(u, Len(s) + 1, Len(u))
  <2>1. Len(v) >= 1
    BY <1>4
  <2>2. Len(<<>>) = 0
    OBVIOUS
  <2> HIDE DEF v
  <2>3. v # <<>>
    BY <2>1, <2>2
  <2> QED
    BY <2>3 DEF v
<1> QED
  BY <1>2, <1>5, <1>6 DEF s, u

(* A decision is the move the answer leads to.                             *)
LEMMA DecidedMove ==
    ASSUME Inv, NEW a \in Action, Handler(a), Decides(actions[a], actions'[a]),
           NEW to \in {"EXECUTED", "FAILED", "UNKNOWN", "REVIEW_REQUIRED"},
           MovesTo(a, to)
    PROVE  /\ <<actions[a].state, to>> \in ALLOWED_TRANSITIONS
           /\ \/ actions'[a].state = to
              \/ actions'[a].state = "CLOSED" /\ to \in RECEIPT_STATES
<1> DEFINE c == actions[a]
           d == actions'[a]
           i == Len(c.events) + 1
<1>1. c \in Slice /\ d \in Slice
  BY NextInv DEF Next, Inv, TypeOK
<1>2. PICK t : Goes(c, d, t)
  <2>1. PICK u \in Nat : Walk(c, d, u)
    BY HandlerSegment DEF Segment
  <2> QED
    BY <2>1 DEF Goes
<1>3. c.state \in Deciding /\ d.state # c.state
  BY DEF Decides
<1>4. /\ i \in DOMAIN d.events
      /\ d.events[i].to # "none" =>
            /\ <<c.state, d.events[i].to>> \in ALLOWED_TRANSITIONS
            /\ \/ d.state = d.events[i].to \/ d.events[i].to = "BREACHED"
               \/ d.state = "CLOSED" /\ d.events[i].to \in RECEIPT_STATES
  BY <1>1, <1>2, <1>3, MoveLogged DEF Deciding
<1>5. Appended(a) # <<>> /\ Appended(a)[1] = d.events[i]
  BY <1>1, <1>4, AppendedFirst
<1>6. d.events[i].to = to
  BY <1>5 DEF MovesTo
<1> QED
  BY <1>4, <1>6

(* Resuming execute(): done, refused, or lost.                             *)
LEMMA DeliverExecuteKeeps ==
    ASSUME Inv, ConnectorInv, NEW a \in Action, DeliverExecute(a)
    PROVE  ConnectorInv'
<1> DEFINE c == actions[a]
           d == actions'[a]
           status == Answer(a, "execute").status
           to == IF status = "executed" THEN "EXECUTED"
                 ELSE IF status = "refused" THEN "FAILED" ELSE "UNKNOWN"
<1>1. /\ c.state = "EXECUTING" /\ c.awaiting["execute"] > 0
      /\ Gets(c, d, "execute")
      /\ d.execution \in {c.execution, "executed", "unknown"}
  BY ExecuteAnsweredGets DEF DeliverExecute
<1>2. Handler(a) /\ "execute" \in Operations
  BY DEF DeliverExecute, Handler, Operations
<1>3. MovesTo(a, to)
  BY DEF DeliverExecute
<1>4. replies' = Taken(replies, a, "execute") /\ EffectsStand /\ UNCHANGED remedies
  BY <1>1, <1>2, DeliveredTakes DEF DeliverExecute
<1>5. /\ status # "refused" => Bound(a)
      /\ status = "executed" => Says(a, "executed")
  BY <1>1, <1>2, AnswerTells DEF Tells
<1>6. ASSUME Decides(c, d)
      PROVE  /\ Acted(d) => Bound(a)
             /\ d.state = "EXECUTED" => Says(a, "executed")
             /\ Absent(d) => Made(a) = {}
             /\ Settles(d) => Cardinality(StillLive(a)) = 1
  <2>1. to \in {"EXECUTED", "FAILED", "UNKNOWN", "REVIEW_REQUIRED"}
    OBVIOUS
  <2> HIDE DEF to
  <2>2. \/ d.state = to
        \/ d.state = "CLOSED" /\ to \in RECEIPT_STATES
    BY <1>2, <1>3, <1>6, <2>1, DecidedMove
  <2>3. d.state = to
    BY <2>2 DEF RECEIPT_STATES, DisputedStates, to
  <2>4. c.execution # "no_effect"
    BY <1>1 DEF ConnectorInv, Concluded
  <2>5. ~Absent(d)
    BY <1>1, <2>4 DEF Absent
  <2>6. ~Settles(d)
    BY <1>1, <1>6 DEF Decides
  <2> QED
    BY <1>5, <2>3, <2>5, <2>6 DEF Acted, to
<1> QED
  BY <1>1, <1>2, <1>4, <1>6, DecidedKeeps

(* Resuming reconcile(): done, without effect, or not known.               *)
LEMMA DeliverStatusKeeps ==
    ASSUME Inv, ConnectorInv, NEW a \in Action, DeliverStatus(a)
    PROVE  ConnectorInv'
<1> DEFINE c == actions[a]
           d == actions'[a]
           status == Answer(a, "reconcile").status
           to == IF status = "executed" THEN "EXECUTED"
                 ELSE IF status = "no_effect" THEN "FAILED" ELSE "REVIEW_REQUIRED"
<1>1. c.awaiting["reconcile"] > 0 /\ Gets(c, d, "reconcile")
  BY ReconcileAnsweredGets DEF DeliverStatus
<1>2. Handler(a) /\ "reconcile" \in Operations
  BY DEF DeliverStatus, Handler, Operations
<1>3. MovesTo(a, to)
  BY DEF DeliverStatus
<1>4. replies' = Taken(replies, a, "reconcile") /\ EffectsStand /\ UNCHANGED remedies
  BY <1>1, <1>2, DeliveredTakes DEF DeliverStatus
<1>5. Says(a, status)
  BY <1>1, <1>2, AnswerTells DEF Tells
<1>6. status = "no_effect" => Made(a) = {}
  BY <1>5 DEF Says, Bound, ConnectorInv, Remembered
<1>7. ASSUME Decides(c, d)
      PROVE  /\ Acted(d) => Bound(a)
             /\ d.state = "EXECUTED" => Says(a, "executed")
             /\ Absent(d) => Made(a) = {}
             /\ Settles(d) => Cardinality(StillLive(a)) = 1
  <2>1. to \in {"EXECUTED", "FAILED", "UNKNOWN", "REVIEW_REQUIRED"}
    OBVIOUS
  <2> HIDE DEF to
  <2>2. /\ <<c.state, to>> \in ALLOWED_TRANSITIONS
        /\ \/ d.state = to
           \/ d.state = "CLOSED" /\ to \in RECEIPT_STATES
    BY <1>2, <1>3, <1>7, <2>1, DecidedMove
  <2>3. c.state # "VERIFYING"
    BY <2>1, <2>2 DEF ALLOWED_TRANSITIONS
  <2>4. ~Settles(d)
    BY <1>7, <2>3 DEF Decides
  <2>5. d.state = to \/ d.state = "CLOSED"
    BY <2>2
  <2>6. Bound(a)
    BY <1>5 DEF Says
  <2> QED
    BY <1>5, <1>6, <2>4, <2>5, <2>6 DEF Absent, to
<1> QED
  BY <1>1, <1>2, <1>4, <1>7, DecidedKeeps

(* Resuming verifyOutcome(): settled by evidence of one live effect.       *)
LEMMA DeliverObserveKeeps ==
    ASSUME Inv, ConnectorInv, NEW a \in Action, DeliverObserve(a)
    PROVE  ConnectorInv'
<1> DEFINE c == actions[a]
           d == actions'[a]
           report == Answer(a, "observe")
<1>1. /\ c.state = "VERIFYING" /\ c.awaiting["observe"] > 0
      /\ Gets(c, d, "observe")
      /\ Settles(d) => Says1st(c, d, "EVIDENCE_ACCEPTED", "satisfied")
  BY OutcomeObservedGets DEF DeliverObserve
<1>2. Handler(a) /\ "observe" \in Operations
  BY DEF DeliverObserve, Handler, Operations
<1>3. c \in Slice /\ d \in Slice
  BY <1>2, NextInv DEF Next, Inv, TypeOK
<1>4. replies' = Taken(replies, a, "observe") /\ EffectsStand /\ UNCHANGED remedies
  BY <1>1, <1>2, DeliveredTakes DEF DeliverObserve
<1>5. report.status = "satisfied" => Cardinality(StillLive(a)) = 1
  BY <1>1, <1>2, AnswerTells DEF Tells
<1>6. ASSUME Settles(d) PROVE report.status = "satisfied"
  <2>1. Says1st(c, d, "EVIDENCE_ACCEPTED", "satisfied")
    BY <1>1, <1>6
  <2>2. /\ Appended(a)[1].type = "EVIDENCE_ACCEPTED"
        /\ Appended(a)[1].info = "satisfied"
    BY <1>3, <2>1, AppendedFirst DEF Says1st
  <2> QED
    BY <2>2 DEF DeliverObserve, Weighed
<1>7. ASSUME Decides(c, d)
      PROVE  /\ Acted(d) => Bound(a)
             /\ d.state = "EXECUTED" => Says(a, "executed")
             /\ Absent(d) => Made(a) = {}
             /\ Settles(d) => Cardinality(StillLive(a)) = 1
  <2>1. d.state \notin {"EXECUTED", "FAILED"}
    BY <1>1, <1>7 DEF Decides
  <2>2. Bound(a)
    BY <1>1 DEF ConnectorInv, Concluded, Acted, Unasked
  <2> QED
    BY <1>5, <1>6, <2>1, <2>2 DEF Absent
<1> QED
  BY <1>1, <1>2, <1>4, <1>7, DecidedKeeps

(* A resumption that decides nothing, and may ask for evidence.            *)
LEMMA RemedyDeliveredKeeps ==
    ASSUME Inv, ConnectorInv, NEW a \in Action, Handler(a),
           actions[a].state \notin Deciding,
           NEW p \in {"remediate", "reconcileRemedy", "observeRemedy"},
           actions[a].awaiting[p] > 0, Delivered(a, p),
           \/ Gets(actions[a], actions'[a], p)
           \/ p # "observeRemedy" /\ Turns(actions[a], actions'[a], p)
    PROVE  ConnectorInv'
<1> DEFINE op == "observeRemedy"
<1>1. op \in Operations /\ p \in Operations
  BY DEF Operations
<1>2. CASE Gets(actions[a], actions'[a], p)
  <2>1. replies' = Taken(replies, a, p) /\ EffectsStand /\ UNCHANGED remedies
    BY <1>1, <1>2, DeliveredTakes
  <2>2. ~Decides(actions[a], actions'[a])
    BY DEF Decides
  <2> QED
    BY <1>1, <1>2, <2>1, <2>2, DecidedKeeps
<1>3. CASE p # "observeRemedy" /\ Turns(actions[a], actions'[a], p)
  <2>1. actions[a].awaiting \in [Operations -> Nat]
    BY DEF Inv, TypeOK, Slice
  <2>2. Calls(a, op)
    BY <1>1, <1>3, <2>1 DEF Turns, Calls
  <2>3. PICK status \in Reports(a, op) : replies' = Sent(Taken(replies, a, p), a, op, status)
    BY <2>2 DEF Delivered
  <2>4. status \in Statuses
    BY <2>3 DEF Reports, Statuses
  <2>5. Exchanges(a, op, status)
    BY <1>3, <2>3 DEF Exchanges
  <2>6. Tells(a, op, status)
    BY DEF Tells
  <2>7. EffectsStand /\ Memory(remedies, Statuses)'
    BY DEF Delivered, ConnectorInv, ConnectorType, Memory, EffectsStand
  <2> QED
    BY <1>1, <2>4, <2>5, <2>6, <2>7, UndecidedKeeps
<1> QED
  BY <1>2, <1>3

(* Resuming the remedy's continuations.                                    *)
LEMMA DeliverRemedyKeeps ==
    ASSUME Inv, RecordInv, ConnectorInv, NEW a \in Action,
           \/ DeliverRemediate(a) \/ DeliverRemedyStatus(a) \/ DeliverObserveRemedy(a)
    PROVE  ConnectorInv'
<1>1. CASE DeliverRemediate(a)
  <2>1. /\ actions[a].state = "REMEDIATING" /\ actions[a].awaiting["remediate"] > 0
        /\ \/ Gets(actions[a], actions'[a], "remediate")
           \/ Turns(actions[a], actions'[a], "remediate")
    BY <1>1, RemediateAnsweredGets DEF DeliverRemediate
  <2>2. Handler(a) /\ Delivered(a, "remediate") /\ actions[a].state \notin Deciding
    BY <1>1, <2>1 DEF DeliverRemediate, Handler, Deciding
  <2> QED
    BY <2>1, <2>2, RemedyDeliveredKeeps
<1>2. CASE DeliverRemedyStatus(a)
  <2>1. /\ actions[a].state \notin Deciding /\ actions[a].awaiting["reconcileRemedy"] > 0
        /\ \/ Gets(actions[a], actions'[a], "reconcileRemedy")
           \/ Turns(actions[a], actions'[a], "reconcileRemedy")
    BY <1>2, ReconcileRemedyAnsweredGets DEF DeliverRemedyStatus
  <2>2. Handler(a) /\ Delivered(a, "reconcileRemedy")
    BY <1>2 DEF DeliverRemedyStatus, Handler
  <2> QED
    BY <2>1, <2>2, RemedyDeliveredKeeps
<1>3. CASE DeliverObserveRemedy(a)
  <2>1. /\ actions[a].state \notin Deciding /\ actions[a].awaiting["observeRemedy"] > 0
        /\ Gets(actions[a], actions'[a], "observeRemedy")
    BY <1>3, RemedyObservedGets DEF DeliverObserveRemedy
  <2>2. Handler(a) /\ Delivered(a, "observeRemedy")
    BY <1>3 DEF DeliverObserveRemedy, Handler
  <2> QED
    BY <2>1, <2>2, RemedyDeliveredKeeps
<1> QED
  BY <1>1, <1>2, <1>3

(* Where no answer moves, no effect and no claim, nothing is to show.      *)
LEMMA AloneKeeps ==
    ASSUME ConnectorInv, UNCHANGED cvars,
           \A a \in Action : /\ Alone(actions[a], actions'[a])
                             /\ actions'[a].awaiting = actions[a].awaiting
    PROVE  ConnectorInv'
<1>1. EffectsStand /\ replies' = replies /\ remedies' = remedies
  BY DEF cvars, EffectsStand
<1>2. \A b : Undisturbed(b)
  BY <1>1, StandUndisturbed
<1>3. ASSUME NEW a \in Action
      PROVE  Linked(a)' /\ Truthful(a)' /\ Concluded(a)'
  <2>1. Linked(a) /\ Truthful(a) /\ Concluded(a)
    BY DEF ConnectorInv
  <2>2. Linked(a)'
    BY <1>1, <2>1 DEF Linked
  <2>3. Concluded(a)'
    BY <1>2, <2>1, AloneQuieter, QuieterConcludes
  <2>4. \A op : Underway(a, op)' = Underway(a, op)
    BY <1>1 DEF Underway
  <2>5. ASSUME NEW op \in Operations, NEW status \in Underway(a, op)
        PROVE  Tells(a, op, status)'
    BY <1>2, <2>1, <2>5, UndisturbedTells DEF Truthful
  <2>6. Truthful(a)'
    BY <2>4, <2>5 DEF Truthful
  <2> QED
    BY <2>2, <2>3, <2>6
<1>4. ConnectorType' /\ StockConserved'
  BY <1>1 DEF ConnectorInv, ConnectorType, StockConserved, EffectsStand, Memory
<1>5. Remembered' /\ Labelled'
  BY <1>1 DEF ConnectorInv, Remembered, Labelled, Made, Bound, EffectsStand
<1> QED
  BY <1>3, <1>4, <1>5 DEF ConnectorInv

(* A reservation that expires, time that passes, and no step at all.       *)
LEMMA IdleKeeps ==
    ASSUME Inv, ConnectorInv,
           \/ \E a \in Action : ReservationExpires(a)
           \/ TimePasses
           \/ UNCHANGED <<vars, cvars>>
    PROVE  ConnectorInv'
<1>1. CASE UNCHANGED actions /\ UNCHANGED cvars
  BY <1>1, AloneKeeps DEF Alone
<1>2. ASSUME NEW a \in Action, ReservationExpires(a)
      PROVE  ConnectorInv'
  <2> DEFINE c == actions[a]
  <2>1. actions \in [Action -> Slice] /\ c \in Slice
    BY DEF Inv, TypeOK
  <2>2. PICK s \in Lapses : actions' = [actions EXCEPT ![a] = [c EXCEPT !.recourse = s]]
    BY <1>2, <2>1 DEF ReservationExpires, RecourseLapses
  <2>3. \A b \in Action : b # a => actions'[b] = actions[b]
    BY <2>1, <2>2
  <2>4. actions'[a] = [c EXCEPT !.recourse = s]
    BY <2>1, <2>2
  <2>5. /\ actions'[a].state = c.state /\ actions'[a].execution = c.execution
        /\ actions'[a].receipt = c.receipt /\ actions'[a].remedy_calls = c.remedy_calls
        /\ actions'[a].events = c.events /\ actions'[a].awaiting = c.awaiting
    BY <2>1, <2>4 DEF Slice
  <2>6. \A b \in Action : /\ Alone(actions[b], actions'[b])
                          /\ actions'[b].awaiting = actions[b].awaiting
    BY <2>3, <2>5 DEF Alone, Entries, Moves
  <2> QED
    BY <1>2, <2>6, AloneKeeps DEF ReservationExpires
<1> QED
  BY <1>1, <1>2 DEF TimePasses, Tick, vars

-------------------------------------------------------------------------------
(* The connector executes. *)

\* u is s with n effects e more.
Adds(u, s, n, e) ==
    /\ u \in Seq(Effect) /\ Len(u) = Len(s) + n
    /\ \A i \in 1 .. Len(s) : u[i] = s[i]
    /\ \A i \in (Len(s) + 1) .. (Len(s) + n) : u[i] = e

(* Effects are made one after the other.                                   *)
LEMMA AddsStep ==
    ASSUME NEW s \in Seq(Effect), NEW n \in Nat, NEW e \in Effect
    PROVE  Adds(s \o [i \in 1 .. n |-> e], s, n, e)
<1> DEFINE r == [i \in 1 .. n |-> e]
<1>1. r \in Seq(Effect) /\ Len(r) = n /\ \A i \in 1 .. n : r[i] = e
  OBVIOUS
<1> HIDE DEF r
<1>2. s \o r \in Seq(Effect) /\ Len(s \o r) = Len(s) + n
  BY <1>1
<1>3. \A i \in 1 .. Len(s) : (s \o r)[i] = s[i]
  BY <1>1
<1>4. \A i \in (Len(s) + 1) .. (Len(s) + n) : (s \o r)[i] = r[i - Len(s)]
  BY <1>1
<1>5. \A i \in (Len(s) + 1) .. (Len(s) + n) : i - Len(s) \in 1 .. n
  BY <1>1
<1>6. \A i \in (Len(s) + 1) .. (Len(s) + n) : (s \o r)[i] = e
  BY <1>1, <1>4, <1>5
<1> QED
  BY <1>2, <1>3, <1>6 DEF Adds, r

(* The smaller of two numbers.                                             *)
LEMMA MinIs ==
    ASSUME NEW x \in Nat, NEW y \in Nat
    PROVE  Min({x, y}) \in {x, y} /\ Min({x, y}) <= x /\ Min({x, y}) <= y
<1>1. \E z \in {x, y} : \A w \in {x, y} : z <= w
  OBVIOUS
<1> QED
  BY <1>1 DEF Min

\* The one effect of a.
EffectOf(a) ==
    [by |-> a, key |-> proposal[a].key, order |-> proposal[a].order, live |-> TRUE]

\* The connector makes n effects of a's, and remembers that it did or did not;
\* if it could make none of those wanted it remembers nothing.
Performs(a, n, known) ==
    /\ UNCHANGED <<product, proposal, remedies>>
    /\ n \in Nat /\ Adds(effects', effects, n, EffectOf(a))
    /\ IF product = "inventory" THEN n <= stock /\ stock' = stock - n
                                ELSE stock' = stock
    /\ proposal[a].key \notin DOMAIN executions
    /\ \/ n = 0 /\ known = "unknown" /\ executions' = executions
       \/ /\ known \in {"executed", "no_effect"} /\ (known = "executed" <=> n > 0)
          /\ executions' = Remember(executions, proposal[a].key, a, known)

(* Execution under a new key performs, and answers what is remembered, or  *)
(* refuses, or nothing.                                                    *)
LEMMA ExecutionPerforms ==
    ASSUME ConnectorInv, NEW a \in Action, Execution(a),
           proposal[a].key \notin DOMAIN executions
    PROVE  \E n, known : \E status \in {"executed", "refused", "lost"} :
              /\ Performs(a, n, known)
              /\ replies' = Sent(replies, a, "execute", status)
              /\ status # "refused" => known # "unknown"
              /\ status = "executed" => known = "executed"
<1> DEFINE key == proposal[a].key
           e == EffectOf(a)
<1>1. /\ product \in {"refund", "inventory"} /\ stock \in Nat
      /\ effects \in Seq(Effect) /\ proposal[a] \in Proposal
  BY ConnectorAssumption DEF ConnectorInv, ConnectorType
<1>2. e \in Effect
  BY <1>1 DEF EffectOf, Effect, Proposal
<1>3. PICK fault \in ExecutionFaults :
         LET wanted == Wanted(fault)
             made == IF product = "refund" THEN wanted ELSE Min({wanted, stock})
         IN /\ effects' = effects \o [i \in 1 .. made |-> e]
            /\ stock' = IF product = "refund" THEN stock ELSE stock - made
            /\ executions' = IF wanted > 0 /\ made = 0 THEN executions
                             ELSE Remember(executions, key, a, Confirmed(fault))
            /\ replies' = Sent(replies, a, "execute",
                  CASE made < wanted -> "refused"
                    [] made = wanted /\ fault \in {"none", "duplicate"} -> "executed"
                    [] OTHER -> "lost")
  BY DEF Execution, EffectOf
<1>4. UNCHANGED <<product, proposal, remedies>>
  BY DEF Execution
<1> DEFINE wanted == Wanted(fault)
           made == IF product = "refund" THEN wanted ELSE Min({wanted, stock})
           known == IF wanted > 0 /\ made = 0 THEN "unknown" ELSE Confirmed(fault)
           status == IF made < wanted THEN "refused"
                     ELSE IF fault \in {"none", "duplicate"} THEN "executed" ELSE "lost"
<1>5. /\ wanted \in Nat
      /\ wanted = 0 <=> fault = "lost-response-before-commit"
      /\ fault \in {"none", "duplicate"} => wanted > 0
      /\ Confirmed(fault) = "executed" <=> wanted > 0
      /\ Confirmed(fault) \in {"executed", "no_effect"}
  BY DEF Wanted, Confirmed, ExecutionFaults
<1>6. /\ effects' = effects \o [i \in 1 .. made |-> e]
      /\ stock' = IF product = "refund" THEN stock ELSE stock - made
      /\ executions' = IF wanted > 0 /\ made = 0 THEN executions
                       ELSE Remember(executions, key, a, Confirmed(fault))
  BY <1>3
<1>7. replies' = Sent(replies, a, "execute",
                  CASE made < wanted -> "refused"
                    [] made = wanted /\ fault \in {"none", "duplicate"} -> "executed"
                    [] OTHER -> "lost")
  BY <1>3
<1> HIDE DEF wanted
<1>8. /\ made \in Nat /\ made <= wanted
      /\ product = "inventory" => made <= stock
      /\ wanted > 0 /\ made = 0 => made < wanted
  BY <1>1, <1>5, MinIs
<1> HIDE DEF made
<1>9. replies' = Sent(replies, a, "execute", status)
  <2>1. CASE made < wanted
    BY <1>5, <1>7, <1>8, <2>1
  <2>2. CASE made = wanted /\ fault \in {"none", "duplicate"}
    BY <1>5, <1>7, <1>8, <2>2
  <2>3. CASE ~(made < wanted) /\ ~(made = wanted /\ fault \in {"none", "duplicate"})
    BY <1>5, <1>7, <1>8, <2>3
  <2> QED
    BY <2>1, <2>2, <2>3
<1>10. Adds(effects', effects, made, e)
  BY <1>1, <1>2, <1>6, <1>8, AddsStep
<1>11. Performs(a, made, known)
  <2>1. CASE wanted > 0 /\ made = 0
    BY <1>1, <1>4, <1>6, <1>8, <1>10, <2>1 DEF Performs
  <2>2. CASE ~(wanted > 0 /\ made = 0)
    <3>1. Confirmed(fault) = "executed" <=> made > 0
      BY <1>5, <1>8, <2>2
    <3> QED
      BY <1>1, <1>4, <1>5, <1>6, <1>8, <1>10, <2>2, <3>1 DEF Performs
  <2> QED
    BY <2>1, <2>2
<1>12. /\ status # "refused" => known # "unknown"
       /\ status = "executed" => known = "executed"
       /\ status \in {"executed", "refused", "lost"}
  BY <1>5, <1>8
<1> HIDE DEF status, known
<1> QED
  BY <1>9, <1>11, <1>12

\* The effects that stand, whoever made them.
Standing == {i \in DOMAIN effects : effects[i].live}

(* n effects of a's more are a's alone, and all of them stand.             *)
LEMMA AddsEffects ==
    ASSUME effects \in Seq(Effect), NEW a \in Action, NEW n \in Nat,
           Adds(effects', effects, n, EffectOf(a))
    PROVE  /\ \A b \in Action : b # a =>
                 Made(b)' = Made(b) /\ StillLive(b)' = StillLive(b)
           /\ Made(a) = {} =>
                 StillLive(a)' = Made(a)' /\ (Made(a)' # {} <=> n > 0)
           /\ Cardinality(Standing') = Cardinality(Standing) + n
<1> DEFINE s == effects
           u == effects'
           New == (Len(s) + 1) .. (Len(s) + n)
<1>1. /\ Len(s) \in Nat /\ DOMAIN s = 1 .. Len(s)
      /\ DOMAIN u = 1 .. (Len(s) + n) /\ \A i \in 1 .. Len(s) : u[i] = s[i]
  BY DEF Adds
<1>2. \A i \in New : u[i].by = a /\ u[i].live = TRUE
  BY DEF Adds, EffectOf
<1>3. DOMAIN u = DOMAIN s \cup New /\ DOMAIN s \cap New = {}
  BY <1>1
<1>4. New # {} <=> n > 0
  <2>1. n > 0 => Len(s) + 1 \in New
    BY <1>1
  <2>2. n = 0 => New = {}
    BY <1>1
  <2>3. n = 0 \/ n > 0
    OBVIOUS
  <2> HIDE DEF New
  <2> QED
    BY <2>1, <2>2, <2>3
<1> HIDE DEF New
<1>5. ASSUME NEW b \in Action, b # a
      PROVE  Made(b)' = Made(b) /\ StillLive(b)' = StillLive(b)
  <2>1. Made(b)' = Made(b)
    BY <1>1, <1>2, <1>3, <1>5 DEF Made
  <2>2. \A i \in Made(b) : u[i] = s[i]
    BY <1>1 DEF Made
  <2> QED
    BY <2>1, <2>2 DEF StillLive
<1>6. ASSUME Made(a) = {}
      PROVE  StillLive(a)' = Made(a)' /\ (Made(a)' # {} <=> n > 0)
  <2>1. Made(a)' = New
    BY <1>1, <1>2, <1>3, <1>6 DEF Made
  <2> QED
    BY <1>2, <1>4, <2>1 DEF StillLive
<1>7. Standing' = Standing \cup New /\ Standing \cap New = {}
  BY <1>1, <1>2, <1>3 DEF Standing
<1>8. /\ IsFiniteSet(New) /\ Cardinality(New) = n
  <2>1. /\ Len(s) + 1 \in Int /\ Len(s) + n \in Int
        /\ n = 0 => Len(s) + 1 > Len(s) + n
        /\ (Len(s) + n) - (Len(s) + 1) + 1 = n
    BY <1>1
  <2>2. CASE Len(s) + 1 > Len(s) + n
    <3>1. n = 0
      BY <1>1, <2>2
    <3> QED
      BY <2>1, <2>2, <3>1, FS_Interval DEF New
  <2>3. CASE ~(Len(s) + 1 > Len(s) + n)
    BY <2>1, <2>3, FS_Interval DEF New
  <2> QED
    BY <2>2, <2>3
<1>9. IsFiniteSet(Standing)
  BY FiniteEffects DEF Standing
<1>10. Cardinality(Standing \cup New) =
          Cardinality(Standing) + Cardinality(New) - Cardinality(Standing \cap New)
  BY <1>8, <1>9, FS_Union
<1>11. Cardinality({}) = 0 /\ Cardinality(Standing) \in Nat
  BY <1>9, FS_EmptySet, FS_CardinalityType
<1>12. Cardinality(Standing') = Cardinality(Standing) + n
  <2>1. Cardinality(Standing \cap New) = 0
    BY <1>7, <1>11
  <2>2. Cardinality(Standing \cup New) = Cardinality(Standing) + n - 0
    BY <1>8, <1>10, <2>1
  <2>3. Cardinality(Standing') = Cardinality(Standing \cup New)
    BY <1>7
  <2> QED
    BY <1>11, <2>2, <2>3
<1> QED
  BY <1>5, <1>6, <1>12

(* What the connector remembers of what it performed.                      *)
LEMMA PerformsRemembers ==
    ASSUME ConnectorInv, NEW a \in Action, NEW n, NEW known, Performs(a, n, known),
           Made(a) = {}, \A k \in DOMAIN executions : executions[k].by # a
    PROVE  /\ \A b \in Action : b # a => Undisturbed(b)
           /\ known # "unknown" => Bound(a)'
           /\ known = "executed" => Says(a, "executed")'
           /\ StillLive(a)' = Made(a)'
           /\ Remembered' /\ Labelled' /\ StockConserved'
           /\ effects' \in Seq(Effect) /\ stock' \in Nat
           /\ Memory(executions, {"executed", "no_effect"})'
<1> DEFINE key == proposal[a].key
<1>1. /\ effects \in Seq(Effect) /\ stock \in Nat /\ n \in Nat
      /\ Adds(effects', effects, n, EffectOf(a))
      /\ Memory(executions, {"executed", "no_effect"})
      /\ proposal' = proposal /\ product' = product
      /\ Remembered /\ Labelled /\ StockConserved
  BY DEF Performs, ConnectorInv, ConnectorType
<1>2. /\ \A b \in Action : b # a =>
            Made(b)' = Made(b) /\ StillLive(b)' = StillLive(b)
      /\ StillLive(a)' = Made(a)' /\ (Made(a)' # {} <=> n > 0)
      /\ Cardinality(Standing') = Cardinality(Standing) + n
  BY <1>1, AddsEffects
<1> DEFINE R == Remember(executions, key, a, known)
<1>0. key \notin DOMAIN executions =>
         /\ DOMAIN R = DOMAIN executions \cup {key}
         /\ \A k \in DOMAIN executions : R[k] = executions[k]
         /\ R[key].by = a /\ R[key].status = known
  BY DEF Remember
<1>3. /\ key \notin DOMAIN executions
      /\ \/ n = 0 /\ known = "unknown" /\ executions' = executions
         \/ /\ known \in {"executed", "no_effect"} /\ (known = "executed" <=> n > 0)
            /\ DOMAIN executions' = DOMAIN executions \cup {key}
            /\ \A k \in DOMAIN executions : executions'[k] = executions[k]
            /\ executions'[key].by = a /\ executions'[key].status = known
  BY <1>0 DEF Performs
<1> HIDE DEF key
<1>4. /\ \A k \in DOMAIN executions :
            k \in DOMAIN executions' /\ executions'[k] = executions[k]
      /\ \A k \in DOMAIN executions' : k \notin DOMAIN executions =>
            k = key /\ executions'[k].by = a /\ executions'[k].status = known
  BY <1>3
<1>5. \A b \in Action : b # a => Undisturbed(b)
  BY <1>1, <1>2, <1>4 DEF Undisturbed
<1>6. /\ known # "unknown" => Bound(a)'
      /\ known = "executed" => Says(a, "executed")'
  BY <1>1, <1>3 DEF Bound, Says, key
<1>7. Remembered'
  <2> SUFFICES ASSUME NEW k \in DOMAIN executions', NEW b \in Action,
                      executions'[k].by = b
               PROVE  /\ proposal[b].key = k
                      /\ executions'[k].status = "executed" <=> Made(b)' # {}
    BY <1>1 DEF Remembered
  <2>1. CASE k \in DOMAIN executions
    <3>1. executions'[k] = executions[k] /\ b # a
      BY <1>4, <2>1
    <3>2. proposal[b].key = k /\ (executions[k].status = "executed" <=> Made(b) # {})
      BY <1>1, <2>1, <3>1 DEF Remembered
    <3> QED
      BY <1>2, <3>1, <3>2
  <2>2. CASE k \notin DOMAIN executions
    <3>1. k = key /\ b = a /\ executions'[k].status = known
      BY <1>4, <2>2
    <3>2. known = "executed" <=> n > 0
      BY <1>3, <2>2
    <3> QED
      BY <1>2, <3>1, <3>2 DEF key
  <2> QED
    BY <2>1, <2>2
<1>8. Labelled'
  <2> SUFFICES ASSUME NEW i \in DOMAIN effects', NEW b \in Action, effects'[i].by = b
               PROVE  /\ effects'[i].key = proposal[b].key
                      /\ effects'[i].order = proposal[b].order
                      /\ Bound(b)'
    BY <1>1 DEF Labelled
  <2>1. /\ DOMAIN effects = 1 .. Len(effects) /\ Len(effects) \in Nat
        /\ DOMAIN effects' = 1 .. (Len(effects) + n)
    BY <1>1 DEF Adds
  <2>2. CASE i \in DOMAIN effects
    <3>1. effects'[i] = effects[i]
      BY <1>1, <2>1, <2>2 DEF Adds
    <3>2. b # a
      BY <2>2, <3>1 DEF Made
    <3>3. /\ effects[i].key = proposal[b].key
          /\ effects[i].order = proposal[b].order
          /\ Bound(b)
      BY <1>1, <2>2, <3>1 DEF Labelled
    <3>4. Bound(b)'
      BY <1>5, <3>2, <3>3, UndisturbedBound
    <3> QED
      BY <3>1, <3>3, <3>4
  <2>3. CASE i \notin DOMAIN effects
    <3>1. i \in (Len(effects) + 1) .. (Len(effects) + n) /\ n > 0
      BY <1>1, <2>1, <2>3
    <3>2. effects'[i] = EffectOf(a)
      BY <1>1, <3>1 DEF Adds
    <3>3. Bound(a)'
      BY <1>1, <1>3, <1>6, <3>1
    <3>4. a = b
      BY <3>2 DEF EffectOf
    <3>5. effects'[i].key = proposal[a].key /\ effects'[i].order = proposal[a].order
      BY <3>2 DEF EffectOf
    <3> QED
      BY <3>3, <3>4, <3>5
  <2> QED
    BY <2>2, <2>3
<1>9. /\ stock' \in Nat
      /\ product = "inventory" => stock' = stock - n
  BY <1>1 DEF Performs
<1>10. StockConserved'
  <2> SUFFICES ASSUME product = "inventory"
               PROVE  stock' >= 0 /\ stock' + Cardinality(Standing') = Baseline
    BY <1>1 DEF StockConserved, Standing
  <2>1. stock + Cardinality(Standing) = Baseline
    BY <1>1 DEF StockConserved, Standing
  <2>2. Cardinality(Standing) \in Nat
    BY <1>1, FiniteEffects, FS_CardinalityType DEF Standing
  <2> QED
    BY <1>1, <1>2, <1>9, <2>1, <2>2
<1>11. Memory(executions, {"executed", "no_effect"})'
  BY <1>1, <1>3, <1>4 DEF Memory
<1>12. effects' \in Seq(Effect)
  BY <1>1 DEF Adds
<1> QED
  BY <1>2, <1>5, <1>6, <1>7, <1>8, <1>9, <1>10, <1>11, <1>12

(* An action that performs for the first time has concluded nothing yet,   *)
(* and its answer says what is remembered.                                 *)
LEMMA PerformsKeeps ==
    ASSUME Inv, ConnectorInv, NEW a \in Action, Handler(a),
           actions[a].state = "PERMITTED", actions'[a].state = "EXECUTING",
           Asks(actions[a], actions'[a], "execute"),
           NEW n, NEW known, Performs(a, n, known),
           NEW status \in {"executed", "refused", "lost"},
           replies' = Sent(replies, a, "execute", status),
           status # "refused" => known # "unknown",
           status = "executed" => known = "executed"
    PROVE  ConnectorInv'
<1> DEFINE c == actions[a]
           d == actions'[a]
<1>1. Concluded(a) /\ Linked(a) /\ c.state \in Unasked
  BY DEF ConnectorInv, Unasked
<1>2. Made(a) = {} /\ \A k \in DOMAIN executions : executions[k].by # a
  BY <1>1 DEF Concluded
<1>3. /\ \A b \in Action : b # a => Undisturbed(b)
      /\ known # "unknown" => Bound(a)'
      /\ known = "executed" => Says(a, "executed")'
      /\ StillLive(a)' = Made(a)'
      /\ Remembered' /\ Labelled' /\ StockConserved'
      /\ effects' \in Seq(Effect) /\ stock' \in Nat
      /\ Memory(executions, {"executed", "no_effect"})'
  BY <1>2, PerformsRemembers
<1>4. Steps(a) /\ Quieter(c, d)
  BY HandlerClaims DEF Decides, Deciding
<1>5. Inv'
  BY NextInv DEF Next
<1>6. /\ "execute" \in Operations /\ status \in Statuses
      /\ Exchanges(a, "execute", status)
  BY DEF Operations, Statuses, Exchanges
<1>7. Tells(a, "execute", status)'
  BY <1>3 DEF Tells
<1>8. ASSUME NEW o \in Operations, NEW s \in Underway(a, o)
      PROVE  Tells(a, o, s)'
  <2>1. c.awaiting[o] # 0
    <3>1. replies[a][o] \in Seq(Replied) /\ Len(replies[a][o]) = c.awaiting[o]
      BY <1>1 DEF ConnectorInv, ConnectorType, Replies, Linked
    <3>2. DOMAIN replies[a][o] # {}
      BY <1>8 DEF Underway
    <3> QED
      BY <3>1, <3>2
  <2>2. c.awaiting \in [Operations -> Nat]
    BY DEF Inv, TypeOK, Slice
  <2>3. o \notin {"execute", "observe", "reconcile"}
    BY <1>1, <2>1, <2>2, AwaitedStates
  <2> QED
    BY <2>3 DEF Tells
<1>9. Concluded(a)'
  <2>1. /\ d.execution # "no_effect" /\ ~Counts(c)
    BY <1>1, <1>2, <1>4 DEF Concluded, Quieter, Says, Bound
  <2>2. ~Counts(d) /\ ~Acted(d) /\ ~Absent(d) /\ ~Settles(d) /\ d.state \notin Unasked
    BY <1>4, <2>1 DEF Quieter, Acted, Absent, Settles, Unasked
  <2> QED
    BY <1>3, <2>1, <2>2 DEF Concluded
<1>10. /\ replies' \in Replies
       /\ \A b \in Action : Linked(b)' /\ Truthful(b)' /\ Concluded(b)'
  BY <1>3, <1>4, <1>5, <1>6, <1>7, <1>8, <1>9, RepliesKeep
<1>11. ConnectorType'
  BY <1>3, <1>10 DEF ConnectorInv, ConnectorType, Performs, Memory
<1> QED
  BY <1>3, <1>10, <1>11 DEF ConnectorInv

(* execute(): withdrawn, refused for another action's key, or performed.   *)
LEMMA CallExecuteKeeps ==
    ASSUME Inv, ConnectorInv, NEW a \in Action, CallExecute(a)
    PROVE  ConnectorInv'
<1> DEFINE c == actions[a]
           d == actions'[a]
           key == proposal[a].key
<1>1. /\ c.state = "PERMITTED"
      /\ \/ d.awaiting = c.awaiting
         \/ Asks(c, d, "execute") /\ d.state = "EXECUTING"
  BY ExecuteAwaits DEF CallExecute
<1>2. /\ Handler(a) /\ c.state \notin Deciding /\ c.state \in Unasked
      /\ "execute" \in Operations
  BY <1>1 DEF CallExecute, Handler, Deciding, Unasked, Operations
<1>3. c.awaiting \in [Operations -> Nat]
  BY DEF Inv, TypeOK, Slice
<1>4. CASE d.awaiting = c.awaiting
  <2>1. ~Calls(a, "execute")
    BY <1>2, <1>3, <1>4 DEF Calls
  <2> QED
    BY <1>2, <1>4, <2>1, QuietlyKeeps DEF CallExecute
<1>5. CASE Asks(c, d, "execute") /\ d.state = "EXECUTING"
  <2>1. Calls(a, "execute")
    BY <1>2, <1>3, <1>5 DEF Asks, Calls
  <2>2. Execution(a)
    BY <2>1 DEF CallExecute
  <2>3. CASE key \in DOMAIN executions
    <3>1. executions[key].by # a
      BY <1>2, <2>3 DEF ConnectorInv, Concluded
    <3>2. /\ replies' = Sent(replies, a, "execute", "refused")
          /\ EffectsStand /\ UNCHANGED remedies
      BY <2>2, <2>3, <3>1 DEF Execution, Foreign, EffectsStand
    <3>3. Exchanges(a, "execute", "refused") /\ Tells(a, "execute", "refused")
      BY <1>5, <3>2 DEF Exchanges, Tells
    <3>4. "refused" \in Statuses /\ Memory(remedies, Statuses)'
      BY <3>2 DEF Statuses, ConnectorInv, ConnectorType, Memory
    <3> QED
      BY <1>2, <3>2, <3>3, <3>4, UndecidedKeeps
  <2>4. CASE key \notin DOMAIN executions
    <3>1. PICK n, known : \E status \in {"executed", "refused", "lost"} :
             /\ Performs(a, n, known)
             /\ replies' = Sent(replies, a, "execute", status)
             /\ status # "refused" => known # "unknown"
             /\ status = "executed" => known = "executed"
      BY <2>2, <2>4, ExecutionPerforms
    <3> QED
      BY <1>1, <1>2, <1>5, <3>1, PerformsKeeps
  <2> QED
    BY <2>3, <2>4
<1> QED
  BY <1>1, <1>4, <1>5

-------------------------------------------------------------------------------
(* The connector undoes. *)

(* A nonempty set of natural numbers has a least element.                  *)
LEMMA Least ==
    ASSUME NEW T \in SUBSET Nat, T # {}
    PROVE  \E x \in T : \A y \in T : x <= y
<1> DEFINE R == OpToRel(<, Nat)
<1>1. IsWellFoundedOn(R, Nat)
  BY NatLessThanWellFounded
<1>2. \A x, y \in Nat : x < y => <<x, y>> \in R
  BY DEF OpToRel
<1> HIDE DEF R
<1>3. PICK x \in T : \A y \in T : ~ (<<y, x>> \in R)
  BY <1>1, WFMin
<1>4. \A y \in T : ~ (y < x)
  BY <1>2, <1>3
<1>5. \A y \in T : x <= y
  BY <1>4
<1> QED
  BY <1>5

(* A nonempty set of positions has a greatest element.                     *)
LEMMA Greatest ==
    ASSUME NEW n \in Nat, NEW S \in SUBSET (1 .. n), S # {}
    PROVE  Max(S) \in S
<1> DEFINE T == {n - i : i \in S}
<1>1. \A i \in S : n - i \in Nat
  OBVIOUS
<1>2. T \in SUBSET Nat /\ T # {}
  BY <1>1
<1>3. PICK x \in T : \A y \in T : x <= y
  BY <1>2, Least
<1>4. PICK k \in S : x = n - k
  BY <1>3
<1>5. \A i \in S : n - k <= n - i
  BY <1>3, <1>4
<1>6. \A i \in S : k >= i
  BY <1>5
<1> QED
  BY <1>6 DEF Max

\* The effect m of a's is undone.
Undoes(a, m) ==
    /\ UNCHANGED <<product, proposal, executions>>
    /\ m \in Made(a) \cap Standing
    /\ effects' = [effects EXCEPT ![m].live = FALSE]
    /\ stock' = Restocked(stock)

(* A remedy undoes an effect of its own action: what was made under an     *)
(* action's key was made by the action.                                    *)
LEMMA OwnMade ==
    ASSUME ConnectorInv, NEW a \in Action, Bound(a), Own(a) # {}
    PROVE  Max(Own(a)) \in Made(a) \cap Standing
<1> DEFINE m == Max(Own(a))
<1>1. effects \in Seq(Effect) /\ Labelled
  BY DEF ConnectorInv, ConnectorType
<1>2. Own(a) \in SUBSET (1 .. Len(effects)) /\ Len(effects) \in Nat
  BY <1>1 DEF Own, Live
<1>3. m \in Own(a)
  BY <1>2, Greatest
<1> HIDE DEF m
<1>4. m \in DOMAIN effects /\ effects[m].live /\ effects[m].key = proposal[a].key
  BY <1>3 DEF Own, Live
<1>5. effects[m].by \in Action
  <2>1. effects[m] \in Effect
    BY <1>1, <1>4
  <2> QED
    BY <2>1 DEF Effect
<1>6. PICK b \in Action : b = effects[m].by
  BY <1>5
<1>7. effects[m].key = proposal[b].key /\ Bound(b)
  BY <1>1, <1>4, <1>6 DEF Labelled
<1>8. a = b
  BY <1>4, <1>7 DEF Bound
<1> QED
  BY <1>4, <1>6, <1>8 DEF Made, Standing, m

(* Undoing takes one standing effect, and only the action's.               *)
LEMMA UndoesEffects ==
    ASSUME ConnectorInv, NEW a \in Action, NEW m, Undoes(a, m)
    PROVE  /\ \A b : Made(b)' = Made(b)
           /\ \A b \in Action : b # a => Undisturbed(b)
           /\ \A b : /\ Bound(b) => Bound(b)'
                     /\ \A status : Says(b, status) => Says(b, status)'
           /\ Remembered' /\ Labelled' /\ StockConserved'
           /\ effects' \in Seq(Effect) /\ stock' \in Nat
<1>1. /\ effects \in Seq(Effect) /\ stock \in Nat
      /\ m \in DOMAIN effects /\ effects[m].by = a /\ m \in Standing
      /\ Remembered /\ Labelled /\ StockConserved
      /\ proposal' = proposal /\ product' = product /\ executions' = executions
  BY DEF Undoes, Made, ConnectorInv, ConnectorType
<1>2. effects' = [effects EXCEPT ![m].live = FALSE]
  BY DEF Undoes
<1>3. /\ effects' \in Seq(Effect) /\ DOMAIN effects' = DOMAIN effects
      /\ \A i \in DOMAIN effects : i # m => effects'[i] = effects[i]
      /\ effects'[m].by = effects[m].by /\ effects'[m].key = effects[m].key
      /\ effects'[m].order = effects[m].order /\ effects'[m].live = FALSE
  <2>1. effects[m] \in Effect
    BY <1>1
  <2>2. [effects[m] EXCEPT !.live = FALSE] \in Effect
    BY <2>1 DEF Effect
  <2>3. effects' = [effects EXCEPT ![m] = [effects[m] EXCEPT !.live = FALSE]]
    BY <1>2
  <2> DEFINE e == [effects[m] EXCEPT !.live = FALSE]
  <2>4. e.by = effects[m].by /\ e.key = effects[m].key /\ e.order = effects[m].order
        /\ e.live = FALSE
    BY <2>1 DEF Effect
  <2> HIDE DEF e
  <2>5. effects' = [effects EXCEPT ![m] = e] /\ e \in Effect
    BY <2>2, <2>3 DEF e
  <2> QED
    BY <1>1, <2>4, <2>5
<1>4. \A i \in DOMAIN effects : /\ effects'[i].by = effects[i].by
                                /\ effects'[i].key = effects[i].key
                                /\ effects'[i].order = effects[i].order
  BY <1>3
<1>5. \A b : Made(b)' = Made(b)
  BY <1>3, <1>4 DEF Made
<1>6. ASSUME NEW b \in Action, b # a
      PROVE  Undisturbed(b)
  <2>1. m \notin Made(b)
    BY <1>1, <1>6 DEF Made
  <2>2. \A i \in Made(b) : effects'[i] = effects[i]
    BY <1>3, <2>1 DEF Made
  <2>3. StillLive(b)' = StillLive(b)
    BY <1>5, <2>2 DEF StillLive
  <2> QED
    BY <1>1, <1>5, <2>3 DEF Undisturbed
<1>7. \A b : /\ Bound(b) => Bound(b)'
             /\ \A status : Says(b, status) => Says(b, status)'
  BY <1>1 DEF Bound, Says
<1>8. Remembered'
  BY <1>1, <1>5 DEF Remembered
<1>9. Labelled'
  BY <1>1, <1>3, <1>4, <1>7 DEF Labelled
<1>10. Standing' = Standing \ {m}
  BY <1>1, <1>3 DEF Standing
<1>11. IsFiniteSet(Standing)
  BY <1>1, FiniteEffects DEF Standing
<1>12. /\ Cardinality(Standing) \in Nat /\ Cardinality(Standing') \in Nat
       /\ Cardinality(Standing') = Cardinality(Standing) - 1
  <2>1. IsFiniteSet(Standing \ {m}) /\ Cardinality(Standing \ {m}) = Cardinality(Standing) - 1
    BY <1>1, <1>11, FS_RemoveElement
  <2> QED
    BY <1>10, <1>11, <2>1, FS_CardinalityType
<1>13. /\ stock' \in Nat
       /\ product = "inventory" => stock' = stock + 1
  BY <1>1 DEF Undoes, Restocked
<1>14. StockConserved'
  <2> SUFFICES ASSUME product = "inventory"
               PROVE  stock' >= 0 /\ stock' + Cardinality(Standing') = Baseline
    BY <1>1 DEF StockConserved, Standing
  <2>1. stock + Cardinality(Standing) = Baseline
    BY <1>1 DEF StockConserved, Standing
  <2> QED
    BY <1>1, <1>12, <1>13, <2>1
<1> QED
  BY <1>3, <1>5, <1>6, <1>7, <1>8, <1>9, <1>13, <1>14

(* A remedy under a new key answers, and undoes one effect of its own      *)
(* action if it says so.                                                   *)
LEMMA RemedyUndoes ==
    ASSUME ConnectorInv, NEW a \in Action, Remedy(a), Bound(a)
    PROVE  \E status \in Statuses :
              /\ replies' = Sent(replies, a, "remediate", status)
              /\ Memory(remedies, Statuses)'
              /\ EffectsStand \/ \E m : Undoes(a, m)
<1> DEFINE key == proposal[a].remedyKey
<1>1. Memory(remedies, Statuses)
  BY DEF ConnectorInv, ConnectorType
<1>2. CASE key \in DOMAIN remedies
  <2>1. /\ replies' = Sent(replies, a, "remediate",
                           IF Foreign(remedies, key, a) THEN "refused"
                           ELSE remedies[key].status)
        /\ EffectsStand /\ remedies' = remedies
    BY <1>2 DEF Remedy, EffectsStand
  <2>2. CASE Foreign(remedies, key, a)
    <3>1. replies' = Sent(replies, a, "remediate", "refused")
      BY <2>1, <2>2
    <3> QED
      BY <1>1, <2>1, <3>1 DEF Statuses, Memory
  <2>3. CASE ~Foreign(remedies, key, a)
    <3>1. replies' = Sent(replies, a, "remediate", remedies[key].status)
      BY <2>1, <2>3
    <3>2. remedies[key].status \in Statuses
      BY <1>1, <1>2 DEF Memory
    <3> QED
      BY <1>1, <2>1, <3>1, <3>2 DEF Memory
  <2> QED
    BY <2>2, <2>3
<1>3. CASE key \notin DOMAIN remedies
  <2>1. PICK fault \in RemedyFaults :
           LET status ==
                   CASE fault = "remedy-lost-response-before-commit" -> "no_effect"
                     [] fault = "remedy-failure" -> "failed"
                     [] OTHER -> IF Undoable(a) THEN "remediated"
                                 ELSE IF product = "refund" THEN "no_change"
                                 ELSE "failed"
               undone == status = "remediated"
           IN /\ effects' = IF undone THEN [effects EXCEPT ![Max(Own(a))].live = FALSE]
                            ELSE effects
              /\ stock' = IF undone THEN Restocked(stock) ELSE stock
              /\ remedies' = Remember(remedies, key, a, status)
              /\ replies' = Sent(replies, a, "remediate",
                    IF \/ fault = "remedy-lost-response-before-commit"
                       \/ undone /\ fault = "remedy-lost-response-after-commit"
                    THEN "lost" ELSE status)
    BY <1>3 DEF Remedy
  <2>2. UNCHANGED <<product, proposal, executions>>
    BY <1>3 DEF Remedy
  <2> DEFINE status ==
                IF fault = "remedy-lost-response-before-commit" THEN "no_effect"
                ELSE IF fault = "remedy-failure" THEN "failed"
                ELSE IF Undoable(a) THEN "remediated"
                ELSE IF product = "refund" THEN "no_change" ELSE "failed"
             said == IF \/ fault = "remedy-lost-response-before-commit"
                        \/ /\ status = "remediated"
                           /\ fault = "remedy-lost-response-after-commit"
                     THEN "lost" ELSE status
  <2>3. /\ effects' = IF status = "remediated"
                      THEN [effects EXCEPT ![Max(Own(a))].live = FALSE] ELSE effects
        /\ stock' = IF status = "remediated" THEN Restocked(stock) ELSE stock
        /\ remedies' = Remember(remedies, key, a, status)
        /\ replies' = Sent(replies, a, "remediate", said)
    BY <2>1
  <2>4. status \in Statuses /\ said \in Statuses /\ (status = "remediated" => Undoable(a))
    BY DEF Statuses
  <2> HIDE DEF status, said
  <2>5. Memory(remedies, Statuses)'
    BY <1>1, <2>3, <2>4 DEF Memory, Remember
  <2>6. CASE status = "remediated"
    <3>1. Cardinality(Own(a)) >= 1
      <4>1. IsFiniteSet(Own(a))
        BY FiniteEffects DEF Own, Live, ConnectorInv, ConnectorType
      <4>2. Cardinality(Own(a)) \in Nat
        BY <4>1, FS_CardinalityType
      <4> QED
        BY <2>4, <2>6, <4>2 DEF Undoable
    <3>2. Own(a) # {}
      <4>1. Cardinality({}) = 0
        BY FS_EmptySet
      <4> QED
        BY <3>1, <4>1
    <3>3. Max(Own(a)) \in Made(a) \cap Standing
      BY <3>2, OwnMade
    <3> DEFINE m == Max(Own(a))
    <3>4. Undoes(a, m)
      BY <2>2, <2>3, <2>6, <3>3 DEF Undoes
    <3> HIDE DEF m
    <3> QED
      BY <2>3, <2>4, <2>5, <3>4
  <2>7. CASE status # "remediated"
    <3>1. EffectsStand
      BY <2>2, <2>3, <2>7 DEF EffectsStand
    <3> QED
      BY <2>3, <2>4, <2>5, <3>1
  <2> QED
    BY <2>6, <2>7
<1> QED
  BY <1>2, <1>3

(* remediate(): disputed for want of recourse, or asked of the connector.  *)
LEMMA CallRemediateKeeps ==
    ASSUME Inv, ConnectorInv, NEW a \in Action, CallRemediate(a)
    PROVE  ConnectorInv'
<1> DEFINE c == actions[a]
           d == actions'[a]
<1>1. /\ c.state = "REMEDY_DUE"
      /\ \/ d.awaiting = c.awaiting
         \/ Asks(c, d, "remediate") /\ d.remedy_calls # 0
  BY RemediateAwaits DEF CallRemediate
<1>2. /\ Handler(a) /\ c.state \notin Deciding /\ "remediate" \in Operations
      /\ Acted(c)
  BY <1>1 DEF CallRemediate, Handler, Deciding, Operations, Acted, Unasked
<1>3. c.awaiting \in [Operations -> Nat]
  BY DEF Inv, TypeOK, Slice
<1>4. CASE d.awaiting = c.awaiting
  <2>1. ~Calls(a, "remediate")
    BY <1>2, <1>3, <1>4 DEF Calls
  <2> QED
    BY <1>2, <1>4, <2>1, QuietlyKeeps DEF CallRemediate
<1>5. CASE Asks(c, d, "remediate") /\ d.remedy_calls # 0
  <2>1. Calls(a, "remediate")
    BY <1>2, <1>3, <1>5 DEF Asks, Calls
  <2>2. Remedy(a)
    BY <2>1 DEF CallRemediate
  <2>3. Concluded(a) /\ Bound(a) /\ Truthful(a)
    BY <1>2 DEF ConnectorInv, Concluded
  <2>4. PICK status \in Statuses :
           /\ replies' = Sent(replies, a, "remediate", status)
           /\ Memory(remedies, Statuses)'
           /\ EffectsStand \/ \E m : Undoes(a, m)
    BY <2>2, <2>3, RemedyUndoes
  <2>5. /\ Exchanges(a, "remediate", status)
        /\ Tells(a, "remediate", status) /\ Tells(a, "remediate", status)'
    BY <1>5, <2>4 DEF Exchanges, Tells
  <2>6. CASE EffectsStand
    BY <1>2, <2>4, <2>5, <2>6, UndecidedKeeps
  <2>7. ASSUME NEW m, Undoes(a, m) PROVE ConnectorInv'
    <3>1. /\ \A b : Made(b)' = Made(b)
          /\ \A b \in Action : b # a => Undisturbed(b)
          /\ \A b : /\ Bound(b) => Bound(b)'
                    /\ \A s : Says(b, s) => Says(b, s)'
          /\ Remembered' /\ Labelled' /\ StockConserved'
          /\ effects' \in Seq(Effect) /\ stock' \in Nat
      BY <2>7, UndoesEffects
    <3>2. Steps(a) /\ Quieter(c, d) /\ Inv'
      BY <1>2, HandlerClaims, NextInv DEF Decides, Next
    <3>3. executions' = executions
      BY <2>7 DEF Undoes
    <3>4. ASSUME NEW o \in Operations, NEW s \in Underway(a, o)
          PROVE  Tells(a, o, s)'
      <4>1. Tells(a, o, s)
        BY <2>3, <3>4 DEF Truthful
      <4>2. o # "observe"
        <5>1. replies[a][o] \in Seq(Replied) /\ Len(replies[a][o]) = c.awaiting[o]
          BY DEF ConnectorInv, ConnectorType, Replies, Linked
        <5>2. DOMAIN replies[a][o] # {}
          BY <3>4 DEF Underway
        <5>3. c.awaiting[o] # 0
          BY <5>1, <5>2
        <5> QED
          BY <1>1, <1>3, <5>3, AwaitedStates
      <4> QED
        BY <3>1, <4>1, <4>2 DEF Tells
    <3>5. Concluded(a)'
      <4>1. /\ d.state \notin Unasked
            /\ d.state \in Unasked \cup {"EXECUTING"} => d.execution # "no_effect"
            /\ ~Settles(d)
        BY <1>1, <2>3, <3>2 DEF Quieter, Concluded, Settles, Unasked
      <4>2. /\ Acted(d) => Bound(a)'
            /\ Counts(d) => Says(a, "executed")'
            /\ Absent(d) => Made(a)' = {}
        BY <2>3, <3>1, <3>2 DEF Quieter, Concluded
      <4> QED
        BY <1>5, <4>1, <4>2 DEF Concluded
    <3>6. /\ replies' \in Replies
          /\ \A b \in Action : Linked(b)' /\ Truthful(b)' /\ Concluded(b)'
      BY <1>2, <2>4, <2>5, <3>1, <3>2, <3>4, <3>5, RepliesKeep
    <3>7. ConnectorType'
      BY <2>4, <2>7, <3>1, <3>6 DEF ConnectorInv, ConnectorType, Undoes, Memory
    <3> QED
      BY <3>1, <3>6, <3>7 DEF ConnectorInv
  <2> QED
    BY <2>4, <2>6, <2>7
<1> QED
  BY <1>1, <1>4, <1>5

-------------------------------------------------------------------------------
(* The theorems. *)

(* No effect is made, nothing is remembered and nothing asked at the start. *)
LEMMA InitConnector == ConnectorInit => ConnectorInv
<1> SUFFICES ASSUME ConnectorInit PROVE ConnectorInv
  OBVIOUS
<1>1. /\ effects = <<>> /\ stock = Baseline /\ product \in Products
      /\ executions = <<>> /\ remedies = <<>>
      /\ replies = [a \in Action |-> [op \in Operations |-> <<>>]]
  BY DEF ConnectorInit
<1>2. proposal \in [Action -> Proposal]
  BY DEF ConnectorInit, Proposal
<1>3. DOMAIN effects = {} /\ DOMAIN executions = {} /\ DOMAIN remedies = {}
  BY <1>1
<1>4. /\ effects \in Seq(Effect) /\ stock \in Nat
      /\ Memory(executions, {"executed", "no_effect"}) /\ Memory(remedies, Statuses)
  BY <1>1, <1>3, ConnectorAssumption DEF Memory
<1>5. replies \in Replies
  <2>1. <<>> \in Seq(Replied)
    OBVIOUS
  <2> QED
    BY <1>1, <2>1 DEF Replies
<1>6. ConnectorType
  BY <1>1, <1>2, <1>4, <1>5 DEF ConnectorType
<1>7. /\ Remembered /\ Labelled
      /\ \A a : Made(a) = {} /\ StillLive(a) = {}
  BY <1>3 DEF Remembered, Labelled, Made, StillLive
<1>8. StockConserved
  <2>1. {i \in DOMAIN effects : effects[i].live} = {}
    BY <1>3
  <2>2. Cardinality({}) = 0 /\ Baseline \in Nat
    BY FS_EmptySet, ConnectorAssumption
  <2> QED
    BY <1>1, <2>1, <2>2 DEF StockConserved
<1>9. ASSUME NEW a \in Action
      PROVE  Linked(a) /\ Truthful(a) /\ Concluded(a)
  <2>1. actions[a] = Unregistered
    BY DEF ConnectorInit, Init
  <2>2. \A op \in Operations : replies[a][op] = <<>> /\ Unregistered.awaiting[op] = 0
    BY <1>1 DEF Unregistered
  <2>3. Linked(a) /\ Truthful(a)
    BY <2>1, <2>2 DEF Linked, Truthful, Underway
  <2>4. /\ Unregistered.state = "UNREGISTERED" /\ Unregistered.execution = "none"
        /\ Unregistered.events = <<>>
    BY DEF Unregistered
  <2>5. ~Acted(actions[a]) /\ ~Counts(actions[a]) /\ ~Absent(actions[a]) /\ ~Settles(actions[a])
    BY <2>1, <2>4 DEF Acted, Counts, Absent, Settles, Entries, Moves, Unasked
  <2>6. Concluded(a)
    BY <1>3, <1>7, <2>1, <2>4, <2>5 DEF Concluded
  <2> QED
    BY <2>3, <2>6
<1> QED
  BY <1>6, <1>7, <1>8, <1>9 DEF ConnectorInv

(* A step of the rail with its connector is a step of the rail.            *)
LEMMA RailStep ==
    [ConnectorNext]_<<vars, cvars>> => [Next]_vars
  BY DEF ConnectorNext, Next, Handler, Quietly, CallExecute, DeliverExecute,
         CallStatus, DeliverStatus, CallObserve, DeliverObserve, CallRemediate,
         DeliverRemediate, CallRemedyStatus, DeliverRemedyStatus,
         DeliverObserveRemedy, ReservationExpires, TimePasses

(* Every step keeps the rail's view of an effect and the connector's       *)
(* together.                                                               *)
LEMMA NextConnector ==
    Inv /\ RecordInv /\ ConnectorInv /\ [ConnectorNext]_<<vars, cvars>>
        => ConnectorInv'
<1> SUFFICES ASSUME Inv, RecordInv, ConnectorInv, [ConnectorNext]_<<vars, cvars>>
             PROVE  ConnectorInv'
  OBVIOUS
<1>1. ASSUME NEW a \in Action, Quietly(a) PROVE ConnectorInv'
  <2>1. \/ Propose(a) \/ Authorize(a) \/ ReserveRecourse(a) \/ IssuePermit(a)
    BY <1>1 DEF Quietly
  <2>2. /\ actions[a].state \in Unasked
        /\ actions'[a].awaiting = actions[a].awaiting
    BY <2>1, QuietlyAwaits
  <2>3. Handler(a) /\ actions[a].state \notin Deciding
    BY <2>1, <2>2 DEF Handler, Unasked, Deciding
  <2> QED
    BY <1>1, <2>2, <2>3, QuietlyKeeps DEF Quietly
<1>2. ASSUME NEW a \in Action,
             \/ CallExecute(a) \/ DeliverExecute(a)
             \/ CallStatus(a) \/ DeliverStatus(a)
             \/ CallObserve(a) \/ DeliverObserve(a)
      PROVE  ConnectorInv'
  BY <1>2, CallExecuteKeeps, DeliverExecuteKeeps, CallStatusKeeps,
     DeliverStatusKeeps, CallObserveKeeps, DeliverObserveKeeps
<1>3. ASSUME NEW a \in Action,
             \/ CallRemediate(a) \/ DeliverRemediate(a)
             \/ CallRemedyStatus(a) \/ DeliverRemedyStatus(a)
             \/ DeliverObserveRemedy(a)
      PROVE  ConnectorInv'
  BY <1>3, CallRemediateKeeps, CallRemedyStatusKeeps, DeliverRemedyKeeps
<1>4. CASE \/ \E a \in Action : ReservationExpires(a)
           \/ TimePasses
           \/ UNCHANGED <<vars, cvars>>
  BY <1>4, IdleKeeps
<1> QED
  BY <1>1, <1>2, <1>3, <1>4 DEF ConnectorNext

(* The invariant holds in every behaviour of the rail with a connector.    *)
LEMMA ConnectorInvariant == ConnectorSpec => [](Inv /\ RecordInv /\ ConnectorInv)
<1>1. ConnectorInit => Inv /\ RecordInv /\ ConnectorInv
  BY InitInv, InitRecord, InitConnector DEF ConnectorInit
<1>2. Inv /\ RecordInv /\ ConnectorInv /\ [ConnectorNext]_<<vars, cvars>>
         => (Inv /\ RecordInv /\ ConnectorInv)'
  BY NextInv, NextRecord, NextConnector, RailStep
<1> QED
  BY <1>1, <1>2, PTL DEF ConnectorSpec

(* Units are on hand or allocated, never lost, never put back twice, never *)
(* below zero: whatever is asked twice, refused half way or undone.        *)
THEOREM StockIsConserved == ConnectorSpec => []StockConserved
<1>1. ConnectorInv => StockConserved
  BY DEF ConnectorInv
<1> QED
  BY <1>1, ConnectorInvariant, PTL

(* The rail never takes another action's result, remembered under a key    *)
(* they share, for an execution of its own: what it counts as executed has *)
(* an effect.                                                              *)
THEOREM EffectConfirmed == ConnectorSpec => []ConfirmedHasEffect
<1>1. ConnectorInv => ConfirmedHasEffect
  <2> SUFFICES ASSUME ConnectorInv, NEW a \in Action,
                      Entries(actions[a], "EXECUTED") # {}
               PROVE  Made(a) # {}
    BY DEF ConfirmedHasEffect
  <2>1. Says(a, "executed")
    BY DEF ConnectorInv, Concluded, Counts
  <2> QED
    BY <2>1 DEF Says, Bound, ConnectorInv, Remembered
<1> QED
  BY <1>1, ConnectorInvariant, PTL

(* Where recourse is given back because nothing happened, nothing did.     *)
THEOREM NothingWithdrawnStands == ConnectorSpec => []WithdrawnLeavesNoEffect
<1>1. ConnectorInv => WithdrawnLeavesNoEffect
  <2> SUFFICES ASSUME ConnectorInv, NEW a \in Action,
                      \/ actions[a].state \in {"EXPIRED", "REVOKED"}
                      \/ Absent(actions[a])
               PROVE  Made(a) = {}
    BY DEF WithdrawnLeavesNoEffect, Absent
  <2>1. Concluded(a)
    BY DEF ConnectorInv
  <2> QED
    BY <2>1 DEF Concluded, Unasked
<1> QED
  BY <1>1, ConnectorInvariant, PTL

(* An action its evidence settled keeps the one effect it was settled for, *)
(* whatever remedy another action on the same order runs.                  *)
THEOREM SettlementStands == ConnectorSpec => []SettledStands
<1>1. RecordInv /\ ConnectorInv => SettledStands
  <2> SUFFICES ASSUME RecordInv, ConnectorInv, NEW a \in Action, Exportable(actions[a]),
                      actions[a].receipt[1].outcome = "settled"
               PROVE  Cardinality(StillLive(a)) = 1
    BY DEF SettledStands
  <2>1. Settles(actions[a])
    BY DEF Exportable, Settles, RecordInv, Faithful, Receipted
  <2> QED
    BY <2>1 DEF ConnectorInv, Concluded
<1> QED
  BY <1>1, ConnectorInvariant, PTL

-------------------------------------------------------------------------------
(* The connector does not contradict itself about a remedy. *)

\* The result of a's remedy key, whoever it was first used for.
Known(a) == proposal[a].remedyKey \in DOMAIN remedies

KnownAs(a, status) ==
    Known(a) /\ remedies[proposal[a].remedyKey].status = status

\* Every status of the remedy on its way is the one remembered, and if one is
\* when the remedy is verified, that remedy was done.
Agreed(a) ==
    LET c == actions[a]
    IN /\ c.state \in {"REMEDIATING", "REMEDY_UNKNOWN"} => Known(a)
       /\ \A status \in Underway(a, "reconcileRemedy") : KnownAs(a, status)
       /\ c.state = "REMEDY_VERIFYING" /\ c.awaiting["reconcileRemedy"] > 0 =>
             KnownAs(a, "remediated")
       /\ Observing(c)

AgreedInv == \A a \in Action : Agreed(a)

(* What is remembered of a remedy stays.                                   *)
LEMMA RemediesStay ==
    ASSUME [ConnectorNext]_<<vars, cvars>>
    PROVE  \A a, status : KnownAs(a, status) => KnownAs(a, status)'
<1>1. /\ proposal' = proposal
      /\ \/ remedies' = remedies
         \/ \E a, status : /\ proposal[a].remedyKey \notin DOMAIN remedies
                           /\ remedies' = Remember(remedies, proposal[a].remedyKey, a, status)
  <2>1. ASSUME NEW a \in Action, CallExecute(a)
        PROVE  proposal' = proposal /\ remedies' = remedies
    BY <2>1 DEF CallExecute, Execution, cvars
  <2>2. ASSUME NEW a \in Action, CallRemediate(a)
        PROVE  /\ proposal' = proposal
               /\ \/ remedies' = remedies
                  \/ \E status : /\ proposal[a].remedyKey \notin DOMAIN remedies
                                 /\ remedies' = Remember(remedies, proposal[a].remedyKey, a, status)
    <3>1. CASE UNCHANGED cvars
      BY <3>1 DEF cvars
    <3>2. CASE Remedy(a) /\ proposal[a].remedyKey \in DOMAIN remedies
      BY <3>2 DEF Remedy
    <3>3. CASE Remedy(a) /\ proposal[a].remedyKey \notin DOMAIN remedies
      BY <3>3 DEF Remedy
    <3> QED
      BY <2>2, <3>1, <3>2, <3>3 DEF CallRemediate
  <2>3. ASSUME NEW a \in Action,
               \/ Quietly(a) \/ CallStatus(a) \/ CallObserve(a) \/ CallRemedyStatus(a)
               \/ DeliverExecute(a) \/ DeliverStatus(a) \/ DeliverObserve(a)
               \/ DeliverRemediate(a) \/ DeliverRemedyStatus(a) \/ DeliverObserveRemedy(a)
               \/ ReservationExpires(a)
        PROVE  proposal' = proposal /\ remedies' = remedies
    BY <2>3 DEF Quietly, CallStatus, CallObserve, CallRemedyStatus, DeliverExecute,
                DeliverStatus, DeliverObserve, DeliverRemediate, DeliverRemedyStatus,
                DeliverObserveRemedy, ReservationExpires, Delivered, cvars
  <2> QED
    BY <2>1, <2>2, <2>3 DEF ConnectorNext, TimePasses, cvars
<1>2. CASE remedies' = remedies
  BY <1>1, <1>2 DEF KnownAs, Known
<1>3. ASSUME NEW b, NEW s, proposal[b].remedyKey \notin DOMAIN remedies,
             remedies' = Remember(remedies, proposal[b].remedyKey, b, s)
      PROVE  \A a, status : KnownAs(a, status) => KnownAs(a, status)'
  <2>1. \A k \in DOMAIN remedies : k \in DOMAIN remedies' /\ remedies'[k] = remedies[k]
    BY <1>3 DEF Remember
  <2> QED
    BY <1>1, <2>1 DEF KnownAs, Known
<1> QED
  BY <1>1, <1>2, <1>3

(* A call of remediate() leaves a result under its key.                    *)
LEMMA RemedyKnown ==
    ASSUME NEW a, Remedy(a)
    PROVE  Known(a)'
<1> DEFINE key == proposal[a].remedyKey
<1>1. proposal' = proposal
  BY DEF Remedy
<1>2. CASE key \in DOMAIN remedies
  BY <1>1, <1>2 DEF Remedy, Known
<1>3. CASE key \notin DOMAIN remedies
  <2>1. PICK status : remedies' = Remember(remedies, key, a, status)
    BY <1>3 DEF Remedy
  <2> QED
    BY <1>1, <2>1 DEF Remember, Known
<1> QED
  BY <1>2, <1>3

(* Which steps ask for a remedy, and which hear of its status.             *)
LEMMA RemedyCalls ==
    ASSUME Inv, RecordInv, [ConnectorNext]_<<vars, cvars>>, NEW b \in Action
    PROVE  LET c == actions[b]
               d == actions'[b]
           IN /\ d.awaiting["remediate"] > c.awaiting["remediate"] => Known(b)'
              /\ d.awaiting["reconcileRemedy"] < c.awaiting["reconcileRemedy"] =>
                    DeliverRemedyStatus(b)
              /\ d.awaiting["reconcileRemedy"] > c.awaiting["reconcileRemedy"] =>
                    c.state = "REMEDY_UNKNOWN" /\ d.state = c.state
<1> DEFINE c == actions[b]
           d == actions'[b]
           ops == {"remediate", "reconcileRemedy"}
<1>1. /\ c.awaiting \in [Operations -> Nat] /\ actions \in [Action -> Slice]
      /\ ops \subseteq Operations /\ "observeRemedy" \in Operations
      /\ {"execute", "observe", "reconcile"} \subseteq Operations
  BY DEF Inv, TypeOK, Slice, Operations
<1>2. ASSUME \A op \in ops : d.awaiting[op] = c.awaiting[op]
      PROVE  /\ ~(d.awaiting["remediate"] > c.awaiting["remediate"])
             /\ ~(d.awaiting["reconcileRemedy"] < c.awaiting["reconcileRemedy"])
             /\ ~(d.awaiting["reconcileRemedy"] > c.awaiting["reconcileRemedy"])
  BY <1>1, <1>2
<1>3. ASSUME NEW a \in Action, Handler(a), a # b
      PROVE  d = c
  <2>1. actions' = [actions EXCEPT ![a] = actions'[a]]
    BY <1>3, HandlerSegment DEF Segment
  <2> QED
    BY <1>1, <1>3, <2>1
<1>4. CASE Quietly(b)
  <2>1. d.awaiting = c.awaiting
    BY <1>4, QuietlyAwaits DEF Quietly
  <2> QED
    BY <1>2, <2>1
<1>5. ASSUME NEW op \in {"execute", "observe", "reconcile", "observeRemedy"},
             d.awaiting = c.awaiting \/ Asks(c, d, op) \/ Gets(c, d, op)
      PROVE  \A p \in ops : d.awaiting[p] = c.awaiting[p]
  BY <1>1, <1>5 DEF Asks, Gets
<1>6. ASSUME \/ CallExecute(b) \/ CallStatus(b) \/ CallObserve(b)
             \/ DeliverExecute(b) \/ DeliverStatus(b) \/ DeliverObserve(b)
             \/ DeliverObserveRemedy(b)
      PROVE  \A p \in ops : d.awaiting[p] = c.awaiting[p]
  <2>1. CASE CallExecute(b)
    BY <1>5, <2>1, ExecuteAwaits DEF CallExecute
  <2>2. CASE CallStatus(b) \/ CallObserve(b)
    BY <1>5, <2>2, ReadAwaits DEF CallStatus, CallObserve
  <2>3. CASE DeliverExecute(b)
    BY <1>5, <2>3, ExecuteAnsweredGets DEF DeliverExecute
  <2>4. CASE DeliverStatus(b)
    BY <1>5, <2>4, ReconcileAnsweredGets DEF DeliverStatus
  <2>5. CASE DeliverObserve(b)
    BY <1>5, <2>5, OutcomeObservedGets DEF DeliverObserve
  <2>6. CASE DeliverObserveRemedy(b)
    BY <1>5, <2>6, RemedyObservedGets DEF DeliverObserveRemedy
  <2> QED
    BY <1>6, <2>1, <2>2, <2>3, <2>4, <2>5, <2>6
<1>7. CASE CallRemediate(b)
  <2>1. d.awaiting = c.awaiting \/ Asks(c, d, "remediate")
    BY <1>7, RemediateAwaits DEF CallRemediate
  <2>2. CASE d.awaiting = c.awaiting
    BY <1>2, <2>2
  <2>3. CASE Asks(c, d, "remediate")
    <3>1. /\ d.awaiting["remediate"] = c.awaiting["remediate"] + 1
          /\ d.awaiting["reconcileRemedy"] = c.awaiting["reconcileRemedy"]
      BY <1>1, <2>3 DEF Asks
    <3>2. Calls(b, "remediate")
      BY <1>1, <3>1 DEF Calls
    <3>3. Known(b)'
      BY <1>7, <3>2, RemedyKnown DEF CallRemediate
    <3> QED
      BY <1>1, <3>1, <3>3
  <2> QED
    BY <2>1, <2>2, <2>3
<1>8. CASE DeliverRemediate(b)
  <2>1. Gets(c, d, "remediate") \/ Turns(c, d, "remediate")
    BY <1>8, RemediateAnsweredGets DEF DeliverRemediate
  <2>2. /\ d.awaiting["remediate"] = c.awaiting["remediate"] - 1
        /\ d.awaiting["reconcileRemedy"] = c.awaiting["reconcileRemedy"]
    BY <1>1, <2>1 DEF Gets, Turns
  <2> QED
    BY <1>1, <2>2
<1>9. CASE CallRemedyStatus(b)
  <2>1. c.state = "REMEDY_UNKNOWN" /\ Asks(c, d, "reconcileRemedy")
    BY <1>9, ReadAwaits DEF CallRemedyStatus
  <2>2. /\ d.awaiting["remediate"] = c.awaiting["remediate"]
        /\ d.awaiting["reconcileRemedy"] = c.awaiting["reconcileRemedy"] + 1
    BY <1>1, <2>1 DEF Asks
  <2>3. d.state = c.state
    <3>1. actions' = [actions EXCEPT ![b] = Begin(c, "reconcileRemedy")] /\ c \in Slice
      BY <1>1, <1>9 DEF CallRemedyStatus, ReconcileRemedy
    <3> QED
      BY <1>1, <3>1, BeginStep
  <2> QED
    BY <1>1, <2>1, <2>2, <2>3
<1>10. CASE DeliverRemedyStatus(b)
  <2>1. Gets(c, d, "reconcileRemedy") \/ Turns(c, d, "reconcileRemedy")
    BY <1>10, ReconcileRemedyAnsweredGets DEF DeliverRemedyStatus
  <2>2. /\ d.awaiting["remediate"] = c.awaiting["remediate"]
        /\ d.awaiting["reconcileRemedy"] = c.awaiting["reconcileRemedy"] - 1
    BY <1>1, <2>1 DEF Gets, Turns
  <2> QED
    BY <1>1, <1>10, <2>2
<1>11. ASSUME NEW a \in Action, ReservationExpires(a)
       PROVE  d.awaiting = c.awaiting
  <2>1. PICK s \in Lapses : actions' = [actions EXCEPT ![a] = [actions[a] EXCEPT !.recourse = s]]
    BY <1>1, <1>11 DEF ReservationExpires, RecourseLapses
  <2>2. actions[a] \in Slice
    BY <1>1
  <2>3. [actions[a] EXCEPT !.recourse = s].awaiting = actions[a].awaiting
    BY <2>2 DEF Slice
  <2> QED
    BY <1>1, <2>1, <2>3
<1>12. CASE TimePasses \/ UNCHANGED <<vars, cvars>>
  BY <1>2, <1>12 DEF TimePasses, Tick, vars
<1>13. ASSUME NEW a \in Action, a # b,
              \/ Quietly(a)
              \/ CallExecute(a) \/ DeliverExecute(a)
              \/ CallStatus(a) \/ DeliverStatus(a)
              \/ CallObserve(a) \/ DeliverObserve(a)
              \/ CallRemediate(a) \/ DeliverRemediate(a)
              \/ CallRemedyStatus(a) \/ DeliverRemedyStatus(a)
              \/ DeliverObserveRemedy(a)
       PROVE  d = c
  <2>1. Handler(a)
    BY <1>13 DEF Handler, Quietly, CallExecute, DeliverExecute,
         CallStatus, DeliverStatus, CallObserve, DeliverObserve, CallRemediate,
         DeliverRemediate, CallRemedyStatus, DeliverRemedyStatus, DeliverObserveRemedy
  <2> QED
    BY <1>3, <1>13, <2>1
<1> QED
  BY <1>2, <1>4, <1>6, <1>7, <1>8, <1>9, <1>10, <1>11, <1>12, <1>13 DEF ConnectorNext

(* An answer to another call, or of another action, changes no list.       *)
LEMMA SentElsewhere ==
    ASSUME NEW q \in Replies, NEW a \in Action, NEW op, NEW status,
           NEW b \in Action, NEW p \in Operations, a # b \/ op # p
    PROVE  Sent(q, a, op, status)[b][p] = q[b][p]
  BY DEF Sent, Replies

(* A taken answer leaves the others.                                       *)
LEMMA TakenOld ==
    ASSUME NEW q \in Replies, NEW a \in Action, NEW op \in Operations,
           Len(q[a][op]) > 0, NEW b \in Action, NEW p \in Operations
    PROVE  OnlyOld(Taken(q, a, op)[b][p], q[b][p]) /\ Taken(q, a, op) \in Replies
<1>1. /\ Taken(q, a, op) \in Replies
      /\ \A c \in Action : c # a => Taken(q, a, op)[c] = q[c]
      /\ \A o \in Operations : OnlyOld(Taken(q, a, op)[a][o], q[a][o])
  BY TakenStep
<1>2. OnlyOld(q[b][p], q[b][p])
  BY DEF OnlyOld
<1> QED
  BY <1>1, <1>2

(* A delivery adds no status of a remedy.                                  *)
LEMMA DeliveredOld ==
    ASSUME Inv, ConnectorInv, NEW a \in Action, NEW op \in Operations,
           actions[a].awaiting[op] > 0, Delivered(a, op), NEW b \in Action
    PROVE  OnlyOld(replies'[b]["reconcileRemedy"], replies[b]["reconcileRemedy"])
<1> DEFINE s == Taken(replies, a, op)
           p == "reconcileRemedy"
<1>1. replies \in Replies /\ Len(replies[a][op]) > 0 /\ p \in Operations
  BY DEF ConnectorInv, ConnectorType, Linked, Operations
<1>2. s \in Replies /\ OnlyOld(s[b][p], replies[b][p])
  BY <1>1, TakenOld
<1>3. replies' = s \/ \E status : replies' = Sent(s, a, "observeRemedy", status)
  BY DEF Delivered
<1> HIDE DEF s
<1>4. \A status : Sent(s, a, "observeRemedy", status)[b][p] = s[b][p]
  BY <1>1, <1>2, SentElsewhere
<1> QED
  BY <1>2, <1>3, <1>4

(* A status of a remedy is sent as it is remembered.                       *)
LEMMA RemedyStatuses ==
    ASSUME Inv, RecordInv, ConnectorInv, [ConnectorNext]_<<vars, cvars>>, NEW b \in Action,
           actions[b].state = "REMEDY_UNKNOWN" => Known(b),
           NEW status \in Underway(b, "reconcileRemedy")'
    PROVE  status \in Underway(b, "reconcileRemedy") \/ KnownAs(b, status)
<1> DEFINE p == "reconcileRemedy"
           u == replies'[b][p]
           s == replies[b][p]
<1>1. replies \in Replies /\ p \in Operations
      /\ {"execute", "observe", "reconcile", "remediate", "observeRemedy"} \subseteq Operations
  BY DEF ConnectorInv, ConnectorType, Operations
<1>2. PICK i \in DOMAIN u : status = u[i].status
  BY DEF Underway
<1>3. ASSUME OnlyOld(u, s)
      PROVE  status \in Underway(b, p)
  BY <1>2, <1>3 DEF OnlyOld, Underway
<1>4. u = s => OnlyOld(u, s)
  BY DEF OnlyOld
<1>5. ASSUME NEW a \in Action, NEW op, NEW said, replies' = Sent(replies, a, op, said),
             a # b \/ op # p
      PROVE  OnlyOld(u, s)
  BY <1>1, <1>4, <1>5, SentElsewhere
<1>6. ASSUME NEW a \in Action, CallExecute(a)
      PROVE  OnlyOld(u, s)
  <2>1. UNCHANGED cvars \/ \E said : replies' = Sent(replies, a, "execute", said)
    BY <1>6 DEF CallExecute, Execution
  <2> QED
    BY <1>4, <1>5, <2>1 DEF cvars
<1>7. ASSUME NEW a \in Action, CallRemediate(a)
      PROVE  OnlyOld(u, s)
  <2>1. UNCHANGED cvars \/ \E said : replies' = Sent(replies, a, "remediate", said)
    BY <1>7 DEF CallRemediate, Remedy
  <2> QED
    BY <1>4, <1>5, <2>1 DEF cvars
<1>8. ASSUME NEW a \in Action, CallStatus(a) \/ CallObserve(a)
      PROVE  OnlyOld(u, s)
  <2>1. \E said : \/ replies' = Sent(replies, a, "reconcile", said)
                  \/ replies' = Sent(replies, a, "observe", said)
    BY <1>8 DEF CallStatus, CallObserve
  <2> QED
    BY <1>5, <2>1
<1>9. ASSUME NEW a \in Action,
             \/ DeliverExecute(a) \/ DeliverStatus(a) \/ DeliverObserve(a)
             \/ DeliverRemediate(a) \/ DeliverRemedyStatus(a) \/ DeliverObserveRemedy(a)
      PROVE  OnlyOld(u, s)
  <2>1. \E op \in Operations : actions[a].awaiting[op] > 0 /\ Delivered(a, op)
    <3>1. CASE DeliverExecute(a)
      BY <1>1, <3>1, ExecuteAnsweredGets DEF DeliverExecute
    <3>2. CASE DeliverStatus(a)
      BY <1>1, <3>2 DEF DeliverStatus, ReconcileAnswered
    <3>3. CASE DeliverObserve(a)
      BY <1>1, <3>3 DEF DeliverObserve, OutcomeObserved
    <3>4. CASE DeliverRemediate(a)
      BY <1>1, <3>4, RemediateAnsweredGets DEF DeliverRemediate
    <3>5. CASE DeliverRemedyStatus(a)
      BY <1>1, <3>5, ReconcileRemedyAnsweredGets DEF DeliverRemedyStatus
    <3>6. CASE DeliverObserveRemedy(a)
      BY <1>1, <3>6, RemedyObservedGets DEF DeliverObserveRemedy
    <3> QED
      BY <1>9, <3>1, <3>2, <3>3, <3>4, <3>5, <3>6
  <2> QED
    BY <2>1, DeliveredOld
<1>10. ASSUME NEW a \in Action, CallRemedyStatus(a)
       PROVE  status \in Underway(b, p) \/ KnownAs(b, status)
  <2> DEFINE said == Recall(remedies, proposal[a].remedyKey)
  <2>1. replies' = Sent(replies, a, p, said)
    BY <1>10 DEF CallRemedyStatus
  <2>2. CASE a # b
    BY <1>3, <1>5, <2>1, <2>2
  <2>3. CASE a = b
    <3>1. Known(b)
      BY <1>10, <2>3, ReadAwaits DEF CallRemedyStatus
    <3>2. KnownAs(b, said)
      BY <2>3, <3>1 DEF KnownAs, Known, Recall
    <3>3. said \in Statuses /\ now' \in Nat
      <4>1. said \in Statuses
        BY DEF Recall, ConnectorInv, ConnectorType, Memory, Statuses
      <4>2. Inv'
        BY NextInv, RailStep
      <4> QED
        BY <4>1, <4>2, ClockAssumption DEF Inv, TypeOK
    <3>4. replies' = Added(replies, a, p, said, now')
      BY <2>1 DEF Sent, Reply, Added
    <3> HIDE DEF said
    <3>5. Among(u, s, said)
      BY <1>1, <2>3, <3>3, <3>4, SentStep
    <3>6. CASE status = said
      BY <3>2, <3>6
    <3>7. CASE \E j \in DOMAIN s : u[i] = s[j]
      BY <1>2, <3>7 DEF Underway
    <3> QED
      BY <1>2, <3>5, <3>6, <3>7 DEF Among
  <2> QED
    BY <2>2, <2>3
<1>11. ASSUME NEW a \in Action, Quietly(a) \/ ReservationExpires(a)
       PROVE  OnlyOld(u, s)
  BY <1>4, <1>11 DEF Quietly, ReservationExpires, cvars
<1>12. CASE TimePasses \/ UNCHANGED <<vars, cvars>>
  BY <1>3, <1>4, <1>12 DEF TimePasses, cvars
<1> QED
  BY <1>3, <1>6, <1>7, <1>8, <1>9, <1>10, <1>11, <1>12 DEF ConnectorNext

(* What a step does to an action whose remedy is asked for or verified:    *)
(* while no status read makes it leave REMEDY_VERIFYING, its observation   *)
(* is awaited there only, and nothing is left to move it once it closed.   *)
LEMMA GoesObserving ==
    ASSUME ~Failures, NEW c, Good(c), Faithful(c), Observing(c), NEW d, NEW t, Goes(c, d, t),
           c.state = "REMEDY_VERIFYING"
              /\ d.awaiting["reconcileRemedy"] < c.awaiting["reconcileRemedy"]
           => d.state = c.state
    PROVE  /\ Observing(d)
           /\ Exportable(c) => /\ d.receipt = c.receipt
                               /\ d.events = c.events
                               /\ d.evidence = c.evidence
           /\ d.state = "REMEDIATING" =>
                 c.state = d.state \/ d.awaiting["remediate"] > c.awaiting["remediate"]
           /\ d.state = "REMEDY_UNKNOWN" => c.state \in {"REMEDIATING", "REMEDY_UNKNOWN"}
           /\ d.state = "REMEDY_VERIFYING" =>
                 \/ c.state \in {"REMEDIATING", "REMEDY_VERIFYING"}
                 \/ /\ c.state = "REMEDY_UNKNOWN"
                    /\ d.awaiting["reconcileRemedy"] < c.awaiting["reconcileRemedy"]
<1> DEFINE rest == "reconcileRemedy"
           Result == /\ Observing(d)
                     /\ Exportable(c) => /\ d.receipt = c.receipt
                                         /\ d.events = c.events
                                         /\ d.evidence = c.evidence
                     /\ d.state = "REMEDIATING" =>
                           c.state = d.state \/ d.awaiting["remediate"] > c.awaiting["remediate"]
                     /\ d.state = "REMEDY_UNKNOWN" => c.state \in {"REMEDIATING", "REMEDY_UNKNOWN"}
                     /\ d.state = "REMEDY_VERIFYING" =>
                           \/ c.state \in {"REMEDIATING", "REMEDY_VERIFYING"}
                           \/ c.state = "REMEDY_UNKNOWN" /\ d.awaiting[rest] < c.awaiting[rest]
<1>1. c \in Slice /\ (Exportable(c) => c.state = "CLOSED")
  BY DEF Faithful, Receipted, Exportable
<1>2. /\ c.awaiting \in [Operations -> Nat]
      /\ {"observe", "observeRemedy", "remediate", rest} \subseteq Operations
      /\ c.awaiting["remediate"] > 0 => c.state = "REMEDIATING"
      /\ c.awaiting["observe"] > 0 => c.state = "VERIFYING"
  BY <1>1 DEF Slice, Operations, Good, Resumable
<1>3. CASE Proposed(c, d, t) \/ Qualifies(c, d, t)
  <2>1. /\ d.awaiting = c.awaiting /\ c.state \in {"UNREGISTERED", "RECOURSE_RESERVED"}
        /\ d.state \in {"PROPOSED", "RECOURSE_RESERVED"}
    BY <1>3 DEF Proposed, Qualifies, Same, Fields, Unregistered
  <2> QED
    BY <1>1, <2>1 DEF Observing
<1>4. CASE Asked(c, d) \/ LapsesTo(c, d) \/ d = c
  <2>1. /\ d.state = c.state
        /\ d.receipt = c.receipt /\ d.events = c.events /\ d.evidence = c.evidence
    BY <1>4 DEF Asked, LapsesTo, Same, Fields, Unregistered
  <2>2. d.awaiting["observeRemedy"] = c.awaiting["observeRemedy"]
    <3>1. CASE Asked(c, d)
      <4>1. PICK op \in {"reconcile", "reconcileRemedy"} :
               d.awaiting = [c.awaiting EXCEPT ![op] = c.awaiting[op] + 1]
        BY <3>1 DEF Asked
      <4> QED
        BY <1>2, <4>1
    <3>2. CASE LapsesTo(c, d) \/ d = c
      BY <3>2 DEF LapsesTo, Same, Fields, Unregistered
    <3> QED
      BY <1>4, <3>1, <3>2
  <2> QED
    BY <2>1, <2>2 DEF Observing
<1>5. ASSUME NEW op, NEW answer, NEW n, Heard(c, n, op, answer, t),
             (d = n /\ Paused(op, n)) \/ Left(op, answer, n, d, t)
      PROVE  Result
  <2>1. /\ n \in Slice /\ op \in Answering /\ answer \in Definite
        /\ Hears(c, n, op, answer)
    BY <1>5, HeardHears DEF Heard
  <2>2. /\ n.state = c.state /\ n.receipt = c.receipt
        /\ answer # "none" => op \in {"remediate", rest}
        /\ op = "none" => n.awaiting = c.awaiting
        /\ op # "none" => /\ c.awaiting[op] > 0 /\ op \in Operations
                          /\ n.awaiting = [c.awaiting EXCEPT ![op] = c.awaiting[op] - 1]
        /\ \/ op \in {"observe", "observeRemedy"}
           \/ n.events = c.events /\ n.evidence = c.evidence
    BY <2>1 DEF Hears, Answering
  <2>3. /\ n.awaiting["observeRemedy"] <= c.awaiting["observeRemedy"]
        /\ n.awaiting["remediate"] <= c.awaiting["remediate"]
        /\ n.awaiting[rest] <= c.awaiting[rest]
        /\ op = "observeRemedy" => n.awaiting["observeRemedy"] = 0
        /\ op = rest => n.awaiting[rest] < c.awaiting[rest]
        /\ op # "remediate" => n.awaiting["remediate"] = c.awaiting["remediate"]
    <3>1. CASE op = "none"
      BY <1>2, <2>2, <3>1
    <3>2. CASE op # "none"
      <4>1. op = "observeRemedy" => c.awaiting["observeRemedy"] = 1
        BY <1>2, <2>2, <3>2 DEF Observing
      <4> QED
        BY <1>2, <2>2, <3>2, <4>1
    <3> QED
      BY <3>1, <3>2
  <2>4. /\ n.awaiting["observeRemedy"] \in Nat /\ n.awaiting["remediate"] \in Nat
        /\ n.awaiting[rest] \in Nat /\ n.awaiting \in [Operations -> Nat]
    BY <1>2, <2>1 DEF Slice
  <2>5. Observing(n)
    BY <1>2, <2>2, <2>3, <2>4 DEF Observing
  <2>6. ASSUME d = n
        PROVE  Result
    <3>1. Exportable(c) => op \notin {"observe", "observeRemedy"}
      BY <1>1, <1>2, <2>2 DEF Observing
    <3>2. d.state = c.state
      BY <2>2, <2>6
    <3> QED
      BY <2>2, <2>5, <2>6, <3>1, <3>2
  <2>7. ASSUME MovesOn(n, d, op, answer)
        PROVE  Result
    <3>1. PICK next \in States :
            /\ <<n.state, next>> \in ALLOWED_TRANSITIONS
            /\ Leaves(op, answer, n.state, next)
            /\ \/ d.state = next
               \/ d.state = "CLOSED"
               \/ next = "BREACHED" /\ d.state = "REMEDY_DUE"
            /\ d.awaiting = n.awaiting \/ Called(n, d)
            /\ Completed(n, d)
      BY <2>7 DEF MovesOn
    <3>2. /\ d.awaiting[rest] = n.awaiting[rest]
          /\ d.awaiting["observeRemedy"] # n.awaiting["observeRemedy"] =>
                /\ d.awaiting["observeRemedy"] = n.awaiting["observeRemedy"] + 1
                /\ d.state = "REMEDY_VERIFYING"
          /\ d.state = "REMEDIATING" => d.awaiting["remediate"] = n.awaiting["remediate"] + 1
      <4>1. CASE Called(n, d)
        <5> DEFINE call == CallOf(d.state)
        <5>1. /\ d.state \in WaitingStates
              /\ d.awaiting = [n.awaiting EXCEPT ![call] = n.awaiting[call] + 1]
          BY <4>1 DEF Called
        <5>2. /\ call = "observeRemedy" => d.state = "REMEDY_VERIFYING"
              /\ d.state = "REMEDIATING" => call = "remediate"
              /\ call # rest
          BY <5>1 DEF CallOf, WaitingStates
        <5> HIDE DEF call
        <5> QED
          BY <1>2, <2>4, <5>1, <5>2
      <4>2. CASE ~Called(n, d)
        BY <3>1, <4>2 DEF Completed, WaitingStates
      <4> QED
        BY <4>1, <4>2
    <3>3. d.state # n.state
      BY <3>1 DEF ALLOWED_TRANSITIONS
    <3>4. n.state = "REMEDY_VERIFYING" => op = "observeRemedy"
      <4>1. n.state = "REMEDY_VERIFYING" => op \in {"observeRemedy", rest}
        BY <3>1 DEF Leaves, WaitingStates, CallOf
      <4>2. n.state = "REMEDY_VERIFYING" => op # rest
        BY <2>2, <2>3, <3>2, <3>3
      <4> QED
        BY <4>1, <4>2
    <3>5. n.awaiting["observeRemedy"] = 0
      BY <2>3, <2>4, <2>5, <3>4 DEF Observing
    <3>6. Observing(d)
      BY <3>2, <3>5 DEF Observing
    <3>7. ~Exportable(c)
      BY <1>1, <2>2, <3>1 DEF ALLOWED_TRANSITIONS
    <3>8. d.state = "REMEDIATING" => d.awaiting["remediate"] > c.awaiting["remediate"]
      <4>1. ASSUME d.state = "REMEDIATING" PROVE c.state = "REMEDY_DUE"
        BY <2>2, <3>1, <4>1 DEF ALLOWED_TRANSITIONS
      <4>2. ASSUME d.state = "REMEDIATING" PROVE op # "remediate"
        BY <1>2, <2>2, <4>1, <4>2
      <4> QED
        BY <1>2, <2>3, <2>4, <3>2, <4>2
    <3>9. d.state = "REMEDY_UNKNOWN" => c.state = "REMEDIATING"
      BY <2>2, <3>1 DEF ALLOWED_TRANSITIONS
    <3>10. d.state = "REMEDY_VERIFYING" =>
              \/ c.state = "REMEDIATING"
              \/ c.state = "REMEDY_UNKNOWN" /\ d.awaiting[rest] < c.awaiting[rest]
      <4> SUFFICES ASSUME d.state = "REMEDY_VERIFYING", c.state # "REMEDIATING"
                   PROVE  c.state = "REMEDY_UNKNOWN" /\ d.awaiting[rest] < c.awaiting[rest]
        OBVIOUS
      <4>1. next = "REMEDY_VERIFYING" /\ c.state = "REMEDY_UNKNOWN"
        BY <2>2, <3>1 DEF ALLOWED_TRANSITIONS
      <4>2. op \in {"remediate", rest}
        BY <2>2, <3>1, <4>1 DEF Leaves
      <4>3. op = rest
        BY <1>2, <2>2, <4>1, <4>2
      <4> QED
        BY <2>3, <3>2, <4>1, <4>3
    <3> QED
      BY <3>6, <3>7, <3>8, <3>9, <3>10
  <2> QED
    BY <1>5, <2>6, <2>7, LeftMovesOn
<1> QED
  BY <1>3, <1>4, <1>5 DEF Goes, Walk

(* The status of a remedy already being verified moves nothing if the      *)
(* remedy was done, and only such a status starts verifying one.           *)
LEMMA RemedyMove ==
    ASSUME Inv, ConnectorInv, NEW a \in Action, DeliverRemedyStatus(a)
    PROVE  LET c == actions[a]
               d == actions'[a]
               status == Answer(a, "reconcileRemedy").status
           IN /\ status \in Underway(a, "reconcileRemedy")
              /\ c.state = "REMEDY_VERIFYING" /\ status = "remediated" => d.state = c.state
              /\ c.state = "REMEDY_UNKNOWN" /\ d.state = "REMEDY_VERIFYING" =>
                    status = "remediated"
<1> DEFINE c == actions[a]
           d == actions'[a]
           q == replies[a]["reconcileRemedy"]
           i == Len(c.events) + 1
           status == Answer(a, "reconcileRemedy").status
           to == IF status = "remediated" THEN "REMEDY_VERIFYING"
                 ELSE IF status \in {"no_effect", "failed"} THEN "REMEDY_FAILED"
                 ELSE "REVIEW_REQUIRED"
<1>1. /\ c \in Slice /\ d \in Slice
      /\ c.awaiting["reconcileRemedy"] > 0
      /\ Handler(a)
  BY NextInv, ReconcileRemedyAnsweredGets DEF Next, Inv, TypeOK, DeliverRemedyStatus, Handler
<1>2. status \in Underway(a, "reconcileRemedy")
  <2>1. q \in Seq(Replied) /\ Len(q) > 0
    BY <1>1 DEF ConnectorInv, ConnectorType, Replies, Linked, Operations
  <2>2. Head(q) = q[1] /\ 1 \in DOMAIN q
    BY <2>1
  <2> QED
    BY <2>2 DEF Answer, Underway
<1>3. MovesTo(a, to)
  BY DEF DeliverRemedyStatus
<1>4. ASSUME c.state \in {"REMEDY_VERIFYING", "REMEDY_UNKNOWN"}, d.state # c.state
      PROVE  /\ CanMove(c, to)
             /\ d.state = to \/ d.state = "CLOSED" \/ to = "BREACHED"
  <2>1. PICK u \in Nat : Walk(c, d, u)
    BY <1>1, HandlerSegment DEF Segment
  <2>2. /\ i \in DOMAIN d.events
        /\ d.events[i].to # "none" =>
              \/ d.state = d.events[i].to \/ d.events[i].to = "BREACHED"
              \/ d.state = "CLOSED"
    BY <1>1, <1>4, <2>1, MoveLogged DEF Goes
  <2>3. Appended(a) # <<>> /\ Appended(a)[1] = d.events[i]
    BY <1>1, <2>2, AppendedFirst
  <2>4. to # "none"
    OBVIOUS
  <2> HIDE DEF to
  <2>5. CanMove(c, to) /\ d.events[i].to = to
    BY <1>3, <2>3 DEF MovesTo
  <2> QED
    BY <2>2, <2>4, <2>5
<1>5. c.state = "REMEDY_VERIFYING" /\ status = "remediated" => d.state = c.state
  <2> SUFFICES ASSUME c.state = "REMEDY_VERIFYING", status = "remediated"
               PROVE  d.state = c.state
    OBVIOUS
  <2>1. ~CanMove(c, to)
    BY DEF CanMove, ALLOWED_TRANSITIONS
  <2> QED
    BY <1>4, <2>1
<1>6. c.state = "REMEDY_UNKNOWN" /\ d.state = "REMEDY_VERIFYING" => status = "remediated"
  BY <1>4
<1> QED
  BY <1>2, <1>5, <1>6

(* Every step keeps the agreement, and an action whose receipt is cut as   *)
(* it is.                                                                  *)
LEMMA NextAgreed ==
    ASSUME Inv, RecordInv, ConnectorInv, AgreedInv, [ConnectorNext]_<<vars, cvars>>
    PROVE  /\ AgreedInv'
           /\ \A a \in Action : Exportable(actions[a]) =>
                 /\ actions'[a].receipt = actions[a].receipt
                 /\ actions'[a].events = actions[a].events
                 /\ actions'[a].evidence = actions[a].evidence
<1> SUFFICES ASSUME NEW a \in Action
             PROVE  /\ Agreed(a)'
                    /\ Exportable(actions[a]) =>
                          /\ actions'[a].receipt = actions[a].receipt
                          /\ actions'[a].events = actions[a].events
                          /\ actions'[a].evidence = actions[a].evidence
  BY DEF AgreedInv
<1> DEFINE c == actions[a]
           d == actions'[a]
           op == "reconcileRemedy"
<1>1. [Next]_vars
  BY RailStep
<1>2. PICK t \in Nat : Goes(c, d, t)
  BY <1>1, SlicesGo
<1>3. Good(c) /\ Good(d) /\ Faithful(c) /\ Agreed(a)
  BY <1>1, NextInv DEF Inv, RecordInv, AgreedInv
<1>4. /\ d.awaiting["remediate"] > c.awaiting["remediate"] => Known(a)'
      /\ d.awaiting[op] < c.awaiting[op] => DeliverRemedyStatus(a)
      /\ d.awaiting[op] > c.awaiting[op] => c.state = "REMEDY_UNKNOWN" /\ d.state = c.state
  BY RemedyCalls
<1>5. /\ c.awaiting[op] \in Nat /\ d.awaiting[op] \in Nat
      /\ c.awaiting[op] > 0 => c.state \in AfterRemedyUnknown
  BY <1>3 DEF Good, Slice, Resumable, Operations
<1>6. \A status : KnownAs(a, status) => KnownAs(a, status)'
  BY RemediesStay
<1>7. ASSUME DeliverRemedyStatus(a)
      PROVE  /\ c.state = "REMEDY_VERIFYING" => d.state = c.state
             /\ c.state = "REMEDY_UNKNOWN" /\ d.state = "REMEDY_VERIFYING" =>
                   KnownAs(a, "remediated")
  <2> DEFINE status == Answer(a, op).status
  <2>1. /\ status \in Underway(a, op)
        /\ c.state = "REMEDY_VERIFYING" /\ status = "remediated" => d.state = c.state
        /\ c.state = "REMEDY_UNKNOWN" /\ d.state = "REMEDY_VERIFYING" =>
              status = "remediated"
    BY <1>7, RemedyMove
  <2> HIDE DEF status
  <2>2. KnownAs(a, status)
    BY <1>3, <2>1 DEF Agreed
  <2>3. c.state = "REMEDY_VERIFYING" => KnownAs(a, "remediated")
    <3>1. c.awaiting[op] > 0
      BY <1>7, ReconcileRemedyAnsweredGets DEF DeliverRemedyStatus
    <3> QED
      BY <1>3, <3>1 DEF Agreed
  <2>4. c.state = "REMEDY_VERIFYING" => status = "remediated"
    BY <2>2, <2>3 DEF KnownAs
  <2> QED
    BY <2>1, <2>2, <2>4
<1>8. /\ Observing(d)
      /\ Exportable(c) => /\ d.receipt = c.receipt
                          /\ d.events = c.events
                          /\ d.evidence = c.evidence
      /\ d.state = "REMEDIATING" =>
            c.state = d.state \/ d.awaiting["remediate"] > c.awaiting["remediate"]
      /\ d.state = "REMEDY_UNKNOWN" => c.state \in {"REMEDIATING", "REMEDY_UNKNOWN"}
      /\ d.state = "REMEDY_VERIFYING" =>
            \/ c.state \in {"REMEDIATING", "REMEDY_VERIFYING"}
            \/ c.state = "REMEDY_UNKNOWN" /\ d.awaiting[op] < c.awaiting[op]
  <2>1. c.state = "REMEDY_VERIFYING" /\ d.awaiting[op] < c.awaiting[op] => d.state = c.state
    BY <1>4, <1>7
  <2>2. Observing(c) /\ ~Failures
    BY <1>3, ConnectorAssumption DEF Agreed
  <2> QED
    BY <1>2, <1>3, <2>1, <2>2, GoesObserving
<1>9. d.state \in {"REMEDIATING", "REMEDY_UNKNOWN"} => Known(a)'
  <2>1. Known(a) => Known(a)'
    BY <1>6 DEF KnownAs
  <2>2. c.state \in {"REMEDIATING", "REMEDY_UNKNOWN"} => Known(a)
    BY <1>3 DEF Agreed
  <2> QED
    BY <1>4, <1>8, <2>1, <2>2
<1>10. \A status \in Underway(a, op)' : KnownAs(a, status)'
  <2>1. c.state = "REMEDY_UNKNOWN" => Known(a)
    BY <1>3 DEF Agreed
  <2> SUFFICES ASSUME NEW status \in Underway(a, op)'
               PROVE  KnownAs(a, status)'
    OBVIOUS
  <2>2. status \in Underway(a, op) \/ KnownAs(a, status)
    BY <2>1, RemedyStatuses
  <2> QED
    BY <1>3, <1>6, <2>2 DEF Agreed
<1>11. d.state = "REMEDY_VERIFYING" /\ d.awaiting[op] > 0 => KnownAs(a, "remediated")'
  <2> SUFFICES ASSUME d.state = "REMEDY_VERIFYING", d.awaiting[op] > 0
               PROVE  KnownAs(a, "remediated")
    BY <1>6
  <2>1. CASE c.state = "REMEDIATING"
    BY <1>4, <1>5, <2>1 DEF AfterRemedyUnknown
  <2>2. CASE c.state = "REMEDY_VERIFYING"
    BY <1>3, <1>4, <1>5, <2>2 DEF Agreed
  <2>3. CASE c.state = "REMEDY_UNKNOWN" /\ d.awaiting[op] < c.awaiting[op]
    BY <1>4, <1>7, <2>3
  <2> QED
    BY <1>8, <2>1, <2>2, <2>3
<1> QED
  BY <1>8, <1>9, <1>10, <1>11 DEF Agreed

(* Nothing is known, and nothing is under way, at first.                   *)
LEMMA InitAgreed == ConnectorInit => AgreedInv
<1> SUFFICES ASSUME ConnectorInit, NEW a \in Action PROVE Agreed(a)
  BY DEF AgreedInv
<1>1. actions[a] = Unregistered /\ "reconcileRemedy" \in Operations
  BY DEF ConnectorInit, Init, Operations
<1>2. replies = [b \in Action |-> [op \in Operations |-> <<>>]]
  BY DEF ConnectorInit
<1>3. actions[a].state = "UNREGISTERED"
      /\ actions[a].awaiting["observeRemedy"] = 0
  BY <1>1 DEF Unregistered, Operations
<1>4. Underway(a, "reconcileRemedy") = {}
  <2>1. replies[a]["reconcileRemedy"] = <<>>
    BY <1>1, <1>2
  <2>2. DOMAIN <<>> = {}
    OBVIOUS
  <2> QED
    BY <2>1, <2>2 DEF Underway
<1> QED
  BY <1>3, <1>4 DEF Agreed, Observing

(* The invariant with the agreement holds in every behaviour of the rail   *)
(* with a connector, and so do the receipts.                               *)
LEMMA AgreedInvariant ==
    ConnectorSpec => [](Inv /\ RecordInv /\ ConnectorInv /\ AgreedInv)
<1>1. ConnectorInit => Inv /\ RecordInv /\ ConnectorInv /\ AgreedInv
  BY InitInv, InitRecord, InitConnector, InitAgreed DEF ConnectorInit
<1>2. Inv /\ RecordInv /\ ConnectorInv /\ AgreedInv /\ [ConnectorNext]_<<vars, cvars>>
         => (Inv /\ RecordInv /\ ConnectorInv /\ AgreedInv)'
  BY NextInv, NextRecord, NextConnector, NextAgreed, RailStep
<1> QED
  BY <1>1, <1>2, PTL DEF ConnectorSpec

(* With either connector the receipt is final: whatever answer is still    *)
(* awaited when it is cut appends no event and adds no evidence. Of two    *)
(* status reads of a remedy the later one says what the first one said,    *)
(* and only another result would lead to a second verification, whose      *)
(* observation could come after the receipt.                               *)
THEOREM AnswersAreFinal == ConnectorSpec => ReceiptIsFinal
<1>1. Inv /\ RecordInv /\ ConnectorInv /\ AgreedInv /\ [ConnectorNext]_<<vars, cvars>>
         => [\A a \in Action :
               Exportable(actions[a]) =>
                  /\ actions'[a].receipt = actions[a].receipt
                  /\ actions'[a].events = actions[a].events
                  /\ actions'[a].evidence = actions[a].evidence]_vars
  BY NextAgreed
<1> QED
  BY <1>1, AgreedInvariant, PTL DEF ConnectorSpec, ReceiptIsFinal

(* A connector that dates its reservations by the clock dates none ahead.  *)
LEMMA GoesDated ==
    ASSUME NEW c \in Slice, NEW d, NEW t \in Nat, now \in Nat, Goes(c, d, t),
           c.reserved_at <= t
    PROVE  d.reserved_at <= t
<1>1. \/ Proposed(c, d, t) \/ Qualifies(c, d, t) \/ Asked(c, d)
      \/ LapsesTo(c, d) \/ d = c
      \/ \E op \in Answering, answer \in Definite, n \in Slice :
            /\ Heard(c, n, op, answer, t)
            /\ d = n \/ Left(op, answer, n, d, t)
  BY DEF Goes, Walk
<1>2. CASE \/ Proposed(c, d, t) \/ Qualifies(c, d, t) \/ Asked(c, d)
           \/ LapsesTo(c, d) \/ d = c
  <2>1. d.reserved_at = c.reserved_at
    BY <1>2 DEF Proposed, Qualifies, Asked, LapsesTo, Same, Fields, Unregistered
  <2> QED
    BY <2>1
<1>3. ASSUME NEW op, NEW answer, NEW n, Heard(c, n, op, answer, t)
      PROVE  n.reserved_at = c.reserved_at
  <2>1. PICK w : /\ Resumed(c, w, op, answer) \/ Reserved(c, w, op, answer)
                 /\ n = w \/ Rejected(w, n, op, t) \/ Accepted(w, n, op, t)
    BY <1>3 DEF Heard
  <2>2. w.reserved_at = c.reserved_at
    BY <2>1 DEF Resumed, Reserved, Same, Fields, Unregistered
  <2>3. n.reserved_at = w.reserved_at
    BY <2>1 DEF Rejected, Accepted, Same, Fields, Unregistered
  <2> QED
    BY <2>2, <2>3
<1>4. ASSUME NEW n, NEW m, Moved(n, m, t), n.reserved_at <= t
      PROVE  m.reserved_at <= t
  <2>1. m.reserved_at = n.reserved_at \/ m.reserved_at \in now .. t
    BY <1>4, ConnectorAssumption
       DEF Moved, Permits, Starts, Remedies, Same, Fields, Unregistered
  <2> QED
    BY <1>4, <2>1
<1>5. ASSUME NEW m, NEW x, Ending(m, x, t)
      PROVE  x.reserved_at = m.reserved_at
  <2>1. PICK r, f : /\ r = m \/ Returned(m, r)
                    /\ f = r \/ Recorded(r, f, t)
                    /\ x = f \/ Closed(f, x, t)
    BY <1>5 DEF Ending
  <2>2. r.reserved_at = m.reserved_at
    BY <2>1 DEF Returned, Same, Fields, Unregistered
  <2>3. f.reserved_at = r.reserved_at
    BY <2>1 DEF Recorded, Same, Fields, Unregistered
  <2>4. x.reserved_at = f.reserved_at
    BY <2>1 DEF Closed, Same, Fields, Unregistered
  <2> QED
    BY <2>2, <2>3, <2>4
<1>6. ASSUME NEW op, NEW answer, NEW n, n.reserved_at <= t, Left(op, answer, n, d, t)
      PROVE  d.reserved_at <= t
  <2>1. PICK m, x : /\ Moved(n, m, t)
                    /\ Ending(m, x, t) \/ Moved(m, x, t)
                    /\ Resulted(x, d)
    BY <1>6 DEF Left
  <2>2. x.reserved_at <= t
    BY <1>4, <1>5, <1>6, <2>1
  <2>3. d.reserved_at = x.reserved_at
    BY <2>1 DEF Resulted, Same, Fields, Unregistered
  <2> QED
    BY <2>2, <2>3
<1> QED
  BY <1>1, <1>2, <1>3, <1>6

LEMMA DatedStays ==
    ASSUME Drift = 0, Inv, Dated, [Next]_vars
    PROVE  Dated'
<1>1. PICK t \in Nat :
         /\ now <= t /\ t <= now + Drift /\ now' \in Nat /\ now <= now'
         /\ UNCHANGED actions \/ now' \in {now, t}
         /\ \A a \in Action : Goes(actions[a], actions'[a], t)
  BY SlicesGo
<1>2. now \in Nat /\ t = now
  BY <1>1 DEF Inv, TypeOK
<1>3. ASSUME NEW a \in Action PROVE actions'[a].reserved_at <= now'
  <2>1. actions[a] \in Slice /\ actions'[a] \in Slice
    BY NextInv DEF Inv, Good
  <2>2. actions[a].reserved_at <= t
    BY <1>2 DEF Dated, Slices
  <2>3. actions'[a].reserved_at <= t
    BY <1>1, <1>2, <2>1, <2>2, GoesDated
  <2>4. actions'[a].reserved_at \in Int
    BY <2>1 DEF Slice
  <2> QED
    BY <1>1, <1>2, <2>3, <2>4
<1> QED
  BY <1>3 DEF Dated, Slices

(* Every bundle exported of a rail with either connector verifies, with    *)
(* nothing assumed of its answers: what is left of the conditions is the   *)
(* clock, which stands still inside a segment, and the proposals, which    *)
(* are not requested in the future.                                        *)
THEOREM ConnectedBundlesVerify ==
    ASSUME Drift = 0
    PROVE  ConnectorSpec /\ []Timely => []BundleVerifies
<1> DEFINE I == Inv /\ RecordInv /\ ConnectorInv /\ AgreedInv
<1>1. ConnectorInit => BundleInv /\ Dated
  <2>1. ConnectorInit => BundleInv
    BY InitBundle DEF ConnectorInit
  <2>2. ConnectorInit => Dated
    BY DEF ConnectorInit, Init, Dated, Slices, Unregistered, Never
  <2> QED
    BY <2>1, <2>2
<1>2. I /\ BundleInv /\ Dated /\ Timely /\ [ConnectorNext]_<<vars, cvars>>
         => BundleInv' /\ Dated'
  <2> SUFFICES ASSUME I, BundleInv, Dated, Timely, [ConnectorNext]_<<vars, cvars>>
               PROVE  BundleInv' /\ Dated'
    OBVIOUS
  <2>1. \A a \in Action : Observing(actions[a]) /\ Final(actions[a], actions'[a])
    BY NextAgreed DEF AgreedInv, Agreed, Final
  <2>2. BundleInv'
    BY <2>1, NextBundle, RailStep, ConnectorAssumption
  <2> QED
    BY <2>2, DatedStays, RailStep
<1>3. I /\ BundleInv => BundleVerifies
  BY SoundVerifies
<1>4. ConnectorSpec => []I
  BY AgreedInvariant
<1> HIDE DEF I
<1> QED
  BY <1>1, <1>2, <1>3, <1>4, PTL DEF ConnectorSpec
===============================================================================
