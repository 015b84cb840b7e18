------------------------------ MODULE BundleProofs ------------------------------
(***************************************************************************)
(* Every bundle the rail exports passes its own offline verifier, for      *)
(* every number of actions and whatever throws, lapses or is replaced.     *)
(*                                                                         *)
(* The invariant says of every slice, closed or not, what verifyBundle     *)
(* will ask of it once it is closed: that its log is a legal run in time   *)
(* order (Chained), that its permit and its execution are inside their     *)
(* windows (Windowed), which closing states its log can hold (Visited),    *)
(* and that each piece of evidence has the one acceptance it needs         *)
(* (Assessed).  The segment that cuts the receipt then adds the last two    *)
(* events, and nothing changes afterwards.                                 *)
(***************************************************************************)
EXTENDS RecordProofs

\* The moves before position n lead to state s.
LedTo(c, n, s) ==
    LET earlier == {i \in Moves(c) : i < n}
    IN \/ earlier = {} /\ s = "PROPOSED"
       \/ \E k \in earlier : (\A i \in earlier : i <= k) /\ c.events[k].to = s

\* The log is a legal run in time order, all of it before t.
Chained(c, t) ==
    /\ c.events # <<>> => c.events[1].type = "ACTION_PROPOSED"
    /\ \A i \in DOMAIN c.events :
          /\ c.events[i].at <= t
          /\ i > 1 => c.events[i - 1].at <= c.events[i].at
    /\ \A i \in Moves(c) :
          /\ LedTo(c, i, c.events[i].from)
          /\ <<c.events[i].from, c.events[i].to>> \in ALLOWED_TRANSITIONS

\* The positions of the events of a type.
Positions(c, type) == {i \in DOMAIN c.events : c.events[i].type = type}

\* An event is appended, and the moves before it stay what they were.
Extends(c, d) ==
    /\ Grows(c, d)
    /\ {i \in Moves(d) : i <= Len(c.events)} = Moves(c)

(* The relation and the operator of the verifier agree.                    *)
LEMMA LedToState ==
    ASSUME NEW c \in Slice, NEW n \in Nat, NEW s, LedTo(c, n, s)
    PROVE  StateBeforeEvent(c, n) = s
<1> DEFINE earlier == {i \in Moves(c) : i < n}
<1>1. earlier \in SUBSET Nat
  <2>1. DOMAIN c.events = 1 .. Len(c.events)
    BY DEF Slice
  <2> QED
    BY <2>1 DEF Moves
<1>2. CASE earlier = {} /\ s = "PROPOSED"
  BY <1>2 DEF StateBeforeEvent
<1>3. ASSUME NEW k \in earlier, \A i \in earlier : i <= k, c.events[k].to = s
      PROVE  StateBeforeEvent(c, n) = s
  <2>1. Max(earlier) = k
    BY <1>1, <1>3, MaxIs
  <2>2. earlier # {}
    BY <1>3
  <2> QED
    BY <1>3, <2>1, <2>2 DEF StateBeforeEvent
<1> QED
  BY <1>2, <1>3 DEF LedTo

(* The whole log leads to the state.                                       *)
LEMMA LedIsLedTo ==
    ASSUME NEW c \in Slice, Led(c)
    PROVE  LedTo(c, Len(c.events) + 1, c.state)
<1>1. DOMAIN c.events = 1 .. Len(c.events) /\ Len(c.events) \in Nat
  BY DEF Slice
<1>2. {i \in Moves(c) : i < Len(c.events) + 1} = Moves(c)
  BY <1>1 DEF Moves
<1> QED
  BY <1>2 DEF Led, LedTo

(* What led to a state before an append leads to it after.                 *)
LEMMA LedToStays ==
    ASSUME NEW c, NEW d, Extends(c, d), NEW n \in 1 .. (Len(c.events) + 1), NEW s,
           LedTo(c, n, s)
    PROVE  LedTo(d, n, s)
<1>1. Len(c.events) \in Nat /\ Moves(c) \subseteq 1 .. Len(c.events)
  BY DEF Extends, Grows, Moves
<1>2. \A i \in Moves(c) : d.events[i] = c.events[i]
  BY <1>1 DEF Extends, Grows
<1>3. Moves(d) \subseteq 1 .. (Len(c.events) + 1)
  BY DEF Extends, Grows, Moves
<1>4. {i \in Moves(d) : i < n} = {i \in Moves(c) : i < n}
  BY <1>1, <1>3 DEF Extends
<1> QED
  BY <1>2, <1>4 DEF LedTo

(* Both ways to append an event extend the log.                            *)
LEMMA LogsExtends ==
    ASSUME NEW c \in Slice, NEW d, NEW type, NEW info, NEW t,
           Logs(c, d, type, info, t), type # "STATE_TRANSITION"
    PROVE  /\ Extends(c, d) /\ Moves(d) = Moves(c)
           /\ \A s : Entries(d, s) = Entries(c, s)
           /\ d.events[Len(c.events) + 1] =
                 [type |-> type, from |-> "none", to |-> "none", at |-> t, info |-> info]
<1>1. /\ Grows(c, d) /\ Moves(d) = Moves(c)
      /\ \A s : Entries(d, s) = Entries(c, s)
  BY LogsGrows
<1>2. {i \in Moves(c) : i <= Len(c.events)} = Moves(c)
  BY <1>1 DEF Grows, Moves
<1>3. c.events \in Seq(Event)
  BY DEF Slice
<1> QED
  BY <1>1, <1>2, <1>3 DEF Extends, Logs

(* A logged transition extends the log by one move, into the state reached.*)
LEMMA LogsMoveExtends ==
    ASSUME NEW c \in Slice, NEW d, NEW info, NEW t, LogsMove(c, d, info, t)
    PROVE  /\ Extends(c, d)
           /\ Moves(d) = Moves(c) \cup {Len(c.events) + 1}
           /\ Entries(d, d.state) = Entries(c, d.state) \cup {Len(c.events) + 1}
           /\ \A s : s # d.state => Entries(d, s) = Entries(c, s)
           /\ d.events[Len(c.events) + 1].type = "STATE_TRANSITION"
           /\ d.events[Len(c.events) + 1].from = c.state
           /\ d.events[Len(c.events) + 1].to = d.state
           /\ d.events[Len(c.events) + 1].at = t
           /\ d.events[Len(c.events) + 1].info = info
<1>1. /\ Grows(c, d)
      /\ Moves(d) = Moves(c) \cup {Len(c.events) + 1}
      /\ Entries(d, d.state) = Entries(c, d.state) \cup {Len(c.events) + 1}
      /\ \A s : s # d.state => Entries(d, s) = Entries(c, s)
  BY LogsMoveGrows
<1>2. {i \in Moves(d) : i <= Len(c.events)} = Moves(c)
  BY <1>1 DEF Grows, Moves
<1>3. c.events \in Seq(Event)
  BY DEF Slice
<1> QED
  BY <1>1, <1>2, <1>3 DEF Extends, LogsMove

(* An appended event is one more of its type.                              *)
LEMMA PositionsGrow ==
    ASSUME NEW c, NEW d, Grows(c, d), NEW type
    PROVE  Positions(d, type) =
              Positions(c, type) \cup (IF d.events[Len(c.events) + 1].type = type
                                       THEN {Len(c.events) + 1} ELSE {})
  BY DEF Grows, Positions

(* So an event of another type leaves them.                                *)
LEMMA PositionsStay ==
    ASSUME NEW c, NEW d, Grows(c, d), NEW type, d.events[Len(c.events) + 1].type # type
    PROVE  Positions(d, type) = Positions(c, type)
  BY DEF Grows, Positions

-------------------------------------------------------------------------------
(* What verifyBundle will ask, of an action that is still open. *)

\* The states of an action that has not executed.
Unexecuted == Unpermitted \cup {"PERMITTED"}

\* The states of an action without a reservation that still counts.
Unreserved == Unpermitted \ {"RECOURSE_RESERVED"}

\* The reservation outlives the permit it may be issued for.
Outlives(c) ==
    /\ c.mode \in {"enforced", "cooperative"}
    /\ c.reserved_until >= c.expires_at + RemedyWindow

\* Permit and execution are inside their windows, and recourse spans them.
Windowed(c, t) ==
    /\ c.state # "UNREGISTERED" => c.mode # "none"
    /\ c.state \notin Unreserved => Outlives(c)
    /\ c.state \notin Unpermitted => c.reserved_at <= c.permit_issued_at
    /\ c.permit_issued_at <= t
    /\ c.permit_issued_at # Never => PermitInsideProposal(c)
    /\ c.state \notin Unpermitted => c.permit_issued_at # Never
    /\ c.state \notin Unexecuted => c.permit_uses > 0
    /\ c.state \in Unexecuted => Entries(c, "EXECUTING") = {}
    /\ \A i \in Entries(c, "EXECUTING") :
          /\ c.permit_issued_at <= c.events[i].at
          /\ c.events[i].at < c.expires_at

\* The states of an action whose breach was shown, up to a dispute.
Breached ==
    {"BREACHED", "REMEDY_DUE", "REMEDIATING", "REMEDY_UNKNOWN",
     "REMEDY_VERIFYING", "REMEDIATED"}

AfterBreach == Breached \cup DisputedStates

\* The log holds no closing state but the one it is in, no breach beside a
\* settlement, and no recourse status before the action ends.
Visited(c) ==
    /\ \A s \in RECEIPT_STATES : Entries(c, s) # {} => c.state = s
    /\ Entries(c, "BREACHED") # {} => c.state \in AfterBreach
    /\ c.final_status # "none" => c.state \in EndStates

AcceptanceOf(phase) ==
    IF phase = "initial" THEN "EVIDENCE_ACCEPTED" ELSE "REMEDY_EVIDENCE_ACCEPTED"

ObservedIn(phase) == IF phase = "initial" THEN "VERIFYING" ELSE "REMEDY_VERIFYING"

\* A piece of evidence is of the action's own currency or SKU, and has one
\* acceptance, of its phase, while it was fresh.
Kept(c, e) ==
    e.own /\ \E k \in DOMAIN c.events :
        /\ Positions(c, AcceptanceOf(e.phase)) = {k}
        /\ LedTo(c, k, ObservedIn(e.phase))
        /\ c.events[k].at - e.observed_at \in 0 .. MaxAge
        /\ c.events[k].info = Weighs(e.satisfied)

Assessed(c) ==
    /\ \A i \in DOMAIN c.evidence : Kept(c, c.evidence[i])
    /\ c.state = "SATISFIED" => Shown(c, "initial", TRUE)
    /\ c.state \in Breached => Shown(c, "initial", FALSE)
    /\ c.state = "REMEDIATED" => Shown(c, "post-remedy", TRUE)

\* The states before evidence of a phase can be observed.
Unobserved(phase) ==
    IF phase = "initial"
    THEN Unexecuted \cup {"EXECUTING", "UNKNOWN", "EXECUTED"}
    ELSE BeforeRemedy \cup {"REMEDIATING", "REMEDY_UNKNOWN"}

Observes(phase) == IF phase = "initial" THEN "observe" ELSE "observeRemedy"

\* Evidence of a phase is not accepted before, nor twice.
Single(c) ==
    \A phase \in {"initial", "post-remedy"} :
        c.state \in Unobserved(phase) \/ c.awaiting[Observes(phase)] > 0 =>
            Positions(c, AcceptanceOf(phase)) = {}

Open(c, t) ==
    /\ c.state # "UNREGISTERED" => c.events # <<>>
    /\ Chained(c, t) /\ Windowed(c, t) /\ Visited(c) /\ Assessed(c)

\* A closed action's bundle, if it has a receipt to export, verifies, and an
\* open action's log is fit for one.
Sound(c, t) ==
    IF c.state = "CLOSED" THEN Exportable(c) => VerifiesBundle(c)
    ELSE Open(c, t) /\ Single(c)

BundleInv == \A a \in Action : Sound(actions[a], now)

-------------------------------------------------------------------------------
(* The chain. *)

(* Every event carries the time it was appended at.                        *)
LEMMA EventTimes ==
    ASSUME NEW c \in Slice
    PROVE  \A i \in DOMAIN c.events : c.events[i].at \in Nat
<1>1. c.events \in Seq(Event)
  BY DEF Slice
<1>2. \A i \in DOMAIN c.events : c.events[i] \in Event
  BY <1>1
<1> QED
  BY <1>2 DEF Event

(* An event that is appended now keeps the chain.                          *)
LEMMA ChainedExtends ==
    ASSUME NEW c \in Slice, NEW d, NEW t \in Nat, Chained(c, t), Extends(c, d),
           d.events[Len(c.events) + 1].at = t,
           c.events = <<>> => d.events[Len(c.events) + 1].type = "ACTION_PROPOSED",
           \A i \in Moves(d) \ Moves(c) :
              /\ LedTo(d, i, d.events[i].from)
              /\ <<d.events[i].from, d.events[i].to>> \in ALLOWED_TRANSITIONS
    PROVE  Chained(d, t)
<1> DEFINE n == Len(c.events)
<1>0. c.events \in Seq(Event) /\ n \in Nat /\ DOMAIN c.events = 1 .. n
  BY DEF Slice
<1>1. /\ n \in Nat /\ DOMAIN c.events = 1 .. n
      /\ \A i \in 1 .. n : c.events[i].at \in Nat
  BY <1>0, EventTimes
<1>2. /\ DOMAIN d.events = 1 .. (n + 1)
      /\ \A i \in 1 .. n : d.events[i] = c.events[i]
  BY DEF Extends, Grows
<1>3. d.events[1].type = "ACTION_PROPOSED"
  <2>1. CASE n = 0
    BY <1>1, <2>1
  <2>2. CASE n > 0
    <3>1. c.events # <<>> /\ 1 \in 1 .. n
      BY <1>1, <2>2
    <3> QED
      BY <1>2, <3>1 DEF Chained
  <2> QED
    BY <1>1, <2>1, <2>2
<1> HIDE DEF n
<1>4. ASSUME NEW i \in 1 .. (n + 1)
      PROVE  d.events[i].at <= t /\ (i > 1 => d.events[i - 1].at <= d.events[i].at)
  <2>1. CASE i <= n
    <3>1. i \in 1 .. n /\ i \in DOMAIN c.events /\ d.events[i] = c.events[i]
      BY <1>1, <1>2, <2>1
    <3>2. c.events[i].at <= t /\ (i > 1 => c.events[i - 1].at <= c.events[i].at)
      BY <3>1 DEF Chained
    <3>3. i > 1 => i - 1 \in 1 .. n /\ d.events[i - 1] = c.events[i - 1]
      BY <1>1, <1>2, <3>1
    <3> QED
      BY <3>1, <3>2, <3>3
  <2>2. CASE i = n + 1
    <3>1. d.events[i].at = t
      BY <2>2 DEF n
    <3>2. i > 1 => i - 1 \in 1 .. n /\ c.events[i - 1].at <= t
      BY <1>1, <2>2 DEF Chained
    <3> QED
      BY <1>2, <3>1, <3>2
  <2> QED
    BY <1>1, <2>1, <2>2
<1>5. ASSUME NEW i \in Moves(c)
      PROVE  /\ LedTo(d, i, d.events[i].from)
             /\ <<d.events[i].from, d.events[i].to>> \in ALLOWED_TRANSITIONS
  <2>1. i \in 1 .. n /\ i \in 1 .. (Len(c.events) + 1)
    BY <1>1 DEF Moves, n
  <2>2. LedTo(c, i, c.events[i].from)
    BY DEF Chained
  <2>3. LedTo(d, i, c.events[i].from)
    BY <2>1, <2>2, LedToStays
  <2> QED
    BY <1>2, <2>1, <2>3 DEF Chained
<1>6. \A i \in Moves(d) :
         /\ LedTo(d, i, d.events[i].from)
         /\ <<d.events[i].from, d.events[i].to>> \in ALLOWED_TRANSITIONS
  BY <1>5
<1> QED
  BY <1>2, <1>3, <1>4, <1>6 DEF Chained

(* A note, and a move from the state the log leads to, are such events.    *)
LEMMA ChainedLogs ==
    ASSUME NEW c \in Slice, NEW d, NEW t \in Nat, Chained(c, t), NEW type, NEW info,
           Logs(c, d, type, info, t), type # "STATE_TRANSITION",
           c.events = <<>> => type = "ACTION_PROPOSED"
    PROVE  Chained(d, t)
<1>1. /\ Extends(c, d) /\ Moves(d) = Moves(c)
      /\ d.events[Len(c.events) + 1] =
            [type |-> type, from |-> "none", to |-> "none", at |-> t, info |-> info]
  BY LogsExtends
<1>2. /\ d.events[Len(c.events) + 1].at = t
      /\ d.events[Len(c.events) + 1].type = type
  BY <1>1
<1> QED
  BY <1>1, <1>2, ChainedExtends

(* A transition the table allows keeps the log a chain.                    *)
LEMMA ChainedMove ==
    ASSUME NEW c \in Slice, NEW d, NEW t \in Nat, Chained(c, t), NEW info,
           LogsMove(c, d, info, t), Led(c), c.events # <<>>,
           <<c.state, d.state>> \in ALLOWED_TRANSITIONS
    PROVE  Chained(d, t)
<1> DEFINE n == Len(c.events)
<1>1. /\ Extends(c, d) /\ Moves(d) = Moves(c) \cup {n + 1}
  BY LogsMoveExtends
<1>2. /\ d.events[n + 1].at = t
      /\ d.events[n + 1].from = c.state /\ d.events[n + 1].to = d.state
  BY LogsMoveExtends
<1>3. n \in Nat
  BY DEF Slice
<1>4. LedTo(d, n + 1, c.state)
  <2>1. n + 1 \in 1 .. (Len(c.events) + 1)
    BY <1>3
  <2>2. LedTo(c, n + 1, c.state)
    BY LedIsLedTo
  <2> HIDE DEF n
  <2> QED
    BY <1>1, <2>1, <2>2, LedToStays
<1>5. \A i \in Moves(d) \ Moves(c) :
         /\ LedTo(d, i, d.events[i].from)
         /\ <<d.events[i].from, d.events[i].to>> \in ALLOWED_TRANSITIONS
  BY <1>1, <1>2, <1>4
<1> QED
  BY <1>1, <1>2, <1>5, ChainedExtends

(* Time passes.                                                            *)
LEMMA ChainedLater ==
    ASSUME NEW c \in Slice, NEW t \in Nat, NEW u \in Nat, t <= u, Chained(c, t)
    PROVE  Chained(c, u)
<1>1. \A i \in DOMAIN c.events : c.events[i].at \in Nat
  BY EventTimes
<1> QED
  BY <1>1 DEF Chained

-------------------------------------------------------------------------------
(* Each part, as the log grows and the state moves. *)

\* The terms an action is permitted under.
Terms(c) ==
    <<c.mode, c.requested_at, c.expires_at, c.reserved_at, c.reserved_until,
      c.permit_issued_at, c.permit_uses>>

(* Nothing but a move, or new terms, bears on the windows.                 *)
LEMMA WindowedStays ==
    ASSUME NEW c, NEW d, NEW t, Windowed(c, t), d.state = c.state, Terms(d) = Terms(c),
           Entries(d, "EXECUTING") = Entries(c, "EXECUTING"),
           \A i \in Entries(c, "EXECUTING") : d.events[i] = c.events[i]
    PROVE  Windowed(d, t)
<1>1. /\ d.mode = c.mode /\ d.requested_at = c.requested_at
      /\ d.expires_at = c.expires_at
      /\ d.reserved_at = c.reserved_at /\ d.reserved_until = c.reserved_until
      /\ d.permit_issued_at = c.permit_issued_at /\ d.permit_uses = c.permit_uses
  BY DEF Terms
<1>2. /\ Outlives(c) => Outlives(d)
      /\ PermitInsideProposal(c) => PermitInsideProposal(d)
  BY <1>1 DEF Outlives, PermitInsideProposal
<1> QED
  BY <1>1, <1>2 DEF Windowed

(* A permit is issued, and used, inside its window and its reservation.    *)
LEMMA WindowedMove ==
    ASSUME NEW n \in Slice, NEW m \in Slice, NEW t \in Nat, now \in Nat, now <= t, t <= now,
           Windowed(n, t), n.requested_at <= t,
           n.state = "RECOURSE_RESERVED" => n.reserved_at <= t, Moved(n, m, t),
           m.state \in {"EXPIRED", "REVOKED"} => n.state # "AUTHORIZED"
    PROVE  Windowed(m, t)
<1> DEFINE k == Len(n.events)
<1>1. /\ <<n.state, m.state>> \in ALLOWED_TRANSITIONS
      /\ LogsMove(n, m, "", t)
  BY DEF Moved
<1>2. /\ Extends(n, m)
      /\ Entries(m, m.state) = Entries(n, m.state) \cup {k + 1}
      /\ \A s : s # m.state => Entries(m, s) = Entries(n, s)
  BY <1>1, LogsMoveExtends
<1>3. m.events[k + 1].at = t
  <2>1. PICK info : LogsMove(n, m, info, t)
    BY <1>1
  <2> QED
    BY <2>1, LogsMoveExtends
<1>4. \A i \in Entries(n, "EXECUTING") : m.events[i] = n.events[i]
  BY <1>2 DEF Extends, Grows, Entries, Moves
<1> HIDE DEF k
<1>5. /\ n.state \notin {"UNREGISTERED", "CLOSED", "DENIED", "EXPIRED", "REVOKED"}
      /\ m.state \notin Unexecuted => m.state = "EXECUTING" \/ n.state \notin Unexecuted
      /\ m.state \in Unexecuted => n.state \in Unexecuted /\ m.state # "EXECUTING"
      /\ m.state \notin Unpermitted => m.state = "PERMITTED" \/ n.state \notin Unpermitted
      /\ m.state \notin Unreserved =>
            m.state = "RECOURSE_RESERVED" \/ n.state \notin Unreserved
      /\ m.state = "EXECUTING" => n.state = "PERMITTED"
      /\ m.state = "PERMITTED" => n.state = "RECOURSE_RESERVED"
  BY <1>1 DEF ALLOWED_TRANSITIONS, Unexecuted, Unpermitted, Unreserved
<1>6. /\ n.expires_at \in Int /\ n.reserved_until \in Int /\ n.permit_issued_at \in Int
      /\ n.requested_at \in Int /\ n.permit_uses \in Nat /\ now \in Nat
      /\ n.mode \in ASSURANCE_MODES \cup {"none"}
  BY DEF Slice
<1>7. CASE Permits(n, m, t)
  <2>1. /\ m.state = "PERMITTED" /\ m.permit_issued_at = t /\ n.expires_at > t
        /\ m.mode = n.mode /\ m.requested_at = n.requested_at
        /\ m.expires_at = n.expires_at /\ m.reserved_until = n.reserved_until
        /\ m.reserved_at = n.reserved_at /\ m.permit_uses = n.permit_uses
    BY <1>6, <1>7 DEF Permits, Lapsed, isExpired, Same, Fields, Unregistered
  <2>2. Outlives(m) /\ m.reserved_at <= m.permit_issued_at
    BY <1>5, <2>1 DEF Windowed, Unreserved, Outlives
  <2>3. PermitInsideProposal(m)
    BY <1>6, <2>1 DEF PermitInsideProposal
  <2>4. Entries(m, "EXECUTING") = {} /\ m.state \in Unexecuted
    BY <1>2, <1>5, <2>1 DEF Windowed, Unexecuted, Unpermitted
  <2>5. m.permit_issued_at # Never
    BY <2>1 DEF Never
  <2>6. m.permit_issued_at <= t /\ m.mode # "none"
    BY <1>5, <2>1 DEF Windowed
  <2> QED
    BY <2>2, <2>3, <2>4, <2>5, <2>6 DEF Windowed
<1>8. CASE Starts(n, m)
  <2>1. /\ m.state = "EXECUTING" /\ n.expires_at > t
        /\ m.permit_uses = n.permit_uses + 1
        /\ m.mode = n.mode /\ m.requested_at = n.requested_at
        /\ m.expires_at = n.expires_at /\ m.reserved_until = n.reserved_until
        /\ m.reserved_at = n.reserved_at /\ m.permit_issued_at = n.permit_issued_at
    BY <1>6, <1>8 DEF Starts, Lapsed, isExpired, Same, Fields, Unregistered
  <2>2. /\ Outlives(m) /\ m.permit_issued_at # Never
        /\ m.reserved_at <= m.permit_issued_at
    BY <1>5, <2>1 DEF Windowed, Unreserved, Unpermitted, Outlives
  <2>3. PermitInsideProposal(m)
    BY <2>1, <2>2 DEF PermitInsideProposal, Windowed
  <2>4. \A i \in Entries(m, "EXECUTING") :
           m.permit_issued_at <= m.events[i].at /\ m.events[i].at < m.expires_at
    BY <1>2, <1>3, <1>4, <1>6, <2>1 DEF Windowed
  <2>5. m.state \notin Unexecuted /\ m.permit_uses > 0
    BY <1>6, <2>1 DEF Unexecuted, Unpermitted
  <2> QED
    BY <1>5, <2>1, <2>2, <2>3, <2>4, <2>5 DEF Windowed
<1>9. CASE /\ m.state \notin {"PERMITTED", "EXECUTING"}
           /\ m.state = "RECOURSE_RESERVED" =>
                 n.mode # "observed" /\ m.reserved_until >= m.expires_at + RemedyWindow
           /\ Same(n, m, {"state", "events", "preflight_required", "kind", "max_attempts",
                          "remedy_attempts", "remedy_calls", "recourse",
                          "reserved_at", "reserved_until"})
           /\ \/ m.state = "RECOURSE_RESERVED"
              \/ m.reserved_at = n.reserved_at /\ m.reserved_until = n.reserved_until
  <2>1. /\ m.mode = n.mode /\ m.requested_at = n.requested_at
        /\ m.expires_at = n.expires_at
        /\ m.permit_issued_at = n.permit_issued_at /\ m.permit_uses = n.permit_uses
    BY <1>9 DEF Same, Fields, Unregistered
  <2>2. m.mode # "none"
    BY <1>5, <2>1 DEF Windowed
  <2>3. m.state \notin Unreserved => Outlives(m)
    <3>1. CASE m.state = "RECOURSE_RESERVED"
      BY <1>6, <1>9, <2>1, <2>2, <3>1 DEF Outlives, ASSURANCE_MODES
    <3>2. CASE m.state # "RECOURSE_RESERVED"
      BY <1>5, <1>9, <2>1, <3>2 DEF Outlives, Windowed
    <3> QED
      BY <3>1, <3>2
  <2>4. m.permit_issued_at # Never => PermitInsideProposal(m)
    BY <2>1 DEF PermitInsideProposal, Windowed
  <2>5. Entries(m, "EXECUTING") = Entries(n, "EXECUTING")
    BY <1>2, <1>9
  <2>6. \A i \in Entries(m, "EXECUTING") :
           m.permit_issued_at <= m.events[i].at /\ m.events[i].at < m.expires_at
    BY <1>4, <2>1, <2>5 DEF Windowed
  <2>7. /\ m.state \notin Unexecuted => m.permit_uses > 0
        /\ m.state \in Unexecuted => Entries(m, "EXECUTING") = {}
        /\ m.state \notin Unpermitted => m.permit_issued_at # Never
        /\ m.permit_issued_at <= t
    BY <1>5, <1>9, <2>1, <2>5 DEF Windowed
  <2>8. m.state \notin Unpermitted => m.reserved_at <= m.permit_issued_at
    BY <1>5, <1>9, <2>1 DEF Windowed, Unpermitted
  <2> QED
    BY <2>2, <2>3, <2>4, <2>6, <2>7, <2>8 DEF Windowed
<1>10. Permits(n, m, t) \/ Starts(n, m) \/
       (/\ m.state \notin {"PERMITTED", "EXECUTING"}
        /\ m.state = "RECOURSE_RESERVED" =>
              n.mode # "observed" /\ m.reserved_until >= m.expires_at + RemedyWindow
        /\ Same(n, m, {"state", "events", "preflight_required", "kind", "max_attempts",
                       "remedy_attempts", "remedy_calls", "recourse",
                       "reserved_at", "reserved_until"})
        /\ \/ m.state = "RECOURSE_RESERVED"
           \/ m.reserved_at = n.reserved_at /\ m.reserved_until = n.reserved_until)
  BY DEF Moved, Remedies, Marked, Same, Fields, Unregistered
<1> QED
  BY <1>7, <1>8, <1>9, <1>10

(* Nothing but a move bears on what the log has passed.                    *)
LEMMA VisitedStays ==
    ASSUME NEW c, NEW d, Visited(c), d.state = c.state,
           \A s : Entries(d, s) = Entries(c, s),
           d.final_status = c.final_status \/ c.state \in EndStates
    PROVE  Visited(d)
  BY DEF Visited

(* A closing state is not left but for CLOSED, a breach not undone.        *)
LEMMA VisitedMove ==
    ASSUME NEW n \in Slice, NEW m, NEW t, Visited(n), LogsMove(n, m, "", t),
           <<n.state, m.state>> \in ALLOWED_TRANSITIONS, m.state # "CLOSED",
           m.final_status = n.final_status
    PROVE  Visited(m) /\ m.final_status = "none"
<1>1. /\ Entries(m, m.state) = Entries(n, m.state) \cup {Len(n.events) + 1}
      /\ \A s : s # m.state => Entries(m, s) = Entries(n, s)
  BY LogsMoveExtends
<1>2. /\ n.state \notin RECEIPT_STATES /\ n.state \notin EndStates
      /\ n.state \in AfterBreach => m.state \in AfterBreach
  BY DEF ALLOWED_TRANSITIONS, RECEIPT_STATES, DisputedStates, EndStates, WithdrawnStates,
         AfterBreach, Breached
<1>3. \A s \in RECEIPT_STATES : Entries(m, s) # {} => m.state = s
  BY <1>1, <1>2 DEF Visited
<1>4. Entries(m, "BREACHED") # {} => m.state \in AfterBreach
  BY <1>1, <1>2 DEF Visited, AfterBreach, Breached
<1> QED
  BY <1>2, <1>3, <1>4 DEF Visited

(* Evidence keeps its acceptance as other events are logged.               *)
LEMMA KeptStays ==
    ASSUME NEW c \in Slice, NEW d, NEW e, Extends(c, d), Kept(c, e),
           d.events[Len(c.events) + 1].type # AcceptanceOf(e.phase)
    PROVE  Kept(d, e)
<1>1. PICK k \in DOMAIN c.events :
        /\ Positions(c, AcceptanceOf(e.phase)) = {k}
        /\ LedTo(c, k, ObservedIn(e.phase))
        /\ c.events[k].at - e.observed_at \in 0 .. MaxAge
        /\ c.events[k].info = Weighs(e.satisfied)
  BY DEF Kept
<1>2. /\ k \in 1 .. Len(c.events) /\ Len(c.events) \in Nat
      /\ k \in DOMAIN d.events /\ d.events[k] = c.events[k]
      /\ k \in 1 .. (Len(c.events) + 1)
  BY <1>1 DEF Extends, Grows
<1>3. Positions(d, AcceptanceOf(e.phase)) = {k}
  BY <1>1, PositionsGrow DEF Extends
<1>4. LedTo(d, k, ObservedIn(e.phase))
  BY <1>1, <1>2, LedToStays
<1> QED
  BY <1>1, <1>2, <1>3, <1>4 DEF Kept

(* Neither a call nor a note that is no acceptance bears on the evidence.  *)
LEMMA WeighedStays ==
    ASSUME NEW c, NEW d, Assessed(c), d.state = c.state, d.evidence = c.evidence,
           \A i \in DOMAIN c.evidence : Kept(d, c.evidence[i])
    PROVE  Assessed(d)
<1>1. \A phase, satisfied : Shown(c, phase, satisfied) => Shown(d, phase, satisfied)
  BY DEF Shown
<1> QED
  BY <1>1 DEF Assessed

(* A phase of evidence is the initial one or the one after the remedy.     *)
LEMMA AcceptanceTypes ==
    ASSUME NEW phase
    PROVE  /\ AcceptanceOf(phase) \in {"EVIDENCE_ACCEPTED", "REMEDY_EVIDENCE_ACCEPTED"}
           /\ AcceptanceOf(phase) # "STATE_TRANSITION"
  BY DEF AcceptanceOf

(* A move is made on the evidence it needs.                                *)
LEMMA WeighedMove ==
    ASSUME NEW n \in Slice, NEW m, NEW t, Assessed(n), Moved(n, m, t)
    PROVE  Assessed(m) /\ m.evidence = n.evidence
<1>1. PICK info : LogsMove(n, m, info, t)
  BY DEF Moved
<1>2. Extends(n, m) /\ m.events[Len(n.events) + 1].type = "STATE_TRANSITION"
  BY <1>1, LogsMoveExtends
<1>3. /\ <<n.state, m.state>> \in ALLOWED_TRANSITIONS
      /\ m.evidence = n.evidence
      /\ m.state = "SATISFIED" => Shown(n, "initial", TRUE)
      /\ m.state = "BREACHED" => Shown(n, "initial", FALSE)
      /\ m.state = "REMEDIATED" => Shown(n, "post-remedy", TRUE)
  <2>1. CASE Permits(n, m, t)
    BY <2>1 DEF Moved, Permits, Same, Fields, Unregistered
  <2>2. CASE Starts(n, m)
    BY <2>2 DEF Moved, Starts, Same, Fields, Unregistered
  <2>3. CASE Remedies(n, m)
    BY <2>3 DEF Moved, Remedies, Same, Fields, Unregistered
  <2>4. CASE m.state \in {"AUTHORIZED", "DENIED"}
    <3>1. Same(n, m, {"state", "events", "preflight_required"})
      BY <2>4 DEF Moved, Permits, Starts, Remedies, Marked
    <3> QED
      BY <2>4, <3>1 DEF Moved, Same, Fields, Unregistered
  <2>6. CASE m.state = "RECOURSE_RESERVED"
    <3>1. Same(n, m, {"state", "events", "kind", "reserved_at", "reserved_until",
                      "max_attempts"})
      BY <2>6 DEF Moved, Permits, Starts, Remedies, Marked
    <3> QED
      BY <2>6, <3>1 DEF Moved, Same, Fields, Unregistered
  <2>5. CASE m.state \notin Marked
    <3>1. Same(n, m, {"state", "events"})
      BY <2>5 DEF Moved, Permits, Starts, Remedies, Marked
    <3>2. m.evidence = n.evidence
      BY <3>1 DEF Same, Fields, Unregistered
    <3> QED
      BY <2>5, <3>2 DEF Moved, Permits, Starts, Remedies, Marked
  <2> QED
    BY <2>1, <2>2, <2>3, <2>4, <2>5, <2>6 DEF Moved, Marked
<1>4. m.state \in Breached => m.state = "BREACHED" \/ n.state \in Breached
  BY <1>3 DEF ALLOWED_TRANSITIONS, Breached
<1>5. \A i \in DOMAIN n.evidence : Kept(m, n.evidence[i])
  BY <1>2, AcceptanceTypes, KeptStays DEF Assessed
<1>6. \A phase, satisfied : Shown(n, phase, satisfied) => Shown(m, phase, satisfied)
  BY <1>3 DEF Shown
<1>7. m.state \in Breached => Shown(n, "initial", FALSE)
  BY <1>3, <1>4 DEF Assessed
<1> QED
  BY <1>3, <1>5, <1>6, <1>7 DEF Assessed

(* New evidence is fresh and is accepted where its phase is observed.      *)
LEMMA WeighedAccept ==
    ASSUME NEW w \in Slice, NEW n \in Slice, NEW t \in Nat, Assessed(w), Led(w),
           NEW phase \in {"initial", "post-remedy"}, NEW satisfied \in BOOLEAN,
           NEW o \in Nat, t - o \in 0 .. MaxAge,
           Logs(w, n, AcceptanceOf(phase), Weighs(satisfied), t),
           n.evidence = Append(w.evidence, [phase |-> phase, satisfied |-> satisfied,
                                            observed_at |-> o, own |-> TRUE]),
           n.state = w.state, w.state = ObservedIn(phase),
           Positions(w, AcceptanceOf(phase)) = {}
    PROVE  Assessed(n)
<1> DEFINE k == Len(w.events)
           e == [phase |-> phase, satisfied |-> satisfied, observed_at |-> o,
                 own |-> TRUE]
           j == Len(w.evidence)
<1>1. /\ Extends(w, n)
      /\ n.events[k + 1] =
            [type |-> AcceptanceOf(phase), from |-> "none", to |-> "none",
             at |-> t, info |-> Weighs(satisfied)]
  BY AcceptanceTypes, LogsExtends
<1>2. /\ n.events[k + 1].type = AcceptanceOf(phase) /\ n.events[k + 1].at = t
      /\ n.events[k + 1].info = Weighs(satisfied)
  BY <1>1
<1> HIDE DEF e
<1>3. j \in Nat /\ DOMAIN w.evidence = 1 .. j /\ k \in Nat
  <2>1. w.evidence \in Seq(Evidence) /\ w.events \in Seq(Event)
    BY DEF Slice
  <2> QED
    BY <2>1
<1>4. /\ DOMAIN n.evidence = 1 .. (j + 1) /\ n.evidence[j + 1] = e
      /\ \A i \in 1 .. j : n.evidence[i] = w.evidence[i]
  <2>1. n.evidence = Append(w.evidence, e)
    BY DEF e
  <2> QED
    <3>1. w.evidence \in Seq(Evidence)
      BY DEF Slice
    <3> QED
      BY <1>3, <2>1, <3>1
<1>5. e.phase = phase /\ e.satisfied = satisfied /\ e.observed_at = o /\ e.own
  BY DEF e
<1>6. Kept(n, e)
  <2>1. Positions(n, AcceptanceOf(phase)) = {k + 1}
    BY <1>1, <1>2, PositionsGrow DEF Extends
  <2>2. LedTo(n, k + 1, ObservedIn(phase))
    <3>1. LedTo(w, k + 1, ObservedIn(phase))
      BY LedIsLedTo
    <3>2. k + 1 \in 1 .. (Len(w.events) + 1)
      BY <1>3
    <3> HIDE DEF k
    <3> QED
      BY <1>1, <3>1, <3>2, LedToStays
  <2>3. k + 1 \in DOMAIN n.events
    BY <1>1, <1>3 DEF Extends, Grows
  <2> HIDE DEF k
  <2> QED
    BY <1>2, <1>5, <2>1, <2>2, <2>3 DEF Kept
<1>7. ASSUME NEW i \in 1 .. j PROVE Kept(n, w.evidence[i])
  <2> DEFINE g == w.evidence[i]
  <2>1. Kept(w, g)
    BY <1>3 DEF Assessed
  <2>2. AcceptanceOf(g.phase) # AcceptanceOf(phase)
    BY <2>1 DEF Kept
  <2> HIDE DEF g
  <2>3. Kept(n, g)
    BY <1>1, <1>2, <2>1, <2>2, KeptStays
  <2> QED
    BY <2>3 DEF g
<1> HIDE DEF k, j
<1>8. \A i \in DOMAIN n.evidence : Kept(n, n.evidence[i])
  <2> SUFFICES ASSUME NEW i \in 1 .. (j + 1) PROVE Kept(n, n.evidence[i])
    BY <1>4
  <2>1. CASE i = j + 1
    BY <1>4, <1>6, <2>1
  <2>2. CASE i \in 1 .. j
    BY <1>4, <1>7, <2>2
  <2> QED
    BY <1>3, <2>1, <2>2
<1>9. \A p, s : Shown(w, p, s) => Shown(n, p, s)
  BY <1>3, <1>4 DEF Shown
<1> QED
  BY <1>8, <1>9 DEF Assessed

-------------------------------------------------------------------------------
(* Each relation of a walk keeps an open action fit for a bundle. *)

(* What is read of a log is read of the events alone.                      *)
LEMMA SameEvents ==
    ASSUME NEW c, NEW d, d.events = c.events
    PROVE  /\ Moves(d) = Moves(c)
           /\ \A s : Entries(d, s) = Entries(c, s)
           /\ \A type : Positions(d, type) = Positions(c, type)
           /\ \A k, s : LedTo(c, k, s) => LedTo(d, k, s)
           /\ \A e : Kept(c, e) => Kept(d, e)
           /\ \A t : Chained(c, t) => Chained(d, t)
<1>1. Moves(d) = Moves(c)
  BY DEF Moves
<1>2. \A s : Entries(d, s) = Entries(c, s)
  BY <1>1 DEF Entries
<1>3. \A type : Positions(d, type) = Positions(c, type)
  BY DEF Positions
<1>4. \A k, s : LedTo(c, k, s) => LedTo(d, k, s)
  BY <1>1 DEF LedTo
<1>5. \A e : Kept(c, e) => Kept(d, e)
  BY <1>3, <1>4 DEF Kept
<1>6. \A t : Chained(c, t) => Chained(d, t)
  BY <1>1, <1>4 DEF Chained
<1> QED
  BY <1>1, <1>2, <1>3, <1>4, <1>5, <1>6

(* A step that appends nothing and keeps state, evidence and terms.        *)
LEMMA OpenFields ==
    ASSUME NEW c, NEW d, NEW t, Open(c, t), d.state = c.state, d.events = c.events,
           d.evidence = c.evidence, d.final_status = c.final_status, Terms(d) = Terms(c)
    PROVE  Open(d, t)
<1>1. /\ \A s : Entries(d, s) = Entries(c, s)
      /\ \A e : Kept(c, e) => Kept(d, e)
      /\ Chained(d, t)
  BY SameEvents DEF Open
<1>2. Windowed(d, t)
  BY <1>1, WindowedStays DEF Open
<1>3. Visited(d)
  BY <1>1, VisitedStays DEF Open
<1>4. Assessed(d)
  <2>1. \A i \in DOMAIN c.evidence : Kept(d, c.evidence[i])
    BY <1>1 DEF Open, Assessed
  <2> QED
    BY <2>1, WeighedStays DEF Open
<1> QED
  BY <1>1, <1>2, <1>3, <1>4 DEF Open

(* A note that accepts no evidence.                                        *)
LEMMA OpenNote ==
    ASSUME NEW c \in Slice, NEW d, NEW t \in Nat, Open(c, t), NEW type, NEW info,
           Logs(c, d, type, info, t), type # "STATE_TRANSITION",
           type \notin {"EVIDENCE_ACCEPTED", "REMEDY_EVIDENCE_ACCEPTED"},
           c.events # <<>>, d.state = c.state, d.evidence = c.evidence,
           d.final_status = c.final_status \/ c.state \in EndStates,
           Terms(d) = Terms(c)
    PROVE  Open(d, t) /\ \A phase : Positions(d, AcceptanceOf(phase))
                                       = Positions(c, AcceptanceOf(phase))
<1>1. /\ Extends(c, d)
      /\ \A s : Entries(d, s) = Entries(c, s)
  BY LogsExtends
<1>2. d.events[Len(c.events) + 1].type = type
  BY LogsGrows
<1>3. Chained(d, t)
  BY ChainedLogs DEF Open
<1>4. \A i \in Entries(c, "EXECUTING") : d.events[i] = c.events[i]
  BY <1>1 DEF Extends, Grows, Entries, Moves
<1>5. Windowed(d, t)
  BY <1>1, <1>4, WindowedStays DEF Open
<1>6. Visited(d)
  BY <1>1, VisitedStays DEF Open
<1>7. \A phase : type # AcceptanceOf(phase)
  BY AcceptanceTypes
<1>8. Assessed(d)
  <2>1. \A i \in DOMAIN c.evidence : Kept(d, c.evidence[i])
    BY <1>1, <1>2, <1>7, KeptStays DEF Open, Assessed
  <2> QED
    BY <2>1, WeighedStays DEF Open
<1>9. ASSUME NEW phase
      PROVE  Positions(d, AcceptanceOf(phase)) = Positions(c, AcceptanceOf(phase))
  BY <1>1, <1>2, <1>7, PositionsStay DEF Extends
<1>10. d.events # <<>>
  BY <1>1 DEF Extends, Grows
<1> QED
  BY <1>3, <1>5, <1>6, <1>8, <1>9, <1>10 DEF Open

(* No call is sent and no evidence accepted.                               *)
LEMMA SingleStays ==
    ASSUME NEW c, NEW d, Single(c), d.state = c.state,
           \A phase \in {"initial", "post-remedy"} :
              /\ Positions(d, AcceptanceOf(phase)) = Positions(c, AcceptanceOf(phase))
              /\ d.awaiting[Observes(phase)] > 0 => c.awaiting[Observes(phase)] > 0
    PROVE  Single(d)
  BY DEF Single

(* An answer, and the evidence it brings.                                  *)
LEMMA HeardOpen ==
    ASSUME ~ForeignFacts, NEW c, Good(c), Faithful(c), Observing(c),
           NEW t \in Nat, now \in Nat, t <= now, now <= t,
           Open(c, t), Single(c), NEW n, NEW op, NEW answer, Heard(c, n, op, answer, t)
    PROVE  Open(n, t) /\ Single(n) /\ Terms(n) = Terms(c)
<1>1. PICK w \in Slice : /\ Resumed(c, w, op, answer) \/ Reserved(c, w, op, answer)
                         /\ n = w \/ Rejected(w, n, op, t) \/ Accepted(w, n, op, t)
  BY DEF Heard
<1>2. n \in Slice /\ op \in Answering /\ c \in Slice
  BY DEF Heard, Faithful
<1>3. /\ w.state = c.state /\ w.events = c.events /\ w.evidence = c.evidence
      /\ w.final_status = c.final_status /\ Terms(w) = Terms(c)
  BY <1>1 DEF Resumed, Reserved, Same, Fields, Unregistered, Terms
<1>4. /\ \A p \in Operations : w.awaiting[p] > 0 => c.awaiting[p] > 0
      /\ op \in {"observe", "observeRemedy"} =>
            c.awaiting[op] > 0 /\ w.awaiting[op] = c.awaiting[op] - 1
  <2>1. c.awaiting \in [Operations -> Nat]
    BY <1>2 DEF Slice
  <2>2. CASE w.awaiting = c.awaiting /\ op = "none"
    BY <2>2
  <2>3. CASE /\ op \in Operations /\ c.awaiting[op] > 0
             /\ w.awaiting = [c.awaiting EXCEPT ![op] = c.awaiting[op] - 1]
    BY <2>1, <2>3
  <2>4. CASE Resumed(c, w, op, answer)
    BY <1>2, <2>2, <2>3, <2>4 DEF Resumed, Answering
  <2>5. CASE Reserved(c, w, op, answer)
    BY <2>2, <2>5 DEF Reserved, Same, Fields, Unregistered
  <2> QED
    BY <1>1, <2>4, <2>5
<1>5. \A phase \in {"initial", "post-remedy"} : Observes(phase) \in Operations
  BY DEF Observes, Operations
<1>6. Open(w, t)
  BY <1>3, OpenFields
<1>7. Single(w)
  <2>1. \A phase : Positions(w, AcceptanceOf(phase)) = Positions(c, AcceptanceOf(phase))
    BY <1>3, SameEvents
  <2> QED
    BY <1>3, <1>4, <1>5, <2>1, SingleStays
<1>8. CASE n = w
  BY <1>3, <1>6, <1>7, <1>8
<1>9. CASE op \notin {"observe", "observeRemedy"}
  BY <1>1, <1>8, <1>9 DEF Rejected, Accepted
<1>10. CASE op \in {"observe", "observeRemedy"} /\ n # w
  <2>1. /\ n.state = w.state /\ n.final_status = w.final_status
        /\ Terms(n) = Terms(w) /\ n.awaiting = w.awaiting
    <3>1. Same(w, n, {"events", "evidence"})
      BY <1>1, <1>10 DEF Rejected, Accepted, Same
    <3> QED
      BY <3>1 DEF Same, Fields, Unregistered, Terms
  <2>2. PICK phase \in {"initial", "post-remedy"} : op = Observes(phase)
    BY <1>10 DEF Observes
  <2>3. c.state = ObservedIn(phase) /\ c.awaiting[op] = 1
    <3>1. c.awaiting["observe"] \in Nat /\ c.awaiting["observeRemedy"] \in Nat
      BY <1>2 DEF Slice, Operations
    <3>2. CASE op = "observe"
      <4>1. phase = "initial" /\ c.awaiting["observe"] > 0
        BY <1>4, <2>2, <3>2 DEF Observes
      <4>2. c.state = "VERIFYING" /\ c.awaiting["observe"] <= 1
        BY <4>1 DEF Good, Resumable
      <4> QED
        BY <3>1, <3>2, <4>1, <4>2 DEF ObservedIn
    <3>3. CASE op = "observeRemedy"
      <4>1. phase = "post-remedy" /\ c.awaiting["observeRemedy"] > 0
        BY <1>4, <2>2, <3>3 DEF Observes
      <4>2. c.state = "REMEDY_VERIFYING" /\ c.awaiting["observeRemedy"] <= 1
        BY <4>1 DEF Observing
      <4> QED
        BY <3>1, <3>3, <4>1, <4>2 DEF ObservedIn
    <3> QED
      BY <1>10, <3>2, <3>3
  <2>4. Led(w) /\ c.events # <<>>
    <3>1. Led(c) /\ c.state # "PROPOSED"
      BY <2>3 DEF Faithful, Told, ObservedIn
    <3>2. c.events # <<>>
      BY <3>1 DEF Led, Moves
    <3> QED
      BY <1>3, <3>1, <3>2, SameEvents DEF Led
  <2>5. n.awaiting[op] = 0 /\ n.state \notin Unobserved(phase)
    <3>1. ObservedIn(phase) \notin Unobserved(phase)
      BY DEF ObservedIn, Unobserved, Unexecuted, Unpermitted, BeforeRemedy
    <3> QED
      BY <1>3, <1>4, <1>10, <2>1, <2>3, <3>1
  <2>6. CASE Rejected(w, n, op, t)
    <3>1. PICK type \in {"EVIDENCE_REJECTED", "REMEDY_EVIDENCE_REJECTED"} :
             \E info : Logs(w, n, type, info, t)
      BY <2>6 DEF Rejected
    <3>2. n.evidence = w.evidence
      BY <2>6 DEF Rejected, Same, Fields, Unregistered
    <3>3. PICK info : Logs(w, n, type, info, t)
      BY <3>1
    <3>4. /\ Open(n, t)
          /\ \A p : Positions(n, AcceptanceOf(p)) = Positions(w, AcceptanceOf(p))
      BY <1>3, <1>6, <2>1, <2>4, <3>2, <3>3, OpenNote
    <3>5. Single(n)
      BY <1>7, <2>1, <3>4, SingleStays
    <3> QED
      BY <1>3, <2>1, <3>4, <3>5
  <2>7. CASE Accepted(w, n, op, t)
    <3>1. PICK satisfied \in BOOLEAN, o \in Fresh :
             /\ Logs(w, n, AcceptanceOf(phase), Weighs(satisfied), t)
             /\ n.evidence = Append(w.evidence, [phase |-> phase,
                                 satisfied |-> satisfied, observed_at |-> o, own |-> TRUE])
      BY <2>2, <2>7 DEF Accepted, Ownership, Observes, AcceptanceOf
    <3>2. o \in Nat /\ t - o \in 0 .. MaxAge
      BY InputAssumption DEF Fresh
    <3>3. Positions(w, AcceptanceOf(phase)) = {}
      <4>1. c.awaiting[Observes(phase)] > 0
        BY <1>4, <1>10, <2>2
      <4>2. Positions(c, AcceptanceOf(phase)) = {}
        BY <4>1 DEF Single
      <4> QED
        BY <1>3, <4>2, SameEvents
    <3>4. Assessed(n)
      BY <1>2, <1>3, <1>6, <2>1, <2>3, <2>4, <3>1, <3>2, <3>3, WeighedAccept DEF Open
    <3> DEFINE type == AcceptanceOf(phase)
               info == Weighs(satisfied)
    <3>5. type # "STATE_TRANSITION" /\ Logs(w, n, type, info, t)
      BY <3>1, AcceptanceTypes
    <3> HIDE DEF type, info
    <3>6. /\ Extends(w, n) /\ n.events[Len(w.events) + 1].type = type
          /\ \A s : Entries(n, s) = Entries(w, s)
      BY <3>5, LogsExtends, LogsGrows
    <3>7. Chained(n, t)
      BY <1>3, <1>6, <2>4, <3>5, ChainedLogs DEF Open
    <3>8. Windowed(n, t)
      <4>1. \A i \in Entries(w, "EXECUTING") : n.events[i] = w.events[i]
        BY <3>6 DEF Extends, Grows, Entries, Moves
      <4> QED
        BY <1>6, <2>1, <3>6, <4>1, WindowedStays DEF Open
    <3>9. Visited(n)
      BY <1>6, <2>1, <3>6, VisitedStays DEF Open
    <3>10. Single(n)
      <4> SUFFICES ASSUME NEW p \in {"initial", "post-remedy"},
                          n.state \in Unobserved(p) \/ n.awaiting[Observes(p)] > 0
                   PROVE  Positions(n, AcceptanceOf(p)) = {}
        BY DEF Single
      <4>1. p # phase
        BY <2>2, <2>5
      <4>2. AcceptanceOf(p) # type
        BY <4>1 DEF AcceptanceOf, type
      <4>3. Positions(n, AcceptanceOf(p)) = Positions(w, AcceptanceOf(p))
        BY <3>6, <4>2, PositionsStay DEF Extends
      <4> QED
        BY <1>7, <2>1, <4>3 DEF Single
    <3>11. n.events # <<>>
      BY <3>6 DEF Extends, Grows
    <3> QED
      BY <1>3, <2>1, <3>4, <3>7, <3>8, <3>9, <3>10, <3>11 DEF Open
  <2> QED
    BY <1>1, <1>10, <2>6, <2>7
<1> QED
  BY <1>8, <1>9, <1>10

(* A move.                                                                 *)
LEMMA MovedOpen ==
    ASSUME NEW n \in Slice, Faithful(n), NEW t \in Nat, now \in Nat, t <= now, now <= t,
           Open(n, t), n.requested_at <= t,
           n.state = "RECOURSE_RESERVED" => n.reserved_at <= t,
           NEW m \in Slice, Moved(n, m, t),
           m.state \in {"EXPIRED", "REVOKED"} => n.state # "AUTHORIZED"
    PROVE  /\ Open(m, t) /\ m.final_status = "none"
           /\ \A phase : Positions(m, AcceptanceOf(phase))
                            = Positions(n, AcceptanceOf(phase))
<1>1. PICK info : LogsMove(n, m, info, t)
  BY DEF Moved
<1>2. /\ <<n.state, m.state>> \in ALLOWED_TRANSITIONS
      /\ n.state # "UNREGISTERED"
      /\ m.state # "CLOSED" /\ LogsMove(n, m, "", t)
  BY DEF Moved, Permits, Starts, Remedies, Marked, ALLOWED_TRANSITIONS
<1>3. Extends(n, m) /\ m.events[Len(n.events) + 1].type = "STATE_TRANSITION"
  BY <1>1, LogsMoveExtends
<1>4. Chained(m, t)
  BY <1>1, <1>2, ChainedMove DEF Open, Faithful, Told
<1>5. Windowed(m, t)
  BY WindowedMove DEF Open
<1>6. m.final_status = n.final_status
  BY DEF Moved, Permits, Starts, Remedies, Same, Fields, Unregistered
<1>7. Visited(m) /\ m.final_status = "none"
  BY <1>2, <1>6, VisitedMove DEF Open
<1>8. Assessed(m)
  BY WeighedMove DEF Open
<1>9. \A phase : Positions(m, AcceptanceOf(phase)) = Positions(n, AcceptanceOf(phase))
  BY <1>3, AcceptanceTypes, PositionsStay DEF Extends
<1>10. m.events # <<>>
  BY <1>3 DEF Extends, Grows
<1> QED
  BY <1>4, <1>5, <1>7, <1>8, <1>9, <1>10 DEF Open

(* Evidence that is kept passes the verifier.                              *)
LEMMA EvidenceVerifies ==
    ASSUME NEW c \in Slice, NEW e \in Evidence, Kept(c, e)
    PROVE  EvidenceHolds(c, e)
<1>1. PICK k \in DOMAIN c.events :
        /\ Positions(c, AcceptanceOf(e.phase)) = {k}
        /\ LedTo(c, k, ObservedIn(e.phase))
        /\ c.events[k].at - e.observed_at \in 0 .. MaxAge
        /\ c.events[k].info = Weighs(e.satisfied)
  BY DEF Kept
<1>2. k \in Nat
  BY DEF Slice
<1>3. StateBeforeEvent(c, k) = ObservedIn(e.phase)
  BY <1>1, <1>2, LedToState
<1>4. Min({k}) = k
  BY <1>2 DEF Min
<1> DEFINE acceptances ==
       {i \in DOMAIN c.events :
           c.events[i].type = IF e.phase = "initial" THEN "EVIDENCE_ACCEPTED"
                              ELSE "REMEDY_EVIDENCE_ACCEPTED"}
<1>5. acceptances = {k}
  BY <1>1 DEF Positions, AcceptanceOf
<1> HIDE DEF acceptances
<1>6. acceptances # {} /\ Min(acceptances) = k
  BY <1>4, <1>5
<1>7. /\ StateBeforeEvent(c, Min(acceptances)) =
            IF e.phase = "initial" THEN "VERIFYING" ELSE "REMEDY_VERIFYING"
      /\ c.events[Min(acceptances)].at - e.observed_at \in 0 .. MaxAge
      /\ c.events[Min(acceptances)].info =
            IF e.satisfied THEN "satisfied" ELSE "unsatisfied"
  BY <1>1, <1>3, <1>6 DEF ObservedIn, Weighs
<1>8. e.own
  BY DEF Kept
<1> QED
  BY <1>6, <1>7, <1>8 DEF EvidenceHolds, acceptances

(* A chain that leads to CLOSED replays.                                   *)
LEMMA ChainReplays ==
    ASSUME NEW c \in Slice, NEW t, Chained(c, t), Led(c), c.state = "CLOSED"
    PROVE  ReplayHolds(c)
<1>1. \A i \in DOMAIN c.events : i > 1 => c.events[i - 1].at <= c.events[i].at
  BY DEF Chained
<1>2. ASSUME NEW i \in Moves(c)
      PROVE  /\ c.events[i].from = StateBeforeEvent(c, i)
             /\ <<c.events[i].from, c.events[i].to>> \in ALLOWED_TRANSITIONS
  <2>1. i \in Nat
    BY DEF Moves, Slice
  <2>2. LedTo(c, i, c.events[i].from)
    BY DEF Chained
  <2>3. StateBeforeEvent(c, i) = c.events[i].from
    BY <2>1, <2>2, LedToState
  <2> QED
    BY <2>3 DEF Chained
<1>3. StateBeforeEvent(c, Len(c.events) + 1) = "CLOSED"
  BY LedState
<1> QED
  BY <1>1, <1>2, <1>3 DEF ReplayHolds

(* A state is replayed when the log enters it.                             *)
LEMMA Replayed ==
    ASSUME NEW c, NEW s, s # "PROPOSED"
    PROVE  s \in ReplayedStates(c) <=> Entries(c, s) # {}
  BY DEF ReplayedStates, Entries

(* The outcome close() writes is the one the verifier derives, and the     *)
(* evidence it rests on is there.                                          *)
LEMMA OutcomeFollows ==
    ASSUME NEW f \in Slice, NEW t, Open(f, t), Led(f), f.state \in RECEIPT_STATES,
           NEW x, \A s : s # "CLOSED" => Entries(x, s) = Entries(f, s),
           x.evidence = f.evidence
    PROVE  DeriveOutcome(x) = RECEIPT_OUTCOME_BY_STATE[f.state] /\ OutcomeHolds(x)
<1>1. RECEIPT_STATES = {"SATISFIED", "REMEDIATED", "INCONCLUSIVE", "REMEDY_INCONCLUSIVE",
                        "REVIEW_REQUIRED", "REMEDY_FAILED"}
  BY DEF RECEIPT_STATES, DisputedStates
<1>2. Entries(f, f.state) # {}
  BY <1>1 DEF Led, Entries
<1>3. \A s \in RECEIPT_STATES : s \in ReplayedStates(x) <=> s = f.state
  <2>1. \A s \in RECEIPT_STATES : s \in ReplayedStates(x) <=> Entries(f, s) # {}
    BY <1>1, Replayed
  <2> QED
    BY <1>2, <2>1 DEF Open, Visited
<1>4. RECEIPT_OUTCOME_BY_STATE[f.state] =
         IF f.state = "SATISFIED" THEN "settled"
         ELSE IF f.state = "REMEDIATED" THEN "compensated" ELSE "disputed"
  BY DEF RECEIPT_OUTCOME_BY_STATE
<1>5. f.state \in DisputedStates <=> f.state \notin {"SATISFIED", "REMEDIATED"}
  BY <1>1 DEF DisputedStates
<1>6. DeriveOutcome(x) = RECEIPT_OUTCOME_BY_STATE[f.state]
  <2>1. ReplayedStates(x) \cap DisputedStates # {} <=> f.state \in DisputedStates
    BY <1>3 DEF RECEIPT_STATES
  <2>2. "REMEDIATED" \in ReplayedStates(x) <=> f.state = "REMEDIATED"
    BY <1>1, <1>3
  <2>3. "SATISFIED" \in ReplayedStates(x) <=> f.state = "SATISFIED"
    BY <1>1, <1>3
  <2> QED
    BY <1>4, <1>5, <2>1, <2>2, <2>3 DEF DeriveOutcome
<1> DEFINE accepted == {<<x.evidence[i].phase, x.evidence[i].satisfied>> :
                           i \in DOMAIN x.evidence}
<1>7. \A phase, satisfied :
         Shown(f, phase, satisfied) => <<phase, satisfied>> \in accepted
  BY DEF Shown
<1> HIDE DEF accepted
<1>8. CASE f.state = "SATISFIED"
  <2>1. <<"initial", TRUE>> \in accepted
    BY <1>7, <1>8 DEF Open, Assessed
  <2>2. "BREACHED" \notin ReplayedStates(x)
    <3>1. Entries(f, "BREACHED") = {}
      BY <1>8 DEF Open, Visited, AfterBreach, Breached, DisputedStates
    <3>2. Entries(x, "BREACHED") = {}
      BY <3>1
    <3> QED
      BY <3>2, Replayed
  <2>3. DeriveOutcome(x) = "settled"
    BY <1>4, <1>6, <1>8
  <2> QED
    BY <1>6, <2>1, <2>2, <2>3 DEF OutcomeHolds, accepted
<1>9. CASE f.state = "REMEDIATED"
  <2>1. /\ <<"initial", FALSE>> \in accepted
        /\ <<"post-remedy", TRUE>> \in accepted
    BY <1>7, <1>9 DEF Open, Assessed, Breached
  <2>2. DeriveOutcome(x) = "compensated"
    BY <1>4, <1>6, <1>9
  <2> QED
    BY <1>6, <2>1, <2>2 DEF OutcomeHolds, accepted
<1>10. CASE f.state \in DisputedStates
  <2>1. DeriveOutcome(x) = "disputed"
    BY <1>4, <1>5, <1>6, <1>10
  <2>2. ReplayedStates(x) \cap DisputedStates # {}
    BY <1>3, <1>10
  <2> QED
    BY <1>6, <2>1, <2>2 DEF OutcomeHolds
<1> QED
  BY <1>5, <1>8, <1>9, <1>10

(* The recourse status is recorded once, right before CLOSED.              *)
LEMMA RecordedOnce ==
    ASSUME NEW r \in Slice, Led(r), Told(r), NEW f \in Slice, NEW t,
           r.state \in RECEIPT_STATES, Recorded(r, f, t),
           NEW x \in Slice, Closed(f, x, t), r.receipt = <<>>, Exportable(x),
           DeriveOutcome(x) = RECEIPT_OUTCOME_BY_STATE[f.state]
    PROVE  RecourseHolds(x)
<1> DEFINE k == Len(r.events)
           type == IF r.recourse = "active" THEN "RECOURSE_STATUS_RECORDED"
                                            ELSE "RECOURSE_FINALIZED"
<1>1. /\ Logs(r, f, type, r.recourse, t)
      /\ r.final_status = "none" /\ f.final_status = r.recourse
      /\ f.state = r.state
  BY DEF Recorded, Same, Fields, Unregistered
<1>2. type \in {"RECOURSE_STATUS_RECORDED", "RECOURSE_FINALIZED"}
  OBVIOUS
<1> HIDE DEF type
<1>3. /\ Extends(r, f)
      /\ f.events[k + 1] = [type |-> type, from |-> "none", to |-> "none",
                            at |-> t, info |-> r.recourse]
  BY <1>1, <1>2, LogsExtends
<1>4. f.events[k + 1].type = type /\ f.events[k + 1].info = r.recourse
  BY <1>3
<1>5. LogsMove(f, x, RECEIPT_OUTCOME_BY_STATE[f.state], t)
  BY DEF Closed
<1>6. /\ Extends(f, x)
      /\ x.events[Len(f.events) + 1].type = "STATE_TRANSITION"
  BY <1>5, LogsMoveExtends
<1>7. /\ k \in Nat /\ Len(f.events) = k + 1 /\ Len(x.events) = k + 2
      /\ DOMAIN r.events = 1 .. k /\ DOMAIN x.events = 1 .. (k + 2)
      /\ \A i \in 1 .. k : x.events[i] = r.events[i]
      /\ x.events[k + 1] = f.events[k + 1]
  BY <1>3, <1>6 DEF Extends, Grows
<1> DEFINE records == {i \in DOMAIN x.events :
                          x.events[i].type \in
                             {"RECOURSE_STATUS_RECORDED", "RECOURSE_FINALIZED"}}
<1>8. records = {k + 1}
  <2>1. \A i \in 1 .. k :
           r.events[i].type \notin {"RECOURSE_STATUS_RECORDED", "RECOURSE_FINALIZED"}
    BY <1>1, <1>7 DEF Told, Finalized, Logged
  <2>2. x.events[k + 2].type = "STATE_TRANSITION"
    BY <1>6, <1>7
  <2> HIDE DEF k
  <2>3. \A i \in 1 .. (k + 2) :
           x.events[i].type \in {"RECOURSE_STATUS_RECORDED", "RECOURSE_FINALIZED"}
              <=> i = k + 1
    <3> SUFFICES ASSUME NEW i \in 1 .. (k + 2)
                 PROVE  x.events[i].type \in
                           {"RECOURSE_STATUS_RECORDED", "RECOURSE_FINALIZED"}
                              <=> i = k + 1
      OBVIOUS
    <3>1. CASE i \in 1 .. k
      BY <1>7, <2>1, <3>1
    <3>2. CASE i = k + 1
      BY <1>2, <1>4, <1>7, <3>2
    <3>3. CASE i = k + 2
      BY <1>7, <2>2, <3>3
    <3> QED
      BY <1>7, <3>1, <3>2, <3>3
  <2> QED
    BY <1>7, <2>3
<1>9. x.receipt[1].recourse_final_status = r.recourse
  <2>1. f.receipt = <<>>
    BY DEF Recorded, Same, Fields, Unregistered
  <2> QED
    BY <1>1, <2>1 DEF Closed, Exportable
<1>10. StateBeforeEvent(x, k + 1) = f.state
  <2>1. LedTo(r, k + 1, r.state)
    BY LedIsLedTo
  <2>2. /\ k + 1 \in 1 .. (Len(r.events) + 1)
        /\ k + 1 \in 1 .. (Len(f.events) + 1)
        /\ k + 1 \in Nat
    BY <1>7
  <2> HIDE DEF k
  <2>3. LedTo(f, k + 1, r.state)
    BY <1>3, <2>1, <2>2, LedToStays
  <2>4. LedTo(x, k + 1, r.state)
    BY <1>6, <2>2, <2>3, LedToStays
  <2> QED
    BY <1>1, <2>2, <2>4, LedToState
<1>11. Len(x.events) - 1 = k + 1
  BY <1>7
<1> HIDE DEF k
<1>12. x.events[k + 1].info = r.recourse /\ x.events[k + 1].type = type
  BY <1>4, <1>7
<1>13. type = IF r.recourse = "active" THEN "RECOURSE_STATUS_RECORDED"
              ELSE "RECOURSE_FINALIZED"
  BY DEF type
<1> QED
  BY <1>1, <1>8, <1>9, <1>10, <1>11, <1>12, <1>13 DEF RecourseHolds

(* The receipt that close() cuts makes the bundle one that verifies.       *)
LEMMA ClosedVerifies ==
    ASSUME NEW r \in Slice, Led(r), Told(r), r.state \in RECEIPT_STATES,
           NEW t \in Nat, NEW f \in Slice, Recorded(r, f, t),
           Open(f, t), Led(f), Told(f), f.permit_uses <= 1, r.receipt = <<>>,
           NEW x \in Slice, Closed(f, x, t), Exportable(x)
    PROVE  VerifiesBundle(x)
<1> DEFINE outcome == RECEIPT_OUTCOME_BY_STATE[f.state]
           n == Len(f.events)
<1>1. /\ f.state = r.state /\ f.state \in RECEIPT_STATES /\ f.events # <<>>
      /\ f.state \notin Unexecuted /\ f.state \notin Unpermitted
      /\ f.state \notin Unreserved /\ f.state # "UNREGISTERED"
  BY DEF Recorded, Same, Fields, Unregistered, RECEIPT_STATES, DisputedStates, Unexecuted,
         Unpermitted, Unreserved, Open
<1>2. /\ x.state = "CLOSED" /\ LogsMove(f, x, outcome, t)
      /\ x.evidence = f.evidence /\ Terms(x) = Terms(f)
      /\ x.receipt = <<[outcome |-> outcome,
                        recourse_final_status |-> f.final_status,
                        evidence |-> f.evidence,
                        event_chain_head |-> Len(x.events),
                        closed_at |-> t]>>
  <2>1. f.receipt = <<>>
    BY DEF Recorded, Same, Fields, Unregistered
  <2> QED
    BY <2>1 DEF Closed, Exportable, Same, Fields, Unregistered, Terms
<1>3. <<f.state, x.state>> \in ALLOWED_TRANSITIONS
  BY <1>1, <1>2 DEF ALLOWED_TRANSITIONS, RECEIPT_STATES, DisputedStates
<1>4. /\ x.receipt[1].outcome = outcome /\ x.receipt[1].evidence = x.evidence
      /\ x.receipt[1].event_chain_head = Len(x.events) /\ x.receipt[1].closed_at = t
  BY <1>2
<1> HIDE DEF outcome
<1>5. /\ Extends(f, x)
      /\ \A s : s # "CLOSED" => Entries(x, s) = Entries(f, s)
      /\ x.events[n + 1].type = "STATE_TRANSITION" /\ x.events[n + 1].to = "CLOSED"
      /\ x.events[n + 1].at = t /\ x.events[n + 1].info = outcome
  BY <1>2, LogsMoveExtends
<1>6. Led(x)
  BY <1>2, LogsMoveGrows
<1>7. n + 1 = Len(x.events) /\ x.events # <<>>
  BY <1>5 DEF Extends, Grows
<1>8. Chained(x, t)
  BY <1>1, <1>2, <1>3, ChainedMove DEF Open
<1> HIDE DEF n
<1>9. IntegrityHolds(x)
  <2>1. x.events[1].type = "ACTION_PROPOSED"
    BY <1>7, <1>8 DEF Chained
  <2> QED
    BY <1>4, <1>5, <1>7, <2>1 DEF IntegrityHolds
<1>10. ReplayHolds(x)
  BY <1>2, <1>6, <1>8, ChainReplays
<1>11. DeriveOutcome(x) = outcome /\ OutcomeHolds(x)
  BY <1>1, <1>2, <1>5, OutcomeFollows DEF outcome
<1>12. /\ x.mode = f.mode /\ x.requested_at = f.requested_at
       /\ x.expires_at = f.expires_at /\ x.reserved_at = f.reserved_at
       /\ x.reserved_until = f.reserved_until
       /\ x.permit_issued_at = f.permit_issued_at /\ x.permit_uses = f.permit_uses
  BY <1>2 DEF Terms
<1>13. ReservationCovers(x) /\ PermitInsideProposal(x)
  BY <1>1, <1>12 DEF Open, Windowed, Outlives, ReservationCovers, PermitInsideProposal
<1>14. ExecutionInsidePermit(x)
  <2>1. Executions(x) = Entries(x, "EXECUTING")
    BY DEF Executions, Entries
  <2>2. Entries(x, "EXECUTING") = Entries(f, "EXECUTING")
    BY <1>5
  <2>3. Cardinality(Entries(f, "EXECUTING")) = 1
    <3>1. f.permit_uses > 0 /\ f.permit_uses \in Nat
      BY <1>1 DEF Open, Windowed, Slice
    <3> QED
      BY <3>1 DEF Told
  <2>4. \A i \in Entries(f, "EXECUTING") : x.events[i] = f.events[i]
    BY <1>5 DEF Extends, Grows, Entries, Moves
  <2> QED
    BY <1>12, <2>1, <2>2, <2>3, <2>4 DEF ExecutionInsidePermit, Open, Windowed
<1>15. \A i \in DOMAIN x.evidence : EvidenceHolds(x, x.evidence[i])
  <2> SUFFICES ASSUME NEW i \in DOMAIN x.evidence PROVE EvidenceHolds(x, x.evidence[i])
    OBVIOUS
  <2>1. x.evidence[i] \in Evidence
    <3>1. x.evidence \in Seq(Evidence)
      BY DEF Slice
    <3> QED
      BY <3>1
  <2>2. Kept(f, x.evidence[i])
    BY <1>2 DEF Open, Assessed
  <2>3. Kept(x, x.evidence[i])
    <3>1. x.events[Len(f.events) + 1].type # AcceptanceOf(x.evidence[i].phase)
      BY <1>5, AcceptanceTypes DEF n
    <3> QED
      BY <1>5, <2>2, <3>1, KeptStays
  <2> QED
    BY <2>1, <2>3, EvidenceVerifies
<1>16. RecourseHolds(x)
  BY <1>11, RecordedOnce DEF outcome
<1>17. x.events[Len(x.events)].at = x.receipt[1].closed_at
  BY <1>4, <1>5, <1>7
<1> QED
  BY <1>4, <1>9, <1>10, <1>11, <1>13, <1>14, <1>15, <1>16, <1>17
     DEF VerifiesBundle, SemanticsHold

(* The end of an action: still open, or a bundle that verifies.            *)
LEMMA EndingOpen ==
    ASSUME NEW m \in Slice, Faithful(m), m.receipt = <<>>, NEW t \in Nat, Open(m, t),
           m.state \notin {"UNREGISTERED", "CLOSED"},
           m.final_status = "none", m.permit_uses <= 1, NEW x \in Slice, Ending(m, x, t)
    PROVE  \/ /\ x.state # "CLOSED" /\ Open(x, t)
              /\ \A phase : Positions(x, AcceptanceOf(phase))
                               = Positions(m, AcceptanceOf(phase))
           \/ x.state = "CLOSED" /\ (Exportable(x) => VerifiesBundle(x))
<1>1. PICK r \in Slice, f \in Slice : /\ r = m \/ Returned(m, r)
                                      /\ f = r \/ Recorded(r, f, t)
                                      /\ x = f \/ Closed(f, x, t)
  BY DEF Ending
<1>2. /\ r.state = m.state /\ r.events = m.events /\ r.evidence = m.evidence
      /\ r.final_status = "none" /\ r.receipt = <<>> /\ Terms(r) = Terms(m)
  BY <1>1 DEF Returned, Same, Fields, Unregistered, Terms
<1>3. Open(r, t)
  BY <1>2, OpenFields
<1>4. \A phase : Positions(r, AcceptanceOf(phase)) = Positions(m, AcceptanceOf(phase))
  BY <1>2, SameEvents
<1>5. Faithful(r)
  BY <1>1, EndingTold DEF Ending
<1>6. CASE f = r
  <2>1. ~Closed(f, x, t)
    BY <1>2, <1>6 DEF Closed, RECEIPT_RECOURSE_STATUSES
  <2> QED
    BY <1>1, <1>2, <1>3, <1>4, <1>6, <2>1
<1>7. CASE Recorded(r, f, t)
  <2>1. /\ f.state = r.state /\ f.evidence = r.evidence /\ Terms(f) = Terms(r)
        /\ r.state \in EndStates
    BY <1>7 DEF Recorded, Same, Fields, Unregistered, Terms
  <2>2. PICK type \in {"RECOURSE_STATUS_RECORDED", "RECOURSE_FINALIZED"} :
           Logs(r, f, type, r.recourse, t)
    BY <1>7 DEF Recorded
  <2>3. r.events # <<>>
    BY <1>2, <1>3 DEF Open
  <2>4. /\ Open(f, t)
        /\ \A phase : Positions(f, AcceptanceOf(phase))
                         = Positions(r, AcceptanceOf(phase))
    BY <1>3, <2>1, <2>2, <2>3, OpenNote
  <2>5. CASE x = f
    BY <1>2, <1>4, <2>1, <2>4, <2>5
  <2>6. CASE Closed(f, x, t)
    <3>1. r.state \in RECEIPT_STATES /\ x.state = "CLOSED"
      BY <2>1, <2>6 DEF Closed
    <3>2. Faithful(f)
      BY <1>1, EndingTold DEF Ending
    <3>3. Led(r) /\ Told(r) /\ Led(f) /\ Told(f)
      BY <1>2, <1>5, <2>1, <3>2 DEF Faithful, Told
    <3>4. f.permit_uses <= 1
      BY <1>2, <2>1 DEF Terms
    <3> QED
      BY <1>2, <1>7, <2>4, <2>6, <3>1, <3>3, <3>4, ClosedVerifies
  <2> QED
    BY <1>1, <2>5, <2>6
<1> QED
  BY <1>1, <1>6, <1>7

(* The verifier reads nothing but log, evidence, receipt and terms.        *)
LEMMA BundleFields ==
    ASSUME NEW c, NEW d, VerifiesBundle(c), d.events = c.events,
           d.evidence = c.evidence, d.receipt = c.receipt, Terms(d) = Terms(c)
    PROVE  VerifiesBundle(d)
<1>1. Moves(d) = Moves(c) /\ ReplayedStates(d) = ReplayedStates(c)
  BY DEF Moves, ReplayedStates
<1>2. \A i : StateBeforeEvent(d, i) = StateBeforeEvent(c, i)
  BY <1>1 DEF StateBeforeEvent
<1>3. DeriveOutcome(d) = DeriveOutcome(c)
  BY <1>1 DEF DeriveOutcome
<1>4. IntegrityHolds(d)
  BY DEF VerifiesBundle, IntegrityHolds
<1>5. ReplayHolds(d)
  BY <1>1, <1>2 DEF VerifiesBundle, SemanticsHold, ReplayHolds
<1>6. d.receipt[1].outcome = DeriveOutcome(d)
  BY <1>3 DEF VerifiesBundle, SemanticsHold
<1>7. /\ d.mode = c.mode /\ d.requested_at = c.requested_at
      /\ d.expires_at = c.expires_at
      /\ d.reserved_at = c.reserved_at /\ d.reserved_until = c.reserved_until
      /\ d.permit_issued_at = c.permit_issued_at
  BY DEF Terms
<1>8. ReservationCovers(d) /\ PermitInsideProposal(d)
  BY <1>7 DEF VerifiesBundle, SemanticsHold, ReservationCovers, PermitInsideProposal
<1>9. ExecutionInsidePermit(d)
  <2>1. Executions(d) = Executions(c)
    BY <1>1 DEF Executions
  <2> QED
    BY <1>7, <2>1 DEF VerifiesBundle, SemanticsHold, ExecutionInsidePermit
<1>10. \A i \in DOMAIN d.evidence : EvidenceHolds(d, d.evidence[i])
  <2> SUFFICES ASSUME NEW e, EvidenceHolds(c, e) PROVE EvidenceHolds(d, e)
    BY DEF VerifiesBundle, SemanticsHold
  <2> DEFINE acceptances(x) ==
         {i \in DOMAIN x.events :
             x.events[i].type = IF e.phase = "initial" THEN "EVIDENCE_ACCEPTED"
                                ELSE "REMEDY_EVIDENCE_ACCEPTED"}
             fits(x, i) ==
                /\ StateBeforeEvent(x, i) =
                      IF e.phase = "initial" THEN "VERIFYING" ELSE "REMEDY_VERIFYING"
                /\ x.events[i].at - e.observed_at \in 0 .. MaxAge
                /\ x.events[i].info = IF e.satisfied THEN "satisfied" ELSE "unsatisfied"
  <2>1. acceptances(d) = acceptances(c)
    OBVIOUS
  <2>2. \A i : fits(c, i) => fits(d, i)
    BY <1>2
  <2>3. e.own /\ acceptances(c) # {} /\ fits(c, Min(acceptances(c)))
    BY DEF EvidenceHolds
  <2> HIDE DEF fits
  <2>4. acceptances(d) # {} /\ fits(d, Min(acceptances(d)))
    <3> HIDE DEF acceptances
    <3> QED
      BY <2>1, <2>2, <2>3
  <2> QED
    BY <2>3, <2>4 DEF EvidenceHolds, fits
<1>11. OutcomeHolds(d)
  BY <1>1, <1>3 DEF VerifiesBundle, SemanticsHold, OutcomeHolds
<1>12. RecourseHolds(d)
  BY <1>2, <1>3 DEF VerifiesBundle, SemanticsHold, RecourseHolds
<1>13. d.events[Len(d.events)].at = d.receipt[1].closed_at
  BY DEF VerifiesBundle, SemanticsHold
<1> QED
  BY <1>4, <1>5, <1>6, <1>8, <1>9, <1>10, <1>11, <1>12, <1>13
     DEF VerifiesBundle, SemanticsHold

(* No move leads back before an observation.                               *)
LEMMA ObservedOnce ==
    ASSUME NEW n, NEW next, <<n.state, next>> \in ALLOWED_TRANSITIONS,
           NEW phase \in {"initial", "post-remedy"}
    PROVE  /\ next \in Unobserved(phase) => n.state \in Unobserved(phase)
           /\ next = ObservedIn(phase) => n.state \in Unobserved(phase)
<1>1. CASE phase = "initial"
  <2>1. Unobserved(phase) =
           {"UNREGISTERED", "PROPOSED", "AUTHORIZED", "DENIED", "RECOURSE_RESERVED",
            "EXPIRED", "REVOKED", "PERMITTED", "EXECUTING", "UNKNOWN", "EXECUTED"}
        /\ ObservedIn(phase) = "VERIFYING"
    BY <1>1 DEF Unobserved, Unexecuted, Unpermitted, ObservedIn
  <2> HIDE <1>1
  <2> QED
    BY <2>1 DEF ALLOWED_TRANSITIONS
<1>2. CASE phase = "post-remedy"
  <2>1. Unobserved(phase) =
           {"UNREGISTERED", "PROPOSED", "AUTHORIZED", "RECOURSE_RESERVED", "PERMITTED",
            "EXECUTING", "EXECUTED", "UNKNOWN", "VERIFYING", "BREACHED", "REMEDY_DUE",
            "REMEDIATING", "REMEDY_UNKNOWN"}
        /\ ObservedIn(phase) = "REMEDY_VERIFYING"
    BY <1>2 DEF Unobserved, BeforeRemedy, ObservedIn
  <2> HIDE <1>2
  <2> QED
    BY <2>1 DEF ALLOWED_TRANSITIONS
<1> QED
  BY <1>1, <1>2

(* A call for evidence is sent where none was accepted.                    *)
LEMMA SingleMove ==
    ASSUME NEW n \in Slice, Single(n), NEW op, NEW answer, NEW d \in Slice,
           MovesOn(n, d, op, answer), d.state # "CLOSED",
           \A phase : Positions(d, AcceptanceOf(phase)) = Positions(n, AcceptanceOf(phase))
    PROVE  Single(d)
<1>1. PICK next \in States :
         /\ <<n.state, next>> \in ALLOWED_TRANSITIONS
         /\ d.state = next \/ (next = "BREACHED" /\ d.state = "REMEDY_DUE")
         /\ d.awaiting = n.awaiting \/ Called(n, d)
  BY DEF MovesOn
<1> SUFFICES ASSUME NEW phase \in {"initial", "post-remedy"},
                    d.state \in Unobserved(phase) \/ d.awaiting[Observes(phase)] > 0
             PROVE  Positions(n, AcceptanceOf(phase)) = {}
  BY DEF Single
<1>2. next \in Unobserved(phase) \/ next = ObservedIn(phase) =>
         Positions(n, AcceptanceOf(phase)) = {}
  BY <1>1, ObservedOnce DEF Single
<1>3. CASE d.state \in Unobserved(phase)
  <2>1. d.state = "REMEDY_DUE" /\ next = "BREACHED" => next \in Unobserved(phase)
    BY <1>3 DEF Unobserved, Unexecuted, Unpermitted, BeforeRemedy
  <2> QED
    BY <1>1, <1>2, <1>3, <2>1
<1>4. CASE d.awaiting[Observes(phase)] > 0
  <2>1. CASE d.awaiting[Observes(phase)] = n.awaiting[Observes(phase)]
    BY <1>4, <2>1 DEF Single
  <2>2. CASE d.awaiting[Observes(phase)] # n.awaiting[Observes(phase)]
    <3>1. /\ d.state \in WaitingStates
          /\ d.awaiting = [n.awaiting EXCEPT
                              ![CallOf(d.state)] = n.awaiting[CallOf(d.state)] + 1]
      BY <1>1, <2>2 DEF Called
    <3>2. n.awaiting \in [Operations -> Nat]
      BY DEF Slice
    <3>3. Observes(phase) = CallOf(d.state)
      BY <2>2, <3>1, <3>2
    <3>4. d.state = ObservedIn(phase)
      BY <3>1, <3>3 DEF Observes, CallOf, WaitingStates, ObservedIn
    <3>5. next = d.state
      BY <1>1, <3>1 DEF WaitingStates
    <3> QED
      BY <1>2, <3>4, <3>5
  <2> QED
    BY <2>1, <2>2
<1> QED
  BY <1>3, <1>4

-------------------------------------------------------------------------------
(* Every step keeps every bundle sound. *)

(* A move, what follows it, and the call it sends.                         *)
LEMMA LeftSound ==
    ASSUME NEW n \in Slice, Faithful(n), NEW t \in Nat, now \in Nat, t <= now, now <= t,
           Open(n, t), Single(n), n.requested_at <= t,
           n.state = "RECOURSE_RESERVED" => n.reserved_at <= t, NEW op, NEW answer,
           NEW d \in Slice, d.permit_uses <= 1, Left(op, answer, n, d, t)
    PROVE  Sound(d, t)
<1>1. PICK m \in Slice, x \in Slice :
         /\ Leaves(op, answer, n.state, m.state)
         /\ Moved(n, m, t)
         /\ Ending(m, x, t) \/ (Moved(m, x, t) /\ x.state = "REMEDY_DUE")
         /\ Resulted(x, d)
  BY DEF Left
<1>2. Faithful(m) /\ m.state \notin {"UNREGISTERED", "CLOSED"} /\ m.receipt = <<>>
  <2>1. m.state # "UNREGISTERED"
    BY <1>1 DEF Moved, ALLOWED_TRANSITIONS
  <2> QED
    BY <1>1, <2>1, MovedTold DEF Leaves
<1>3. /\ Open(m, t) /\ m.final_status = "none"
      /\ \A phase : Positions(m, AcceptanceOf(phase)) = Positions(n, AcceptanceOf(phase))
  BY <1>1, MovedOpen DEF Leaves
<1>4. /\ d.state = x.state /\ d.events = x.events /\ d.evidence = x.evidence
      /\ d.final_status = x.final_status /\ d.receipt = x.receipt /\ Terms(d) = Terms(x)
      /\ d.permit_uses = x.permit_uses
  BY <1>1 DEF Resulted, Same, Fields, Unregistered, Terms
<1>5. \/ /\ x.state # "CLOSED" /\ Open(x, t)
         /\ \A phase : Positions(x, AcceptanceOf(phase)) = Positions(m, AcceptanceOf(phase))
      \/ x.state = "CLOSED" /\ (Exportable(x) => VerifiesBundle(x))
  <2>1. CASE Ending(m, x, t)
    <3>1. x.permit_uses = m.permit_uses
      BY <2>1 DEF Ending, Returned, Recorded, Closed, Same, Fields, Unregistered
    <3> QED
      BY <1>2, <1>3, <1>4, <2>1, <3>1, EndingOpen
  <2>2. CASE Moved(m, x, t) /\ x.state = "REMEDY_DUE"
    <3>1. m.requested_at = n.requested_at
      BY <1>1 DEF Moved, Permits, Starts, Remedies, Same, Fields, Unregistered
    <3>2. m.state # "RECOURSE_RESERVED"
      BY <2>2 DEF Moved, ALLOWED_TRANSITIONS
    <3> QED
      BY <1>2, <1>3, <2>2, <3>1, <3>2, MovedOpen
  <2> QED
    BY <1>1, <2>1, <2>2
<1>6. CASE x.state = "CLOSED"
  <2>1. Exportable(x) => VerifiesBundle(x)
    BY <1>5, <1>6
  <2>2. Exportable(d) => VerifiesBundle(d)
    BY <1>4, <2>1, BundleFields DEF Exportable
  <2> QED
    BY <1>4, <1>6, <2>2 DEF Sound
<1>7. CASE x.state # "CLOSED"
  <2>1. Open(d, t)
    BY <1>4, <1>5, <1>7, OpenFields
  <2>2. \A phase : Positions(d, AcceptanceOf(phase)) = Positions(x, AcceptanceOf(phase))
    BY <1>4, SameEvents
  <2>3. \A phase : Positions(d, AcceptanceOf(phase)) = Positions(n, AcceptanceOf(phase))
    BY <1>3, <1>5, <1>7, <2>2
  <2>4. MovesOn(n, d, op, answer)
    BY LeftMovesOn
  <2>5. Single(d)
    BY <1>4, <1>7, <2>3, <2>4, SingleMove
  <2> QED
    BY <1>4, <1>7, <2>1, <2>5 DEF Sound
<1> QED
  BY <1>6, <1>7

(* An answer changes neither the terms of an action nor its state.         *)
LEMMA HeardTerms ==
    ASSUME NEW c, NEW n, NEW op, NEW answer, NEW t, Heard(c, n, op, answer, t)
    PROVE  /\ Terms(n) = Terms(c) /\ n.requested_at = c.requested_at
           /\ n.reserved_at = c.reserved_at
           /\ n.state = c.state /\ n.receipt = c.receipt
<1>1. PICK w \in Slice : /\ Resumed(c, w, op, answer) \/ Reserved(c, w, op, answer)
                         /\ n = w \/ Rejected(w, n, op, t) \/ Accepted(w, n, op, t)
  BY DEF Heard
<1>2. /\ Terms(w) = Terms(c) /\ w.requested_at = c.requested_at
      /\ w.reserved_at = c.reserved_at
      /\ w.state = c.state /\ w.receipt = c.receipt
  BY <1>1 DEF Resumed, Reserved, Same, Fields, Unregistered, Terms
<1>3. /\ Terms(n) = Terms(w) /\ n.requested_at = w.requested_at
      /\ n.reserved_at = w.reserved_at
      /\ n.state = w.state /\ n.receipt = w.receipt
  BY <1>1 DEF Rejected, Accepted, Same, Fields, Unregistered, Terms
<1> QED
  BY <1>2, <1>3

(* A step of the rail that starts from an open action.                     *)
LEMMA GoesSound ==
    ASSUME ~ForeignFacts, NEW c, Good(c), Faithful(c), Observing(c), c.state # "CLOSED",
           NEW t \in Nat, now \in Nat, t <= now, now <= t, Sound(c, t),
           c.requested_at <= t, c.reserved_at <= t, NEW d, Good(d), Goes(c, d, t)
    PROVE  Sound(d, t)
<1>1. c \in Slice /\ d \in Slice /\ Open(c, t) /\ Single(c) /\ d.permit_uses <= 1
  BY DEF Good, Sound, Counted
<1>2. CASE Proposed(c, d, t)
  <2>1. /\ c.state = "UNREGISTERED" /\ d.state = "PROPOSED" /\ d.mode \in Modes
        /\ Logs(c, d, "ACTION_PROPOSED", "PROPOSED", t)
        /\ d.evidence = c.evidence /\ d.final_status = c.final_status
        /\ d.permit_issued_at = c.permit_issued_at /\ d.awaiting = c.awaiting
    BY <1>2 DEF Proposed, Same, Fields, Unregistered
  <2>2. /\ Extends(c, d)
        /\ \A s : Entries(d, s) = Entries(c, s)
    BY <1>1, <2>1, LogsExtends
  <2>3. d.events[Len(c.events) + 1].type = "ACTION_PROPOSED"
    BY <1>1, <2>1, LogsGrows
  <2>4. Chained(d, t)
    BY <1>1, <2>1, ChainedLogs DEF Open
  <2>5. Windowed(d, t)
    <3>1. d.mode # "none"
      BY <2>1, InputAssumption DEF ASSURANCE_MODES
    <3>2. /\ d.state \in Unreserved /\ d.state \in Unpermitted /\ d.state \in Unexecuted
          /\ c.state \in Unpermitted /\ c.state \in Unexecuted
      BY <2>1 DEF Unreserved, Unpermitted, Unexecuted
    <3>3. d.permit_issued_at = Never
      <4>1. c.events = <<>>
        BY <2>1 DEF Faithful, Told
      <4>2. Entries(c, "PERMITTED") = {}
        BY <4>1 DEF Entries, Moves
      <4> QED
        BY <2>1, <4>2 DEF Faithful, Told
    <3>4. Entries(d, "EXECUTING") = {} /\ d.permit_issued_at <= t
      BY <1>1, <2>1, <2>2, <3>2 DEF Open, Windowed
    <3> QED
      BY <3>1, <3>2, <3>3, <3>4 DEF Windowed
  <2>6. Visited(d)
    <3>1. \A s \in RECEIPT_STATES : Entries(c, s) = {}
      BY <1>1, <2>1 DEF Open, Visited, RECEIPT_STATES, DisputedStates
    <3>2. Entries(c, "BREACHED") = {} /\ c.final_status = "none"
      BY <1>1, <2>1 DEF Open, Visited, RECEIPT_STATES, DisputedStates, AfterBreach,
                        Breached, EndStates, WithdrawnStates
    <3> QED
      BY <2>1, <2>2, <3>1, <3>2 DEF Visited
  <2>7. \A phase : Positions(d, AcceptanceOf(phase)) = Positions(c, AcceptanceOf(phase))
    <3> SUFFICES ASSUME NEW phase
                 PROVE  Positions(d, AcceptanceOf(phase)) = Positions(c, AcceptanceOf(phase))
      OBVIOUS
    <3>1. AcceptanceOf(phase) # "ACTION_PROPOSED"
      BY AcceptanceTypes
    <3> QED
      BY <2>2, <2>3, <3>1, PositionsStay DEF Extends
  <2>8. Assessed(d)
    <3>1. \A i \in DOMAIN d.evidence : Kept(d, d.evidence[i])
      <4>1. \A e : d.events[Len(c.events) + 1].type # AcceptanceOf(e.phase)
        BY <2>3, AcceptanceTypes
      <4> QED
        BY <1>1, <2>1, <2>2, <4>1, KeptStays DEF Open, Assessed
    <3> QED
      BY <2>1, <3>1 DEF Assessed, Breached
  <2>9. Single(d)
    <3>1. \A phase \in {"initial", "post-remedy"} :
             Positions(c, AcceptanceOf(phase)) = {}
      BY <1>1, <2>1 DEF Single, Unobserved, Unexecuted, Unpermitted, BeforeRemedy
    <3> QED
      BY <2>7, <3>1 DEF Single
  <2>10. d.events # <<>>
    BY <2>2 DEF Extends, Grows
  <2> QED
    BY <2>1, <2>4, <2>5, <2>6, <2>8, <2>9, <2>10 DEF Sound, Open
<1>3. CASE Qualifies(c, d, t)
  <2>1. /\ c.state = "RECOURSE_RESERVED" /\ d.state = c.state
        /\ Logs(c, d, "RECOVERY_PREFLIGHT_ACCEPTED", "QUALIFIED_EXACT", t)
        /\ d.evidence = c.evidence /\ d.final_status = c.final_status
        /\ Terms(d) = Terms(c) /\ d.awaiting = c.awaiting
    BY <1>3 DEF Qualifies, Same, Fields, Unregistered, Terms
  <2>2. c.events # <<>>
    BY <1>1, <2>1 DEF Open
  <2>3. /\ Open(d, t)
        /\ \A phase : Positions(d, AcceptanceOf(phase)) = Positions(c, AcceptanceOf(phase))
    BY <1>1, <2>1, <2>2, OpenNote
  <2>4. Single(d)
    BY <1>1, <2>1, <2>3, SingleStays
  <2> QED
    BY <2>1, <2>3, <2>4 DEF Sound
<1>4. CASE Asked(c, d) \/ LapsesTo(c, d) \/ d = c
  <2>1. /\ d.state = c.state /\ d.events = c.events /\ d.evidence = c.evidence
        /\ d.final_status = c.final_status /\ Terms(d) = Terms(c)
    BY <1>4 DEF Asked, LapsesTo, Same, Fields, Unregistered, Terms
  <2>2. \A phase \in {"initial", "post-remedy"} :
           d.awaiting[Observes(phase)] = c.awaiting[Observes(phase)]
    <3>1. /\ c.awaiting \in [Operations -> Nat]
          /\ \A phase \in {"initial", "post-remedy"} :
                Observes(phase) \in Operations \ {"reconcile", "reconcileRemedy"}
      BY <1>1 DEF Slice, Operations, Observes
    <3>2. CASE Asked(c, d)
      <4>1. PICK op \in {"reconcile", "reconcileRemedy"} :
               d.awaiting = [c.awaiting EXCEPT ![op] = c.awaiting[op] + 1]
        BY <3>2 DEF Asked
      <4> QED
        BY <3>1, <4>1
    <3>3. CASE LapsesTo(c, d) \/ d = c
      BY <3>3 DEF LapsesTo, Same, Fields, Unregistered
    <3> QED
      BY <1>4, <3>2, <3>3
  <2>3. Open(d, t)
    BY <1>1, <2>1, OpenFields
  <2>4. \A phase : Positions(d, AcceptanceOf(phase)) = Positions(c, AcceptanceOf(phase))
    BY <2>1, SameEvents
  <2>5. Single(d)
    BY <1>1, <2>1, <2>2, <2>4, SingleStays
  <2> QED
    BY <2>1, <2>3, <2>5 DEF Sound
<1>5. ASSUME NEW op, NEW answer, NEW n, Heard(c, n, op, answer, t),
             (d = n /\ Paused(op, n)) \/ Left(op, answer, n, d, t)
      PROVE  Sound(d, t)
  <2>1. /\ n \in Slice /\ Faithful(n) /\ n.state = c.state
        /\ n.requested_at = c.requested_at /\ n.reserved_at = c.reserved_at
    BY <1>5, HeardTold, HeardTerms DEF Heard
  <2>2. Open(n, t) /\ Single(n)
    BY <1>1, <1>5, HeardOpen
  <2>3. CASE d = n
    BY <2>1, <2>2, <2>3 DEF Sound
  <2>4. CASE Left(op, answer, n, d, t)
    BY <1>1, <2>1, <2>2, <2>4, LeftSound
  <2> QED
    BY <1>5, <2>3, <2>4
<1> QED
  BY <1>2, <1>3, <1>4, <1>5 DEF Goes, Walk

\* What the receipt binds is final.
Final(c, d) ==
    Exportable(c) => /\ d.receipt = c.receipt
                     /\ d.events = c.events
                     /\ d.evidence = c.evidence

(* A step that leaves log, evidence and receipt of a closed action alone   *)
(* leaves its bundle alone, and no receipt is cut later.                   *)
LEMMA ClosedStays ==
    ASSUME NEW c, c.state = "CLOSED", Exportable(c) => VerifiesBundle(c),
           NEW t, NEW d, Goes(c, d, t), Final(c, d)
    PROVE  d.state = "CLOSED" /\ (Exportable(d) => VerifiesBundle(d))
<1>2. d.state = c.state /\ Terms(d) = Terms(c) /\ d.receipt = c.receipt
  <2>1. ~Proposed(c, d, t) /\ ~Qualifies(c, d, t)
    BY DEF Proposed, Qualifies
  <2>2. CASE Asked(c, d) \/ LapsesTo(c, d) \/ d = c
    BY <2>2 DEF Asked, LapsesTo, Same, Fields, Unregistered, Terms
  <2>3. ASSUME NEW op, NEW answer, NEW n, Heard(c, n, op, answer, t),
               (d = n /\ Paused(op, n)) \/ Left(op, answer, n, d, t)
        PROVE  d.state = c.state /\ Terms(d) = Terms(c) /\ d.receipt = c.receipt
    <3>1. n.state = "CLOSED" /\ Terms(n) = Terms(c) /\ n.receipt = c.receipt
      BY <2>3, HeardTerms
    <3>2. \A next : <<n.state, next>> \notin ALLOWED_TRANSITIONS
      BY <3>1 DEF ALLOWED_TRANSITIONS
    <3>3. ~MovesOn(n, d, op, answer)
      BY <3>2 DEF MovesOn
    <3>4. ~Left(op, answer, n, d, t)
      BY <3>3, LeftMovesOn
    <3> QED
      BY <2>3, <3>1, <3>4
  <2> QED
    BY <2>1, <2>2, <2>3 DEF Goes, Walk
<1>3. CASE Exportable(c)
  BY <1>2, <1>3, BundleFields DEF Final
<1>4. CASE ~Exportable(c)
  BY <1>2, <1>4 DEF Exportable
<1> QED
  BY <1>3, <1>4

(* Time passes.                                                            *)
LEMMA SoundLater ==
    ASSUME NEW c \in Slice, NEW t \in Nat, NEW u \in Nat, t <= u, Sound(c, t)
    PROVE  Sound(c, u)
<1>1. CASE c.state = "CLOSED"
  BY <1>1 DEF Sound
<1>2. CASE c.state # "CLOSED"
  <2>1. Chained(c, u)
    BY <1>2, ChainedLater DEF Sound, Open
  <2>2. Windowed(c, u)
    <3>1. c.permit_issued_at \in Int
      BY DEF Slice
    <3> QED
      BY <1>2, <3>1 DEF Sound, Open, Windowed
  <2> QED
    BY <1>2, <2>1, <2>2 DEF Sound, Open
<1> QED
  BY <1>1, <1>2

\* No proposal is requested, and no reservation dated, in the future.
Timely == \A c \in Slices : c.requested_at <= now
Dated == \A c \in Slices : c.reserved_at <= now

(* Nothing is logged at the start.                                         *)
LEMMA InitBundle == Init => BundleInv
<1> SUFFICES ASSUME Init, NEW a \in Action
             PROVE  Sound(actions[a], now)
  BY DEF BundleInv
<1>1. actions[a] = Unregistered /\ now = 0
  BY DEF Init
<1>2. /\ Unregistered.state = "UNREGISTERED" /\ Unregistered.events = <<>>
      /\ Unregistered.evidence = <<>> /\ Unregistered.final_status = "none"
      /\ Unregistered.permit_issued_at = Never
      /\ Unregistered.awaiting = [op \in Operations |-> 0]
  BY DEF Unregistered
<1>3. /\ Moves(Unregistered) = {}
      /\ \A s : Entries(Unregistered, s) = {}
      /\ \A type : Positions(Unregistered, type) = {}
  BY <1>2 DEF Moves, Entries, Positions
<1>4. Chained(Unregistered, 0)
  BY <1>2, <1>3 DEF Chained
<1>5. Windowed(Unregistered, 0)
  BY <1>2, <1>3 DEF Windowed, Unreserved, Unpermitted, Unexecuted, Never
<1>6. Visited(Unregistered)
  BY <1>2, <1>3 DEF Visited
<1>7. Assessed(Unregistered)
  BY <1>2 DEF Assessed, Breached
<1>8. Single(Unregistered)
  BY <1>3 DEF Single
<1> QED
  BY <1>1, <1>2, <1>4, <1>5, <1>6, <1>7, <1>8 DEF Sound, Open

(* Every step keeps every bundle sound.                                    *)
LEMMA NextBundle ==
    ASSUME ~ForeignFacts, Drift = 0, Timely, Dated, Inv, RecordInv, BundleInv, [Next]_vars,
           \A a \in Action : Observing(actions[a]) /\ Final(actions[a], actions'[a])
    PROVE  BundleInv'
<1>1. PICK t \in Nat :
         /\ now <= t /\ t <= now + Drift /\ now' \in Nat /\ now <= now'
         /\ UNCHANGED actions \/ now' \in {now, t}
         /\ \A a \in Action : Goes(actions[a], actions'[a], t)
  BY SlicesGo
<1>2. now \in Nat /\ t = now
  BY <1>1 DEF Inv, TypeOK
<1>3. ASSUME NEW a \in Action PROVE Sound(actions'[a], now')
  <2> DEFINE c == actions[a]
             d == actions'[a]
  <2>1. /\ Good(c) /\ Faithful(c) /\ Observing(c) /\ Sound(c, t)
        /\ Goes(c, d, t) /\ Final(c, d)
        /\ c.requested_at <= t /\ c.reserved_at <= t
    BY <1>1, <1>2 DEF Inv, RecordInv, BundleInv, Timely, Dated, Slices
  <2>2. Good(d)
    BY NextInv DEF Inv
  <2> HIDE DEF c, d
  <2>3. now \in Nat /\ t <= now /\ now <= t
    BY <1>2
  <2>4. Sound(d, t)
    <3>1. CASE c.state = "CLOSED"
      <4>1. Exportable(c) => VerifiesBundle(c)
        BY <2>1, <3>1 DEF Sound
      <4> QED
        BY <2>1, <3>1, <4>1, ClosedStays DEF Sound
    <3>2. CASE c.state # "CLOSED"
      BY <2>1, <2>2, <2>3, <3>2, GoesSound
    <3> QED
      BY <3>1, <3>2
  <2>5. d \in Slice /\ t <= now'
    BY <1>1, <1>2, <2>2 DEF Good
  <2>6. Sound(d, now')
    BY <1>1, <2>4, <2>5, SoundLater
  <2> QED
    BY <2>6 DEF d
<1> QED
  BY <1>3 DEF BundleInv

(* A sound closed action is one whose bundle verifies.                     *)
LEMMA SoundVerifies == RecordInv /\ BundleInv => BundleVerifies
<1> SUFFICES ASSUME RecordInv, BundleInv, NEW a \in Action, Exportable(actions[a])
             PROVE  VerifiesBundle(actions[a])
  BY DEF BundleVerifies, Slices
<1>1. actions[a].state = "CLOSED"
  BY DEF RecordInv, Faithful, Receipted, Exportable
<1> QED
  BY <1>1 DEF BundleInv, Sound

(* Every bundle exportBundle cuts passes verifyBundle, wherever a segment  *)
(* threw on the way, as long as what the verifier asks of the rail's       *)
(* surroundings holds, which the rail does not check itself: the connector *)
(* does not contradict its own definite answers nor date a reservation     *)
(* ahead, a source reports facts of the action's own currency or SKU, the  *)
(* clock stands still inside a segment and no proposal is requested in the *)
(* future.  The runs late_answer, moving_clock and unseen_inputs show what  *)
(* happens without each of them.                                           *)
THEOREM BundlesVerify ==
    ASSUME FinalAnswers, ~ForeignFacts, Drift = 0
    PROVE  Spec /\ []Timely /\ []Dated => []BundleVerifies
<1> DEFINE I == Inv /\ RecordInv /\ ConsistentInv /\ BundleInv
<1>1. Init => I
  BY InitInv, InitRecord, InitConsistent, InitBundle
<1>2. I /\ Timely /\ Dated /\ [Next]_vars => I'
  <2> SUFFICES ASSUME I, Timely, Dated, [Next]_vars PROVE I'
    OBVIOUS
  <2>1. \A a \in Action : Observing(actions[a]) /\ Final(actions[a], actions'[a])
    BY NextConsistent DEF ConsistentInv, Consistent, Final
  <2> QED
    BY <2>1, NextInv, NextRecord, NextConsistent, NextBundle
<1>3. I => BundleVerifies
  BY SoundVerifies
<1> HIDE DEF I
<1> QED
  BY <1>1, <1>2, <1>3, PTL DEF Spec
===============================================================================
