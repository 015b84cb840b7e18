---------------------------- MODULE HttpServerProofs ----------------------------
(***************************************************************************)
(* For any number of connections, any gate and any rate: the gate counts   *)
(* the handlers that run, no connection is kept with a body unread, and no *)
(* minute sees twice the rate.                                             *)
(*                                                                         *)
(* The gate needs handler and activeRequests only.  The connections are    *)
(* inductive together with what the mark means - a connection is marked    *)
(* exactly while a body is in flight on it -, with a lost connection       *)
(* having nothing in flight, so that the next client to take it starts     *)
(* clean, and with a handler that still runs not having answered yet.  The *)
(* rate needs what a window lets through after its first request: only     *)
(* that can fall into the same minute as the window that follows.          *)
(***************************************************************************)
EXTENDS HttpServerProperties, FiniteSetTheorems, TLAPS

Handlers == {"none", "direct", "awaited", "awaiting"}
Replies == {"none", "limited", "refused", "answered"}

GateInv ==
    /\ handler \in [Connection -> Handlers]
    /\ GateCountsHandlers

\* What the mark of a connection means.
MarksBody(c) ==
    /\ body[c] # "none" => c \in unreadBodyRefusals
    /\ c \in unreadBodyRefusals /\ body[c] = "none" =>
          reply[c] = "refused" \/ socket[c] = "ended"
    /\ socket[c] = "closed" => body[c] = "none" /\ reply[c] = "none"
    /\ reply[c] # "none" => handler[c] = "none"
    /\ Idle(c) => body[c] = "none"

BodyInv ==
    /\ socket \in [Connection -> {"open", "ended", "closed"}]
    /\ handler \in [Connection -> Handlers]
    /\ body \in [Connection -> Bodies]
    /\ reply \in [Connection -> Replies]
    /\ \A c \in Connection : MarksBody(c)

-------------------------------------------------------------------------------
(* The gate. *)

(* However a handler is replaced by another, it keeps its place.           *)
LEMMA ServedStays ==
    ASSUME GateInv, UNCHANGED activeRequests, NEW c \in Connection, NEW h \in Handlers,
           handler' = [handler EXCEPT ![c] = h], h = "none" <=> handler[c] = "none"
    PROVE  GateInv'
<1>1. Served' = Served
  BY DEF Served, GateInv
<1> QED
  BY <1>1 DEF GateInv, GateCountsHandlers

(* Only finitely many connections are served.                              *)
LEMMA ServedFinite == IsFiniteSet(Served)
  BY GateAssumption, FS_Subset DEF Served

(* A handler that starts to read takes a place that was free.              *)
LEMMA ServedGrows ==
    ASSUME GateInv, NEW c \in Connection, NEW h \in Handlers \ {"none"},
           handler[c] = "none", GateOpen(activeRequests),
           handler' = [handler EXCEPT ![c] = h], activeRequests' = activeRequests + 1
    PROVE  GateInv'
<1>1. Served' = Served \cup {c} /\ c \notin Served
  BY DEF Served, GateInv
<1>2. Cardinality(Served') = Cardinality(Served) + 1 /\ Cardinality(Served) \in Nat
  BY <1>1, ServedFinite, FS_AddElement, FS_CardinalityType
<1>3. activeRequests' = Cardinality(Served')
  BY <1>2 DEF GateInv, GateCountsHandlers
<1>4. activeRequests' <= MAX_CONCURRENT_REQUESTS
  BY <1>2, GateAssumption DEF GateInv, GateCountsHandlers, GateOpen
<1> QED
  BY <1>3, <1>4 DEF GateInv, GateCountsHandlers

(* The finally of a handler that ends gives its place back.                *)
LEMMA ServedShrinks ==
    ASSUME GateInv, NEW c \in Connection, handler[c] # "none", HandlerEnds(c)
    PROVE  GateInv'
<1>1. handler' = [handler EXCEPT ![c] = "none"] /\ activeRequests' = activeRequests - 1
  BY DEF HandlerEnds, Leave
<1>2. Served' = Served \ {c} /\ c \in Served
  BY <1>1 DEF Served, GateInv, Handlers
<1>3. Cardinality(Served') = Cardinality(Served) - 1 /\ Cardinality(Served) \in Nat
  BY <1>2, ServedFinite, FS_RemoveElement, FS_CardinalityType
<1>4. activeRequests' = Cardinality(Served')
  BY <1>1, <1>3 DEF GateInv, GateCountsHandlers
<1>5. activeRequests' <= MAX_CONCURRENT_REQUESTS
  BY <1>1, <1>3, GateAssumption DEF GateInv, GateCountsHandlers
<1> QED
  BY <1>1, <1>4, <1>5 DEF GateInv, GateCountsHandlers, Handlers

(* A request answered in its first segment enters the gate and leaves it.  *)
LEMMA ServedAtOnce ==
    ASSUME GateInv, UNCHANGED handler,
           activeRequests' = activeRequests \/ activeRequests' = Leave(activeRequests + 1)
    PROVE  GateInv'
<1>1. Served' = Served
  BY DEF Served
<1>2. Cardinality(Served) \in Nat
  BY ServedFinite, FS_CardinalityType
<1>3. activeRequests' = activeRequests
  BY <1>2 DEF GateInv, GateCountsHandlers, Leave
<1> QED
  BY <1>1, <1>3 DEF GateInv, GateCountsHandlers

(* A server that just started serves nobody and counts nobody.             *)
LEMMA GateInit == HttpInit => GateInv
<1> SUFFICES ASSUME HttpInit PROVE GateInv
  OBVIOUS
<1>1. Served = {}
  BY DEF HttpInit, Served
<1>2. Cardinality(Served) = 0
  BY <1>1, FS_EmptySet
<1> QED
  BY <1>2, GateAssumption DEF HttpInit, GateInv, GateCountsHandlers, Handlers

(* Every step of a handler keeps the count equal to the handlers.          *)
LEMMA GateNext == GateInv /\ [HttpNext]_hvars => GateInv'
<1> SUFFICES ASSUME GateInv, [HttpNext]_hvars PROVE GateInv'
  OBVIOUS
<1>1. ASSUME NEW c \in Connection, NEW q \in Requests, Arrives(c, q)
      PROVE  GateInv'
  <2>1. CASE StartReading(c, q)
    <3>1. q.route \in Handlers \ {"none"}
      BY <2>1 DEF StartReading, Reads, Handlers
    <3>2. handler[c] = "none" /\ GateOpen(activeRequests)
      BY <2>1 DEF StartReading, Admitted, Idle
    <3> QED
      BY <2>1, <3>1, <3>2, ServedGrows DEF StartReading
  <2>2. CASE Busy(c, q)
    BY <2>2, ServedAtOnce DEF Busy, AnswerAtOnce
  <2>3. CASE RefuseAtBoundary(c, q)
    BY <2>3, ServedAtOnce DEF RefuseAtBoundary, AnswerAtOnce
  <2>4. CASE Limit(c, q)
    BY <2>4, ServedAtOnce DEF Limit, AnswerAtOnce
  <2>5. CASE AnswerUnread(c, q)
    BY <2>5, ServedAtOnce DEF AnswerUnread, AnswerAtOnce
  <2> QED
    BY <1>1, <2>1, <2>2, <2>3, <2>4, <2>5 DEF Arrives
<1>2. ASSUME NEW c \in Connection, ReadWhole(c) PROVE GateInv'
  <2>1. handler[c] # "none"
    BY <1>2 DEF ReadWhole, Reading
  <2>2. CASE HandlerEnds(c)
    BY <2>1, <2>2, ServedShrinks
  <2>3. CASE /\ handler[c] = "awaited"
             /\ handler' = [handler EXCEPT ![c] = "awaiting"]
             /\ UNCHANGED <<activeRequests, reply>>
    BY <2>1, <2>3, ServedStays DEF Handlers
  <2> QED
    BY <1>2, <2>2, <2>3 DEF ReadWhole
<1>3. ASSUME NEW c \in Connection, ReadTooLarge(c) \/ ReadAborted(c) \/ RailAnswers(c)
      PROVE  GateInv'
  BY <1>3, ServedShrinks DEF ReadTooLarge, ReadAborted, RailAnswers, Reading
<1>4. ASSUME NEW c \in Connection,
             Finish(c) \/ Connect(c) \/ Disconnect(c) \/ TimeOut(c)
      PROVE  GateInv'
  BY <1>4, ServedAtOnce DEF Finish, Connect, Disconnect, TimeOut, Lose
<1>5. CASE Tick
  BY <1>5, ServedAtOnce DEF Tick
<1>6. CASE UNCHANGED hvars
  BY <1>6, ServedAtOnce DEF hvars
<1> QED
  BY <1>1, <1>2, <1>3, <1>4, <1>5, <1>6 DEF HttpNext, Serves

-------------------------------------------------------------------------------
(* Unread bodies. *)

(* Other connections keep what the four variables and the marks say of     *)
(* them, so the invariant depends on the connection a step is about.       *)
LEMMA OneConnection ==
    ASSUME BodyInv, NEW c \in Connection,
           NEW s \in {"open", "ended", "closed"}, NEW h \in Handlers, NEW b \in Bodies,
           NEW r \in Replies,
           socket' = [socket EXCEPT ![c] = s], handler' = [handler EXCEPT ![c] = h],
           body' = [body EXCEPT ![c] = b], reply' = [reply EXCEPT ![c] = r],
           \A d \in Connection \ {c} : d \in unreadBodyRefusals' <=> d \in unreadBodyRefusals,
           b # "none" => c \in unreadBodyRefusals',
           c \in unreadBodyRefusals' /\ b = "none" => r = "refused" \/ s = "ended",
           s = "closed" => b = "none" /\ r = "none", r # "none" => h = "none",
           s = "open" /\ h = "none" /\ r = "none" => b = "none"
    PROVE  BodyInv'
<1>1. MarksBody(c)'
  BY DEF MarksBody, Idle, BodyInv
<1>2. ASSUME NEW d \in Connection, d # c PROVE MarksBody(d)'
  BY <1>2 DEF MarksBody, Idle, BodyInv
<1> QED
  BY <1>1, <1>2 DEF BodyInv

(* At the start no body is in flight and none is marked.                   *)
LEMMA BodyInit == HttpInit => BodyInv
  BY DEF HttpInit, BodyInv, MarksBody, Idle, Handlers, Bodies, Replies

(* A request that is armed and answered, or armed and read.                *)
LEMMA ArrivesBody ==
    ASSUME BodyInv, NEW c \in Connection, NEW q \in Requests, Arrives(c, q)
    PROVE  BodyInv'
<1>1. Idle(c) /\ q.body \in Bodies
  BY DEF Arrives, Busy, RefuseAtBoundary, Limit, AnswerUnread, StartReading, Admitted, Requests
<1>2. body[c] = "none" /\ c \notin unreadBodyRefusals /\ socket[c] = "open"
      /\ handler[c] = "none" /\ reply[c] = "none"
  BY <1>1 DEF BodyInv, MarksBody, Idle
<1>3. ASSUME NEW answer \in Replies \ {"none"}, NEW marked \in BOOLEAN,
             declaresBody(q.body) => marked,
             marked => declaresBody(q.body) \/ answer = "refused",
             AnswerAtOnce(c, q, marked, answer)
      PROVE  BodyInv'
  <2>1. /\ \A d \in Connection \ {c} : d \in unreadBodyRefusals' <=> d \in unreadBodyRefusals
        /\ q.body # "none" => c \in unreadBodyRefusals'
        /\ c \in unreadBodyRefusals' /\ q.body = "none" => answer = "refused"
    BY <1>2, <1>3 DEF AnswerAtOnce, Arm, declaresBody
  <2>2. /\ socket' = [socket EXCEPT ![c] = "open"]
        /\ handler' = [handler EXCEPT ![c] = "none"]
        /\ body' = [body EXCEPT ![c] = q.body]
        /\ reply' = [reply EXCEPT ![c] = answer]
    BY <1>2, <1>3 DEF AnswerAtOnce, Send, BodyInv
  <2> QED
    BY <1>1, <1>3, <2>1, <2>2, OneConnection DEF Handlers
<1>4. CASE StartReading(c, q)
  <2>1. /\ \A d \in Connection \ {c} : d \in unreadBodyRefusals' <=> d \in unreadBodyRefusals
        /\ q.body # "none" <=> c \in unreadBodyRefusals'
    BY <1>2, <1>4 DEF StartReading, Arm, declaresBody
  <2>2. q.route \in Handlers \ {"none"}
    BY <1>4 DEF StartReading, Reads, Handlers
  <2>3. /\ socket' = [socket EXCEPT ![c] = "open"]
        /\ handler' = [handler EXCEPT ![c] = q.route]
        /\ body' = [body EXCEPT ![c] = q.body]
        /\ reply' = [reply EXCEPT ![c] = "none"]
    BY <1>2, <1>4 DEF StartReading, BodyInv
  <2> QED
    BY <1>1, <2>1, <2>2, <2>3, OneConnection DEF Replies
<1>5. CASE Busy(c, q) \/ RefuseAtBoundary(c, q)
  BY <1>3, <1>5 DEF Busy, RefuseAtBoundary, declaresBody, Replies
<1>6. CASE Limit(c, q)
  BY <1>3, <1>6 DEF Limit, declaresBody, Replies
<1>7. CASE AnswerUnread(c, q)
  <2> DEFINE marked == declaresBody(q.body) \/ RefusedByHeaders(q)
             answer == IF RefusedByHeaders(q) THEN "refused" ELSE "answered"
  <2>1. /\ marked \in BOOLEAN /\ answer \in Replies \ {"none"}
        /\ declaresBody(q.body) => marked
        /\ marked => declaresBody(q.body) \/ answer = "refused"
    BY DEF declaresBody, RefusedByHeaders, Replies
  <2>2. AnswerAtOnce(c, q, marked, answer)
    BY <1>7 DEF AnswerUnread
  <2> HIDE DEF marked, answer
  <2> QED
    BY <1>3, <2>1, <2>2
<1> QED
  BY <1>4, <1>5, <1>6, <1>7 DEF Arrives

(* A handler's later segments.                                             *)
LEMMA HandlerBody ==
    ASSUME BodyInv, NEW c \in Connection,
           ReadWhole(c) \/ ReadTooLarge(c) \/ ReadAborted(c) \/ RailAnswers(c) \/ Finish(c)
    PROVE  BodyInv'
<1>1. MarksBody(c) /\ socket[c] \in {"open", "ended", "closed"} /\ handler[c] \in Handlers
      /\ body[c] \in Bodies /\ reply[c] \in Replies
  BY DEF BodyInv
<1> DEFINE Other == \A d \in Connection \ {c} :
                       d \in unreadBodyRefusals' <=> d \in unreadBodyRefusals
<1>2. CASE ReadWhole(c)
  <2>1. Other /\ c \notin unreadBodyRefusals'
    BY <1>2 DEF ReadWhole, ClearMark
  <2>2. /\ socket' = [socket EXCEPT ![c] = "open"]
        /\ body' = [body EXCEPT ![c] = "none"]
    BY <1>2 DEF ReadWhole, BodyInv
  <2>3. CASE HandlerEnds(c) /\ Send(c, "answered")
    <3>1. /\ handler' = [handler EXCEPT ![c] = "none"]
          /\ reply' = [reply EXCEPT ![c] = "answered"]
      BY <1>2, <2>3 DEF ReadWhole, HandlerEnds, Send
    <3> QED
      BY <2>1, <2>2, <3>1, OneConnection DEF Handlers, Bodies, Replies
  <2>4. CASE /\ handler' = [handler EXCEPT ![c] = "awaiting"]
             /\ UNCHANGED reply
    <3>1. reply' = [reply EXCEPT ![c] = "none"]
      BY <1>1, <1>2, <2>4 DEF ReadWhole, Reading, BodyInv, MarksBody
    <3> QED
      BY <1>1, <2>1, <2>2, <2>4, <3>1, OneConnection DEF Handlers, Bodies, Replies
  <2> QED
    BY <1>2, <2>3, <2>4 DEF ReadWhole
<1>3. CASE ReadTooLarge(c)
  <2>1. /\ Other /\ c \notin unreadBodyRefusals'
        /\ socket' = [socket EXCEPT ![c] = "closed"]
        /\ handler' = [handler EXCEPT ![c] = "none"]
        /\ body' = [body EXCEPT ![c] = "none"]
    BY <1>3 DEF ReadTooLarge, HandlerEnds
  <2>2. reply' = [reply EXCEPT ![c] = "none"]
    BY <1>1, <1>3 DEF ReadTooLarge, Reading, BodyInv, MarksBody
  <2> QED
    BY <1>3, <2>1, <2>2, OneConnection DEF Handlers, Bodies, Replies
<1>4. CASE ReadAborted(c)
  BY <1>1, <1>4 DEF ReadAborted, HandlerEnds, BodyInv, MarksBody, Idle, Handlers
<1>5. CASE RailAnswers(c)
  BY <1>1, <1>5 DEF RailAnswers, HandlerEnds, Send, BodyInv, MarksBody, Idle, Handlers,
                    Replies
<1>6. CASE Finish(c)
  BY <1>1, <1>6 DEF Finish, BodyInv, MarksBody, Idle, Handlers, Replies
<1> QED
  BY <1>2, <1>3, <1>4, <1>5, <1>6

(* Clients that come and go, and the server's own timeouts.                *)
LEMMA EnvironmentBody ==
    ASSUME BodyInv, NEW c \in Connection, Connect(c) \/ Disconnect(c) \/ TimeOut(c)
    PROVE  BodyInv'
<1>1. CASE Connect(c)
  BY <1>1 DEF Connect, BodyInv, MarksBody, Idle, Handlers
<1>2. CASE Lose(c)
  <2>1. \A d \in Connection \ {c} : d \in unreadBodyRefusals' <=> d \in unreadBodyRefusals
    BY <1>2 DEF Lose
  <2>2. c \notin unreadBodyRefusals' /\ handler' = [handler EXCEPT ![c] = handler[c]]
    BY <1>2 DEF Lose, BodyInv
  <2>3. handler[c] \in Handlers
    BY DEF BodyInv
  <2> QED
    BY <1>2, <2>1, <2>2, <2>3, OneConnection DEF Lose, Bodies, Replies
<1> QED
  BY <1>1, <1>2 DEF Disconnect, TimeOut

(* Every step of a handler keeps every body marked, and marks without a    *)
(* body only where a refusal is on its way out.                            *)
LEMMA BodyNext == BodyInv /\ [HttpNext]_hvars => BodyInv'
<1> SUFFICES ASSUME BodyInv, [HttpNext]_hvars PROVE BodyInv'
  OBVIOUS
<1>1. CASE UNCHANGED <<socket, handler, body, unreadBodyRefusals, reply>>
  BY <1>1 DEF BodyInv, MarksBody, Idle
<1>2. CASE Tick \/ UNCHANGED hvars
  BY <1>1, <1>2 DEF Tick, hvars
<1> QED
  BY <1>2, ArrivesBody, HandlerBody, EnvironmentBody DEF HttpNext, Serves

-------------------------------------------------------------------------------
(* The rate window. *)

MAX == MAX_REQUESTS_PER_MINUTE

\* How many of the requests counted in a window were admitted.
Let(rate) == IF rate.count > MAX THEN MAX ELSE rate.count

Within(A, rate) == {r \in A : r.at >= rate.startedAt}
Later(A, rate) == {r \in A : r.at > rate.startedAt}
Before(A, rate) == {r \in A : r.at < rate.startedAt}

Rates == [startedAt : 0 .. LastTick, count : 0 .. MAX + 1]
Histories == SUBSET [at : 0 .. LastTick, nth : 1 .. MAX]

(* What the window of an address says at tick t of the requests A admitted *)
(* in the last minute.  A window begins with a request; so of its requests *)
(* one less than the limit are later than its start, and those are all     *)
(* that the next window, a minute later, can still find in A.              *)
Window(rate, t, A) ==
    /\ rate \in Rates /\ A \in Histories /\ t \in 0 .. LastTick
    /\ IsFiniteSet(A)
    /\ \A r \in A : r.at <= t /\ r.at + Minute > t
    /\ rate.count = 0 => A = {}
    /\ rate.count > 0 =>
          /\ rate.startedAt <= t
          /\ \A r \in A : r.at < rate.startedAt + Minute
          /\ \A r \in Within(A, rate) : r.nth <= Let(rate)
          /\ Cardinality(Before(A, rate)) <= MAX - 1
          /\ Cardinality(Later(A, rate)) <= Let(rate) - 1
          /\ Cardinality(Within(A, rate)) <= Let(rate)
          /\ t < rate.startedAt + Minute => Cardinality(Within(A, rate)) = Let(rate)

WindowInv ==
    /\ tick \in 0 .. LastTick
    /\ rateByAddress \in [Address -> Rates]
    /\ admitted \in [Address -> Histories]
    /\ \A a \in Address : Window(rateByAddress[a], tick, admitted[a])

(* Parts of a finite history are finite.                                   *)
LEMMA PartsFinite ==
    ASSUME NEW rate, NEW A, IsFiniteSet(A)
    PROVE  /\ IsFiniteSet(Within(A, rate)) /\ Cardinality(Within(A, rate)) \in Nat
           /\ IsFiniteSet(Later(A, rate)) /\ Cardinality(Later(A, rate)) \in Nat
           /\ IsFiniteSet(Before(A, rate)) /\ Cardinality(Before(A, rate)) \in Nat
<1>1. /\ Within(A, rate) \in SUBSET A /\ Later(A, rate) \in SUBSET A
      /\ Before(A, rate) \in SUBSET A
  BY DEF Within, Later, Before
<1>2. /\ IsFiniteSet(Within(A, rate)) /\ IsFiniteSet(Later(A, rate))
      /\ IsFiniteSet(Before(A, rate))
  BY <1>1, FS_Subset
<1> QED
  BY <1>2, FS_CardinalityType

(* The first request of a window: whatever of the last minute precedes it  *)
(* came later than the start of the window before.                         *)
LEMMA WindowOpens ==
    ASSUME NEW rate, NEW t, NEW A, Window(rate, t, A),
           rate.count = 0 \/ t - rate.startedAt >= Minute
    PROVE  Window([startedAt |-> t, count |-> 1], t, A \cup {[at |-> t, nth |-> 1]})
<1> DEFINE new == [startedAt |-> t, count |-> 1]
           x == [at |-> t, nth |-> 1]
           B == A \cup {x}
<1>1. MAX \in Nat /\ MAX >= 1 /\ Minute \in Nat /\ Minute >= 1 /\ LastTick \in Nat /\ t \in Nat
  BY WindowAssumption DEF MAX, Window
<1>2. rate.startedAt \in Nat /\ rate.count \in Nat /\ Let(rate) \in Nat /\ Let(rate) <= MAX
  BY <1>1 DEF Window, Rates, Let
<1>3. new \in Rates /\ new.startedAt = t /\ new.count = 1 /\ Let(new) = 1
  BY <1>1 DEF Rates, Let, Window
<1>4. x.at = t /\ x.nth = 1 /\ B \in Histories
  BY <1>1 DEF Histories, Window
<1>5. \A r \in A : r.at \in Nat /\ r.at < t /\ rate.count > 0 /\ r.at > rate.startedAt
                   /\ r.at + Minute > t
  BY <1>1, <1>2 DEF Window, Histories
<1> HIDE DEF new, x
<1>6. Before(B, new) = A /\ Later(B, new) = {} /\ Within(B, new) = {x}
  BY <1>1, <1>3, <1>4, <1>5 DEF Before, Later, Within
<1>7. IsFiniteSet(B) /\ Cardinality({}) = 0 /\ Cardinality({x}) = 1
  BY FS_AddElement, FS_EmptySet, FS_Singleton DEF Window
<1>8. Cardinality(A) <= MAX - 1
  <2>1. CASE A = {}
    BY <1>1, <1>7, <2>1
  <2>2. CASE A # {}
    <3>1. Later(A, rate) = A /\ rate.count > 0
      BY <1>5, <2>2 DEF Later
    <3>2. Cardinality(A) <= Let(rate) - 1 /\ Cardinality(A) \in Nat
      BY <3>1, FS_CardinalityType DEF Window
    <3> QED
      BY <1>1, <1>2, <3>2
  <2> QED
    BY <2>1, <2>2
<1>9. \A r \in B : r.at <= t /\ r.at + Minute > t /\ r.at < t + Minute
  BY <1>1, <1>4, <1>5
<1> HIDE DEF B
<1>10. /\ \A r \in Within(B, new) : r.nth <= Let(new)
       /\ Cardinality(Before(B, new)) <= MAX - 1
       /\ Cardinality(Later(B, new)) <= Let(new) - 1
       /\ Cardinality(Within(B, new)) = Let(new)
       /\ Let(new) <= Let(new)
  BY <1>1, <1>3, <1>4, <1>6, <1>7, <1>8
<1>11. Window(new, t, B)
  BY <1>1, <1>3, <1>4, <1>7, <1>9, <1>10 DEF Window
<1> QED
  BY <1>11 DEF new, x, B

(* A further request that the window admits.                               *)
LEMMA WindowCounts ==
    ASSUME NEW rate, NEW t, NEW A, Window(rate, t, A), rate.count > 0, rate.count < MAX,
           t - rate.startedAt < Minute
    PROVE  Window([rate EXCEPT !.count = rate.count + 1], t,
                  A \cup {[at |-> t, nth |-> rate.count + 1]})
<1> DEFINE new == [rate EXCEPT !.count = rate.count + 1]
           x == [at |-> t, nth |-> rate.count + 1]
           B == A \cup {x}
<1>1. MAX \in Nat /\ MAX >= 1 /\ Minute \in Nat /\ Minute >= 1 /\ LastTick \in Nat /\ t \in Nat
  BY WindowAssumption DEF MAX, Window
<1>2. rate \in Rates /\ rate.startedAt \in Nat /\ rate.count \in Nat /\ Let(rate) = rate.count
      /\ rate.startedAt <= t
  BY <1>1 DEF Window, Rates, Let
<1>3. new \in Rates /\ new.startedAt = rate.startedAt /\ new.count = rate.count + 1
      /\ Let(new) = rate.count + 1
  BY <1>1, <1>2 DEF Rates, Let
<1>4. x.at = t /\ x.nth = rate.count + 1 /\ B \in Histories
  BY <1>1, <1>2 DEF Histories, Window
<1>5. x \notin Within(A, rate) /\ x \notin Later(A, rate)
  BY <1>1, <1>2, <1>4 DEF Window, Within, Later
<1> HIDE DEF new, x
<1>6. Within(B, new) = Within(A, rate) \cup {x} /\ Before(B, new) = Before(A, rate)
      /\ (Later(B, new) = Later(A, rate) \/ Later(B, new) = Later(A, rate) \cup {x})
  BY <1>1, <1>2, <1>3, <1>4 DEF Before, Later, Within
<1>7. IsFiniteSet(A) /\ IsFiniteSet(B)
  BY FS_AddElement DEF Window
<1>8. /\ Cardinality(Within(B, new)) = Cardinality(Within(A, rate)) + 1
      /\ Cardinality(Later(B, new)) <= Cardinality(Later(A, rate)) + 1
  <2> DEFINE W == Within(A, rate)
             L == Later(A, rate)
  <2>1. IsFiniteSet(W) /\ IsFiniteSet(L) /\ Cardinality(L) \in Nat
    BY <1>7, PartsFinite
  <2> HIDE DEF W, L
  <2>2. /\ Cardinality(W \cup {x}) = IF x \in W THEN Cardinality(W) ELSE Cardinality(W) + 1
        /\ Cardinality(L \cup {x}) = IF x \in L THEN Cardinality(L) ELSE Cardinality(L) + 1
    BY <2>1, FS_AddElement
  <2>3. x \notin W /\ x \notin L
    BY <1>5 DEF W, L
  <2>4. Within(B, new) = W \cup {x} /\ (Later(B, new) = L \/ Later(B, new) = L \cup {x})
    BY <1>6 DEF W, L
  <2>5. Cardinality(Within(B, new)) = Cardinality(W) + 1
    BY <2>2, <2>3, <2>4
  <2>6. Cardinality(Later(B, new)) <= Cardinality(L) + 1
    <3>1. CASE Later(B, new) = L
      BY <2>1, <3>1
    <3>2. CASE Later(B, new) = L \cup {x}
      <4>1. Cardinality(Later(B, new)) = Cardinality(L) + 1
        BY <2>2, <2>3, <3>2
      <4> QED
        BY <2>1, <4>1
    <3> QED
      BY <2>4, <3>1, <3>2
  <2> QED
    BY <2>5, <2>6 DEF W, L
<1>9. /\ \A r \in A : r.at <= t /\ r.at + Minute > t /\ r.at < rate.startedAt + Minute
      /\ \A r \in Within(A, rate) : r.nth <= Let(rate) /\ r.nth \in Nat
      /\ Cardinality(Before(A, rate)) <= MAX - 1
      /\ Cardinality(Later(A, rate)) <= Let(rate) - 1
      /\ Cardinality(Within(A, rate)) = Let(rate)
  BY <1>1, <1>2 DEF Window, Within, Histories
<1>10. \A r \in B : r.at <= t /\ r.at + Minute > t /\ r.at < rate.startedAt + Minute
  BY <1>1, <1>2, <1>4, <1>9
<1>11. \A r \in Within(B, new) : r.nth <= Let(new)
  <2> SUFFICES ASSUME NEW r \in Within(B, new) PROVE r.nth <= Let(new)
    OBVIOUS
  <2>1. CASE r = x
    BY <1>2, <1>3, <1>4, <2>1
  <2>2. CASE r # x
    <3>1. r \in Within(A, rate)
      BY <1>6, <2>2
    <3>2. r.nth <= rate.count /\ r.nth \in Nat
      BY <1>2, <1>9, <3>1
    <3> QED
      BY <1>2, <1>3, <3>2
  <2> QED
    BY <2>1, <2>2
<1>12. /\ Cardinality(Before(B, new)) <= MAX - 1
       /\ Cardinality(Later(B, new)) <= Let(new) - 1
       /\ Cardinality(Within(B, new)) = Let(new)
       /\ Cardinality(Within(B, new)) <= Let(new)
       /\ new.count > 0
  BY <1>2, <1>3, <1>6, <1>7, <1>8, <1>9, PartsFinite
<1> HIDE DEF B
<1>13. Window(new, t, B)
  BY <1>1, <1>2, <1>3, <1>4, <1>7, <1>10, <1>11, <1>12 DEF Window
<1> QED
  BY <1>13 DEF new, x, B

(* A request beyond the limit.                                             *)
LEMMA WindowOverflows ==
    ASSUME NEW rate, NEW t, NEW A, Window(rate, t, A), rate.count >= MAX
    PROVE  Window([rate EXCEPT !.count = MAX + 1], t, A)
<1> DEFINE new == [rate EXCEPT !.count = MAX + 1]
<1>1. MAX \in Nat /\ MAX >= 1
  BY WindowAssumption DEF MAX
<1>2. rate \in Rates /\ rate.count \in Nat /\ rate.count > 0 /\ Let(rate) = MAX
  BY <1>1 DEF Window, Rates, Let
<1>3. new \in Rates /\ new.startedAt = rate.startedAt /\ new.count > 0 /\ Let(new) = MAX
  BY <1>1, <1>2 DEF Rates, Let
<1> HIDE DEF new
<1>4. /\ Within(A, new) = Within(A, rate) /\ Before(A, new) = Before(A, rate)
      /\ Later(A, new) = Later(A, rate)
  BY <1>3 DEF Within, Before, Later
<1>5. Window(new, t, A)
  BY <1>2, <1>3, <1>4 DEF Window
<1> QED
  BY <1>5 DEF new

(* Time passes, and what is a minute old leaves the history.               *)
LEMMA WindowAges ==
    ASSUME NEW rate, NEW t, NEW A, Window(rate, t, A), t < LastTick
    PROVE  Window(rate, t + 1, {r \in A : r.at + Minute > t + 1})
<1> DEFINE B == {r \in A : r.at + Minute > t + 1}
<1>1. MAX \in Nat /\ MAX >= 1 /\ Minute \in Nat /\ Minute >= 1 /\ LastTick \in Nat /\ t \in Nat
  BY WindowAssumption DEF MAX, Window
<1>2. rate.startedAt \in Nat /\ rate.count \in Nat /\ Let(rate) \in Nat
  BY <1>1 DEF Window, Rates, Let
<1>3. B \in SUBSET A /\ IsFiniteSet(A)
  BY DEF Window
<1>4. /\ Within(B, rate) \in SUBSET Within(A, rate) /\ Before(B, rate) \in SUBSET Before(A, rate)
      /\ Later(B, rate) \in SUBSET Later(A, rate)
  BY <1>3 DEF Within, Before, Later
<1>5. /\ Cardinality(Within(B, rate)) <= Cardinality(Within(A, rate))
      /\ Cardinality(Before(B, rate)) <= Cardinality(Before(A, rate))
      /\ Cardinality(Later(B, rate)) <= Cardinality(Later(A, rate))
      /\ IsFiniteSet(B)
  BY <1>3, <1>4, PartsFinite, FS_Subset
<1>6. t + 1 < rate.startedAt + Minute => Within(B, rate) = Within(A, rate)
  BY <1>1, <1>2 DEF Within, Window, Histories
<1>7. \A r \in B : r \in A /\ r.at <= t + 1 /\ r.at + Minute > t + 1
  BY <1>1 DEF Window, Histories
<1> HIDE DEF B
<1>8. /\ Cardinality(Within(A, rate)) \in Nat /\ Cardinality(Within(B, rate)) \in Nat
      /\ Cardinality(Before(A, rate)) \in Nat /\ Cardinality(Before(B, rate)) \in Nat
      /\ Cardinality(Later(A, rate)) \in Nat /\ Cardinality(Later(B, rate)) \in Nat
  BY <1>3, <1>5, PartsFinite
<1>9. ASSUME rate.count > 0
      PROVE  /\ rate.startedAt <= t + 1
             /\ \A r \in B : r.at < rate.startedAt + Minute
             /\ \A r \in Within(B, rate) : r.nth <= Let(rate)
             /\ Cardinality(Before(B, rate)) <= MAX - 1
             /\ Cardinality(Later(B, rate)) <= Let(rate) - 1
             /\ Cardinality(Within(B, rate)) <= Let(rate)
             /\ t + 1 < rate.startedAt + Minute => Cardinality(Within(B, rate)) = Let(rate)
  BY <1>1, <1>2, <1>4, <1>5, <1>6, <1>7, <1>8, <1>9 DEF Window
<1>10. rate.count = 0 => B = {}
  BY <1>3 DEF Window
<1>11. rate \in Rates /\ B \in Histories /\ t + 1 \in 0 .. LastTick
  BY <1>1, <1>3 DEF Window, Histories
<1>12. Window(rate, t + 1, B)
  BY <1>5, <1>7, <1>9, <1>10, <1>11 DEF Window
<1> QED
  BY <1>12 DEF B

(* A window that the request of an address opens, counts in or overflows.  *)
LEMMA CurrentRate ==
    ASSUME WindowInv, NEW a \in Address
    PROVE  \/ /\ rateByAddress[a].count = 0 \/ tick - rateByAddress[a].startedAt >= Minute
              /\ currentRate(a) = [startedAt |-> tick, count |-> 1]
              /\ WithinRate(a) /\ currentRate(a).count = 1
           \/ /\ rateByAddress[a].count > 0 /\ rateByAddress[a].count < MAX
              /\ tick - rateByAddress[a].startedAt < Minute
              /\ currentRate(a) = [rateByAddress[a] EXCEPT !.count = rateByAddress[a].count + 1]
              /\ WithinRate(a) /\ currentRate(a).count = rateByAddress[a].count + 1
           \/ /\ rateByAddress[a].count >= MAX
              /\ tick - rateByAddress[a].startedAt < Minute
              /\ currentRate(a) = [rateByAddress[a] EXCEPT !.count = MAX + 1]
              /\ ~WithinRate(a)
<1> DEFINE rate == rateByAddress[a]
<1>1. MAX \in Nat /\ MAX >= 1 /\ Minute \in Nat
  BY WindowAssumption DEF MAX
<1>2. rate \in Rates /\ rate.count \in 0 .. MAX + 1 /\ rate.startedAt \in Nat /\ tick \in Nat
  BY <1>1, WindowAssumption DEF WindowInv, Rates
<1>3. CASE rate.count = 0 \/ tick - rate.startedAt >= Minute
  BY <1>1, <1>3 DEF currentRate, WithinRate, MAX
<1>4. CASE ~(rate.count = 0 \/ tick - rate.startedAt >= Minute)
  <2>1. rate.count > 0 /\ tick - rate.startedAt < Minute
    BY <1>1, <1>2, <1>4
  <2>2. CASE rate.count < MAX
    <3>1. currentRate(a) = [rate EXCEPT !.count = rate.count + 1]
      BY <1>1, <1>2, <1>4, <2>2 DEF currentRate, MAX
    <3>2. currentRate(a).count = rate.count + 1
      BY <1>2, <3>1 DEF Rates
    <3> QED
      BY <1>1, <1>2, <2>1, <2>2, <3>1, <3>2 DEF WithinRate, MAX
  <2>3. CASE rate.count >= MAX
    <3>1. currentRate(a) = [rate EXCEPT !.count = MAX + 1]
      BY <1>1, <1>2, <1>4, <2>3 DEF currentRate, MAX
    <3>2. currentRate(a).count = MAX + 1
      BY <1>2, <3>1 DEF Rates
    <3> QED
      BY <1>1, <1>2, <2>1, <2>3, <3>1, <3>2 DEF WithinRate, MAX
  <2> QED
    BY <1>1, <1>2, <2>2, <2>3
<1> QED
  BY <1>3, <1>4

(* Only the window and the history of one address change.                  *)
LEMMA OneWindow ==
    ASSUME WindowInv, NEW a \in Address, NEW rate, NEW A, UNCHANGED tick,
           rateByAddress' = [rateByAddress EXCEPT ![a] = rate],
           admitted' = [admitted EXCEPT ![a] = A], Window(rate, tick, A)
    PROVE  WindowInv'
<1>1. rate \in Rates /\ A \in Histories
  BY DEF Window
<1>2. \A b \in Address : /\ rateByAddress'[b] = IF b = a THEN rate ELSE rateByAddress[b]
                         /\ admitted'[b] = IF b = a THEN A ELSE admitted[b]
  BY DEF WindowInv
<1>3. ASSUME NEW b \in Address PROVE Window(rateByAddress'[b], tick, admitted'[b])
  BY <1>2 DEF WindowInv
<1> HIDE DEF Address
<1> QED
  BY <1>1, <1>3 DEF WindowInv

(* A request that is admitted, in a new window or in the current one.      *)
LEMMA AdmittedWindow ==
    ASSUME WindowInv, NEW c \in Connection, NEW q \in Requests, Admitted(c, q), UNCHANGED tick
    PROVE  WindowInv'
<1> DEFINE a == remoteAddress(c)
           x == [at |-> tick, nth |-> currentRate(a).count]
<1>1. a \in Address
  BY DEF remoteAddress, Address
<1>2. /\ WithinRate(a)
      /\ rateByAddress' = [rateByAddress EXCEPT ![a] = currentRate(a)]
      /\ admitted' = [admitted EXCEPT ![a] = admitted[a] \cup {x}]
  BY DEF Admitted
<1>3. Window(rateByAddress[a], tick, admitted[a])
  BY <1>1 DEF WindowInv
<1> HIDE DEF a
<1>4. Window(currentRate(a), tick, admitted[a] \cup {x})
  <2>1. CASE /\ rateByAddress[a].count = 0 \/ tick - rateByAddress[a].startedAt >= Minute
             /\ currentRate(a) = [startedAt |-> tick, count |-> 1]
             /\ currentRate(a).count = 1
    BY <1>3, <2>1, WindowOpens
  <2>2. CASE /\ rateByAddress[a].count > 0 /\ rateByAddress[a].count < MAX
             /\ tick - rateByAddress[a].startedAt < Minute
             /\ currentRate(a) = [rateByAddress[a] EXCEPT !.count = rateByAddress[a].count + 1]
             /\ currentRate(a).count = rateByAddress[a].count + 1
    BY <1>3, <2>2, WindowCounts
  <2> QED
    BY <1>1, <1>2, <2>1, <2>2, CurrentRate
<1> HIDE DEF x
<1> QED
  BY <1>1, <1>2, <1>4, OneWindow

(* A request that is refused for the rate.                                 *)
LEMMA LimitWindow ==
    ASSUME WindowInv, NEW c \in Connection, NEW q \in Requests, Limit(c, q)
    PROVE  WindowInv'
<1> DEFINE a == remoteAddress(c)
<1>1. a \in Address
  BY DEF remoteAddress, Address
<1>2. /\ ~WithinRate(a) /\ UNCHANGED tick
      /\ rateByAddress' = [rateByAddress EXCEPT ![a] = currentRate(a)]
      /\ admitted' = [admitted EXCEPT ![a] = admitted[a]]
  BY <1>1 DEF Limit, AnswerAtOnce, WindowInv
<1>3. Window(rateByAddress[a], tick, admitted[a])
  BY <1>1 DEF WindowInv
<1> HIDE DEF a
<1>4. Window(currentRate(a), tick, admitted[a])
  BY <1>1, <1>2, <1>3, CurrentRate, WindowOverflows
<1> QED
  BY <1>1, <1>2, <1>4, OneWindow

(* No step of the sidecar loses count of what its windows admitted.        *)
LEMMA WindowNext == WindowInv /\ [HttpNext]_hvars => WindowInv'
<1> SUFFICES ASSUME WindowInv, [HttpNext]_hvars PROVE WindowInv'
  OBVIOUS
<1>1. CASE UNCHANGED <<rateByAddress, tick, admitted>>
  BY <1>1 DEF WindowInv
<1>2. CASE Tick
  <2>1. tick \in 0 .. LastTick /\ tick < LastTick /\ tick' = tick + 1 /\ tick' \in 0 .. LastTick
    BY <1>2, WindowAssumption DEF Tick, WindowInv
  <2>2. \A a \in Address : /\ rateByAddress'[a] = rateByAddress[a]
                           /\ admitted'[a] = {r \in admitted[a] : r.at + Minute > tick + 1}
    BY <1>2 DEF Tick
  <2>3. ASSUME NEW a \in Address PROVE Window(rateByAddress'[a], tick', admitted'[a])
    <3>1. Window(rateByAddress[a], tick, admitted[a])
      BY DEF WindowInv
    <3> QED
      BY <2>1, <2>2, <3>1, WindowAges
  <2>4. admitted' \in [Address -> Histories] /\ rateByAddress' \in [Address -> Rates]
    BY <1>2 DEF Tick, WindowInv, Histories
  <2> QED
    BY <2>1, <2>3, <2>4 DEF WindowInv
<1>3. ASSUME NEW c \in Connection, NEW q \in Requests, Arrives(c, q) PROVE WindowInv'
  <2>1. CASE Busy(c, q) \/ RefuseAtBoundary(c, q)
    BY <1>1, <2>1 DEF Busy, RefuseAtBoundary, AnswerAtOnce
  <2>2. CASE AnswerUnread(c, q) \/ StartReading(c, q)
    BY <2>2, AdmittedWindow DEF AnswerUnread, AnswerAtOnce, StartReading
  <2> QED
    BY <1>3, <2>1, <2>2, LimitWindow DEF Arrives
<1>4. ASSUME NEW c \in Connection,
             \/ ReadWhole(c) \/ ReadTooLarge(c) \/ ReadAborted(c) \/ RailAnswers(c)
             \/ Finish(c) \/ Connect(c) \/ Disconnect(c) \/ TimeOut(c)
      PROVE  WindowInv'
  BY <1>1, <1>4 DEF ReadWhole, ReadTooLarge, ReadAborted, RailAnswers, Finish, Connect,
                    Disconnect, TimeOut, Lose
<1> QED
  BY <1>1, <1>2, <1>3, <1>4 DEF HttpNext, Serves, hvars

(* A server that just started has admitted nothing.                        *)
LEMMA WindowInit == HttpInit => WindowInv
<1> SUFFICES ASSUME HttpInit PROVE WindowInv
  OBVIOUS
<1>1. [startedAt |-> 0, count |-> 0] \in Rates /\ 0 \in 0 .. LastTick /\ {} \in Histories
  BY WindowAssumption DEF Rates, Histories, MAX
<1>2. Window([startedAt |-> 0, count |-> 0], 0, {})
  BY <1>1, FS_EmptySet DEF Window
<1> QED
  BY <1>1, <1>2 DEF HttpInit, WindowInv

(* What the window admitted is all of the last minute.                     *)
LEMMA LastMinute ==
    ASSUME WindowInv, NEW a \in Address
    PROVE  InLastMinute(a) = Cardinality(admitted[a])
<1>1. Window(rateByAddress[a], tick, admitted[a])
  BY DEF WindowInv
<1>2. {r \in admitted[a] : r.at + Minute > tick} = admitted[a]
  BY <1>1 DEF Window
<1> QED
  BY <1>2 DEF InLastMinute

-------------------------------------------------------------------------------
(* The theorems. *)

(* The gate counts exactly the handlers that run and never exceeds its     *)
(* limit, on every way a request can end, for any number of connections.   *)
THEOREM GateIsExact == HttpSpec => []GateCountsHandlers
<1>1. GateInv => GateCountsHandlers
  BY DEF GateInv
<1> QED
  BY <1>1, GateInit, GateNext, PTL DEF HttpSpec

(* No connection is kept for another request with a body in flight on it,  *)
(* whichever refusal or route answered without reading the body.           *)
THEOREM UnreadBodyNotKept == HttpSpec => []NoUnreadBodyKept
<1>1. BodyInv => NoUnreadBodyKept
  BY DEF BodyInv, MarksBody, NoUnreadBodyKept, Idle
<1> QED
  BY <1>1, BodyInit, BodyNext, PTL DEF HttpSpec

(* Only a body in flight, or a refusal for its headers, costs a client its *)
(* connection.                                                             *)
THEOREM ReadBodyKept == HttpSpec => ReadBodyKeepsConnection
<1> DEFINE Kept == \A c \in Connection :
              socket[c] = "open" /\ socket'[c] = "ended" =>
                 body[c] \in {"length", "chunked"} \/ reply[c] = "refused"
<1>1. BodyInv /\ [HttpNext]_hvars => [Kept]_hvars
  <2> SUFFICES ASSUME BodyInv, HttpNext, NEW c \in Connection,
                      socket[c] = "open", socket'[c] = "ended"
               PROVE  body[c] \in {"length", "chunked"} \/ reply[c] = "refused"
    BY DEF Kept
  <2>1. Finish(c) /\ c \in unreadBodyRefusals
    BY DEF HttpNext, Serves, Arrives, Busy, RefuseAtBoundary, Limit, AnswerUnread,
           AnswerAtOnce, StartReading, ReadWhole, ReadTooLarge, ReadAborted, RailAnswers,
           Finish, Connect, Disconnect, TimeOut, Lose, Tick, BodyInv
  <2> QED
    BY <2>1 DEF BodyInv, MarksBody, Bodies
<1> QED
  BY <1>1, BodyInit, BodyNext, PTL DEF HttpSpec, ReadBodyKeepsConnection

(* No minute lets twice the limit of requests of one address through, for  *)
(* any limit and any length of a window.                                   *)
THEOREM RateIsBounded == HttpSpec => []LessThanTwiceTheRate
<1>1. WindowInv => LessThanTwiceTheRate
  <2> SUFFICES ASSUME WindowInv, NEW a \in Address
               PROVE  InLastMinute(a) < 2 * MAX
    BY DEF LessThanTwiceTheRate, MAX
  <2> DEFINE rate == rateByAddress[a]
             A == admitted[a]
  <2>1. Window(rate, tick, A) /\ MAX \in Nat /\ MAX >= 1
    BY WindowAssumption DEF WindowInv, MAX
  <2>2. InLastMinute(a) = Cardinality(A)
    BY LastMinute
  <2> HIDE DEF rate, A
  <2>3. CASE rate.count = 0
    <3>1. Cardinality(A) = 0
      BY <2>1, <2>3, FS_EmptySet DEF Window
    <3> QED
      BY <2>1, <2>2, <3>1
  <2>4. CASE rate.count # 0
    <3>1. rate.count \in Nat /\ rate.startedAt \in Nat /\ rate.count > 0
      BY <2>1, <2>4, WindowAssumption DEF Window, Rates
    <3>2. A = Before(A, rate) \cup Within(A, rate) /\ Before(A, rate) \cap Within(A, rate) = {}
      BY <2>1, <3>1, WindowAssumption DEF Before, Within, Window, Histories
    <3>3. /\ IsFiniteSet(A)
          /\ Cardinality(Before(A, rate)) <= MAX - 1
          /\ Cardinality(Within(A, rate)) <= MAX
      <4>1. Let(rate) \in Nat /\ Let(rate) <= MAX
        BY <2>1, <3>1 DEF Let
      <4>2. /\ IsFiniteSet(A)
            /\ Cardinality(Before(A, rate)) <= MAX - 1
            /\ Cardinality(Within(A, rate)) <= Let(rate)
        BY <2>1, <3>1 DEF Window
      <4> QED
        BY <2>1, <4>1, <4>2, PartsFinite
    <3> DEFINE B == Before(A, rate)
               W == Within(A, rate)
    <3>4. IsFiniteSet(B) /\ IsFiniteSet(W) /\ Cardinality(B) \in Nat /\ Cardinality(W) \in Nat
      BY <3>3, PartsFinite
    <3>5. Cardinality(B) <= MAX - 1 /\ Cardinality(W) <= MAX /\ A = B \cup W /\ B \cap W = {}
      BY <3>2, <3>3
    <3> HIDE DEF B, W
    <3>6. Cardinality(B \cup W) = Cardinality(B) + Cardinality(W) - Cardinality(B \cap W)
          /\ Cardinality({}) = 0
      BY <3>4, FS_Union, FS_EmptySet
    <3>7. Cardinality(A) = Cardinality(B) + Cardinality(W)
      <4>1. Cardinality(A) = Cardinality(B \cup W) /\ Cardinality(B \cap W) = 0
        BY <3>5, <3>6
      <4> QED
        BY <3>4, <3>6, <4>1
    <3> QED
      BY <2>1, <2>2, <3>4, <3>5, <3>7
  <2> QED
    BY <2>3, <2>4
<1> QED
  BY <1>1, WindowInit, WindowNext, PTL DEF HttpSpec

(* Only an address that did use up its limit in the minute before is       *)
(* refused for its rate.                                                   *)
THEOREM LimitIsDue == HttpSpec => LimitedOnlyAtLimit
<1> DEFINE Due == \A c \in Connection :
              reply[c] = "none" /\ reply'[c] = "limited" =>
                 InLastMinute(remoteAddress(c)) >= MAX_REQUESTS_PER_MINUTE
<1>1. WindowInv /\ BodyInv /\ [HttpNext]_hvars => [Due]_hvars
  <2> SUFFICES ASSUME WindowInv, BodyInv, HttpNext, NEW c \in Connection,
                      reply[c] = "none", reply'[c] = "limited"
               PROVE  InLastMinute(remoteAddress(c)) >= MAX
    BY DEF Due, MAX
  <2>1. PICK q \in Requests : Limit(c, q)
    BY DEF HttpNext, Serves, Arrives, Busy, RefuseAtBoundary, Limit, AnswerUnread,
           AnswerAtOnce, Send, StartReading, ReadWhole, ReadTooLarge, ReadAborted, RailAnswers,
           HandlerEnds, Finish, Connect, Disconnect, TimeOut, Lose, Tick, BodyInv
  <2> DEFINE a == remoteAddress(c)
             rate == rateByAddress[a]
             A == admitted[a]
  <2>2. a \in Address /\ ~WithinRate(a)
    BY <2>1 DEF Limit, remoteAddress, Address
  <2>3. rate.count >= MAX /\ tick - rate.startedAt < Minute
    BY <2>2, CurrentRate
  <2>4. Window(rate, tick, A) /\ InLastMinute(a) = Cardinality(A)
    BY <2>2, LastMinute DEF WindowInv
  <2> HIDE DEF A, rate, a
  <2>5. MAX \in Nat /\ MAX >= 1 /\ Minute \in Nat /\ tick \in Nat
        /\ rate.count \in Nat /\ rate.startedAt \in Nat
    BY <2>4, WindowAssumption DEF MAX, Window, Rates
  <2>6. Let(rate) = MAX /\ rate.count > 0 /\ tick < rate.startedAt + Minute
    BY <2>3, <2>5 DEF Let
  <2>7. Cardinality(Within(A, rate)) = MAX /\ IsFiniteSet(A)
    BY <2>4, <2>6 DEF Window
  <2>8. Within(A, rate) \in SUBSET A
    BY DEF Within
  <2>9. Cardinality(Within(A, rate)) <= Cardinality(A) /\ Cardinality(A) \in Nat
    BY <2>7, <2>8, FS_Subset, FS_CardinalityType
  <2> QED
    BY <2>4, <2>5, <2>7, <2>9 DEF a
<1> QED
  BY <1>1, WindowInit, WindowNext, BodyInit, BodyNext, PTL DEF HttpSpec, LimitedOnlyAtLimit

(* Every variable of the sidecar stays in its type: the gate is never      *)
(* driven below zero or above its limit, and no count exceeds the limit by *)
(* more than the request that was refused.                                 *)
THEOREM SidecarTypeCorrect == HttpSpec => []HttpTypeOK
<1> DEFINE Marked == unreadBodyRefusals \in SUBSET Connection
<1>1. HttpInit => Marked
  BY DEF HttpInit
<1>2. Marked /\ [HttpNext]_hvars => Marked'
  BY DEF HttpNext, Serves, Arrives, Busy, RefuseAtBoundary, Limit, AnswerUnread,
         AnswerAtOnce, Arm, StartReading, ReadWhole, ClearMark, ReadTooLarge, ReadAborted,
         RailAnswers, Finish, Connect, Disconnect, TimeOut, Lose, Tick, hvars
<1>3. GateInv /\ BodyInv /\ WindowInv /\ Marked => HttpTypeOK
  <2>1. GateInv => activeRequests \in 0 .. MAX_CONCURRENT_REQUESTS
    <3>1. Cardinality(Served) \in Nat
      BY ServedFinite, FS_CardinalityType
    <3> QED
      BY <3>1, GateAssumption DEF GateInv, GateCountsHandlers
  <2> QED
    BY <2>1 DEF BodyInv, Handlers, Replies, WindowInv, Rates, Histories, MAX, HttpTypeOK
<1> QED
  BY <1>1, <1>2, <1>3, GateInit, GateNext, BodyInit, BodyNext, WindowInit, WindowNext, PTL
     DEF HttpSpec
===============================================================================
