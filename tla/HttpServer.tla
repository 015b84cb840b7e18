------------------------------ MODULE HttpServer ------------------------------
(***************************************************************************)
(* The loopback sidecar (http-server.js): what happens to a request        *)
(* between its headers and the end of its connection.                      *)
(*                                                                         *)
(* A request passes the concurrency gate, the boundary checks and the rate *)
(* window, is routed, has its body read or refused, and on five routes     *)
(* awaits the rail.  Between two awaits the handler runs undisturbed, so a *)
(* request is at most three steps of the server: its arrival, the end of   *)
(* its body, the answer of the rail.  Clients, sockets and Node's server   *)
(* timeouts are the environment.  A client sends its next request on a     *)
(* connection once the previous response has been flushed (no pipelining). *)
(* What a handler asks the rail is in module Rail; here it is some answer. *)
(***************************************************************************)
EXTENDS Integers, FiniteSets

CONSTANTS
    Connection,    \* places for TCP connections; a closed one may be reused
    OverIPv6,      \* those of them whose client connects to ::1; cmd/rail.js
                   \* listens on 127.0.0.1, a host of createReferenceServer
                   \* may listen on both
    MAX_CONCURRENT_REQUESTS,
    MAX_REQUESTS_PER_MINUTE,
    Minute,        \* the length of a rate window, in ticks of Date.now()
    LastTick       \* bound on the clock

ASSUME GateAssumption ==
    /\ IsFiniteSet(Connection) /\ OverIPv6 \subseteq Connection
    /\ MAX_CONCURRENT_REQUESTS \in Nat \ {0}

ASSUME WindowAssumption ==
    MAX_REQUESTS_PER_MINUTE \in Nat \ {0} /\ Minute \in Nat \ {0} /\ LastTick \in Nat

\* request.socket.remoteAddress
Address == {"127.0.0.1", "::1"}
remoteAddress(c) == IF c \in OverIPv6 THEN "::1" ELSE "127.0.0.1"

(* The body a request declares, by content-length or by transfer-encoding, *)
(* as far as it is in flight: "none" again once it is read to its end.     *)
(* Only the length "0" declares none; "00", which declares a body that is  *)
(* whole with its headers, is left out.                                    *)
Bodies == {"none", "length", "chunked"}

(* What of a request decides its way: whether assertRequestBoundary lets   *)
(* it pass, the kind of route its path, query and method select, the body  *)
(* it declares and whether readJson accepts encoding, declared length and  *)
(* media type.  "nowhere" stands for every refusal by routing, "bodyless"  *)
(* for the three routes that call assertNoBody, "direct" for those that    *)
(* answer in the turn that ends the body, "awaited" for those that await.  *)
Requests ==
    {q \in [boundary : BOOLEAN, body : Bodies, readable : BOOLEAN,
            route : {"nowhere", "bodyless", "direct", "awaited"}] :
        q.route \in {"nowhere", "bodyless"} \/ ~q.boundary => q.readable}

VARIABLES
    activeRequests,
    rateByAddress, \* [startedAt, count] per address; count 0: no entry yet
    socket,        \* per connection: "open", "ended" (FIN sent) or "closed"
    handler,       \* per connection: "none", "direct" or "awaited" while it
                   \* reads a body for such a route, "awaiting" the rail
    body,          \* per connection: the body in flight
    unreadBodyRefusals, \* the connections whose current request is marked
    reply,         \* per connection: the response sent and not yet flushed;
                   \* "limited" by the rate, "refused" by readJson for what
                   \* the headers say, or any other, "answered"
    tick,          \* Date.now()
    admitted       \* history: per address, the requests admitted in the last
                   \* minute - at which tick, and as the nth of their window

hvars == <<activeRequests, rateByAddress, socket, handler, body,
           unreadBodyRefusals, reply, tick, admitted>>

HttpInit ==
    /\ activeRequests = 0
    /\ rateByAddress = [a \in Address |-> [startedAt |-> 0, count |-> 0]]
    /\ socket = [c \in Connection |-> "closed"]
    /\ handler = [c \in Connection |-> "none"]
    /\ body = [c \in Connection |-> "none"]
    /\ unreadBodyRefusals = {}
    /\ reply = [c \in Connection |-> "none"]
    /\ tick = 0
    /\ admitted = [a \in Address |-> {}]

-------------------------------------------------------------------------------
(* Parts of the handler.  Mutants are what a slip in the code would make   *)
(* of the definition below them.                                           *)

\* An idle connection: no request on it has anything outstanding.
Idle(c) == socket[c] = "open" /\ handler[c] = "none" /\ reply[c] = "none"

MutantLeave(n) == n
\* finally { activeRequests -= 1 }
Leave(n) == n - 1

MutantGateOpen(n) == n <= MAX_CONCURRENT_REQUESTS
GateOpen(n) == n < MAX_CONCURRENT_REQUESTS

MutantDeclaresBody(b) == b = "length"
declaresBody(b) == b # "none"

(* armUnreadBodyClose marks a declared body up front; a refusal of readJson *)
(* for what the headers say marks the request whether it declares one or   *)
(* not.  assertNoBody refuses, and marks again, only what declares one.    *)
Arm(c, marked) ==
    unreadBodyRefusals' = IF marked THEN unreadBodyRefusals \cup {c}
                          ELSE unreadBodyRefusals

(* The window a request at this tick is counted in; the count is raised    *)
(* before it is compared, and is not told apart beyond the limit.          *)
MutantCurrentRate(a) ==
    IF rateByAddress[a].count = 0 \/ tick - rateByAddress[a].startedAt > Minute
    THEN [startedAt |-> tick, count |-> 1]
    ELSE [rateByAddress[a] EXCEPT
             !.count = IF @ > MAX_REQUESTS_PER_MINUTE THEN @ ELSE @ + 1]
currentRate(a) ==
    IF rateByAddress[a].count = 0 \/ tick - rateByAddress[a].startedAt >= Minute
    THEN [startedAt |-> tick, count |-> 1]
    ELSE [rateByAddress[a] EXCEPT
             !.count = IF @ > MAX_REQUESTS_PER_MINUTE THEN @ ELSE @ + 1]

MutantWithinRate(a) == currentRate(a).count - 1 <= MAX_REQUESTS_PER_MINUTE
WithinRate(a) == currentRate(a).count <= MAX_REQUESTS_PER_MINUTE

(* send(): one response, flushed later by Finish.  Nothing reaches a client *)
(* that is gone.                                                           *)
Send(c, answer) ==
    reply' = [reply EXCEPT ![c] = IF socket[c] = "open" THEN answer ELSE "none"]

(* A request whose first segment ends with its response: armed, answered,  *)
(* its handler over; it entered the gate and left it by the finally.       *)
AnswerAtOnce(c, q, marked, answer) ==
    /\ Arm(c, marked)
    /\ body' = [body EXCEPT ![c] = q.body]
    /\ Send(c, answer)
    /\ UNCHANGED <<socket, handler, tick>>

(* assertRequestBoundary passes and the rate window admits the request.    *)
Admitted(c, q) ==
    LET address == remoteAddress(c) IN
    /\ Idle(c) /\ GateOpen(activeRequests) /\ q.boundary /\ WithinRate(address)
    /\ rateByAddress' = [rateByAddress EXCEPT ![address] = currentRate(address)]
    /\ admitted' = [admitted EXCEPT ![address] =
                       @ \cup {[at |-> tick, nth |-> currentRate(address).count]}]

\* The route reads a body and readJson accepts what the headers say of it.
Reads(q) == q.route \in {"direct", "awaited"} /\ q.readable

\* The route reads a body and readJson throws before it does.
RefusedByHeaders(q) == q.route \in {"direct", "awaited"} /\ ~q.readable

-------------------------------------------------------------------------------
(* The first segment of the request handler, one action per way it ends.   *)

\* activeRequests >= MAX_CONCURRENT_REQUESTS: answered outside the try.
Busy(c, q) ==
    /\ Idle(c) /\ ~GateOpen(activeRequests)
    /\ AnswerAtOnce(c, q, declaresBody(q.body), "answered")
    /\ UNCHANGED <<activeRequests, rateByAddress, admitted>>

\* assertRequestBoundary throws before the rate map is touched.
RefuseAtBoundary(c, q) ==
    /\ Idle(c) /\ GateOpen(activeRequests) /\ ~q.boundary
    /\ AnswerAtOnce(c, q, declaresBody(q.body), "answered")
    /\ activeRequests' = Leave(activeRequests + 1)
    /\ UNCHANGED <<rateByAddress, admitted>>

\* RATE_LIMITED: counted and refused.
Limit(c, q) ==
    /\ Idle(c) /\ GateOpen(activeRequests) /\ q.boundary /\ ~WithinRate(remoteAddress(c))
    /\ rateByAddress' = [rateByAddress EXCEPT ![remoteAddress(c)] = currentRate(remoteAddress(c))]
    /\ AnswerAtOnce(c, q, declaresBody(q.body), "limited")
    /\ activeRequests' = Leave(activeRequests + 1)
    /\ UNCHANGED admitted

\* A refusal by routing, a bodyless route, or a refusal before the body is read.
AnswerUnread(c, q) ==
    /\ Admitted(c, q) /\ ~Reads(q)
    /\ AnswerAtOnce(c, q, declaresBody(q.body) \/ RefusedByHeaders(q),
                    IF RefusedByHeaders(q) THEN "refused" ELSE "answered")
    /\ activeRequests' = Leave(activeRequests + 1)

\* readJson starts to read: the handler keeps its place in the gate.
StartReading(c, q) ==
    /\ Admitted(c, q) /\ Reads(q)
    /\ Arm(c, declaresBody(q.body))
    /\ body' = [body EXCEPT ![c] = q.body]
    /\ handler' = [handler EXCEPT ![c] = q.route]
    /\ activeRequests' = activeRequests + 1
    /\ UNCHANGED <<socket, reply, tick>>

-------------------------------------------------------------------------------
(* The segments that follow an await.                                      *)

Reading(c) == handler[c] \in {"direct", "awaited"}

\* The handler ends in this step, with its finally.
HandlerEnds(c) ==
    /\ handler' = [handler EXCEPT ![c] = "none"]
    /\ activeRequests' = Leave(activeRequests)

MutantKeepMark(c) == unreadBodyRefusals
\* unreadBodyRefusals.delete(request)
ClearMark(c) == unreadBodyRefusals \ {c}

(* The body has been read to its end: the mark is cleared, and the request *)
(* is answered - a direct route, or a body that is refused - or awaits.    *)
ReadWhole(c) ==
    /\ socket[c] = "open" /\ Reading(c)
    /\ body' = [body EXCEPT ![c] = "none"]
    /\ unreadBodyRefusals' = ClearMark(c)
    /\ \/ HandlerEnds(c) /\ Send(c, "answered")
       \/ /\ handler[c] = "awaited"
          /\ handler' = [handler EXCEPT ![c] = "awaiting"]
          /\ UNCHANGED <<activeRequests, reply>>
    /\ UNCHANGED <<rateByAddress, socket, tick, admitted>>

(* A streamed body passes MAX_BODY_BYTES: request.destroy() drops the      *)
(* connection, so the response the catch sends reaches nobody.             *)
ReadTooLarge(c) ==
    /\ socket[c] = "open" /\ Reading(c) /\ body[c] = "chunked"
    /\ socket' = [socket EXCEPT ![c] = "closed"]
    /\ HandlerEnds(c)
    /\ body' = [body EXCEPT ![c] = "none"]
    /\ unreadBodyRefusals' = unreadBodyRefusals \ {c}
    /\ UNCHANGED <<rateByAddress, reply, tick, admitted>>

(* The connection was lost while the body was read: the loop throws and    *)
(* the catch answers nobody.                                               *)
MutantReadAborted(c) ==
    /\ socket[c] = "closed" /\ Reading(c)
    /\ handler' = [handler EXCEPT ![c] = "none"]
    /\ UNCHANGED <<activeRequests, rateByAddress, socket, body,
                   unreadBodyRefusals, reply, tick, admitted>>
ReadAborted(c) ==
    /\ socket[c] = "closed" /\ Reading(c)
    /\ HandlerEnds(c)
    /\ UNCHANGED <<rateByAddress, socket, body, unreadBodyRefusals, reply,
                   tick, admitted>>

\* The rail's promise is settled; the client may be gone by then.
RailAnswers(c) ==
    /\ handler[c] = "awaiting"
    /\ HandlerEnds(c)
    /\ Send(c, "answered")
    /\ UNCHANGED <<rateByAddress, socket, body, unreadBodyRefusals, tick,
                   admitted>>

\* The "finish" event: a marked request ends its connection, another leaves it idle.
Finish(c) ==
    /\ socket[c] = "open" /\ reply[c] # "none"
    /\ reply' = [reply EXCEPT ![c] = "none"]
    /\ IF c \in unreadBodyRefusals
       THEN socket' = [socket EXCEPT ![c] = "ended"]
       ELSE UNCHANGED socket
    /\ UNCHANGED <<activeRequests, rateByAddress, handler, body,
                   unreadBodyRefusals, tick, admitted>>

-------------------------------------------------------------------------------
(* The environment: clients, Node's timeouts, time.                        *)

\* A client takes a connection that is closed and that no handler still serves.
Connect(c) ==
    /\ socket[c] = "closed" /\ handler[c] = "none"
    /\ socket' = [socket EXCEPT ![c] = "open"]
    /\ UNCHANGED <<activeRequests, rateByAddress, handler, body,
                   unreadBodyRefusals, reply, tick, admitted>>

\* The connection is gone, with whatever was under way on it.
Lose(c) ==
    /\ socket' = [socket EXCEPT ![c] = "closed"]
    /\ body' = [body EXCEPT ![c] = "none"]
    /\ unreadBodyRefusals' = unreadBodyRefusals \ {c}
    /\ reply' = [reply EXCEPT ![c] = "none"]
    /\ UNCHANGED <<activeRequests, rateByAddress, handler, tick, admitted>>

\* A client closes; also the end of an idle connection after keepAliveTimeout
\* or maxRequestsPerSocket.
Disconnect(c) == socket[c] # "closed" /\ Lose(c)

(* requestTimeout: the connection of a request that is not received in     *)
(* time is destroyed, whatever its handler did meanwhile.                  *)
MutantTimeOut(c) == Idle(c) /\ Lose(c)
TimeOut(c) ==
    socket[c] # "closed" /\ body[c] \in {"length", "chunked"} /\ Lose(c)

Tick ==
    /\ tick < LastTick
    /\ tick' = tick + 1
    /\ admitted' = [a \in Address |-> {r \in admitted[a] : r.at + Minute > tick + 1}]
    /\ UNCHANGED <<activeRequests, rateByAddress, socket, handler, body,
                   unreadBodyRefusals, reply>>

-------------------------------------------------------------------------------
Arrives(c, q) ==
    \/ Busy(c, q)
    \/ RefuseAtBoundary(c, q)
    \/ Limit(c, q)
    \/ AnswerUnread(c, q)
    \/ StartReading(c, q)

Serves(c) ==
    \/ \E q \in Requests : Arrives(c, q)
    \/ ReadWhole(c)
    \/ ReadTooLarge(c)
    \/ ReadAborted(c)
    \/ RailAnswers(c)
    \/ Finish(c)

HttpNext ==
    \/ \E c \in Connection :
          \/ Serves(c)
          \/ Connect(c)
          \/ Disconnect(c)
          \/ TimeOut(c)
    \/ Tick

HttpSpec == HttpInit /\ [][HttpNext]_hvars
===============================================================================
