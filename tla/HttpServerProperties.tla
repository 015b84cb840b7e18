-------------------------- MODULE HttpServerProperties --------------------------
(***************************************************************************)
(* What the sidecar must guarantee, whatever its clients send, drop or     *)
(* hold open.                                                              *)
(***************************************************************************)
EXTENDS HttpServer

\* The connections whose request still has a handler.
Served == {c \in Connection : handler[c] # "none"}

HttpTypeOK ==
    /\ activeRequests \in 0 .. MAX_CONCURRENT_REQUESTS
    /\ rateByAddress \in [Address -> [startedAt : 0 .. LastTick,
                                      count : 0 .. MAX_REQUESTS_PER_MINUTE + 1]]
    /\ socket \in [Connection -> {"open", "ended", "closed"}]
    /\ handler \in [Connection -> {"none", "direct", "awaited", "awaiting"}]
    /\ body \in [Connection -> Bodies]
    /\ unreadBodyRefusals \in SUBSET Connection
    /\ reply \in [Connection -> {"none", "limited", "refused", "answered"}]
    /\ tick \in 0 .. LastTick
    /\ admitted \in [Address -> SUBSET [at : 0 .. LastTick, nth : 1 .. MAX_REQUESTS_PER_MINUTE]]

(* The gate counts exactly the handlers that run, on live and on lost      *)
(* connections: no way a request ends leaks a place or gives one back      *)
(* twice (activeRequests and the finally of the request handler).          *)
GateCountsHandlers ==
    /\ activeRequests = Cardinality(Served)
    /\ activeRequests <= MAX_CONCURRENT_REQUESTS

(* A connection is kept for another request only if nothing of a body is   *)
(* in flight on it, whichever refusal answered the request before its body *)
(* was read (armUnreadBodyClose, refuseUnreadBody).                        *)
NoUnreadBodyKept ==
    \A c \in Connection : Idle(c) => body[c] = "none" /\ c \notin unreadBodyRefusals

(* And only an unread body, or a refusal readJson makes before it reads,   *)
(* costs the client its connection: the server ends none whose request was *)
(* read to the end (the mark is cleared), however often a mark was set on  *)
(* the same connection before.                                             *)
ReadBodyKeepsConnection ==
    [][\A c \in Connection :
          socket[c] = "open" /\ socket'[c] = "ended" =>
             body[c] \in {"length", "chunked"} \/ reply[c] = "refused"]_hvars

\* The requests of an address admitted in the minute that ends with this tick.
InLastMinute(a) == Cardinality({r \in admitted[a] : r.at + Minute > tick})

(* No minute, wherever it starts, sees two full windows: a fixed window    *)
(* that restarts can let through less than twice the limit (rateByAddress).*)
LessThanTwiceTheRate ==
    \A a \in Address : InLastMinute(a) < 2 * MAX_REQUESTS_PER_MINUTE

(* RATE_LIMITED is answered only to an address that did use up its limit   *)
(* in the minute before: requests of other addresses, refusals at the gate *)
(* or at the boundary and windows long past do not count.                  *)
LimitedOnlyAtLimit ==
    [][\A c \in Connection :
          reply[c] = "none" /\ reply'[c] = "limited" =>
             InLastMinute(remoteAddress(c)) >= MAX_REQUESTS_PER_MINUTE]_hvars

-------------------------------------------------------------------------------
(* Fairness and liveness.                                                  *)

(* Node flushes responses, reports lost connections to the loop that reads *)
(* them, ends an empty stream at once and enforces requestTimeout; the     *)
(* rail's promises settle, as the connectors' do.  Nothing is assumed of a *)
(* client: it may stop sending a body it declared and keep its connection. *)
HttpFairness ==
    \A c \in Connection :
        /\ WF_hvars(body[c] = "none" /\ ReadWhole(c))
        /\ WF_hvars(ReadAborted(c))
        /\ WF_hvars(RailAnswers(c))
        /\ WF_hvars(TimeOut(c))

HttpLiveSpec == HttpSpec /\ HttpFairness

(* A full gate opens again although clients stall or vanish.               *)
GateReopens ==
    activeRequests = MAX_CONCURRENT_REQUESTS ~> activeRequests < MAX_CONCURRENT_REQUESTS

(* A body that is never read does not hold its connection for ever.  (A    *)
(* refused request without a body leaves only the server's FIN behind.)    *)
UnreadBodyEnds ==
    \A c \in Connection :
        c \in unreadBodyRefusals /\ body[c] # "none" ~> c \notin unreadBodyRefusals
===============================================================================
