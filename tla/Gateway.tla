------------------------------ MODULE Gateway ------------------------------
(***************************************************************************)
(* A request to /v1/* from its arrival to the end of its response:         *)
(* authentication by handshake or master key (AnorakProxyMiddleware), the  *)
(* counters in Redis (utils/metrics.py), the route (api/routes/proxy.py)   *)
(* and the forwarding, at once or as a stream (proxy/passthrough.py,       *)
(* proxy/streaming.py).                                                    *)
(*                                                                         *)
(* This is Handshake with the rest of the way around it: a request whose   *)
(* handshake is accepted, or whose master key is, goes on.  Each await is  *)
(* a stage, and what the two reconstruct functions answer (MasterKey and   *)
(* TokenCache) is left open.  Redis keeps its keys here.                   *)
(***************************************************************************)
EXTENDS Handshake

CONSTANT PoolLimit   \* connections httpx.AsyncClient opens at the same time

ASSUME PoolAssumption == PoolLimit \in Nat

VARIABLES stage,     \* what each request waits for
          stream,    \* whether its body asks for a stream
          status,    \* the status line its client has received
          upstream,  \* "untouched", "asked" (it may have acted) or "answered", with any status
          count,     \* anorak:metrics:request_count
          earlier    \* history: whose challenges were marked when it came in

wayVars == <<stage, stream, status, upstream, count>>
gatewayVars == <<wayVars, earlier>>

Suspended == {"handshake", "master_key", "recording", "counting", "maas_token", "body",
              "pool", "response"}

GatewayInit ==
    /\ Init
    /\ stage = [r \in Requests |-> "new"]
    /\ stream = [r \in Requests |-> FALSE]
    /\ status = [r \in Requests |-> "none"]
    /\ upstream = [r \in Requests |-> "untouched"]
    /\ count = 0
    /\ earlier = [r \in Requests |-> {}]

GoTo(r, next) == /\ stage' = [stage EXCEPT ![r] = next]
                 /\ UNCHANGED <<stream, status, upstream>>

\* The whole response is sent, beginning with its status.
Respond(r, code) == /\ stage' = [stage EXCEPT ![r] = "done"]
                    /\ status' = [status EXCEPT ![r] = code]
                    /\ UNCHANGED stream

-----------------------------------------------------------------------------
(* dispatch: authentication *)

\* dispatch goes on: increment_request_count, which does nothing without Redis,
\* then call_next.
Admit(r) == GoTo(r, IF redisClient THEN "counting" ELSE "maas_token")

\* The HandshakeException is caught: record_handshake_failure comes before the
\* answer.
Refuse(r) == IF redisClient
             THEN GoTo(r, "recording")
             ELSE Respond(r, "refused") /\ UNCHANGED upstream

\* Mutated form: an error of Redis lets the request through.
FollowOpen(r) ==
    CASE req'[r].state \in Waiting -> GoTo(r, "handshake")
      [] req'[r].state \in {"accepted", "error"} -> Admit(r)
      [] req'[r].state \in Refused -> Refuse(r)

\* What dispatch makes of the state the handshake is brought to.
Follow(r) ==
    CASE req'[r].state \in Waiting -> GoTo(r, "handshake")
      [] req'[r].state = "accepted" -> Admit(r)
      [] req'[r].state = "error" -> Respond(r, "500") /\ UNCHANGED upstream
      [] req'[r].state \in Refused -> Refuse(r)

\* No Bearer token: _validate_handshake up to its first await.
ArriveHmac(r) ==
    /\ stage[r] = "new"
    /\ Present(r)
    /\ earlier' = [earlier EXCEPT ![r] = {q \in Requests : req[q].marked /\ redisClient}]
    /\ Follow(r)
    /\ UNCHANGED count

HandshakeStep(r) ==
    /\ stage[r] = "handshake"
    /\ RedisAnswers(r)
    /\ Follow(r)
    /\ UNCHANGED <<count, earlier>>

HandshakeFails(r) ==
    /\ stage[r] = "handshake"
    /\ RedisFails(r) \/ MarkChallengeUsed(r, "error")
    /\ Follow(r)
    /\ UNCHANGED <<count, earlier>>

\* Authorization: Bearer, whatever the other headers say: the internal API key
\* is awaited.
ArriveBearer(r) ==
    /\ stage[r] = "new"
    /\ req[r].state = "idle"
    /\ GoTo(r, "master_key")
    /\ UNCHANGED <<vars, count, earlier>>

\* The key matches; or it does not, or looking it up raised whatever exception.
MasterKeyAccepted(r) ==
    /\ stage[r] = "master_key"
    /\ Admit(r)
    /\ UNCHANGED <<vars, count, earlier>>

MasterKeyRefused(r) ==
    /\ stage[r] = "master_key"
    /\ Refuse(r)
    /\ UNCHANGED <<vars, count, earlier>>

-----------------------------------------------------------------------------
(* dispatch: the counters.  An INCR that raises, with or without effect, is  *)
(* caught by nobody: 500.                                                    *)

RecordFailure(r) ==
    /\ stage[r] = "recording"
    /\ Respond(r, "refused") \/ Respond(r, "500")
    /\ UNCHANGED <<vars, upstream, count, earlier>>

\* Mutated form: the request goes on while the counter is written, once the
\* answer has come or not.
CountLater(r) ==
    /\ stage[r] = "counting"
    /\ count' \in {count, count + 1}
    /\ GoTo(r, "maas_token")
    /\ UNCHANGED <<vars, earlier>>

\* Mutated form: INCR is sent again when its answer is late.
CountTwice(r) ==
    /\ stage[r] = "counting"
    /\ count' \in {count + 1, count + 2}
    /\ GoTo(r, "maas_token")
    /\ UNCHANGED <<vars, earlier>>

CountRequest(r) ==
    /\ stage[r] = "counting"
    /\ count' = count + 1
    /\ GoTo(r, "maas_token")
    /\ UNCHANGED <<vars, earlier>>

CountFails(r) ==
    /\ stage[r] = "counting"
    /\ count' \in {count, count + 1}
    /\ Respond(r, "500")
    /\ UNCHANGED <<vars, upstream, earlier>>

-----------------------------------------------------------------------------
(* proxy_to_upstream and the two forward functions *)

\* reconstruct_maas_token returns; the body of the request is awaited, for as long
\* as its client takes to send it.
TokenReady(r) ==
    /\ stage[r] = "maas_token"
    /\ GoTo(r, "body")
    /\ UNCHANGED <<vars, count, earlier>>

\* ShardException: anorak_exception_handler answers.
TokenFails(r) ==
    /\ stage[r] = "maas_token"
    /\ Respond(r, "500")
    /\ UNCHANGED <<vars, upstream, count, earlier>>

\* The body is read to its end.  A stream begins its response, status included,
\* before forward_streaming_request has run.
BodyArrives(r, streaming) ==
    /\ stage[r] = "body"
    /\ stage' = [stage EXCEPT ![r] = "pool"]
    /\ stream' = [stream EXCEPT ![r] = streaming]
    /\ status' = [status EXCEPT ![r] = IF streaming THEN "200" ELSE "none"]
    /\ UNCHANGED <<vars, upstream, count, earlier>>

\* httpx cannot build the request, for a header or a URL it cannot encode, and
\* raises what is no httpx.HTTPError.
BuildFails(r, streaming) ==
    /\ stage[r] = "body"
    /\ stage' = [stage EXCEPT ![r] = IF streaming THEN "broken" ELSE "done"]
    /\ stream' = [stream EXCEPT ![r] = streaming]
    /\ status' = [status EXCEPT ![r] = IF streaming THEN "200" ELSE "500"]
    /\ UNCHANGED <<vars, upstream, count, earlier>>

\* The connections in use.
Connected == {r \in Requests : stage[r] = "response"}

Connect(r) ==
    /\ stage[r] = "pool"
    /\ Cardinality(Connected) < PoolLimit
    /\ stage' = [stage EXCEPT ![r] = "response"]
    /\ upstream' = [upstream EXCEPT ![r] = "asked"]
    /\ UNCHANGED <<vars, stream, status, count, earlier>>

\* Mutated form: the exception of a stream is logged and its iteration over.
EndQuietly(r, code) ==
    IF stream[r] THEN GoTo(r, "done") ELSE Respond(r, code) /\ UNCHANGED upstream

\* ProxyException: an answer of its own, or a stream that stops without its end
\* because its status is long sent.
GiveUp(r, code) ==
    IF stream[r] THEN GoTo(r, "broken") ELSE Respond(r, code) /\ UNCHANGED upstream

\* Mutated form: only a stream waits for a connection with a timeout.
StreamPoolTimeout(r) ==
    /\ stage[r] = "pool"
    /\ stream[r]
    /\ GiveUp(r, "504")
    /\ UNCHANGED <<vars, count, earlier>>

\* httpx.PoolTimeout, which is a TimeoutException.
PoolTimeout(r) ==
    /\ stage[r] = "pool"
    /\ GiveUp(r, "504")
    /\ UNCHANGED <<vars, count, earlier>>

\* httpx.TimeoutException and httpx.HTTPError while connecting, sending or
\* reading.
UpstreamFails(r, code) ==
    /\ stage[r] = "response"
    /\ GiveUp(r, code)
    /\ UNCHANGED <<vars, count, earlier>>

\* The answer of the upstream to the end, whatever its status.  httpx decodes a
\* compressed body while its Content-Length and Content-Encoding are copied: the
\* server cannot complete the response.
UpstreamAnswers(r, compressed) ==
    /\ stage[r] = "response"
    /\ ~stream[r]
    /\ stage' = [stage EXCEPT ![r] = IF compressed THEN "broken" ELSE "done"]
    /\ status' = [status EXCEPT ![r] = "upstream"]
    /\ upstream' = [upstream EXCEPT ![r] = "answered"]
    /\ UNCHANGED <<vars, stream, count, earlier>>

\* The upstream has answered to the end, and building the Response raises: a header
\* Latin-1 cannot hold is no httpx.HTTPError.
ResponseFails(r) ==
    /\ stage[r] = "response"
    /\ ~stream[r]
    /\ Respond(r, "500")
    /\ upstream' = [upstream EXCEPT ![r] = "answered"]
    /\ UNCHANGED <<vars, count, earlier>>

\* The last chunk, at the pace at which the client reads.  The status of the
\* upstream is not looked at: its error is the body of a 200.
StreamEnds(r) ==
    /\ stage[r] = "response"
    /\ stream[r]
    /\ stage' = [stage EXCEPT ![r] = "done"]
    /\ upstream' = [upstream EXCEPT ![r] = "answered"]
    /\ UNCHANGED <<vars, stream, status, count, earlier>>

\* The client goes away: request.body() raises ClientDisconnect; the response of a
\* stream is cancelled, which closes the generator and gives the connection back.
ClientLeaves(r) ==
    /\ stage[r] = "body" \/ (stream[r] /\ stage[r] \in {"pool", "response"})
    /\ GoTo(r, "broken")
    /\ UNCHANGED <<vars, count, earlier>>

-----------------------------------------------------------------------------
RestartProxy ==
    /\ ProcessRestart
    /\ stage' = [r \in Requests |-> IF stage[r] \in Suspended THEN "broken" ELSE stage[r]]
    /\ UNCHANGED <<stream, status, upstream, count, earlier>>

\* What the proxy, Redis, the thread pool and the timeouts bring about.  Whether a
\* client sends its body to the end, and how fast it reads a stream, is not among
\* it.
Progress(r) ==
    \/ HandshakeStep(r)
    \/ MasterKeyAccepted(r) \/ MasterKeyRefused(r)
    \/ RecordFailure(r)
    \/ CountRequest(r)
    \/ TokenReady(r) \/ TokenFails(r)
    \/ Connect(r) \/ PoolTimeout(r)
    \/ ~stream[r] /\ \E code \in {"502", "504"} : UpstreamFails(r, code)
    \/ \E compressed \in BOOLEAN : UpstreamAnswers(r, compressed)
    \/ ResponseFails(r)

RequestStep(r) ==
    \/ ArriveHmac(r) \/ ArriveBearer(r)
    \/ Progress(r)
    \/ HandshakeFails(r)
    \/ CountFails(r)
    \/ \E streaming \in BOOLEAN : BodyArrives(r, streaming) \/ BuildFails(r, streaming)
    \/ stream[r] /\ UpstreamFails(r, "broken")
    \/ StreamEnds(r)
    \/ ClientLeaves(r)

GatewayNext ==
    \/ \E r \in Requests : RequestStep(r)
    \/ \E c \in Challenges : GenerateChallenge(c) /\ UNCHANGED gatewayVars
    \/ RestartProxy
    \/ Tick /\ UNCHANGED gatewayVars

GatewaySpec == GatewayInit /\ [][GatewayNext]_<<vars, gatewayVars>>

FairGatewaySpec ==
    GatewaySpec /\ \A r \in Requests : WF_<<vars, gatewayVars>>(Progress(r))

-----------------------------------------------------------------------------
(* Properties *)

WayTypes ==
    /\ stage \in [Requests -> {"new", "done", "broken"} \cup Suspended]
    /\ stream \in [Requests -> BOOLEAN]
    /\ status \in [Requests -> {"none", "refused", "500", "502", "504", "200", "upstream"}]
    /\ upstream \in [Requests -> {"untouched", "asked", "answered"}]
    /\ earlier \in [Requests -> SUBSET Requests]

GatewayTypeOK == TypeOK /\ WayTypes /\ count \in 0..Cardinality(Requests)

\* Whatever fails between the handshake and the upstream API, a request whose
\* challenge had been marked by another when it came in is not forwarded.
ReplayNotForwarded ==
    \A r \in Requests : upstream[r] # "untouched" =>
       \A q \in earlier[r] : req[q].challenge # req[r].challenge

\* A complete answer never rules out what happened: after a refusal the upstream has
\* not seen the request; a 502 is only said of one it may have seen, a 504 of one it
\* may or may not have; its own status, or the 200 of a stream that ends properly,
\* mean that it answered in full; and a 500 says nothing for sure, though never of a
\* request whose fate is unknown.
ResponseTells ==
    \A r \in Requests : stage[r] = "done" =>
       /\ upstream[r] = "untouched" => status[r] \in {"refused", "500", "504"}
       /\ upstream[r] = "asked" => status[r] \in {"502", "504"}
       /\ upstream[r] = "answered" => status[r] \in {"200", "upstream", "500"}

\* On its way to the upstream with Redis to count it, or ended there after a
\* handshake.  (A Bearer request leaves the set when it ends: nothing tells any more
\* whether it had Redis.)
Through == {r \in Requests :
              \/ redisClient /\ stage[r] \in {"maas_token", "body", "pool", "response"}
              \/ /\ req[r].marked
                 /\ \/ upstream[r] # "untouched"
                    \/ status[r] \in {"502", "504", "200", "upstream"}}

\* Past the counter, as far as the proxy can tell after a restart.
Past == {r \in Requests :
           /\ stage[r] \in {"maas_token", "body", "pool", "response", "done", "broken"}
           /\ status[r] # "refused"}

\* request_count counts, while there is Redis, every request on its way to the
\* upstream and, of those that have ended, every one of a handshake that was
\* forwarded; it counts none that was refused, though an INCR may fail with or
\* without effect and a restart end requests anywhere.
CountFollows == Cardinality(Through) <= count /\ count <= Cardinality(Past)

\* Every request is answered, with a status or by the loss of its connection, unless
\* its own client keeps it waiting for its body; not even streams whose clients do
\* not read and that hold all connections forever keep another waiting.
RequestIsAnswered ==
    \A r \in Requests :
       stage[r] \in Suspended \ {"body"} ~>
          status[r] # "none" \/ stage[r] \in {"broken", "body"}

-----------------------------------------------------------------------------
(* The inductive invariants. *)

\* Where a request waits, what its handshake came to, and what its client and
\* the upstream have seen, go together.
StageInv ==
    \A r \in Requests :
       /\ stage[r] = "handshake" <=> req[r].state \in Waiting
       /\ stage[r] \in {"new", "master_key"} => req[r].state = "idle"
       /\ \/ stage[r] \in {"counting", "maas_token", "body", "pool", "response"}
          \/ upstream[r] # "untouched"
          => req[r].state \in {"idle", "accepted"}
       /\ stage[r] \in Suspended \cup {"new"} =>
             status[r] = IF stage[r] \in {"pool", "response"} /\ stream[r]
                         THEN "200" ELSE "none"
       /\ stage[r] \in {"new"} \cup (Suspended \ {"response"}) =>
             upstream[r] = "untouched"
       /\ stage[r] = "response" => upstream[r] = "asked"
       /\ status[r] \in {"refused", "500"} => stage[r] = "done"

WayInv == StageInv /\ ResponseTells

\* A request that came in after its challenge was marked gets no further than
\* EXISTS.
EarlierInv ==
    \A r \in Requests :
       /\ req[r].state = "idle" => earlier[r] = {}
       /\ \A q \in earlier[r] :
             /\ req[q].marked
             /\ req[q].challenge = req[r].challenge =>
                   req[r].state \notin {"setex", "accepted"}

\* A restart ends the requests before it takes the client of Redis away.
RedisInv ==
    \A r \in Requests :
       /\ stage[r] = "handshake" => redisClient
       /\ stage[r] \in Suspended /\ req[r].marked => redisClient

=============================================================================
