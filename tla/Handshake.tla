------------------------------ MODULE Handshake ------------------------------
(***************************************************************************)
(* The HMAC handshake of core/crypto/handshake.py, as the challenge route  *)
(* (api/routes/health.py) and the proxy middleware (_validate_handshake)   *)
(* drive it, together with the Redis keys that remember used challenges.   *)
(*                                                                         *)
(* A request is one call of _validate_handshake.  It runs on the event     *)
(* loop up to each await, so the two Redis round trips of                  *)
(* validate_full_handshake (EXISTS, then SETEX) are separate actions and   *)
(* anything may happen between them.                                       *)
(*                                                                         *)
(* Every time is a number of ticks; Second is the number of ticks in one   *)
(* second, so that int(now.timestamp()) can lose a fraction.  The proxy    *)
(* and Redis read the same clock.                                          *)
(***************************************************************************)
EXTENDS Integers, FiniteSets

CONSTANTS Requests,    \* calls of _validate_handshake
          Challenges,  \* the values generate_challenge can draw (its nonces)
          NoChallenge, \* a header that is absent or has no integer timestamp
          Second,      \* ticks in one second
          Timeout,     \* HANDSHAKE_TIMEOUT_SECONDS, in ticks
          Buffer,      \* the 60 seconds mark_challenge_used adds, in ticks
          UtcOffset,   \* local time minus UTC on the host, in ticks
          MaxLatency,  \* bound on the ticks a Redis call stays unanswered
          StartupPing, \* what the PING of lifespan may find (TRUE: Redis is up)
          DataLoss,    \* whether Redis may restart without its keys
          MaxTime      \* bound on the clock

ASSUME RequestAssumption == NoChallenge \notin Challenges

ASSUME ClockAssumption ==
    /\ Second \in Nat \ {0}
    /\ Timeout \in Nat
    /\ Buffer \in Nat
    /\ UtcOffset \in Int
    /\ MaxLatency \in Nat
    /\ MaxTime \in Nat

ASSUME DeploymentAssumption ==
    /\ StartupPing \subseteq BOOLEAN
    /\ StartupPing # {}
    /\ DataLoss \in BOOLEAN

VARIABLES now,         \* the clock
          issued,      \* challenges handed out by GET /health/challenge
          timestamp,   \* the timestamp written into each challenge
          expiresAt,   \* the expires_at told to the client with it
          redis,       \* expiry of each key anorak:challenge:<c>, or NoKey
          redisClient, \* whether the manager was built with a Redis client
          req          \* the requests

vars == <<now, issued, timestamp, expiresAt, redis, redisClient, req>>

NoKey == -1

Waiting == {"exists", "setex"}   \* suspended on an await of a Redis call
Refused == {"missing_headers", "expired", "replay", "invalid_hmac"}
Answered == Refused \cup {"accepted", "error"}

Idle == [state |-> "idle", challenge |-> NoChallenge, genuine |-> FALSE,
         presented |-> 0, sent |-> 0, marked |-> FALSE]

Init ==
    /\ now = 0
    /\ issued = {}
    /\ timestamp = [c \in Challenges |-> 0]
    /\ expiresAt = [c \in Challenges |-> 0]
    /\ redis = [c \in Challenges |-> NoKey]
    /\ redisClient \in StartupPing
    /\ req = [r \in Requests |-> Idle]

-----------------------------------------------------------------------------
(* The arithmetic of the handshake. *)

\* Mutated form: the timestamp truncated to a coarser unit than the second.
CoarseTimestamp == (now - (now % (2 * Second))) - UtcOffset

\* int(datetime.utcnow().timestamp()): utcnow() is naive, so timestamp() takes
\* it for local time and subtracts the offset of the host; int() drops the
\* fraction of the second.
IssueTimestamp == (now - (now % Second)) - UtcOffset

\* Mutated form: the age compared with the lifetime of the Redis key.
ExpiredLate(c) == now - timestamp[c] > Timeout + Buffer

\* is_challenge_expired, for a challenge with a well-formed timestamp.
Expired(c) == now - timestamp[c] > Timeout

\* Mutated form: a key that lives no longer than the challenge itself.
BareTtl == Timeout

\* The lifetime mark_challenge_used gives the key.
MarkTtl == Timeout + Buffer

\* EXISTS: Redis removes a key once the clock has passed its expiry.
KeyExists(c) == redis[c] # NoKey /\ now <= redis[c]

\* Mutated form: the HMAC compared only after the challenge has been marked.
HmacDeferred(r) == TRUE

\* validate_response: the X-Response header is the HMAC of the challenge.
HmacValid(r) == req[r].genuine

-----------------------------------------------------------------------------
(* GET /health/challenge *)

GenerateChallenge(c) ==
    /\ c \notin issued
    /\ issued' = issued \cup {c}
    /\ timestamp' = [timestamp EXCEPT ![c] = IssueTimestamp]
    /\ expiresAt' = [expiresAt EXCEPT ![c] = now + Timeout]
    /\ UNCHANGED <<now, redis, redisClient, req>>

-----------------------------------------------------------------------------
(* _validate_handshake up to its first await *)

Begin(r, c, genuine, state) ==
    /\ req[r].state = "idle"
    /\ req' = [req EXCEPT ![r] =
                 [state |-> state, challenge |-> c, genuine |-> genuine,
                  presented |-> now, sent |-> now, marked |-> FALSE]]
    /\ UNCHANGED <<now, issued, timestamp, expiresAt, redis, redisClient>>

\* Mutated form: the header that is not there taken for an empty string.
EmptyHeaders(r) == Begin(r, "", FALSE, "missing_headers")

\* X-Client-ID, X-Response or the challenge is not there.
MissingHeaders(r) == Begin(r, NoChallenge, FALSE, "missing_headers")

\* Mutated form: a timestamp that is no integer counts as fresh.
MalformedIsFresh(r) == Begin(r, NoChallenge, FALSE, "exists")

\* int() raises ValueError and is_challenge_expired answers True; or the number is no
\* date, and the OverflowError or OSError of utcfromtimestamp is not caught.
Malformed(r) ==
    \E state \in {"expired", "error"} : Begin(r, NoChallenge, FALSE, state)

PresentExpired(r, c, genuine) ==
    /\ c \in issued
    /\ Expired(c)
    /\ Begin(r, c, genuine, "expired")

\* The replay check awaits EXISTS.
PresentFresh(r, c, genuine) ==
    /\ c \in issued
    /\ ~Expired(c)
    /\ redisClient
    /\ Begin(r, c, genuine, "exists")

\* What a comparison that fails comes to: compare_digest raises TypeError, which
\* nobody catches, when X-Response is not ASCII.
Mismatch == {"invalid_hmac", "error"}

\* Without a client check_replay and mark_challenge_used return at once, so
\* only the HMAC decides and the handler never suspends.
PresentUnchecked(r, c, genuine) ==
    /\ c \in issued
    /\ ~Expired(c)
    /\ ~redisClient
    /\ \E state \in IF genuine THEN {"accepted"} ELSE Mismatch : Begin(r, c, genuine, state)

-----------------------------------------------------------------------------
(* The Redis calls.  EXISTS is evaluated by Redis and its answer, with the  *)
(* HMAC comparison that follows it, touches nothing but the request, so the *)
(* call and its continuation up to the next await are one action.           *)

Answer(r, state) == req' = [req EXCEPT ![r].state = state]

\* Mutated form: EXISTS is asked again for as long as the key exists.
AskAgain(r) ==
    /\ req[r].state = "exists"
    /\ KeyExists(req[r].challenge)
    /\ UNCHANGED vars

RefuseReplay(r) ==
    /\ req[r].state = "exists"
    /\ KeyExists(req[r].challenge)
    /\ Answer(r, "replay")
    /\ UNCHANGED <<now, issued, timestamp, expiresAt, redis, redisClient>>

RefuseHmac(r) ==
    /\ req[r].state = "exists"
    /\ ~KeyExists(req[r].challenge)
    /\ ~HmacValid(r)
    /\ \E state \in Mismatch : Answer(r, state)
    /\ UNCHANGED <<now, issued, timestamp, expiresAt, redis, redisClient>>

PassReplayCheck(r) ==
    /\ req[r].state = "exists"
    /\ ~KeyExists(req[r].challenge)
    /\ HmacValid(r)
    /\ req' = [req EXCEPT ![r].state = "setex", ![r].sent = now]
    /\ UNCHANGED <<now, issued, timestamp, expiresAt, redis, redisClient>>

\* SETEX takes effect.  The request is accepted when the reply arrives and
\* ends in an error when the reply is lost.
MarkChallengeUsed(r, verdict) ==
    /\ req[r].state = "setex"
    /\ redis' = [redis EXCEPT ![req[r].challenge] = now + MarkTtl]
    /\ req' = [req EXCEPT ![r].state = verdict, ![r].marked = TRUE]
    /\ UNCHANGED <<now, issued, timestamp, expiresAt, redisClient>>

\* A Redis call raises without having taken effect; nothing on the way up to
\* the server catches the exception.
RedisFails(r) ==
    /\ req[r].state \in Waiting
    /\ Answer(r, "error")
    /\ UNCHANGED <<now, issued, timestamp, expiresAt, redis, redisClient>>

-----------------------------------------------------------------------------
(* The environment *)

\* The proxy dies with its requests and lifespan runs again.
ProcessRestart ==
    /\ redisClient' \in StartupPing
    /\ req' = [r \in Requests |-> IF req[r].state \in Waiting
                                  THEN [req[r] EXCEPT !.state = "error"]
                                  ELSE req[r]]
    /\ UNCHANGED <<now, issued, timestamp, expiresAt, redis>>

\* Redis comes back without the keys it had not persisted.
RedisRestart(lost) ==
    /\ DataLoss
    /\ redis' = [c \in Challenges |-> IF c \in lost THEN NoKey ELSE redis[c]]
    /\ UNCHANGED <<now, issued, timestamp, expiresAt, redisClient, req>>

Tick ==
    /\ now < MaxTime
    /\ \A r \in Requests :
          req[r].state \in Waiting => now - req[r].sent < MaxLatency
    /\ now' = now + 1
    /\ UNCHANGED <<issued, timestamp, expiresAt, redis, redisClient, req>>

-----------------------------------------------------------------------------
Present(r) ==
    \/ MissingHeaders(r)
    \/ Malformed(r)
    \/ \E c \in Challenges, genuine \in BOOLEAN :
          \/ PresentExpired(r, c, genuine)
          \/ PresentFresh(r, c, genuine)
          \/ PresentUnchecked(r, c, genuine)

CheckReplay(r) == RefuseReplay(r) \/ RefuseHmac(r) \/ PassReplayCheck(r)

RedisAnswers(r) == CheckReplay(r) \/ MarkChallengeUsed(r, "accepted")

Next ==
    \/ \E c \in Challenges : GenerateChallenge(c)
    \/ \E r \in Requests :
          \/ Present(r)
          \/ RedisAnswers(r)
          \/ MarkChallengeUsed(r, "error")
          \/ RedisFails(r)
    \/ ProcessRestart
    \/ \E lost \in SUBSET Challenges : RedisRestart(lost)
    \/ Tick

Spec == Init /\ [][Next]_vars

\* Redis answers what it is asked and the event loop resumes the coroutine
\* that awaits the answer.
FairSpec == Spec /\ \A r \in Requests : WF_vars(RedisAnswers(r))

-----------------------------------------------------------------------------
(* Properties *)

RequestRecord ==
    [state : {"idle"} \cup Waiting \cup Answered,
     challenge : issued \cup {NoChallenge},
     genuine : BOOLEAN,
     presented : 0..MaxTime,
     sent : 0..MaxTime,
     marked : BOOLEAN]

TypeOK ==
    /\ now \in 0..MaxTime
    /\ issued \subseteq Challenges
    /\ timestamp \in [Challenges -> Int]
    /\ expiresAt \in [Challenges -> Int]
    /\ redis \in [Challenges -> Int]
    /\ redisClient \in BOOLEAN
    /\ req \in [Requests -> RequestRecord]

\* Once SETEX has marked a challenge, no later EXISTS lets it through, for as
\* long as requests carrying it can still reach the replay check: the key
\* outlives both the challenge and the slowest call (check_replay against
\* mark_challenge_used's "timeout + 60s buffer").
MarkedStaysRefused ==
    [][\A r \in Requests : PassReplayCheck(r) =>
          \A q \in Requests :
             req[q].challenge = req[r].challenge => ~req[q].marked]_vars

\* The expires_at a client is told, as the host of the proxy counts it: where local
\* time is behind UTC challenges outlive what was told by the difference, where it
\* is ahead they fall short of it.
Deadline(c) == expiresAt[c] - UtcOffset

\* The expiry is looked at once, before two awaits.  A request that is or is
\* about to be accepted was presented before the expiry its client was told, but
\* for the time zone, and the awaits take it at most two Redis round trips past it.
AcceptedNearExpiry ==
    \A r \in Requests :
       /\ req[r].state \in {"setex", "accepted"} =>
             req[r].presented <= Deadline(req[r].challenge)
       /\ req[r].state = "setex" => now <= Deadline(req[r].challenge) + 2 * MaxLatency

\* A client is told "Challenge expired" at most one second before the expiry it
\* was given, but for the time zone: the fraction int() drops from the timestamp.
RefusedNearExpiry ==
    \A r \in Requests :
       req[r].state = "expired" /\ req[r].challenge # NoChallenge =>
          req[r].presented > Deadline(req[r].challenge) - Second

\* A request marked this challenge, with the right response.
Used(c) == \E q \in Requests : req[q].challenge = c /\ req[q].genuine /\ req[q].marked

\* "Replay attack detected" is only said of a challenge whose right response
\* was presented before: a request with a wrong response consumes nothing.
ReplayMeansUsed ==
    \A r \in Requests : req[r].state = "replay" => Used(req[r].challenge)

\* Every request that waits for Redis is answered.
WaitingIsAnswered ==
    \A r \in Requests : req[r].state \in Waiting ~> req[r].state \in Answered

\* README.md:76, "Each challenge usable exactly once".
UsableOnce ==
    \A r, q \in Requests :
       /\ req[r].state = "accepted"
       /\ req[q].state = "accepted"
       /\ req[r].challenge = req[q].challenge
       => r = q

-----------------------------------------------------------------------------
(* The inductive invariants behind the safety properties: what a            *)
(* suspended request still knows about the challenge it checked before its  *)
(* first await.                                                             *)

IssueInv ==
    \A c \in issued : /\ UtcOffset >= 0 => timestamp[c] <= now
                      /\ timestamp[c] + Timeout <= Deadline(c)

CheckedInv ==
    \A r \in Requests :
       req[r].state \in Waiting \cup {"accepted"} =>
          /\ req[r].challenge \in issued
          /\ req[r].presented <= timestamp[req[r].challenge] + Timeout

LatencyInv ==
    \A r \in Requests :
       req[r].state \in Waiting =>
          /\ now <= req[r].sent + MaxLatency
          /\ req[r].state = "exists" => req[r].sent = req[r].presented
          /\ req[r].state = "setex" => /\ req[r].sent <= req[r].presented + MaxLatency
                                       /\ req[r].genuine

\* The key of a used challenge covers every request that may still ask for
\* it, unless Redis forgets it or timestamps lie in the future.
MarkInv ==
    \A r \in Requests :
       req[r].marked /\ ~DataLoss /\ UtcOffset >= 0 =>
          /\ req[r].challenge \in issued
          /\ redis[req[r].challenge] >= 0
          /\ redis[req[r].challenge] >= timestamp[req[r].challenge] + Timeout + Buffer

HandshakeInv == IssueInv /\ CheckedInv /\ LatencyInv /\ MarkInv

KeyInv == \A c \in Challenges : redis[c] # NoKey => Used(c)

\* A request marks its challenge last, and only with the right response.
MarksLast ==
    \A r \in Requests :
       /\ req[r].state \in {"idle"} \cup Waiting => ~req[r].marked
       /\ req[r].state \in Waiting => req[r].challenge \in issued
       /\ req[r].state = "setex" => req[r].genuine

UseInv == KeyInv /\ MarksLast /\ ReplayMeansUsed

\* A timestamp is at most a second behind the clock it was taken from.
IssuedRecently == \A c \in issued : timestamp[c] + Timeout > Deadline(c) - Second

RefuseInv == IssuedRecently /\ RefusedNearExpiry

=============================================================================
