---------------------------- MODULE GatewayProofs ----------------------------
(***************************************************************************)
(* Proofs about Gateway, for any number of requests, challenges and        *)
(* connections.  Gateway implements Handshake, so that what HandshakeProofs *)
(* shows of the handshake holds behind the whole way.                      *)
(***************************************************************************)
EXTENDS Gateway, HandshakeProofs, FiniteSetTheorems

USE DEF Waiting, Refused, Answered, RequestRecord, Mismatch

LEMMA StepOfHandshake == [GatewayNext]_<<vars, gatewayVars>> => [Next]_vars
  <1>1. ASSUME NEW r \in Requests, RequestStep(r) PROVE [Next]_vars
    <2>1. CASE ArriveHmac(r) \/ HandshakeStep(r) \/ HandshakeFails(r)
      BY <2>1 DEF ArriveHmac, HandshakeStep, HandshakeFails, Next
    <2>2. CASE ~(ArriveHmac(r) \/ HandshakeStep(r) \/ HandshakeFails(r))
      BY <1>1, <2>2
      DEF RequestStep, Progress, ArriveBearer, MasterKeyAccepted, MasterKeyRefused,
          RecordFailure, CountRequest, CountFails, TokenReady, TokenFails, BodyArrives,
          BuildFails, Connect, ResponseFails,
          PoolTimeout, UpstreamFails, UpstreamAnswers, StreamEnds, ClientLeaves
    <2> QED BY <2>1, <2>2
  <1>2. CASE RestartProxy
    BY <1>2 DEF RestartProxy, Next
  <1> QED
    BY <1>1, <1>2 DEF GatewayNext, Next

(* The handshake behind the gateway is the one of Handshake: the surroundings *)
(* of a request neither skip a check nor repeat one.                          *)
THEOREM GatewayImplementsHandshake == GatewaySpec => Spec
  BY StepOfHandshake, PTL DEF GatewaySpec, GatewayInit, Spec

-----------------------------------------------------------------------------
(* What a step does to a request *)

\* The forms of answer the proxy gives before the upstream is asked.
Early(r) == \E code \in {"refused", "500"} : Respond(r, code) /\ UNCHANGED upstream

LEMMA Followed ==
    ASSUME NEW r \in Requests, Follow(r), req'[r].state \in Waiting \cup Answered
    PROVE  \/ req'[r].state \in Waiting /\ GoTo(r, "handshake")
           \/ req'[r].state = "accepted" /\ Admit(r)
           \/ req'[r].state \in Refused \cup {"error"} /\ (GoTo(r, "recording") \/ Early(r))
  <1>1. CASE req'[r].state \in Waiting
    BY <1>1 DEF Follow
  <1>2. CASE req'[r].state = "accepted"
    BY <1>2 DEF Follow
  <1>3. CASE req'[r].state = "error"
    BY <1>3 DEF Follow, Early
  <1>4. CASE req'[r].state \in Refused
    <2>1. Refuse(r)
      BY <1>4 DEF Follow
    <2> QED BY <1>4, <2>1 DEF Refuse, Early
  <1> QED BY <1>1, <1>2, <1>3, <1>4

\* The handlers that run while the handshake is left alone.
PlainStep(r) ==
    \/ ArriveBearer(r) \/ MasterKeyAccepted(r) \/ MasterKeyRefused(r)
    \/ RecordFailure(r) \/ CountRequest(r) \/ CountFails(r)
    \/ TokenReady(r) \/ TokenFails(r)
    \/ \E streaming \in BOOLEAN : BodyArrives(r, streaming) \/ BuildFails(r, streaming)
    \/ Connect(r) \/ PoolTimeout(r)
    \/ ~stream[r] /\ \E code \in {"502", "504"} : UpstreamFails(r, code)
    \/ stream[r] /\ UpstreamFails(r, "broken")
    \/ \E compressed \in BOOLEAN : UpstreamAnswers(r, compressed)
    \/ ResponseFails(r)
    \/ StreamEnds(r)
    \/ ClientLeaves(r)

LEMMA StepSorts ==
    ASSUME NEW r \in Requests, RequestStep(r)
    PROVE  ArriveHmac(r) \/ HandshakeStep(r) \/ HandshakeFails(r) \/ PlainStep(r)
  BY DEF RequestStep, Progress, PlainStep

LEMMA PlainKeeps ==
    ASSUME NEW r \in Requests, PlainStep(r)
    PROVE  UNCHANGED <<vars, earlier>>
  BY DEF PlainStep, ArriveBearer, MasterKeyAccepted, MasterKeyRefused,
         RecordFailure, CountRequest, CountFails, TokenReady, TokenFails, BodyArrives,
         BuildFails, Connect, ResponseFails,
         PoolTimeout, UpstreamFails, UpstreamAnswers, StreamEnds, ClientLeaves

-----------------------------------------------------------------------------
(* The handshake of a request and the stage it is at *)

LEMMA BeginsAnswered ==
    ASSUME NEW r \in Requests, Present(r)
    PROVE  \E c, genuine : \E state \in Waiting \cup Answered : Begin(r, c, genuine, state)
  <1>1. CASE MissingHeaders(r) \/ Malformed(r)
    BY <1>1 DEF MissingHeaders, Malformed
  <1>2. ASSUME NEW c \in Challenges, NEW genuine \in BOOLEAN,
               \/ PresentExpired(r, c, genuine)
               \/ PresentFresh(r, c, genuine)
               \/ PresentUnchecked(r, c, genuine)
        PROVE  \E state \in Waiting \cup Answered : Begin(r, c, genuine, state)
    BY <1>2 DEF PresentExpired, PresentFresh, PresentUnchecked
  <1> QED BY <1>1, <1>2 DEF Present

LEMMA HandshakeOutcome ==
    ASSUME TypeOK, NEW r \in Requests,
           ArriveHmac(r) \/ HandshakeStep(r) \/ HandshakeFails(r)
    PROVE  /\ Follow(r)
           /\ req'[r].state \in Waiting \cup Answered
           /\ req[r].state \in {"idle"} \cup Waiting
           /\ stage[r] \in {"new", "handshake"}
           /\ \A q \in Requests \ {r} : req'[q] = req[q]
           /\ UNCHANGED <<count, redisClient>>
  <1> USE DEF TypeOK
  <1>1. CASE ArriveHmac(r)
    <2>1. PICK c, genuine : \E state \in Waiting \cup Answered : Begin(r, c, genuine, state)
      BY <1>1, BeginsAnswered DEF ArriveHmac
    <2> QED BY <1>1, <2>1 DEF ArriveHmac, Begin
  <1>2. CASE HandshakeStep(r)
    BY <1>2
    DEF HandshakeStep, RedisAnswers, CheckReplay, RefuseReplay, RefuseHmac,
        PassReplayCheck, MarkChallengeUsed, Answer
  <1>3. CASE HandshakeFails(r)
    BY <1>3 DEF HandshakeFails, RedisFails, MarkChallengeUsed, Answer
  <1> QED BY <1>1, <1>2, <1>3

\* A request waits for Redis, or has marked its challenge, because there is Redis.
LEMMA HandshakeRedis ==
    ASSUME TypeOK, StageInv, UseInv, RedisInv, NEW r \in Requests,
           ArriveHmac(r) \/ HandshakeStep(r) \/ HandshakeFails(r)
    PROVE  req'[r].state \in Waiting \/ req'[r].marked => redisClient
  <1>1. CASE ArriveHmac(r)
    <2>1. Present(r)
      BY <1>1 DEF ArriveHmac
    <2>2. CASE MissingHeaders(r) \/ Malformed(r)
      BY <2>2 DEF MissingHeaders, Malformed, Begin, TypeOK
    <2>3. ASSUME NEW c \in Challenges, NEW genuine \in BOOLEAN,
                 \/ PresentExpired(r, c, genuine)
                 \/ PresentFresh(r, c, genuine)
                 \/ PresentUnchecked(r, c, genuine)
          PROVE  req'[r].state \in Waiting \/ req'[r].marked => redisClient
      BY <2>3 DEF PresentExpired, PresentFresh, PresentUnchecked, Begin, TypeOK
    <2> QED BY <2>1, <2>2, <2>3 DEF Present
  <1>2. CASE HandshakeStep(r) \/ HandshakeFails(r)
    BY <1>2 DEF HandshakeStep, HandshakeFails, RedisInv
  <1> QED BY <1>1, <1>2

LEMMA WayStep ==
    ASSUME TypeOK, WayTypes, WayInv, NEW r \in Requests, RequestStep(r)
    PROVE  WayTypes' /\ WayInv'
  <1> USE DEF WayTypes, WayInv, StageInv, ResponseTells, Suspended
  <1>1. CASE ArriveHmac(r) \/ HandshakeStep(r) \/ HandshakeFails(r)
    <2>1. /\ Follow(r)
          /\ req'[r].state \in Waiting \cup Answered
          /\ stage[r] \in {"new", "handshake"}
          /\ \A q \in Requests \ {r} : req'[q] = req[q]
      BY <1>1, HandshakeOutcome
    <2>2. earlier' \in [Requests -> SUBSET Requests]
      BY <1>1 DEF ArriveHmac, HandshakeStep, HandshakeFails
    <2>3. CASE req'[r].state \in Waiting /\ GoTo(r, "handshake")
      BY <2>1, <2>2, <2>3 DEF GoTo
    <2>4. CASE req'[r].state = "accepted" /\ Admit(r)
      BY <2>1, <2>2, <2>4 DEF Admit, GoTo
    <2>5. CASE req'[r].state \in Refused \cup {"error"} /\ (GoTo(r, "recording") \/ Early(r))
      BY <2>1, <2>2, <2>5 DEF GoTo, Early, Respond
    <2> QED BY <2>1, <2>3, <2>4, <2>5, Followed
  <1>2. CASE PlainStep(r)
    <2>1. UNCHANGED <<req, earlier>>
      BY <1>2, PlainKeeps DEF vars
    <2>2. CASE ArriveBearer(r) \/ MasterKeyAccepted(r) \/ MasterKeyRefused(r)
      BY <2>1, <2>2
      DEF ArriveBearer, MasterKeyAccepted, MasterKeyRefused, Admit, Refuse, GoTo, Respond
    <2>3. CASE RecordFailure(r) \/ CountRequest(r) \/ CountFails(r) \/ TokenFails(r)
      BY <2>1, <2>3 DEF RecordFailure, CountRequest, CountFails, TokenFails, GoTo, Respond
    <2>4. CASE \/ TokenReady(r) \/ Connect(r)
               \/ \E streaming \in BOOLEAN : BodyArrives(r, streaming) \/ BuildFails(r, streaming)
      BY <2>1, <2>4 DEF TokenReady, BodyArrives, BuildFails, Connect, GoTo
    <2>5. CASE PoolTimeout(r) \/ ClientLeaves(r)
      BY <2>1, <2>5 DEF PoolTimeout, ClientLeaves, GiveUp, GoTo, Respond
    <2>6. CASE \/ ~stream[r] /\ \E code \in {"502", "504"} : UpstreamFails(r, code)
               \/ stream[r] /\ UpstreamFails(r, "broken")
      BY <2>1, <2>6 DEF UpstreamFails, GiveUp, GoTo, Respond
    <2>7. CASE \/ \E compressed \in BOOLEAN : UpstreamAnswers(r, compressed)
               \/ ResponseFails(r) \/ StreamEnds(r)
      BY <2>1, <2>7 DEF UpstreamAnswers, ResponseFails, StreamEnds, Respond
    <2> QED BY <1>2, <2>2, <2>3, <2>4, <2>5, <2>6, <2>7 DEF PlainStep
  <1> QED BY <1>1, <1>2, StepSorts

LEMMA WayRestart ==
    ASSUME TypeOK, WayTypes, WayInv, RestartProxy
    PROVE  WayTypes' /\ WayInv'
  BY DEF WayTypes, WayInv, StageInv, ResponseTells, Suspended, TypeOK,
         RestartProxy, ProcessRestart

LEMMA WayInvariance == GatewaySpec => [](TypeOK /\ WayTypes /\ WayInv)
  <1>1. GatewayInit => TypeOK /\ WayTypes /\ WayInv
    BY TypeInit
    DEF GatewayInit, WayTypes, WayInv, StageInv, ResponseTells, Suspended, Init, Idle
  <1>2. ASSUME TypeOK, WayTypes, WayInv, [GatewayNext]_<<vars, gatewayVars>>
        PROVE  TypeOK' /\ WayTypes' /\ WayInv'
    <2>1. TypeOK'
      BY <1>2, StepOfHandshake, TypeStep
    <2>2. ASSUME UNCHANGED <<req, gatewayVars>> PROVE WayTypes' /\ WayInv'
      BY <1>2, <2>2 DEF gatewayVars, wayVars, WayTypes, WayInv, StageInv, ResponseTells
    <2> QED
      BY <1>2, <2>1, <2>2, WayStep, WayRestart DEF GatewayNext, GenerateChallenge, Tick, vars
  <1> QED BY <1>1, <1>2, PTL DEF GatewaySpec

(* A complete answer never rules out what happened: a refused request was    *)
(* not forwarded, a request that may have been is told so by a 502 or a 504, *)
(* and a complete answer of the upstream's, or a complete stream, is one it  *)
(* gave in full.                                                             *)
THEOREM AnswersTell == GatewaySpec => []ResponseTells
  BY WayInvariance, PTL DEF WayInv

-----------------------------------------------------------------------------
(* No replay reaches the upstream *)

LEMMA EarlierStep ==
    ASSUME UtcOffset >= 0, DataLoss = FALSE, MaxLatency <= Buffer,
           TypeOK, WayTypes, WayInv, HandshakeInv, UseInv, EarlierInv,
           NEW r \in Requests, RequestStep(r)
    PROVE  EarlierInv'
  <1> USE DEF EarlierInv, WayTypes
  <1>1. CASE PlainStep(r)
    BY <1>1, PlainKeeps DEF vars
  <1>2. CASE ArriveHmac(r)
    <2>1. /\ req[r].state = "idle" /\ ~req[r].marked
          /\ \A q \in Requests \ {r} : req'[q] = req[q] /\ earlier'[q] = earlier[q]
          /\ earlier'[r] = {q \in Requests : req[q].marked /\ redisClient}
      BY <1>2, HandshakeOutcome, BeginsAnswered DEF ArriveHmac, Begin, UseInv, MarksLast, TypeOK
    <2>2. req'[r].state # "idle" /\ (redisClient => req'[r].state \notin {"setex", "accepted"})
      <3>1. Present(r)
        BY <1>2 DEF ArriveHmac
      <3>2. CASE MissingHeaders(r) \/ Malformed(r)
        BY <3>2 DEF MissingHeaders, Malformed, Begin, TypeOK
      <3>3. ASSUME NEW c \in Challenges, NEW genuine \in BOOLEAN,
                   \/ PresentExpired(r, c, genuine)
                   \/ PresentFresh(r, c, genuine)
                   \/ PresentUnchecked(r, c, genuine)
            PROVE  req'[r].state # "idle" /\ (redisClient => req'[r].state \notin {"setex", "accepted"})
        BY <3>3 DEF PresentExpired, PresentFresh, PresentUnchecked, Begin, TypeOK
      <3> QED BY <3>1, <3>2, <3>3 DEF Present
    <2> QED BY <2>1, <2>2
  <1>3. CASE HandshakeStep(r) \/ HandshakeFails(r)
    <2>1. /\ req[r].state \in Waiting /\ ~req[r].marked
          /\ req'[r].challenge = req[r].challenge /\ req'[r].state # "idle"
          /\ \A q \in Requests \ {r} : req'[q] = req[q]
          /\ UNCHANGED earlier
      BY <1>3 DEF HandshakeStep, HandshakeFails, RedisAnswers, CheckReplay, RefuseReplay,
                  RefuseHmac, PassReplayCheck, MarkChallengeUsed, RedisFails, Answer,
                  UseInv, MarksLast, TypeOK
    <2>2. \A q \in Requests : req[q].marked => q # r /\ req'[q] = req[q]
      BY <2>1
    <2>3. req'[r].state \in {"setex", "accepted"} => PassReplayCheck(r) \/ req[r].state = "setex"
      BY <1>3 DEF HandshakeStep, HandshakeFails, RedisAnswers, CheckReplay, RefuseReplay,
                  RefuseHmac, MarkChallengeUsed, RedisFails, Answer, TypeOK
    <2>4. ASSUME NEW q \in earlier[r], req[q].challenge = req[r].challenge
          PROVE  req'[r].state \notin {"setex", "accepted"}
      <3>1. q \in Requests /\ req[q].marked /\ req[r].state # "setex"
        BY <2>4
      <3>2. ~PassReplayCheck(r)
        BY <2>4, <3>1, PassesUnmarked
      <3> QED BY <2>3, <3>1, <3>2
    <2> QED BY <2>1, <2>2, <2>4
  <1> QED BY <1>1, <1>2, <1>3, StepSorts

LEMMA EarlierInvariance ==
    ASSUME UtcOffset >= 0, DataLoss = FALSE, MaxLatency <= Buffer
    PROVE  GatewaySpec => []EarlierInv
  <1>1. GatewayInit => EarlierInv /\ UseInv
    BY UseInit DEF GatewayInit, EarlierInv
  <1>2. ASSUME TypeOK, WayTypes, WayInv, HandshakeInv, UseInv, EarlierInv,
               [GatewayNext]_<<vars, gatewayVars>>
        PROVE  EarlierInv' /\ UseInv'
    <2>1. UseInv'
      BY <1>2, StepOfHandshake, UseStep
    <2>2. CASE RestartProxy
      BY <1>2, <2>1, <2>2 DEF RestartProxy, ProcessRestart, EarlierInv, WayTypes, TypeOK
    <2>3. CASE UNCHANGED <<req, earlier>>
      BY <1>2, <2>1, <2>3 DEF EarlierInv
    <2> QED
      BY <1>2, <2>1, <2>2, <2>3, EarlierStep
      DEF GatewayNext, GenerateChallenge, Tick, vars, gatewayVars
  <1>3. GatewaySpec => [](TypeOK /\ HandshakeInv)
    BY GatewayImplementsHandshake, Invariance, PTL
  <1> QED BY <1>1, <1>2, <1>3, WayInvariance, PTL DEF GatewaySpec

(* Where local time is not behind UTC, Redis keeps its keys and a Redis call *)
(* is answered within the buffer: a request whose challenge had been marked  *)
(* when it came in is not forwarded, whatever fails between the two.         *)
THEOREM ReplaysStay ==
    ASSUME UtcOffset >= 0, DataLoss = FALSE, MaxLatency <= Buffer
    PROVE  GatewaySpec => []ReplayNotForwarded
  <1>1. WayTypes /\ WayInv /\ EarlierInv => ReplayNotForwarded
    BY DEF WayTypes, WayInv, StageInv, EarlierInv, ReplayNotForwarded
  <1> QED BY <1>1, WayInvariance, EarlierInvariance, PTL

-----------------------------------------------------------------------------
(* What is counted *)

\* What a step does to the two sets around the counter, and to the counter.
Uncounted == Through' \subseteq Through /\ Past \subseteq Past' /\ count' = count
Counted(r) == /\ r \in Requests \ Past
              /\ Past \cup {r} \subseteq Past'
              /\ \/ count' = count + 1 /\ Through' \subseteq Through \cup {r}
                 \/ count' = count /\ Through' \subseteq Through

LEMMA CountStep ==
    ASSUME TypeOK, WayTypes, WayInv, UseInv, RedisInv, NEW r \in Requests, RequestStep(r)
    PROVE  RedisInv' /\ (Uncounted \/ Counted(r))
  <1> USE DEF WayTypes, WayInv, StageInv, RedisInv, Suspended, Uncounted, Through, Past
  <1>1. CASE ArriveHmac(r) \/ HandshakeStep(r) \/ HandshakeFails(r)
    <2>1. /\ Follow(r)
          /\ req'[r].state \in Waiting \cup Answered
          /\ stage[r] \in {"new", "handshake"}
          /\ \A q \in Requests \ {r} : req'[q] = req[q]
          /\ UNCHANGED <<count, redisClient>>
      BY <1>1, HandshakeOutcome
    <2>2. req'[r].state \in Waiting \/ req'[r].marked => redisClient
      BY <1>1, HandshakeRedis
    <2>3. CASE req'[r].state \in Waiting /\ GoTo(r, "handshake")
      BY <2>1, <2>2, <2>3 DEF GoTo
    <2>4. CASE req'[r].state = "accepted" /\ Admit(r)
      BY <2>1, <2>2, <2>4 DEF Admit, GoTo
    <2>5. CASE req'[r].state \in Refused \cup {"error"} /\ (GoTo(r, "recording") \/ Early(r))
      BY <2>1, <2>2, <2>5 DEF GoTo, Early, Respond
    <2> QED BY <2>1, <2>3, <2>4, <2>5, Followed
  <1>2. CASE PlainStep(r)
    <2>1. UNCHANGED <<req, redisClient>>
      BY <1>2, PlainKeeps DEF vars
    <2>2. CASE ArriveBearer(r) \/ MasterKeyAccepted(r) \/ MasterKeyRefused(r)
      <3>1. ~req[r].marked
        BY <2>2 DEF ArriveBearer, MasterKeyAccepted, MasterKeyRefused, UseInv, MarksLast
      <3> QED
        BY <2>1, <2>2, <3>1
        DEF ArriveBearer, MasterKeyAccepted, MasterKeyRefused, Admit, Refuse, GoTo, Respond
    <2>3. CASE RecordFailure(r) \/ TokenFails(r)
      BY <2>1, <2>3 DEF RecordFailure, TokenFails, Respond
    <2>4. CASE CountRequest(r) \/ CountFails(r)
      BY <2>1, <2>4 DEF CountRequest, CountFails, GoTo, Respond, Counted
    <2>5. CASE \/ TokenReady(r) \/ Connect(r)
               \/ \E streaming \in BOOLEAN : BodyArrives(r, streaming) \/ BuildFails(r, streaming)
      BY <2>1, <2>5 DEF TokenReady, BodyArrives, BuildFails, Connect, GoTo
    <2>6. CASE PoolTimeout(r) \/ ClientLeaves(r)
      BY <2>1, <2>6 DEF PoolTimeout, ClientLeaves, GiveUp, GoTo, Respond
    <2>7. CASE \/ ~stream[r] /\ \E code \in {"502", "504"} : UpstreamFails(r, code)
               \/ stream[r] /\ UpstreamFails(r, "broken")
      BY <2>1, <2>7 DEF UpstreamFails, GiveUp, GoTo, Respond
    <2>8. CASE \/ \E compressed \in BOOLEAN : UpstreamAnswers(r, compressed)
               \/ ResponseFails(r) \/ StreamEnds(r)
      BY <2>1, <2>8 DEF UpstreamAnswers, ResponseFails, StreamEnds, Respond
    <2> QED BY <1>2, <2>2, <2>3, <2>4, <2>5, <2>6, <2>7, <2>8 DEF PlainStep
  <1> QED BY <1>1, <1>2, StepSorts

LEMMA CountRestart ==
    ASSUME TypeOK, WayTypes, RestartProxy
    PROVE  RedisInv' /\ Uncounted
  BY DEF WayTypes, Suspended, Uncounted, Through, Past, RedisInv, TypeOK, RestartProxy,
         ProcessRestart

\* The same in numbers.
CountInv == count \in Nat /\ CountFollows

LEMMA Numbers ==
    ASSUME IsFiniteSet(Requests), CountInv,
           Uncounted \/ \E r \in Requests : Counted(r)
    PROVE  CountInv'
  <1>1. /\ IsFiniteSet(Through) /\ IsFiniteSet(Past) /\ IsFiniteSet(Through') /\ IsFiniteSet(Past')
        /\ Cardinality(Through) \in Nat /\ Cardinality(Past) \in Nat
        /\ Cardinality(Through') \in Nat /\ Cardinality(Past') \in Nat
    <2>1. /\ Through \subseteq Requests /\ Past \subseteq Requests
          /\ Through' \subseteq Requests /\ Past' \subseteq Requests
      BY DEF Through, Past
    <2> HIDE DEF Through, Past
    <2>2. IsFiniteSet(Through) /\ IsFiniteSet(Past) /\ IsFiniteSet(Through') /\ IsFiniteSet(Past')
      BY <2>1, FS_Subset
    <2> QED BY <2>2, FS_CardinalityType
  <1>2. CASE Uncounted
    <2>1. Cardinality(Through') <= Cardinality(Through) /\ Cardinality(Past) <= Cardinality(Past')
      BY <1>1, <1>2, FS_Subset DEF Uncounted
    <2> QED BY <1>1, <1>2, <2>1 DEF Uncounted, CountInv, CountFollows
  <1>3. ASSUME NEW r \in Requests, Counted(r) PROVE CountInv'
    <2>1. Cardinality(Past) + 1 <= Cardinality(Past')
      <3>1. Cardinality(Past \cup {r}) = Cardinality(Past) + 1
        BY <1>1, <1>3, FS_AddElement DEF Counted
      <3> QED BY <1>1, <1>3, <3>1, FS_Subset DEF Counted
    <2>2. CASE count' = count + 1 /\ Through' \subseteq Through \cup {r}
      <3>1. /\ IsFiniteSet(Through \cup {r})
            /\ Cardinality(Through \cup {r}) \in {Cardinality(Through), Cardinality(Through) + 1}
        BY <1>1, FS_AddElement
      <3>2. Cardinality(Through') <= Cardinality(Through \cup {r})
        BY <2>2, <3>1, FS_Subset
      <3> QED BY <1>1, <2>1, <2>2, <3>1, <3>2 DEF CountInv, CountFollows
    <2>3. CASE count' = count /\ Through' \subseteq Through
      <3>1. Cardinality(Through') <= Cardinality(Through)
        BY <1>1, <2>3, FS_Subset
      <3> QED BY <1>1, <2>1, <2>3, <3>1 DEF CountInv, CountFollows
    <2> QED BY <1>3, <2>2, <2>3 DEF Counted
  <1> QED BY <1>2, <1>3

LEMMA CountInvariance ==
    ASSUME IsFiniteSet(Requests)
    PROVE  GatewaySpec => [](TypeOK /\ WayTypes /\ CountInv)
  <1>1. GatewayInit => UseInv /\ RedisInv /\ CountInv
    <2> SUFFICES ASSUME GatewayInit PROVE RedisInv /\ CountInv
      BY UseInit DEF GatewayInit
    <2>1. RedisInv
      BY DEF GatewayInit, RedisInv, Suspended
    <2>2. Through = {} /\ Past = {} /\ count = 0
      BY DEF GatewayInit, Through, Past, Init, Idle
    <2> QED BY <2>1, <2>2, FS_EmptySet DEF CountInv, CountFollows
  <1>2. ASSUME TypeOK, WayTypes, WayInv, UseInv, RedisInv, CountInv,
               [GatewayNext]_<<vars, gatewayVars>>
        PROVE  UseInv' /\ RedisInv' /\ CountInv'
    <2>1. UseInv'
      BY <1>2, StepOfHandshake, UseStep
    <2>2. CASE UNCHANGED <<req, redisClient, gatewayVars>>
      <3>1. RedisInv' /\ Uncounted
        BY <1>2, <2>2 DEF RedisInv, Uncounted, Through, Past, gatewayVars, wayVars
      <3> QED BY <1>2, <2>1, <3>1, Numbers
    <2>3. CASE RestartProxy
      BY <1>2, <2>1, <2>3, CountRestart, Numbers
    <2>4. ASSUME NEW r \in Requests, RequestStep(r) PROVE UseInv' /\ RedisInv' /\ CountInv'
      BY <1>2, <2>1, <2>4, CountStep, Numbers
    <2> QED
      BY <1>2, <2>2, <2>3, <2>4 DEF GatewayNext, GenerateChallenge, Tick, vars
  <1> QED BY <1>1, <1>2, WayInvariance, PTL DEF GatewaySpec

(* request_count covers, while there is Redis, every request on its way to   *)
(* the upstream, and counts none that was refused.                           *)
THEOREM Counting ==
    ASSUME IsFiniteSet(Requests)
    PROVE  GatewaySpec => []CountFollows
  BY CountInvariance, PTL DEF CountInv

(* The gateway keeps its types, and the counter never runs ahead of the      *)
(* requests.                                                                 *)
THEOREM GatewayTypeCorrect ==
    ASSUME IsFiniteSet(Requests)
    PROVE  GatewaySpec => []GatewayTypeOK
  <1>1. ASSUME TypeOK, WayTypes, CountInv PROVE GatewayTypeOK
    <2>1. Past \subseteq Requests
      BY DEF Past
    <2>2. Cardinality(Past) <= Cardinality(Requests)
      BY <2>1, FS_Subset
    <2>3. Cardinality(Past) \in Nat /\ Cardinality(Requests) \in Nat
      BY <2>1, FS_Subset, FS_CardinalityType
    <2> QED BY <1>1, <2>2, <2>3 DEF CountInv, CountFollows, GatewayTypeOK
  <1> QED BY <1>1, CountInvariance, PTL

=============================================================================
