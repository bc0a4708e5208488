--------------------------- MODULE HandshakeProofs ---------------------------
(***************************************************************************)
(* Proofs about Handshake, for any number of requests and challenges and   *)
(* any value of the timing constants.                                      *)
(***************************************************************************)
EXTENDS Handshake, TLAPS

USE DEF Waiting, Refused, Answered, NoKey, RequestRecord, Mismatch

(* The remainder int() drops is not negative. *)
LEMMA Truncation ==
    ASSUME NEW n \in Nat
    PROVE  n % Second \in Nat
  BY ClockAssumption

(* A challenge carries an integer timestamp. *)
LEMMA TimestampType == ASSUME now \in 0..MaxTime PROVE IssueTimestamp \in Int
  <1>1. now \in Nat BY ClockAssumption
  <1>2. now % Second \in Nat BY <1>1, Truncation
  <1> QED BY <1>1, <1>2, ClockAssumption DEF IssueTimestamp

-----------------------------------------------------------------------------
(* Type correctness *)

LEMMA TypeInit == Init => TypeOK
  BY ClockAssumption, DeploymentAssumption DEF Init, Idle, TypeOK

LEMMA TypeStep == TypeOK /\ [Next]_vars => TypeOK'
  <1> SUFFICES ASSUME TypeOK, [Next]_vars PROVE TypeOK'
    OBVIOUS
  <1> USE ClockAssumption, RequestAssumption DEF TypeOK
  <1>1. ASSUME NEW c \in Challenges, GenerateChallenge(c) PROVE TypeOK'
    BY <1>1, TimestampType DEF GenerateChallenge
  <1>2. ASSUME NEW r \in Requests, Present(r) PROVE TypeOK'
    <2>1. ASSUME NEW c \in issued \cup {NoChallenge}, NEW genuine \in BOOLEAN,
                 NEW state \in Waiting \cup Answered, Begin(r, c, genuine, state)
          PROVE  TypeOK'
      BY <2>1 DEF Begin
    <2>2. CASE MissingHeaders(r) \/ Malformed(r)
      BY <2>1, <2>2 DEF MissingHeaders, Malformed, Answered, Refused
    <2>3. ASSUME NEW c \in Challenges, NEW genuine \in BOOLEAN,
                 \/ PresentExpired(r, c, genuine)
                 \/ PresentFresh(r, c, genuine)
                 \/ PresentUnchecked(r, c, genuine)
          PROVE  TypeOK'
      <3>1. c \in issued \cup {NoChallenge}
        BY <2>3 DEF PresentExpired, PresentFresh, PresentUnchecked
      <3>2. \E state \in Waiting \cup Answered : Begin(r, c, genuine, state)
        BY <2>3 DEF PresentExpired, PresentFresh, PresentUnchecked,
                    Waiting, Answered, Refused
      <3> QED BY <2>1, <3>1, <3>2
    <2> QED BY <1>2, <2>2, <2>3 DEF Present
  <1>3. ASSUME NEW r \in Requests, CheckReplay(r) PROVE TypeOK'
    BY <1>3 DEF CheckReplay, RefuseReplay, RefuseHmac, PassReplayCheck, Answer
  <1>4. ASSUME NEW r \in Requests, NEW verdict \in {"accepted", "error"},
               MarkChallengeUsed(r, verdict)
        PROVE  TypeOK'
    <2>1. now + MarkTtl \in Int
      BY DEF MarkTtl
    <2>2. redis' = [redis EXCEPT ![req[r].challenge] = now + MarkTtl]
      BY <1>4 DEF MarkChallengeUsed
    <2>3. redis' \in [Challenges -> Int]
      BY <2>1, <2>2, Zenon
    <2>4. req' = [req EXCEPT ![r].state = verdict, ![r].marked = TRUE]
      BY <1>4 DEF MarkChallengeUsed
    <2>5. UNCHANGED <<now, issued, timestamp, expiresAt, redisClient>>
      BY <1>4 DEF MarkChallengeUsed
    <2>6. req' \in [Requests -> RequestRecord']
      <3>1. [req[r] EXCEPT !.state = verdict, !.marked = TRUE] \in RequestRecord
        BY Zenon
      <3> QED
        BY <2>4, <2>5, <3>1
    <2> QED
      BY <2>3, <2>5, <2>6
  <1>5. ASSUME NEW r \in Requests, RedisFails(r) PROVE TypeOK'
    BY <1>5 DEF RedisFails, Answer
  <1>6. CASE ProcessRestart
    BY <1>6, DeploymentAssumption DEF ProcessRestart
  <1>7. ASSUME NEW lost \in SUBSET Challenges, RedisRestart(lost) PROVE TypeOK'
    BY <1>7 DEF RedisRestart
  <1>8. CASE Tick
    BY <1>8 DEF Tick
  <1>9. CASE UNCHANGED vars
    BY <1>9 DEF vars
  <1> QED
    BY <1>1, <1>2, <1>3, <1>4, <1>5, <1>6, <1>7, <1>8, <1>9
    DEF Next, RedisAnswers

(* Every state the proxy and Redis reach is well typed; in particular a     *)
(* request that carries a challenge carries one that was issued.            *)
THEOREM TypeCorrect == Spec => []TypeOK
  BY TypeInit, TypeStep, PTL DEF Spec

-----------------------------------------------------------------------------
(* The inductive invariant *)

(* The timestamp of a fresh challenge is not ahead of the clock, but for the *)
(* time zone.                                                                *)
LEMMA TimestampPast ==
    ASSUME now \in 0..MaxTime
    PROVE  IssueTimestamp <= now - UtcOffset
  <1>1. now \in Nat BY ClockAssumption
  <1>2. now % Second \in Nat BY <1>1, Truncation
  <1> QED BY <1>1, <1>2, ClockAssumption DEF IssueTimestamp

LEMMA InvInit == Init => HandshakeInv
  BY ClockAssumption
  DEF Init, Idle, HandshakeInv, IssueInv, CheckedInv, LatencyInv, MarkInv

LEMMA InvStep ==
    ASSUME TypeOK, HandshakeInv, [Next]_vars
    PROVE  HandshakeInv'
  <1> USE ClockAssumption, RequestAssumption DEF TypeOK, HandshakeInv, Deadline
  <1>1. ASSUME NEW c \in Challenges, GenerateChallenge(c) PROVE HandshakeInv'
    <2>1. /\ \A d \in issued : timestamp'[d] = timestamp[d] /\ expiresAt'[d] = expiresAt[d]
          /\ timestamp'[c] = IssueTimestamp
          /\ expiresAt'[c] = now + Timeout
      BY <1>1 DEF GenerateChallenge
    <2>2. IssueInv'
      BY <1>1, <2>1, TimestampType, TimestampPast DEF GenerateChallenge, IssueInv
    <2>3. CheckedInv'
      BY <1>1, <2>1 DEF GenerateChallenge, CheckedInv
    <2>4. LatencyInv'
      BY <1>1 DEF GenerateChallenge, LatencyInv
    <2>5. MarkInv'
      BY <1>1, <2>1 DEF GenerateChallenge, MarkInv
    <2> QED BY <2>2, <2>3, <2>4, <2>5
  <1>2. ASSUME NEW r \in Requests, Present(r) PROVE HandshakeInv'
    <2>1. ASSUME NEW c, NEW genuine \in BOOLEAN, NEW state, Begin(r, c, genuine, state),
                 state \in Waiting \cup {"accepted"} =>
                    c \in issued /\ ~Expired(c) /\ state # "setex"
          PROVE  HandshakeInv'
      <3>1. /\ req'[r] = [state |-> state, challenge |-> c, genuine |-> genuine,
                          presented |-> now, sent |-> now, marked |-> FALSE]
            /\ \A q \in Requests \ {r} : req'[q] = req[q]
        BY <2>1 DEF Begin
      <3>2. UNCHANGED <<now, issued, timestamp, expiresAt, redis>>
        BY <2>1 DEF Begin
      <3>3. IssueInv'
        BY <3>2 DEF IssueInv
      <3>4. CheckedInv'
        BY <2>1, <3>1, <3>2 DEF CheckedInv, Expired
      <3>5. LatencyInv'
        BY <2>1, <3>1, <3>2 DEF LatencyInv
      <3>6. MarkInv'
        BY <3>1, <3>2 DEF MarkInv
      <3> QED BY <3>3, <3>4, <3>5, <3>6
    <2>2. CASE MissingHeaders(r) \/ Malformed(r)
      BY <2>1, <2>2 DEF MissingHeaders, Malformed, Waiting
    <2>3. ASSUME NEW c \in Challenges, NEW genuine \in BOOLEAN,
                 PresentExpired(r, c, genuine)
          PROVE  HandshakeInv'
      BY <2>1, <2>3 DEF PresentExpired, Waiting
    <2>4. ASSUME NEW c \in Challenges, NEW genuine \in BOOLEAN,
                 PresentFresh(r, c, genuine)
          PROVE  HandshakeInv'
      BY <2>1, <2>4 DEF PresentFresh
    <2>5. ASSUME NEW c \in Challenges, NEW genuine \in BOOLEAN,
                 PresentUnchecked(r, c, genuine)
          PROVE  HandshakeInv'
      BY <2>1, <2>5 DEF PresentUnchecked
    <2> QED BY <1>2, <2>2, <2>3, <2>4, <2>5 DEF Present
  <1>3. ASSUME NEW r \in Requests, NEW state \in Refused \cup {"error"},
               req[r].state \in Waiting, Answer(r, state),
               UNCHANGED <<now, issued, timestamp, expiresAt, redis>>
        PROVE  HandshakeInv'
    BY <1>3 DEF Answer, IssueInv, CheckedInv, LatencyInv, MarkInv
  <1>4. ASSUME NEW r \in Requests, PassReplayCheck(r) PROVE HandshakeInv'
    <2>1. /\ req'[r] = [req[r] EXCEPT !.state = "setex", !.sent = now]
          /\ \A q \in Requests \ {r} : req'[q] = req[q]
      BY <1>4 DEF PassReplayCheck
    <2>2. UNCHANGED <<now, issued, timestamp, expiresAt, redis>>
      BY <1>4 DEF PassReplayCheck
    <2>3. IssueInv' /\ CheckedInv' /\ MarkInv'
      BY <1>4, <2>1, <2>2 DEF IssueInv, CheckedInv, MarkInv, PassReplayCheck
    <2>4. LatencyInv'
      BY <1>4, <2>1, <2>2 DEF LatencyInv, PassReplayCheck, HmacValid
    <2> QED BY <2>3, <2>4
  <1>5. ASSUME NEW r \in Requests, NEW verdict \in {"accepted", "error"},
               MarkChallengeUsed(r, verdict)
        PROVE  HandshakeInv'
    <2> DEFINE c == req[r].challenge
    <2>1. /\ c \in issued
          /\ redis'[c] = now + MarkTtl
          /\ \A d \in Challenges \ {c} : redis'[d] = redis[d]
      BY <1>5 DEF MarkChallengeUsed, CheckedInv
    <2>2. /\ req'[r].state \notin Waiting
          /\ req'[r].challenge = c
          /\ req'[r].presented = req[r].presented
          /\ \A q \in Requests \ {r} : req'[q] = req[q]
      BY <1>5 DEF MarkChallengeUsed
    <2>3. UNCHANGED <<now, issued, timestamp, expiresAt>>
      BY <1>5 DEF MarkChallengeUsed
    <2>4. IssueInv'
      BY <2>3 DEF IssueInv
    <2>5. LatencyInv'
      BY <2>2, <2>3 DEF LatencyInv
    <2>6. CheckedInv'
      BY <1>5, <2>2, <2>3 DEF CheckedInv, MarkChallengeUsed
    <2>7. MarkInv'
      <3>1. /\ redis'[c] >= 0
            /\ UtcOffset >= 0 => redis'[c] >= timestamp[c] + Timeout + Buffer
        BY <2>1 DEF IssueInv, MarkTtl
      <3>2. ASSUME NEW q \in Requests, req'[q].challenge # c, req'[q].marked, ~DataLoss,
                   UtcOffset >= 0
            PROVE  /\ req'[q].challenge \in issued
                   /\ redis'[req'[q].challenge] >= 0
                   /\ redis'[req'[q].challenge]
                         >= timestamp[req'[q].challenge] + Timeout + Buffer
        <4>1. req'[q] = req[q] BY <2>2, <3>2
        <4> QED BY <2>1, <3>2, <4>1 DEF MarkInv
      <3> QED BY <2>1, <2>3, <3>1, <3>2 DEF MarkInv
    <2> QED BY <2>4, <2>5, <2>6, <2>7
  <1>6. CASE ProcessRestart
    BY <1>6 DEF ProcessRestart, IssueInv, CheckedInv, LatencyInv, MarkInv
  <1>7. CASE Tick
    BY <1>7 DEF Tick, IssueInv, CheckedInv, LatencyInv, MarkInv
  <1>8. CASE UNCHANGED vars
    BY <1>8 DEF vars, IssueInv, CheckedInv, LatencyInv, MarkInv
  <1>9. ASSUME NEW lost \in SUBSET Challenges, RedisRestart(lost) PROVE HandshakeInv'
    BY <1>9 DEF RedisRestart, IssueInv, CheckedInv, LatencyInv, MarkInv
  <1> QED
    BY <1>1, <1>2, <1>3, <1>4, <1>5, <1>6, <1>7, <1>8, <1>9
    DEF Next, RedisAnswers, CheckReplay, RefuseReplay, RefuseHmac, RedisFails

-----------------------------------------------------------------------------
(* The safety properties *)

(* In any deployment: what a request that waits for Redis still knows of the *)
(* challenge it checked and, where local time is not behind UTC, that the    *)
(* key of a used challenge covers it.                                        *)
THEOREM Invariance == Spec => [](TypeOK /\ HandshakeInv)
  <1>1. Init => TypeOK /\ HandshakeInv
    BY TypeInit, InvInit
  <1>2. TypeOK /\ HandshakeInv /\ [Next]_vars => TypeOK' /\ HandshakeInv'
    BY TypeStep, InvStep
  <1> QED BY <1>1, <1>2, PTL DEF Spec

(* The key of a marked challenge is there for as long as a request that      *)
(* found the challenge fresh can still ask for it.                           *)
LEMMA PassesUnmarked ==
    ASSUME UtcOffset >= 0, DataLoss = FALSE, MaxLatency <= Buffer, TypeOK, HandshakeInv,
           NEW r \in Requests, PassReplayCheck(r),
           NEW q \in Requests, req[q].challenge = req[r].challenge
    PROVE  ~req[q].marked
  <1> SUFFICES ASSUME req[q].marked PROVE FALSE
    OBVIOUS
  <1> DEFINE c == req[r].challenge
  <1>1. c \in issued /\ now <= timestamp[c] + Timeout + MaxLatency
    BY ClockAssumption DEF PassReplayCheck, HandshakeInv, CheckedInv, LatencyInv, TypeOK
  <1>2. redis[c] >= 0 /\ redis[c] >= timestamp[c] + Timeout + Buffer
    BY DEF HandshakeInv, MarkInv
  <1>3. KeyExists(c)
    BY <1>1, <1>2, ClockAssumption DEF KeyExists, TypeOK
  <1> QED BY <1>3 DEF PassReplayCheck

(* Where local time is not behind UTC, Redis keeps its keys and a Redis call *)
(* is answered within the 60 seconds of buffer, a challenge that SETEX has   *)
(* marked never passes check_replay again.                                   *)
THEOREM ReplayPrevention ==
    ASSUME UtcOffset >= 0, DataLoss = FALSE, MaxLatency <= Buffer
    PROVE  Spec => MarkedStaysRefused
  <1> DEFINE Step == \A r \in Requests : PassReplayCheck(r) =>
                        \A q \in Requests :
                           req[q].challenge = req[r].challenge => ~req[q].marked
  <1>1. TypeOK /\ HandshakeInv => Step
    BY PassesUnmarked
  <1>2. Spec => [](TypeOK /\ HandshakeInv)
    BY Invariance
  <1> HIDE DEF Step
  <1>3. Spec => [][Step]_vars
    BY <1>1, <1>2, PTL
  <1> QED BY <1>3 DEF MarkedStaysRefused, Step

(* An accepted request was presented before the expiry told to its client,   *)
(* but for the difference of local time to UTC, and the two awaits carry the *)
(* verdict at most two round trips past it.                                  *)
THEOREM AcceptanceInTime == Spec => []AcceptedNearExpiry
  <1>1. ASSUME TypeOK, HandshakeInv PROVE AcceptedNearExpiry
    BY <1>1, ClockAssumption
    DEF HandshakeInv, IssueInv, CheckedInv, LatencyInv, AcceptedNearExpiry, Deadline, TypeOK
  <1> QED BY <1>1, Invariance, PTL

-----------------------------------------------------------------------------
(* What a replay is *)

LEMMA UseInit == Init => UseInv
  BY DEF Init, Idle, UseInv, KeyInv, MarksLast, ReplayMeansUsed

(* A step that adds no key and changes no request that has marked its        *)
(* challenge keeps a witness for every key and every replay.                 *)
LEMMA UseStep ==
    ASSUME TypeOK, UseInv, [Next]_vars
    PROVE  UseInv'
  <1> USE ClockAssumption, RequestAssumption DEF TypeOK, UseInv, KeyInv, MarksLast, ReplayMeansUsed
  <1>1. ASSUME NEW c \in Challenges, GenerateChallenge(c) PROVE UseInv'
    BY <1>1 DEF GenerateChallenge, Used
  <1>2. ASSUME NEW r \in Requests, Present(r) PROVE UseInv'
    <2>1. ASSUME NEW c, NEW genuine \in BOOLEAN, NEW state, Begin(r, c, genuine, state),
                 state \notin {"replay", "setex"},
                 state \in Waiting => c \in issued
          PROVE  UseInv'
      <3>1. /\ ~req[r].marked
            /\ req'[r] = [state |-> state, challenge |-> c, genuine |-> genuine,
                          presented |-> now, sent |-> now, marked |-> FALSE]
            /\ \A q \in Requests \ {r} : req'[q] = req[q]
            /\ UNCHANGED <<issued, redis>>
        BY <2>1 DEF Begin
      <3>2. \A d : Used(d) => Used(d)'
        BY <3>1 DEF Used
      <3> QED BY <2>1, <3>1, <3>2
    <2> HIDE DEF TypeOK, UseInv
    <2>2. CASE MissingHeaders(r) \/ Malformed(r)
      BY <2>1, <2>2 DEF MissingHeaders, Malformed, Waiting
    <2>3. ASSUME NEW c \in Challenges, NEW genuine \in BOOLEAN,
                 PresentExpired(r, c, genuine)
          PROVE  UseInv'
      BY <2>1, <2>3 DEF PresentExpired, Waiting
    <2>4. ASSUME NEW c \in Challenges, NEW genuine \in BOOLEAN,
                 PresentFresh(r, c, genuine)
          PROVE  UseInv'
      BY <2>1, <2>4 DEF PresentFresh
    <2>5. ASSUME NEW c \in Challenges, NEW genuine \in BOOLEAN,
                 PresentUnchecked(r, c, genuine)
          PROVE  UseInv'
      BY <2>1, <2>5 DEF PresentUnchecked
    <2> QED BY <1>2, <2>2, <2>3, <2>4, <2>5 DEF Present
  <1>3. ASSUME NEW r \in Requests, NEW state \in {"invalid_hmac", "error"},
               req[r].state \in Waiting, Answer(r, state), UNCHANGED <<issued, redis>>
        PROVE  UseInv'
    <2>1. \A d : Used(d) => Used(d)'
      BY <1>3 DEF Answer, Used
    <2> QED BY <1>3, <2>1 DEF Answer
  <1>4. ASSUME NEW r \in Requests, RefuseReplay(r) PROVE UseInv'
    <2>1. /\ \A q \in Requests : /\ req'[q].challenge = req[q].challenge
                                 /\ req'[q].genuine = req[q].genuine
                                 /\ req'[q].marked = req[q].marked
          /\ req'[r].state = "replay"
          /\ \A q \in Requests \ {r} : req'[q] = req[q]
          /\ UNCHANGED <<issued, redis>>
      BY <1>4 DEF RefuseReplay, Answer
    <2>2. /\ req[r].challenge \in Challenges
          /\ redis[req[r].challenge] # NoKey
      BY <1>4 DEF RefuseReplay, KeyExists
    <2>3. \A d : Used(d) => Used(d)'
      BY <2>1 DEF Used
    <2> QED BY <2>1, <2>2, <2>3
  <1>5. ASSUME NEW r \in Requests, PassReplayCheck(r) PROVE UseInv'
    <2>1. \A d : Used(d) => Used(d)'
      BY <1>5 DEF PassReplayCheck, Used
    <2> QED BY <1>5, <2>1 DEF PassReplayCheck, HmacValid
  <1>6. ASSUME NEW r \in Requests, NEW verdict \in {"accepted", "error"},
               MarkChallengeUsed(r, verdict)
        PROVE  UseInv'
    <2> PICK c : c = req[r].challenge
      OBVIOUS
    <2>1. /\ c \in Challenges
          /\ req[r].genuine
          /\ \A d \in Challenges \ {c} : redis'[d] = redis[d]
          /\ UNCHANGED issued
      BY <1>6 DEF MarkChallengeUsed
    <2>2. /\ req'[r].challenge = c
          /\ req'[r].genuine = req[r].genuine
          /\ req'[r].marked
          /\ req'[r].state = verdict
          /\ \A q \in Requests \ {r} : req'[q] = req[q]
      BY <1>6 DEF MarkChallengeUsed
    <2>3. ~req[r].marked
      BY <1>6 DEF MarkChallengeUsed
    <2>4. Used(c)'
      BY <2>1, <2>2 DEF Used
    <2>5. \A d : Used(d) => Used(d)'
      BY <2>2, <2>3 DEF Used
    <2>6. KeyInv'
      BY <2>1, <2>4, <2>5
    <2>7. MarksLast'
      BY <2>1, <2>2
    <2>8. ReplayMeansUsed'
      BY <2>2, <2>5
    <2> QED BY <2>6, <2>7, <2>8
  <1>7. CASE ProcessRestart
    <2>1. \A d : Used(d) => Used(d)'
      BY <1>7 DEF ProcessRestart, Used
    <2> QED BY <1>7, <2>1 DEF ProcessRestart
  <1>8. ASSUME NEW lost \in SUBSET Challenges, RedisRestart(lost) PROVE UseInv'
    BY <1>8 DEF RedisRestart, Used
  <1>9. CASE Tick
    BY <1>9 DEF Tick, Used
  <1>10. CASE UNCHANGED vars
    BY <1>10 DEF vars, Used
  <1> QED
    BY <1>1, <1>2, <1>3, <1>4, <1>5, <1>6, <1>7, <1>8, <1>9, <1>10
    DEF Next, RedisAnswers, CheckReplay, RefuseHmac, RedisFails

(* In any deployment, a client is told of a replay only when a request with  *)
(* the same challenge and the right response was let through to SETEX.       *)
THEOREM ReplayIsReuse == Spec => []ReplayMeansUsed
  <1>1. TypeOK /\ UseInv /\ [Next]_vars => UseInv'
    BY UseStep
  <1>2. UseInv => ReplayMeansUsed
    BY DEF UseInv
  <1> QED BY UseInit, TypeCorrect, <1>1, <1>2, PTL DEF Spec

-----------------------------------------------------------------------------
(* What "expired" is *)

LEMMA TimestampRecent ==
    ASSUME now \in 0..MaxTime
    PROVE  IssueTimestamp > now - Second - UtcOffset
  <1>1. now \in Nat BY ClockAssumption
  <1>2. now % Second \in Nat /\ now % Second < Second
    BY <1>1, ClockAssumption
  <1> QED BY <1>1, <1>2, ClockAssumption DEF IssueTimestamp

LEMMA RefuseStep ==
    ASSUME TypeOK, RefuseInv, [Next]_vars
    PROVE  RefuseInv'
  <1> USE ClockAssumption DEF TypeOK, RefuseInv, IssuedRecently, RefusedNearExpiry, Deadline
  <1>1. ASSUME NEW c \in Challenges, GenerateChallenge(c) PROVE RefuseInv'
    <2>1. /\ c \notin issued /\ issued' = issued \cup {c} /\ req' = req
          /\ \A d \in issued : timestamp'[d] = timestamp[d] /\ expiresAt'[d] = expiresAt[d]
          /\ timestamp'[c] = IssueTimestamp
          /\ expiresAt'[c] = now + Timeout
      BY <1>1 DEF GenerateChallenge
    <2>2. IssuedRecently'
      BY <2>1, TimestampRecent, TimestampType
    <2>3. \A r \in Requests : req[r].challenge \in issued \cup {NoChallenge}
      OBVIOUS
    <2> QED BY <2>1, <2>2, <2>3
  <1>2. ASSUME NEW r \in Requests, Present(r) PROVE RefuseInv'
    <2>1. ASSUME NEW c, NEW genuine \in BOOLEAN, NEW state, Begin(r, c, genuine, state),
                 state = "expired" /\ c # NoChallenge => c \in issued /\ Expired(c)
          PROVE  RefuseInv'
      <3>1. /\ req'[r] = [state |-> state, challenge |-> c, genuine |-> genuine,
                          presented |-> now, sent |-> now, marked |-> FALSE]
            /\ \A q \in Requests \ {r} : req'[q] = req[q]
            /\ UNCHANGED <<issued, timestamp, expiresAt>>
        BY <2>1 DEF Begin
      <3>2. state = "expired" /\ c # NoChallenge => now > Deadline(c) - Second
        BY <2>1 DEF Expired
      <3> QED BY <3>1, <3>2
    <2>2. CASE MissingHeaders(r) \/ Malformed(r)
      BY <2>1, <2>2 DEF MissingHeaders, Malformed
    <2>3. ASSUME NEW c \in Challenges, NEW genuine \in BOOLEAN,
                 \/ PresentExpired(r, c, genuine)
                 \/ PresentFresh(r, c, genuine)
                 \/ PresentUnchecked(r, c, genuine)
          PROVE  RefuseInv'
      BY <2>1, <2>3 DEF PresentExpired, PresentFresh, PresentUnchecked
    <2> QED BY <1>2, <2>2, <2>3 DEF Present
  <1>3. ASSUME UNCHANGED <<issued, timestamp, expiresAt>>,
               \A r \in Requests : /\ req'[r].state = "expired" => req[r].state = "expired"
                                   /\ req'[r].challenge = req[r].challenge
                                   /\ req'[r].presented = req[r].presented
        PROVE  RefuseInv'
    BY <1>3
  <1> HIDE DEF RefuseInv, IssuedRecently, RefusedNearExpiry, Deadline
  <1>4. ASSUME NEW r \in Requests, NEW verdict \in {"accepted", "error"},
               RedisAnswers(r) \/ MarkChallengeUsed(r, verdict) \/ RedisFails(r)
        PROVE  RefuseInv'
    BY <1>3, <1>4
    DEF RedisAnswers, CheckReplay, RefuseReplay, RefuseHmac, PassReplayCheck,
        MarkChallengeUsed, RedisFails, Answer
  <1>5. CASE ProcessRestart
    BY <1>3, <1>5 DEF ProcessRestart
  <1>6. ASSUME NEW lost \in SUBSET Challenges, RedisRestart(lost) PROVE RefuseInv'
    BY <1>3, <1>6 DEF RedisRestart
  <1>7. CASE Tick \/ UNCHANGED vars
    BY <1>3, <1>7 DEF Tick, vars
  <1> QED
    BY <1>1, <1>2, <1>4, <1>5, <1>6, <1>7 DEF Next

(* A client is told that its challenge expired at most a second before the   *)
(* expiry it was given, but for the difference of local time to UTC.         *)
THEOREM RefusalInTime == Spec => []RefusedNearExpiry
  <1>1. Init => RefuseInv
    BY DEF Init, Idle, RefuseInv, IssuedRecently, RefusedNearExpiry
  <1>2. TypeOK /\ RefuseInv /\ [Next]_vars => RefuseInv'
    BY RefuseStep
  <1>3. RefuseInv => RefusedNearExpiry
    BY DEF RefuseInv
  <1> QED BY TypeCorrect, <1>1, <1>2, <1>3, PTL DEF Spec

=============================================================================
