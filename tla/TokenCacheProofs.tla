-------------------------- MODULE TokenCacheProofs --------------------------
(***************************************************************************)
(* Proofs about TokenCache, for any number of calls and stores and any     *)
(* cache lifetime.                                                         *)
(***************************************************************************)
EXTENDS TokenCache, TLAPS

LEMMA TypeInit == Init => TypeOK
  BY RegisterAssumption, CacheAssumption
  DEF Init, RegisterInit, TypeOK, EmptyCache, IdleRequest, Never, Secrets,
      RequestRecord

(* The ways a call record is updated. *)
LEMMA EndedRecord ==
    ASSUME NEW r \in RequestRecord, NEW secret \in Secrets, NEW time \in 0..MaxTime,
           NEW state \in {"idle", "loading", "returned", "failed"}
    PROVE  [r EXCEPT !.state = state, !.secret = secret, !.ended = time] \in RequestRecord
  BY Zenon DEF RequestRecord

LEMMA BegunRecord ==
    ASSUME NEW r \in RequestRecord, NEW time \in 0..MaxTime
    PROVE  [r EXCEPT !.state = "loading", !.began = time] \in RequestRecord
  BY Zenon DEF RequestRecord

LEMMA FailedRecord ==
    ASSUME NEW r \in RequestRecord
    PROVE  [r EXCEPT !.state = "failed"] \in RequestRecord
  BY Zenon DEF RequestRecord

LEMMA TypeStep == TypeOK /\ [Next]_vars => TypeOK'
  <1> SUFFICES ASSUME TypeOK, [Next]_vars PROVE TypeOK'
    OBVIOUS
  <1> USE CacheAssumption DEF TypeOK, Never, Secrets, registerVars, cacheVars
  <1>1. ASSUME NEW l \in Loads, Hit(l) PROVE TypeOK'
    BY <1>1 DEF Hit, RequestRecord
  <1>2. ASSUME NEW l \in Loads, Miss(l) PROVE TypeOK'
    <2>1. [request[l] EXCEPT !.state = "loading", !.began = now] \in RequestRecord
      BY BegunRecord
    <2>2. request' \in [Loads -> RequestRecord]
      BY <1>2, <2>1 DEF Miss
    <2> QED BY <1>2, <2>2 DEF Miss, Start
  <1>3. ASSUME NEW l \in Loads, Load(l) PROVE TypeOK'
    <2>1. CASE See(l) BY <1>3, <2>1 DEF Load, See
    <2>2. CASE Return(l) BY <1>3, <2>2 DEF Load, Return
    <2>3. CASE Reject(l) BY <1>3, <2>3 DEF Load, Reject
    <2>4. CASE Fail({l}) BY <1>3, <2>4 DEF Load, Fail
    <2> QED BY <1>3, <2>1, <2>2, <2>3, <2>4 DEF Load
  <1>4. ASSUME NEW l \in Loads, NEW state \in {"returned", "failed"}, NEW secret \in Secrets,
               End(l, state, secret)
        PROVE  request' \in [Loads -> RequestRecord]
    <2>1. [request[l] EXCEPT !.state = state, !.secret = secret, !.ended = now]
             \in RequestRecord
      BY EndedRecord
    <2> QED BY <1>4, <2>1 DEF End
  <1>5. ASSUME NEW l \in Loads, Deliver(l) \/ FallBack(l) PROVE TypeOK'
    <2>1. PICK secret \in Secrets : Remember(secret) /\ End(l, "returned", secret)
      BY <1>5 DEF Deliver, FallBack
    <2>2. UNCHANGED <<registerVars, now, replaced>>
      BY <1>5 DEF Deliver, FallBack
    <2>3. cache' \in [secret : Secrets, time : 0..MaxTime]
      BY <2>1 DEF Remember
    <2>4. request' \in [Loads -> RequestRecord]
      BY <1>4, <2>1
    <2> QED BY <2>2, <2>3, <2>4
  <1>6. ASSUME NEW l \in Loads, Raise(l) PROVE TypeOK'
    <2>1. request' \in [Loads -> RequestRecord]
      BY <1>4, <1>6 DEF Raise
    <2> QED BY <1>6, <2>1 DEF Raise
  <1>7. ASSUME NEW s \in Stores, StoreSecret(s) PROVE TypeOK'
    BY <1>7 DEF StoreSecret, Write
  <1>8. CASE ProcessRestart
    <2>1. \A l \in Loads : [request[l] EXCEPT !.state = "failed"] \in RequestRecord
      BY FailedRecord
    <2>2. request' \in [Loads -> RequestRecord]
      BY <1>8, <2>1 DEF ProcessRestart
    <2>3. phase' \in [Loads -> {"idle", "reading", "seen", "returned",
                               "unreadable", "failed"}]
      BY <1>8 DEF ProcessRestart, Fail
    <2> QED BY <1>8, <2>2, <2>3 DEF ProcessRestart, Fail, EmptyCache
  <1>9. CASE Tick
    BY <1>9 DEF Tick
  <1>10. CASE UNCHANGED vars
    BY <1>10 DEF vars
  <1> QED
    BY <1>1, <1>2, <1>3, <1>4, <1>5, <1>6, <1>7, <1>8, <1>9, <1>10 DEF Next

-----------------------------------------------------------------------------
LEMMA InvInit == Init => StalenessInv
  BY RegisterAssumption, CacheAssumption
  DEF Init, RegisterInit, EmptyCache, IdleRequest, StalenessInv, RegisterInv,
      MissInv, CachedInv, EndedInv, BoundedStaleness, InFlight

LEMMA InvStep ==
    ASSUME TypeOK, StalenessInv, [Next]_vars
    PROVE  StalenessInv'
  <1> USE CacheAssumption, RegisterAssumption
      DEF TypeOK, RequestRecord, Secrets, Never, StalenessInv, InForceSince, InFlight
  <1>1. ASSUME NEW l \in Loads, Hit(l) PROVE StalenessInv'
    BY <1>1 DEF Hit, Fresh, registerVars, RegisterInv, MissInv, CachedInv,
                EndedInv, BoundedStaleness
  <1>2. ASSUME NEW l \in Loads, Miss(l) PROVE StalenessInv'
    BY <1>2 DEF Miss, Start, RegisterInv, MissInv, CachedInv, EndedInv, BoundedStaleness
  <1>3. ASSUME NEW l \in Loads, Load(l) PROVE StalenessInv'
    BY <1>3 DEF Load, See, Return, Reject, Fail, cacheVars, RegisterInv, MissInv, CachedInv,
                EndedInv, BoundedStaleness
  <1>4. ASSUME NEW l \in Loads, NEW state \in {"returned", "failed"}, NEW secret \in Secrets,
               End(l, state, secret), UNCHANGED <<registerVars, now, replaced>>,
               \/ Remember(secret)
               \/ UNCHANGED cache /\ state = "failed",
               secret \in Stores => l \in InFlight /\ InForceSince(secret, request[l].began)
        PROVE  StalenessInv'
    BY <1>4 DEF End, Remember, registerVars, RegisterInv, MissInv, CachedInv,
                EndedInv, BoundedStaleness
  <1>5. ASSUME NEW s \in Stores, StoreSecret(s) PROVE StalenessInv'
    BY <1>5 DEF StoreSecret, Write, RegisterInv, MissInv, CachedInv,
                EndedInv, BoundedStaleness
  <1>6. CASE ProcessRestart
    BY <1>6 DEF ProcessRestart, Fail, EmptyCache, RegisterInv, MissInv, CachedInv,
                EndedInv, BoundedStaleness
  <1>7. CASE Tick
    BY <1>7 DEF Tick, registerVars, RegisterInv, MissInv, CachedInv,
                EndedInv, BoundedStaleness
  <1>8. CASE UNCHANGED vars
    BY <1>8 DEF vars, registerVars, cacheVars, RegisterInv, MissInv, CachedInv,
                EndedInv, BoundedStaleness
  <1>9. ASSUME NEW l \in Loads, Deliver(l) \/ FallBack(l) \/ Raise(l)
        PROVE  StalenessInv'
    BY <1>4, <1>9 DEF Deliver, FallBack, Raise, MissInv
  <1> QED
    BY <1>1, <1>2, <1>3, <1>5, <1>6, <1>7, <1>8, <1>9 DEF Next

-----------------------------------------------------------------------------
(* Every state of the cache and its callers is well typed. *)
THEOREM TypeCorrect == Spec => []TypeOK
  BY TypeInit, TypeStep, PTL DEF Spec

(* What a miss knows of the secret it brings, and what the cache knows of    *)
(* the one it holds, at every moment.                                        *)
THEOREM Invariance == Spec => [](TypeOK /\ StalenessInv)
  <1>1. Init => TypeOK /\ StalenessInv
    BY TypeInit, InvInit
  <1>2. TypeOK /\ StalenessInv /\ [Next]_vars => TypeOK' /\ StalenessInv'
    BY TypeStep, InvStep
  <1> QED BY <1>1, <1>2, PTL DEF Spec

(* However calls, slow misses and re-initialisations interleave, no caller   *)
(* is handed a secret more than one cache lifetime and one miss after it was *)
(* replaced in Redis.                                                        *)
THEOREM Staleness == Spec => []BoundedStaleness
  <1>1. StalenessInv => BoundedStaleness
    BY DEF StalenessInv
  <1> QED BY Invariance, <1>1, PTL

-----------------------------------------------------------------------------
LEMMA EnvStep ==
    ASSUME TypeOK, StalenessInv, EnvInv, [Next]_vars
    PROVE  EnvInv'
  <1> USE CacheAssumption
      DEF TypeOK, RequestRecord, Secrets, EnvInv, EnvOnlyForWant, FellBack
  <1>1. ASSUME \A m \in Loads : FellBack(m) => FellBack(m)' /\ request'[m] = request[m],
               \A l \in Loads :
                  request'[l].state = "returned" /\ request'[l].secret = EnvSecret =>
                     \/ request'[l] = request[l]
                     \/ \E m \in Loads : /\ FellBack(m)'
                                         /\ request'[l].ended - request'[m].ended \in 0..CacheTtl
        PROVE  EnvOnlyForWant'
    <2> HIDE DEF FellBack
    <2> SUFFICES ASSUME NEW l \in Loads, request'[l] = request[l],
                        request[l].state = "returned", request[l].secret = EnvSecret
                 PROVE  \E m \in Loads :
                           /\ FellBack(m)'
                           /\ request'[l].ended - request'[m].ended \in 0..CacheTtl
      BY <1>1 DEF FellBack
    <2>1. PICK m \in Loads : FellBack(m) /\ request[l].ended - request[m].ended \in 0..CacheTtl
      BY DEF FellBack
    <2> QED BY <1>1, <2>1
  <1>2. ASSUME NEW l \in Loads, Hit(l) PROVE EnvInv'
    <2>1. UNCHANGED <<phase, cache>> /\ cache.time <= now /\ request[l].state = "idle"
      BY <1>2 DEF Hit, registerVars, StalenessInv, CachedInv
    <2>2. \A m \in Loads \ {l} : request'[m] = request[m]
      BY <1>2 DEF Hit
    <2>3. /\ request'[l].secret = cache.secret /\ request'[l].ended = now
          /\ now - cache.time < CacheTtl
      BY <1>2 DEF Hit, Fresh
    <2>4. \A m \in Loads : FellBack(m) => FellBack(m)' /\ request'[m] = request[m]
      BY <2>1, <2>2
    <2>5. cache.secret = EnvSecret =>
             \E m \in Loads : /\ FellBack(m)' /\ request'[m].ended = cache.time
                             /\ now - cache.time \in 0..CacheTtl
      BY <2>1, <2>3, <2>4
    <2>6. EnvOnlyForWant'
      <3>1. \A k \in Loads :
               request'[k].state = "returned" /\ request'[k].secret = EnvSecret =>
                  \/ request'[k] = request[k]
                  \/ \E m \in Loads : /\ FellBack(m)'
                                      /\ request'[k].ended - request'[m].ended \in 0..CacheTtl
        BY <2>2, <2>3, <2>5
      <3> QED BY <1>1, <2>4, <3>1
    <2> QED BY <2>1, <2>5, <2>6
  <1>3. ASSUME NEW l \in Loads, Miss(l) PROVE EnvInv'
    <2>1. /\ request'[l].state = "loading" /\ UNCHANGED cache
          /\ \A m \in Loads \ {l} : request'[m] = request[m]
          /\ \A m \in Loads : FellBack(m) => FellBack(m)' /\ request'[m] = request[m]
      BY <1>3 DEF Miss, Start
    <2> QED BY <1>1, <2>1
  <1>4. ASSUME NEW l \in Loads, Load(l) PROVE EnvInv'
    <2>1. UNCHANGED <<cache, request>>
      BY <1>4 DEF Load, cacheVars
    <2>2. \A m \in Loads : phase[m] = "failed" => phase'[m] = "failed"
      BY <1>4 DEF Load, See, Return, Reject, Fail
    <2>3. \A m \in Loads : FellBack(m) => FellBack(m)'
      BY <2>1, <2>2
    <2> QED BY <1>1, <2>1, <2>3
  <1>5. ASSUME NEW l \in Loads, Deliver(l) PROVE EnvInv'
    <2>1. result[l] # EnvSecret
      OBVIOUS
    <2>2. /\ cache'.secret # EnvSecret /\ request'[l].secret # EnvSecret
          /\ \A m \in Loads \ {l} : request'[m] = request[m]
          /\ \A m \in Loads : FellBack(m) => FellBack(m)' /\ request'[m] = request[m]
      BY <1>5, <2>1 DEF Deliver, End, Remember, registerVars
    <2> QED BY <1>1, <2>2
  <1>6. ASSUME NEW l \in Loads, FallBack(l) PROVE EnvInv'
    <2>1. /\ \A m \in Loads \ {l} : request'[m] = request[m]
          /\ \A m \in Loads : FellBack(m) => FellBack(m)' /\ request'[m] = request[m]
          /\ FellBack(l)' /\ request'[l].ended = now /\ cache'.time = now
      BY <1>6 DEF FallBack, End, Remember, registerVars
    <2>2. request'[l].ended - request'[l].ended \in 0..CacheTtl
      BY <2>1
    <2>3. EnvOnlyForWant'
      <3> HIDE DEF FellBack, EnvOnlyForWant
      <3>1. \A k \in Loads : \/ request'[k] = request[k]
                            \/ \E m \in Loads :
                                  /\ FellBack(m)'
                                  /\ request'[k].ended - request'[m].ended \in 0..CacheTtl
        BY <2>1, <2>2
      <3> QED BY <1>1, <2>1, <3>1
    <2> QED BY <2>1, <2>3
  <1>7. ASSUME NEW l \in Loads, Raise(l) PROVE EnvInv'
    <2>1. /\ request'[l].state = "failed"
          /\ \A m \in Loads \ {l} : request'[m] = request[m]
          /\ \A m \in Loads : FellBack(m) => FellBack(m)' /\ request'[m] = request[m]
      BY <1>7 DEF Raise, End, registerVars
    <2> QED BY <1>1, <1>7, <2>1 DEF Raise
  <1>8. ASSUME NEW s \in Stores, StoreSecret(s) PROVE EnvInv'
    BY <1>8 DEF StoreSecret, Write
  <1>9. CASE ProcessRestart
    BY <1>9 DEF ProcessRestart, Fail, EmptyCache, InFlight
  <1>10. CASE Tick \/ UNCHANGED vars
    BY <1>10 DEF Tick, vars, registerVars, cacheVars
  <1> QED
    BY <1>2, <1>3, <1>4, <1>5, <1>6, <1>7, <1>8, <1>9, <1>10 DEF Next

(* A secret of the environment is handed out only because some load failed,  *)
(* and at most one cache lifetime later.                                     *)
THEOREM EnvironmentAsLastResort == Spec => []EnvOnlyForWant
  <1>1. Init => EnvInv
    BY CacheAssumption
    DEF Init, RegisterInit, EmptyCache, IdleRequest, EnvInv, EnvOnlyForWant
  <1>2. EnvInv => EnvOnlyForWant
    BY DEF EnvInv
  <1> QED BY Invariance, EnvStep, <1>1, <1>2, PTL DEF Spec

=============================================================================
