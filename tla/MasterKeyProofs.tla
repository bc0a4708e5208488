-------------------------- MODULE MasterKeyProofs --------------------------
(***************************************************************************)
(* Proofs about MasterKey, for any number of inits and calls.  MasterKey   *)
(* implements TokenCache, so that what TokenCacheProofs shows holds of it. *)
(***************************************************************************)
EXTENDS MasterKey, TokenCacheProofs

LEMMA MasterStart == MasterInit => MasterTypeOK /\ OrderInv /\ OriginInv
  BY TypeInit, RegisterAssumption, CacheAssumption
  DEF MasterInit, MasterTypeOK, OrderInv, OriginInv, Init, RegisterInit, EmptyCache,
      IdleRequest, Running

LEMMA StepOfCache == [MasterNext]_<<vars, masterVars>> => [Next]_vars
  <1>1. ASSUME NEW s \in Stores, InitStep(s) PROVE [Next]_vars
    BY <1>1 DEF InitStep, BeginInit, StoreKey, StoreToken, TellKey, FailInit, Next
  <1>2. ASSUME NEW l \in Loads, NEW key, Ask(l, key) PROVE [Next]_vars
    BY <1>2 DEF Ask, Next
  <1>3. ASSUME NEW l \in Loads, CallStep(l) PROVE [Next]_vars
    BY <1>3 DEF CallStep, Next
  <1>4. CASE RestartProxy \/ (Tick /\ UNCHANGED masterVars)
    BY <1>4 DEF RestartProxy, Next
  <1> QED
    BY <1>1, <1>2, <1>3, <1>4 DEF MasterNext

(* A master key is looked up through the cache as TokenCache models it, with *)
(* the inits as its stores.                                                  *)
THEOREM MasterKeyImplementsCache == MasterSpec => Spec
  BY StepOfCache, PTL DEF MasterSpec, MasterInit, Spec

-----------------------------------------------------------------------------
(* Types and the order of an init *)

LEMMA MasterStep ==
    ASSUME MasterTypeOK, OrderInv, [MasterNext]_<<vars, masterVars>>
    PROVE  MasterTypeOK' /\ OrderInv'
  <1> USE CacheAssumption, RegisterAssumption DEF MasterTypeOK
  <1>0. TypeOK'
    BY StepOfCache, TypeStep
  <1>1. ASSUME NEW s \in Stores, InitStep(s) PROVE MasterTypeOK' /\ OrderInv'
    <2>1. CASE BeginInit(s)
      BY <1>0, <2>1 DEF BeginInit, OrderInv, Running, vars, registerVars, cacheVars
    <2>2. CASE StoreKey(s)
      <3>1. value' = s /\ now \in 0..MaxTime
        BY <2>2 DEF StoreKey, StoreSecret, Write, TypeOK
      <3> QED BY <1>0, <2>2, <3>1 DEF StoreKey, OrderInv, Running
    <2>3. CASE StoreToken(s)
      BY <1>0, <2>3 DEF StoreToken, OrderInv, Running, vars, registerVars
    <2>4. CASE TellKey(s)
      BY <1>0, <2>4 DEF TellKey, OrderInv, Running, vars, registerVars
    <2>5. CASE FailInit(s)
      BY <1>0, <2>5 DEF FailInit, OrderInv, Running, vars, registerVars
    <2> QED BY <1>1, <2>1, <2>2, <2>3, <2>4, <2>5 DEF InitStep
  <1>2. ASSUME NEW l \in Loads, NEW key \in Presentable \cup {Absent}, Ask(l, key)
        PROVE  MasterTypeOK' /\ OrderInv'
    <2>1. UNCHANGED value
      BY <1>2 DEF Ask, Hit, Miss, Start, registerVars
    <2> QED BY <1>0, <1>2, <2>1 DEF Ask, OrderInv, Running, Presentable
  <1>3. ASSUME NEW l \in Loads, CallStep(l) PROVE MasterTypeOK' /\ OrderInv'
    <2>1. UNCHANGED value
      BY <1>3 DEF CallStep, Load, See, Return, Reject, Fail, Deliver, Raise, registerVars
    <2> QED BY <1>0, <1>3, <2>1 DEF CallStep, masterVars, OrderInv, Running
  <1>4. CASE RestartProxy
    <2>1. UNCHANGED value
      BY <1>4 DEF RestartProxy, ProcessRestart, Fail
    <2> QED BY <1>0, <1>4, <2>1 DEF RestartProxy, OrderInv, Running
  <1>5. CASE (Tick /\ UNCHANGED masterVars) \/ UNCHANGED <<vars, masterVars>>
    <2>1. UNCHANGED value
      BY <1>5 DEF Tick, vars, registerVars
    <2> QED BY <1>0, <1>5, <2>1 DEF masterVars, OrderInv, Running
  <1> QED
    BY <1>1, <1>2, <1>3, <1>4, <1>5 DEF MasterNext

THEOREM MasterTypeCorrect == MasterSpec => [](MasterTypeOK /\ OrderInv)
  BY MasterStart, MasterStep, PTL DEF MasterSpec

(* Wherever an undisturbed init fails, the MaaS token it brings is not in    *)
(* place without its key; when it has told its key, both are.                *)
THEOREM KeyThenToken == MasterSpec => []KeyBeforeToken
  <1>1. OrderInv => KeyBeforeToken
    BY DEF OrderInv, KeyBeforeToken
  <1> QED BY MasterTypeCorrect, <1>1, PTL

-----------------------------------------------------------------------------
(* Verdicts *)

LEMMA OriginStep ==
    ASSUME MasterTypeOK, RegisterInv, OriginInv, [MasterNext]_<<vars, masterVars>>
    PROVE  OriginInv'
  <1> USE CacheAssumption, RegisterAssumption
      DEF MasterTypeOK, TypeOK, OriginInv, RequestRecord, Secrets, Never
  <1>1. ASSUME NEW s \in Stores, InitStep(s) PROVE OriginInv'
    <2>1. CASE StoreKey(s)
      BY <2>1 DEF StoreKey, StoreSecret, Write
    <2>2. CASE UNCHANGED <<vars, since>>
      BY <2>2 DEF vars, registerVars, cacheVars
    <2> QED BY <1>1, <2>1, <2>2 DEF InitStep, BeginInit, StoreToken, TellKey, FailInit
  <1>2. ASSUME NEW l \in Loads, NEW key, Ask(l, key) PROVE OriginInv'
    <2>1. CASE Hit(l)
      BY <1>2, <2>1 DEF Ask, Hit, Fresh, registerVars
    <2>2. CASE Miss(l)
      BY <1>2, <2>2 DEF Ask, Miss, Start
    <2> QED BY <1>2, <2>1, <2>2 DEF Ask
  <1>3. ASSUME NEW l \in Loads, Load(l), UNCHANGED masterVars PROVE OriginInv'
    <2>1. CASE See(l)
      <3>1. value \in written \cup {Absent}
        BY DEF RegisterInv
      <3> QED BY <1>3, <2>1, <3>1 DEF Load, See, cacheVars, masterVars
    <2>2. CASE Return(l)
      BY <1>3, <2>2 DEF Load, Return, cacheVars, masterVars
    <2>3. CASE Reject(l)
      BY <1>3, <2>3 DEF Load, Reject, cacheVars, masterVars
    <2>4. CASE Fail({l})
      BY <1>3, <2>4 DEF Load, Fail, cacheVars, masterVars
    <2> QED BY <1>3, <2>1, <2>2, <2>3, <2>4 DEF Load
  <1>4. ASSUME NEW l \in Loads, Deliver(l) \/ Raise(l), UNCHANGED masterVars
        PROVE  OriginInv'
    <2>1. CASE Deliver(l)
      <3>1. result[l] \in written /\ result[l] \in Stores
        BY <2>1 DEF Deliver
      <3> QED BY <1>4, <2>1, <3>1 DEF Deliver, End, Remember, registerVars, masterVars
    <2>2. CASE Raise(l)
      BY <1>4, <2>2 DEF Raise, End, registerVars, masterVars
    <2> QED BY <1>4, <2>1, <2>2
  <1>5. CASE RestartProxy
    BY <1>5 DEF RestartProxy, ProcessRestart, Fail, EmptyCache
  <1>6. CASE (Tick /\ UNCHANGED masterVars) \/ UNCHANGED <<vars, masterVars>>
    BY <1>6 DEF Tick, vars, registerVars, cacheVars, masterVars
  <1> QED
    BY <1>1, <1>2, <1>3, <1>4, <1>5, <1>6 DEF MasterNext, CallStep

(* One cache lifetime and one miss after a key was stored, every lookup that *)
(* succeeds gives that key: it is accepted, others are refused, GET answers  *)
(* it.                                                                       *)
THEOREM Verdicts == MasterSpec => []VerdictsFollow
  <1>1. MasterTypeOK /\ StalenessInv /\ OriginInv => VerdictsFollow
    <2> SUFFICES ASSUME MasterTypeOK, StalenessInv, OriginInv, NEW l \in Loads,
                        request[l].state = "returned",
                        request[l].ended > since + CacheTtl + MaxMiss
                 PROVE  request[l].secret = value
      BY DEF VerdictsFollow, Accepted, RefusedAsInvalid, AnswersKey
    <2> USE CacheAssumption DEF MasterTypeOK, TypeOK, RequestRecord, Never
    <2>1. request[l].secret \in written /\ request[l].secret \in Stores
      BY DEF OriginInv
    <2>2. InForceSince(request[l].secret, request[l].ended - (MaxMiss + CacheTtl))
      BY <2>1 DEF StalenessInv, BoundedStaleness
    <2>3. CASE request[l].secret # value
      <3>1. /\ replaced[request[l].secret] # Never
            /\ replaced[request[l].secret] <= since
        BY <2>1, <2>3 DEF OriginInv
      <3> QED BY <2>1, <2>2, <3>1 DEF InForceSince
    <2> QED BY <2>3
  <1>2. /\ MasterTypeOK /\ StalenessInv /\ OriginInv
        /\ [MasterNext]_<<vars, masterVars>>
        => OriginInv'
    BY OriginStep DEF StalenessInv
  <1>3. MasterSpec => []StalenessInv
    BY MasterKeyImplementsCache, Invariance, PTL
  <1> QED
    BY MasterStart, MasterTypeCorrect, <1>1, <1>2, <1>3, PTL DEF MasterSpec

=============================================================================
