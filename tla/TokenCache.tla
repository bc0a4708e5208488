----------------------------- MODULE TokenCache -----------------------------
(***************************************************************************)
(* reconstruct_internal_api_key and reconstruct_maas_token of              *)
(* core/proxy/middleware.py: the in-memory cache in front of one sharded   *)
(* secret, and for the MaaS token the shards of the environment behind it. *)
(*                                                                         *)
(* Every caller (Bearer authentication, the proxy route, GET               *)
(* /admin/master-key, the pre-warming of lifespan) runs the same coroutine *)
(* for itself: concurrent misses load concurrently, and each writes the    *)
(* cache when its own worker thread is done.                               *)
(*                                                                         *)
(* The sharded storage appears as the register it implements (the property *)
(* ImplementsRegister of ShardStorage).                                    *)
(***************************************************************************)
EXTENDS SecretRegister, Integers

CONSTANTS CacheTtl,    \* _TOKEN_CACHE_SECONDS
          MaxMiss,     \* bound on the time a miss takes, loading included
          EnvShards,   \* whether there are shards in the environment to fall
                       \* back to: FALSE for the internal API key
          EnvSecret,   \* the secret they hold
          EnvWindowEnd,\* the last tick of the window they were split in
          EmptySecrets,\* the secrets that are the empty string (a MaaS token of
                       \* whitespace comes back as one)
          MaxTime      \* bound on the clock

ASSUME CacheAssumption ==
    /\ CacheTtl \in Nat
    /\ MaxMiss \in Nat
    /\ EnvShards \in BOOLEAN
    /\ EnvSecret \notin Stores \cup {Absent}
    /\ EnvWindowEnd \in Nat
    /\ EmptySecrets \subseteq Stores \cup {EnvSecret}
    /\ MaxTime \in Nat

VARIABLES now,       \* the clock
          cache,     \* the cached secret and its _cache_time
          request,   \* the calls; each owns the load of its name
          replaced   \* history: when each store's secret went out of force

cacheVars == <<now, cache, request, replaced>>
vars == <<registerVars, cacheVars>>

Never == -1
EmptyCache == [secret |-> Absent, time |-> 0]
IdleRequest == [state |-> "idle", secret |-> Absent, began |-> 0, ended |-> 0]

Init ==
    /\ RegisterInit
    /\ now = 0
    /\ cache = EmptyCache
    /\ request = [l \in Loads |-> IdleRequest]
    /\ replaced = [s \in Stores |-> Never]

-----------------------------------------------------------------------------
(* A call *)

\* Mutated form: the age of the entry is not looked at.
FreshForever == cache.secret # Absent

\* The test at the head of both functions; an empty secret is no better than none.
Fresh == cache.secret \notin {Absent} \cup EmptySecrets /\ now - cache.time < CacheTtl

Hit(l) ==
    /\ request[l].state = "idle"
    /\ Fresh
    /\ request' = [request EXCEPT ![l] = [state |-> "returned", secret |-> cache.secret,
                                          began |-> now, ended |-> now]]
    /\ UNCHANGED <<registerVars, now, cache, replaced>>

Miss(l) ==
    /\ request[l].state = "idle"
    /\ ~Fresh
    /\ Start(l)
    /\ request' = [request EXCEPT ![l].state = "loading", ![l].began = now]
    /\ UNCHANGED <<now, cache, replaced>>

\* The awaits of a miss: the GETs and the worker thread.
Load(l) ==
    /\ See(l) \/ Return(l) \/ Reject(l) \/ Fail({l})
    /\ UNCHANGED cacheVars

End(l, state, secret) ==
    request' = [request EXCEPT ![l].state = state, ![l].secret = secret,
                               ![l].ended = now]

\* Mutated form: the time the entry expires in the place of its own.
RememberExpiry(secret) == cache' = [secret |-> secret, time |-> now + CacheTtl]

\* The coroutine resumes with the secret and overwrites the cache, whatever
\* has been stored or cached since it read the shards.
Remember(secret) == cache' = [secret |-> secret, time |-> now]

Deliver(l) ==
    /\ request[l].state = "loading"
    /\ phase[l] = "returned"
    /\ Remember(result[l])
    /\ End(l, "returned", result[l])
    /\ UNCHANGED <<registerVars, now, replaced>>

\* The shards of the environment open as long as the window they were split in
\* lasts.
EnvOpens == EnvShards /\ now <= EnvWindowEnd

\* Redis raised or held no complete set: the shards of the environment are used.
FallBack(l) ==
    /\ request[l].state = "loading"
    /\ phase[l] = "failed"
    /\ EnvOpens
    /\ Remember(EnvSecret)
    /\ End(l, "returned", EnvSecret)
    /\ UNCHANGED <<registerVars, now, replaced>>

\* The shards found do not open, or none are found: the caller gets
\* SHARD_RECONSTRUCTION_FAILED and the cache stays as it is.
Raise(l) ==
    /\ request[l].state = "loading"
    /\ phase[l] = "unreadable" \/ (phase[l] = "failed" /\ ~EnvOpens)
    /\ End(l, "failed", Absent)
    /\ UNCHANGED <<registerVars, now, cache, replaced>>

-----------------------------------------------------------------------------
(* The surroundings *)

\* POST /admin/init: nothing in it touches the cache.
StoreSecret(s) ==
    /\ Write(s)
    /\ replaced' = [t \in Stores |-> IF t = value THEN now ELSE replaced[t]]
    /\ UNCHANGED <<now, cache, request>>

InFlight == {l \in Loads : request[l].state = "loading"}

\* A new process starts with an empty cache.
ProcessRestart ==
    /\ Fail({l \in Loads : phase[l] \in {"reading", "seen"}})
    /\ cache' = EmptyCache
    /\ request' = [l \in Loads |-> IF l \in InFlight
                                   THEN [request[l] EXCEPT !.state = "failed"]
                                   ELSE request[l]]
    /\ UNCHANGED <<now, replaced>>

Tick ==
    /\ now < MaxTime
    /\ \A l \in InFlight : now - request[l].began < MaxMiss
    /\ now' = now + 1
    /\ UNCHANGED <<registerVars, cache, request, replaced>>

Next ==
    \/ \E l \in Loads : Hit(l) \/ Miss(l) \/ Load(l) \/ Deliver(l) \/ FallBack(l) \/ Raise(l)
    \/ \E s \in Stores : StoreSecret(s)
    \/ ProcessRestart
    \/ Tick

Spec == Init /\ [][Next]_vars

-----------------------------------------------------------------------------
(* Properties *)

Secrets == Stores \cup {Absent, EnvSecret}

RequestRecord == [state : {"idle", "loading", "returned", "failed"},
                  secret : Secrets, began : 0..MaxTime, ended : 0..MaxTime]

TypeOK ==
    /\ value \in Stores \cup {Absent}
    /\ written \subseteq Stores
    /\ phase \in [Loads -> {"idle", "reading", "seen", "returned", "unreadable", "failed"}]
    /\ seen \in [Loads -> Stores \cup {Absent}]
    /\ result \in [Loads -> Stores \cup {Absent}]
    /\ now \in 0..MaxTime
    /\ cache \in [secret : Secrets, time : 0..MaxTime]
    /\ request \in [Loads -> RequestRecord]
    /\ replaced \in [Stores -> {Never} \cup 0..MaxTime]

InForceSince(s, time) == replaced[s] = Never \/ time <= replaced[s]

\* Nothing tells the cache of a new secret, and a slow miss may put an old one
\* back after it: still, a secret is handed out at most the lifetime of the
\* cache plus the duration of one miss after it was replaced in Redis.
BoundedStaleness ==
    \A l \in Loads :
       request[l].state = "returned" /\ request[l].secret \in Stores =>
          InForceSince(request[l].secret, request[l].ended - (MaxMiss + CacheTtl))

\* A secret of the environment reaches a caller only after a load failed, and
\* through the cache for no longer than its lifetime after that.
EnvOnlyForWant ==
    \A l \in Loads :
       request[l].state = "returned" /\ request[l].secret = EnvSecret =>
          \E m \in Loads : /\ phase[m] = "failed"
                           /\ request[m].state = "returned"
                           /\ request[l].ended - request[m].ended \in 0..CacheTtl

-----------------------------------------------------------------------------
(* The inductive invariant behind BoundedStaleness. *)

\* A secret is replaced once, after it was written.
RegisterInv ==
    /\ value \in Stores => value \in written
    /\ \A s \in Stores : s \notin written \/ s = value => replaced[s] = Never

\* A load brings a secret that was in force when, or after, its call began.
MissInv ==
    \A l \in InFlight :
       /\ request[l].began <= now
       /\ now <= request[l].began + MaxMiss
       /\ phase[l] \in {"seen", "returned"} /\ seen[l] \in Stores =>
             InForceSince(seen[l], request[l].began)
       /\ phase[l] = "returned" => result[l] = seen[l]

CachedInv ==
    /\ cache.time <= now
    /\ cache.secret \in Stores => InForceSince(cache.secret, cache.time - MaxMiss)

EndedInv == \A l \in Loads : request[l].ended <= now

StalenessInv == RegisterInv /\ MissInv /\ CachedInv /\ EndedInv /\ BoundedStaleness

\* What puts the environment's secret in the cache, or hands it out.
FellBack(m) == phase[m] = "failed" /\ request[m].state = "returned"

EnvInv ==
    /\ cache.secret = EnvSecret =>
          \E m \in Loads : FellBack(m) /\ request[m].ended = cache.time
    /\ EnvOnlyForWant

=============================================================================
