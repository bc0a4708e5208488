# Anorak in TLA+

Anorak is a proxy between LLM clients and an upstream API. Clients prove who
they are with an HMAC challenge–response or with a Bearer key derived from an
internal key; the proxy keeps that internal key and the upstream ("MaaS") token
only as encrypted Shamir shards in Redis, puts them together in memory when they
are needed, and forwards requests with the token.

This directory holds TLA+ modules of that code, TLC runs that check them on
small instances, and TLAPS proofs of the main results for every value of the
constants. `PROJECT.json` maps each definition to the lines it models and lists
the runs, the mutants that show each property can fail, the findings, the
hazards and the theorems.

    tlc -config handshake_replay.cfg MCHandshake     # any cfg, with its module
    tlapm HandshakeProofs.tla                        # any *Proofs module

## 1. The system

| component | state | operations | talks to |
|---|---|---|---|
| HMAC handshake (`core/crypto/handshake.py`, `api/routes/health.py`, `_validate_handshake`) | `anorak:challenge:*` keys in Redis; nothing in the process | issue a challenge; check expiry, replay, HMAC; mark it used | Redis (EXISTS, SETEX), clock |
| Sharded storage (`core/crypto/redis_storage.py`, `split_and_encrypt_token`, `reconstruct_token_from_env`) | six keys per secret in Redis | store (six SETs), load (five GETs), reconstruct in a worker thread | Redis, clock |
| Secret sharing (`core/crypto/shard.py`) | none | split, combine | `shamirs` |
| Token cache (`reconstruct_internal_api_key`, `reconstruct_maas_token`) | one secret and its time, per secret, in the process | return cached, or load, reconstruct and cache; fall back to the environment | sharded storage, thread pool |
| Gateway (`main.py`, `AnorakProxyMiddleware`, `simple_auth.py`, `api/routes/proxy.py`, `passthrough.py`, `streaming.py`) | globals set by `lifespan`, an HTTP client | authenticate, count, forward, stream | all of the above, upstream |
| Admin API (`api/routes/admin.py`) | none | initialise both secrets, derive the master key | sharded storage, token cache |
| Metrics (`utils/metrics.py`) | counters in Redis | increment, read | Redis |
| Configuration, errors, logging, `master_key.py`, `encryption.py`, `scripts/init_shards.py` | none | pure functions | – |

Everything runs on one asyncio event loop: code between two `await`s is atomic,
anything may happen at an `await`. Redis commands are atomic one by one; nothing
in the code groups them. Reconstruction runs in the default thread pool.

**What is hard.** (1) The handshake decides on expiry and on replay before two
awaits and acts after them. (2) A store is six commands, a load is five; both
interleave with each other, fail half-way and die with the process. (3) The
third shard can be opened only in the time window in which it was sealed. (4)
The cache is filled by concurrent misses and is not told of new secrets. (5)
Tokens travel through integers and through a fixed number of shards, and settings
may change between a split and a read. (6) An initialisation stores two secrets
one after the other, and either may fail. (7) An upstream error may come after
the answer to the client has begun, a failed counter may refuse a request whose
challenge is already used up, and streams share a pool of connections with
everybody else. The list with lines is `hazards` in `PROJECT.json`.

**What correct means.** A challenge cannot be used again once it is marked, nor
be used late, nor be refused early (handshake). A secret that is read is one that
was stored, whole (storage). What is handed out is not older than the lifetime
of the cache allows, and the fallback serves only in need (cache). What is split
comes back, and less than the threshold of shards tells nothing (sharing). Which
master key is accepted follows what was stored, and a MaaS token is never in
place without the key that came with it (administration). No replay is forwarded,
an answer tells what happened, and every request is answered (gateway).

## 2. The modules

    SecretRegister          what the storage promises: an atomic register
      ^ implemented by             ^ extended by
    ShardStorage            TokenCache               Handshake            Shamir
    ShardStorageProofs      TokenCacheProofs         HandshakeProofs      ShamirProofs
    MCShardStorage          MCTokenCache             MCHandshake          MCShamir
                                   ^ extended by          ^ extended by
                            MasterKey                Gateway
                            MasterKeyProofs          GatewayProofs
                            MCMasterKey              MCGateway

Shamir extends Arithmetic (sums, products, powers). ShamirProofs extends
SharingProofs (polynomials modulo a prime), which extends ArithmeticProofs
(induction, sums, congruence, inverses); neither of these knows of tokens.

TokenCache does not repeat the storage: it extends the register, and
`ShardStorage!ImplementsRegister` is what entitles it to. MasterKey and Gateway
are compositions: each step of theirs is a step of the module they extend, with
what happens around it, or leaves that module's variables alone. That they
implement TokenCache and Handshake is proved (`MasterKeyImplementsCache`,
`GatewayImplementsHandshake`), so what is known of the parts holds of the whole.

### Handshake

A request is one call of `_validate_handshake`. Its `state` is where it is
suspended or how it ended; `challenge`, `genuine` (whether X-Response is the
HMAC of the challenge), `presented` (the clock at the expiry check), `sent` (the
clock when the Redis call it waits for was sent) and `marked` (whether its SETEX
took effect) are what it carries; the last three are history.

| code | action |
|---|---|
| `GET /health/challenge`, `generate_challenge` | `GenerateChallenge` |
| headers missing; malformed timestamp (expired, or an uncaught exception) | `MissingHeaders`, `Malformed` |
| `validate_full_handshake` up to EXISTS: expired / fresh / no Redis client | `PresentExpired`, `PresentFresh`, `PresentUnchecked` |
| EXISTS answers: used / HMAC wrong (`Mismatch`: refused, or a TypeError) / send SETEX | `RefuseReplay`, `RefuseHmac`, `PassReplayCheck` |
| SETEX takes effect; its reply comes or is lost | `MarkChallengeUsed(r, "accepted")`, `(r, "error")` |
| a Redis call raises | `RedisFails` |
| the proxy dies and `lifespan` runs again | `ProcessRestart` |
| Redis restarts without some keys; time | `RedisRestart`, `Tick` |

Times are ticks, `Second` ticks to a second, because `int(now.timestamp())`
drops a fraction that `expires_at` keeps. `UtcOffset` is there because
`utcnow().timestamp()` reads a UTC time as local time: the deadline in effect is
`Deadline(c)`, the told one moved by that offset. `redisClient` is FALSE
when PING failed at startup: the code then goes on without replay protection.

Assumed: challenges are those the route issued; the proxy and Redis read one
clock; a Redis call is answered within `MaxLatency` (the code sets no limit;
this is a bound of the model, and the condition of one theorem).

### ShardStorage and SecretRegister

Six keys hold the name of the store whose material they are. `SetKey` is one SET
of a store, `GetKey`/`GetLastKey` one GET of a load, `StoreFails`/`LoadFails`
a command that raises, `ProcessRestart` the death of all that runs.
`Opens` is what the three Fernet decryptions need: shards 1 and 2 under the key
they were sealed with, shard 3 under the same master secret and window id.
`Combines` is what interpolation needs; shares of different polynomials give a
number of the size of the modulus (2^19937 − 1), which `to_bytes` refuses.
`last` (the store that began last), `alone` (the stores that began while no
other was running) and `calm` (loads that began after a success and met no
store) are history.

In SecretRegister a store writes at one instant, a load sees at one instant, and
ends with what it saw, in a failure, or with a secret it cannot open. The
refinement maps the write to the SET of the encryption key and the reading to
the GET of it: shards that open with a key are that key's store's.

### TokenCache

A call is one run of `reconstruct_internal_api_key` (`EnvShards` FALSE) or
`reconstruct_maas_token` (`EnvShards` TRUE when the environment has shards). It
is a `Hit`, or a `Miss` whose awaits are the steps of the register's load and
which ends in `Deliver`, `FallBack` or `Raise`. Hits and misses of different
calls interleave freely: the code takes no lock, so several misses load at once
and each overwrites the cache (`Remember`). `StoreSecret` is `POST /admin/init`,
which leaves the cache alone. The cached secret is tested for truth, so an empty
one (`EmptySecrets`) is loaded again by every call. `replaced` is history. `MaxMiss` bounds the time
from the cache test of a miss to its end; the code sets no limit (the
reconstruction takes 20–30 seconds by ARCHITECTURE.md:108), and the theorem
states staleness in terms of it. Other pods have caches of their own: a pod is
one instance of this module over the same register.

### MasterKey

TokenCache for the internal API key, whose stores are now part of
`POST /admin/init` and whose calls are Bearer requests and
`GET /admin/master-key`. A store names the key it stores and the master key
derived from it.

| code | action |
|---|---|
| `initialize_system` up to its first await | `BeginInit` |
| `store_internal_key_shards`, `store_maas_token_shards` | `StoreKey`, `StoreToken` |
| the answer with the master key; `except Exception` at any point | `TellKey`, `FailInit` |
| `Authorization: Bearer`, `get_master_key` up to the cache | `Ask` |
| the rest of `reconstruct_internal_api_key` | `CallStep` |
| the process dies between any two of them | `RestartProxy` |

`presented` is the key a call presents (any that was told or answered before);
the verdicts `Accepted` and `RefusedAsInvalid` follow from it and the secret the
call ends with. `token`, the MaaS token in Redis, is a register of one write per
store, because its readers do not matter here.

### Gateway

Handshake with the way of a request around it. `stage` is the await a request is
suspended at: `handshake` (EXISTS or SETEX), `master_key`
(`reconstruct_internal_api_key`), `recording` (INCR of a failure counter),
`counting` (INCR of `request_count`), `maas_token`, `body` (the client has not sent
all of its request), `pool` (httpx has no free connection), `response`. It ends `done` (the response is complete) or `broken`
(the connection ends before it is). `status` is the status line the client has
received, `upstream` what the upstream has done with the request: `untouched`,
`asked` (whether it saw or did anything is unknown) or `answered`.

| code | action |
|---|---|
| `dispatch`, `_validate_auth` up to the first await | `ArriveHmac`, `ArriveBearer` |
| the handshake; its exceptions, which nobody catches | `HandshakeStep`, `HandshakeFails` |
| `validate_simple_auth`; any exception becomes a 401 | `MasterKeyAccepted`, `MasterKeyRefused` |
| `record_handshake_failure`, `increment_request_count` | `RecordFailure`, `CountRequest`, `CountFails` |
| `reconstruct_maas_token` | `TokenReady`, `TokenFails` |
| `request.body()` ends, a `StreamingResponse` begins at once; httpx cannot build the request | `BodyArrives`, `BuildFails` |
| `AsyncClient.request` / `.stream` | `Connect`, `PoolTimeout`, `UpstreamFails` |
| the upstream's answer, whole, as one that cannot be passed on, or as a stream | `UpstreamAnswers`, `ResponseFails`, `StreamEnds` |
| the client goes away; the process dies | `ClientLeaves`, `RestartProxy` |

What the two reconstruct functions answer is left open: any result at any time,
which contains what MasterKey and TokenCache say of them. Redis keeps its keys in
this module (Handshake has the run in which it does not). A connection is one of
`PoolLimit`; the client is built with the default limits and a timeout of 300 s
that covers the wait for a connection. `earlier` (whose challenges were already
marked in Redis when a request came in) is history.

### Shamir

A token is a byte sequence over an alphabet with a NUL (0) and a whitespace
(`Space`). It is split with any polynomial over the prime field and put together
from any choice of the shards in any order, or through the three-shard storage
(`KeepThree`, `ReconstructFromEnv`), whose settings may have changed since
(`Reconfigure`). `InitShards` is `scripts/init_shards.py`, which deals three of
three whatever its `--threshold` and the settings say. Shards of the old format
carry no length. A number too large for the length raises (`Overflows`); `dealt`,
the threshold of the split, is history. The `shamirs` library is modelled by its
mathematics (`Evaluate`, `Interpolate`) and is external.

Bytes, sums and powers are recursive functions, so that they can be reasoned
about. `ReferenceDefinitions` in MCShamir compares them with the operators of the
libraries.

## 3. The runs

| run | question | instance |
|---|---|---|
| `handshake_replay` | Do the expiry and replay checks hold across the awaits? | 3 requests, 1 challenge, half-second ticks, timeout and buffer of 1 s, latency up to 1 s, 7 ticks |
| `handshake_degraded` | What is left without a reliable Redis, and is every request answered? | 2 requests, a host behind UTC, Redis up or down at startup, restarting without its keys |
| `handshake_usable_once` | *violated*: is a challenge usable exactly once? | 3 requests, 1 challenge |
| `storage` | Do the keys behave as one atomic register, does a success that nothing overlaps repair what failed, and is it readable? | 2 stores, overlapping or not, 1 load, threshold 2, windows of 1 tick, 2 windows |
| `storage_concurrent_inits` | *violated*: when all stores succeed, are the keys those of one of them? | 2 stores |
| `storage_rollover` | *violated*: does the secret stay readable without care? | 1 store, 1 load, 2 windows |
| `token_cache` | How stale can a secret be, when may it be the environment's? | 3 calls, 2 stores, one of an empty token, lifetime 2, miss 1, 5 ticks |
| `shamir_sharing` | Does a token come back, can what was kept be read, and does it hide below the threshold? | field of 11, tokens up to 2 bytes of 3, up to 4 shards |
| `shamir_configuration` | *violated*: is every accepted configuration usable? | field of 5, up to 4 shards |
| `master_key` | Which keys are accepted after initialisations that succeed, fail or overlap? | 2 inits, 2 calls, lifetime 1, miss 1, 4 ticks |
| `master_key_told` | *violated*: does a key that was just told work? | the same, 5 ticks |
| `gateway` | Is a replay ever forwarded, do answers and counter tell the truth, is everybody answered? | 2 requests, 1 challenge, 1 connection, timeout, buffer and latency of 1 tick, 4 ticks, Redis up or down at each start |

**Why these bounds are enough.** Replay needs a request that marks a challenge,
one that slips past it and one that comes later: three requests on one
challenge; challenges share no state, so one is as good as many. The clock runs
past the timeout, the buffer and the latency added up, so keys expire while
requests that could ask for them still wait. The equality of latency and
buffer is the edge of the theorem's condition. Two stores and one load are all a
torn read needs; loads do not disturb each other, and the second store also
repairs a first that failed half-way. Threshold 2 is the weaker case: fewer shards have to
agree. In the cache, three calls are a slow miss, a fast one and the hit that
returns what the slow one left; the store of an empty token is the one secret
that is never a hit. With two inits and two calls a miss that began
before an init can put the old key back after it, and its answer be presented by
another call. In the gateway one request is the first use of the challenge or the
stream that holds the only connection, the other the replay or the one that
waits; four ticks let the key of the challenge expire. Nine tokens of full length
and three thresholds cover the leading NUL, the whitespace, the empty token and
both shard formats. Everything but the two liveness properties is also proved for
every size.

**Deadlock** checking is off: every process of these models ends (a request is
answered, a load returns, the clock stops at `MaxTime`), so the models do stop.
What must not stop is stated as liveness: `WaitingIsAnswered`,
`RequestIsAnswered`.

**Fairness.** `FairSpec` assumes weak fairness of `RedisAnswers(r)`: a Redis that
is asked answers, and the event loop resumes a coroutine whose await is over.
Nothing else is assumed; requests need not come, Redis may fail, time may stop.
`FairGatewaySpec` assumes weak fairness of `Progress(r)`: beyond the above, that a
reconstruction ends (the thread pool runs it), that httpx's timeout of 300 s
ends the wait for a connection, and that an upstream asked without a stream
answers or falls silent, which is a timeout too. It assumes nothing of clients:
not that one sends its body to the end (`BodyArrives`, `BuildFails` and
`ClientLeaves` are outside `Progress`), nor that a stream ends or its client reads
or leaves. So `RequestIsAnswered` lets a request wait at `body` for as long as its
own client wishes, and claims that nobody else waits for it: a request there holds
no connection, and with every connection held forever by streams the wait for one
is limited. An upstream
that sends a byte every few minutes without end is outside this assumption.

**What the violated runs show** is in `findings`: two concurrent requests are
accepted with one challenge; overlapping initialisations leave an unreadable
mixture behind two successes; a secret becomes unreadable at the end of the
window in which it was split; configurations that `ShardManager` accepts break
the three-shard storage around it; and a master key that was just told is refused
while the cache holds its predecessor.

**Seen while modelling, without a run of their own.**
- `handshake.py:52` reads a UTC time as local time. On a host behind UTC a
  challenge is accepted for longer than the `expires_at` told with it, by exactly
  the offset; ahead of UTC it expires as much earlier, and by more than the timeout
  every challenge is born expired. `AcceptedNearExpiry` and `RefusedNearExpiry`
  take the deadline with its offset (`Deadline`), so they hold in every time zone.
- `shard.py:263` splits in windows of 24 hours, `shard.py:332` reads in windows of
  `SHARD_3_TIME_WINDOW_HOURS`. With any other setting the window ids differ and
  even a new secret does not open, although `src/README.md:64` calls the length
  configurable. `QuietLoadReads` speaks of coinciding window ids only.
- Two exceptions of the handshake are caught by nobody and answered 500 instead of
  401: a timestamp that is no date (`handshake.py:106`) and an X-Response that is
  not ASCII (`handshake.py:91`).
- A 500 does not mean that the upstream has not seen the request: building the
  response may raise after it has answered (`passthrough.py:102`), which
  `ResponseTells` has to allow. Only a refusal means it.
- A stream is answered 200 whatever the upstream's status: its error is the body
  of a success (`passthrough.py:176-184`). `upstream` does not record that status:
  `ResponseTells` claims for a stream only that the answer is complete.
- A compressed upstream answer is decoded and sent with the Content-Encoding and
  Content-Length of the compressed one, so the response cannot be completed
  (`UpstreamAnswers(r, TRUE)`).
- `validate_simple_auth` answers 500 when there is no internal key; `_validate_auth`
  turns that and every other exception into a 401.
- `init_shards.py` prints a threshold it does not use.
- "Wipes token from memory" (`proxy.py:35`) rebinds a local name; the cache keeps
  the token.
- The caches are warmed once at startup and expire after five minutes, after
  which a request pays for the reconstruction again.

## 4. The proofs

All of these hold for any number of requests, stores, loads and calls, any times,
primes, alphabets, lengths and numbers of shards that satisfy the ASSUMEs of the
modules.

| theorem | says | under |
|---|---|---|
| `HandshakeProofs!TypeCorrect` | types | – |
| `HandshakeProofs!ReplayPrevention` | a marked challenge passes no later replay check | `UtcOffset >= 0`, Redis keeps its keys, `MaxLatency <= Buffer` |
| `HandshakeProofs!AcceptanceInTime` | acceptance is decided before `expires_at` and effective within two round trips of it, but for the offset of local time | – |
| `HandshakeProofs!ReplayIsReuse` | "replay" is said only of a challenge whose right response was used | – |
| `HandshakeProofs!Invariance` | the inductive invariant `HandshakeInv` | – (its `MarkInv`: as ReplayPrevention, without the latency) |
| `HandshakeProofs!RefusalInTime` | "expired" is said at most a second early, but for the offset of local time | – |
| `ShardStorageProofs!TypeCorrect` | types; loops stay within the keys | – |
| `ShardStorageProofs!Refinement` | the six keys implement SecretRegister | – |
| `ShardStorageProofs!WholeAfterSuccess` | after a success all keys are that store's | that store overlapped no other |
| `ShardStorageProofs!QuietLoads` | an undisturbed load in the window of the split reads the secret | `Threshold <= 3` |
| `TokenCacheProofs!TypeCorrect` | types | – |
| `TokenCacheProofs!Invariance` | the inductive invariant `StalenessInv` | – |
| `TokenCacheProofs!Staleness` | nothing is handed out later than one lifetime plus one miss after it was replaced | – |
| `TokenCacheProofs!EnvironmentAsLastResort` | the environment's secret comes only from a failed load, at most a lifetime old | – |
| `MasterKeyProofs!MasterKeyImplementsCache` | refinement: MasterKey implements TokenCache | the environment holds no internal key |
| `MasterKeyProofs!MasterTypeCorrect` | types | the same |
| `MasterKeyProofs!KeyThenToken` | a MaaS token is not in place without its key | the init overlapped no other |
| `MasterKeyProofs!Verdicts` | a lifetime and a miss after a key was stored, verdicts follow it | – |
| `GatewayProofs!GatewayImplementsHandshake` | refinement: Gateway implements Handshake | – |
| `GatewayProofs!GatewayTypeCorrect` | types, and the counter never passes the requests | finitely many requests |
| `GatewayProofs!AnswersTell` | no complete answer rules out what the upstream did | – |
| `GatewayProofs!ReplaysStay` | a replay does not reach the upstream | as ReplayPrevention |
| `GatewayProofs!Counting` | the counter follows the requests | finitely many requests |
| `ShamirProofs!TypeCorrect` | types: shards of the field, bytes come back | – |
| `ShamirProofs!Invariant` | the inductive invariant `Inv` | – |
| `ShamirProofs!RoundTripCorrect` | what was split comes back | the threshold is not below that of the split |
| `ShamirProofs!KeptRebuildsCorrect` | what was kept can be put together | the threshold lies between that of the split and the number of shards kept |
| `ShamirProofs!Secrecy` | one shard short of the threshold tells nothing but the length | – |

*Replay.* `MarkedStaysRefused` is about one step, and its reason is spread over
time: the first request checked its expiry before its awaits, and so did the
second. `HandshakeInv` remembers what they knew. `CheckedInv`: a suspended
request was presented before its challenge expired. `LatencyInv`: it has waited
at most `MaxLatency` since. `IssueInv`: with `UtcOffset >= 0` a timestamp is never in
the future.
`MarkInv`: the key of a used challenge lives at least `Buffer` longer than the
challenge. So a request at EXISTS with a marked challenge is there before the key
expires. Without `UtcOffset >= 0` timestamps lie in the future and `MarkInv`
fails; without `MaxLatency <= Buffer` the last step does.

*Replay means reuse.* `UseInv`: behind each key stands a finished request that
marked it, which needs `MarksLast`: only right responses get to SETEX.

*Expiry.* `IssuedRecently`: a timestamp is less than a second behind the clock it
was taken from, so what is compared with it and what was told differ by as much.

*Refinement.* `LoopInv` says where the loops are and that a load that executes
has an encryption key. One lemma per kind of step maps it to a step or a
stutter of the register.

*Wholeness.* `WholeInv`: the keys a store that runs alone has passed are its own;
it is `alone` and last, so no other undoes them. `CalmInv` carries the same to
what an undisturbed load has read.

*Staleness.* `StalenessInv` follows a secret: a load brings one in force when, or
after, its call began (`MissInv`); the cached one was in force at most `MaxMiss`
before it was cached (`CachedInv`). `EnvInv` does the same for the fallback: a
cached secret of the environment has a failed load of its age.

*Keys.* `OrderInv` says what of an init that runs alone is in place at each of its
stages. `OriginInv`: every secret at hand was stored, and all but the one in
force had been replaced by the time that one was stored; so Staleness, applied
to an answer late enough, leaves only the one in force.

*Gateway.* `StageInv` ties the stage of a request to the state of its handshake
and to what client and upstream have seen. `EarlierInv`: a request that came in
after its challenge was marked never gets beyond EXISTS, by the lemma behind
ReplayPrevention (`PassesUnmarked`), and the mark it met stays. For the counter,
`RedisInv` (whoever waits for Redis or has marked a challenge has a Redis) makes
`Through` grow only where the counter does, and `Past` at least there; the rest
is cardinalities.

*Sharing.* ShamirProofs assumes only `ShamirAssumption`: the modulus is a prime
above the number of shards (otherwise two indices coincide) and not below the
number of tokens of the greatest length (otherwise two tokens have one number).
The code's 2^19937 − 1 satisfies both.

The results below are lemmas about polynomials and primes in SharingProofs and
ArithmeticProofs (`Interpolation`, `Vanishing`, `PrimeInverse`); what they say of
the program they say through the theorems of ShamirProofs.

- *Interpolation.* The usual argument, that two polynomials of low degree that
  agree at many points are equal, needs the theory of roots; this one needs
  recursion only. For a set S of points the *moment* m is the sum over S of x^m
  times the Lagrange weight. Adding a point a to S gives (`MomentStep`)
  M(S, m + 1) = a · (M(S, m) − M(S without a, m)), and from it, by induction over
  the size of S, the moment 0 is 1 and the moments 1 to |S| − 1 are 0
  (`Moments`). A polynomial is a combination of powers, so interpolation keeps
  its coefficient 0 and removes the others.
- *Secrecy.* The product of the 1 − y/x over the shards S is a polynomial of
  degree |S| with value 1 at 0 and 0 at every x in S (`Vanishing`). Adding a
  multiple of it to the polynomial drawn changes the secret to any other and
  none of the shards in S (`OtherSecret`), in either direction (`SameViews`).
  With as many random coefficients as S has members the result is one the
  library may draw; with one coefficient less it is not, which is the mutant.
- *Bytes.* A token of length L is a number below Base^L and comes back from it
  (`ToBytesToInt`). The length recomputed from a number is the least that
  holds it, so that it brings back the token less its leading NULs
  (`ToBytesByteLength`). Whitespace may be dropped before or after trimming
  (`StripTrim`).
- *The run of the program.* RoundTrip is not inductive: nothing in it says what
  the shards are. `Inv` adds that the shards in hand are distinct shards of the
  token, or of the trimmed token, by one polynomial of a degree below `dealt` and
  with one length (`DealtShards`), and what each stage has filled in (`Shape`).
  Choosing, reordering and cutting off shards keep it (`Selected`,
  `FirstShards`).

*Induction.* The induction theorems of the library take a predicate as a
parameter, which the provers cannot instantiate. `LeastElement` and `Induction`
of ArithmeticProofs speak of a set instead, and get it from the well-foundedness
of < on the naturals (`WFMin`). `Recursion` then gives the values of recursive
functions, and one lemma for each function of the model turns its CHOOSE into
equations (`PartialSumsDef`, `NumbersDef`, `StrippedDef`).

**Model-checked only.** `WaitingIsAnswered` and `RequestIsAnswered`: liveness
under fairness is out of the prover's reach. `ReferenceDefinitions` compares
with library folds and the built-in power, which the provers do not know.

## 5. What is not modelled

- Challenges a client composes itself, and whether HMAC, Fernet or HKDF can be
  broken: `HmacValid` and `Opens` are the ideal behaviour of those functions.
- Loss of the shard keys of Redis (it would show as "no shards").
- `clear_*_shards`, the metadata getters, `record_rotation`, `derive_time_shard`,
  `wipe_memory`: called by no route, or without effect on state.
- Configuration parsing, logging, the wording of errors.
- The bytes, headers and query of a forwarded request and the status of the
  upstream's answer; redirects, which httpx follows by itself.
- The health route, `GET /admin/shards` and `GET /admin/metrics`: they read.
- Pre-warming: at startup it is one more call of each cache, and TokenCache
  allows calls at any time. Orderly shutdown: it frees what the process loses
  anyway.
- Several pods: each is an instance of TokenCache and Gateway over the same Redis;
  the modules have one.

## 6. Plan

1. `Gateway` over a Redis that loses its keys, with `MasterKey` in the place of
   the open answers, so that a forwarded request is tied to the key it presented
   and to the token it was forwarded with.
2. Two pods over one Redis: what a client that is balanced between them sees after
   an initialisation.
3. Liveness of the caches: after the last initialisation every later call ends
   with its secret, if windows last.
