----------------------------- MODULE MasterKey -----------------------------
(***************************************************************************)
(* The life of a master key: POST /admin/init generates an internal API    *)
(* key, stores it and the MaaS token one after the other and answers the   *)
(* master key derived from it; Bearer requests present master keys, GET    *)
(* /admin/master-key asks for the one in force, and both go through the    *)
(* cache of the internal API key (api/routes/admin.py, simple_auth.py,     *)
(* master_key.py).                                                         *)
(*                                                                         *)
(* This is TokenCache for the internal API key, every store of which is    *)
(* now a part of an init and every call of which has a verdict.  Keys are  *)
(* derived by HMAC-SHA256, so a store also names the master key derived    *)
(* from its internal API key.                                              *)
(***************************************************************************)
EXTENDS TokenCache

ASSUME NoEnvironment == ~EnvShards   \* the environment holds no internal API key

VARIABLES init,       \* the calls of POST /admin/init, named by their store
          token,      \* the init whose MaaS token is in Redis
          presented,  \* the Bearer token of each call; Absent for a GET
          since,      \* history: when the key in Redis was stored
          last,       \* history: the init that began last
          alone       \* history: the inits that began while no other was running

masterVars == <<init, token, presented, since, last, alone>>

MasterInit ==
    /\ Init
    /\ init = [s \in Stores |-> "idle"]
    /\ token = Absent
    /\ presented = [l \in Loads |-> Absent]
    /\ since = 0
    /\ last = Absent
    /\ alone = {}

-----------------------------------------------------------------------------
(* POST /admin/init *)

Running == {s \in Stores : init[s] \in {"storing_key", "storing_token", "stored"}}

\* The internal API key is generated and split before the first await.  Without
\* storage, or the admin key, the call is refused and changes nothing.
BeginInit(s) ==
    /\ init[s] = "idle"
    /\ init' = [init EXCEPT ![s] = "storing_key"]
    /\ last' = s
    /\ alone' = IF Running = {} THEN alone \cup {s} ELSE alone
    /\ UNCHANGED <<vars, token, presented, since>>

\* store_internal_key_shards: the key comes into force at one of its SETs.
StoreKey(s) ==
    /\ init[s] = "storing_key"
    /\ StoreSecret(s)
    /\ since' = now
    /\ init' = [init EXCEPT ![s] = "storing_token"]
    /\ UNCHANGED <<token, presented, last, alone>>

\* store_maas_token_shards, once the key is stored.
StoreToken(s) ==
    /\ init[s] = "storing_token"
    /\ token' = s
    /\ init' = [init EXCEPT ![s] = "stored"]
    /\ UNCHANGED <<vars, presented, since, last, alone>>

\* Mutated form: an exception of the token's store is logged and passed over.
TellUnstored(s) ==
    /\ init[s] \in {"storing_token", "stored"}
    /\ init' = [init EXCEPT ![s] = "told"]
    /\ UNCHANGED <<vars, token, presented, since, last, alone>>

\* The answer with the master key.
TellKey(s) ==
    /\ init[s] = "stored"
    /\ init' = [init EXCEPT ![s] = "told"]
    /\ UNCHANGED <<vars, token, presented, since, last, alone>>

\* Splitting or a SET raises, before or after the secret came into force; what
\* is stored stays, and the answer holds no key.
FailInit(s) ==
    /\ s \in Running
    /\ init' = [init EXCEPT ![s] = "failed"]
    /\ UNCHANGED <<vars, token, presented, since, last, alone>>

InitStep(s) == \/ BeginInit(s) \/ StoreKey(s) \/ StoreToken(s) \/ TellKey(s) \/ FailInit(s)

-----------------------------------------------------------------------------
(* Bearer requests and GET /admin/master-key *)

\* validate_simple_auth: the key derived from the internal API key is compared
\* with the one presented.
Accepted(l) == request[l].state = "returned" /\ request[l].secret = presented[l]

\* The 401 of a key that does not match.  That of a key that could not be looked
\* at is a request that ends "failed".
RefusedAsInvalid(l) == /\ request[l].state = "returned"
                       /\ presented[l] \notin {Absent, request[l].secret}

\* The key GET /admin/master-key derives.
AnswersKey(l, s) == /\ request[l].state = "returned"
                    /\ presented[l] = Absent
                    /\ request[l].secret = s

\* What a client may present: a key an init told or a GET answered.
Presentable == {s \in Stores : \/ init[s] = "told"
                               \/ \E l \in Loads : AnswersKey(l, s)}

\* Both begin with reconstruct_internal_api_key.
Ask(l, key) ==
    /\ Hit(l) \/ Miss(l)
    /\ presented' = [presented EXCEPT ![l] = key]
    /\ UNCHANGED <<init, token, since, last, alone>>

\* A process that started without Redis has no storage: its loads fail.
CallStep(l) ==
    /\ Load(l) \/ Deliver(l) \/ Raise(l)
    /\ UNCHANGED masterVars

-----------------------------------------------------------------------------
RestartProxy ==
    /\ ProcessRestart
    /\ init' = [s \in Stores |-> IF s \in Running THEN "failed" ELSE init[s]]
    /\ UNCHANGED <<token, presented, since, last, alone>>

MasterNext ==
    \/ \E s \in Stores : InitStep(s)
    \/ \E l \in Loads : \/ \E key \in Presentable \cup {Absent} : Ask(l, key)
                        \/ CallStep(l)
    \/ RestartProxy
    \/ Tick /\ UNCHANGED masterVars

MasterSpec == MasterInit /\ [][MasterNext]_<<vars, masterVars>>

-----------------------------------------------------------------------------
(* Properties *)

MasterTypeOK ==
    /\ TypeOK
    /\ init \in [Stores -> {"idle", "storing_key", "storing_token",
                            "stored", "told", "failed"}]
    /\ token \in Stores \cup {Absent}
    /\ presented \in [Loads -> Stores \cup {Absent}]
    /\ since \in 0..MaxTime
    /\ last \in Stores \cup {Absent}
    /\ alone \subseteq Stores

\* An init that no other overlaps: the MaaS token it brings is never in place
\* without the key it brings, wherever it fails, and once it has told its key
\* both are in place until another init begins.
KeyBeforeToken ==
    last \in alone => /\ token = last => value = last
                      /\ init[last] = "told" => token = last

\* One lifetime of the cache and one miss after a key was stored, a call that gets
\* a key from the cache or from Redis judges by that one: it is accepted, every
\* other is refused, and what GET answers is it, though its init may have failed
\* and told it to nobody.  Whatever the calls and restarts before and between; a
\* call that finds no key it can read says nothing of any.
VerdictsFollow ==
    \A l \in Loads :
       request[l].state = "returned" /\ request[l].ended > since + CacheTtl + MaxMiss =>
          /\ Accepted(l) <=> presented[l] = value
          /\ RefusedAsInvalid(l) <=> presented[l] \notin {Absent, value}
          /\ \A s \in Stores : AnswersKey(l, s) => s = value

\* admin.py:215, "System initialized successfully. Use the master_key with Open
\* WebUI.": a key that was told and that no later init replaces is not refused.
ToldKeyWorks ==
    \A l \in Loads :
       /\ value \in Stores /\ init[value] = "told"
       /\ Running = {}
       /\ presented[l] = value
       => ~RefusedAsInvalid(l)

-----------------------------------------------------------------------------
(* The inductive invariants. *)

\* Where an init stands, what it has stored is in place, if it runs alone.
OrderInv ==
    /\ \A s \in Stores : init[s] = "idle" => s \notin alone /\ s # token
    /\ last \in alone =>
          /\ Running \subseteq {last}
          /\ init[last] \in {"storing_token", "stored", "told"} => value = last
          /\ init[last] \in {"stored", "told"} => token = last
          /\ init[last] = "storing_key" => token # last
          /\ token = last => value = last

\* Every secret at hand was stored, and all but the one in force had been
\* replaced when that one was stored.
OriginInv ==
    /\ since <= now
    /\ cache.secret \in written \cup {Absent}
    /\ \A l \in Loads :
          /\ seen[l] \in written \cup {Absent}
          /\ phase[l] = "returned" => result[l] \in written
          /\ request[l].state = "returned" => request[l].secret \in written
    /\ \A s \in written \ {value} : replaced[s] # Never /\ replaced[s] <= since

=============================================================================
