---------------------------- MODULE ShardStorage ----------------------------
(***************************************************************************)
(* One secret (the internal API key or the MaaS token) split into shards,  *)
(* encrypted, and kept in six Redis keys: core/crypto/shard.py and         *)
(* core/crypto/redis_storage.py.  Both secrets are handled by the same     *)
(* code under different key prefixes.                                      *)
(*                                                                         *)
(* A store splits a new secret and issues six SETs, a load issues five     *)
(* GETs and then reconstructs the secret in a worker thread.  Each Redis   *)
(* command is atomic, nothing groups them.  A key holds the store whose    *)
(* material it is: two keys can be used together when they agree.          *)
(***************************************************************************)
EXTENDS Integers

CONSTANTS Stores,       \* calls of split_and_encrypt_token + store_*_shards
          Loads,        \* calls of load_*_shards + reconstruct_token_from_env
          Absent,       \* what GET returns for a key that is not set
          SplitWindow,  \* length of the window split_and_encrypt_token uses: 24 h
          ReadWindow,   \* SHARD_3_TIME_WINDOW_HOURS
          Threshold,    \* SHARD_THRESHOLD
          MaxTime       \* bound on the clock

ASSUME StorageAssumption ==
    /\ Absent \notin Stores
    /\ SplitWindow \in Nat \ {0}
    /\ ReadWindow \in Nat \ {0}
    /\ Threshold \in Nat /\ Threshold >= 2
    /\ MaxTime \in Nat

VARIABLES now,     \* the clock both windows are computed from
          redis,   \* the six keys of the secret
          store,   \* the stores
          load,    \* the loads
          last,    \* history: the store that began last
          alone,   \* history: the stores that began while no other was running
          calm     \* history: loads of what it left, with no store alongside

vars == <<now, redis, store, load, last, alone, calm>>

\* The keys, in the order in which they are set.
EncryptionKey == 4
MasterSecret == 5
Metadata == 6
Keys == 1..Metadata          \* 1, 2 and 3 are the encrypted shards
LoadedKeys == 1..MasterSecret

Init ==
    /\ now = 0
    /\ redis = [k \in Keys |-> Absent]
    /\ store = [s \in Stores |-> [state |-> "idle", next |-> 1, splitAt |-> 0]]
    /\ load = [l \in Loads |-> [state |-> "idle", next |-> 1, result |-> Absent,
                                got |-> [k \in LoadedKeys |-> Absent]]]
    /\ last = Absent
    /\ alone = {}
    /\ calm = {}

Writing == {s \in Stores : store[s].state = "writing"}

\* Nothing is being stored and the latest attempt reported success.
Settled == /\ Writing = {}
           /\ last # Absent
           /\ store[last].state = "done"

-----------------------------------------------------------------------------
(* Storing *)

\* split_and_encrypt_token: synchronous, it fixes the window of shard 3.
Split(s) ==
    /\ store[s].state = "idle"
    /\ store' = [store EXCEPT ![s].state = "writing", ![s].splitAt = now]
    /\ last' = s
    /\ alone' = IF Writing = {} THEN alone \cup {s} ELSE alone
    /\ calm' = {}
    /\ UNCHANGED <<now, redis, load>>

\* The key the next SET of a store is for.
KeyToSet(s) == store[s].next

\* One SET of store_internal_key_shards / store_maas_token_shards; the last
\* one, of the metadata, ends the store.
SetKey(s) ==
    /\ store[s].state = "writing"
    /\ redis' = [redis EXCEPT ![KeyToSet(s)] = s]
    /\ store' = [store EXCEPT ![s].next = @ + 1,
                              ![s].state = IF store[s].next = Metadata
                                           THEN "done" ELSE "writing"]
    /\ UNCHANGED <<now, load, last, alone, calm>>

\* Mutated form: the exception is logged and success reported.
StoreFailsUnnoticed(s) ==
    /\ store[s].state = "writing"
    /\ store' = [store EXCEPT ![s].state = "done"]
    /\ UNCHANGED <<now, redis, load, last, alone, calm>>

\* A SET raises, or the client goes away: what was set stays set.
StoreFails(s) ==
    /\ store[s].state = "writing"
    /\ store' = [store EXCEPT ![s].state = "failed"]
    /\ UNCHANGED <<now, redis, load, last, alone, calm>>

-----------------------------------------------------------------------------
(* Loading and reconstructing *)

BeginLoad(l) ==
    /\ load[l].state = "idle"
    /\ load' = [load EXCEPT ![l].state = "loading"]
    /\ calm' = IF Settled /\ last \in alone THEN calm \cup {l} ELSE calm
    /\ UNCHANGED <<now, redis, store, last, alone>>

\* Mutated form: the load goes on to ask for the metadata.
GetMetadataToo(l) ==
    /\ load[l].state = "loading"
    /\ load[l].next <= Metadata
    /\ load' = [load EXCEPT ![l].got[load[l].next] = redis[load[l].next],
                            ![l].next = @ + 1]
    /\ UNCHANGED <<now, redis, store, last, alone, calm>>

\* One GET of load_internal_key_shards / load_maas_token_shards.
GetKey(l) ==
    /\ load[l].state = "loading"
    /\ load[l].next < MasterSecret
    /\ load' = [load EXCEPT ![l].got[load[l].next] = redis[load[l].next],
                            ![l].next = @ + 1]
    /\ UNCHANGED <<now, redis, store, last, alone, calm>>

\* The last GET, followed by the test that all five keys were there.
GetLastKey(l) ==
    /\ load[l].state = "loading"
    /\ load[l].next = MasterSecret
    /\ LET got == [load[l].got EXCEPT ![MasterSecret] = redis[MasterSecret]]
       IN  load' = [load EXCEPT ![l].got = got,
                                ![l].next = @ + 1,
                                ![l].state = IF \E k \in LoadedKeys : got[k] = Absent
                                             THEN "missing" ELSE "executing"]
    /\ UNCHANGED <<now, redis, store, last, alone, calm>>

LoadFails(l) ==
    /\ load[l].state = "loading"
    /\ load' = [load EXCEPT ![l].state = "load_failed"]
    /\ UNCHANGED <<now, redis, store, last, alone, calm>>

\* int(now.timestamp() // (hours * 3600))
WindowId(time, length) == time \div length

\* Mutated form: only shard 3 is encrypted.
OpensUnsealed(got) ==
    /\ got[3] = got[MasterSecret]
    /\ WindowId(store[got[3]].splitAt, SplitWindow) = WindowId(now, ReadWindow)

\* Mutated form: the window id is rounded up when it is read.
OpensRoundedUp(got) ==
    /\ got[1] = got[EncryptionKey]
    /\ got[2] = got[EncryptionKey]
    /\ got[3] = got[MasterSecret]
    /\ WindowId(store[got[3]].splitAt, SplitWindow) = WindowId(now, ReadWindow) + 1

\* Fernet opens shards 1 and 2 with the key they were encrypted with, and
\* shard 3 with the key derived from the same master secret and window id.
Opens(got) ==
    /\ got[1] = got[EncryptionKey]
    /\ got[2] = got[EncryptionKey]
    /\ got[3] = got[MasterSecret]
    /\ WindowId(store[got[3]].splitAt, SplitWindow) = WindowId(now, ReadWindow)

\* reconstruct_token interpolates the first Threshold of its three shards.
\* Shares of different polynomials give a number of the order of the modulus,
\* which to_bytes cannot fit into the original length: an exception.
Combines(got) ==
    /\ Threshold <= 3
    /\ \A k \in 1..Threshold : got[k] = got[1]

\* reconstruct_token_from_env, in the thread pool.
Reconstruct(l) ==
    LET got == load[l].got
    IN  /\ load[l].state = "executing"
        /\ Opens(got)
        /\ Combines(got)
        /\ load' = [load EXCEPT ![l].state = "reconstructed", ![l].result = got[1]]
        /\ UNCHANGED <<now, redis, store, last, alone, calm>>

ReconstructFails(l) ==
    /\ load[l].state = "executing"
    /\ ~(Opens(load[l].got) /\ Combines(load[l].got))
    /\ load' = [load EXCEPT ![l].state = "unreadable"]
    /\ UNCHANGED <<now, redis, store, last, alone, calm>>

-----------------------------------------------------------------------------
(* The environment *)

\* The proxy dies in the middle of whatever it was doing.
ProcessRestart ==
    /\ store' = [s \in Stores |-> IF s \in Writing
                                  THEN [store[s] EXCEPT !.state = "failed"]
                                  ELSE store[s]]
    /\ load' = [l \in Loads |-> IF load[l].state \in {"loading", "executing"}
                                THEN [load[l] EXCEPT !.state = "load_failed"]
                                ELSE load[l]]
    /\ UNCHANGED <<now, redis, last, alone, calm>>

Tick ==
    /\ now < MaxTime
    /\ now' = now + 1
    /\ UNCHANGED <<redis, store, load, last, alone, calm>>

StoreNext == \E s \in Stores : Split(s) \/ SetKey(s) \/ StoreFails(s)

LoadStep(l) == \/ BeginLoad(l) \/ GetKey(l) \/ GetLastKey(l) \/ LoadFails(l)
               \/ Reconstruct(l) \/ ReconstructFails(l)

Next ==
    \/ StoreNext
    \/ \E l \in Loads : LoadStep(l)
    \/ ProcessRestart
    \/ Tick

Spec == Init /\ [][Next]_vars

-----------------------------------------------------------------------------
(* Properties *)

StoreRecord == [state : {"idle", "writing", "done", "failed"},
                next : 1..(Metadata + 1), splitAt : 0..MaxTime]

LoadRecord == [state : {"idle", "loading", "missing", "load_failed", "executing",
                        "reconstructed", "unreadable"},
               next : 1..(MasterSecret + 1),
               result : Stores \cup {Absent},
               got : [LoadedKeys -> Stores \cup {Absent}]]

TypeOK ==
    /\ now \in 0..MaxTime
    /\ redis \in [Keys -> Stores \cup {Absent}]
    /\ store \in [Stores -> StoreRecord]
    /\ load \in [Loads -> LoadRecord]
    /\ last \in Stores \cup {Absent}
    /\ alone \subseteq Stores
    /\ calm \subseteq Loads

\* Stores and loads interleave key by key, yet a secret that is returned is
\* one that was in force while it was being loaded, never a blend and never
\* one from before or after: the six keys implement an atomic register whose
\* value changes when the encryption key is set.
Register == INSTANCE SecretRegister
    WITH value <- redis[EncryptionKey],
         written <- {s \in Stores : store[s].next > EncryptionKey},
         phase <- [l \in Loads |->
                     CASE load[l].state = "idle" -> "idle"
                       [] load[l].state = "loading" ->
                             IF load[l].next > EncryptionKey THEN "seen" ELSE "reading"
                       [] load[l].state = "executing" -> "seen"
                       [] load[l].state = "reconstructed" -> "returned"
                       [] load[l].state = "unreadable" -> "unreadable"
                       [] OTHER -> "failed"],
         seen <- [l \in Loads |-> load[l].got[EncryptionKey]],
         result <- [l \in Loads |-> load[l].result]

ImplementsRegister == Register!RegisterSpec

\* After a store that reported success and that no other overlapped, and until
\* the next one begins, all the keys are that store's: it repairs whatever
\* failed or overlapping stores left behind.
SettledIsWhole == Settled /\ last \in alone => \A k \in Keys : redis[k] = last

\* A load that begins after such a store and that no store overlaps
\* reconstructs its secret while the window of its split lasts.
QuietLoadReads ==
    \A l \in calm :
       /\ load[l].state = "executing"
       /\ WindowId(store[last].splitAt, SplitWindow) = WindowId(now, ReadWindow)
       => Opens(load[l].got) /\ Combines(load[l].got) /\ load[l].got[1] = last

\* admin.py:215, "System initialized successfully. Use the master_key with
\* Open WebUI.": when every store that began has reported success, whatever ran
\* alongside, the keys a load reads are those of one of them.
SuccessIsWhole ==
    Settled /\ (\A s \in Stores : store[s].state # "failed") =>
       \E s \in Stores : \A k \in LoadedKeys : redis[k] = s

\* README.md:65, "No manual intervention required": the same without a word
\* about windows.
QuietLoadNeedsNoCare ==
    \A l \in calm : load[l].state # "unreadable"

-----------------------------------------------------------------------------
(* The inductive invariants. *)

\* Where the loops over the keys are, and what a load has read when its
\* secret can be reconstructed.
LoopInv ==
    /\ \A s \in Stores : /\ store[s].state = "idle" => store[s].next = 1 /\ s \notin alone
                         /\ store[s].state = "writing" => store[s].next \in Keys
    /\ \A l \in Loads :
          /\ load[l].state = "idle" => load[l].next = 1
          /\ load[l].state = "loading" => load[l].next \in LoadedKeys
          /\ load[l].state = "executing" =>
                /\ load[l].next = MasterSecret + 1
                /\ load[l].got[EncryptionKey] # Absent

\* The last store, when it began alone, is the only one that may be running;
\* the keys set so far are its own, and all are once it is done.
WholeInv ==
    last \in alone =>
       /\ Writing \subseteq {last}
       /\ \A k \in Keys : \/ redis[k] = last
                          \/ store[last].state = "failed"
                          \/ store[last].state = "writing" /\ k >= store[last].next

\* What a calm load has read so far is all of the last store.
CalmInv ==
    \A l \in calm : /\ Settled /\ last \in alone
                     /\ \A k \in LoadedKeys : k < load[l].next => load[l].got[k] = last

=============================================================================
