------------------------- MODULE ShardStorageProofs -------------------------
(***************************************************************************)
(* Proofs about ShardStorage, for any number of stores and loads, any      *)
(* windows and any threshold.                                              *)
(***************************************************************************)
EXTENDS ShardStorage, TLAPS

USE DEF EncryptionKey, MasterSecret, Metadata, Keys, LoadedKeys

(* The three ways the record of a store is updated. *)
LEMMA SplitRecord ==
    ASSUME NEW r \in StoreRecord, NEW time \in 0..MaxTime
    PROVE  [r EXCEPT !.state = "writing", !.splitAt = time] \in StoreRecord
  BY Zenon DEF StoreRecord

LEMMA SetRecord ==
    ASSUME NEW r \in StoreRecord, NEW next \in 1..(Metadata + 1),
           NEW state \in {"idle", "writing", "done", "failed"}
    PROVE  [r EXCEPT !.next = next, !.state = state] \in StoreRecord
  BY Zenon DEF StoreRecord

LEMMA FailedRecord ==
    ASSUME NEW r \in StoreRecord
    PROVE  [r EXCEPT !.state = "failed"] \in StoreRecord
  BY Zenon DEF StoreRecord

LEMMA TypeInit == Init => TypeOK
  BY StorageAssumption DEF Init, TypeOK, StoreRecord, LoadRecord

LEMMA LoopInit == Init => LoopInv
  BY StorageAssumption DEF Init, LoopInv

-----------------------------------------------------------------------------
(* Type correctness and the loops *)

LEMMA StoreStep ==
    ASSUME TypeOK, LoopInv, NEW s \in Stores, Split(s) \/ SetKey(s) \/ StoreFails(s)
    PROVE  TypeOK' /\ LoopInv'
  <1> USE StorageAssumption DEF TypeOK, LoopInv
  <1>1. CASE Split(s)
    <2>1. store' \in [Stores -> StoreRecord]
      <3>1. [store[s] EXCEPT !.state = "writing", !.splitAt = now] \in StoreRecord
        BY SplitRecord
      <3> QED BY <1>1, <3>1 DEF Split
    <2> QED BY <1>1, <2>1 DEF Split
  <1>2. CASE SetKey(s)
    <2>1. store[s].next \in Keys /\ store[s].next + 1 \in 1..(Metadata + 1)
      BY <1>2 DEF SetKey
    <2>2. store' \in [Stores -> StoreRecord]
      <3> DEFINE state == IF store[s].next = Metadata THEN "done" ELSE "writing"
      <3>1. [store[s] EXCEPT !.next = @ + 1, !.state = state] \in StoreRecord
        BY <2>1, SetRecord
      <3> QED BY <1>2, <3>1 DEF SetKey
    <2>3. redis' \in [Keys -> Stores \cup {Absent}]
      BY <1>2 DEF SetKey
    <2>4. LoopInv'
      BY <1>2, <2>1 DEF SetKey
    <2> QED BY <1>2, <2>2, <2>3, <2>4 DEF SetKey
  <1>3. CASE StoreFails(s)
    <2>1. store' \in [Stores -> StoreRecord]
      <3>1. [store[s] EXCEPT !.state = "failed"] \in StoreRecord
        BY FailedRecord
      <3> QED BY <1>3, <3>1 DEF StoreFails
    <2> QED BY <1>3, <2>1 DEF StoreFails
  <1> QED BY <1>1, <1>2, <1>3

LEMMA LoadStepType ==
    ASSUME TypeOK, LoopInv, NEW l \in Loads, LoadStep(l)
    PROVE  TypeOK' /\ LoopInv'
  <1> USE StorageAssumption DEF TypeOK, LoadRecord, LoopInv
  <1>1. CASE BeginLoad(l) BY <1>1, SMTT(30) DEF BeginLoad
  <1>2. CASE GetKey(l)
    <2> DEFINE got == [load[l].got EXCEPT ![load[l].next] = redis[load[l].next]]
               after == [load[l] EXCEPT !.got = got, !.next = @ + 1]
    <2>1. load[l].next \in Keys /\ load[l].next + 1 \in LoadedKeys
      BY <1>2 DEF GetKey
    <2>2. got \in [LoadedKeys -> Stores \cup {Absent}]
      BY <2>1
    <2>3. after \in LoadRecord /\ after.state = "loading" /\ after.next \in LoadedKeys
      <3> HIDE DEF got
      <3> QED BY <1>2, <2>1, <2>2 DEF GetKey
    <2>4. load' = [load EXCEPT ![l] = after]
      BY <1>2 DEF GetKey
    <2>5. UNCHANGED <<now, redis, store, last, alone, calm>>
      BY <1>2 DEF GetKey
    <2> HIDE DEF after
    <2> QED BY <2>3, <2>4, <2>5
  <1>3. CASE GetLastKey(l)
    <2> DEFINE got == [load[l].got EXCEPT ![MasterSecret] = redis[MasterSecret]]
               state == IF \E k \in LoadedKeys : got[k] = Absent
                        THEN "missing" ELSE "executing"
               after == [load[l] EXCEPT !.got = got, !.next = @ + 1, !.state = state]
    <2>1. got \in [LoadedKeys -> Stores \cup {Absent}]
      OBVIOUS
    <2>2. state \in {"missing", "executing"}
      OBVIOUS
    <2>3. state = "executing" => /\ load[l].next + 1 = MasterSecret + 1
                                 /\ got[EncryptionKey] # Absent
      BY <1>3 DEF GetLastKey
    <2>4. load' = [load EXCEPT ![l] = after]
      BY <1>3 DEF GetLastKey
    <2>5. UNCHANGED <<now, redis, store, last, alone, calm>>
      BY <1>3 DEF GetLastKey
    <2>6. /\ after \in LoadRecord
          /\ after.state = state /\ after.got = got /\ after.next = load[l].next + 1
      <3> HIDE DEF got, state
      <3> QED BY <1>3, <2>1, <2>2 DEF GetLastKey
    <2> HIDE DEF got, state, after
    <2> QED BY <2>2, <2>3, <2>4, <2>5, <2>6
  <1>4. CASE LoadFails(l) BY <1>4 DEF LoadFails
  <1>5. CASE Reconstruct(l)
    <2>1. load[l].got[1] \in Stores \cup {Absent}
      OBVIOUS
    <2> DEFINE after == [load[l] EXCEPT !.state = "reconstructed",
                                        !.result = load[l].got[1]]
    <2>2. after \in LoadRecord /\ after.state = "reconstructed"
      BY <2>1
    <2>3. UNCHANGED <<now, redis, store, last, alone, calm>>
      BY <1>5 DEF Reconstruct
    <2>4. load' = [load EXCEPT ![l] = after]
      BY <1>5 DEF Reconstruct
    <2> HIDE DEF after
    <2> QED BY <2>2, <2>3, <2>4
  <1>6. CASE ReconstructFails(l) BY <1>6 DEF ReconstructFails
  <1> QED BY <1>1, <1>2, <1>3, <1>4, <1>5, <1>6 DEF LoadStep

LEMMA TypeStep == TypeOK /\ LoopInv /\ [Next]_vars => TypeOK' /\ LoopInv'
  <1> SUFFICES ASSUME TypeOK, LoopInv, [Next]_vars PROVE TypeOK' /\ LoopInv'
    OBVIOUS
  <1>1. CASE ProcessRestart
    <2> USE StorageAssumption, <1>1 DEF TypeOK, ProcessRestart
    <2>1. store' \in [Stores -> StoreRecord]
      <3>1. \A s \in Stores : [store[s] EXCEPT !.state = "failed"] \in StoreRecord
        BY FailedRecord
      <3> QED BY <3>1
    <2>2. load' \in [Loads -> LoadRecord]
      BY SMTT(30) DEF LoadRecord
    <2>3. LoopInv'
      BY DEF LoopInv, Writing, StoreRecord, LoadRecord
    <2> QED BY <2>1, <2>2, <2>3
  <1>2. CASE Tick
    BY <1>2, StorageAssumption DEF Tick, TypeOK, LoopInv
  <1>3. CASE UNCHANGED vars
    BY <1>3 DEF vars, TypeOK, LoopInv
  <1> QED
    BY <1>1, <1>2, <1>3, StoreStep, LoadStepType DEF Next, StoreNext

(* Every state of the stores, the loads and their Redis keys is well typed;  *)
(* no loop over the keys runs past its last key.                             *)
THEOREM TypeCorrect == Spec => [](TypeOK /\ LoopInv)
  BY TypeInit, LoopInit, TypeStep, PTL DEF Spec

-----------------------------------------------------------------------------
(* The keys implement the register *)

LEMMA RegisterStart == Init => Register!RegisterInit
  BY StorageAssumption DEF Init, Register!RegisterInit

(* The variables of the register, as ShardStorage computes them. *)
Value == redis[EncryptionKey]
Written == {s \in Stores : store[s].next > EncryptionKey}
Phase == [l \in Loads |->
            CASE load[l].state = "idle" -> "idle"
              [] load[l].state = "loading" ->
                    IF load[l].next > EncryptionKey THEN "seen" ELSE "reading"
              [] load[l].state = "executing" -> "seen"
              [] load[l].state = "reconstructed" -> "returned"
              [] load[l].state = "unreadable" -> "unreadable"
              [] OTHER -> "failed"]
Seen == [l \in Loads |-> load[l].got[EncryptionKey]]
Result == [l \in Loads |-> load[l].result]

(* A store writes the register with the SET of its encryption key. *)
LEMMA StoreRefines ==
    ASSUME TypeOK, LoopInv, NEW s \in Stores, Split(s) \/ SetKey(s) \/ StoreFails(s)
    PROVE  [Register!RegisterNext]_Register!registerVars
  <1> USE StorageAssumption DEF TypeOK, LoopInv, StoreRecord
  <1>1. CASE Split(s) \/ StoreFails(s)
    BY <1>1 DEF Split, StoreFails, Register!registerVars
  <1>2. CASE SetKey(s)
    <2>1. UNCHANGED load
      BY <1>2 DEF SetKey
    <2>2. CASE store[s].next = EncryptionKey
      <3>1. s \notin Written /\ Value' = s /\ Written' = Written \cup {s}
        BY <1>2, <2>2 DEF SetKey, KeyToSet, Value, Written
      <3>2. Register!Write(s)
        BY <2>1, <3>1 DEF Register!Write, Value, Written
      <3> QED BY <3>2 DEF Register!RegisterNext
    <2>3. CASE store[s].next # EncryptionKey
      <3>1. Value' = Value /\ Written' = Written
        BY <1>2, <2>3 DEF SetKey, KeyToSet, Value, Written
      <3> QED BY <2>1, <3>1 DEF Register!registerVars, Value, Written
    <2> QED BY <2>2, <2>3
  <1> QED BY <1>1, <1>2

(* A load sees the register with the GET of the encryption key; that the     *)
(* shards open with that key and combine makes it the secret it returns.     *)
LEMMA LoadRefines ==
    ASSUME TypeOK, LoopInv, NEW l \in Loads, LoadStep(l)
    PROVE  [Register!RegisterNext]_Register!registerVars
  <1> USE StorageAssumption DEF TypeOK, LoopInv, LoadRecord
  <1>1. UNCHANGED <<redis, store>>
    BY DEF LoadStep, BeginLoad, GetKey, GetLastKey, LoadFails, Reconstruct,
           ReconstructFails
  <1>2. UNCHANGED <<Value, Written>>
    BY <1>1 DEF Value, Written
  <1>3. \A m \in Loads \ {l} : load'[m] = load[m]
    BY DEF LoadStep, BeginLoad, GetKey, GetLastKey, LoadFails, Reconstruct,
           ReconstructFails
  <1>4. CASE BeginLoad(l)
    <2>1. load[l].state = "idle" /\ load[l].next = 1 /\ load' = [load EXCEPT ![l].state = "loading"]
      BY <1>4 DEF BeginLoad
    <2>2. load'[l].state = "loading" /\ load'[l].next = 1
      BY <2>1
    <2>3. Phase[l] = "idle" /\ Phase' = [Phase EXCEPT ![l] = "reading"]
      <3>1. Phase[l] = "idle" /\ Phase'[l] = "reading"
        BY <2>1, <2>2 DEF Phase
      <3>2. \A m \in Loads \ {l} : Phase'[m] = Phase[m]
        BY <1>3 DEF Phase
      <3>3. Phase = [m \in Loads |-> Phase[m]] /\ Phase' = [m \in Loads |-> Phase'[m]]
        BY DEF Phase
      <3> QED BY <3>1, <3>2, <3>3
    <2>4. UNCHANGED <<Seen, Result>>
      BY <1>4 DEF BeginLoad, Seen, Result
    <2>5. Register!Start(l)
      BY <1>2, <2>3, <2>4 DEF Register!Start, Value, Written, Phase, Seen, Result
    <2> QED BY <2>5 DEF Register!RegisterNext
  <1>5. CASE GetKey(l) /\ load[l].next # EncryptionKey
    <2>1. /\ load[l].state = "loading" /\ load'[l].state = "loading"
          /\ (load'[l].next > EncryptionKey) = (load[l].next > EncryptionKey)
          /\ load'[l].got[EncryptionKey] = load[l].got[EncryptionKey]
          /\ load'[l].result = load[l].result
      BY <1>5 DEF GetKey
    <2>2. UNCHANGED <<Phase, Seen, Result>>
      <3>1. \A m \in Loads : Phase'[m] = Phase[m]
        BY <1>3, <2>1 DEF Phase
      <3>2. \A m \in Loads : Seen'[m] = Seen[m] /\ Result'[m] = Result[m]
        BY <1>3, <2>1 DEF Seen, Result
      <3> QED BY <3>1, <3>2 DEF Phase, Seen, Result
    <2> QED BY <1>2, <2>2 DEF Register!registerVars, Value, Written, Phase, Seen, Result
  <1>6. CASE GetKey(l) /\ load[l].next = EncryptionKey
    <2>1. Phase[l] = "reading" /\ Phase' = [Phase EXCEPT ![l] = "seen"]
      <3>1. Phase[l] = "reading" /\ Phase'[l] = "seen"
        BY <1>6 DEF GetKey, Phase
      <3>2. \A m \in Loads \ {l} : Phase'[m] = Phase[m]
        BY <1>3 DEF Phase
      <3>3. Phase = [m \in Loads |-> Phase[m]] /\ Phase' = [m \in Loads |-> Phase'[m]]
        BY DEF Phase
      <3> QED BY <3>1, <3>2, <3>3
    <2>2. Seen' = [Seen EXCEPT ![l] = Value] /\ UNCHANGED Result
      BY <1>6 DEF GetKey, Seen, Result, Value
    <2>3. Register!See(l)
      BY <1>2, <2>1, <2>2 DEF Register!See, Value, Written, Phase, Seen, Result
    <2> QED BY <2>3 DEF Register!RegisterNext
  <1>7. CASE GetLastKey(l) /\ load'[l].state = "executing"
    <2>1. /\ load[l].state = "loading" /\ load[l].next > EncryptionKey
          /\ load'[l].state = "executing"
          /\ load'[l].got[EncryptionKey] = load[l].got[EncryptionKey]
          /\ load'[l].result = load[l].result
      BY <1>7 DEF GetLastKey
    <2>2. UNCHANGED <<Phase, Seen, Result>>
      <3>1. \A m \in Loads : Phase'[m] = Phase[m]
        BY <1>3, <2>1 DEF Phase
      <3>2. \A m \in Loads : Seen'[m] = Seen[m] /\ Result'[m] = Result[m]
        BY <1>3, <2>1 DEF Seen, Result
      <3> QED BY <3>1, <3>2 DEF Phase, Seen, Result
    <2> QED BY <1>2, <2>2 DEF Register!registerVars, Value, Written, Phase, Seen, Result
  <1>8. CASE Reconstruct(l)
    <2>1. Phase[l] = "seen" /\ Phase' = [Phase EXCEPT ![l] = "returned"]
      <3>1. Phase[l] = "seen" /\ Phase'[l] = "returned"
        BY <1>8 DEF Reconstruct, Phase
      <3>2. \A m \in Loads \ {l} : Phase'[m] = Phase[m]
        BY <1>3 DEF Phase
      <3>3. Phase = [m \in Loads |-> Phase[m]] /\ Phase' = [m \in Loads |-> Phase'[m]]
        BY DEF Phase
      <3> QED BY <3>1, <3>2, <3>3
    <2>2. Seen[l] # Absent /\ UNCHANGED Seen
      <3>1. load[l].got[EncryptionKey] # Absent /\ load'[l].got = load[l].got
        BY <1>8 DEF Reconstruct
      <3>2. \A m \in Loads : Seen'[m] = Seen[m]
        BY <1>3, <3>1 DEF Seen
      <3> QED BY <3>1, <3>2 DEF Seen
    <2>3. load[l].got[1] = load[l].got[EncryptionKey]
      BY <1>8 DEF Reconstruct, Opens
    <2>4. Result' = [Result EXCEPT ![l] = Seen[l]]
      BY <1>8, <2>3 DEF Reconstruct, Seen, Result
    <2>5. Register!Return(l)
      BY <1>2, <2>1, <2>2, <2>4 DEF Register!Return, Value, Written, Phase, Seen, Result
    <2> QED BY <2>5 DEF Register!RegisterNext
  <1>9. CASE \/ LoadFails(l)
             \/ GetLastKey(l) /\ load'[l].state # "executing"
    <2>1. /\ Phase[l] \in {"reading", "seen"}
          /\ Phase' = [m \in Loads |-> IF m \in {l} THEN "failed" ELSE Phase[m]]
      BY <1>9 DEF LoadFails, GetLastKey, Phase
    <2>2. UNCHANGED <<Seen, Result>>
      <3>1. CASE LoadFails(l)
        BY <3>1 DEF LoadFails, Seen, Result
      <3>2. CASE GetLastKey(l)
        BY <3>2 DEF GetLastKey, Seen, Result
      <3> QED BY <1>9, <3>1, <3>2
    <2>3. Register!Fail({l})
      BY <1>2, <2>1, <2>2 DEF Register!Fail, Value, Written, Phase, Seen, Result
    <2> QED BY <2>3 DEF Register!RegisterNext
  <1>10. CASE ReconstructFails(l)
    <2>1. Phase[l] = "seen" /\ Phase' = [Phase EXCEPT ![l] = "unreadable"]
      <3>1. Phase[l] = "seen" /\ Phase'[l] = "unreadable"
        BY <1>10 DEF ReconstructFails, Phase
      <3>2. \A m \in Loads \ {l} : Phase'[m] = Phase[m]
        BY <1>3 DEF Phase
      <3>3. Phase = [m \in Loads |-> Phase[m]] /\ Phase' = [m \in Loads |-> Phase'[m]]
        BY DEF Phase
      <3> QED BY <3>1, <3>2, <3>3
    <2>2. Seen[l] # Absent /\ UNCHANGED <<Seen, Result>>
      BY <1>10 DEF ReconstructFails, Seen, Result
    <2>3. Register!Reject(l)
      BY <1>2, <2>1, <2>2 DEF Register!Reject, Value, Written, Phase, Seen, Result
    <2> QED BY <2>3 DEF Register!RegisterNext
  <1> QED
    BY <1>4, <1>5, <1>6, <1>7, <1>8, <1>9, <1>10 DEF LoadStep

(* A crash of the proxy is the failure of the loads it interrupts. *)
LEMMA RestartRefines ==
    ASSUME TypeOK, ProcessRestart
    PROVE  [Register!RegisterNext]_Register!registerVars
  <1> USE DEF TypeOK, LoadRecord, StoreRecord, ProcessRestart
  <1> PICK lost \in SUBSET Loads :
         lost = {l \in Loads : load[l].state \in {"loading", "executing"}}
    OBVIOUS
  <1>1. UNCHANGED <<Value, Written>>
    BY DEF Value, Written
  <1>2. /\ \A l \in lost : Phase[l] \in {"reading", "seen"}
        /\ Phase' = [l \in Loads |-> IF l \in lost THEN "failed" ELSE Phase[l]]
    BY DEF Phase
  <1>3. UNCHANGED <<Seen, Result>>
    BY DEF Seen, Result
  <1>4. Register!Fail(lost)
    BY <1>1, <1>2, <1>3 DEF Register!Fail, Value, Written, Phase, Seen, Result
  <1> QED BY <1>4 DEF Register!RegisterNext

(* The six keys of a secret and the thread that reconstructs it behave as an *)
(* atomic register: a load returns the secret in force at one instant of the *)
(* load, or fails.                                                           *)
THEOREM Refinement == Spec => ImplementsRegister
  <1>1. TypeOK /\ LoopInv /\ [Next]_vars => [Register!RegisterNext]_Register!registerVars
    <2> SUFFICES ASSUME TypeOK, LoopInv, [Next]_vars
                 PROVE  [Register!RegisterNext]_Register!registerVars
      OBVIOUS
    <2>1. CASE Tick \/ UNCHANGED vars
      BY <2>1 DEF Tick, vars, Register!registerVars
    <2> QED
      BY <2>1, StoreRefines, LoadRefines, RestartRefines DEF Next, StoreNext
  <1> QED
    BY RegisterStart, TypeCorrect, <1>1, PTL
    DEF Spec, ImplementsRegister, Register!RegisterSpec

-----------------------------------------------------------------------------
(* A store that nothing overlapped leaves a whole secret *)

LEMMA WholeInit == Init => WholeInv
  BY DEF Init, WholeInv

LEMMA WholeStep ==
    ASSUME TypeOK, LoopInv, WholeInv, [Next]_vars
    PROVE  WholeInv'
  <1> USE StorageAssumption DEF TypeOK, LoopInv, WholeInv, Writing
  <1>1. ASSUME NEW s \in Stores, Split(s) PROVE WholeInv'
    BY <1>1 DEF Split, StoreRecord
  <1>2. ASSUME NEW s \in Stores, SetKey(s) PROVE WholeInv'
    BY <1>2 DEF SetKey, KeyToSet, StoreRecord
  <1>3. ASSUME NEW s \in Stores, StoreFails(s) PROVE WholeInv'
    BY <1>3 DEF StoreFails
  <1>4. ASSUME UNCHANGED <<redis, store, last, alone>> PROVE WholeInv'
    BY <1>4
  <1>5. CASE ProcessRestart
    BY <1>5 DEF ProcessRestart
  <1> QED
    BY <1>1, <1>2, <1>3, <1>4, <1>5
    DEF Next, StoreNext, LoadStep, BeginLoad, GetKey, GetLastKey, LoadFails,
        Reconstruct, ReconstructFails, Tick, vars

LEMMA WholeSettled == TypeOK /\ WholeInv => SettledIsWhole
  BY DEF TypeOK, WholeInv, SettledIsWhole, Settled

(* When a store that no other overlapped reports success, every key of the   *)
(* secret is of that store, whatever failed or overlapped before it.         *)
THEOREM WholeAfterSuccess == Spec => []SettledIsWhole
  <1>1. TypeOK /\ LoopInv /\ WholeInv /\ [Next]_vars => WholeInv'
    BY WholeStep
  <1> QED BY WholeInit, TypeCorrect, WholeSettled, <1>1, PTL DEF Spec

-----------------------------------------------------------------------------
(* A quiet load reads it *)

LEMMA CalmInit == Init => CalmInv
  BY DEF Init, CalmInv

LEMMA CalmLoadStep ==
    ASSUME TypeOK, LoopInv, WholeInv, CalmInv, NEW l \in Loads, LoadStep(l)
    PROVE  CalmInv'
  <1> USE StorageAssumption DEF TypeOK, LoopInv, LoadRecord
  <1>1. UNCHANGED <<redis, store, last, alone>>
    BY DEF LoadStep, BeginLoad, GetKey, GetLastKey, LoadFails, Reconstruct,
           ReconstructFails
  <1>2. \A m \in Loads \ {l} : load'[m] = load[m] /\ (m \in calm' => m \in calm)
    BY DEF LoadStep, BeginLoad, GetKey, GetLastKey, LoadFails, Reconstruct,
           ReconstructFails
  <1>3. l \in calm' => Settled /\ last \in alone
    BY DEF LoadStep, BeginLoad, GetKey, GetLastKey, LoadFails, Reconstruct,
           ReconstructFails, CalmInv
  <1>4. Settled' = Settled
    BY <1>1 DEF Settled, Writing
  <1>5. ASSUME l \in calm', NEW k \in LoadedKeys, k < load'[l].next
        PROVE  load'[l].got[k] = last
    <2>1. redis[k] = last
      BY <1>3, <1>5, WholeSettled DEF SettledIsWhole
    <2>2. CASE BeginLoad(l)
      BY <1>5, <2>2 DEF BeginLoad
    <2>3. CASE GetKey(l)
      BY <1>5, <2>1, <2>3 DEF GetKey, CalmInv
    <2>4. CASE GetLastKey(l)
      BY <1>5, <2>1, <2>4 DEF GetLastKey, CalmInv
    <2>5. CASE LoadFails(l) \/ Reconstruct(l) \/ ReconstructFails(l)
      BY <1>5, <2>5, SMTT(30) DEF LoadFails, Reconstruct, ReconstructFails, CalmInv
    <2> QED BY <2>2, <2>3, <2>4, <2>5 DEF LoadStep
  <1>6. calm' \subseteq Loads
    BY LoadStepType
  <1> QED
    BY <1>1, <1>2, <1>3, <1>4, <1>5, <1>6 DEF CalmInv

LEMMA CalmStep ==
    ASSUME TypeOK, LoopInv, WholeInv, CalmInv, [Next]_vars
    PROVE  CalmInv'
  <1> USE StorageAssumption DEF TypeOK, CalmInv
  <1>1. ASSUME NEW s \in Stores, Split(s) PROVE CalmInv'
    BY <1>1 DEF Split
  <1>2. ASSUME NEW s \in Stores, SetKey(s) \/ StoreFails(s) PROVE CalmInv'
    <2>1. calm = {}
      BY <1>2 DEF SetKey, StoreFails, Settled, Writing
    <2> QED BY <1>2, <2>1 DEF SetKey, StoreFails
  <1>3. CASE ProcessRestart
    <2>1. CASE calm = {}
      BY <1>3, <2>1 DEF ProcessRestart
    <2>2. CASE calm # {}
      <3>1. Writing = {} /\ Settled
        BY <2>2 DEF Settled
      <3>2. store' = store
        BY <1>3, <3>1 DEF ProcessRestart
      <3>3. \A l \in Loads : load'[l].got = load[l].got /\ load'[l].next = load[l].next
        BY <1>3 DEF ProcessRestart, LoadRecord
      <3>4. Settled' = Settled /\ UNCHANGED <<calm, last, alone>>
        BY <1>3, <3>2 DEF ProcessRestart, Settled, Writing
      <3> QED BY <3>3, <3>4
    <2> QED BY <2>1, <2>2
  <1>4. CASE Tick \/ UNCHANGED vars
    BY <1>4 DEF Tick, vars, Settled, Writing
  <1> QED
    BY <1>1, <1>2, <1>3, <1>4, CalmLoadStep DEF Next, StoreNext

(* A load that nothing disturbs, after a store that nothing disturbed, gives *)
(* that store's secret as long as the window of its split lasts.             *)
THEOREM QuietLoads ==
    ASSUME Threshold <= 3
    PROVE  Spec => []QuietLoadReads
  <1>1. TypeOK /\ LoopInv /\ WholeInv /\ CalmInv => QuietLoadReads
    <2> SUFFICES ASSUME TypeOK, LoopInv, CalmInv, NEW l \in calm,
                        load[l].state = "executing"
                 PROVE  \A k \in LoadedKeys : load[l].got[k] = last
      BY StorageAssumption DEF QuietLoadReads, Opens, Combines
    <2> QED BY DEF TypeOK, LoadRecord, LoopInv, CalmInv
  <1>2. TypeOK /\ LoopInv /\ WholeInv /\ [Next]_vars => WholeInv'
    BY WholeStep
  <1>3. TypeOK /\ LoopInv /\ WholeInv /\ CalmInv /\ [Next]_vars => CalmInv'
    BY CalmStep
  <1> QED
    BY WholeInit, CalmInit, TypeCorrect, <1>1, <1>2, <1>3, PTL DEF Spec

=============================================================================
