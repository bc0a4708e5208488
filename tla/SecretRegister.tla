--------------------------- MODULE SecretRegister ---------------------------
(***************************************************************************)
(* What the sharded storage of a secret promises: a register.  Each store  *)
(* writes its secret at one instant or never; a load that succeeds returns *)
(* the secret the register held at one instant of the load; a load may     *)
(* also fail, or find a secret it cannot read.  How a secret is spread     *)
(* over Redis keys does not show.                                          *)
(***************************************************************************)
CONSTANTS Stores,  \* the operations that store a secret, which they also name
          Loads,   \* the operations that read it
          Absent   \* no secret

ASSUME RegisterAssumption == Absent \notin Stores

VARIABLES value,    \* the secret in the register
          written,  \* the stores whose write has happened
          phase,    \* where each load is
          seen,     \* the secret each load has seen
          result    \* the secret each load has returned

registerVars == <<value, written, phase, seen, result>>

RegisterInit ==
    /\ value = Absent
    /\ written = {}
    /\ phase = [l \in Loads |-> "idle"]
    /\ seen = [l \in Loads |-> Absent]
    /\ result = [l \in Loads |-> Absent]

Write(s) ==
    /\ s \notin written
    /\ value' = s
    /\ written' = written \cup {s}
    /\ UNCHANGED <<phase, seen, result>>

Start(l) ==
    /\ phase[l] = "idle"
    /\ phase' = [phase EXCEPT ![l] = "reading"]
    /\ UNCHANGED <<value, written, seen, result>>

See(l) ==
    /\ phase[l] = "reading"
    /\ phase' = [phase EXCEPT ![l] = "seen"]
    /\ seen' = [seen EXCEPT ![l] = value]
    /\ UNCHANGED <<value, written, result>>

Return(l) ==
    /\ phase[l] = "seen"
    /\ seen[l] # Absent
    /\ phase' = [phase EXCEPT ![l] = "returned"]
    /\ result' = [result EXCEPT ![l] = seen[l]]
    /\ UNCHANGED <<value, written, seen>>

\* What was seen does not open: it is torn, or its time window is over.
Reject(l) ==
    /\ phase[l] = "seen"
    /\ seen[l] # Absent
    /\ phase' = [phase EXCEPT ![l] = "unreadable"]
    /\ UNCHANGED <<value, written, seen, result>>

\* No secret was found, or Redis failed; a crash of the proxy fails
\* every load at once.
Fail(failing) ==
    /\ \A l \in failing : phase[l] \in {"reading", "seen"}
    /\ phase' = [l \in Loads |-> IF l \in failing THEN "failed" ELSE phase[l]]
    /\ UNCHANGED <<value, written, seen, result>>

RegisterNext ==
    \/ \E s \in Stores : Write(s)
    \/ \E l \in Loads : Start(l) \/ See(l) \/ Return(l) \/ Reject(l)
    \/ \E failing \in SUBSET Loads : Fail(failing)

RegisterSpec == RegisterInit /\ [][RegisterNext]_registerVars
=============================================================================
