------------------------------- MODULE Shamir -------------------------------
(***************************************************************************)
(* ShardManager and the configuration around it (core/crypto/shard.py and  *)
(* scripts/init_shards.py): what becomes of a token that is split, kept as *)
(* shards and put together again, by a proxy that may have been            *)
(* reconfigured since.  The arithmetic of the shamirs library is that of a *)
(* prime field; the modulus of the code, 2^19937 - 1, only has to exceed   *)
(* every token.                                                            *)
(*                                                                         *)
(* A token is a sequence of bytes, a byte one of 0..Base-1: 0 stands for   *)
(* NUL, which bytes-to-integer conversion loses at the front, Space for    *)
(* whatever str.split() takes for whitespace.                              *)
(***************************************************************************)
EXTENDS Arithmetic, Sequences, SequencesExt

CONSTANTS Prime,      \* the modulus
          Base,       \* the number of byte values
          Space,      \* the byte that is whitespace
          MaxLength,  \* bound on the length of a token
          MaxTotal    \* bound on SHARD_TOTAL and SHARD_THRESHOLD, and on the
                      \* three shards of the script

ASSUME ShamirAssumption ==
    /\ Base \in Nat \ {0} /\ Space \in 1..(Base - 1)
    /\ MaxLength \in Nat
    /\ MaxTotal \in Nat /\ MaxTotal >= 3
    /\ Prime \in Nat /\ MaxTotal < Prime
    /\ Power(Base, MaxLength) <= Prime
    /\ \A d \in 2..(Prime - 1) : Prime % d # 0

VARIABLES config,  \* [threshold, total]: SHARD_THRESHOLD and SHARD_TOTAL
          dealt,   \* history: the threshold of the split
          token,   \* the token as the operator gave it
          shards,  \* the shards split_token returned
          stage,   \* where the token is
          result   \* the token that came back

vars == <<config, dealt, token, shards, stage, result>>

Field == 0..(Prime - 1)
Bytes == 0..(Base - 1)
Tokens == UNION {[1..n -> Bytes] : n \in 0..MaxLength}

NoToken == <<>>

-----------------------------------------------------------------------------
(* Conversions between a token and the integer that is shared *)

\* int.from_bytes(token_bytes, byteorder='big'): the numbers the first i bytes make.
Numbers(bytes) ==
    LET v[i \in 0..Len(bytes)] == IF i = 0 THEN 0 ELSE v[i - 1] * Base + bytes[i] IN v

ToInt(bytes) == Numbers(bytes)[Len(bytes)]

\* token_int.to_bytes(length, byteorder='big'), where the number fits.
ToBytes(n, length) == [i \in 1..length |-> (n \div Power(Base, length - i)) % Base]

\* (token_int.bit_length() + 7) // 8
ByteLength(n) == CHOOSE k \in 0..Prime :
                    n < Power(Base, k) /\ \A j \in 0..(k - 1) : n >= Power(Base, j)

\* ''.join(token.split()), of the first i bytes.
Stripped(bytes) ==
    LET kept[i \in 0..Len(bytes)] ==
          IF i = 0 THEN <<>>
          ELSE IF bytes[i] = Space THEN kept[i - 1] ELSE Append(kept[i - 1], bytes[i])
    IN  kept

StripSpaces(bytes) == Stripped(bytes)[Len(bytes)]

-----------------------------------------------------------------------------
(* The shamirs library: a polynomial over the field, its value at 0 the     *)
(* secret, and Lagrange interpolation.                                      *)

Evaluate(secret, coefficients, x) ==
    LET n == Len(coefficients)
    IN  (secret + SumOf([k \in 1..n |-> coefficients[k] * Power(x, k)], n)) % Prime

FieldInverse == [a \in Field \ {0} |-> CHOOSE b \in Field : (a * b) % Prime = 1]

\* The factor of the j-th point in the weight of the i-th.
Factor(points, i, j) ==
    points[j].index * FieldInverse[(points[j].index - points[i].index) % Prime]

Basis(points, i) ==
    LET n == Len(points)
    IN  ProductOf([j \in 1..n |-> IF j = i THEN 1 ELSE Factor(points, i, j)], n) % Prime

Interpolate(points) ==
    LET n == Len(points)
    IN  SumOf([i \in 1..n |-> points[i].value * Basis(points, i)], n) % Prime

-----------------------------------------------------------------------------
(* ShardManager *)

\* Mutated form: one coefficient too few, a polynomial of too low a degree.
DegreeTooLow(threshold) == threshold - 2

\* The degree of the polynomial shamirs.shares draws for a threshold.
Degree(threshold) == threshold - 1

\* split_token; the length field is missing from shards of the old format.
Split(t, c, coefficients, length) ==
    [i \in 1..c.total |->
        [index |-> i, value |-> Evaluate(ToInt(t), coefficients, i), length |-> length]]

OldFormat == -1

\* Mutated form: the length is recomputed from the number for every shard.
LengthFromNumber(points, n) == ByteLength(n)

\* The original length, unless it is missing or 0.
TokenLength(points, n) ==
    LET length == points[Len(points)].length
    IN  IF length \in {OldFormat, 0} THEN ByteLength(n) ELSE length

\* reconstruct_token, given at least threshold shards: the others are ignored.
Combine(points, threshold) ==
    LET used == SubSeq(points, 1, threshold)
        n == Interpolate(used)
    IN  StripSpaces(ToBytes(n, TokenLength(used, n)))

\* Mutated form: to_bytes(..., signed=True).
OverflowsSigned(points, threshold) ==
    LET used == SubSeq(points, 1, threshold)
        n == Interpolate(used)
    IN  2 * n >= Power(Base, TokenLength(used, n))

\* to_bytes raises OverflowError for a number that is no token of that length.
\* Bytes that are no UTF-8 raise too, and are not told from others here.
Overflows(points, threshold) ==
    LET used == SubSeq(points, 1, threshold)
        n == Interpolate(used)
    IN  n >= Power(Base, TokenLength(used, n))

-----------------------------------------------------------------------------
Configs == [threshold : 1..MaxTotal, total : 1..MaxTotal]

Init ==
    /\ config \in Configs
    /\ dealt = 0
    /\ token \in Tokens
    /\ shards = <<>>
    /\ stage = "given"
    /\ result = NoToken

\* The constructor of ShardManager raises ValueError.
ConfigAccepted == config.threshold <= config.total /\ config.threshold >= 2

RejectConfig ==
    /\ stage = "given"
    /\ ~ConfigAccepted
    /\ stage' = "rejected"
    /\ UNCHANGED <<config, dealt, token, shards, result>>

SplitToken ==
    /\ stage = "given"
    /\ ConfigAccepted
    /\ \E coefficients \in [1..Degree(config.threshold) -> Field],
          length \in {Len(token), OldFormat} :
             shards' = Split(token, config, coefficients, length)
    /\ dealt' = config.threshold
    /\ stage' = "split"
    /\ UNCHANGED <<config, token, result>>

\* sys.stdin.read().strip()
Trim(t) == LET kept == {i \in DOMAIN t : t[i] # Space}
           IN  IF kept = {} THEN <<>> ELSE SubSeq(t, Min(kept), Max(kept))

\* The script always deals three of three, whatever --threshold, --total and the
\* settings say, and prints the shards for the environment.
ScriptDeals(t, coefficients) == Split(t, [threshold |-> 3, total |-> 3], coefficients, Len(t))

InitShards(t) ==
    /\ stage = "given"
    /\ t # <<>>
    /\ \E coefficients \in [1..Degree(3) -> Field] : shards' = ScriptDeals(t, coefficients)
    /\ dealt' = 3
    /\ stage' = "kept"
    /\ UNCHANGED <<config, token, result>>

\* "Error: No token provided"
InitShardsRefuses(t) ==
    /\ stage = "given"
    /\ t = <<>>
    /\ stage' = "rejected"
    /\ UNCHANGED <<config, dealt, token, shards, result>>

\* The shards handed to reconstruct_token: any of them, in any order.
Selections == [total \in 1..MaxTotal |-> SetToAllKPermutations(1..total)]

ReconstructToken(selection) ==
    /\ stage = "split"
    /\ Len(selection) >= config.threshold
    /\ result' = Combine([k \in 1..Len(selection) |-> shards[selection[k]]], config.threshold)
    /\ stage' = "returned"
    /\ UNCHANGED <<config, dealt, token, shards>>

\* ValueError: "Need at least ... shards".
TooFewShards(selection) ==
    /\ stage = "split"
    /\ Len(selection) < config.threshold
    /\ stage' = "too_few"
    /\ UNCHANGED <<config, dealt, token, shards, result>>

\* Mutated form: no shard for the time window.
KeepTwo ==
    /\ stage = "split"
    /\ shards' = SubSeq(shards, 1, 2)
    /\ stage' = "kept"
    /\ UNCHANGED <<config, dealt, token, result>>

\* split_and_encrypt_token keeps the first three shards: an IndexError where
\* there are only two.
KeepThree ==
    /\ stage = "split"
    /\ config.total >= 3
    /\ shards' = SubSeq(shards, 1, 3)
    /\ stage' = "kept"
    /\ UNCHANGED <<config, dealt, token, result>>

KeepThreeFails ==
    /\ stage = "split"
    /\ config.total < 3
    /\ stage' = "not_kept"
    /\ UNCHANGED <<config, dealt, token, shards, result>>

\* The proxy is started again with other settings; the shards are still there.
Reconfigure ==
    /\ stage = "kept"
    /\ config' \in Configs
    /\ UNCHANGED <<dealt, token, shards, stage, result>>

\* reconstruct_token_from_env makes a ShardManager of the settings of the moment
\* and gives it the three shards that were kept.
Rebuildable == /\ ConfigAccepted
               /\ Len(shards) >= config.threshold
               /\ ~Overflows(shards, config.threshold)

ReconstructFromEnv ==
    /\ stage = "kept"
    /\ Rebuildable
    /\ result' = Combine(shards, config.threshold)
    /\ stage' = "returned"
    /\ UNCHANGED <<config, dealt, token, shards>>

ReconstructFromEnvFails ==
    /\ stage = "kept"
    /\ ~Rebuildable
    /\ stage' = "not_rebuilt"
    /\ UNCHANGED <<config, dealt, token, shards, result>>

Next ==
    \/ RejectConfig
    \/ SplitToken
    \/ \E t \in {token, Trim(token)} : InitShards(t) \/ InitShardsRefuses(t)
    \/ \E selection \in Selections[config.total] : ReconstructToken(selection) \/ TooFewShards(selection)
    \/ KeepThree \/ KeepThreeFails
    \/ Reconfigure
    \/ ReconstructFromEnv \/ ReconstructFromEnvFails

Spec == Init /\ [][Next]_vars

-----------------------------------------------------------------------------
(* Properties *)

TypeOK ==
    /\ config \in Configs
    /\ token \in Tokens
    /\ Len(shards) \in {0, config.total, 3}
    /\ \A i \in DOMAIN shards : shards[i] \in
          [index : 1..MaxTotal, value : Field, length : 0..MaxLength \cup {OldFormat}]
    /\ stage \in {"given", "rejected", "split", "returned", "too_few", "kept",
                  "not_kept", "not_rebuilt"}
    /\ dealt \in 0..MaxTotal
    /\ result \in Seq(Bytes)

\* The number of NULs at the front of a token is lost with its length.
DropNuls(t) ==
    LET first == SelectInSeq(t, LAMBDA b : b # 0)
    IN  IF first = 0 THEN <<>> ELSE SubSeq(t, first, Len(t))

\* What was split is what comes back, whichever shards are handed in and in
\* whatever order, by reconstruct_token or from the environment, also when the
\* threshold was raised after the split: the token without its whitespace, and
\* from shards of the old format also without the NULs at its front
\* (tests/test_crypto.py:45-63).
RoundTrip ==
    LET kept == IF shards # <<>> /\ shards[1].length = OldFormat
                THEN DropNuls(token) ELSE token
    IN  stage = "returned" /\ config.threshold >= dealt => result = StripSpaces(kept)

\* Shards that were kept are never in vain: reconstruct_token_from_env raises neither
\* OverflowError nor ValueError where the threshold of the settings is at least that of
\* the split and there are as many shards as that.
KeptRebuilds ==
    stage = "kept" /\ ConfigAccepted /\ config.threshold \in dealt..Len(shards) => Rebuildable

\* What the holders of the shards S may see of a token, over all polynomials.
Views(S, t) ==
    {[i \in S |-> Split(t, config, coefficients, Len(t))[i]] :
        coefficients \in [1..Degree(config.threshold) -> Field]}

\* One shard short of the threshold, nothing but the length of a token shows:
\* the shards could as well be those of any other token of that length
\* (split_token and shamirs.shares; README.md:53).
BelowThresholdFitsAnyToken ==
    stage = "given" /\ ConfigAccepted =>
       \A S \in kSubset(config.threshold - 1, 1..config.total) :
          LET view == Views(S, token)
          IN  \A t \in [1..Len(token) -> Bytes] : Views(S, t) = view

\* README.md:52, "Configurable threshold (default: 2-of-3 required for
\* reconstruction)": a configuration ShardManager accepts can be used to keep
\* a token and to get it back, with the threshold of its split.
ConfigurationUsable ==
    ConfigAccepted /\ config.threshold = dealt => stage \notin {"not_kept", "not_rebuilt"}

=============================================================================
