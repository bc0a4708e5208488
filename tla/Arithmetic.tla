----------------------------- MODULE Arithmetic -----------------------------
(***************************************************************************)
(* Sums, products and powers of integers, for the arithmetic the shamirs   *)
(* library does.  They are recursive functions, not the folds of the       *)
(* community modules, so that their values can be proved                   *)
(* (ArithmeticProofs); the provers know nothing of the built-in power.     *)
(***************************************************************************)
EXTENDS Integers

\* The sums f[1] + ... + f[i] for every i up to n, and the last of them.
PartialSums(f, n) ==
    LET s[i \in 0..n] == IF i = 0 THEN 0 ELSE s[i - 1] + f[i] IN s

SumOf(f, n) == PartialSums(f, n)[n]

PartialProducts(f, n) ==
    LET p[i \in 0..n] == IF i = 0 THEN 1 ELSE p[i - 1] * f[i] IN p

ProductOf(f, n) == PartialProducts(f, n)[n]

\* x to the n.
Power(x, n) == ProductOf([i \in 1..n |-> x], n)

=============================================================================
