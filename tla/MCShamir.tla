------------------------------ MODULE MCShamir ------------------------------
(* Shamir over a field TLC can enumerate. *)
EXTENDS Shamir

\* The recursive functions of the model compute what the library's operators do.
ASSUME ReferenceDefinitions ==
    \A t \in Tokens :
       /\ StripSpaces(t) = SelectSeq(t, LAMBDA b : b # Space)
       /\ ToInt(t) = FoldLeft(LAMBDA n, b : n * Base + b, 0, t)
       /\ Power(Base, Len(t)) = Base^Len(t)

=============================================================================
