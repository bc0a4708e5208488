---------------------------- MODULE MCHandshake ----------------------------
(* Instances of Handshake for TLC. *)
EXTENDS Handshake, TLC

\* Requests are interchangeable, and so are challenges.
Interchangeable == Permutations(Requests) \cup Permutations(Challenges)

Up == {TRUE}            \* Redis answers the PING of every startup
BehindUtc == -1         \* a host whose local time is a tick behind UTC
UpOrDown == {TRUE, FALSE}
=============================================================================
