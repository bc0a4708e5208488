----------------------------- MODULE MCGateway -----------------------------
(* Instances of Gateway for TLC. *)
EXTENDS Gateway, TLC

UpOrDown == {TRUE, FALSE}   \* Redis may be down when the proxy starts
=============================================================================
