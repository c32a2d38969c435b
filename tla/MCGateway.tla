----------------------------- MODULE MCGateway -----------------------------
(* Instances of Gateway for TLC. *)
EXTENDS Gateway, TLC

CONSTANTS m1, m2, none   \* model values: two messages, and null

MCMessages == {m1, m2}
============================================================================
