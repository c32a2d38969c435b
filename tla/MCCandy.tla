------------------------------ MODULE MCCandy ------------------------------
(* Instances of Candy, and with it of CandyFactory, for TLC. *)
EXTENDS Candy
============================================================================
