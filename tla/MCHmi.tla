------------------------------- MODULE MCHmi -------------------------------
(* Instances of Hmi for TLC. *)
EXTENDS Hmi, TLC

CONSTANTS cli, issuer, none, get, success, failed   \* model values

MCCallers == {cli, issuer}
MCRequests == Values \union Unwritable \union {get}
MCResults == Values \union {success, failed}
============================================================================
