--------------------------- MODULE MCReplication ---------------------------
(* Instances of Replication for TLC. *)
EXTENDS Replication, TLC

CONSTANTS e, f, g, none  \* model values: three stimuli, and none

MCThree == {e, f, g}
MCTimestamps == e :> 0 @@ f :> 1 @@ g :> 3
============================================================================
