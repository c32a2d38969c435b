------------------------------- MODULE MCViz -------------------------------
(* Instances of Viz for TLC. *)
EXTENDS Viz

CONSTANTS plc, motor, none, mine, other   \* model values

MCDevices == {plc, motor}
MCMotors == {motor}
============================================================================
