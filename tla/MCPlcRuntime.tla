--------------------------- MODULE MCPlcRuntime ---------------------------
(* Instances of PlcRuntime for TLC. *)
EXTENDS PlcRuntime

CONSTANTS listener, modbus  \* model values: the two kinds of setters

MCSetters == {listener, modbus}
MCListenerOnly == {listener}
MCAllFaults == FaultPoints
============================================================================
