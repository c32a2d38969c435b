-------------------------- MODULE MCPlcSupervisor --------------------------
(* Instances of PlcSupervisor for TLC. *)
EXTENDS PlcSupervisor, TLC

CONSTANTS x, y, none, a, b   \* model values: two variables, None, two clients

(* Two BOOLs, y right behind x. *)
MCTwoVars == {x, y}
MCOverrun == x :> {y} @@ y :> {}
MCInterests == {{x}, {y}}

MCSetters == {"listener", "modbus"}
MCTwoClients == {a, b}

MCClientSymmetry == Permutations(Watchers)
============================================================================
