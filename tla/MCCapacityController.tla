------------------------- MODULE MCCapacityController --------------------------
(* Intents, signals and node operations meet only in the worker's runs, so what can be
   requested of each is checked apart from the others. *)
EXTENDS CapacityController

CONSTANTS k1, s1

Load(keys, signals, ops, assign, waits) ==
  [keys |-> keys, signals |-> signals, ops |-> ops, assign |-> assign, waits |-> waits]

MCLoads == {
  Load(Keys, {}, 0, TRUE, 1), Load({k1}, {s1}, 0, FALSE, 0),
  Load({}, {}, 1, FALSE, 1), Load({}, {}, MaxOps, FALSE, 0)}
MCAssigns == {Load({}, {}, MaxOps, TRUE, 0)}
=============================================================================
