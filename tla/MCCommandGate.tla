--------------------------- MODULE MCCommandGate ---------------------------
(***************************************************************************)
(* The gate for TLC, over MCRuntimePolicy's documents and commands.        *)
(***************************************************************************)
EXTENDS CommandGate, MCRuntimePolicy
=============================================================================
