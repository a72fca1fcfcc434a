------------------------- MODULE MCManifestValidation -------------------------
(* Three modules: every graph with cycles of each length, and shared dependencies. *)
EXTENDS ManifestValidation

MCModule == 1 .. 3
===============================================================================
