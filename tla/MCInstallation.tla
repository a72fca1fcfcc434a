---------------------------- MODULE MCInstallation ----------------------------
(* One shared migration and two of the example module (the release has one and *)
(* three), which leaves a history empty, partial or full.                      *)
EXTENDS Installation

MCMigrations == [s \in Schema |-> IF s = "bc_shared" THEN 1 ELSE 2]
===============================================================================
