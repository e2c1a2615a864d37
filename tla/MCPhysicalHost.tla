--------------------------- MODULE MCPhysicalHost ---------------------------
(* Small instances of PhysicalHost; the constants are in the .cfg files.   *)
EXTENDS PhysicalHost
=============================================================================
