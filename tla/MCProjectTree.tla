---------------------------- MODULE MCProjectTree ----------------------------
(* Small instances of ProjectTree; the constants are in the .cfg files.    *)
EXTENDS ProjectTree
=============================================================================
