----------------------------- MODULE MCDiscovery -----------------------------
(* A small instance of Discovery; the constants are in MCDiscovery.cfg.     *)
EXTENDS Discovery
=============================================================================
