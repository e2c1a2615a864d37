---------------------------- MODULE MCHubDispatch ----------------------------
(* Small instances of HubDispatch; the constants are in the .cfg files.    *)
EXTENDS HubDispatch
=============================================================================
