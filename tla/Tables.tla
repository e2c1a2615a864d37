-------------------------------- MODULE Tables --------------------------------
(***************************************************************************)
(* Database tables and Go maps, as functions from the keys they hold.      *)
(***************************************************************************)

\* The table in which key k has value v and the rest is as in f.
Put(f, k, v) == [j \in DOMAIN f \cup {k} |-> IF j = k THEN v ELSE f[j]]
=============================================================================
