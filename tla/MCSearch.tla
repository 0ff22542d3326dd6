------------------------------ MODULE MCSearch ------------------------------
(* Instances of Search for TLC: see the MCSearch*.cfg files. *)
EXTENDS Search
=============================================================================
