---------------------------- MODULE MCSearchAsync ----------------------------
(* Instances of SearchAsync for TLC: see the MCSearchAsync*.cfg files. *)
EXTENDS SearchAsync
=============================================================================
