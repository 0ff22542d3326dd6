------------------------------- MODULE MCConn -------------------------------
(* Small instances of Conn for TLC. *)
EXTENDS ConnResponses, TLC

Symmetry == Permutations(Callers) \cup Permutations(Readers)
=============================================================================
