------------------------------ MODULE Outcome ------------------------------
(* The outcome of a call: Ok of a value, an error, or a panic. *)

Ok(v) == [ok |-> TRUE, val |-> v]
Err == [ok |-> FALSE, val |-> <<>>]
Panic == [ok |-> FALSE, val |-> <<"panic">>]

Panicked(outcome) == ~outcome.ok /\ outcome.val # <<>>
=============================================================================
