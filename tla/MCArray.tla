------------------------------ MODULE MCArray -------------------------------
(***************************************************************************)
(* Instances of Array: elements of three bytes, capacities of a few slots. *)
(***************************************************************************)
EXTENDS Array
=============================================================================
