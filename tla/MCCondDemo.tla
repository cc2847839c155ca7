----------------------------- MODULE MCCondDemo -----------------------------
(***************************************************************************)
(* The demo with the numbers of the source: two consumers, one producer,   *)
(* two batches of five products.                                           *)
(***************************************************************************)
EXTENDS CondDemo
=============================================================================
