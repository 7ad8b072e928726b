---------------------------- MODULE MCRetention ----------------------------
(***************************************************************************)
(* Instances of Retention with one diagnostic family, one or two operators *)
(* and two archive paths; a load needs the newest diagnostic.              *)
(***************************************************************************)
EXTENDS Retention, TLC

Interchangeable == Permutations(Operators) \cup Permutations(Files)
=============================================================================
