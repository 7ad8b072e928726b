----------------------------- MODULE MCRowLocks -----------------------------
(***************************************************************************)
(* Two saves, one of them the origin's, a transaction that ends its run    *)
(* and one cancel.                                                         *)
(***************************************************************************)
EXTENDS RowLocks
=============================================================================
