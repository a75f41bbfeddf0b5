----------------------------- MODULE MCLazyWith -----------------------------
(***************************************************************************)
(* Instances of LazyWith.                                                  *)
(***************************************************************************)
EXTENDS LazyWith, TLC

CONSTANTS p1, p2

=============================================================================
