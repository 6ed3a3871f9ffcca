------------------------------ MODULE MCReconciler ------------------------------
(* A small instance of Reconciler for TLC. *)
EXTENDS Reconciler
=============================================================================
