----------------------------- MODULE MCOpenChanges -----------------------------
(* A small instance of OpenChanges for TLC: three changes of a project that   *)
(* includes all open changes, one change of a FROM_NOW project.               *)
EXTENDS OpenChanges, TLC

CONSTANTS a1, a2, a3, b1, a, b

OfProject == (a1 :> a) @@ (a2 :> a) @@ (a3 :> a) @@ (b1 :> b)
StartOfReview == (a :> None) @@ (b :> 1)
=============================================================================
