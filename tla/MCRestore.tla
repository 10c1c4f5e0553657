----------------------------- MODULE MCRestore ------------------------------
(* Instances of Restore for TLC.                                           *)
EXTENDS Restore, TLC

CONSTANTS c1, c2, i1, main, b1, root, x1

Branch == i1 :> b1
=============================================================================
