------------------------- MODULE MCReconcileReport -------------------------
(* Instances of ReconcileReport for TLC.                                   *)
EXTENDS ReconcileReport, TLC

CONSTANTS k1, k2, p1, p2

\* Two SKUs of two printings, and a single SKU.
OwnPrintings == (k1 :> p1) @@ (k2 :> p2)
OneSku == k1 :> p1

\* The two SKUs are alike, each together with its printing.
SkusAlike == {(k1 :> k2) @@ (k2 :> k1) @@ (p1 :> p2) @@ (p2 :> p1)}

NegativeToOne == -1..1
ZeroToOne == 0..1
=============================================================================
