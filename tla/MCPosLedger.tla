---------------------------- MODULE MCPosLedger ----------------------------
(* Instances of PosLedger for TLC.                                         *)
EXTENDS PosLedger, TLC

CONSTANTS s1, s2, l1, l2, l3, k1, k2

\* Two sales of one line each, both of the only SKU.
OneSkuSaleOf == (l1 :> s1) @@ (l2 :> s2)
OneSkuSkuOf == (l1 :> k1) @@ (l2 :> k1)

\* A sale of two lines and a sale of one.
ThreeLineSaleOf == (l1 :> s1) @@ (l2 :> s1) @@ (l3 :> s2)
ThreeLineSkuOf == (l1 :> k1) @@ (l2 :> k1) @@ (l3 :> k1)

\* Printings are interchangeable and, in the specification without fairness,
\* which does not name Scheduler, so are runs and mapping requests.
NoSaleSymmetry ==
    {rn @@ ad @@ pr : rn \in Permutations(Runs), ad \in Permutations(Admins),
                      pr \in Permutations(Printings)}
=============================================================================
