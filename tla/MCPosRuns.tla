------------------------------ MODULE MCPosRuns ------------------------------
(* Instances of PosLedger for TLC: the runs overlap while one mapping is      *)
(* being created or one of them ends early, or one run is at work among       *)
(* several mapping requests.                                                  *)
EXTENDS MCPosLedger

Overlapping ==
    /\ requests + stops <= 1
    /\ \A a \in Admins : admin[a].op \in {"create", None}
    /\ \A r \in Runs : run[r].pc # "list"

OneRunAtWork ==
    /\ made \subseteq {s1}
    /\ \E r \in Runs : /\ \A q \in Runs \ {r} : run[q].pc = "idle"
                       /\ \A t \in txns : t.by = r

\* Bound: overlapping runs among several requests are left out, for their
\* number of states alone.
Within == Overlapping \/ OneRunAtWork

\* The lines of the first sale are interchangeable.
SwapLines == (l1 :> l2) @@ (l2 :> l1) @@ (l3 :> l3)
KeepLines == (l1 :> l1) @@ (l2 :> l2) @@ (l3 :> l3)
RunSymmetry == {ln @@ sy : ln \in {SwapLines, KeepLines}, sy \in NoSaleSymmetry}
=============================================================================
