----------------------------- MODULE MCFraudDesk -----------------------------
(* Instances of FraudDesk for TLC.  The streams meet only in the table of     *)
(* flags and in triage, so that a behaviour here has one of them at work,     *)
(* chosen at its beginning, and triage beside it.                             *)
EXTENDS FraudDesk, TLC

CONSTANTS c1, c2, b1, x1, x2, x3, p1
VARIABLES stream, started

\* Bound: the requests that begin in each stream.
MaxStarted == [stolen |-> 5, scalper |-> 2, announce |-> 1]

Default == [enabled |-> TRUE, window |-> 2, threshold |-> 1, bulk |-> 1, sweep |-> 2, repeat |-> 2]

MCInit ==
    /\ Init
    /\ stream \in {"stolen", "scalper", "announce"}
    /\ stream = "stolen" => redis /\ config = Default
    /\ started = 0

MCNext ==
    /\ UNCHANGED stream
    /\ \/ stream = "stolen" /\ (Registry \/ Triage)
       \/ stream # "stolen" /\ Scalpers /\ (stream = "scalper" => bought'[x3] = None)
       \/ stream = "announce" /\ Announce
       \/ \E q \in Requests : Stop(q)
    /\ started' = started + Cardinality({q \in Requests : IsIdle(q) /\ req'[q] # Idle})
    /\ started' <= MaxStarted[stream]

MCSpec == MCInit /\ [][MCNext]_<<vars, stream, started>>

\* One instance.
CertOf1 == "i1" :> c1

\* Two purchases of one buyer and a cash sale.
BuyerOf3 == x1 :> b1 @@ x2 :> b1 @@ x3 :> None
QuantityOf3 == x1 :> (p1 :> 1) @@ x2 :> (p1 :> 3) @@ x3 :> (p1 :> 3)

Configs2 == {Default, [Default EXCEPT !.enabled = FALSE]}

Symmetry ==
    {f @@ q @@ u @@ v : f \in Permutations(Flags), q \in Permutations(Requests),
                        u \in Permutations(Members), v \in Permutations(Reporters)}
=============================================================================
