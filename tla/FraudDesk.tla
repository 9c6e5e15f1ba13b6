------------------------------ MODULE FraudDesk ------------------------------
(***************************************************************************)
(* The fraud desk of a workspace: both streams that raise flags, the       *)
(* stolen registry and scalper detection, over the one table of flags that *)
(* its members triage.  They share the pool of requests, and meet in the   *)
(* flags.                                                                  *)
(***************************************************************************)
EXTENDS StolenRegistry, ScalperRules

vars == <<flagVars, req, registryVars, scalperVars>>

Init == FlagInit /\ RegistryInit /\ ScalperInit

Triage == TriageStep /\ UNCHANGED <<registryVars, scalperVars>>
Announce == AnnounceStep /\ UNCHANGED <<registryVars, scalperVars>>
Registry == RegistryStep /\ UNCHANGED scalperVars
Scalpers == ScalperStep /\ UNCHANGED registryVars

Stop(q) ==
    /\ StopRequest(q)
    /\ torn' = torn \cup Tears(q)
    /\ UNCHANGED <<reports, disputes, private, verdicts, crossed, doubled, scalperVars>>

Next == Triage \/ Announce \/ Registry \/ Scalpers \/ \E q \in Requests : Stop(q)

Spec == Init /\ [][Next]_vars

\* Rows have their types, and a request is at a statement of its handler and
\* holds what the statement needs.
TypeOK ==
    /\ FlagTypeOK /\ RegistryTypeOK /\ ScalperTypeOK
    /\ DOMAIN req = Requests
    /\ \A q \in Requests : \/ req[q] \in {Idle} \cup TriageReq \cup AnnounceReq \cup RegistryReq
                           \/ req[q].pc \in ScanLabels
=============================================================================
