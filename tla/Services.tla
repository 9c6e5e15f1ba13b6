------------------------------- MODULE Services -------------------------------
(***************************************************************************)
(* What the program asks of services outside: the graders about            *)
(* certificates, the price guides about prices, the TCG API about the      *)
(* identity of cards, and the POS providers for a connection, its sales    *)
(* and its products.  The four share no row.                               *)
(***************************************************************************)
EXTENDS Grading, Valuations, CardSearch, PosConnect

vars == <<gradingVars, valuationVars, searchVars, connVars>>

Init == GradingInit /\ ValuationsInit /\ SearchInit /\ ConnectInit

Verify == GradingStep /\ UNCHANGED <<valuationVars, searchVars, connVars>>
Appraise == ValuationsStep /\ UNCHANGED <<gradingVars, searchVars, connVars>>
Identify == SearchStep /\ UNCHANGED <<gradingVars, valuationVars, connVars>>
Connect == FlowStep /\ UNCHANGED <<gradingVars, valuationVars, searchVars>>
FetchPage == FetchStep /\ UNCHANGED <<gradingVars, valuationVars, searchVars>>

Next == Verify \/ Appraise \/ Identify \/ Connect \/ FetchPage

Spec == Init /\ [][Next]_vars
=============================================================================
