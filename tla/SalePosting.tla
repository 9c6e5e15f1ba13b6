---------------------------- MODULE SalePosting ----------------------------
(***************************************************************************)
(* What sale ingestion promises, without runs, statements or mappings: a   *)
(* sale is opened once, by one clerk, who alone posts its lines, each at   *)
(* most once; an attempt that is abandoned leaves the sale torn for good   *)
(* (the abandoned lines are never posted by anybody).                      *)
(***************************************************************************)
CONSTANTS Sales, Lines, SaleOf, Clerks, None

VARIABLES
    phase,    \* "new", "open", "whole" or "torn", of each sale
    clerk,    \* who opened the sale
    posted    \* the lines posted, each with the clerk who posted it

vars == <<phase, clerk, posted>>

Remaining(s, done) == {l \in Lines : SaleOf[l] = s /\ <<l, clerk'[s]>> \notin done}

Init ==
    /\ phase = [s \in Sales |-> "new"]
    /\ clerk = [s \in Sales |-> None]
    /\ posted = {}

(* A sale without lines is whole as soon as it is opened.                  *)
Open(s, c) ==
    /\ phase[s] = "new"
    /\ clerk' = [clerk EXCEPT ![s] = c]
    /\ phase' = [phase EXCEPT ![s] = IF Remaining(s, posted) = {} THEN "whole" ELSE "open"]
    /\ UNCHANGED posted

Post(l, c) ==
    LET s == SaleOf[l] IN
    /\ phase[s] = "open"
    /\ clerk[s] = c
    /\ <<l, c>> \notin posted
    /\ posted' = posted \cup {<<l, c>>}
    /\ UNCHANGED clerk
    /\ phase' = [phase EXCEPT ![s] = IF Remaining(s, posted') = {} THEN "whole" ELSE "open"]

Abandon(s) ==
    /\ phase[s] = "open"
    /\ phase' = [phase EXCEPT ![s] = "torn"]
    /\ UNCHANGED <<clerk, posted>>

Next ==
    \/ \E s \in Sales : Abandon(s) \/ \E c \in Clerks : Open(s, c)
    \/ \E l \in Lines, c \in Clerks : Post(l, c)

Spec == Init /\ [][Next]_vars
=============================================================================
