-------------------------- MODULE MCTeamMembership --------------------------
(* Instances of TeamMembership for TLC.                                    *)
EXTENDS TeamMembership, TLC

Symmetry ==
    {us @@ is @@ qs : us \in Permutations(Users \ {Founder}), is \in Permutations(Invites),
                      qs \in Permutations(Requests)}

(* A bound: a behaviour is followed up to the first race, of two decisions *)
(* or of two answers to one invitation.                                    *)
UpToARace == ~raced /\ crossed = {}
=============================================================================
