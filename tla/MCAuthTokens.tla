---------------------------- MODULE MCAuthTokens ----------------------------
(* Instances of AuthTokens for TLC.                                        *)
EXTENDS AuthTokens, TLC

Symmetry ==
    {ws @@ ts @@ zs @@ qs : ws \in Permutations(Passwords), ts \in Permutations(Tokens),
                            zs \in Permutations(Resets), qs \in Permutations(Requests)}
=============================================================================
