--------------------------- MODULE MCFaucetIntake ---------------------------
(* Model values and symmetry for checking FaucetIntake with TLC. *)
EXTENDS FaucetIntake, TLC

CONSTANTS r1, r2, r3, alice, bob, carol, k1, k2, k3, s1, h1, h2

Symmetry ==
    Permutations({h1, h2})
        \cup Permutations(Ids)
        \cup Permutations(Addresses)
        \cup Permutations(ClientKeys)
=============================================================================
