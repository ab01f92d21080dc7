---------------------------- MODULE MCGoogleSignIn ----------------------------
(* GoogleSignIn on a small instance: person p1 has two addresses and a Google  *)
(* account for each; p2 has one of each and another Google account, with an    *)
(* unverified address of p1.                                                   *)
EXTENDS GoogleSignIn, TLC

CONSTANTS p1, p2, a1, a2, b1, g1, g2, h1, x1, c1, c2

TheAddressOf == (g1 :> a1) @@ (g2 :> a2) @@ (h1 :> b1) @@ (x1 :> a1)
TheOwnerOf   == [x \in {a1, a2, g1, g2} |-> p1] @@ [x \in {b1, h1, x1} |-> p2]

Symmetry == Permutations(Callbacks)
===============================================================================
