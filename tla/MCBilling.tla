------------------------------ MODULE MCBilling ------------------------------
(* Billing on small instances. *)
EXTENDS Billing, TLC

CONSTANTS p1, p2, k1, k2, c1, c2, d1, d2, ebook, pro

Symmetry == Permutations({k1, k2}) \cup Permutations({c1, c2})
                \cup Permutations({d1, d2}) \cup Permutations({p1, p2})
===============================================================================
