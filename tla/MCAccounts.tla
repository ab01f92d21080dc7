------------------------------ MODULE MCAccounts ------------------------------
(* Accounts on small instances. *)
EXTENDS Accounts, TLC

CONSTANTS p1, p2, t1, t2, t3, s1, s2, v1, v2, q1, q2

\* A tick is a quarter of an hour, a link's lifetime: the clocks are set back by
\* an hour at the instant 3, which the clock of these runs does not reach.
TheOffset == [t \in Instant |-> IF t < 3 THEN 4 ELSE 0]

Symmetry == Permutations(People) \cup Permutations(Tokens) \cup Permutations(Sessions)
              \cup Permutations(Verifies) \cup Permutations(Requests)
===============================================================================
