------------------------------ MODULE MCLifecycle ------------------------------
(* Lifecycle on a small instance: an old build with one migration and a new    *)
(* one with two on the same database file, and one client address.             *)
EXTENDS Lifecycle, TLC

CONSTANTS old, new, c, r1, sweep

TheFiles == (old :> 1) @@ (new :> 2)
TheKeys  == Procs \X Clients
TheDisabled == {<<old, sweep>>}
TheFrom  == [r \in Requests |-> c]
===============================================================================
