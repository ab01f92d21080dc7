-------------------------------- MODULE MCSite --------------------------------
(* Site on a small instance: a person with two addresses, one of them an admin. *)
EXTENDS Site

CONSTANTS a, b

Deployed  == [google |-> TRUE, stripe |-> TRUE, debug |-> FALSE, products |-> Product]
Developed == [google |-> FALSE, stripe |-> FALSE, debug |-> TRUE, products |-> Product]
TheConfs  == {Deployed, Developed}
ByMail    == {Developed}
===============================================================================
