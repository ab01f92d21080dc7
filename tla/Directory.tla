------------------------------- MODULE Directory -------------------------------
(***************************************************************************)
(* What the users table promises to every part of the program, whoever     *)
(* inserts into it and deletes from it: at most one row for an address, an *)
(* id that is given out once for all time, and a row that keeps its        *)
(* address. Billing, Accounts and GoogleSignIn each model the table with   *)
(* what they need of its other columns, and each implements this           *)
(* specification.                                                          *)
(***************************************************************************)
EXTENDS Integers

CONSTANTS
  Holders,   \* whom a row can belong to, told apart by their address
  Ids,       \* the ids that may ever be given to a row
  NoHolder   \* what the map of a free id is

VARIABLES
  holder,   \* id -> whose row has it, or NoHolder
  last      \* sqlite_sequence: the largest id ever given to a row

table == <<holder, last>>

Init ==
  /\ holder = [u \in Ids |-> NoHolder]
  /\ last = 0

\* UNIQUE(email) and AUTOINCREMENT.
Add(p) ==
  /\ \A u \in Ids : holder[u] # p
  /\ last + 1 \in Ids
  /\ last' = last + 1
  /\ holder' = [holder EXCEPT ![last + 1] = p]

Remove(u) ==
  /\ holder' = [holder EXCEPT ![u] = NoHolder]
  /\ last' = last

Next ==
  \/ \E p \in Holders : Add(p)
  \/ \E u \in Ids : Remove(u)

Spec == Init /\ [][Next]_table

\* An address has one row at most.
OneRowEach == \A u, w \in Ids : holder[u] \in Holders /\ holder[u] = holder[w] => u = w
===============================================================================
