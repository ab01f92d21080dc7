------------------------------- MODULE MCPaging -------------------------------
(* Paging with pages of two, and a search that leaves out every third user.    *)
EXTENDS Paging

CONSTANTS all, some

TheMatch == [q \in Queries |-> IF q = all THEN 1 .. MaxId ELSE {i \in 1 .. MaxId : i % 3 # 0}]
===============================================================================
