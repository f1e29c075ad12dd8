------------------------------ MODULE MCPopen2 ------------------------------
(* An instance of Popen2: two children that two threads start.              *)
EXTENDS Popen2

\* The program writes to one child and reads from the other.
Sends == [k \in Child |-> IF k = "c1" THEN 1 ELSE 0]
Says  == [k \in Child |-> IF k = "c2" THEN 1 ELSE 0]
=============================================================================
