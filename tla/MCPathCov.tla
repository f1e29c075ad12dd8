----------------------------- MODULE MCPathCov -----------------------------
(* An instance of PathCov: a table with fewer slots than there are keys, an  *)
(* arena that some keys fill, a label that is cut to another, keys that      *)
(* collide, keys whose search wraps round the table, and a dump that is too  *)
(* short for two of the longer keys.                                         *)
EXTENDS PathCov

CONSTANTS none, short, long, p1, p2, big

Labels == {none, short, long}
Paths == {p1, p2, big}

\* LABEL_MAX cuts the long label to the short one.
CutOf == [l \in Labels |-> IF l = long THEN short ELSE l]
\* One path id is too long for the buffer, but not with the empty label.
TooLong == {<<short, big>>, <<long, big>>}

HashOf == [key \in Labels \X Paths |-> IF key \in {<<none, p1>>, <<none, p2>>} THEN 2 ELSE 1]
BytesOf == [key \in Labels \X Paths |-> IF key[2] = p1 THEN 2 ELSE 3]
=============================================================================
