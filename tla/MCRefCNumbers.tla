--------------------------- MODULE MCRefCNumbers ---------------------------
(* An instance of RefCNumbers: types of 3, 4, 5 and 6 bits, and more code    *)
(* points than a byte has.                                                  *)
EXTENDS RefCNumbers

W == [t \in Fixed |-> CASE t \in {"Int8", "Bits8", "Char"} -> 3
                        [] t \in {"Int16", "Bits16"} -> 4
                        [] t \in {"Int32", "Bits32"} -> 5
                        [] t \in {"Int64", "Bits64"} -> 6]

\* The ends of each type, and what is near zero; the Integers and Texts reach
\* past the 64-bit type.
L == [t \in Type |->
        CASE t = "Char" -> {0, 1, 3, 4, 7, 8, 10, 17}
          [] t \in Unsigned -> {0, 1, 2, 3, 2 ^ W[t] - 1, 2 ^ (W[t] - 1)}
          [] t \in Signed -> {-3, -2, -1, 0, 1, 2, 3, 2 ^ (W[t] - 1) - 1, -(2 ^ (W[t] - 1))}
          [] t = "Integer" -> {-70, -7, -3, -1, 0, 1, 2, 5, 31, 32, 64}
          [] t = "Text" -> {-33, -32, -5, 0, 7, 15, 16, 31, 32, 63}]

\* Code points past a byte, with a gap in them as for the surrogates.
C == (0 .. 12) \cup (15 .. 20)
=============================================================================
