---------------------------- MODULE MCBuildOrder ----------------------------
(* An instance of BuildOrder: every graph of three modules with at most two *)
(* imports each, in every order, one of the modules possibly missing or with *)
(* a header that does not parse; and diamonds and cycles of four modules.   *)
EXTENDS BuildOrder

Lists(S) == {s \in UNION {[1..n -> S] : n \in 0..2} : IsInjective(s)}

Three == {"A", "B", "C"}
ThreeModules ==
  {[imports |-> [m \in Module |-> IF m \in Three THEN g[m] ELSE <<>>],
    missing |-> b[1], broken |-> b[2], files |-> f] :
     g \in [Three -> Lists(Three)],
     b \in {<<{}, {}>>, <<{"C"}, {}>>, <<{}, {"C"}>>},
     f \in {<<"A">>, <<"A", "B">>}}

FourModules ==
  {[imports |-> [m \in Module |-> CASE m = "A" -> a [] m = "B" -> b [] m = "C" -> c [] m = "D" -> d],
    missing |-> {}, broken |-> {}, files |-> <<"D", "A">>] :
     a \in Lists({"B", "C", "D"}), b \in Lists({"C", "D"}),
     c \in Lists({"A", "D"}), d \in {<<>>, <<"B">>}}

Small == ThreeModules \cup FourModules
=============================================================================
