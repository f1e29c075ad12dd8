------------------------------ MODULE MCModTree ------------------------------
(* An instance of ModTree: C imports B, and B imports A publicly.           *)
EXTENDS ModTree

Tree == [m \in Module |-> CASE m = "A" -> <<>>
                            [] m = "B" -> <<"A">>
                            [] m = "C" -> <<"B">>]
PublicImports == {<<"B", "A">>}

\* A gets another interface or is only touched; B and C get a body that is
\* not total, or C gets one under %default partial.
First    == [iface |-> 0, passes |-> 1, default |-> NoDefault]
NotTotal == [First EXCEPT !.passes = 0]
EditsOf  == {<<"A", [First EXCEPT !.iface = 1]>>, <<"A", First>>,
             <<"B", NotTotal>>, <<"C", NotTotal>>, <<"C", [First EXCEPT !.default = 0]>>}

\* The only order there is.
Chain(files) == <<"A", "B", "C">>

\* A main file, without and with --total, and a package.
Goals == {[files |-> <<"C">>, main |-> "C", req |-> 0],
          [files |-> <<"C">>, main |-> "C", req |-> 1],
          [files |-> <<"B", "C">>, main |-> "none", req |-> 0]}
=============================================================================
