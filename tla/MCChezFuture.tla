---------------------------- MODULE MCChezFuture ----------------------------
(* An instance of ChezFuture: three futures await the same one, and main      *)
(* awaits two of these, of which one raises an exception.                     *)
EXTENDS ChezFuture

CONSTANTS main, left, right, base, bad

Futures == {main, left, right, base, bad}
NeedsOf ==
    [f \in Futures |-> CASE f = main -> {left, bad}
                         [] f = base -> {}
                         [] OTHER -> {base}]
=============================================================================
