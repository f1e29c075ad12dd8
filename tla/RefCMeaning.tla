---------------------------- MODULE RefCMeaning ----------------------------
(***************************************************************************)
(* What the language says that a program of RefCCode means, to compare     *)
(* with what the emitted code returns.                                     *)
(***************************************************************************)
EXTENDS RefCCode

(***************************************************************************)
(* The value of a cell, as the language sees it: a finite tree.            *)
(***************************************************************************)
NullTree == [kind |-> "null", name |-> NoName, args |-> <<>>]

RECURSIVE TreeTo(_, _, _)
TreeTo(depth, h, v) ==
    IF v = Null \/ depth = 0 THEN NullTree
    ELSE [kind |-> h[v].kind, name |-> h[v].name,
          args |-> [i \in DOMAIN h[v].args |-> TreeTo(depth - 1, h, h[v].args[i])]]

\* No value is deeper than the heap has cells.
TreeOf(h, v) == TreeTo(MaxCells, h, v)

(***************************************************************************)
(* What the language says a term means.  A closure is a tree of kind "clo" *)
(* with the arguments it has; an IORef, and an array, is its place in the  *)
(* store.                                                                  *)
(***************************************************************************)
RECURSIVE Eval(_, _, _)
Eval(t, env, store) ==
    LET result(v) == [tree |-> v, store |-> store]
        trees == [i \in DOMAIN t.args |-> env[t.args[i]]]
        tree(kind, name, args) == [kind |-> kind, name |-> name, args |-> args]
        enter(f, args) == Eval(Defs[f].body, Binding(Defs[f].params, args), store)
    IN  CASE t.op = "var" -> result(env[t.x])
          [] t.op = "call" -> enter(t.fn, trees)
          [] t.op = "under" -> result(tree("clo", t.fn, trees))
          [] t.op = "app" ->
                LET clo == env[t.closure]
                    args == Append(clo.args, env[t.arg])
                IN  IF Len(args) = Arity(clo.name) THEN enter(clo.name, args)
                    ELSE result(tree("clo", clo.name, args))
          [] t.op = "let" ->
                LET value == Eval(t.value, env, store)
                IN  Eval(t.body, (t.x :> value.tree) @@ env, value.store)
          [] t.op = "con" ->
                result(IF t.con \in NullCons THEN NullTree ELSE tree("con", t.con, trees))
          [] t.op = "case" ->
                LET sc == env[t.sc]
                    branch == CHOOSE b \in Branches(t, sc = NullTree, sc.name) : TRUE
                IN  Eval(branch.body, Binding(branch.args, sc.args) @@ env, store)
          [] t.op = "ext" /\ t.prim \in {"newIORef", "newArray"} ->
                [tree |-> tree(IF t.prim = "newIORef" THEN "ref" ELSE "array", NoName,
                               <<Len(store) + 1>>),
                 store |-> Append(store, [i \in 1..t.at |-> trees[1]])]
          [] t.op = "ext" /\ t.prim \in {"readIORef", "arrayGet"} ->
                result(store[trees[1].args[1]][t.at])
          [] t.op = "ext" /\ t.prim \in {"writeIORef", "arraySet"} ->
                [tree |-> NullTree,
                 store |-> [store EXCEPT ![trees[1].args[1]][t.at] = trees[2]]]

RECURSIVE Resolved(_, _)
Resolved(tree, store) ==
    LET held == IF tree.kind \in {"ref", "array"} THEN store[tree.args[1]] ELSE tree.args
    IN  [tree EXCEPT !.args = [i \in DOMAIN held |-> Resolved(held[i], store)]]

\* What main returns, with the IORefs and arrays as they are at the end.
Meaning ==
    LET trees == [x \in DOMAIN start.locals |-> TreeOf(start.heap, start.locals[x])]
        result == Eval(start.main, trees, <<>>)
    IN  Resolved(result.tree, result.store)

\* Building in place cannot be seen: the program returns what the language
\* says it means.
ResultCorrect ==
    now.kind = "return" /\ stack = <<>> /\ drops = <<>> => TreeOf(heap, now.value) = Meaning
=============================================================================
