----------------------------- MODULE MCRefCCode -----------------------------
(***************************************************************************)
(* Instances of RefCCode: families of small programs over two data types,  *)
(* trees L | N t t (L is erased to NULL) and pairs R t t, with closures    *)
(* from trees to trees, and starts in which the data is held by nobody     *)
(* else, is also held elsewhere, once or as often as can be counted, or is *)
(* the same under two names.                                               *)
(***************************************************************************)
EXTENDS RefCMeaning, ANF

V(x) == [op |-> "var", x |-> x, args |-> <<>>]
Call(f, args) == [op |-> "call", fn |-> f, args |-> args]
Under(f, args) == [op |-> "under", fn |-> f, args |-> args]
App(f, x) == [op |-> "app", closure |-> f, arg |-> x, args |-> <<>>]
Let(x, value, body) == [op |-> "let", x |-> x, value |-> value, body |-> body, args |-> <<>>]
Con(con, args) == [op |-> "con", con |-> con, args |-> args]
\* at: the length or the index, which are literals
ExtAt(prim, args, at) == [op |-> "ext", prim |-> prim, args |-> args, at |-> at]
Ext(prim, args) == ExtAt(prim, args, 1)
Alt(con, args, body) == [con |-> con, args |-> args, body |-> body]
Case(sc, alts, def) == [op |-> "case", sc |-> sc, alts |-> alts, def |-> def, args |-> <<>>]
CaseTree(sc, p, q, node, leaf) == Case(sc, <<Alt("N", <<p, q>>, node), Alt("L", <<>>, leaf)>>, <<>>)
CaseNode(sc, p, q, node, other) == Case(sc, <<Alt("N", <<p, q>>, node)>>, <<other>>)
CasePair(sc, p, q, body) == Case(sc, <<Alt("R", <<p, q>>, body)>>, <<>>)

MCNullCons == {"L"}

Fun(params, body) == [params |-> params, body |-> body]
MCDefs == [
    pair |-> Fun(<<"d1", "d2">>, Con("N", <<"d1", "d2">>)),
    const |-> Fun(<<"d1", "d2">>, V("d1")),
    swap |-> Fun(<<"d1">>, CaseTree("d1", "d3", "d4", Con("N", <<"d4", "d3">>), V("d1"))),
    mirror |-> Fun(<<"d1">>, CaseTree("d1", "d3", "d4",
                    Let("d5", Call("mirror", <<"d3">>),
                        Let("d6", Call("mirror", <<"d4">>), Con("N", <<"d6", "d5">>))),
                    Con("L", <<>>))),
    loop |-> Fun(<<"d1", "d2">>, CaseTree("d1", "d3", "d4",
                    Let("d5", Con("N", <<"d3", "d2">>), Call("loop", <<"d4", "d5">>)),
                    V("d2"))),
    twice |-> Fun(<<"g", "d1">>, Let("d2", App("g", "d1"), App("g", "d2")))]

MCName == {"N", "L", "R", NoName} \cup DOMAIN MCDefs

Unary == {"swap", "mirror"}
Binary == {"pair", "const", "loop"}

\* A term whose value is a tree, made from the tree variables in data.
Leaf(data) ==
    {V(d) : d \in data}
    \cup {Con("L", <<>>)}
    \cup {Con("N", <<d, e>>) : d, e \in data}
    \cup {Call(f, <<d>>) : f \in Unary, d \in data}
SmallLeaf(data) ==
    {Con("N", <<d, e>>) : d, e \in data} \cup {Call("mirror", <<d>>) : d \in data}
Pairs(data) == {Con("R", <<d, e>>) : d, e \in data}
Calls(data) == {Call(f, <<d, e>>) : f \in Binary, d, e \in data}

Straight ==
    Leaf({"a", "b"}) \cup Calls({"a", "b"})
    \cup {Let("x", v, t) : v \in Leaf({"a", "b"}) \cup Calls({"a", "b"}),
                           t \in Leaf({"a", "b", "x"}) \cup Calls({"a", "x"})}

Branching ==
    {CaseTree("a", "p", "q", Let("x", v, t), Con("N", <<"a", "b">>)) :
        v \in Leaf({"p", "q", "b"}), t \in SmallLeaf({"a", "x", "q"})}
    \cup {Let("x", CaseNode("a", "p", "q", v, V("b")), t) :
        v \in Leaf({"p", "q", "b"}), t \in SmallLeaf({"a", "x", "b"})}

\* Two scrutinees of the same constructor, or of different ones.
Nested ==
    {CaseNode("a", "p", "q", CaseNode("b", "s", "t", Let("x", v, w), Con("N", <<"q", "p">>)), V("b")) :
        v \in {Con("N", <<d, e>>) : d, e \in {"p", "s", "t"}},
        w \in Pairs({"x", "q"}) \cup {Con("N", <<"x", "q">>), Con("N", <<"q", "x">>)}}
    \cup {CasePair("r", "p", "q", CaseNode("a", "s", "t", Let("x", v, w), Con("R", <<"q", "p">>))) :
        v \in SmallLeaf({"s", "t", "p"}) \cup Pairs({"s", "p"}),
        w \in Pairs({"x", "q"}) \cup SmallLeaf({"q", "t"})}

Higher ==
    {Let("c", Under(f, <<d>>), Let("x", App(g, e), t)) :
        f \in Binary, g \in {"c", "f"}, d \in {"a", "b"}, e \in {"a", "b"},
        t \in {App("c", "x"), App("f", "x"), App("f", "a"), V("x"), Call("twice", <<"c", "x">>),
               Con("N", <<"x", "b">>), Call("twice", <<"f", "a">>)}}

RefPrograms ==
    {Let("i", Ext("newIORef", <<d>>),
        Let("u", Ext("writeIORef", <<"i", e>>),
            Let("x", Ext("readIORef", <<"i">>), t))) :
        d \in {"a", "b"}, e \in {"a", "b"}, t \in Leaf({"a", "x"}) \cup {Ext("readIORef", <<"i">>)}}

\* An array of two; a place is set once, set again, read back or not.
ArrayPrograms ==
    {Let("i", ExtAt("newArray", <<d>>, 2),
        Let("u", ExtAt("arraySet", <<"i", e>>, m),
            Let("x", ExtAt("arrayGet", <<"i">>, 1), t))) :
        d \in {"a", "b"}, e \in {"a", "b"}, m \in {1, 2},
        t \in Leaf({"x", "b"}) \cup {ExtAt("arrayGet", <<"i">>, 2), V("i"),
                                   Let("u2", ExtAt("arraySet", <<"i", "x">>, 1), V("i"))}}

\* A term needs the terms it is made of: none of these nests deeper than this.
WithSubterms(terms) == terms \cup UNION {Subterms(t) : t \in terms}

AllPrograms == Straight \cup Branching \cup Nested \cup Higher \cup RefPrograms \cup ArrayPrograms

Bodies == AllPrograms \cup {MCDefs[f].body : f \in DOMAIN MCDefs}
AllTerms == WithSubterms(WithSubterms(WithSubterms(WithSubterms(Bodies))))

(***************************************************************************)
(* Starts                                                                  *)
(***************************************************************************)
At(rc, kind, name, args) == [kind |-> kind, rc |-> rc, name |-> name, args |-> args]
Filled(cells) == [c \in Cell |-> IF c \in DOMAIN cells THEN cells[c] ELSE FreeCell]
Params(a, b, r, f) == [x \in {"a", "b", "r", "f"} |->
    CASE x = "a" -> a [] x = "b" -> b [] x = "r" -> r [] x = "f" -> f]

\* extra: how many other references there are to the four parameters, and
\* child: to the child of a.
Start(extra, child) ==
    LET more == IF extra > 1 THEN 1 ELSE extra      \* to the closure
    IN  [heap |-> Filled(<<At(1 + extra, "con", "N", <<2, 0>>), At(1 + child, "con", "N", <<0, 0>>),
                           At(1 + extra, "con", "N", <<0, 0>>),
                           At(1 + extra, "con", "R", <<5, 0>>), At(1, "con", "N", <<0, 0>>),
                           At(1 + more, "clo", "loop", <<7>>), At(1, "con", "N", <<0, 0>>)>>),
         locals |-> Params(1, 3, 4, 6),
         outside |-> [c \in Cell |-> CASE c \in {1, 3, 4} -> extra [] c = 2 -> child
                                       [] c = 6 -> more [] OTHER -> 0],
         shared |-> (IF extra > 0 THEN {1, 2, 3, 4, 5, 6, 7} ELSE {})
                    \cup (IF child > 0 THEN {2} ELSE {})]

\* Counters one below the maximum, and at it
NearLimit == Start(RcMax - 2, RcMax - 2)
AtLimit == Start(RcMax - 1, 0)

\* a and b are one tree, which is also in the pair and in the closure; its two
\* children are one tree.
Aliased ==
    [heap |-> Filled(<<At(4, "con", "N", <<2, 2>>), At(2, "con", "N", <<0, 0>>),
                       At(1, "con", "R", <<1, 0>>), At(1, "clo", "pair", <<1>>)>>),
     locals |-> Params(1, 1, 3, 4),
     outside |-> [c \in Cell |-> 0],
     shared |-> {}]

Memories == {Start(0, 0), Start(1, 0), NearLimit, AtLimit, Aliased}
MCStarts == {[main |-> t] @@ memory : t \in AllPrograms, memory \in Memories}
=============================================================================
