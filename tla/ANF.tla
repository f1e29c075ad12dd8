-------------------------------- MODULE ANF --------------------------------
(***************************************************************************)
(* Compiler/ANF.idr: the variables a term needs and the constructors it    *)
(* builds.  RefCCode knows of them what its assumption says.               *)
(***************************************************************************)
EXTENDS Sequences, SequencesExt

RECURSIVE freeVariables(_)
freeVariables(t) ==
    CASE t.op \in {"call", "under", "con", "ext"} -> ToSet(t.args)
      [] t.op = "var" -> {t.x}
      [] t.op = "app" -> {t.closure, t.arg}
      [] t.op = "let" ->
            freeVariables(t.value) \cup (freeVariables(t.body) \ {t.x})
      [] t.op = "case" ->
            {t.sc}
            \cup UNION {freeVariables(alt.body) \ ToSet(alt.args) : alt \in ToSet(t.alts)}
            \cup UNION {freeVariables(body) : body \in ToSet(t.def)}

RECURSIVE usedConstructors(_)
usedConstructors(t) ==
    CASE t.op = "con" -> {t.con}
      [] t.op = "let" -> usedConstructors(t.value) \cup usedConstructors(t.body)
      [] t.op = "case" ->
            UNION {usedConstructors(alt.body) : alt \in ToSet(t.alts)}
            \cup UNION {usedConstructors(body) : body \in ToSet(t.def)}
      [] OTHER -> {}
=============================================================================
