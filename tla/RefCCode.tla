------------------------------ MODULE RefCCode ------------------------------
(***************************************************************************)
(* What the code that Compiler/RefC/RefC.idr emits for a program in A      *)
(* normal form does to the memory of RefCMemory.  The code generator       *)
(* threads an environment through a definition: the variables the code     *)
(* owns (it must pass on or drop one reference of each) and the            *)
(* constructors it may build in place.  Each path through the emitted code *)
(* has its own sequence of environments, so a machine that runs one path   *)
(* carries the environment along and performs, at each node, the calls     *)
(* emitted for it.                                                         *)
(*                                                                         *)
(* A term is a record whose field op names the constructor of ANF; names   *)
(* of variables are those of one definition, which are all different.      *)
(* Programs are typed: there is no step that applies what is no closure or *)
(* takes apart what is no constructor.                                     *)
(***************************************************************************)
EXTENDS RefCMemory, FiniteSetsExt, Functions

CONSTANTS
    Term,                   \* the terms that programs are made of
    FreeVariables(_),       \* freeVariables and usedConstructors of
    UsedConstructors(_),    \*   Compiler/ANF.idr, see module ANF
    Defs,                   \* Defs[f]: [params, body] of the top-level function f
    Starts,                 \* the programs, and the memory that they may find
    NullCons,               \* constructors with coninfo NIL, NOTHING, ZERO or UNIT
    MaxExtractFunArgs       \* functions with more arguments take them in an array

Arity(f) == Len(Defs[f].params)

\* The terms that t is made of.
Subterms(t) ==
    CASE t.op = "let" -> {t.value, t.body}
      [] t.op = "case" -> {alt.body : alt \in ToSet(t.alts)} \cup ToSet(t.def)
      [] OTHER -> {}

WellFormed(t) ==
    /\ IsFiniteSet(FreeVariables(t))
    /\ IsFiniteSet(UsedConstructors(t)) /\ NoName \notin UsedConstructors(t)
    /\ t.op \in {"var", "call", "under", "app", "let", "con", "ext", "case"}
    /\ t.op = "var" => FreeVariables(t) = {t.x}
    /\ t.op \in {"call", "under", "con", "ext"} =>
         t.args \in Seq(STRING) /\ FreeVariables(t) = ToSet(t.args)
    /\ t.op = "call" => t.fn \in DOMAIN Defs /\ Len(t.args) = Arity(t.fn)
    /\ t.op = "under" => t.fn \in DOMAIN Defs /\ Len(t.args) < Arity(t.fn)
    /\ t.op = "app" => t.closure # t.arg /\ FreeVariables(t) = {t.closure, t.arg}
    /\ t.op = "con" => /\ t.con \in Name \ {NoName} /\ UsedConstructors(t) = {t.con}
                       /\ t.con \in NullCons => t.args = <<>>
    /\ t.op = "ext" => /\ t.at \in Nat \ {0}
                       /\ Len(t.args) = IF t.prim \in {"writeIORef", "arraySet"} THEN 2 ELSE 1
    /\ t.op \in {"var", "call", "under", "app", "ext"} => UsedConstructors(t) = {}
    /\ t.op = "let" =>
         /\ FreeVariables(t) = FreeVariables(t.value) \cup (FreeVariables(t.body) \ {t.x})
         /\ UsedConstructors(t) = UsedConstructors(t.value) \cup UsedConstructors(t.body)
    /\ t.op = "case" =>
         /\ t.sc \in FreeVariables(t)
         /\ \A alt \in ToSet(t.alts) :
              /\ alt.args \in Seq(STRING) /\ IsInjective(alt.args)
              /\ alt.con # NoName /\ (alt.con \in NullCons => alt.args = <<>>)
              /\ ToSet(alt.args) \cap FreeVariables(t) = {}
              /\ FreeVariables(alt.body) \subseteq FreeVariables(t) \cup ToSet(alt.args)
              /\ UsedConstructors(alt.body) \subseteq UsedConstructors(t)
         /\ \A body \in ToSet(t.def) :
              /\ FreeVariables(body) \subseteq FreeVariables(t)
              /\ UsedConstructors(body) \subseteq UsedConstructors(t)

ASSUME ProgramAssumption ==
    /\ {s.main : s \in Starts} \cup {Defs[f].body : f \in DOMAIN Defs}
         \cup UNION {Subterms(t) : t \in Term} \subseteq Term
    /\ \A t \in Term : WellFormed(t)
    /\ NoName \notin NullCons
    /\ \A f \in DOMAIN Defs :
         /\ f \in Name
         /\ Defs[f].params \in Seq(STRING) /\ IsInjective(Defs[f].params)
         /\ FreeVariables(Defs[f].body) \subseteq ToSet(Defs[f].params)

\* main, the term to run; the heap; the parameters of main; outside[c]: references
\* to c that other data holds; shared: what such data reads, which is no IORef and
\* no array.
ASSUME StartAssumption ==
    \A s \in Starts :
        /\ FreeVariables(s.main) \subseteq DOMAIN s.locals
        /\ s.heap \in [Cell -> CellType]
        /\ IsFiniteSet(DOMAIN s.locals) /\ \A x \in DOMAIN s.locals : s.locals[x] \in Value
        /\ s.outside \in [Cell -> Nat]
        /\ \A c \in Cell :
             LET cell == s.heap[c]
                 fields == {p \in UNION {{d} \X DOMAIN s.heap[d].args : d \in Cell} :
                                s.heap[p[1]].args[p[2]] = c}
             IN  /\ cell.kind \notin {"token", "running"}
                 /\ cell.kind = "free" => cell = FreeCell
                 /\ cell.kind # "free" => cell.rc # 0
                 /\ cell.kind = "clo" => /\ cell.name \in DOMAIN Defs
                                         /\ Len(cell.args) < Arity(cell.name)
                 /\ cell.kind = "ref" => Len(cell.args) = 1
                 /\ cell.rc # RcMax =>
                      cell.rc = s.outside[c] + Occurrences(s.locals, c) + Cardinality(fields)
        /\ s.shared \subseteq Cell
        /\ \A c \in s.shared :
             /\ s.heap[c].kind \in {"con", "clo"}
             /\ \/ s.outside[c] > 0
                \/ \E d \in s.shared : c \in ToSet(s.heap[d].args)

VARIABLES
    heap,
    now,        \* the node to run, with its environment; or the value it gave
    stack,      \* the ALet and idris2_trampoline calls that wait for it
    drops,      \* the references to be removed before that
    start,      \* main, and what it found; never changes
    lost,       \* history: lost[c]: references to c that were let go of undropped
    worn        \* history: was a closure applied whose counter was at its maximum?

vars == <<heap, now, stack, drops, start, lost, worn>>

(***************************************************************************)
(* Environments                                                            *)
(***************************************************************************)
NoReuse == <<>>

Run(t, locals, owned, reuse, tail) ==
    [kind |-> "run", term |-> t, locals |-> locals, owned |-> owned,
     reuse |-> reuse, tail |-> tail]
Return(v) == [kind |-> "return", value |-> v]
Store(array, at, v) == [kind |-> "store", array |-> array, at |-> at, value |-> v]

\* A call of idris2_trampoline, and the closure whose function it has entered.
Trampoline(clo) == [kind |-> "trampoline", clo |-> clo]

\* f, and where it says nothing, g.
Over(f, g) == [x \in DOMAIN f \cup DOMAIN g |-> IF x \in DOMAIN f THEN f[x] ELSE g[x]]
Only(x, v) == [y \in {x} |-> v]

Binding(names, values) ==
    [x \in ToSet(names) |-> values[CHOOSE i \in DOMAIN names : names[i] = x]]
Values(names, locals) == [i \in DOMAIN names |-> locals[names[i]]]
ValuesOf(names, locals) == Values(SetToSeq(names), locals)

\* reuseMap restricted to, and without, some constructors
Kept(reuse, cons) == Restrict(reuse, DOMAIN reuse \cap cons)
Without(reuse, cons) == Restrict(reuse, DOMAIN reuse \ cons)
Tokens(reuse) == ValuesOf(DOMAIN reuse, reuse)

\* avarsToC, fillArgs: the first mention of an owned variable moves it, any
\* other mention takes a new reference.
Moved(env, args) ==
    {i \in DOMAIN args : args[i] \in env.owned /\ \A j \in 1..(i - 1) : args[j] # args[i]}
PassArgs(h, env, args) ==
    NewReferences(h, Restrict(Values(args, env.locals), DOMAIN args \ Moved(env, args)))

\* MUTANT the parameters the body does not use are not dropped
EnterOnly(h, f, values) ==
    /\ heap' = h
    /\ drops' = <<>>
    /\ now' = Run(Defs[f].body, Binding(Defs[f].params, values),
                  FreeVariables(Defs[f].body), NoReuse, TRUE)

\* The prologue of a function: the parameters the body does not use are
\* dropped, the others are owned.
Enter(h, f, values) ==
    LET body == Defs[f].body
        locals == Binding(Defs[f].params, values)
        used == FreeVariables(body)
    IN  /\ heap' = h
        /\ drops' = ValuesOf(ToSet(Defs[f].params) \ used, locals)
        /\ now' = Run(body, locals, used, NoReuse, TRUE)

(***************************************************************************)
(* The code emitted for each node                                          *)
(***************************************************************************)
Node(op) == drops = <<>> /\ now.kind = "run" /\ now.term.op = op
Locals(args) == Values(args, now.locals)
Yield(h, v) == heap' = h /\ now' = Return(v)
Wait(frame) == stack' = Append(stack, frame)
Pure == UNCHANGED <<start, lost, worn>>

\* Variables go out of scope with the references they own.
Lose(xs, locals) ==
    lost' = [c \in Cell |-> lost[c] + Cardinality({x \in xs : locals[x] = c})]

\* AV: the variable itself, or idris2_newReference of a borrowed one.
AV ==
    /\ Node("var")
    /\ Yield(PassArgs(heap, now, <<now.term.x>>), now.locals[now.term.x])
    /\ UNCHANGED <<stack, drops>> /\ Pure

MakeClosure ==
    LET passed == PassArgs(heap, now, now.term.args)
    IN  /\ Room(heap)
        /\ Yield(NewValue(passed, "clo", now.term.fn, Locals(now.term.args)), Fresh(passed))
        /\ UNCHANGED drops

\* A call in tail position is a closure that the trampoline of the caller will
\* run, a call with too many arguments one for a trampoline of its own.
AAppName ==
    /\ Node("call")
    /\ LET t == now.term
       IN  \/ /\ now.tail
              /\ MakeClosure
              /\ UNCHANGED stack
           \/ /\ ~now.tail /\ Len(t.args) > MaxExtractFunArgs
              /\ MakeClosure
              /\ Wait(Trampoline(Null))
           \/ /\ ~now.tail /\ Len(t.args) <= MaxExtractFunArgs
              /\ Enter(PassArgs(heap, now, t.args), t.fn, Locals(t.args))
              /\ Wait(Trampoline(Null))
    /\ Pure

AUnderApp ==
    /\ Node("under")
    /\ MakeClosure
    /\ UNCHANGED stack /\ Pure

\* AApp: the closure and the argument are translated one by one, each in the
\* environment of the node.
AApp ==
    /\ Node("app")
    /\ LET clo == now.locals[now.term.closure]
           arg == now.locals[now.term.arg]
           passed == PassArgs(PassArgs(heap, now, <<now.term.closure>>), now, <<now.term.arg>>)
           shared == ArgumentsShared(passed, clo)
       IN  /\ clo # Null /\ heap[clo].kind = "clo" /\ Room(heap)
           /\ Yield(TailcallApply(passed, clo, arg), Fresh(shared))
           /\ worn' = (worn \/ shared[clo].rc = RcMax)
    /\ IF now.tail THEN UNCHANGED stack ELSE Wait(Trampoline(Null))
    /\ UNCHANGED <<drops, start, lost>>

\* MUTANT the value may move what the body still uses
BorrowedForNone(t, owned) == {}

\* ALet: the value borrows what the body uses, and gets the tokens of the
\* constructors that it builds.
BorrowedFor(t, owned) == owned \cap (FreeVariables(t.body) \ {t.x})

ALet ==
    /\ Node("let")
    /\ LET t == now.term
           used == UsedConstructors(t.value)
           held == BorrowedFor(t, now.owned)
       IN  /\ now' = Run(t.value, now.locals, now.owned \ held, Kept(now.reuse, used), FALSE)
           /\ Wait([kind |-> "let", x |-> t.x, term |-> t.body, locals |-> now.locals,
                    owned |-> held, reuse |-> Without(now.reuse, used), tail |-> now.tail])
    /\ UNCHANGED <<heap, drops>> /\ Pure

\* ACon: built in the cell of a token when there is one that is not NULL.
ACon ==
    /\ Node("con")
    /\ LET t == now.term
           passed == PassArgs(heap, now, t.args)
           token == IF t.con \in DOMAIN now.reuse THEN now.reuse[t.con] ELSE Null
       IN  \/ /\ t.con \in NullCons
              /\ Yield(heap, Null)
           \/ /\ t.con \notin NullCons /\ token = Null /\ Room(heap)
              /\ Yield(NewValue(passed, "con", t.con, Locals(t.args)), Fresh(passed))
           \/ /\ t.con \notin NullCons /\ token # Null
              /\ Yield([passed EXCEPT ![token].kind = "con", ![token].args = Locals(t.args)],
                       token)
    /\ UNCHANGED <<stack, drops>> /\ Pure

\* AExtPrim: the primitive gets the variables as they are, and takes references
\* of its own of what it stores and returns.
AExtPrim ==
    /\ Node("ext")
    /\ LET prim == now.term.prim
           args == Locals(now.term.args)
           this == args[1]
           at == now.term.at
           Is(kind) == this # Null /\ heap[this].kind = kind /\ at \in DOMAIN heap[this].args
       IN  \/ /\ prim = "newIORef" /\ Room(heap)
              /\ Yield(NewIORef(heap, this), Fresh(heap))
              /\ UNCHANGED drops
           \/ /\ prim = "readIORef" /\ Is("ref")
              /\ Yield(ReadIORef(heap, this), heap[this].args[1])
              /\ UNCHANGED drops
           \/ /\ prim = "writeIORef" /\ Is("ref")
              /\ Yield(WriteIORef(heap, this, args[2]), Null)
              /\ drops' = <<heap[this].args[1]>>
           \/ /\ prim = "newArray" /\ Room(heap)
              /\ Yield(NewArray(heap, at, this), Fresh(heap))
              /\ UNCHANGED drops
           \/ /\ prim = "arrayGet" /\ Is("array")
              /\ Yield(ArrayGet(heap, this, at), heap[this].args[at])
              /\ UNCHANGED drops
           \/ /\ prim = "arraySet" /\ Is("array")
              /\ heap' = ArrayTakeOut(heap, this, at)
              /\ drops' = <<heap[this].args[at]>>
              /\ now' = Store(this, at, args[2])
    /\ Lose(ToSet(now.term.args) \cap now.owned, now.locals)
    /\ UNCHANGED <<stack, start, worn>>

\* The rest of prim__arraySet, once the old element is dropped.
ArrayStore ==
    /\ drops = <<>> /\ now.kind = "store"
    /\ Yield(ArrayPutIn(heap, now.array, now.at, now.value), Null)
    /\ UNCHANGED <<stack, drops>> /\ Pure

Matches(alt, null, name) == IF alt.con \in NullCons THEN null ELSE ~null /\ name = alt.con

\* The branches that a case may take: the first alternative that matches, or
\* the default, which binds no field.
Branches(t, null, name) ==
    LET fits == {i \in DOMAIN t.alts : Matches(t.alts[i], null, name)}
    IN  IF fits # {} THEN {t.alts[i] : i \in {j \in fits : \A k \in fits : j <= k}}
        ELSE {[con |-> NoName, args |-> <<>>, body |-> body] : body \in ToSet(t.def)}

\* addReuseConstructor: the scrutinee is kept to build conName in when the
\* body builds one, no token for it is there, and the branch drops it.
MayReuse(con, drop, usedCons) ==
    con \notin DOMAIN now.reuse /\ con \in usedCons /\ now.term.sc \in drop

\* AConCase: the fields become variables.  The branch owns them: they are
\* moved out of a scrutinee that becomes a token, shared with any other.
AConCase ==
    /\ Node("case")
    /\ LET t == now.term
           sc == now.locals[t.sc]
       IN  /\ sc # Null => heap[sc].kind = "con"
           /\ \E branch \in Branches(t, sc = Null, IF sc = Null THEN NoName ELSE heap[sc].name) :
             LET fields == ToSet(branch.args)
                 locals == IF fields = {} THEN now.locals
                           ELSE Over(Binding(branch.args, heap[sc].args), now.locals)
                 mine == fields \cup (IF branch.con \in NullCons THEN now.owned \ {t.sc}
                                                                 ELSE now.owned)
                 drop == mine \ FreeVariables(branch.body)
                 usedCons == UsedConstructors(branch.body)
                 reusing == MayReuse(branch.con, drop, usedCons)
                 unique == reusing /\ IsUnique(heap, sc)
             IN  /\ branch.con \notin NullCons \cup {NoName} =>
                      Len(heap[sc].args) = Len(branch.args)
                 /\ heap' = IF unique THEN [heap EXCEPT ![sc].kind = "token"]
                            ELSE NewReferences(heap, Restrict(locals, fields \ drop))
                 /\ drops' = (IF reusing /\ ~unique THEN <<sc>> ELSE <<>>)
                             \o ValuesOf(drop \ (fields \cup (IF reusing THEN {t.sc} ELSE {})), locals)
                             \o Tokens(Without(now.reuse, usedCons))
                 /\ now' = Run(branch.body, locals, mine \ drop,
                               Over(Kept(now.reuse, usedCons),
                                    IF reusing THEN Only(branch.con, IF unique THEN sc ELSE Null)
                                    ELSE NoReuse),
                               now.tail)
                 /\ Lose(IF unique THEN fields \cap drop ELSE {}, locals)
    /\ UNCHANGED <<stack, start, worn>>

(***************************************************************************)
(* What happens between the nodes                                          *)
(***************************************************************************)
\* idris2_removeReference, or idris2_removeReuseConstructor.
DropReference ==
    /\ drops # <<>>
    /\ heap' = RemoveReference(heap, Head(drops))
    /\ drops' = AlsoRemoved(heap, Head(drops)) \o Tail(drops)
    /\ UNCHANGED <<now, stack>> /\ Pure

Returning(kind) ==
    drops = <<>> /\ now.kind = "return" /\ stack # <<>> /\ Last(stack).kind = kind

\* The variable of an ALet gets the value, and the body runs.
LetBody ==
    /\ Returning("let")
    /\ LET frame == Last(stack)
           used == frame.x \in FreeVariables(frame.term)
       IN  /\ now' = Run(frame.term, Over(Only(frame.x, now.value), frame.locals),
                         frame.owned \cup (IF used THEN {frame.x} ELSE {}),
                         frame.reuse, frame.tail)
           /\ drops' = IF used THEN <<>> ELSE <<now.value>>
    /\ stack' = Front(stack)
    /\ UNCHANGED heap /\ Pure

\* idris2_trampoline: the closure it ran is released once its function has
\* returned, and a saturated closure is run in its turn.
TrampolineLoop ==
    /\ Returning("trampoline")
    /\ LET ran == Last(stack).clo
           h == IF ran = Null THEN heap ELSE ReleaseShell(heap, ran)
           it == now.value
           full == it # Null /\ h[it].kind = "clo" /\ Len(h[it].args) = Arity(h[it].name)
       IN  \/ /\ full
              /\ Enter([h EXCEPT ![it].kind = "running"], h[it].name, h[it].args)
              /\ stack' = Append(Front(stack), Trampoline(it))
           \/ /\ ~full
              /\ heap' = h
              /\ stack' = Front(stack)
              /\ UNCHANGED <<now, drops>>
    /\ Pure

Done == drops = <<>> /\ now.kind = "return" /\ stack = <<>> /\ UNCHANGED vars

Init ==
    \E s \in Starts :
        LET used == FreeVariables(s.main)
        IN  /\ heap = s.heap
            /\ drops = ValuesOf(DOMAIN s.locals \ used, s.locals)
            /\ now = Run(s.main, s.locals, used, NoReuse, TRUE)
            /\ stack = <<Trampoline(Null)>>
            /\ start = s
            /\ lost = [c \in Cell |-> 0]
            /\ worn = FALSE

Next ==
    \/ AV \/ AAppName \/ AUnderApp \/ AApp \/ ALet \/ ACon \/ AExtPrim \/ ArrayStore
    \/ AConCase \/ DropReference \/ LetBody \/ TrampolineLoop
    \/ Done

Spec == Init /\ [][Next]_vars

(***************************************************************************)
(* Properties                                                              *)
(***************************************************************************)
\* Where a frame refers to c: with the variables it owns, with its tokens, with
\* the closure that runs, or as what it returns.
PlacesIn(frame, c) ==
    IF frame.kind \in {"run", "let"}
    THEN ({"variable"} \X {x \in frame.owned : frame.locals[x] = c})
         \cup ({"token"} \X {con \in DOMAIN frame.reuse : frame.reuse[con] = c})
    ELSE IF \/ frame.kind = "trampoline" /\ frame.clo = c
            \/ frame.kind = "return" /\ frame.value = c
         THEN {<<frame.kind, NoName>>}
         ELSE {}

Frames == Append(stack, now)
PlacesInFrames(frames, c) == UNION {{i} \X PlacesIn(frames[i], c) : i \in DOMAIN frames}
PlacesInHeap(h, c) ==
    UNION {{d} \X {i \in DOMAIN Fields(h, d) : Fields(h, d)[i] = c} : d \in Cell}

Holders(c) ==
    start.outside[c] + Cardinality(PlacesInFrames(Frames, c))
    + Cardinality(PlacesInHeap(heap, c)) + Occurrences(drops, c)

\* Every cell is a cell, every local variable a value, a cell is free exactly if
\* its counter is zero, and tokens are for constructors that will be built.
TypeOK ==
    /\ heap \in [Cell -> CellType]
    /\ \A c \in Cell : heap[c].rc = 0 <=> heap[c].kind = "free"
    /\ drops \in Seq(Value)
    /\ now.kind = "run" => /\ now.owned \subseteq DOMAIN now.locals
                           /\ \A x \in DOMAIN now.locals : now.locals[x] \in Value
                           /\ DOMAIN now.reuse \subseteq UsedConstructors(now.term)

\* No count is lower than the references there are, so that no cell is freed or
\* built over while something still refers to it: what the owned set of the
\* environment promises at every node.  Nor is it higher, but for the references
\* that a case which builds over its scrutinee and an external primitive lose.
\* A counter that reaches its maximum stays there, until a closure is applied.
ExactCount ==
    ~worn => /\ TypeOK
             /\ \A c \in Cell : heap[c].rc # RcMax => heap[c].rc = Holders(c) + lost[c]

\* Nor can others see what is built in place: data that is also held elsewhere
\* stays as it was, cell by cell.
Contents(cell) == <<cell.kind, cell.name, cell.args>>
SharedIntact ==
    ~worn => \A c \in start.shared : Contents(heap[c]) = Contents(start.heap[c])
=============================================================================
