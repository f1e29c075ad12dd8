----------------------------- MODULE RefCMemory -----------------------------
(***************************************************************************)
(* The memory of a program compiled by the RefC backend: reference-counted *)
(* cells, and the functions of support/refc/memoryManagement.c, runtime.c  *)
(* and prim.c that create, share, reuse and free them, as operators on a   *)
(* heap.  A value is Null (an erased constructor such as Nil) or a cell.   *)
(***************************************************************************)
EXTENDS Integers, SequencesExt

CONSTANTS
    MaxCells,   \* bound: cells a program can have allocated at one time
    RcMax,      \* IDRIS2_VP_REFCOUNTER_MAX, the count of an immortal value
    Name        \* the names of constructors and of functions

NoName == "none"    \* of what is neither a constructor nor a closure

ASSUME MemoryAssumption ==
    MaxCells \in Nat /\ RcMax \in Nat \ {0, 1} /\ NoName \in Name

Null == 0
Cell == 1..MaxCells
Value == Cell \cup {Null}

\* "token": a unique constructor kept to be built again, whose fields have
\* been moved to local variables.  "running": a closure whose arguments have
\* been moved to the function that the trampoline entered.
Kind == {"free", "con", "clo", "ref", "array", "token", "running"}
CellType == [kind : Kind, rc : 0..RcMax, name : Name, args : Seq(Value)]

FreeCell == [kind |-> "free", rc |-> 0, name |-> NoName, args |-> <<>>]

\* malloc: any free cell will do, since no step depends on an address.
FreeCells(heap) == {c \in Cell : heap[c].kind = "free"}
Room(heap) == FreeCells(heap) # {}
Fresh(heap) == CHOOSE c \in FreeCells(heap) : TRUE

NewValue(heap, kind, name, args) ==
    [heap EXCEPT ![Fresh(heap)] =
        [kind |-> kind, rc |-> 1, name |-> name, args |-> args]]

\* How often c is among the values of f, a sequence or any other function.
Occurrences(f, c) == Cardinality({i \in DOMAIN f : f[i] = c})

\* A counter that reaches its maximum stays there.
Raised(rc, n) == IF rc + n >= RcMax THEN RcMax ELSE rc + n

\* idris2_newReference of each of the values of f.
NewReferences(heap, f) ==
    [c \in Cell |-> [heap[c] EXCEPT !.rc = Raised(@, Occurrences(f, c))]]
NewReference(heap, v) == NewReferences(heap, <<v>>)

\* The fields of a reuse token and of a running closure belong to variables.
Fields(heap, c) ==
    IF heap[c].kind \in {"token", "running"} THEN <<>> ELSE heap[c].args

\* idris2_removeReference calls itself for what a freed cell refers to: what it
\* does to the cell, and what is still to be removed then.
Mortal(heap, v) == v # Null /\ heap[v].rc # RcMax
IsLast(heap, v) == Mortal(heap, v) /\ heap[v].rc = 1

RemoveReference(heap, v) ==
    IF ~Mortal(heap, v) THEN heap
    ELSE IF heap[v].rc # 1 THEN [heap EXCEPT ![v].rc = @ - 1]
    ELSE [heap EXCEPT ![v] = FreeCell]
AlsoRemoved(heap, v) == IF IsLast(heap, v) THEN Fields(heap, v) ELSE <<>>

\* MUTANT two holders pass for one
IsUniqueOffByOne(heap, v) == heap[v].rc <= 2

IsUnique(heap, v) == heap[v].rc = 1

\* free(clos) or --clos->header.refCounter: neither looks at the arguments,
\* and the second does not look for an immortal value.
ReleaseShell(heap, c) ==
    IF IsUnique(heap, c) THEN [heap EXCEPT ![c] = FreeCell]
    ELSE [heap EXCEPT ![c].rc = @ - 1]

\* A new closure with one argument more; the applied one loses a reference,
\* and hands its arguments over when that was the last.
ArgumentsShared(heap, clo) ==
    IF heap[clo].rc <= 1 THEN heap ELSE NewReferences(heap, heap[clo].args)
TailcallApply(heap, clo, arg) ==
    ReleaseShell(NewValue(ArgumentsShared(heap, clo), "clo", heap[clo].name,
                          Append(heap[clo].args, arg)),
                 clo)

\* prim__newIORef, prim__readIORef and prim__writeIORef
NewIORef(heap, v) == NewValue(NewReference(heap, v), "ref", NoName, <<v>>)
ReadIORef(heap, ref) == NewReference(heap, heap[ref].args[1])
WriteIORef(heap, ref, v) == [NewReference(heap, v) EXCEPT ![ref].args = <<v>>]

\* idris2_makeArray, and prim__newArray, which takes a reference for each element.
MakeArray(heap, elements) == NewValue(heap, "array", NoName, elements)
NewArray(heap, length, v) ==
    LET elements == [i \in 1..length |-> v]
    IN  MakeArray(NewReferences(heap, elements), elements)

\* prim__arrayGet
ArrayGet(heap, array, i) == NewReference(heap, heap[array].args[i])

\* prim__arraySet drops the old element before it takes the new one.
ArrayTakeOut(heap, array, i) == [heap EXCEPT ![array].args[i] = Null]
ArrayPutIn(heap, array, i, v) == [NewReference(heap, v) EXCEPT ![array].args[i] = v]
=============================================================================
