----------------------------- MODULE RefCNumbers -----------------------------
(***************************************************************************)
(* The numbers of the RefC run time: support/refc/mathFunctions.[hc],      *)
(* casts.[hc], the number macros of memoryManagement.h and _datatypes.h,   *)
(* and the switch on a literal that RefC.idr generates.                    *)
(*                                                                         *)
(* A value of at most 32 bits is no cell: it is the upper half of a        *)
(* pointer, the FIELD, which is as wide as an Int32 whatever the type.  A   *)
(* narrower type leaves the other bits of the field as the C expression    *)
(* left them, so that two fields may stand for one value.  A 64-bit value  *)
(* and an Integer are cells.  A Text is the numeral it spells.  A state is *)
(* one value: its representation, and the value the compiler evaluates the *)
(* same expression to when it checks types (Core/Primitives.idr; the       *)
(* optimiser of Compiler/Opts/ConstantFold.idr calls it as well).          *)
(*                                                                         *)
(* Width scales the widths down.  Doubles, and characters inside a Text,   *)
(* are left out.  Signed overflow in add, sub, mul, negate and a left      *)
(* shift is undefined in C; only the low bits of the result are stored,    *)
(* and those wrap in every build.                                          *)
(***************************************************************************)
EXTENDS Integers

CONSTANTS Width,        \* the bits of each fixed-width type
          Literals,     \* the literals of each type that programs use
          IntegerMax,   \* bound on the Integers and Texts explored
          ShiftMax,     \* bound on the count of a shift of an Integer
          CodePoint,    \* the numbers that are characters to the compiler
          CharSigned    \* the C compiler's plain char is signed

Signed   == {"Int8", "Int16", "Int32", "Int64"}
Unsigned == {"Bits8", "Bits16", "Bits32", "Bits64", "Char"}
Fixed    == Signed \cup Unsigned
Type     == Fixed \cup {"Integer", "Text"}
Boxed    == {"Int64", "Bits64", "Integer", "Text"}

\* A field holds every type that is no cell, and an int is no wider than a long.
ASSUME WidthAssumption ==
  /\ Width \in [Fixed -> Nat \ {0}]
  /\ \A t \in Fixed \ Boxed : Width[t] <= Width["Int32"]
  /\ Width["Int32"] <= Width["Int64"]

ASSUME BoundAssumption == IntegerMax \in Nat /\ ShiftMax \in Nat

Byte == 0 .. 2 ^ Width["Char"] - 1

ASSUME CharAssumption == Byte \subseteq CodePoint /\ CodePoint \subseteq Nat
                         /\ CharSigned \in BOOLEAN

VARIABLES ty, rep, ideal
vars == <<ty, rep, ideal>>

----------------------------------------------------------------------------
(* C conversions, and the two ways a value is stored. *)

\* A C conversion to the type: the low bits, with their sign.
Wrap(t, x) ==
  IF t \notin Fixed THEN x
  ELSE LET m == 2 ^ Width[t]
           u == x % m
       IN  IF t \in Signed /\ 2 * u >= m THEN u - m ELSE u

\* A constant of the compiler holds a number of its type.
ASSUME LiteralAssumption ==
  /\ Literals \in [Type -> SUBSET Int]
  /\ \A t \in Type : \A x \in Literals[t] :
       IF t = "Char" THEN x \in CodePoint ELSE Wrap(t, x) = x

Box(t, x) == Wrap(t, x)

Mk(t, x) == IF t \in Boxed THEN Box(t, x) ELSE x % 2 ^ Width["Int32"]

Read(t, r) == Wrap(t, r)

Canonical(t, r) == r = Mk(t, Read(t, r))

\* escapeChar: a constant of C's char, which keeps the low bits of the code
\* point, with their sign where char has one.
CChar(x) ==
  LET m == 2 ^ Width["Char"]
      u == x % m
  IN  IF CharSigned /\ 2 * u >= m THEN u - m ELSE u

\* The number that is written for a literal in C, and the value it makes.
Spelled(t, x) == IF t = "Char" THEN CChar(x) ELSE x
Literal(t, x) == Mk(t, Spelled(t, x))

----------------------------------------------------------------------------
(* Arithmetic: x and y are the values that the macros read. *)

Abs(x) == IF x < 0 THEN -x ELSE x

\* / and % of C, which truncate.
CDiv(x, y) == LET q == Abs(x) \div Abs(y)
              IN  IF (x < 0) = (y < 0) THEN q ELSE -q
CRem(x, y) == x - y * CDiv(x, y)

MachineArith(op, x, y) ==
  CASE op = "add"    -> x + y
    [] op = "sub"    -> x - y
    [] op = "negate" -> -x
    [] op = "mul"    -> x * y

UnsignedDivision(op, x, y) == IF op = "div" THEN CDiv(x, y) ELSE CRem(x, y)

\* Mutant: one correction for both signs of the divisor.
SignedDivOneSide(num, denom) ==
  CDiv(num, denom) + (IF CRem(num, denom) >= 0 THEN 0 ELSE -1)

\* Truncated division with a correction term.
SignedDiv(num, denom) ==
  CDiv(num, denom) + (IF CRem(num, denom) >= 0 THEN 0
                      ELSE IF denom < 0 THEN 1 ELSE -1)

\* Mutant: the absolute value of the divisor is not taken.
SignedModSigned(t, num, d) ==
  CRem(num, d) + (IF num < 0 THEN d ELSE 0)

\* -denom is stored back in the type of denom.
SignedMod(t, num, d) ==
  LET denom == Wrap(t, Abs(d))
  IN  CRem(num, denom) + (IF num < 0 THEN denom ELSE 0)

MachineShift(op, x, n) == IF op = "shl" THEN x * 2 ^ n ELSE x \div 2 ^ n

BitOf(z, i) == (z \div 2 ^ i) % 2

BitOp(op, a, b) == CASE op = "and" -> a * b
                     [] op = "or"  -> a + b - a * b
                     [] op = "xor" -> (a + b) % 2

\* Two's complement, bit by bit, in more bits than any value here has.
Bitwise(op, x, y) ==
  LET n == 2 * Width["Int64"]
      bit == [i \in 0 .. n - 1 |-> BitOp(op, BitOf(x, i), BitOf(y, i)) * 2 ^ i]
      low[i \in 0 .. n] == IF i = 0 THEN 0 ELSE low[i - 1] + bit[i - 1]
  IN  IF bit[n - 1] # 0 THEN low[n] - 2 ^ n ELSE low[n]

MachineBitwise(op, x, y) == Bitwise(op, x, y)

(* The same for an Integer, with the functions of GMP. *)

IntegerArith(op, x, y) == MachineArith(op, x, y)

\* mpz_mod: the remainder that is never negative.
IntegerMod(x, y) == x % Abs(y)

\* (x - x mod y) / y, an exact division.
IntegerDiv(x, y) == CDiv(x - IntegerMod(x, y), y)

\* mpz_get_ui takes the count without its sign.
IntegerShift(op, x, n) ==
  IF op = "shl" THEN x * 2 ^ Abs(n) ELSE x \div 2 ^ Abs(n)

IntegerBitwise(op, x, y) == Bitwise(op, x, y)

Arith   == {"add", "sub", "negate", "mul"}
Shift   == {"shl", "shr"}
Logic   == {"and", "or", "xor"}
Divide  == {"div", "mod"}

\* idris2_<op>_<type>(l, r) on two representations.
Operation(t, op, l, r) ==
  LET x == Read(t, l)
      y == Read(t, r)
  IN  Mk(t, CASE t = "Integer" /\ op \in Arith -> IntegerArith(op, x, y)
              [] t = "Integer" /\ op = "div"   -> IntegerDiv(x, y)
              [] t = "Integer" /\ op = "mod"   -> IntegerMod(x, y)
              [] t = "Integer" /\ op \in Shift -> IntegerShift(op, x, y)
              [] t = "Integer" /\ op \in Logic -> IntegerBitwise(op, x, y)
              [] t \in Fixed /\ op \in Arith   -> MachineArith(op, x, y)
              [] t \in Fixed /\ op \in Shift   -> MachineShift(op, x, y)
              [] t \in Fixed /\ op \in Logic   -> MachineBitwise(op, x, y)
              [] t \in Unsigned /\ op \in Divide -> UnsignedDivision(op, x, y)
              [] t \in Signed /\ op = "div"    -> SignedDiv(x, y)
              [] t \in Signed /\ op = "mod"    -> SignedMod(t, x, y))

Lt(t, l, r) == Read(t, l) < Read(t, r)
Gt(t, l, r) == Read(t, l) > Read(t, r)
Eq(t, l, r) == Read(t, l) = Read(t, r)
Lte(t, l, r) == Read(t, l) <= Read(t, r)
Gte(t, l, r) == Read(t, l) >= Read(t, r)
----------------------------------------------------------------------------
(* Casts.  Where the macro is (x), the target keeps the field as it is.     *)

Convert(kept, s, to, r) ==
  IF to \in kept THEN r ELSE Mk(to, Wrap(to, Read(s, r)))

CastInt8(to, r)   == Convert({"Bits8", "Bits16", "Bits32"}, "Int8", to, r)
CastInt16(to, r)  == Convert({"Bits16", "Bits32", "Int32"}, "Int16", to, r)
CastInt32(to, r)  == Convert({"Bits32"}, "Int32", to, r)
CastInt64(to, r)  == Convert({"Int64"}, "Int64", to, r)
CastChar(to, r)   == Convert({}, "Char", to, r)
CastBits8(to, r)  == Convert({"Bits16", "Bits32", "Int8", "Int16", "Int32"},
                             "Bits8", to, r)
CastBits16(to, r) == Convert({}, "Bits16", to, r)
CastBits32(to, r) == Convert({}, "Bits32", to, r)
CastBits64(to, r) == Convert({}, "Bits64", to, r)

SignedOut(s, r)   == Read(s, r)
UnsignedOut(s, r) == Read(s, r)

\* atoi: strtol stops at the ends of a long, and the int keeps its low bits.
Atoi(n) ==
  LET long == 2 ^ (Width["Int64"] - 1)
  IN  Wrap("Int32", CHOOSE m \in {n, -long, long - 1} :
                      /\ n \in -long .. long - 1 => m = n
                      /\ n < -long => m = -long
                      /\ n >= long => m = long - 1)

CastText(to, n) == IF to = "Integer" THEN n ELSE Mk(to, Wrap(to, Atoi(n)))

\* The remainder by a power of two, rounded down.
MpzGetLsb(i, b) == i % 2 ^ b

CastInteger(to, i) ==
  IF to = "Text" THEN i ELSE Mk(to, Wrap(to, MpzGetLsb(i, Width[to])))

CastFrom(s, to, r) ==
  CASE s = "Text"    -> CastText(to, r)
    [] s = "Integer" -> CastInteger(to, r)
    [] s \in Signed /\ to \in {"Integer", "Text"}   -> SignedOut(s, r)
    [] s \in Unsigned /\ to \in {"Integer", "Text"} -> UnsignedOut(s, r)
    [] s = "Int8"   /\ to \in Fixed -> CastInt8(to, r)
    [] s = "Int16"  /\ to \in Fixed -> CastInt16(to, r)
    [] s = "Int32"  /\ to \in Fixed -> CastInt32(to, r)
    [] s = "Int64"  /\ to \in Fixed -> CastInt64(to, r)
    [] s = "Char"   /\ to \in Fixed -> CastChar(to, r)
    [] s = "Bits8"  /\ to \in Fixed -> CastBits8(to, r)
    [] s = "Bits16" /\ to \in Fixed -> CastBits16(to, r)
    [] s = "Bits32" /\ to \in Fixed -> CastBits32(to, r)
    [] s = "Bits64" /\ to \in Fixed -> CastBits64(to, r)

\* The casts that exist: none to the type itself but for Int and Int64, and
\* a Text is no Char.
Castable(s, to) ==
  /\ s # to \/ s = "Int64"
  /\ {s, to} # {"Text", "Char"}

\* Mutant: the int is cut to 16 bits.
ExtractShort(t, r) == Wrap("Int16", r)

\* idris2_extractInt returns an int, which the generated code compares with
\* the literal of the case alternative.
ExtractInt(t, r) == Wrap("Int32", r)
CaseHits(t, r, c) == ExtractInt(t, r) = Spelled(t, c)

----------------------------------------------------------------------------
(* What the compiler evaluates to. *)

FoldDiv(x, y) == IF y > 0 THEN x \div y ELSE -(x \div (-y))

Fold(t, op, x, y) ==
  Wrap(t, CASE op \in Arith -> MachineArith(op, x, y)
            [] op = "div"   -> FoldDiv(x, y)
            [] op = "mod"   -> x - y * FoldDiv(x, y)
            [] op = "shl"   -> x * 2 ^ y
            [] op = "shr"   -> x \div 2 ^ y
            [] op \in Logic -> Bitwise(op, x, y))

\* constantIntegerValue has no clause for characters and strings: their casts
\* are evaluated to Integer and to Int, an Int64 here, and to nothing else.
FoldsCast(s, to) == s \in {"Char", "Text"} => to \in {"Integer", "Int64"}

\* castChar: the character of that code point, and '\0' where there is none.
FoldCast(to, x) == IF to # "Char" THEN Wrap(to, x)
                   ELSE IF x \in CodePoint THEN x ELSE 0

----------------------------------------------------------------------------
(* Where the run time is known to differ from the compiler: the value that  *)
(* results is then what the rest of the expression means.                   *)

\* A macro (x) keeps bits that are no part of the value; atoi gives an int; a
\* character is a byte, with no room for another code point and no '\0' for a
\* number that is none.
CastGap(s, to, r) ==
  \/ s \in Fixed /\ to \in Fixed /\ ~Canonical(s, r) /\ CastFrom(s, to, r) = r
  \/ s = "Text" /\ to = "Int64"
       /\ r \notin -(2 ^ (Width["Int32"] - 1)) .. 2 ^ (Width["Int32"] - 1) - 1
  \/ to = "Char" /\ Read(s, r) \notin Byte

\* The remainder of a negative multiple is the divisor and not 0.
ModGap(t, op, x, y) ==
  t \in Signed /\ op = "mod" /\ x < 0 /\ CRem(x, y) = 0

\* What C leaves undefined, and the program never does: the library's div and
\* mod have a clause for zero, and a shift takes a Fin below the width.
IsLeast(t, x) == t \in Signed /\ x = -(2 ^ (Width[t] - 1))

Defined(t, op, x, y) ==
  /\ op \in Divide =>
       /\ y # 0
       /\ t \in {"Int32", "Int64"} => /\ ~(IsLeast(t, x) /\ y = -1)
                                      /\ ~(op = "mod" /\ IsLeast(t, y))
  /\ op \in Shift => y \in 0 .. (IF t \in Fixed THEN Width[t] - 1 ELSE ShiftMax)

OpsOf(t) ==
  CASE t \in Signed \cup {"Integer"} -> Arith \cup Divide \cup Shift \cup Logic
    [] t \in Unsigned \ {"Char"} ->
         (Arith \ {"negate"}) \cup Divide \cup Shift \cup Logic
    [] t \in {"Char", "Text"} -> {}

\* A literal, which a character above a byte is no more when C has cut it.
Init == \E t \in Type : \E x \in Literals[t] :
          ty = t /\ rep = Literal(t, x) /\ ideal = Wrap(t, x)

\* An operation with a literal on its right.
Operate == \E op \in OpsOf(ty) : \E y \in Literals[ty] :
  LET x == Read(ty, rep)
      r == Operation(ty, op, rep, Literal(ty, y))
  IN  /\ Defined(ty, op, x, y)
      /\ Abs(Read(ty, r)) <= IntegerMax
      /\ rep' = r
      /\ ideal' = IF ModGap(ty, op, x, y) THEN Read(ty, r)
                  ELSE Fold(ty, op, ideal, y)
      /\ UNCHANGED ty

Cast == \E to \in Type :
  LET r == CastFrom(ty, to, rep)
  IN  /\ Castable(ty, to)
      /\ ty' = to
      /\ rep' = r
      /\ ideal' = IF FoldsCast(ty, to) /\ ~CastGap(ty, to, rep)
                  THEN FoldCast(to, ideal) ELSE Read(to, r)

Next == Operate \/ Cast

Spec == Init /\ [][Next]_vars

----------------------------------------------------------------------------
(* A field is as wide as an Int32; a cell holds a value of its type. *)
TypeOK ==
  /\ ty \in Type
  /\ rep \in (IF ty \in Boxed THEN Int ELSE 0 .. 2 ^ Width["Int32"] - 1)
  /\ ty \in Boxed => Canonical(ty, rep)
  /\ ideal = Wrap(ty, ideal)

(* A chain of operations and casts reads as the value that the compiler     *)
(* evaluates it to, and compares with a literal as that value does, whatever *)
(* is left in the rest of the field, but for the differences above (CastGap *)
(* and ModGap) and for the character literals that are no byte.             *)
FoldAgrees ==
  /\ TypeOK
  /\ Read(ty, rep) = ideal
  /\ ty # "Text" => \A y \in {c \in Literals[ty] : Wrap(ty, c) = c} :
       LET l == Literal(ty, y)
       IN  /\ Lt(ty, rep, l)  <=> ideal < y
           /\ Gt(ty, rep, l)  <=> ideal > y
           /\ Lte(ty, rep, l) <=> ideal <= y
           /\ Gte(ty, rep, l) <=> ideal >= y
           /\ Eq(ty, rep, l)  <=> ideal = y

(* A remainder is the dividend up to a multiple of the divisor, and is      *)
(* never outside 0 .. |divisor|, also where the divisor has no positive     *)
(* counterpart in its type.                                                 *)
RemainderCongruent ==
  "mod" \in OpsOf(ty) => \A y \in Literals[ty] :
    LET x == Read(ty, rep)
        m == Read(ty, Operation(ty, "mod", rep, Literal(ty, y)))
    IN  Defined(ty, "mod", x, y) =>
          /\ (x - m) % Abs(y) = 0
          /\ m \in 0 .. Abs(y) \/ (IsLeast(ty, x) /\ IsLeast(ty, y))

(* A case on a literal takes the alternative of the value, if the field is  *)
(* canonical and the value fits an int.  A character literal is compared as *)
(* the char it is written as: where that is another number, a value that a  *)
(* cast made misses its alternative.                                        *)
CaseAgrees == \A c \in Literals[ty] :
  ty # "Text" /\ Canonical(ty, rep) /\ Wrap("Int32", ideal) = ideal
              /\ Spelled(ty, c) = c
    => (CaseHits(ty, rep, c) <=> ideal = c)
=============================================================================
