-------------------------- MODULE RefCNumbersProofs --------------------------
(***************************************************************************)
(* The numbers of RefC for types of any width: what a field holds after    *)
(* any chain of operations and casts is what the compiler folds the chain  *)
(* to (Agreed, the inductive invariant), a case takes the alternative of   *)
(* the value, and the corrections that mathFunctions.c:33-141 makes to the *)
(* division of C give a Euclidean quotient and a congruent remainder.      *)
(***************************************************************************)
EXTENDS RefCNumbers, FiniteSetTheorems, WellFoundedInduction, TLAPS

-----------------------------------------------------------------------------
(***************************************************************************)
(* Powers of two.  The provers know none of their laws; they follow from   *)
(* the number of subsets of a set.                                         *)
(***************************************************************************)

\* A set of numbers that has 0, and the next of each that it has below m, has
\* all of them up to m.
LEMMA Induction ==
    ASSUME NEW m \in Nat, NEW S, 0 \in S, \A n \in S : n \in 0..(m - 1) => n + 1 \in S
    PROVE  0..m \subseteq S
<1> DEFINE T == 0..m \ S
<1> SUFFICES ASSUME T # {} PROVE FALSE
    BY Zenon
<1>1. T \subseteq Nat
    OBVIOUS
<1>2. PICK n \in T : \A k \in T : <<k, n>> \notin OpToRel(<, Nat)
    BY <1>1, WFMin, NatLessThanWellFounded, Zenon
<1>3. \A j, k \in Nat : j < k => <<j, k>> \in OpToRel(<, Nat)
    BY Zenon DEF OpToRel
<1>4. n \in Nat /\ n # 0 /\ n <= m /\ n \notin S
    OBVIOUS
<1>5. n - 1 \in Nat /\ n - 1 < n /\ n - 1 \in 0..(m - 1)
    BY <1>4
<1>6. n - 1 \notin T
    BY <1>1, <1>2, <1>3, <1>4, <1>5, Zenon
<1>7. n - 1 \in S
    BY <1>5, <1>6
<1>8. (n - 1) + 1 \in S
    BY <1>5, <1>7
<1> QED
    BY <1>4, <1>8

\* A set of n elements has 2^n subsets, where powers of two come from.
LEMMA Subsets ==
    ASSUME NEW n \in Nat
    PROVE  IsFiniteSet(SUBSET (1..n)) /\ Cardinality(SUBSET (1..n)) = 2 ^ n
<1>1. IsFiniteSet(1..n) /\ Cardinality(1..n) = n
    BY FS_Interval
<1> QED
    BY <1>1, FS_SUBSET

\* Powers of two are positive.
LEMMA PowerPositive == \A n \in Nat : 2 ^ n \in Nat \ {0}
<1> SUFFICES ASSUME NEW n \in Nat PROVE 2 ^ n \in Nat \ {0}
    OBVIOUS
<1>1. SUBSET (1..n) # {}
    OBVIOUS
<1>2. Cardinality(SUBSET (1..n)) \in Nat \ {0}
    BY <1>1, Subsets, FS_CardinalityType, FS_EmptySet
<1> QED
    BY <1>2, Subsets

\* A subset of 1..n+1 is one of 1..n, with or without n+1.
LEMMA PowerNext == \A n \in Nat : 2 ^ (n + 1) = 2 * 2 ^ n
<1> SUFFICES ASSUME NEW n \in Nat PROVE 2 ^ (n + 1) = 2 * 2 ^ n
    OBVIOUS
<1> DEFINE S == SUBSET (1..n)
           With == {A \cup {n + 1} : A \in S}
           f == [A \in S |-> A \cup {n + 1}]
<1>1. n + 1 \notin 1..n /\ 1..(n + 1) = (1..n) \cup {n + 1}
    OBVIOUS
<1>2. SUBSET (1..(n + 1)) = S \cup With
  <2>0. S \subseteq SUBSET (1..(n + 1)) /\ With \subseteq SUBSET (1..(n + 1))
      BY <1>1
  <2>1. ASSUME NEW B \in SUBSET (1..(n + 1)) PROVE B \in S \cup With
    <3>1. CASE n + 1 \in B
      <4>1. B \ {n + 1} \in S /\ B = (B \ {n + 1}) \cup {n + 1}
          BY <1>1, <3>1
      <4> QED
          BY <4>1
    <3>2. CASE n + 1 \notin B
        BY <1>1, <3>2
    <3> QED
        BY <3>1, <3>2
  <2> QED
      BY <2>0, <2>1
<1>3. S \cap With = {}
    BY <1>1
<1>4. f \in Bijection(S, With)
  <2>1. f \in [S -> With]
      OBVIOUS
  <2>2. ASSUME NEW A \in S, NEW B \in S, f[A] = f[B] PROVE A = B
    <3>1. A = (A \cup {n + 1}) \ {n + 1} /\ B = (B \cup {n + 1}) \ {n + 1}
        BY <1>1
    <3> QED
        BY <2>2, <3>1
  <2>3. \A C \in With : \E A \in S : f[A] = C
      OBVIOUS
  <2> HIDE DEF f, S, With
  <2>4. f \in Injection(S, With)
      BY <2>1, <2>2 DEF Injection, IsInjective
  <2> QED
      BY <2>1, <2>3, <2>4 DEF Bijection, Surjection
<1>5. IsFiniteSet(S) /\ Cardinality(S) = 2 ^ n
    BY Subsets
<1>6. Cardinality(SUBSET (1..(n + 1))) = 2 ^ (n + 1)
    BY Subsets
<1> HIDE DEF S, With, f
<1>7. IsFiniteSet(With) /\ Cardinality(With) = 2 ^ n
    BY <1>4, <1>5, FS_Bijection DEF ExistsBijection
<1>8. Cardinality(S \cup With) = 2 ^ n + 2 ^ n - 0
    BY <1>3, <1>5, <1>7, FS_Union, FS_EmptySet
<1>9. 2 ^ (n + 1) = 2 ^ n + 2 ^ n - 0
    BY <1>2, <1>6, <1>8, Zenon
<1>10. 2 ^ n \in Nat
    BY PowerPositive
<1>11. \A a \in Nat : a + a - 0 = 2 * a
    OBVIOUS
<1> QED
    BY <1>9, <1>10, <1>11

\* Exponents add up.
LEMMA PowerSum == \A m, k \in Nat : 2 ^ (m + k) = 2 ^ m * 2 ^ k
<1> SUFFICES ASSUME NEW m \in Nat, NEW k \in Nat PROVE 2 ^ (m + k) = 2 ^ m * 2 ^ k
    OBVIOUS
<1> DEFINE S == {i \in Nat : 2 ^ (m + i) = 2 ^ m * 2 ^ i}
<1>1. 0 \in S
  <2>1. 2 ^ 0 = 1 /\ m + 0 = m /\ 2 ^ m \in Nat
      BY PowerPositive
  <2>2. 2 ^ m * 1 = 2 ^ m
      BY <2>1
  <2> QED
      BY <2>1, <2>2
<1>2. ASSUME NEW i \in S PROVE i + 1 \in S
  <2>1. i \in Nat /\ m + i \in Nat /\ m + (i + 1) = (m + i) + 1
      OBVIOUS
  <2>2. 2 ^ (m + (i + 1)) = 2 * (2 ^ m * 2 ^ i)
      BY <2>1, PowerNext
  <2>3. 2 ^ (i + 1) = 2 * 2 ^ i
      BY <2>1, PowerNext
  <2>4. 2 ^ m \in Nat /\ 2 ^ i \in Nat
      BY <2>1, PowerPositive
  <2>5. \A a, b \in Nat : 2 * (a * b) = a * (2 * b)
      OBVIOUS
  <2> QED
      BY <2>1, <2>2, <2>3, <2>4, <2>5
<1> HIDE DEF S
<1>3. k \in S
    BY <1>1, <1>2, Induction
<1> QED
    BY <1>3 DEF S

-----------------------------------------------------------------------------
(***************************************************************************)
(* What a C conversion does: it picks the number of the type that differs  *)
(* by a multiple of the span of the type.                                  *)
(***************************************************************************)
Span(t) == 2 ^ Width[t]

Same(m, x, z) == \E k \in Int : x = z + k * m

InRange(t, w) == IF t \in Signed THEN -Span(t) <= 2 * w /\ 2 * w < Span(t)
                 ELSE 0 <= w /\ w < Span(t)

\* Quotient and remainder by a positive number.
LEMMA Modulus ==
    ASSUME NEW x \in Int, NEW m \in Nat \ {0}
    PROVE  /\ x \div m \in Int
           /\ x % m \in 0 .. m - 1
           /\ x = m * (x \div m) + (x % m)
    BY SMTT(30)

\* No multiple of m but 0 lies strictly between -m and m.
LEMMA NoMultiple ==
    ASSUME NEW k \in Int, NEW m \in Nat \ {0}, k * m < m, -m < k * m
    PROVE  k = 0
    BY SMTT(30)

\* Congruence is symmetric.
LEMMA SameSymmetric ==
    ASSUME NEW m \in Int, NEW x \in Int, NEW z \in Int, Same(m, x, z)
    PROVE  Same(m, z, x)
<1>1. PICK k \in Int : x = z + k * m
    BY DEF Same
<1>2. z = x + (-k) * m /\ -k \in Int
    BY <1>1, SMTT(30)
<1> QED
    BY <1>2 DEF Same

\* Congruence is transitive.
LEMMA SameTransitive ==
    ASSUME NEW m \in Int, NEW x \in Int, NEW y \in Int, NEW z \in Int,
           Same(m, x, y), Same(m, y, z)
    PROVE  Same(m, x, z)
<1>1. PICK j \in Int : x = y + j * m
    BY DEF Same
<1>2. PICK k \in Int : y = z + k * m
    BY DEF Same
<1>3. x = z + (j + k) * m /\ j + k \in Int
    BY <1>1, <1>2, SMTT(30)
<1> QED
    BY <1>3 DEF Same

\* Every fixed type has room for one value at least.
LEMMA SpanPositive == \A t \in Fixed : Width[t] \in Nat /\ Span(t) \in Nat \ {0}
    BY WidthAssumption, PowerPositive DEF Span

\* A cut number is in the range of the type and congruent to the number.
LEMMA WrapFits ==
    ASSUME NEW t \in Fixed, NEW x \in Int
    PROVE  Wrap(t, x) \in Int /\ InRange(t, Wrap(t, x)) /\ Same(Span(t), Wrap(t, x), x)
<1> DEFINE m == Span(t)
           u == x % m
           q == x \div m
<1>1. m \in Nat \ {0}
    BY SpanPositive
<1>2. Wrap(t, x) = IF t \in Signed /\ 2 * u >= m THEN u - m ELSE u
    BY DEF Wrap, Span
<1> HIDE DEF m
<1>3. q \in Int /\ u \in 0 .. m - 1 /\ x = m * q + u
    BY <1>1, Modulus
<1> HIDE DEF u, q
<1>4. u = x + (-q) * m /\ u - m = x + (-q - 1) * m /\ -q \in Int /\ -q - 1 \in Int
    BY <1>1, <1>3, SMTT(30)
<1>5. Same(m, u, x) /\ Same(m, u - m, x)
    BY <1>4 DEF Same
<1>6. Wrap(t, x) \in Int /\ Same(m, Wrap(t, x), x)
    BY <1>1, <1>2, <1>3, <1>5
<1>7. InRange(t, Wrap(t, x))
  <2>1. CASE t \in Signed
      BY <1>1, <1>2, <1>3, <2>1 DEF InRange, m
  <2>2. CASE t \notin Signed
      BY <1>1, <1>2, <1>3, <2>2 DEF InRange, m
  <2> QED
      BY <2>1, <2>2
<1> QED
    BY <1>6, <1>7 DEF m

\* There is one such number.
LEMMA WrapUnique ==
    ASSUME NEW t \in Fixed, NEW x \in Int, NEW w \in Int,
           InRange(t, w), Same(Span(t), w, x)
    PROVE  Wrap(t, x) = w
<1> DEFINE m == Span(t)
           v == Wrap(t, x)
<1>1. m \in Nat \ {0} /\ m \in Int
    BY SpanPositive
<1>2. v \in Int /\ InRange(t, v) /\ Same(m, v, x)
    BY WrapFits
<1>3. -m < v - w /\ v - w < m
  <2>1. CASE t \in Signed
      BY <1>1, <1>2, <2>1 DEF InRange
  <2>2. CASE t \notin Signed
      BY <1>1, <1>2, <2>2 DEF InRange
  <2> QED
      BY <2>1, <2>2
<1> HIDE DEF m, v
<1>4. Same(m, v, w)
    BY <1>1, <1>2, SameSymmetric, SameTransitive DEF m
<1>5. PICK k \in Int : v = w + k * m
    BY <1>4 DEF Same
<1>6. k * m \in Int /\ v - w = k * m
    BY <1>1, <1>2, <1>5, SMTT(30)
<1>7. k = 0
    BY <1>1, <1>3, <1>6, NoMultiple
<1> QED
    BY <1>1, <1>5, <1>7 DEF v

\* Congruent numbers are cut to the same.
LEMMA WrapSame ==
    ASSUME NEW t \in Fixed, NEW x \in Int, NEW z \in Int, Same(Span(t), x, z)
    PROVE  Wrap(t, x) = Wrap(t, z)
<1>1. /\ Wrap(t, x) \in Int /\ InRange(t, Wrap(t, x)) /\ Same(Span(t), Wrap(t, x), x)
      /\ Span(t) \in Int
    BY WrapFits, SpanPositive
<1>2. Same(Span(t), Wrap(t, x), z)
    BY <1>1, SameTransitive
<1> QED
    BY <1>1, <1>2, WrapUnique

\* Cutting twice is cutting once.
LEMMA WrapTwice ==
    ASSUME NEW t \in Type, NEW x \in Int
    PROVE  Wrap(t, x) \in Int /\ Wrap(t, Wrap(t, x)) = Wrap(t, x)
<1>1. CASE t \in Fixed
    BY <1>1, WrapFits, WrapSame
<1>2. CASE t \notin Fixed
    BY <1>2 DEF Wrap
<1> QED
    BY <1>1, <1>2

\* A conversion to a wider type first changes nothing.
LEMMA Narrower ==
    ASSUME NEW t \in Fixed, NEW s \in Fixed, Width[t] <= Width[s],
           NEW x \in Int, NEW z \in Int, Same(Span(s), x, z)
    PROVE  Wrap(t, x) = Wrap(t, z)
<1>1. Width[t] \in Nat /\ Width[s] \in Nat /\ Width[s] - Width[t] \in Nat
    BY WidthAssumption
<1> DEFINE c == 2 ^ (Width[s] - Width[t])
<1>2. Span(s) = Span(t) * c /\ c \in Nat /\ Span(t) \in Nat
  <2>1. Width[t] + (Width[s] - Width[t]) = Width[s]
      BY <1>1
  <2>2. 2 ^ (Width[t] + (Width[s] - Width[t])) = Span(t) * c
      BY <1>1, PowerSum, Zenon DEF Span
  <2>3. c \in Nat \ {0} /\ Span(t) \in Nat \ {0}
      BY <1>1, PowerPositive, Zenon DEF Span
  <2> QED
      BY <2>1, <2>2, <2>3, Zenon DEF Span
<1> HIDE DEF c
<1>3. PICK k \in Int : x = z + k * Span(s)
    BY DEF Same
<1>4. x = z + (k * c) * Span(t) /\ k * c \in Int
    BY <1>2, <1>3, SMTT(30)
<1>5. Same(Span(t), x, z)
    BY <1>4 DEF Same
<1> QED
    BY <1>5, WrapSame

-----------------------------------------------------------------------------
(***************************************************************************)
(* Storing a value and reading it.                                         *)
(***************************************************************************)
Stored(t, r) == r \in (IF t \in Boxed THEN Int ELSE 0 .. Span("Int32") - 1)

\* The field keeps what the narrower type needs.
LEMMA ReadField ==
    ASSUME NEW t \in Fixed \ Boxed, NEW x \in Int
    PROVE  Wrap(t, x % Span("Int32")) = Wrap(t, x)
<1> DEFINE m == Span("Int32")
<1>1. "Int32" \in Fixed /\ Width[t] <= Width["Int32"] /\ m \in Nat \ {0}
    BY WidthAssumption, SpanPositive DEF Fixed, Signed
<1> HIDE DEF m
<1>2. x % m \in 0 .. m - 1 /\ x \div m \in Int /\ x = m * (x \div m) + (x % m)
    BY <1>1, Modulus
<1>3. x % m = x + (-(x \div m)) * m /\ -(x \div m) \in Int
    BY <1>1, <1>2, SMTT(30)
<1>4. Same(m, x % m, x)
    BY <1>3 DEF Same
<1>5. x % m \in Int
    BY <1>1, <1>2
<1> QED
    BY <1>1, <1>4, <1>5, Narrower DEF m

\* A value that is made is read back cut to its type.
LEMMA ReadMk ==
    ASSUME NEW t \in Type, NEW x \in Int
    PROVE  /\ Read(t, Mk(t, x)) = Wrap(t, x)
           /\ Stored(t, Mk(t, x))
           /\ t \in Boxed => Canonical(t, Mk(t, x))
<1>1. CASE t \in Boxed
  <2>1. Mk(t, x) = Wrap(t, x) /\ Wrap(t, x) \in Int /\ Wrap(t, Wrap(t, x)) = Wrap(t, x)
      BY <1>1, WrapTwice DEF Mk, Box
  <2> QED
      BY <1>1, <2>1 DEF Read, Stored, Canonical, Mk, Box
<1>2. CASE t \notin Boxed
  <2>1. t \in Fixed \ Boxed /\ Span("Int32") \in Nat \ {0}
      BY <1>2, SpanPositive DEF Type, Boxed, Fixed, Signed
  <2>2. Mk(t, x) = x % Span("Int32")
      BY <1>2 DEF Mk, Span
  <2>3. Mk(t, x) \in 0 .. Span("Int32") - 1
      BY <2>1, <2>2, Modulus
  <2> QED
      BY <1>2, <2>1, <2>2, <2>3, ReadField DEF Read, Stored
<1> QED
    BY <1>1, <1>2

\* A literal is made as a value that reads as the literal, or as the low bits
\* of a character that is no byte.
LEMMA LiteralReads ==
    ASSUME NEW t \in Type, NEW x \in Literals[t]
    PROVE  /\ x \in Int
           /\ Read(t, Literal(t, x)) = Wrap(t, x)
           /\ Stored(t, Literal(t, x))
           /\ t \in Boxed => Canonical(t, Literal(t, x))
           /\ t # "Char" => Literal(t, x) = Mk(t, x) /\ Wrap(t, x) = x
<1>1. CASE t = "Char"
  <2> DEFINE m == Span(t)
             u == x % m
             c == CChar(x)
  <2>1. x \in Int /\ t \in Fixed /\ m \in Nat \ {0}
      BY <1>1, LiteralAssumption, CharAssumption, SpanPositive DEF Fixed, Unsigned
  <2>2. c = IF CharSigned /\ 2 * u >= m THEN u - m ELSE u
      BY <1>1 DEF CChar, Span
  <2> HIDE DEF c, m
  <2>3. x \div m \in Int /\ u \in 0 .. m - 1 /\ x = m * (x \div m) + u
      BY <2>1, Modulus
  <2> DEFINE q == x \div m
  <2> HIDE DEF q, u
  <2>4. /\ u = x + (-q) * m /\ u - m = x + (-q - 1) * m
        /\ -q \in Int /\ -q - 1 \in Int /\ u \in Int
      BY <2>1, <2>3, SMTT(30) DEF q
  <2>5. c \in Int /\ Same(m, c, x)
      BY <2>1, <2>2, <2>4 DEF Same
  <2>6. Wrap(t, c) = Wrap(t, x)
      BY <2>1, <2>5, WrapSame DEF m
  <2>7. Literal(t, x) = Mk(t, c)
      BY <1>1 DEF Literal, Spelled, c
  <2> QED
      BY <1>1, <2>1, <2>5, <2>6, <2>7, ReadMk
<1>2. CASE t # "Char"
  <2>1. x \in Int /\ Wrap(t, x) = x
      BY <1>2, LiteralAssumption
  <2>2. Literal(t, x) = Mk(t, x)
      BY <1>2 DEF Literal, Spelled
  <2> QED
      BY <1>2, <2>1, <2>2, ReadMk
<1> QED
    BY <1>1, <1>2

\* A number that is a byte is a character of the compiler and of C.
LEMMA ByteIsChar ==
    ASSUME NEW x \in Byte
    PROVE  x \in CodePoint /\ Wrap("Char", x) = x
<1>1. "Char" \in Fixed /\ "Char" \notin Signed /\ Span("Char") \in Nat \ {0}
    BY SpanPositive DEF Fixed, Signed, Unsigned
<1>2. x \in Int /\ InRange("Char", x) /\ x = x + 0 * Span("Char")
    BY <1>1 DEF InRange, Byte, Span
<1>3. Same(Span("Char"), x, x)
    BY <1>2 DEF Same
<1> QED
    BY <1>1, <1>2, <1>3, WrapUnique, CharAssumption

-----------------------------------------------------------------------------
(***************************************************************************)
(* Division.                                                               *)
(***************************************************************************)

\* What the library assumes of \div and % on natural numbers.
LEMMA Division ==
    ASSUME NEW a \in Nat, NEW b \in Nat \ {0}
    PROVE  /\ a \div b \in Int
           /\ a - b * (a \div b) \in 0 .. b - 1
    BY SMTT(30)

\* The remainder of C has the sign of the dividend and is smaller than the
\* divisor.
LEMMA Truncates ==
    ASSUME NEW x \in Int, NEW y \in Int \ {0}
    PROVE  /\ CDiv(x, y) \in Int
           /\ x >= 0 => CRem(x, y) \in 0 .. Abs(y) - 1
           /\ x < 0 => CRem(x, y) \in -(Abs(y) - 1) .. 0
<1> DEFINE k == Abs(x) \div Abs(y)
           r == Abs(x) - Abs(y) * k
<1>1. Abs(x) \in Nat /\ Abs(y) \in Nat \ {0}
    BY DEF Abs
<1>2. k \in Int /\ r \in 0 .. Abs(y) - 1
    BY <1>1, Division
<1>3. CDiv(x, y) = IF (x < 0) = (y < 0) THEN k ELSE -k
    BY DEF CDiv
<1> HIDE DEF k
<1>4. CASE x >= 0 /\ y > 0
    BY <1>2, <1>3, <1>4, SMTT(30) DEF CRem, Abs
<1>5. CASE x >= 0 /\ y < 0
    BY <1>2, <1>3, <1>5, SMTT(30) DEF CRem, Abs
<1>6. CASE x < 0 /\ y > 0
    BY <1>2, <1>3, <1>6, SMTT(30) DEF CRem, Abs
<1>7. CASE x < 0 /\ y < 0
    BY <1>2, <1>3, <1>7, SMTT(30) DEF CRem, Abs
<1> QED
    BY <1>4, <1>5, <1>6, <1>7

\* idris2_div_Int8 and its like: whatever the signs, the quotient leaves a
\* remainder that is not negative and is smaller than the divisor, as the
\* comment on the division says (mathFunctions.c:35).
THEOREM QuotientIsEuclidean ==
    ASSUME NEW num \in Int, NEW denom \in Int \ {0}
    PROVE  num - SignedDiv(num, denom) * denom \in 0 .. Abs(denom) - 1
<1> DEFINE q == CDiv(num, denom)
           r == CRem(num, denom)
<1>1. q \in Int /\ r = num - denom * q
    BY Truncates DEF CRem
<1>2. /\ num >= 0 => r \in 0 .. Abs(denom) - 1
      /\ num < 0 => r \in -(Abs(denom) - 1) .. 0
    BY Truncates
<1>3. SignedDiv(num, denom) = q + (IF r >= 0 THEN 0 ELSE IF denom < 0 THEN 1 ELSE -1)
    BY DEF SignedDiv
<1> HIDE DEF q, r
<1>4. /\ r \in Int
      /\ Abs(denom) = IF denom < 0 THEN -denom ELSE denom
    BY <1>1 DEF Abs
<1>5. CASE r >= 0
  <2>1. num - SignedDiv(num, denom) * denom = r
      BY <1>1, <1>3, <1>5, SMTT(30)
  <2>2. r \in 0 .. Abs(denom) - 1
      BY <1>2, <1>4, <1>5, SMTT(30)
  <2> QED
      BY <2>1, <2>2
<1>6. CASE r < 0 /\ denom < 0
    BY <1>1, <1>2, <1>3, <1>6, SMTT(30) DEF Abs
<1>7. CASE r < 0 /\ denom > 0
    BY <1>1, <1>2, <1>3, <1>7, SMTT(30) DEF Abs
<1> QED
    BY <1>4, <1>5, <1>6, <1>7

\* idris2_mod_Int8 and its like: where the absolute value of the divisor is a
\* number of the type, the result is the dividend up to a multiple of the
\* divisor and lies in 0 .. |divisor|.  It is the divisor's absolute value
\* and not 0 for a negative multiple of it, so the bound is tight.
THEOREM RemainderIsCongruent ==
    ASSUME NEW t \in Type, NEW num \in Int, NEW d \in Int \ {0},
           Wrap(t, Abs(d)) = Abs(d)
    PROVE  /\ SignedMod(t, num, d) \in 0 .. Abs(d)
           /\ \E k \in Int : num = k * Abs(d) + SignedMod(t, num, d)
<1> DEFINE e == Abs(d)
           q == CDiv(num, e)
           r == CRem(num, e)
<1>1. e \in Int \ {0} /\ e > 0 /\ Abs(e) = e
    BY DEF Abs
<1> HIDE DEF e
<1>2. q \in Int /\ r = num - e * q
    BY <1>1, Truncates DEF CRem
<1>3. /\ num >= 0 => r \in 0 .. e - 1
      /\ num < 0 => r \in -(e - 1) .. 0
    BY <1>1, Truncates
<1>4. SignedMod(t, num, d) = r + (IF num < 0 THEN e ELSE 0)
    BY DEF SignedMod, e
<1> HIDE DEF q, r
<1>5. CASE num >= 0
  <2>1. SignedMod(t, num, d) = r /\ r \in 0 .. e
      BY <1>1, <1>3, <1>4, <1>5
  <2>2. num = q * e + r
      BY <1>1, <1>2
  <2> QED
      BY <1>2, <2>1, <2>2 DEF e
<1>6. CASE num < 0
  <2>1. SignedMod(t, num, d) = r + e /\ r + e \in 0 .. e
      BY <1>1, <1>3, <1>4, <1>6
  <2>2. q - 1 \in Int /\ num = (q - 1) * e + (r + e)
      BY <1>1, <1>2, SMTT(30)
  <2> QED
      BY <2>1, <2>2 DEF e
<1> QED
    BY <1>5, <1>6

-----------------------------------------------------------------------------
(***************************************************************************)
(* Every division of the run time is the division of the compiler.           *)
(***************************************************************************)

\* The compiler's division leaves a remainder that is not negative.
LEMMA FoldDivision ==
    ASSUME NEW x \in Int, NEW y \in Int \ {0}
    PROVE  /\ FoldDiv(x, y) \in Int
           /\ x - y * FoldDiv(x, y) = x % Abs(y)
           /\ x % Abs(y) \in 0 .. Abs(y) - 1
<1>1. CASE y > 0
  <2>1. Abs(y) = y /\ FoldDiv(x, y) = x \div y
      BY <1>1 DEF Abs, FoldDiv
  <2> DEFINE q == x \div y
             u == x % y
  <2>2. q \in Int /\ u \in 0 .. y - 1 /\ x = y * q + u
      BY <1>1, Modulus
  <2> HIDE DEF q, u
  <2>3. x - y * q = u
      BY <2>2, SMTT(30)
  <2> QED
      BY <2>1, <2>2, <2>3 DEF q, u
<1>2. CASE y < 0
  <2> DEFINE d == -y
             q == x \div d
             u == x % d
  <2>1. d \in Nat \ {0} /\ Abs(y) = d /\ FoldDiv(x, y) = -q /\ y = -d
      BY <1>2 DEF Abs, FoldDiv
  <2> HIDE DEF d
  <2>2. q \in Int /\ u \in 0 .. d - 1 /\ x = d * q + u
      BY <2>1, Modulus
  <2> HIDE DEF q, u
  <2>3. -q \in Int /\ x - (-d) * (-q) = u
      BY <2>1, <2>2, SMTT(30)
  <2> QED
      BY <2>1, <2>2, <2>3 DEF u
<1> QED
    BY <1>1, <1>2

\* There is one quotient that does.
LEMMA OneQuotient ==
    ASSUME NEW x \in Int, NEW y \in Int \ {0}, NEW q \in Int,
           x - y * q \in 0 .. Abs(y) - 1
    PROVE  q = FoldDiv(x, y)
<1> DEFINE f == FoldDiv(x, y)
           d == Abs(y)
<1>1. f \in Int /\ x - y * f \in 0 .. d - 1
    BY FoldDivision
<1>2. d \in Nat \ {0} /\ (y = d \/ y = -d)
    BY DEF Abs
<1>3. x - y * q \in 0 .. d - 1
    OBVIOUS
<1> HIDE DEF f, d
<1>4. PICK k \in Int : k * d = y * q - y * f /\ (k = q - f \/ k = f - q)
  <2>1. CASE y = d
    <3>1. (q - f) * d = y * q - y * f /\ q - f \in Int
        BY <1>1, <1>2, <2>1, SMTT(30)
    <3> QED
        BY <3>1
  <2>2. CASE y = -d
    <3>1. (f - q) * d = y * q - y * f /\ f - q \in Int
        BY <1>1, <1>2, <2>2, SMTT(30)
    <3> QED
        BY <3>1
  <2> QED
      BY <1>2, <2>1, <2>2
<1>5. k * d < d /\ -d < k * d
  <2>1. y * q \in Int /\ y * f \in Int
      BY <1>1, SMTT(30)
  <2> QED
      BY <1>1, <1>2, <1>3, <1>4, <2>1
<1>6. k = 0
    BY <1>2, <1>5, NoMultiple
<1> QED
    BY <1>1, <1>4, <1>6 DEF f

\* The signed division of C with its correction is the compiler's.
LEMMA SignedDivFolds ==
    ASSUME NEW x \in Int, NEW y \in Int \ {0}
    PROVE  SignedDiv(x, y) = FoldDiv(x, y)
<1>1. SignedDiv(x, y) \in Int
  <2>1. CDiv(x, y) \in Int
      BY Truncates
  <2> QED
      BY <2>1 DEF SignedDiv
<1>2. x - SignedDiv(x, y) * y \in 0 .. Abs(y) - 1
    BY QuotientIsEuclidean
<1>3. SignedDiv(x, y) * y = y * SignedDiv(x, y)
    BY <1>1
<1> QED
    BY <1>1, <1>2, <1>3, OneQuotient

\* Unsigned operands need no correction.
LEMMA UnsignedDivFolds ==
    ASSUME NEW x \in Nat, NEW y \in Nat \ {0}
    PROVE  CDiv(x, y) = FoldDiv(x, y) /\ CRem(x, y) = x - y * FoldDiv(x, y)
<1>1. CDiv(x, y) \in Int /\ CRem(x, y) \in 0 .. Abs(y) - 1
    BY Truncates
<1>2. x - y * CDiv(x, y) \in 0 .. Abs(y) - 1
    BY <1>1 DEF CRem
<1> QED
    BY <1>1, <1>2, OneQuotient DEF CRem

\* Of a multiple of the divisor truncated division is exact.
LEMMA ExactDivision ==
    ASSUME NEW y \in Int \ {0}, NEW k \in Int
    PROVE  CDiv(y * k, y) = k
<1> DEFINE q == CDiv(y * k, y)
           r == CRem(y * k, y)
           d == Abs(y)
<1>1. y * k \in Int
    BY SMTT(30)
<1>2. q \in Int /\ r \in -(d - 1) .. d - 1
  <2>1. d \in Nat \ {0}
      BY DEF Abs
  <2>2. /\ q \in Int
        /\ y * k >= 0 => r \in 0 .. d - 1
        /\ y * k < 0 => r \in -(d - 1) .. 0
      BY <1>1, Truncates
  <2> HIDE DEF q, r, d
  <2> QED
      BY <1>1, <2>1, <2>2
<1>3. r = y * k - y * q
    BY DEF CRem
<1>4. d \in Nat \ {0} /\ (y = d \/ y = -d)
    BY DEF Abs
<1> HIDE DEF q, r, d
<1>5. PICK j \in Int : j * d = y * k - y * q /\ (j = k - q \/ j = q - k)
  <2>1. CASE y = d
    <3>1. (k - q) * d = y * k - y * q /\ k - q \in Int
        BY <1>2, <1>4, <2>1, SMTT(30)
    <3> QED
        BY <3>1
  <2>2. CASE y = -d
    <3>1. (q - k) * d = y * k - y * q /\ q - k \in Int
        BY <1>2, <1>4, <2>2, SMTT(30)
    <3> QED
        BY <3>1
  <2> QED
      BY <1>4, <2>1, <2>2
<1>6. j = 0
  <2>1. j * d < d /\ -d < j * d
      BY <1>2, <1>3, <1>4, <1>5
  <2> QED
      BY <1>4, <2>1, NoMultiple
<1> QED
    BY <1>2, <1>5, <1>6 DEF q

\* Nor do Integers, whose division is Euclidean already.
LEMMA IntegerDivFolds ==
    ASSUME NEW x \in Int, NEW y \in Int \ {0}
    PROVE  /\ IntegerDiv(x, y) = FoldDiv(x, y)
           /\ IntegerMod(x, y) = x - y * FoldDiv(x, y)
<1> DEFINE f == FoldDiv(x, y)
<1>1. f \in Int /\ x - y * f = IntegerMod(x, y) /\ IntegerMod(x, y) \in 0 .. Abs(y) - 1
    BY FoldDivision DEF IntegerMod
<1> HIDE DEF f
<1>2. IntegerMod(x, y) \in Int
    BY <1>1 DEF Abs
<1>3. y * f \in Int
    BY <1>1, SMTT(30)
<1>4. x - IntegerMod(x, y) = y * f
    BY <1>1, <1>2, <1>3
<1>5. IntegerDiv(x, y) = f
    BY <1>1, <1>4, ExactDivision DEF IntegerDiv
<1> QED
    BY <1>1, <1>5 DEF f

\* The remainder of C does not see the sign of the divisor.
LEMMA RemainderSign ==
    ASSUME NEW x \in Int, NEW y \in Int \ {0}
    PROVE  CRem(x, -y) = CRem(x, y)
<1> DEFINE k == Abs(x) \div Abs(y)
<1>1. Abs(x) \in Nat /\ Abs(y) \in Nat \ {0} /\ Abs(-y) = Abs(y)
    BY DEF Abs
<1>2. k \in Int
    BY <1>1, Division
<1>3. /\ CDiv(x, y) = IF (x < 0) = (y < 0) THEN k ELSE -k
      /\ CDiv(x, -y) = IF (x < 0) = (-y < 0) THEN k ELSE -k
    BY <1>1 DEF CDiv
<1> HIDE DEF k
<1>4. CDiv(x, y) \in Int /\ CDiv(x, -y) = -CDiv(x, y)
    BY <1>2, <1>3
<1>5. \A q \in Int : x - (-y) * (-q) = x - y * q
    BY SMTT(30)
<1> QED
    BY <1>4, <1>5 DEF CRem

\* The divisor, made positive and stored back in its type: it stays negative
\* where the type has no positive counterpart.
LEMMA Divisor ==
    ASSUME NEW t \in Signed, NEW y \in Int \ {0}, Wrap(t, y) = y
    PROVE  \/ Wrap(t, Abs(y)) = Abs(y)
           \/ Wrap(t, Abs(y)) = y /\ y < 0 /\ 2 * y = -Span(t)
<1>1. t \in Fixed /\ Span(t) \in Nat \ {0}
    BY SpanPositive DEF Fixed
<1>2. InRange(t, y)
    BY <1>1, WrapFits
<1>3. CASE y > 0
    BY <1>3 DEF Abs
<1>4. CASE y < 0 /\ 2 * y = -Span(t)
  <2>1. Abs(y) = y + 1 * Span(t) /\ Abs(y) \in Int
      BY <1>1, <1>4 DEF Abs
  <2>2. Same(Span(t), Abs(y), y)
      BY <2>1 DEF Same
  <2> QED
      BY <1>1, <1>4, <2>1, <2>2, WrapSame
<1>5. CASE y < 0 /\ 2 * y # -Span(t)
  <2>1. Abs(y) = -y /\ -y \in Int /\ InRange(t, -y)
      BY <1>1, <1>2, <1>5 DEF Abs, InRange
  <2>2. -y = -y + 0 * Span(t)
      BY <1>1
  <2>3. Same(Span(t), -y, -y)
      BY <2>2 DEF Same
  <2> QED
      BY <1>1, <2>1, <2>3, WrapUnique
<1> QED
    BY <1>3, <1>4, <1>5

\* The divisor's absolute value is added to a negative dividend's remainder, or,
\* if it is the least of the type, has become its own opposite.
LEMMA SignedModCases ==
    ASSUME NEW t \in Signed, NEW x \in Int, NEW y \in Int \ {0}, Wrap(t, y) = y
    PROVE  /\ x >= 0 => SignedMod(t, x, y) = CRem(x, y)
           /\ x < 0 => \/ SignedMod(t, x, y) = CRem(x, y) + Abs(y)
                       \/ /\ SignedMod(t, x, y) = CRem(x, y) - Abs(y)
                          /\ 2 * y = -Span(t)
                          /\ 2 * Abs(y) = Span(t)
<1> DEFINE d == Wrap(t, Abs(y))
<1>1. CRem(x, y) \in Int
  <2>1. CDiv(x, y) \in Int
      BY Truncates
  <2> QED
      BY <2>1, SMTT(30) DEF CRem
<1>2. d \in {y, -y}
    BY Divisor DEF Abs
<1>3. SignedMod(t, x, y) = CRem(x, d) + (IF x < 0 THEN d ELSE 0)
    BY DEF SignedMod
<1>4. CRem(x, d) = CRem(x, y)
    BY <1>2, RemainderSign
<1>5. d = Abs(y) \/ (d = y /\ y < 0 /\ 2 * y = -Span(t))
    BY Divisor
<1>6. Span(t) \in Nat
    BY SpanPositive DEF Fixed
<1> HIDE DEF d
<1> QED
    BY <1>1, <1>3, <1>4, <1>5, <1>6 DEF Abs

\* The remainder is a number in all of these cases.
LEMMA SignedModInteger ==
    ASSUME NEW t \in Signed, NEW x \in Int, NEW y \in Int \ {0}, Wrap(t, y) = y
    PROVE  SignedMod(t, x, y) \in Int
<1>1. CRem(x, y) \in Int
  <2>1. CDiv(x, y) \in Int
      BY Truncates
  <2> QED
      BY <2>1, SMTT(30) DEF CRem
<1> QED
    BY <1>1, SignedModCases DEF Abs

\* The remainder is the compiler's, in the low bits that are stored, except of a
\* negative multiple of the divisor.
LEMMA SignedModFolds ==
    ASSUME NEW t \in Signed, NEW x \in Int, NEW y \in Int \ {0}, Wrap(t, y) = y,
           ~(x < 0 /\ CRem(x, y) = 0)
    PROVE  /\ SignedMod(t, x, y) \in Int
           /\ Same(Span(t), SignedMod(t, x, y), x - y * FoldDiv(x, y))
<1> DEFINE q == CDiv(x, y)
           r == CRem(x, y)
           a == Abs(y)
           s == x - y * FoldDiv(x, y)
           m == SignedMod(t, x, y)
<1>1. q \in Int /\ r = x - y * q
    BY Truncates DEF CRem
<1>2. a \in Nat \ {0} /\ Span(t) \in Nat /\ a = (IF y < 0 THEN -y ELSE y)
    BY SpanPositive DEF Abs, Fixed
<1>3. /\ x >= 0 => r \in 0 .. a - 1
      /\ x < 0 => r \in -(a - 1) .. 0
    BY Truncates
<1>4. /\ x >= 0 => m = r
      /\ x < 0 => m = r + a \/ (m = r - a /\ 2 * a = Span(t))
    BY SignedModCases
<1>5. r # 0 \/ x >= 0
    OBVIOUS
<1> HIDE DEF q, r, m
<1>6. CASE x >= 0
  <2>1. x - y * q \in 0 .. a - 1
      BY <1>1, <1>3, <1>6
  <2>2. r = s
      BY <1>1, <2>1, OneQuotient
  <2>3. m = s /\ m \in Int
      BY <1>2, <1>3, <1>4, <1>6, <2>2
  <2> HIDE DEF s
  <2>4. m = s + 0 * Span(t)
      BY <1>2, <2>3
  <2> QED
      BY <2>3, <2>4 DEF Same, s, m
<1>7. CASE x < 0
  <2> DEFINE p == IF y < 0 THEN q + 1 ELSE q - 1
  <2>1. p \in Int /\ x - y * p = r + a
    <3>1. CASE y < 0
        BY <1>1, <1>2, <3>1, SMTT(30)
    <3>2. CASE y > 0
        BY <1>1, <1>2, <3>2, SMTT(30)
    <3> QED
        BY <3>1, <3>2
  <2> HIDE DEF p
  <2>2. r + a \in 0 .. a - 1 /\ r \in Int
      BY <1>2, <1>3, <1>5, <1>7
  <2>3. r + a = s
    <3>1. p = FoldDiv(x, y)
        BY <2>1, <2>2, OneQuotient
    <3> QED
        BY <2>1, <3>1
  <2> HIDE DEF s, a
  <2>4. m = s + 0 * Span(t) \/ m = s + (-1) * Span(t)
      BY <1>2, <1>4, <1>7, <2>2, <2>3
  <2>5. m \in Int
      BY <1>2, <1>4, <1>7, <2>2
  <2> QED
      BY <2>4, <2>5 DEF Same, s, m
<1> QED
    BY <1>6, <1>7

-----------------------------------------------------------------------------
(***************************************************************************)
(* The bit operations give an integer: the sums of the bits exist.         *)
(***************************************************************************)
Sums(low, bit, n) == low = [i \in 0 .. n |-> IF i = 0 THEN 0 ELSE low[i - 1] + bit[i - 1]]

\* Any sequence of bits has partial sums.
LEMMA SumsExist == \A n \in Nat : \A bit : \E low : Sums(low, bit, n)
<1> SUFFICES ASSUME NEW n \in Nat, NEW bit PROVE \E low : Sums(low, bit, n)
    OBVIOUS
<1> DEFINE S == {m \in Nat : \E low : Sums(low, bit, m)}
<1>1. 0 \in S
  <2> DEFINE low == [i \in 0 .. 0 |-> 0]
  <2>1. Sums(low, bit, 0)
      BY DEF Sums
  <2> QED
      BY <2>1
<1>2. ASSUME NEW m \in S PROVE m + 1 \in S
  <2>1. PICK f : Sums(f, bit, m)
      OBVIOUS
  <2> DEFINE low == [i \in 0 .. m + 1 |-> IF i = m + 1 THEN f[m] + bit[m] ELSE f[i]]
  <2>2. m \in Nat /\ \A i \in 0 .. m + 1 : i # m + 1 => i \in 0 .. m
      OBVIOUS
  <2>3. \A i \in 0 .. m : low[i] = f[i]
      BY <2>2
  <2>4. \A i \in 0 .. m : f[i] = IF i = 0 THEN 0 ELSE f[i - 1] + bit[i - 1]
      BY <2>1, Zenon DEF Sums
  <2>5. \A i \in 0 .. m + 1 : i # 0 => i - 1 \in 0 .. m
      BY <2>2
  <2>6. ASSUME NEW i \in 0 .. m + 1
        PROVE  low[i] = IF i = 0 THEN 0 ELSE low[i - 1] + bit[i - 1]
    <3>1. CASE i = m + 1
      <4>1. low[i] = f[m] + bit[m] /\ i # 0 /\ i - 1 = m /\ low[m] = f[m]
          BY <2>2, <2>3, <3>1
      <4> QED
          BY <4>1, Zenon
    <3>2. CASE i # m + 1
      <4>1. low[i] = f[i] /\ (i # 0 => low[i - 1] = f[i - 1])
          BY <2>2, <2>3, <2>5, <3>2
      <4> QED
          BY <2>2, <2>4, <3>2, <4>1, Zenon
    <3> QED
        BY <3>1, <3>2
  <2>7. Sums(low, bit, m + 1)
    <3> HIDE DEF low
    <3>1. low = [i \in 0 .. m + 1 |-> low[i]]
        BY Zenon DEF low
    <3> QED
        BY <2>6, <3>1, Zenon DEF Sums
  <2> QED
      BY <2>2, <2>7
<1> HIDE DEF S
<1>3. n \in S
    BY <1>1, <1>2, Induction
<1> QED
    BY <1>3 DEF S

\* Partial sums of integers are integers.
LEMMA SumsAreIntegers ==
    ASSUME NEW n \in Nat, NEW bit, \A i \in 0 .. n - 1 : bit[i] \in Int,
           NEW low, Sums(low, bit, n)
    PROVE  low[n] \in Int
<1> DEFINE S == {i \in 0 .. n : low[i] \in Int}
<1>1. \A i \in 0 .. n : low[i] = IF i = 0 THEN 0 ELSE low[i - 1] + bit[i - 1]
    BY Zenon DEF Sums
<1>2. 0 \in S
    BY <1>1
<1>3. ASSUME NEW i \in S, i \in 0 .. n - 1 PROVE i + 1 \in S
  <2>1. i + 1 \in 0 .. n /\ i + 1 # 0 /\ (i + 1) - 1 = i
      BY <1>3
  <2>2. low[i + 1] = low[i] + bit[i]
      BY <1>1, <2>1
  <2>3. low[i] \in Int /\ bit[i] \in Int
      BY <1>3
  <2> QED
      BY <2>1, <2>2, <2>3
<1> HIDE DEF S
<1>4. n \in S
    BY <1>2, <1>3, Induction
<1> QED
    BY <1>4 DEF S

\* So is each bit of the result with its weight.
LEMMA BitsAreIntegers ==
    ASSUME NEW op \in Logic, NEW x \in Int, NEW y \in Int, NEW i \in Nat
    PROVE  BitOp(op, BitOf(x, i), BitOf(y, i)) * 2 ^ i \in Int
<1>1. 2 ^ i \in Nat \ {0}
    BY PowerPositive
<1>2. \A z \in Int : BitOf(z, i) \in Int
  <2> DEFINE m == 2 ^ i
  <2>1. \A z \in Int : z \div m \in Int
      BY <1>1, Modulus
  <2>2. \A z \in Int : z % 2 \in Int
      BY SMT
  <2> HIDE DEF m
  <2>3. \A z \in Int : (z \div m) % 2 \in Int
      BY <2>1, <2>2
  <2> QED
      BY <2>3 DEF BitOf, m
<1>3. ASSUME NEW a \in Int, NEW b \in Int PROVE BitOp(op, a, b) \in Int
  <2>1. a * b \in Int /\ a + b - a * b \in Int /\ (a + b) % 2 \in Int
      BY SMTT(30)
  <2> HIDE DEF Arith
  <2>2. op = "and" \/ op = "or" \/ op = "xor"
      BY DEF Logic
  <2> QED
      BY <2>1, <2>2 DEF BitOp
<1>4. BitOp(op, BitOf(x, i), BitOf(y, i)) \in Int
    BY <1>2, <1>3
<1>5. \A a \in Int, b \in Nat : a * b \in Int
    BY SMTT(30)
<1> QED
    BY <1>1, <1>4, <1>5

\* A bit operation yields an integer.
LEMMA BitwiseIsInteger ==
    ASSUME NEW op \in Logic, NEW x \in Int, NEW y \in Int
    PROVE  Bitwise(op, x, y) \in Int
<1> DEFINE n == 2 * Width["Int64"]
           bit == [i \in 0 .. n - 1 |-> BitOp(op, BitOf(x, i), BitOf(y, i)) * 2 ^ i]
           low == CHOOSE low : Sums(low, bit, n)
<1>1. n \in Nat
    BY WidthAssumption DEF Fixed, Signed
<1>2. \A i \in 0 .. n - 1 : bit[i] \in Int
    BY <1>1, BitsAreIntegers
<1>3. Bitwise(op, x, y) = IF bit[n - 1] # 0 THEN low[n] - 2 ^ n ELSE low[n]
    BY Zenon DEF Bitwise, Sums
<1> HIDE DEF n, bit
<1>4. Sums(low, bit, n)
    BY <1>1, SumsExist, Zenon
<1> HIDE DEF low
<1>5. low[n] \in Int
    BY <1>1, <1>2, <1>4, SumsAreIntegers
<1>6. 2 ^ n \in Nat
    BY <1>1, PowerPositive
<1> QED
    BY <1>3, <1>5, <1>6

-----------------------------------------------------------------------------
(***************************************************************************)
(* One operation.                                                          *)
(***************************************************************************)
LEMMA OperationIs ==
    ASSUME NEW t \in Type, NEW op \in OpsOf(t), NEW l, NEW r
    PROVE  LET x == Read(t, l)
               y == Read(t, r)
               Gives(z) == Operation(t, op, l, r) = Mk(t, z)
           IN  /\ op \in Arith => Gives(MachineArith(op, x, y))
               /\ op \in Logic => Gives(Bitwise(op, x, y))
               /\ t = "Integer" => /\ op = "div" => Gives(IntegerDiv(x, y))
                                   /\ op = "mod" => Gives(IntegerMod(x, y))
                                   /\ op \in Shift => Gives(IntegerShift(op, x, y))
               /\ t \in Fixed => /\ op \in Shift => Gives(MachineShift(op, x, y))
                                 /\ t \in Unsigned /\ op \in Divide =>
                                      Gives(UnsignedDivision(op, x, y))
                                 /\ t \in Signed /\ op = "div" => Gives(SignedDiv(x, y))
                                 /\ t \in Signed /\ op = "mod" => Gives(SignedMod(t, x, y))
<1> DEFINE x == Read(t, l)
           y == Read(t, r)
           Gives(z) == Operation(t, op, l, r) = Mk(t, z)
<1>1. \/ op \in Arith /\ op \notin Logic /\ op \notin Shift /\ op \notin Divide
      \/ op \notin Arith /\ op \in Logic /\ op \notin Shift /\ op \notin Divide
      \/ op \notin Arith /\ op \notin Logic /\ op \in Shift /\ op \notin Divide
      \/ op \notin Arith /\ op \notin Logic /\ op \notin Shift /\ op = "div" /\ op # "mod"
      \/ op \notin Arith /\ op \notin Logic /\ op \notin Shift /\ op = "mod" /\ op # "div"
    BY DEF OpsOf, Type, Fixed, Arith, Logic, Shift, Divide, Signed, Unsigned
<1>2. "div" \in Divide /\ "mod" \in Divide
    BY DEF Divide
<1>3. \/ t = "Integer" /\ t \notin Fixed
      \/ t # "Integer" /\ t \in Fixed /\ t \in Signed /\ t \notin Unsigned
      \/ t # "Integer" /\ t \in Fixed /\ t \notin Signed /\ t \in Unsigned
    BY DEF OpsOf, Type, Fixed, Signed, Unsigned
<1> DEFINE result ==
             CASE t = "Integer" /\ op \in Arith -> IntegerArith(op, x, y)
               [] t = "Integer" /\ op = "div"   -> IntegerDiv(x, y)
               [] t = "Integer" /\ op = "mod"   -> IntegerMod(x, y)
               [] t = "Integer" /\ op \in Shift -> IntegerShift(op, x, y)
               [] t = "Integer" /\ op \in Logic -> IntegerBitwise(op, x, y)
               [] t \in Fixed /\ op \in Arith   -> MachineArith(op, x, y)
               [] t \in Fixed /\ op \in Shift   -> MachineShift(op, x, y)
               [] t \in Fixed /\ op \in Logic   -> MachineBitwise(op, x, y)
               [] t \in Unsigned /\ op \in Divide -> UnsignedDivision(op, x, y)
               [] t \in Signed /\ op = "div"    -> SignedDiv(x, y)
               [] t \in Signed /\ op = "mod"    -> SignedMod(t, x, y)
<1>4. Operation(t, op, l, r) = Mk(t, result)
    BY Zenon DEF Operation
<1> HIDE DEF x, y
<1>5. op \in Arith => result = MachineArith(op, x, y)
    BY <1>1, <1>2, <1>3 DEF IntegerArith
<1>6. op \in Logic => result = Bitwise(op, x, y)
    BY <1>1, <1>2, <1>3 DEF IntegerBitwise, MachineBitwise
<1>7. t = "Integer" => /\ op = "div" => result = IntegerDiv(x, y)
                       /\ op = "mod" => result = IntegerMod(x, y)
                       /\ op \in Shift => result = IntegerShift(op, x, y)
  <2>1. t = "Integer" /\ op = "div" => result = IntegerDiv(x, y)
    <3>1. t = "Integer" /\ op = "div" =>
            /\ t \notin Fixed /\ t \notin Unsigned /\ t \notin Signed
            /\ op \notin Arith /\ op # "mod" /\ op \notin Shift /\ op \notin Logic
        BY <1>1, <1>2, <1>3 DEF Fixed
    <3> QED
        BY <3>1
  <2>2. t = "Integer" /\ op = "mod" => result = IntegerMod(x, y)
    <3>1. t = "Integer" /\ op = "mod" =>
            /\ t \notin Fixed /\ t \notin Unsigned /\ t \notin Signed
            /\ op \notin Arith /\ op # "div" /\ op \notin Shift /\ op \notin Logic
        BY <1>1, <1>2, <1>3 DEF Fixed
    <3> QED
        BY <3>1
  <2>3. t = "Integer" /\ op \in Shift => result = IntegerShift(op, x, y)
      BY <1>1, <1>2, <1>3
  <2> HIDE DEF result
  <2> QED
      BY <2>1, <2>2, <2>3
<1>8. t \in Fixed => /\ op \in Shift => result = MachineShift(op, x, y)
                     /\ t \in Unsigned /\ op \in Divide => result = UnsignedDivision(op, x, y)
                     /\ t \in Signed /\ op = "div" => result = SignedDiv(x, y)
                     /\ t \in Signed /\ op = "mod" => result = SignedMod(t, x, y)
  <2>1. t \in Fixed /\ op \in Shift => result = MachineShift(op, x, y)
      BY <1>1, <1>2, <1>3
  <2>2. t \in Unsigned /\ op \in Divide => result = UnsignedDivision(op, x, y)
    <3>1. t \in Unsigned /\ op \in Divide =>
            /\ t \in Fixed /\ t # "Integer" /\ t \notin Signed
            /\ op \notin Arith /\ op \notin Shift /\ op \notin Logic
        BY <1>1, <1>3 DEF Fixed
    <3> QED
        BY <3>1
  <2>3. t \in Signed /\ op = "div" => result = SignedDiv(x, y)
      BY <1>1, <1>2, <1>3
  <2>4. t \in Signed /\ op = "mod" => result = SignedMod(t, x, y)
      BY <1>1, <1>2, <1>3
  <2> HIDE DEF result
  <2> QED
      BY <2>1, <2>2, <2>3, <2>4
<1> HIDE DEF result
<1> QED
    BY <1>4, <1>5, <1>6, <1>7, <1>8 DEF x, y

\* The compiler's operations, one class at a time.
LEMMA FoldIs ==
    ASSUME NEW t, NEW op, NEW x, NEW y
    PROVE  /\ op \in Arith => Fold(t, op, x, y) = Wrap(t, MachineArith(op, x, y))
           /\ op \in Logic => Fold(t, op, x, y) = Wrap(t, Bitwise(op, x, y))
           /\ op = "div" => Fold(t, op, x, y) = Wrap(t, FoldDiv(x, y))
           /\ op = "mod" => Fold(t, op, x, y) = Wrap(t, x - y * FoldDiv(x, y))
           /\ op = "shl" => Fold(t, op, x, y) = Wrap(t, x * 2 ^ y)
           /\ op = "shr" => Fold(t, op, x, y) = Wrap(t, x \div 2 ^ y)
<1> DEFINE shl == x * 2 ^ y
           shr == x \div 2 ^ y
           rest == x - y * FoldDiv(x, y)
           folded == CASE op \in Arith -> MachineArith(op, x, y)
                       [] op = "div"   -> FoldDiv(x, y)
                       [] op = "mod"   -> rest
                       [] op = "shl"   -> shl
                       [] op = "shr"   -> shr
                       [] op \in Logic -> Bitwise(op, x, y)
<1>1. Fold(t, op, x, y) = Wrap(t, folded)
    BY Zenon DEF Fold
<1> HIDE DEF shl, shr, rest
<1>2. /\ op \in Arith => op \notin {"div", "mod", "shl", "shr"} /\ op \notin Logic
      /\ op \in Logic => op \notin {"div", "mod", "shl", "shr"} /\ op \notin Arith
      /\ op \in {"div", "mod", "shl", "shr"} => op \notin Arith /\ op \notin Logic
    BY DEF Arith, Logic
<1>3. op \in Arith => folded = MachineArith(op, x, y)
    BY <1>2
<1>4. op \in Logic => folded = Bitwise(op, x, y)
    BY <1>2
<1>5. op = "div" => folded = FoldDiv(x, y)
    BY <1>2
<1>6. op = "mod" => folded = rest
    BY <1>2
<1>7. op = "shl" => folded = shl
    BY <1>2
<1>8. op = "shr" => folded = shr
    BY <1>2
<1> HIDE DEF folded
<1> QED
    BY <1>1, <1>3, <1>4, <1>5, <1>6, <1>7, <1>8 DEF shl, shr, rest

\* An operation of the run time stores the value that the compiler gives, except
\* the remainder of a negative multiple.
LEMMA OperationFolds ==
    ASSUME NEW t \in Type, NEW op \in OpsOf(t), NEW x \in Int, Wrap(t, x) = x,
           NEW y \in Literals[t], NEW l, Read(t, l) = x, Defined(t, op, x, y)
    PROVE  \E z \in Int :
             /\ Operation(t, op, l, Literal(t, y)) = Mk(t, z)
             /\ ~ModGap(t, op, x, y) => Wrap(t, z) = Fold(t, op, x, y)
<1> DEFINE o == Operation(t, op, l, Literal(t, y))
<1>1. y \in Int /\ Wrap(t, y) = y /\ Read(t, Literal(t, y)) = y
  <2>1. t # "Char"
      BY DEF OpsOf
  <2> QED
      BY <2>1, LiteralReads
<1>2. CASE op \in Arith
  <2>1. o = Mk(t, MachineArith(op, x, y))
      BY <1>1, <1>2, OperationIs
  <2>2. MachineArith(op, x, y) \in Int
    <3>1. x * y \in Int
        BY <1>1, SMTT(30)
    <3> QED
        BY <1>1, <1>2, <3>1 DEF Arith, MachineArith
  <2> QED
      BY <1>2, <2>1, <2>2, FoldIs
<1>3. CASE op \in Logic
  <2>1. o = Mk(t, Bitwise(op, x, y))
      BY <1>1, <1>3, OperationIs
  <2> QED
      BY <1>1, <1>3, <2>1, BitwiseIsInteger, FoldIs
<1>4. CASE op \in Shift
  <2>1. y \in Nat /\ Abs(y) = y
      BY <1>1, <1>4, WidthAssumption, BoundAssumption DEF Defined, Abs
  <2> DEFINE m == 2 ^ y
  <2>2. m \in Nat \ {0}
      BY <2>1, PowerPositive
  <2>3. t \in Fixed \/ t = "Integer"
      BY DEF OpsOf, Type
  <2>4. o = Mk(t, IF op = "shl" THEN x * m ELSE x \div m)
      BY <1>1, <1>4, <2>1, <2>3, OperationIs DEF IntegerShift, MachineShift
  <2>5. Fold(t, op, x, y) = Wrap(t, IF op = "shl" THEN x * m ELSE x \div m)
      BY <1>4, FoldIs DEF Shift
  <2> HIDE DEF m
  <2>6. x * m \in Int /\ x \div m \in Int
    <3>1. x * m \in Int
        BY <2>2, SMTT(30)
    <3> QED
        BY <2>2, <3>1, Modulus
  <2> QED
      BY <2>4, <2>5, <2>6
<1>5. CASE op \in Divide
  <2>1. y \in Int \ {0} /\ (op = "div" \/ op = "mod")
      BY <1>1, <1>5 DEF Defined, Divide
  <2> DEFINE q == FoldDiv(x, y)
             s == x - y * FoldDiv(x, y)
  <2>2. q \in Int /\ s \in Int
      BY <2>1, FoldDivision DEF Abs
  <2>3. /\ op = "div" => Fold(t, op, x, y) = Wrap(t, q)
        /\ op = "mod" => Fold(t, op, x, y) = Wrap(t, s)
      BY FoldIs
  <2>4. CASE t = "Integer"
    <3>1. /\ op = "div" => o = Mk(t, q)
          /\ op = "mod" => o = Mk(t, s)
        BY <1>1, <2>1, <2>4, OperationIs, IntegerDivFolds
    <3> QED
        BY <2>1, <2>2, <2>3, <3>1
  <2>5. CASE t \in Unsigned
    <3>1. x \in Nat /\ y \in Nat \ {0}
      <4>1. t \in Fixed /\ t \notin Signed
          BY <2>5 DEF Fixed, Signed, Unsigned
      <4>2. InRange(t, x) /\ InRange(t, y)
          BY <1>1, <4>1, WrapFits
      <4> QED
          BY <1>1, <2>1, <4>1, <4>2 DEF InRange
    <3>2. o = Mk(t, IF op = "div" THEN CDiv(x, y) ELSE CRem(x, y))
        BY <1>1, <1>5, <2>5, OperationIs DEF UnsignedDivision, Fixed
    <3>3. o = Mk(t, IF op = "div" THEN q ELSE s)
        BY <3>1, <3>2, UnsignedDivFolds
    <3> HIDE DEF q, s, o
    <3> QED
        BY <2>1, <2>2, <2>3, <3>3 DEF o
  <2>6. CASE t \in Signed /\ op = "div"
    <3>1. o = Mk(t, q)
        BY <1>1, <2>1, <2>6, OperationIs, SignedDivFolds DEF Fixed
    <3> QED
        BY <2>2, <2>3, <2>6, <3>1
  <2>7. CASE t \in Signed /\ op = "mod"
    <3> DEFINE m == SignedMod(t, x, y)
    <3>1. o = Mk(t, m)
        BY <1>1, <2>7, OperationIs DEF Fixed
    <3>2. m \in Int
        BY <1>1, <2>1, <2>7, SignedModInteger
    <3>3. ASSUME ~ModGap(t, op, x, y) PROVE Wrap(t, m) = Wrap(t, s)
      <4>1. ~(x < 0 /\ CRem(x, y) = 0)
          BY <2>7, <3>3 DEF ModGap
      <4>2. Same(Span(t), m, s)
          BY <1>1, <2>1, <2>7, <4>1, SignedModFolds
      <4> HIDE DEF m, s
      <4> QED
          BY <2>2, <2>7, <3>2, <4>2, WrapSame DEF Fixed
    <3> HIDE DEF m, s
    <3> QED
        BY <2>3, <2>7, <3>1, <3>2, <3>3
  <2>8. t = "Integer" \/ t \in Unsigned \/ t \in Signed
      BY DEF OpsOf, Type, Fixed
  <2> QED
      BY <2>1, <2>4, <2>5, <2>6, <2>7, <2>8
<1>6. op \in Arith \/ op \in Logic \/ op \in Shift \/ op \in Divide
    BY DEF OpsOf, Type, Fixed
<1> QED
    BY <1>2, <1>3, <1>4, <1>5, <1>6

-----------------------------------------------------------------------------
(***************************************************************************)
(* One cast.                                                               *)
(***************************************************************************)

\* A value as the run time holds it: a cell holds a number of its type.
Held(t, r) == Stored(t, r) /\ (t \in Boxed => Canonical(t, r))

\* Between fixed widths a cast keeps the field as it is, or converts.
LEMMA CastIs ==
    ASSUME NEW s \in Fixed, NEW to \in Fixed, Castable(s, to), NEW r
    PROVE  \/ CastFrom(s, to, r) = r /\ s \notin Boxed /\ to \notin Boxed
           \/ CastFrom(s, to, r) = r /\ s = "Int64" /\ to = "Int64"
           \/ CastFrom(s, to, r) = Mk(to, Wrap(to, Read(s, r)))
<1> DEFINE c == Mk(to, Wrap(to, Read(s, r)))
<1>0. to \notin {"Integer", "Text"}
    BY DEF Fixed, Signed, Unsigned
<1>1. CASE s = "Int8"
  <2>1. CastFrom(s, to, r) = CastInt8(to, r)
      BY <1>0, <1>1 DEF CastFrom, Signed, Unsigned
  <2> QED
      BY <1>1, <2>1 DEF CastInt8, Convert, Boxed
<1>2. CASE s = "Int16"
  <2>1. CastFrom(s, to, r) = CastInt16(to, r)
      BY <1>0, <1>2 DEF CastFrom, Signed, Unsigned
  <2> QED
      BY <1>2, <2>1 DEF CastInt16, Convert, Boxed
<1>3. CASE s = "Int32"
  <2>1. CastFrom(s, to, r) = CastInt32(to, r)
      BY <1>0, <1>3 DEF CastFrom, Signed, Unsigned
  <2> QED
      BY <1>3, <2>1 DEF CastInt32, Convert, Boxed
<1>4. CASE s = "Int64"
  <2>1. CastFrom(s, to, r) = CastInt64(to, r)
      BY <1>0, <1>4 DEF CastFrom, Signed, Unsigned
  <2> QED
      BY <1>4, <2>1 DEF CastInt64, Convert, Boxed
<1>5. CASE s = "Char"
  <2>1. CastFrom(s, to, r) = CastChar(to, r)
      BY <1>0, <1>5 DEF CastFrom, Signed, Unsigned
  <2> QED
      BY <1>5, <2>1 DEF CastChar, Convert, Boxed
<1>6. CASE s = "Bits8"
  <2>1. CastFrom(s, to, r) = CastBits8(to, r)
      BY <1>0, <1>6 DEF CastFrom, Signed, Unsigned
  <2> QED
      BY <1>6, <2>1 DEF CastBits8, Convert, Boxed
<1>7. CASE s = "Bits16"
  <2>1. CastFrom(s, to, r) = CastBits16(to, r)
      BY <1>0, <1>7 DEF CastFrom, Signed, Unsigned
  <2> QED
      BY <1>7, <2>1 DEF CastBits16, Convert, Boxed
<1>8. CASE s = "Bits32"
  <2>1. CastFrom(s, to, r) = CastBits32(to, r)
      BY <1>0, <1>8 DEF CastFrom, Signed, Unsigned
  <2> QED
      BY <1>8, <2>1 DEF CastBits32, Convert, Boxed
<1>9. CASE s = "Bits64"
  <2>1. CastFrom(s, to, r) = CastBits64(to, r)
      BY <1>0, <1>9 DEF CastFrom, Signed, Unsigned
  <2> QED
      BY <1>9, <2>1 DEF CastBits64, Convert, Boxed
<1> QED
    BY <1>1, <1>2, <1>3, <1>4, <1>5, <1>6, <1>7, <1>8, <1>9 DEF Fixed, Signed, Unsigned

\* The row of casts.h that a type is cast by.
LEMMA CastOutIs ==
    ASSUME NEW s \in Type, NEW to \in Type, Castable(s, to), NEW r
    PROVE  /\ s \in Fixed /\ to \notin Fixed => CastFrom(s, to, r) = Read(s, r)
           /\ s = "Text" => CastFrom(s, to, r) = CastText(to, r)
           /\ s = "Integer" => CastFrom(s, to, r) = CastInteger(to, r)
    BY DEF CastFrom, Type, Fixed, Signed, Unsigned, SignedOut, UnsignedOut

\* The ends of a signed type of w bits.
LEMMA HalfSpan ==
    ASSUME NEW w \in Nat \ {0}
    PROVE  2 ^ (w - 1) \in Nat \ {0} /\ 2 ^ w = 2 * 2 ^ (w - 1)
<1>1. w - 1 \in Nat /\ (w - 1) + 1 = w
    OBVIOUS
<1>2. 2 ^ ((w - 1) + 1) = 2 * 2 ^ (w - 1)
    BY <1>1, PowerNext
<1> QED
    BY <1>1, <1>2, PowerPositive

\* atoi gives an int, and the number that it reads if that fits one.
LEMMA AtoiKeeps ==
    ASSUME NEW n \in Int
    PROVE  LET int == 2 ^ (Width["Int32"] - 1)
           IN  /\ Atoi(n) \in Int
               /\ n \in -int .. int - 1 => Atoi(n) = n
<1> DEFINE long == 2 ^ (Width["Int64"] - 1)
           int == 2 ^ (Width["Int32"] - 1)
           Cut(m) == /\ n \in -long .. long - 1 => m = n
                     /\ n < -long => m = -long
                     /\ n >= long => m = long - 1
           cut == CHOOSE m \in {n, -long, long - 1} : Cut(m)
<1>1. /\ "Int32" \in Fixed /\ "Int32" \in Signed
      /\ Width["Int32"] \in Nat \ {0} /\ Width["Int64"] \in Nat \ {0}
      /\ Width["Int32"] <= Width["Int64"]
    BY WidthAssumption DEF Fixed, Signed
<1>2. long \in Nat \ {0} /\ int \in Nat \ {0} /\ Span("Int32") = 2 * int
    BY <1>1, HalfSpan DEF Span
<1>3. int <= long
  <2> DEFINE c == 2 ^ (Width["Int64"] - Width["Int32"])
  <2>1. /\ Width["Int32"] - 1 \in Nat /\ Width["Int64"] - Width["Int32"] \in Nat
        /\ (Width["Int32"] - 1) + (Width["Int64"] - Width["Int32"]) = Width["Int64"] - 1
      BY <1>1
  <2>2. long = int * c
      BY <2>1, PowerSum, Zenon
  <2>3. c \in Nat \ {0}
      BY <2>1, PowerPositive
  <2> HIDE DEF c, int, long
  <2> QED
      BY <1>2, <2>2, <2>3, SMTT(30)
<1>4. Atoi(n) = Wrap("Int32", cut)
    BY Zenon DEF Atoi
<1> HIDE DEF long, int
<1>5. \E m \in {n, -long, long - 1} : Cut(m)
    BY <1>2
<1> HIDE DEF Cut
<1>6. cut \in {n, -long, long - 1} /\ Cut(cut)
    BY <1>5, Zenon
<1> HIDE DEF cut
<1>7. cut \in Int
    BY <1>2, <1>6
<1>8. Atoi(n) \in Int
    BY <1>1, <1>4, <1>7, WrapFits
<1>9. n \in -long .. long - 1 => cut = n
    BY <1>6 DEF Cut
<1>10. ASSUME n \in -int .. int - 1 PROVE Atoi(n) = n
  <2>1. cut = n
      BY <1>2, <1>3, <1>9, <1>10
  <2>2. InRange("Int32", n)
      BY <1>1, <1>2, <1>10 DEF InRange
  <2>3. n = n + 0 * Span("Int32")
      BY <1>2
  <2>4. Same(Span("Int32"), n, n)
      BY <2>3 DEF Same
  <2> QED
      BY <1>1, <1>4, <2>1, <2>2, <2>4, WrapUnique
<1> QED
    BY <1>8, <1>10 DEF int

\* A cast gives a value of the type and, outside the gaps, the one that the
\* compiler gives where it evaluates the cast.
LEMMA CastFolds ==
    ASSUME NEW s \in Type, NEW to \in Type, Castable(s, to), NEW r, Held(s, r)
    PROVE  /\ Held(to, CastFrom(s, to, r))
           /\ Read(to, CastFrom(s, to, r)) \in Int
           /\ FoldsCast(s, to) /\ ~CastGap(s, to, r) =>
                Read(to, CastFrom(s, to, r)) = Wrap(to, Read(s, r))
<1> DEFINE c == CastFrom(s, to, r)
           x == Read(s, r)
<1>1. Span("Int32") \in Nat \ {0}
    BY SpanPositive DEF Fixed, Signed
<1>2. r \in Int
    BY <1>1 DEF Held, Stored
<1>3. x \in Int /\ Wrap(s, x) = x
    BY <1>2, WrapTwice DEF Read
<1>4. \A z \in Int : Held(to, Mk(to, z)) /\ Read(to, Mk(to, z)) = Wrap(to, z)
    BY ReadMk DEF Held
<1>5. \A z \in Int : Wrap(to, z) \in Int /\ Wrap(to, Wrap(to, z)) = Wrap(to, z)
    BY WrapTwice
<1>6. ASSUME NEW z \in Int, c = Mk(to, Wrap(to, z))
      PROVE  Held(to, c) /\ Read(to, c) = Wrap(to, z) /\ Read(to, c) \in Int
    BY <1>4, <1>5, <1>6
<1>7. ASSUME c \in Int, to \notin Fixed PROVE Held(to, c) /\ Read(to, c) = c
  <2>1. to \in Boxed /\ \A z : Wrap(to, z) = z
      BY <1>7 DEF Type, Boxed, Wrap
  <2> QED
      BY <1>7, <2>1 DEF Held, Stored, Canonical, Mk, Box, Read
<1> HIDE DEF c, x
<1>8. CASE s \in Fixed /\ to \in Fixed
  <2>1. CASE c = r /\ s \notin Boxed /\ to \notin Boxed
    <3>1. Held(to, c)
        BY <2>1 DEF Held, Stored
    <3>2. Read(to, c) \in Int
        BY <1>2, <2>1, WrapTwice DEF Read
    <3>3. ASSUME ~CastGap(s, to, r) PROVE Read(to, c) = Wrap(to, x)
      <4>1. Canonical(s, r)
          BY <1>8, <2>1, <3>3 DEF CastGap, c
      <4>2. r = x % Span("Int32")
          BY <2>1, <4>1 DEF Canonical, Mk, Span, x
      <4>3. to \in Fixed \ Boxed
          BY <1>8, <2>1
      <4>4. Wrap(to, x % Span("Int32")) = Wrap(to, x)
          BY <1>3, <4>3, ReadField
      <4> QED
          BY <2>1, <4>2, <4>4, Zenon DEF Read
    <3> QED
        BY <3>1, <3>2, <3>3 DEF c, x
  <2>2. CASE c = r /\ s = "Int64" /\ to = "Int64"
    <3>1. Read(to, c) = x /\ Wrap(to, x) = x
        BY <1>3, <2>2 DEF x
    <3> QED
        BY <1>3, <2>2, <3>1 DEF c, x
  <2>3. CASE c = Mk(to, Wrap(to, x))
      BY <1>3, <1>6, <2>3 DEF c, x
  <2> QED
      BY <1>8, <2>1, <2>2, <2>3, CastIs DEF c, x
<1>9. CASE s \in Fixed /\ to \notin Fixed
  <2>1. c = x
      BY <1>9, CastOutIs DEF c, x
  <2>2. Wrap(to, x) = x
      BY <1>9 DEF Wrap
  <2> QED
      BY <1>3, <1>7, <1>9, <2>1, <2>2 DEF c, x
<1>10. CASE s = "Text"
  <2>1. c = CastText(to, r) /\ x = r
      BY <1>10, CastOutIs DEF c, x, Read, Wrap, Fixed, Signed, Unsigned
  <2>2. to = "Integer" \/ to \in Fixed
      BY <1>10 DEF Castable, Type
  <2>3. CASE to = "Integer"
    <3>1. c = r /\ to \notin Fixed
        BY <2>1, <2>3 DEF CastText, Fixed, Signed, Unsigned
    <3>2. Wrap(to, x) = x
        BY <3>1 DEF Wrap
    <3> QED
        BY <1>2, <1>7, <2>1, <3>1, <3>2 DEF c, x
  <2>4. CASE to \in Fixed
    <3> DEFINE a == Atoi(r)
    <3>1. c = Mk(to, Wrap(to, a)) /\ to # "Integer"
        BY <2>1, <2>4 DEF CastText, Fixed, Signed, Unsigned
    <3>2. a \in Int
        BY <1>2, AtoiKeeps
    <3>3. Held(to, c) /\ Read(to, c) = Wrap(to, a) /\ Read(to, c) \in Int
        BY <1>6, <3>1, <3>2
    <3>4. ASSUME FoldsCast(s, to), ~CastGap(s, to, r) PROVE Wrap(to, a) = Wrap(to, r)
      <4>1. to = "Int64"
          BY <1>10, <3>1, <3>4 DEF FoldsCast
      <4>2. r \in -(2 ^ (Width["Int32"] - 1)) .. 2 ^ (Width["Int32"] - 1) - 1
          BY <1>10, <3>4, <4>1, Zenon DEF CastGap
      <4>3. a = r
          BY <1>2, <4>2, AtoiKeeps
      <4> QED
          BY <4>3
    <3> QED
        BY <2>1, <3>3, <3>4 DEF c, x
  <2> QED
      BY <2>2, <2>3, <2>4
<1>11. CASE s = "Integer"
  <2>1. c = CastInteger(to, r) /\ x = r
      BY <1>11, CastOutIs DEF c, x, Read, Wrap, Fixed, Signed, Unsigned
  <2>2. to = "Text" \/ to \in Fixed
      BY <1>11 DEF Castable, Type
  <2>3. CASE to = "Text"
    <3>1. c = r /\ to \notin Fixed
        BY <2>1, <2>3 DEF CastInteger, Fixed, Signed, Unsigned
    <3>2. Wrap(to, x) = x
        BY <3>1 DEF Wrap
    <3> QED
        BY <1>2, <1>7, <2>1, <3>1, <3>2 DEF c, x
  <2>4. CASE to \in Fixed
    <3> DEFINE m == Span(to)
               u == r % m
    <3>1. c = Mk(to, Wrap(to, u))
        BY <2>1, <2>4 DEF CastInteger, MpzGetLsb, Span, Fixed, Signed, Unsigned
    <3>2. m \in Nat \ {0}
        BY <2>4, SpanPositive
    <3> HIDE DEF m
    <3>3. r \div m \in Int /\ u \in 0 .. m - 1 /\ r = m * (r \div m) + u
        BY <1>2, <3>2, Modulus
    <3> DEFINE q == r \div m
    <3> HIDE DEF q, u
    <3>4. u \in Int /\ u = r + (-q) * m /\ -q \in Int
        BY <1>2, <3>2, <3>3, SMTT(30) DEF q
    <3>5. Same(Span(to), u, r)
        BY <3>4 DEF Same, m
    <3>6. Wrap(to, u) = Wrap(to, r)
        BY <1>2, <2>4, <3>4, <3>5, WrapSame
    <3> QED
        BY <1>6, <2>1, <3>1, <3>4, <3>6 DEF c, x
  <2> QED
      BY <2>2, <2>3, <2>4
<1> QED
    BY <1>8, <1>9, <1>10, <1>11 DEF Type

-----------------------------------------------------------------------------
(***************************************************************************)
(* Chains of operations and casts.                                         *)
(***************************************************************************)

\* The inductive invariant: what is held reads as the compiler's value.
Agreed == ty \in Type /\ Held(ty, rep) /\ ideal \in Int /\ Read(ty, rep) = ideal

\* A value that agrees is one of its type.
LEMMA AgreedCut == Agreed => Wrap(ty, ideal) = ideal /\ rep \in Int
<1> SUFFICES ASSUME Agreed PROVE Wrap(ty, ideal) = ideal /\ rep \in Int
    OBVIOUS
<1>1. Span("Int32") \in Nat \ {0}
    BY SpanPositive DEF Fixed, Signed
<1>2. rep \in Int
    BY <1>1 DEF Agreed, Held, Stored
<1> QED
    BY <1>2, WrapTwice DEF Agreed, Read

\* A literal reads as the compiler has it, but for the bits that C cuts.
LEMMA InitAgreed == Init => Agreed
<1> SUFFICES ASSUME NEW t \in Type, NEW x \in Literals[t],
                    ty = t, rep = Literal(t, x), ideal = Wrap(t, x)
             PROVE  Agreed
    BY DEF Init
<1>1. Wrap(t, x) \in Int
    BY LiteralReads, WrapTwice
<1> QED
    BY <1>1, LiteralReads DEF Agreed, Held

\* Every operation and cast outside the gaps keeps the two in agreement.
LEMMA NextAgreed == Agreed /\ [Next]_vars => Agreed'
<1> SUFFICES ASSUME Agreed, [Next]_vars PROVE Agreed'
    OBVIOUS
<1>1. ty \in Type /\ Held(ty, rep) /\ ideal \in Int /\ Read(ty, rep) = ideal
    BY DEF Agreed
<1>2. Wrap(ty, ideal) = ideal
    BY AgreedCut
<1>3. CASE Operate
  <2>1. PICK op \in OpsOf(ty), y \in Literals[ty] :
          LET x == Read(ty, rep)
              r == Operation(ty, op, rep, Literal(ty, y))
          IN  /\ Defined(ty, op, x, y)
              /\ rep' = r
              /\ ideal' = IF ModGap(ty, op, x, y) THEN Read(ty, r) ELSE Fold(ty, op, ideal, y)
              /\ UNCHANGED ty
      BY <1>3, Zenon DEF Operate
  <2>2. PICK z \in Int :
          /\ Operation(ty, op, rep, Literal(ty, y)) = Mk(ty, z)
          /\ ~ModGap(ty, op, ideal, y) => Wrap(ty, z) = Fold(ty, op, ideal, y)
      BY <1>1, <1>2, <2>1, OperationFolds
  <2>3. rep' = Mk(ty, z) /\ ty' = ty
      BY <2>1, <2>2
  <2>4. Held(ty, Mk(ty, z)) /\ Read(ty, Mk(ty, z)) = Wrap(ty, z) /\ Wrap(ty, z) \in Int
      BY <1>1, ReadMk, WrapTwice DEF Held
  <2>5. ideal' = Wrap(ty, z)
      BY <1>1, <2>1, <2>2, <2>4
  <2>6. Held(ty', rep') /\ Read(ty', rep') = ideal' /\ ty' \in Type /\ ideal' \in Int
      BY <1>1, <2>3, <2>4, <2>5
  <2> QED
      BY <2>6 DEF Agreed, Held, Stored, Canonical, Read
<1>4. CASE Cast
  <2>1. PICK to \in Type :
          LET r == CastFrom(ty, to, rep)
          IN  /\ Castable(ty, to)
              /\ ty' = to
              /\ rep' = r
              /\ ideal' = IF FoldsCast(ty, to) /\ ~CastGap(ty, to, rep)
                          THEN FoldCast(to, ideal) ELSE Read(to, r)
      BY <1>4, Zenon DEF Cast
  <2>2. /\ Held(to, CastFrom(ty, to, rep))
        /\ Read(to, CastFrom(ty, to, rep)) \in Int
        /\ FoldsCast(ty, to) /\ ~CastGap(ty, to, rep) =>
             Read(to, CastFrom(ty, to, rep)) = Wrap(to, ideal)
      BY <1>1, <2>1, CastFolds
  <2>3. ASSUME ~CastGap(ty, to, rep) PROVE FoldCast(to, ideal) = Wrap(to, ideal)
    <3>1. to = "Char" => ideal \in Byte
        BY <1>1, <2>3 DEF CastGap
    <3> QED
        BY <3>1, ByteIsChar DEF FoldCast
  <2>4. Held(ty', rep') /\ Read(ty', rep') = ideal' /\ ty' \in Type /\ ideal' \in Int
      BY <2>1, <2>2, <2>3
  <2> QED
      BY <2>4 DEF Agreed, Held, Stored, Canonical, Read
<1>5. CASE UNCHANGED vars
    BY <1>1, <1>5 DEF vars, Agreed, Held, Stored, Canonical, Read
<1> QED
    BY <1>3, <1>4, <1>5 DEF Next

\* Whatever chain of operations and casts a program makes, in types of any
\* width, the run time holds the value that the compiler evaluates it to and
\* compares it as that value, but for the casts of Convert's kept fields, the
\* texts that atoi cuts, the casts to Char of a number that is no byte, the
\* character literals above a byte, and the remainders of negative multiples.
THEOREM ChainsFold == Spec => []FoldAgrees
<1>1. Agreed => FoldAgrees
  <2> SUFFICES ASSUME Agreed PROVE FoldAgrees
      OBVIOUS
  <2>1. TypeOK
      BY AgreedCut DEF Agreed, Held, Stored, Span, TypeOK
  <2>2. ASSUME NEW y \in Literals[ty], Wrap(ty, y) = y
        PROVE  Read(ty, Literal(ty, y)) = y
      BY <2>2, LiteralReads DEF Agreed
  <2> QED
      BY <2>1, <2>2 DEF Agreed, FoldAgrees, Lt, Gt, Lte, Gte, Eq
<1> QED
    BY <1>1, InitAgreed, NextAgreed, PTL DEF Spec

\* The switch that RefC generates takes the alternative of the value, in types
\* of any width, if the field is canonical, the value fits an int and the
\* literal of the alternative is not a character that C's char has no room for.
THEOREM SwitchesAgree == Spec => []CaseAgrees
<1>1. Agreed => CaseAgrees
  <2> SUFFICES ASSUME Agreed, NEW c \in Literals[ty],
                      ty # "Text", Canonical(ty, rep), Wrap("Int32", ideal) = ideal,
                      Spelled(ty, c) = c
               PROVE  CaseHits(ty, rep, c) <=> ideal = c
      BY DEF CaseAgrees
  <2>1. ty \in Type /\ ideal \in Int /\ Wrap(ty, ideal) = ideal /\ rep = Mk(ty, ideal)
      BY AgreedCut DEF Agreed, Canonical
  <2>2. "Int32" \in Fixed \ Boxed
      BY DEF Fixed, Signed, Boxed
  <2>3. Wrap("Int32", rep) = ideal
    <3>1. CASE ty \in Boxed
        BY <2>1, <3>1 DEF Mk, Box
    <3>2. CASE ty \notin Boxed
      <4>1. rep = ideal % Span("Int32")
          BY <2>1, <3>2 DEF Mk, Span
      <4> QED
          BY <2>1, <2>2, <4>1, ReadField
    <3> QED
        BY <3>1, <3>2
  <2> QED
      BY <2>3 DEF CaseHits, ExtractInt
<1> QED
    BY <1>1, InitAgreed, NextAgreed, PTL DEF Spec

\* A multiple leaves no remainder.
LEMMA MultipleMod ==
    ASSUME NEW k \in Int, NEW a \in Nat \ {0}
    PROVE  (k * a) % a = 0
<1> DEFINE x == k * a
           u == x % a
           q == x \div a
<1>1. x \in Int
    BY SMTT(30)
<1> HIDE DEF x
<1>2. q \in Int /\ u \in 0 .. a - 1 /\ x = a * q + u
    BY <1>1, Modulus
<1> HIDE DEF u, q
<1>3. u = (k - q) * a /\ k - q \in Int
    BY <1>2, SMTT(30) DEF x
<1>4. (k - q) * a < a /\ -a < (k - q) * a
    BY <1>2, <1>3
<1>5. k - q = 0
    BY <1>3, <1>4, NoMultiple
<1>6. u = 0
    BY <1>3, <1>5
<1> QED
    BY <1>6 DEF u, x

\* Up to a multiple of the divisor, and in 0 .. |divisor|.
RightRemainder(t, x, y, m) ==
    /\ \E k \in Int : x - m = k * Abs(y)
    /\ m \in 0 .. Abs(y) \/ (IsLeast(t, x) /\ IsLeast(t, y))

\* The remainder of signed types.
LEMMA SignedRemainder ==
    ASSUME NEW t \in Signed, NEW x \in Int, NEW y \in Int \ {0},
           Wrap(t, x) = x, Wrap(t, y) = y
    PROVE  RightRemainder(t, x, y, Wrap(t, SignedMod(t, x, y)))
<1> DEFINE q == CDiv(x, y)
           r == CRem(x, y)
           a == Abs(y)
           z == SignedMod(t, x, y)
           m == Wrap(t, z)
           least == -(2 ^ (Width[t] - 1))
<1>1. t \in Fixed /\ Span(t) \in Nat \ {0} /\ Width[t] \in Nat \ {0}
    BY SpanPositive, WidthAssumption DEF Fixed
<1>2. /\ -Span(t) <= 2 * x /\ 2 * x < Span(t)
      /\ -Span(t) <= 2 * y /\ 2 * y < Span(t)
    BY <1>1, WrapFits DEF InRange
<1>3. a \in Nat \ {0} /\ (y = a \/ y = -a)
    BY DEF Abs
<1>4. q \in Int /\ r = x - y * q
    BY Truncates DEF CRem
<1>5. /\ x >= 0 => r \in 0 .. a - 1
      /\ x < 0 => r \in -(a - 1) .. 0
    BY Truncates
<1>6. /\ x >= 0 => z = r
      /\ x < 0 => z = r + a \/ (z = r - a /\ 2 * a = Span(t))
    BY SignedModCases
<1>7. 2 * least = -Span(t) /\ least \in Int
    BY <1>1, HalfSpan DEF Span
<1>8. z \in Int
    BY SignedModInteger
<1>9. PICK j \in Int : x - r = j * a
  <2> HIDE DEF q, r, a
  <2>1. CASE y = a
      BY <1>4, <2>1, SMTT(30)
  <2>2. CASE y = -a
    <3>1. x - r = (-q) * a /\ -q \in Int
        BY <1>3, <1>4, <2>2, SMTT(30)
    <3> QED
        BY <3>1
  <2> QED
      BY <1>3, <2>1, <2>2
<1> HIDE DEF q, r, a, z, least
<1>10. ASSUME NEW w \in Int, InRange(t, w), NEW k \in Int, z = w + k * Span(t) PROVE m = w
  <2>1. w = z + (-k) * Span(t) /\ -k \in Int
      BY <1>1, <1>8, <1>10, SMTT(30)
  <2>2. Same(Span(t), w, z)
      BY <2>1 DEF Same
  <2> QED
      BY <1>1, <1>8, <1>10, <2>2, WrapUnique
<1>11. CASE x >= 0
  <2>1. r \in Int /\ InRange(t, r) /\ z = r + 0 * Span(t)
      BY <1>1, <1>2, <1>3, <1>5, <1>6, <1>11 DEF InRange
  <2>2. m = r
      BY <2>1, <1>10
  <2>3. m \in 0 .. a
      BY <1>3, <1>5, <1>11, <2>2
  <2> HIDE DEF m
  <2> QED
      BY <1>9, <2>2, <2>3 DEF RightRemainder, m, a, z
<1>12. CASE x < 0 /\ ~(r = 0 /\ 2 * a = Span(t))
  <2>1. r + a \in 0 .. a /\ r \in Int
      BY <1>3, <1>5, <1>12
  <2>2. InRange(t, r + a)
      BY <1>1, <1>2, <1>3, <1>12, <2>1 DEF InRange
  <2>3. z = (r + a) + 0 * Span(t) \/ z = (r + a) + (-1) * Span(t)
      BY <1>1, <1>3, <1>6, <1>12, <2>1
  <2>4. m = r + a
      BY <1>10, <2>1, <2>2, <2>3
  <2>5. x - m = (j - 1) * a /\ j - 1 \in Int
    <3> HIDE DEF m
    <3> QED
        BY <1>3, <1>9, <2>1, <2>4, SMTT(30)
  <2> HIDE DEF m
  <2> QED
      BY <2>1, <2>4, <2>5 DEF RightRemainder, m, a, z
<1>13. CASE x < 0 /\ r = 0 /\ 2 * a = Span(t)
  <2>1. -a \in Int /\ InRange(t, -a)
      BY <1>1, <1>3, <1>13 DEF InRange
  <2>2. z = -a + 1 * Span(t) \/ z = -a + 0 * Span(t)
      BY <1>1, <1>3, <1>6, <1>13
  <2>3. m = -a
      BY <1>10, <2>1, <2>2
  <2>4. y = -a /\ least = -a
      BY <1>2, <1>3, <1>7, <1>13
  <2>5. x = -a
    <3>1. x = j * a
        BY <1>9, <1>13
    <3>2. -a <= j * a /\ j * a < 0
        BY <1>2, <1>3, <1>13, <3>1
    <3>3. (j + 1) * a = j * a + a
        BY <1>3, SMTT(30)
    <3>4. j * a \in Int
        BY <1>3, SMTT(30)
    <3>5. j + 1 = 0
      <4>1. (j + 1) * a < a /\ -a < (j + 1) * a
          BY <1>3, <3>2, <3>3, <3>4
      <4> QED
          BY <1>3, <4>1, NoMultiple
    <3> QED
        BY <1>3, <3>1, <3>3, <3>4, <3>5
  <2>6. x - m = 0 * a /\ IsLeast(t, x) /\ IsLeast(t, y)
      BY <1>3, <2>3, <2>4, <2>5 DEF IsLeast, least
  <2> HIDE DEF m
  <2> QED
      BY <2>6 DEF RightRemainder, m, a, z
<1> QED
    BY <1>11, <1>12, <1>13

\* The remainder of unsigned types.
LEMMA UnsignedRemainder ==
    ASSUME NEW t \in Unsigned, NEW x \in Int, NEW y \in Int \ {0},
           Wrap(t, x) = x, Wrap(t, y) = y
    PROVE  RightRemainder(t, x, y, Wrap(t, CRem(x, y)))
<1> DEFINE q == CDiv(x, y)
           r == CRem(x, y)
<1>1. t \in Fixed /\ t \notin Signed /\ Span(t) \in Nat
    BY SpanPositive DEF Fixed, Signed, Unsigned
<1>2. x \in Nat /\ y \in Nat \ {0} /\ y < Span(t) /\ Abs(y) = y
    BY <1>1, WrapFits DEF InRange, Abs
<1>3. q \in Int /\ r = x - y * q /\ r \in 0 .. y - 1
    BY <1>2, Truncates DEF CRem
<1> HIDE DEF q, r
<1>4. r \in Int /\ InRange(t, r) /\ r = r + 0 * Span(t)
    BY <1>1, <1>2, <1>3 DEF InRange
<1>5. Same(Span(t), r, r)
    BY <1>4 DEF Same
<1>6. Wrap(t, r) = r
    BY <1>1, <1>4, <1>5, WrapUnique
<1>7. x - r = q * y /\ r \in 0 .. y
    BY <1>2, <1>3, SMTT(30)
<1> QED
    BY <1>2, <1>3, <1>6, <1>7 DEF RightRemainder, r

\* The remainder of Integers.
LEMMA IntegerRemainder ==
    ASSUME NEW x \in Int, NEW y \in Int \ {0}
    PROVE  RightRemainder("Integer", x, y, Wrap("Integer", IntegerMod(x, y)))
<1> DEFINE a == Abs(y)
           q == x \div a
           u == x % a
<1>1. a \in Nat \ {0}
    BY DEF Abs
<1>2. Wrap("Integer", IntegerMod(x, y)) = u
    BY DEF Wrap, IntegerMod, Fixed, Signed, Unsigned
<1> HIDE DEF a
<1>3. q \in Int /\ u \in 0 .. a - 1 /\ x = a * q + u
    BY <1>1, Modulus
<1> HIDE DEF q, u
<1>4. x - u = q * a /\ u \in 0 .. a
    BY <1>1, <1>3, SMTT(30)
<1> QED
    BY <1>2, <1>3, <1>4 DEF RightRemainder, a

\* Whatever a chain of operations and casts has left in the field, a remainder
\* of its value is the value up to a multiple of the divisor and lies in
\* 0 .. |divisor|, in types of any width.
THEOREM RemaindersCongruent == Spec => []RemainderCongruent
<1>1. Agreed => RemainderCongruent
  <2> SUFFICES ASSUME Agreed, "mod" \in OpsOf(ty), NEW y \in Literals[ty],
                      Defined(ty, "mod", Read(ty, rep), y)
               PROVE  LET x == Read(ty, rep)
                          m == Read(ty, Operation(ty, "mod", rep, Literal(ty, y)))
                      IN  /\ (x - m) % Abs(y) = 0
                          /\ m \in 0 .. Abs(y) \/ (IsLeast(ty, x) /\ IsLeast(ty, y))
      BY DEF RemainderCongruent
  <2> DEFINE x == Read(ty, rep)
             o == Operation(ty, "mod", rep, Literal(ty, y))
             m == Read(ty, o)
  <2>1. ty \in Type /\ x \in Int /\ Wrap(ty, x) = x
      BY AgreedCut DEF Agreed
  <2>2. y \in Int \ {0} /\ Wrap(ty, y) = y /\ Read(ty, Literal(ty, y)) = y
    <3>1. ty # "Char"
        BY DEF OpsOf
    <3>2. y # 0
        BY DEF Defined, Divide
    <3> QED
        BY <2>1, <3>1, <3>2, LiteralReads
  <2> HIDE DEF x
  <2>3. ASSUME NEW z \in Int, o = Mk(ty, z), RightRemainder(ty, x, y, Wrap(ty, z))
        PROVE  RightRemainder(ty, x, y, m)
      BY <2>1, <2>3, ReadMk
  <2> HIDE DEF o, m
  <2>4. ASSUME ty = "Integer" PROVE RightRemainder(ty, x, y, m)
    <3>1. o = Mk(ty, IntegerMod(x, y))
        BY <2>1, <2>2, <2>4, OperationIs DEF o, x
    <3>2. IntegerMod(x, y) \in Int
        BY <2>1, <2>2, FoldDivision DEF IntegerMod, Abs
    <3>3. RightRemainder(ty, x, y, Wrap(ty, IntegerMod(x, y)))
        BY <2>1, <2>2, <2>4, IntegerRemainder
    <3> QED
        BY <2>3, <3>1, <3>2, <3>3
  <2>5. ASSUME ty \in Unsigned PROVE RightRemainder(ty, x, y, m)
    <3>1. o = Mk(ty, CRem(x, y))
        BY <2>1, <2>2, <2>5, OperationIs DEF o, x, UnsignedDivision, Fixed, Divide
    <3>2. CRem(x, y) \in Int
      <4>1. CDiv(x, y) \in Int
          BY <2>1, <2>2, Truncates
      <4> QED
          BY <2>1, <2>2, <4>1, SMTT(30) DEF CRem
    <3>3. RightRemainder(ty, x, y, Wrap(ty, CRem(x, y)))
        BY <2>1, <2>2, <2>5, UnsignedRemainder
    <3> QED
        BY <2>3, <3>1, <3>2, <3>3
  <2>6. ASSUME ty \in Signed PROVE RightRemainder(ty, x, y, m)
    <3>1. o = Mk(ty, SignedMod(ty, x, y))
        BY <2>1, <2>2, <2>6, OperationIs DEF o, x, Fixed
    <3>2. SignedMod(ty, x, y) \in Int
        BY <2>1, <2>2, <2>6, SignedModInteger
    <3>3. RightRemainder(ty, x, y, Wrap(ty, SignedMod(ty, x, y)))
        BY <2>1, <2>2, <2>6, SignedRemainder
    <3> QED
        BY <2>3, <3>1, <3>2, <3>3
  <2>7. ty = "Integer" \/ ty \in Unsigned \/ ty \in Signed
      BY <2>1 DEF OpsOf, Type, Fixed
  <2>8. RightRemainder(ty, x, y, m)
      BY <2>4, <2>5, <2>6, <2>7
  <2>9. (x - m) % Abs(y) = 0
    <3>1. PICK k \in Int : x - m = k * Abs(y)
        BY <2>8 DEF RightRemainder
    <3>2. Abs(y) \in Nat \ {0}
        BY <2>2 DEF Abs
    <3> QED
        BY <3>1, <3>2, MultipleMod
  <2> QED
      BY <2>8, <2>9 DEF RightRemainder, x, m, o
<1> QED
    BY <1>1, InitAgreed, NextAgreed, PTL DEF Spec
=============================================================================
