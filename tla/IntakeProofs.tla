---------------------------- MODULE IntakeProofs ----------------------------
(***************************************************************************)
(* Proofs about Intake and ContractFilter: for any limits, files, texts,   *)
(* numbers and lexicons.                                                   *)
(***************************************************************************)
EXTENDS Intake, FiniteSetTheorems, SequenceTheorems, WellFoundedInduction, TLAPS

-----------------------------------------------------------------------------
(***************************************************************************)
(* The loops of the code are functions on the numbers of steps.  What they *)
(* come to is proved by least counterexample.                              *)
(***************************************************************************)

\* Every set of numbers that is not empty has a least one.
LEMMA LeastNumber ==
  ASSUME NEW T \in SUBSET Nat, T # {}
  PROVE  \E n \in T : \A m \in T : n <= m
<1> DEFINE R == OpToRel(<, Nat)
<1>1. IsWellFoundedOn(R, Nat)
  BY NatLessThanWellFounded
<1>2. \A x, y \in Nat : <<x, y>> \in R <=> x < y
  BY DEF OpToRel
<1> HIDE DEF R
<1>3. PICK n \in T : \A m \in T : ~(<<m, n>> \in R)
  BY <1>1, WFMin
<1>4. n \in Nat /\ \A m \in T : m \in Nat
  OBVIOUS
<1>5. \A m \in T : ~(m < n)
  BY <1>2, <1>3, <1>4
<1>6. \A m \in T : n <= m
  BY <1>4, <1>5
<1>7. QED
  BY <1>6

\* Induction: a set of numbers that has 0, and with a number the next one up to
\* n, has all of them up to n.
LEMMA Counting ==
  ASSUME NEW n \in Nat, NEW Good, 0 \in Good,
         \A i \in 0 .. n : i # n /\ i \in Good => i + 1 \in Good
  PROVE  \A i \in 0 .. n : i \in Good
<1> DEFINE Bad == {i \in 0 .. n : i \notin Good}
<1>1. SUFFICES ASSUME Bad # {}
               PROVE  FALSE
  OBVIOUS
<1>2. Bad \in SUBSET Nat
  OBVIOUS
<1>3. PICK i \in Bad : \A j \in Bad : i <= j
  <2> HIDE DEF Bad
  <2>1. QED
    BY <1>1, <1>2, LeastNumber
<1>4. i \in 1 .. n
  BY <1>3
<1>5. i - 1 \in 0 .. n /\ i - 1 # n /\ i - 1 \notin Bad
  BY <1>3, <1>4
<1>6. (i - 1) + 1 \in Good
  BY <1>5
<1>7. QED
  BY <1>3, <1>4, <1>6

\* The recursive function of a loop of n rounds.
IsLoop(loop, n, first, round) ==
  loop[0] = first /\ \A i \in 1 .. n : loop[i] = round[i][loop[i - 1]]

\* A loop over values of V is defined: such a function exists.
LEMMA Looping ==
  ASSUME NEW n \in Nat, NEW V, NEW first \in V, NEW round \in [1 .. n -> [V -> V]]
  PROVE  \E loop \in [0 .. n -> V] : IsLoop(loop, n, first, round)
<1> DEFINE Loops(c, m) == c \in [0 .. m -> V] /\ IsLoop(c, m, first, round)
           Good == {m \in 0 .. n : \E c : Loops(c, m)}
<1>1. 0 \in Good
  <2> DEFINE c == [i \in 0 .. 0 |-> first]
  <2>1. Loops(c, 0)
    BY DEF IsLoop
  <2> HIDE DEF c, Loops
  <2>2. QED
    BY <2>1
<1>2. ASSUME NEW m \in 0 .. n, m # n, m \in Good
      PROVE  m + 1 \in Good
  <2>1. PICK c : Loops(c, m)
    BY <1>2
  <2>2. m + 1 \in 1 .. n /\ m \in Nat
    BY <1>2
  <2> DEFINE d == [i \in 0 .. m + 1 |-> IF i = m + 1 THEN round[m + 1][c[m]] ELSE c[i]]
  <2>3. d \in [0 .. m + 1 -> V]
    BY <2>1, <2>2
  <2>4. d[0] = first
    BY <2>1, <2>2 DEF IsLoop
  <2>5. ASSUME NEW i \in 1 .. m + 1
        PROVE  d[i] = round[i][d[i - 1]]
    <3>1. d[i - 1] = c[i - 1]
      BY <2>2
    <3>2. i # m + 1 => d[i] = c[i] /\ i \in 1 .. m
      BY <2>2
    <3>3. d[m + 1] = round[m + 1][c[m]] /\ (m + 1) - 1 = m
      BY <2>2
    <3> HIDE DEF d
    <3>4. QED
      BY <2>1, <3>1, <3>2, <3>3 DEF IsLoop
  <2>6. Loops(d, m + 1)
    <3> HIDE DEF d
    <3>1. QED
      BY <2>3, <2>4, <2>5 DEF IsLoop
  <2> HIDE DEF d, Loops
  <2>7. QED
    BY <2>2, <2>6
<1>3. n \in Good
  <2> HIDE DEF Good
  <2>1. \A m \in 0 .. n : m # n /\ m \in Good => m + 1 \in Good
    BY <1>2
  <2>2. \A m \in 0 .. n : m \in Good
    BY <1>1, <2>1, Counting
  <2>3. QED
    BY <2>2
<1>4. QED
  BY <1>3

-----------------------------------------------------------------------------
(***************************************************************************)
(* Products, quotients and sums.                                           *)
(***************************************************************************)

\* Products and quotients, by steps that the provers find.
LEMMA Times ==
  ASSUME NEW a \in Int, NEW b \in Int, NEW c \in Nat, a <= b
  PROVE  a * c \in Int /\ b * c \in Int /\ a * c <= b * c
  BY SMT

\* A quotient and the product it came from.
LEMMA Quotient ==
  ASSUME NEW a \in Nat, NEW b \in Nat \ {0}
  PROVE  /\ a \div b \in Nat
         /\ (a \div b) * b <= a
         /\ a < (a \div b + 1) * b
  BY SMT

\* A fraction that is no larger has a quotient that is no larger.
LEMMA QuotientGrows ==
  ASSUME NEW a \in Nat, NEW b \in Nat \ {0}, NEW c \in Nat, NEW d \in Nat \ {0},
         a * d <= c * b
  PROVE  a \div b <= c \div d
<1> DEFINE p == a \div b
           q == c \div d
<1>1. p \in Nat /\ q \in Nat /\ p * b <= a /\ c < (q + 1) * d
  BY Quotient
<1> HIDE DEF p, q
<1>2. SUFFICES ASSUME q + 1 <= p
               PROVE  FALSE
  BY <1>1 DEF p, q
<1>3. (p * b) * d <= a * d
  BY <1>1, Times
<1>4. c * b < ((q + 1) * d) * b
  BY <1>1
<1>5. ((q + 1) * d) * b <= (p * d) * b
  BY <1>1, <1>2, Times
<1>6. (p * d) * b = (p * b) * d
  BY <1>1
<1>7. QED
  BY <1>1, <1>3, <1>4, <1>5, <1>6

\* The longer a text, the less what it contains counts.
LEMMA SaturatedFalls ==
  ASSUME NEW n \in Nat, NEW d \in Nat \ {0}
  PROVE  /\ Saturated(n, d) \in Nat
         /\ Saturated(n, d + 1) \in Nat
         /\ Saturated(n, d + 1) <= Saturated(n, d)
<1> DEFINE nd == n * d
           dd == d * d
           nn == n * n
           up(k) == 2 * n * k + n * n
           under(k) == 2 * k * k + 2 * n * k + n * n
<1>1. nd \in Nat /\ dd \in Nat \ {0} /\ nn \in Nat
  OBVIOUS
<1>2. up(d) = 2 * nd + nn /\ under(d) = 2 * dd + 2 * nd + nn
  BY SMT
<1>3. /\ up(d + 1) = 2 * nd + 2 * n + nn
      /\ under(d + 1) = 2 * dd + 4 * d + 2 + 2 * nd + 2 * n + nn
  BY SMT
<1>4. up(d + 1) * under(d) <= up(d) * under(d + 1)
  <2> DEFINE u == 2 * nd + nn
             v == 2 * dd
             w == 4 * d + 2
  <2>1. u \in Nat /\ v \in Nat /\ w \in Nat
    BY <1>1
  <2>2. 2 * n * v <= u * w
    <3>1. n * dd = nd * d
      BY SMT
    <3>2. nd * d \in Nat
      BY <1>1
    <3>3. 2 * n * v = 4 * (nd * d)
      <4>1. 2 * n * v = 4 * (n * dd)
        BY SMT
      <4>2. QED
        BY <3>1, <4>1
    <3>4. (2 * nd) * (4 * d) = 8 * (nd * d)
      BY SMT
    <3>5. (2 * nd) * (4 * d) <= u * (4 * d)
      <4>1. 2 * nd \in Nat /\ 2 * nd <= u /\ 4 * d \in Nat
        BY <1>1
      <4> HIDE DEF u, nd
      <4>2. QED
        BY <2>1, <4>1, Times
    <3>6. u * (4 * d) <= u * w
      <4>1. 4 * d \in Nat /\ 4 * d <= w
        OBVIOUS
      <4> HIDE DEF u, w
      <4>2. (4 * d) * u <= w * u
        BY <2>1, <4>1, Times
      <4>3. QED
        BY <2>1, <4>1, <4>2
    <3> HIDE DEF u, v, w, nd, dd
    <3>7. u * w \in Nat /\ u * (4 * d) \in Nat
      BY <2>1
    <3>8. QED
      BY <3>2, <3>3, <3>4, <3>5, <3>6, <3>7
  <2>3. up(d) = u /\ under(d) = v + u
    BY <1>1, <1>2
  <2>4. up(d + 1) = u + 2 * n /\ under(d + 1) = v + w + u + 2 * n
    BY <1>1, <1>3
  <2> HIDE DEF u, v, w, up, under
  <2>5. (u + 2 * n) * (v + u) = u * v + u * u + 2 * n * v + 2 * n * u
    BY <2>1
  <2>6. u * (v + w + u + 2 * n) = u * v + u * w + u * u + 2 * n * u
    BY <2>1
  <2>7. (u + 2 * n) * (v + u) <= u * (v + w + u + 2 * n)
    <3>1. u * v \in Int /\ u * u \in Int /\ 2 * n * v \in Int /\ 2 * n * u \in Int /\ u * w \in Int
      BY <2>1
    <3>2. QED
      BY <2>2, <2>5, <2>6, <3>1
  <2>8. QED
    BY <2>3, <2>4, <2>7
<1>5. /\ up(d) \in Nat /\ under(d) \in Nat \ {0}
      /\ up(d + 1) \in Nat /\ under(d + 1) \in Nat \ {0}
  BY <1>1, <1>2, <1>3
<1>6. Saturated(n, d) = (1000 * up(d)) \div under(d)
  BY DEF Saturated
<1>7. Saturated(n, d + 1) = (1000 * up(d + 1)) \div under(d + 1)
  BY DEF Saturated
<1> DEFINE x == 1000 * up(d)
           y == 1000 * up(d + 1)
           b == under(d)
           c == under(d + 1)
<1>8. x \in Nat /\ y \in Nat /\ b \in Nat \ {0} /\ c \in Nat \ {0}
  BY <1>5
<1>9. y * b <= x * c
  <2> DEFINE p == up(d + 1) * under(d)
             q == up(d) * under(d + 1)
  <2>1. p \in Nat /\ q \in Nat /\ p <= q
    BY <1>4, <1>5
  <2>2. y * b = 1000 * p /\ x * c = 1000 * q
    <3> HIDE DEF up, under
    <3>1. QED
      BY <1>5
  <2> HIDE DEF p, q
  <2>3. QED
    BY <2>1, <2>2
<1> HIDE DEF x, y, b, c
<1>10. y \div c <= x \div b /\ x \div b \in Nat /\ y \div c \in Nat
  BY <1>8, <1>9, QuotientGrows, Quotient
<1>11. QED
  BY <1>6, <1>7, <1>10 DEF x, y, b, c

\* A sum of natural numbers over a finite set is one.
LEMMA SumIsNat ==
  ASSUME NEW D, IsFiniteSet(D), NEW f \in [D -> Nat]
  PROVE  SumFunction(f) \in Nat
<1> DEFINE pick(T) == CHOOSE x \in T : TRUE
           Term(c, T) == IF T = {} THEN 0 ELSE f[pick(T)] + c[T \ {pick(T)}]
           Iter(c) == [T \in SUBSET D |-> Term(c, T)]
           size == Cardinality(D)
           Small(m) == {T \in SUBSET D : Cardinality(T) <= m}
           Sums(c, m) == c \in [Small(m) -> Nat] /\ \A T \in Small(m) : c[T] = Term(c, T)
           Good == {m \in 0 .. size : \E c : Sums(c, m)}
<1>1. size \in Nat /\ \A T \in SUBSET D : IsFiniteSet(T) /\ Cardinality(T) \in 0 .. size
  <2>1. size \in Nat
    BY FS_CardinalityType
  <2>2. QED
    BY <2>1, FS_Subset, FS_CardinalityType
<1>2. \A T \in SUBSET D : T # {} => /\ pick(T) \in T
                                    /\ T \ {pick(T)} \in SUBSET D
                                    /\ Cardinality(T \ {pick(T)}) = Cardinality(T) - 1
  <2>1. ASSUME NEW T \in SUBSET D, T # {}
        PROVE  pick(T) \in T
    BY <2>1
  <2>2. QED
    BY <1>1, <2>1, FS_RemoveElement
<1>3. \A T \in SUBSET D : Cardinality(T) = 0 <=> T = {}
  BY <1>1, FS_EmptySet
<1> HIDE DEF pick
<1>4. ASSUME NEW c, NEW m \in 0 .. size, \A T \in Small(m) : c[T] \in Nat,
             NEW T \in SUBSET D, Cardinality(T) <= m + 1
      PROVE  /\ Term(c, T) \in Nat
             /\ T # {} => T \ {pick(T)} \in Small(m)
  <2>1. T # {} => T \ {pick(T)} \in Small(m)
    BY <1>1, <1>2, <1>4
  <2>2. T # {} => f[pick(T)] \in Nat
    BY <1>2
  <2> HIDE DEF Small
  <2>3. QED
    BY <1>4, <2>1, <2>2
<1>5. 0 \in Good
  <2> DEFINE c == [T \in Small(0) |-> 0]
  <2>1. \A T \in Small(0) : T = {}
    BY <1>1, <1>3
  <2>2. Sums(c, 0)
    <3> HIDE DEF Small
    <3>1. QED
      BY <2>1
  <2> HIDE DEF c, Sums
  <2>3. QED
    BY <1>1, <2>2
<1>6. ASSUME NEW m \in 0 .. size, m # size, m \in Good
      PROVE  m + 1 \in Good
  <2>1. PICK c : Sums(c, m)
    BY <1>6
  <2> DEFINE d == [T \in Small(m + 1) |-> Term(c, T)]
  <2>2. \A T \in Small(m) : c[T] \in Nat
    <3> HIDE DEF Small
    <3>1. QED
      BY <2>1
  <2>3. ASSUME NEW T \in Small(m + 1)
        PROVE  /\ T \in SUBSET D /\ Term(c, T) \in Nat
               /\ T # {} => T \ {pick(T)} \in Small(m)
    BY <1>4, <2>2, <2>3
  <2>4. Small(m) \subseteq Small(m + 1)
    BY <1>1
  <2> HIDE DEF Small
  <2>5. d \in [Small(m + 1) -> Nat]
    <3> HIDE DEF Term
    <3>1. QED
      BY <2>3
  <2>6. \A T \in Small(m) : d[T] = c[T]
    <3> HIDE DEF Term
    <3>1. QED
      BY <2>1, <2>4
  <2>7. ASSUME NEW T \in Small(m + 1)
        PROVE  d[T] = Term(d, T)
    <3>1. d[T] = Term(c, T)
      OBVIOUS
    <3> HIDE DEF d
    <3>2. CASE T = {}
      BY <3>1, <3>2
    <3>3. CASE T # {}
      <4>1. d[T \ {pick(T)}] = c[T \ {pick(T)}]
        BY <2>3, <2>6, <3>3
      <4>2. QED
        BY <3>1, <3>3, <4>1
    <3>4. QED
      BY <3>2, <3>3
  <2>8. Sums(d, m + 1)
    <3> HIDE DEF d, Term
    <3>1. QED
      BY <2>5, <2>7
  <2> HIDE DEF d, Sums
  <2>9. m + 1 \in 0 .. size
    BY <1>1, <1>6
  <2>10. QED
    BY <2>8, <2>9
<1>7. size \in Good
  <2> HIDE DEF Good, size
  <2>1. \A m \in 0 .. size : m # size /\ m \in Good => m + 1 \in Good
    BY <1>6
  <2>2. \A m \in 0 .. size : m \in Good
    BY <1>1, <1>5, <2>1, Counting
  <2>3. QED
    BY <1>1, <2>2
<1>8. Small(size) = SUBSET D
  BY <1>1
<1>9. PICK c : c = Iter(c)
  <2>1. PICK c : Sums(c, size)
    BY <1>7
  <2>2. c \in [SUBSET D -> Nat] /\ \A T \in SUBSET D : c[T] = Term(c, T)
    <3> HIDE DEF Small, Term
    <3>1. QED
      BY <1>8, <2>1
  <2>3. c = Iter(c)
    <3> HIDE DEF Term
    <3>1. QED
      BY <2>2
  <2>4. QED
    BY <2>3
<1> DEFINE iter == CHOOSE g : g = Iter(g)
<1>10. iter = Iter(iter)
  <2> HIDE DEF Iter
  <2>1. QED
    BY <1>9
<1>11. SumFunction(f) = iter[D]
  <2>1. DOMAIN f = D
    OBVIOUS
  <2>2. QED
    BY <2>1 DEF SumFunction, SumFunctionOnSet, FoldFunctionOnSet, MapThenFoldSet, pick
<1>12. \A T \in SUBSET D : iter[T] = Term(iter, T)
  <2> HIDE DEF iter, Term
  <2>1. QED
    BY <1>10
<1> HIDE DEF iter
<1> DEFINE Fine == {m \in 0 .. size : \A T \in Small(m) : iter[T] \in Nat}
<1>13. 0 \in Fine
  <2>1. \A T \in Small(0) : T = {} /\ T \in SUBSET D
    BY <1>1, <1>3
  <2>2. \A T \in Small(0) : iter[T] = 0
    <3> HIDE DEF Small
    <3>1. QED
      BY <1>12, <2>1
  <2> HIDE DEF Small
  <2>3. QED
    BY <1>1, <2>2
<1>14. ASSUME NEW m \in 0 .. size, m # size, m \in Fine
       PROVE  m + 1 \in Fine
  <2>1. \A T \in Small(m) : iter[T] \in Nat
    BY <1>14
  <2>2. ASSUME NEW T \in Small(m + 1)
        PROVE  iter[T] \in Nat
    <3>1. T \in SUBSET D /\ Cardinality(T) <= m + 1
      OBVIOUS
    <3> HIDE DEF Small, Term
    <3>2. Term(iter, T) \in Nat
      BY <1>4, <2>1, <3>1
    <3>3. QED
      BY <1>12, <3>1, <3>2
  <2>3. m + 1 \in 0 .. size
    BY <1>1, <1>14
  <2> HIDE DEF Small
  <2>4. QED
    BY <2>2, <2>3
<1>15. size \in Fine
  <2> HIDE DEF Fine, size
  <2>1. \A m \in 0 .. size : m # size /\ m \in Fine => m + 1 \in Fine
    BY <1>14
  <2>2. \A m \in 0 .. size : m \in Fine
    BY <1>1, <1>13, <2>1, Counting
  <2>3. QED
    BY <1>1, <2>2
<1>16. D \in Small(size)
  BY <1>8
<1>17. QED
  <2> HIDE DEF Small
  <2>1. QED
    BY <1>11, <1>15, <1>16

-----------------------------------------------------------------------------
(***************************************************************************)
(* Substitutions.                                                          *)
(***************************************************************************)

\* A substitution leaves nothing of what it drops, and all of a text in which
\* there is nothing to drop.
LEMMA WithoutDrops ==
  ASSUME NEW S, NEW seq \in Seq(S), NEW dropped
  PROVE  /\ Without(seq, dropped) \in Seq(S \ dropped)
         /\ (\A i \in 1 .. Len(seq) : seq[i] \notin dropped) => Without(seq, dropped) = seq
<1> DEFINE n == Len(seq)
           V == Seq(S \ dropped)
           Step(c, i) == IF seq[i] \in dropped THEN c ELSE Append(c, seq[i])
           round == [i \in 1 .. n |-> [c \in V |-> Step(c, i)]]
           Loop(c) == [i \in 0 .. n |-> IF i = 0 THEN << >> ELSE Step(c[i - 1], i)]
           first == << >>
<1>1. n \in Nat /\ \A i \in 1 .. n : seq[i] \in S
  BY LenProperties, ElementOfSeq
<1> HIDE DEF n
<1>2. ASSUME NEW i \in 1 .. n, NEW c \in V
      PROVE  Step(c, i) \in V
  BY <1>1, AppendProperties
<1>3. round \in [1 .. n -> [V -> V]]
  <2> HIDE DEF V, Step
  <2>1. QED
    BY <1>2
<1>4. first \in V
  BY EmptySeq
<1> HIDE DEF V, Step
<1>5. PICK loop \in [0 .. n -> V] : IsLoop(loop, n, first, round)
  <2> HIDE DEF round, first
  <2>1. QED
    BY <1>1, <1>3, <1>4, Looping
<1>6. \A i \in 1 .. n : i \in 0 .. n /\ i # 0 /\ i - 1 \in 0 .. n /\ loop[i - 1] \in V
  BY <1>1
<1>7. loop = Loop(loop)
  <2>1. loop[0] = << >> /\ \A i \in 1 .. n : loop[i] = Step(loop[i - 1], i)
    BY <1>5, <1>6 DEF IsLoop
  <2>2. \A i \in 0 .. n : i # 0 => i \in 1 .. n
    BY <1>1
  <2>3. QED
    BY <2>1, <2>2
<1> DEFINE kept == CHOOSE c : c = Loop(c)
<1>8. kept = Loop(kept)
  <2> HIDE DEF Loop
  <2>1. QED
    BY <1>7
<1>9. Without(seq, dropped) = kept[n]
  BY DEF Without, n, Step
<1>10. kept[0] = << >> /\ \A i \in 1 .. n : kept[i] = Step(kept[i - 1], i)
  <2> HIDE DEF kept
  <2>1. 0 \in 0 .. n
    BY <1>1
  <2>2. QED
    BY <1>6, <1>8, <2>1
<1> HIDE DEF kept
<1> DEFINE All == \A i \in 1 .. n : seq[i] \notin dropped
           Good == {m \in 0 .. n : kept[m] \in V /\ (All => kept[m] = SubSeq(seq, 1, m))}
<1>11. 0 \in Good
  <2>1. SubSeq(seq, 1, 0) = << >>
    BY SubSeqEmpty
  <2>2. kept[0] \in V /\ kept[0] = SubSeq(seq, 1, 0)
    BY <1>4, <1>10, <2>1
  <2>3. 0 \in 0 .. n
    BY <1>1
  <2> HIDE DEF All, first
  <2>4. QED
    BY <2>2, <2>3
<1>12. ASSUME NEW m \in 0 .. n, m # n, m \in Good
       PROVE  m + 1 \in Good
  <2>1. m + 1 \in 1 .. n /\ (m + 1) - 1 = m /\ m \in Nat /\ m + 1 \in 0 .. n
    BY <1>1, <1>12
  <2>2. kept[m + 1] = Step(kept[m], m + 1)
    BY <1>10, <2>1
  <2>3. kept[m + 1] \in V
    BY <1>2, <1>12, <2>1, <2>2
  <2>4. ASSUME All
        PROVE  kept[m + 1] = SubSeq(seq, 1, m + 1)
    <3>1. kept[m + 1] = Append(SubSeq(seq, 1, m), seq[m + 1])
      BY <1>12, <2>1, <2>2, <2>4 DEF Step
    <3>2. SubSeq(seq, 1, m) \in Seq(S) /\ seq[m + 1] \in S
      BY <1>1, <2>1, SubSeqProperties
    <3>3. Append(SubSeq(seq, 1, m), seq[m + 1]) = SubSeq(seq, 1, m) \o <<seq[m + 1]>>
      BY <3>2, AppendIsConcat
    <3>4. SubSeq(seq, 1, m + 1) = SubSeq(seq, 1, m) \o <<seq[m + 1]>>
      <4> DEFINE k == m + 1
      <4>1. k \in 1 .. Len(seq) /\ 1 \in 1 .. Len(seq) /\ k - 1 = m
        BY <1>1, <2>1 DEF n
      <4>2. SubSeq(seq, 1, k) = SubSeq(seq, 1, k - 1) \o <<seq[k]>>
        <5> HIDE DEF k
        <5>1. QED
          BY <4>1, SubSeqRecursiveSecond
      <4>3. QED
        BY <4>1, <4>2
    <3>5. QED
      BY <3>1, <3>3, <3>4
  <2> HIDE DEF All
  <2>5. QED
    BY <2>1, <2>3, <2>4
<1>13. n \in Good
  <2> HIDE DEF Good
  <2>1. \A m \in 0 .. n : m # n /\ m \in Good => m + 1 \in Good
    BY <1>12
  <2>2. \A m \in 0 .. n : m \in Good
    BY <1>1, <1>11, <2>1, Counting
  <2>3. QED
    BY <1>1, <2>2
<1>14. SubSeq(seq, 1, n) = seq
  BY SubSeqFull DEF n
<1>15. QED
  BY <1>9, <1>13, <1>14 DEF n, V

-----------------------------------------------------------------------------
(***************************************************************************)
(* The score.                                                              *)
(***************************************************************************)

\* The words but the last.
LEMMA FrontIs ==
  ASSUME NEW S, NEW words \in Seq(S), Len(words) > 0
  PROVE  /\ Front(words) \in Seq(S)
         /\ Len(words) \in Nat \ {0}
         /\ Len(Front(words)) = Len(words) - 1
         /\ \A i \in 1 .. Len(words) - 1 : Front(words)[i] = words[i]
         /\ Last(words) = words[Len(words)] /\ Last(words) \in S
<1> DEFINE n == Len(words)
<1>1. n \in Nat \ {0} /\ \A i \in 1 .. n : words[i] \in S
  BY LenProperties, ElementOfSeq
<1>2. Front(words) = SubSeq(words, 1, n - 1) /\ Last(words) = words[n]
  BY DEF Front, Last
<1> HIDE DEF n
<1>3. \A i \in 1 .. n - 1 : words[i] \in S
  BY <1>1
<1>4. /\ SubSeq(words, 1, n - 1) \in Seq(S)
      /\ Len(SubSeq(words, 1, n - 1)) = IF 1 <= n - 1 THEN (n - 1) - 1 + 1 ELSE 0
      /\ \A i \in 1 .. (n - 1) - 1 + 1 : SubSeq(words, 1, n - 1)[i] = words[1 + i - 1]
  BY <1>1, <1>3, SubSeqProperties
<1>5. Len(SubSeq(words, 1, n - 1)) = n - 1
  BY <1>1, <1>4
<1>6. \A i \in 1 .. n - 1 : i \in 1 .. (n - 1) - 1 + 1 /\ 1 + i - 1 = i
  BY <1>1
<1>7. \A i \in 1 .. n - 1 : SubSeq(words, 1, n - 1)[i] = words[i]
  BY <1>4, <1>6
<1>8. QED
  BY <1>1, <1>2, <1>4, <1>5, <1>7 DEF n

\* The places of an n-gram among the first words.
Places(ngram, doc) ==
  {i \in 1 .. Len(doc) - Len(ngram) + 1 : SubSeq(doc, i, i + Len(ngram) - 1) = ngram}

\* Without the last word an n-gram has no other places.
LEMMA PlacesInFront ==
  ASSUME NEW S, NEW words \in Seq(S), Len(words) > 0,
         NEW T, NEW ngram \in Seq(T), ngram # <<>>
  PROVE  /\ IsFiniteSet(Places(ngram, words))
         /\ Places(ngram, Front(words)) \subseteq Places(ngram, words)
<1> DEFINE n == Len(words)
           k == Len(ngram)
           before == Front(words)
<1>1. /\ n \in Nat \ {0} /\ before \in Seq(S) /\ Len(before) = n - 1
      /\ before = SubSeq(words, 1, n - 1) /\ Last(words) = words[n]
  BY FrontIs DEF Front
<1>2. k \in Nat \ {0} /\ DOMAIN ngram = 1 .. k
  BY LenProperties, EmptySeq
<1>3. \A i \in 1 .. n : words[i] \in S
  BY ElementOfSeq
<1> HIDE DEF n, k, before
<1>4. IsFiniteSet(Places(ngram, words))
  <2>1. Places(ngram, words) \subseteq 1 .. n - k + 1
    BY DEF Places, n, k
  <2>2. IsFiniteSet(1 .. n - k + 1)
    BY <1>1, <1>2, FS_Interval
  <2>3. QED
    BY <2>1, <2>2, FS_Subset
<1>5. ASSUME NEW i \in 1 .. n - k
      PROVE  SubSeq(before, i, i + k - 1) = SubSeq(words, i, i + k - 1)
  <2> DEFINE j == i + k - 1
             m == n - 1
  <2>1. i \in 1 .. m - 1 + 1 /\ j \in 1 .. m - 1 + 1 /\ m \in 1 .. n /\ 1 \in 1 .. n /\ m - 1 + 1 = m
    BY <1>1, <1>2
  <2>2. 1 + i - 1 = i /\ 1 + j - 1 = j
    BY <1>1, <1>2
  <2>3. before = SubSeq(words, 1, m)
    BY <1>1
  <2> HIDE DEF j, m
  <2>4. SubSeq(SubSeq(words, 1, m), i, j) = SubSeq(words, 1 + i - 1, 1 + j - 1)
    BY <1>1, <2>1, SubSeqOfSubSeq DEF n
  <2>5. SubSeq(before, i, j) = SubSeq(words, i, j)
    BY <2>2, <2>3, <2>4
  <2>6. QED
    BY <2>5 DEF j
<1>6. Places(ngram, words) = {i \in 1 .. n - k + 1 : SubSeq(words, i, i + k - 1) = ngram}
  BY DEF Places, n, k
<1>7. Places(ngram, before) = {i \in 1 .. n - k : SubSeq(words, i, i + k - 1) = ngram}
  <2>1. (n - 1) - k + 1 = n - k
    BY <1>1, <1>2
  <2>2. Places(ngram, before) = {i \in 1 .. n - k : SubSeq(before, i, i + k - 1) = ngram}
    BY <1>1, <2>1 DEF Places, k
  <2>3. QED
    BY <1>5, <2>2
<1>8. 1 .. n - k \subseteq 1 .. n - k + 1
  BY <1>1, <1>2
<1>9. Places(ngram, before) \subseteq Places(ngram, words)
  BY <1>6, <1>7, <1>8
<1>10. QED
  BY <1>4, <1>9 DEF before

\* A further word takes no occurrence away.
LEMMA OccurrencesInFront ==
  ASSUME NEW S, NEW words \in Seq(S), Len(words) > 0,
         NEW T, NEW ngram \in Seq(T), ngram # <<>>
  PROVE  /\ Occurrences(ngram, words) \in Nat
         /\ Occurrences(ngram, Front(words)) \in Nat
         /\ Occurrences(ngram, Front(words)) <= Occurrences(ngram, words)
<1>1. \A doc : Occurrences(ngram, doc) = Cardinality(Places(ngram, doc))
  BY DEF Occurrences, Places
<1> DEFINE A == Places(ngram, words)
           B == Places(ngram, Front(words))
<1>2. IsFiniteSet(A) /\ B \in SUBSET A
  BY PlacesInFront
<1> HIDE DEF A, B
<1>3. Cardinality(A) \in Nat /\ Cardinality(B) \in Nat /\ Cardinality(B) <= Cardinality(A)
  BY <1>2, FS_Subset, FS_CardinalityType
<1>4. QED
  BY <1>1, <1>2, <1>3 DEF A, B

\* Saturated words: what the last one completes is there three times before.
Saturates(words, ngrams) ==
  \A ngram \in ngrams :
    /\ ngram \in Seq(Range(ngram)) /\ ngram # <<>>
    /\ Occurrences(ngram, words) > Occurrences(ngram, Front(words))
         => Occurrences(ngram, Front(words)) >= 3

\* A word beyond the cap changes no count.
LEMMA SaturatedCounts ==
  ASSUME NEW S, NEW words \in Seq(S), Len(words) > 0,
         NEW ngrams, Saturates(words, ngrams), NEW ngram \in ngrams
  PROVE  /\ Capped(Occurrences(ngram, words)) = Capped(Occurrences(ngram, Front(words)))
         /\ Capped(Occurrences(ngram, words)) \in Nat
         /\ Has(words, ngram) = Has(Front(words), ngram)
<1> DEFINE o == Occurrences(ngram, words)
           p == Occurrences(ngram, Front(words))
<1>1. ngram \in Seq(Range(ngram)) /\ ngram # <<>> /\ (o > p => p >= 3)
  BY DEF Saturates
<1>2. o \in Nat /\ p \in Nat /\ p <= o
  BY <1>1, OccurrencesInFront
<1> HIDE DEF o, p
<1>3. Capped(o) = Capped(p) /\ Capped(o) \in Nat /\ (o > 0) = (p > 0)
  BY <1>1, <1>2 DEF Capped, Least
<1>4. QED
  BY <1>3 DEF Has, o, p

\* It changes no sum over a lexicon.
LEMMA ContributionStays ==
  ASSUME NEW S, NEW words \in Seq(S), Len(words) > 0,
         NEW weights, Lexicon(weights), Saturates(words, DOMAIN weights)
  PROVE  /\ Contribution(words, weights) = Contribution(Front(words), weights)
         /\ Contribution(words, weights) \in Nat
<1> DEFINE D == DOMAIN weights
           Weights(doc) == [ngram \in D |-> Capped(Occurrences(ngram, doc)) * weights[ngram]]
<1>1. \A ngram \in D : /\ Capped(Occurrences(ngram, words)) = Capped(Occurrences(ngram, Front(words)))
                       /\ Capped(Occurrences(ngram, words)) \in Nat
  BY SaturatedCounts
<1>2. Weights(words) = Weights(Front(words))
  BY <1>1
<1>3. \A ngram \in D : weights[ngram] \in Nat
  BY DEF Lexicon
<1>4. \A x, y \in Nat : x * y \in Nat
  OBVIOUS
<1>5. Weights(words) \in [D -> Nat]
  BY <1>1, <1>3, <1>4
<1>6. IsFiniteSet(D)
  BY DEF Lexicon
<1>7. \A doc : Contribution(doc, weights) = SumFunction(Weights(doc))
  BY DEF Contribution
<1> HIDE DEF Weights, D
<1>8. QED
  BY <1>2, <1>5, <1>6, <1>7, SumIsNat

\* Terms and phrases together are a lexicon.
LEMMA PositivesAreLexicon == Lexicon(Positives)
<1>1. Lexicon(Terms) /\ Lexicon(Phrases)
  BY FilterAssumption
<1>2. DOMAIN Positives = DOMAIN Terms \cup DOMAIN Phrases
  BY DEF Positives
<1>3. \A ngram \in DOMAIN Positives :
        Positives[ngram] = IF ngram \in DOMAIN Terms THEN Terms[ngram] ELSE Phrases[ngram]
  BY DEF Positives
<1>4. IsFiniteSet(DOMAIN Positives)
  BY <1>1, <1>2, FS_Union DEF Lexicon
<1>5. QED
  BY <1>1, <1>2, <1>3, <1>4 DEF Lexicon

\* The fixed n-grams have words.
LEMMA StructuralIs ==
  \A ngram \in Structural : ngram \in Seq(Range(ngram)) /\ ngram # <<>>
<1>1. ASSUME NEW a
      PROVE  <<a>> \in Seq(Range(<<a>>)) /\ <<a>> # <<>>
  <2>1. DOMAIN <<a>> = 1 .. 1 /\ Len(<<a>>) = 1 /\ <<a>>[1] = a
    OBVIOUS
  <2>2. a \in Range(<<a>>)
    BY <2>1 DEF Range
  <2>3. <<a>> \in Seq(Range(<<a>>))
    BY <2>2
  <2>4. QED
    BY <2>1, <2>3, EmptySeq
<1>2. ASSUME NEW a, NEW b
      PROVE  <<a, b>> \in Seq(Range(<<a, b>>)) /\ <<a, b>> # <<>>
  <2>1. /\ DOMAIN <<a, b>> = 1 .. 2 /\ Len(<<a, b>>) = 2
        /\ <<a, b>>[1] = a /\ <<a, b>>[2] = b
    OBVIOUS
  <2>2. a \in Range(<<a, b>>) /\ b \in Range(<<a, b>>)
    BY <2>1 DEF Range
  <2>3. <<a, b>> \in Seq(Range(<<a, b>>))
    BY <2>2
  <2>4. QED
    BY <2>1, <2>3, EmptySeq
<1>3. QED
  BY <1>1, <1>2 DEF Structural

\* The n-grams of a lexicon.
LEMMA LexiconIs ==
  ASSUME NEW weights, Lexicon(weights), NEW ngram \in DOMAIN weights
  PROVE  ngram \in Seq(Range(ngram)) /\ ngram # <<>>
<1>1. ngram \in Seq(STRING) /\ ngram # <<>>
  BY DEF Lexicon
<1>2. Len(ngram) \in Nat /\ ngram \in [1 .. Len(ngram) -> STRING]
  BY <1>1, LenProperties
<1>3. ngram \in [1 .. Len(ngram) -> Range(ngram)]
  BY <1>2 DEF Range
<1>4. QED
  BY <1>1, <1>2, <1>3, SeqDef

\* Normalised text has no three numbered lines.
LEMMA NumberedLinesIs ==
  ASSUME NEW S, NEW words \in Seq(S \ {"line"})
  PROVE  ~(NumberedLines(words) >= 3)
<1> DEFINE A == {i \in 1 .. Len(words) - 1 :
                   words[i] = "item" /\ (i = 1 \/ words[i - 1] = "line")}
<1>1. Len(words) \in Nat /\ \A i \in 1 .. Len(words) : words[i] # "line"
  BY LenProperties, ElementOfSeq
<1>2. A \subseteq {1}
  BY <1>1
<1>3. IsFiniteSet({1}) /\ Cardinality({1}) = 1
  BY FS_Singleton
<1> HIDE DEF A
<1>4. Cardinality(A) <= 1 /\ Cardinality(A) \in Nat
  BY <1>2, <1>3, FS_Subset, FS_CardinalityType
<1>5. NumberedLines(words) = Cardinality(A)
  BY DEF NumberedLines, A
<1>6. QED
  BY <1>4, <1>5

\* A word that saturates the text adds no structure.
LEMMA StructureStays ==
  ASSUME NEW S, NEW words \in Seq(S \ {"line"}), Len(words) > 0,
         Saturates(words, DOMAIN Markers), Saturates(words, Structural)
  PROVE  /\ StructureWeight(words) = StructureWeight(Front(words))
         /\ StructureWeight(words) \in Nat
<1> DEFINE before == Front(words)
           D == DOMAIN Markers
           bonus(holds, weight) == IF holds THEN weight ELSE 0
           Weights(doc) == [marker \in D |-> bonus(Has(doc, marker), Markers[marker])]
           Numbered(doc) == bonus(NumberedLines(doc) >= 3, 3)
           Parties(doc) == bonus(Has(doc, <<"antara">>) /\ Has(doc, <<"dengan">>), 3)
           Dated(doc) == bonus(Has(doc, <<"date">>), 2)
           Nomor(doc) == bonus(Has(doc, <<"nomor", "n">>), 2)
<1>1. before \in Seq(S \ {"line"})
  BY FrontIs
<1>2. ~(NumberedLines(words) >= 3) /\ ~(NumberedLines(before) >= 3)
  BY <1>1, NumberedLinesIs
<1> HIDE DEF before
<1>3. ASSUME NEW ngrams, Saturates(words, ngrams), NEW ngram \in ngrams
      PROVE  Has(words, ngram) = Has(before, ngram)
  BY <1>3, SaturatedCounts DEF before
<1>4. \A marker \in D : Has(words, marker) = Has(before, marker)
  BY <1>3
<1>5. Weights(words) = Weights(before)
  BY <1>4
<1>6. \A marker \in D : Markers[marker] \in Nat
  BY FilterAssumption DEF Lexicon
<1>7. Weights(words) \in [D -> Nat]
  BY <1>6
<1>8. \A ngram \in Structural : Has(words, ngram) = Has(before, ngram)
  BY <1>3
<1>9. /\ Numbered(words) = Numbered(before) /\ Numbered(words) \in Nat
      /\ Parties(words) = Parties(before) /\ Parties(words) \in Nat
      /\ Dated(words) = Dated(before) /\ Dated(words) \in Nat
      /\ Nomor(words) = Nomor(before) /\ Nomor(words) \in Nat
  <2>1. /\ <<"antara">> \in Structural /\ <<"dengan">> \in Structural
        /\ <<"date">> \in Structural /\ <<"nomor", "n">> \in Structural
    BY DEF Structural
  <2>2. \A b : bonus(b, 3) \in Nat /\ bonus(b, 2) \in Nat
    OBVIOUS
  <2>3. QED
    BY <1>2, <1>8, <2>1, <2>2
<1>10. \A doc : StructureWeight(doc)
         = SumFunction(Weights(doc)) + Numbered(doc) + Parties(doc) + Dated(doc) + Nomor(doc)
  BY DEF StructureWeight
<1>11. IsFiniteSet(D)
  BY FilterAssumption DEF Lexicon
<1> HIDE DEF Weights, Numbered, Parties, Dated, Nomor, D
<1>12. SumFunction(Weights(words)) \in Nat
  BY <1>7, <1>11, SumIsNat
<1>13. SumFunction(Weights(words)) = SumFunction(Weights(before))
  BY <1>5
<1>14. QED
  BY <1>9, <1>10, <1>12, <1>13 DEF before

\* With the same hits for more words, and the same structure, the score rises by
\* no more than the penalty falls.
LEMMA ScoreGrows ==
  ASSUME NEW doc, NEW before,
         LexiconScore(doc) \in Nat, LexiconScore(before) \in Nat,
         LexiconScore(doc) <= LexiconScore(before),
         StructureScore(doc) = StructureScore(before), StructureScore(doc) \in Nat,
         Penalty(doc) \in Nat, Penalty(before) \in Nat, Penalty(doc) <= Penalty(before)
  PROVE  Score(doc) - Score(before) <= Penalty(before) - Penalty(doc)
<1> DEFINE x == 6 * LexiconScore(doc) + 4 * StructureScore(doc)
           y == 6 * LexiconScore(before) + 4 * StructureScore(before)
<1>1. x \in Nat /\ y \in Nat /\ x <= y
  OBVIOUS
<1>2. Score(doc) = IF x \div 10 - Penalty(doc) < 0 THEN 0
                    ELSE Least(1000, x \div 10 - Penalty(doc))
  BY DEF Score
<1>3. Score(before) = IF y \div 10 - Penalty(before) < 0 THEN 0
                       ELSE Least(1000, y \div 10 - Penalty(before))
  BY DEF Score
<1> HIDE DEF x, y
<1>4. x \div 10 \in Nat /\ y \div 10 \in Nat /\ x \div 10 <= y \div 10
  BY <1>1
<1>5. QED
  BY <1>2, <1>3, <1>4 DEF Least

\* The penalty falls with the length.
LEMMA PenaltyFalls ==
  ASSUME NEW doc, NEW before, Len(before) \in Nat \ {0}, Len(doc) = Len(before) + 1,
         Contribution(doc, Negative) = Contribution(before, Negative),
         Contribution(doc, Negative) \in Nat
  PROVE  Penalty(doc) \in Nat /\ Penalty(before) \in Nat /\ Penalty(doc) <= Penalty(before)
<1> DEFINE x == 2000 * Contribution(doc, Negative)
           d == Len(before)
<1>1. x \in Nat /\ d \in Nat \ {0} /\ d + 1 \in Nat \ {0}
  OBVIOUS
<1>2. Penalty(doc) = Least(400, x \div (d + 1)) /\ Penalty(before) = Least(400, x \div d)
  BY DEF Penalty
<1> HIDE DEF x, d
<1>3. x * d <= x * (d + 1)
  BY <1>1
<1>4. x \div (d + 1) <= x \div d
  BY <1>1, <1>3, QuotientGrows
<1>5. x \div (d + 1) \in Nat /\ x \div d \in Nat
  BY <1>1, Quotient
<1>6. QED
  BY <1>2, <1>4, <1>5 DEF Least

\* The score of a stuffed text.
LEMMA StuffingRelieves ==
  ASSUME NEW S, NEW doc \in Seq(S), Stuffed(doc)
  PROVE  LET words == NormalizeText(doc)
             before == Front(words)
         IN  Score(words) - Score(before) <= Penalty(before) - Penalty(words)
<1> DEFINE words == NormalizeText(doc)
           before == Front(words)
<1>1. words \in Seq(S \ {"line"})
  <2> DEFINE dropped == {"line"}
  <2>1. Without(doc, dropped) \in Seq(S \ dropped)
    BY WithoutDrops
  <2>2. QED
    BY <2>1 DEF NormalizeText
<1>2. /\ before # <<>>
      /\ \A ngram \in NGrams :
           Occurrences(ngram, words) > Occurrences(ngram, before)
             => Occurrences(ngram, before) >= 3
  BY DEF Stuffed
<1> HIDE DEF words
<1>3. Len(words) \in Nat /\ Len(words) > 0
  <2>1. Len(words) \in Nat
    BY <1>1, LenProperties
  <2>2. CASE Len(words) = 0
    <3>1. before = <<>>
      BY <1>1, <2>2, EmptySeq DEF Front
    <3>2. QED
      BY <1>2, <3>1
  <2>3. QED
    BY <2>1, <2>2
<1>4. /\ before \in Seq(S \ {"line"})
      /\ Len(before) = Len(words) - 1 /\ Len(before) \in Nat
  BY <1>1, <1>3, FrontIs
<1>5. Len(before) # 0
  BY <1>2, <1>4, EmptySeq
<1>6. /\ Lexicon(Positives) /\ Lexicon(Negative) /\ Lexicon(Markers)
  BY PositivesAreLexicon, FilterAssumption
<1>7. ASSUME NEW weights, Lexicon(weights), DOMAIN weights \subseteq NGrams
      PROVE  Saturates(words, DOMAIN weights)
  <2>1. \A ngram \in DOMAIN weights : ngram \in Seq(Range(ngram)) /\ ngram # <<>>
    BY <1>7, LexiconIs
  <2>2. QED
    BY <1>2, <1>7, <2>1 DEF Saturates
<1>8. Saturates(words, Structural)
  BY <1>2, StructuralIs DEF Saturates, NGrams
<1>9. /\ Contribution(words, Positives) = Contribution(before, Positives)
      /\ Contribution(words, Positives) \in Nat
  <2>1. Saturates(words, DOMAIN Positives)
    BY <1>6, <1>7 DEF NGrams
  <2>2. QED
    BY <1>1, <1>3, <1>6, <2>1, ContributionStays
<1>10. /\ Contribution(words, Negative) = Contribution(before, Negative)
       /\ Contribution(words, Negative) \in Nat
  <2>1. Saturates(words, DOMAIN Negative)
    BY <1>6, <1>7 DEF NGrams
  <2>2. QED
    BY <1>1, <1>3, <1>6, <2>1, ContributionStays
<1>11. StructureWeight(words) = StructureWeight(before) /\ StructureWeight(words) \in Nat
  <2>1. Saturates(words, DOMAIN Markers)
    BY <1>6, <1>7 DEF NGrams
  <2>2. QED
    BY <1>1, <1>3, <1>8, <2>1, StructureStays
<1> HIDE DEF before
<1>12. /\ LexiconScore(words) \in Nat /\ LexiconScore(before) \in Nat
       /\ LexiconScore(words) <= LexiconScore(before)
  <2> DEFINE n == 12 * Contribution(words, Positives)
             d == Len(before)
  <2>1. n \in Nat /\ d \in Nat \ {0} /\ d + 1 = Len(words)
    BY <1>3, <1>4, <1>5, <1>9
  <2>2. LexiconScore(words) = Saturated(n, d + 1) /\ LexiconScore(before) = Saturated(n, d)
    BY <1>9, <2>1 DEF LexiconScore
  <2> HIDE DEF n, d
  <2>3. QED
    BY <2>1, <2>2, SaturatedFalls
<1>13. StructureScore(words) = StructureScore(before) /\ StructureScore(words) \in Nat
  <2> DEFINE n == StructureWeight(words)
             d == 20
  <2>1. n \in Nat /\ d \in Nat \ {0}
    BY <1>11
  <2>2. StructureScore(words) = Saturated(n, d) /\ StructureScore(before) = Saturated(n, d)
    BY <1>11 DEF StructureScore
  <2> HIDE DEF n, d
  <2>3. QED
    BY <2>1, <2>2, SaturatedFalls
<1>14. /\ Penalty(words) \in Nat /\ Penalty(before) \in Nat
       /\ Penalty(words) <= Penalty(before)
  <2>1. Len(before) \in Nat \ {0} /\ Len(words) = Len(before) + 1
    BY <1>3, <1>4, <1>5
  <2>2. QED
    BY <1>10, <2>1, PenaltyFalls
<1>15. Score(words) - Score(before) <= Penalty(before) - Penalty(words)
  BY <1>12, <1>13, <1>14, ScoreGrows
<1>16. QED
  BY <1>15 DEF words, before

-----------------------------------------------------------------------------
(***************************************************************************)
(* Numbers.                                                                *)
(***************************************************************************)

\* A number of digits is left as it is.
LEMMA DigitsStay ==
  ASSUME NEW s \in Seq(Digits), s # <<>>, Head(s) # "0"
  PROVE  Stripped(s) = s /\ International(s) = s
<1>1. Len(s) \in Nat /\ \A i \in 1 .. Len(s) : s[i] \in Digits
  BY LenProperties, ElementOfSeq
<1>2. Without(s, {" ", "line"}) = s
  <2> DEFINE dropped == {" ", "line"}
  <2>1. \A i \in 1 .. Len(s) : s[i] \notin dropped
    BY <1>1 DEF Digits
  <2> HIDE DEF dropped
  <2>2. Without(s, dropped) = s
    BY <2>1, WithoutDrops
  <2>3. QED
    BY <2>2 DEF dropped
<1>3. Head(s) \in Digits
  BY HeadTailProperties
<1>4. Head(s) # "+"
  BY <1>3 DEF Digits
<1>5. QED
  BY <1>2, <1>4 DEF Stripped, International

\* What is valid when it is entered is valid, and unchanged, in the form in which
\* it is stored.
LEMMA ValidStays ==
  ASSUME NEW S, NEW raw \in Seq(S), ValidPhone(raw)
  PROVE  /\ ValidPhone(NormalizePhone(raw))
         /\ NormalizePhone(NormalizePhone(raw)) = NormalizePhone(raw)
<1> DEFINE s == Stripped(raw)
           t == International(s)
<1>1. s \in Seq(S)
  <2> DEFINE w == Without(raw, {" ", "line"})
  <2>1. w \in Seq(S)
    <3>1. w \in Seq(S \ {" ", "line"})
      BY WithoutDrops
    <3> HIDE DEF w
    <3>2. QED
      BY <3>1, SeqMonotonic
  <2>2. s = IF w # <<>> /\ Head(w) = "+" THEN Tail(w) ELSE w
    BY DEF Stripped
  <2> HIDE DEF w, s
  <2>3. QED
    BY <2>1, <2>2, HeadTailProperties
<1>2. /\ s # <<>> /\ Range(s) \subseteq Digits
      /\ Len(t) \in MinDigits .. MaxDigits
  BY DEF ValidPhone
<1> HIDE DEF s
<1>3. s \in Seq(Digits) /\ Len(s) \in Nat \ {0} /\ Head(s) = s[1]
  <2>1. DOMAIN s = 1 .. Len(s) /\ Len(s) \in Nat /\ Len(s) # 0
    BY <1>1, <1>2, LenProperties, EmptySeq
  <2>2. \A i \in 1 .. Len(s) : s[i] \in Digits
    BY <1>2, <2>1 DEF Range
  <2>3. s \in Seq(Digits)
    BY <1>1, <2>1, <2>2, LenProperties
  <2>4. QED
    BY <2>1, <2>3
<1>4. t \in Seq(Digits) /\ t # <<>> /\ Head(t) # "0"
  <2>1. CASE Head(s) = "0"
    <3> DEFINE code == <<"6", "2">>
               rest == Tail(s)
    <3>1. code \in Seq(Digits) /\ Len(code) = 2 /\ code[1] = "6"
      BY DEF Digits
    <3>2. rest \in Seq(Digits)
      BY <1>2, <1>3, HeadTailProperties
    <3>3. t = code \o rest
      BY <1>2, <2>1 DEF International
    <3> HIDE DEF code, rest, t
    <3>4. /\ code \o rest \in Seq(Digits)
          /\ Len(code \o rest) = 2 + Len(rest) /\ Len(rest) \in Nat
          /\ (code \o rest)[1] = code[1]
      <4>1. Len(rest) \in Nat
        BY <3>2, LenProperties
      <4>2. 1 \in 1 .. Len(code) + Len(rest) /\ 1 <= Len(code)
        BY <3>1, <4>1
      <4>3. QED
        BY <3>1, <3>2, <4>1, <4>2, ConcatProperties
    <3>5. t \in Seq(Digits) /\ Len(t) \in Nat \ {0} /\ t[1] = "6"
      BY <3>1, <3>3, <3>4
    <3>6. QED
      BY <3>5, EmptySeq
  <2>2. CASE Head(s) # "0"
    BY <1>2, <1>3, <2>2 DEF International
  <2>3. QED
    BY <2>1, <2>2
<1>5. NormalizePhone(raw) = t
  BY DEF NormalizePhone, s
<1> HIDE DEF t
<1>6. Stripped(t) = t /\ International(t) = t
  BY <1>4, DigitsStay
<1>7. Range(t) \subseteq Digits /\ "line" \notin Range(t)
  <2>1. Range(t) \subseteq Digits
    BY <1>4, RangeOfSeq
  <2>2. QED
    BY <2>1 DEF Digits
<1>8. ValidPhone(t)
  <2>1. Len(t) \in MinDigits .. MaxDigits
    BY <1>2
  <2>2. QED
    BY <1>4, <1>6, <1>7, <2>1 DEF ValidPhone
<1>9. QED
  BY <1>5, <1>6, <1>8 DEF NormalizePhone

-----------------------------------------------------------------------------
(***************************************************************************)
(* The way of an upload.                                                   *)
(***************************************************************************)

Labels ==
  {"header", "read", "payload", "pages", "extract", "filter", "phone", "end"}

TypeOK ==
  /\ file \in Files /\ pc \in Labels /\ buf \in Nat
  /\ enabled \in BOOLEAN /\ lexicon \in BOOLEAN /\ text \in Seq(Words)
  /\ answer \in {0, 200, 400, 413, 422, 429}

\* What goes on being read is within the limit so far.
ReadsOnWithin == pc \in {"header", "read"} => buf <= Limit

IInv == TypeOK /\ ReadsOnWithin /\ BufferBounded /\ PhoneRevalidates

\* The invariant holds at first.
LEMMA InitIInv == Init => IInv
<1>1. <<>> \in Seq(Words)
  BY EmptySeq
<1>2. QED
  BY <1>1, IntakeAssumption
  DEF Init, IInv, TypeOK, Labels, ReadsOnWithin, BufferBounded, PhoneRevalidates

\* Reading adds one chunk at most, and none to what is over the limit.
LEMMA ReadIInv == IInv /\ ReadChunk => IInv'
<1> SUFFICES ASSUME IInv, ReadChunk
             PROVE  IInv'
  OBVIOUS
<1>1. /\ pc = "read" /\ buf \in Nat /\ buf <= Limit /\ file.size \in Nat
      /\ Limit \in Nat /\ Chunk \in Nat
  BY IntakeAssumption DEF IInv, TypeOK, ReadsOnWithin, ReadChunk, Files
<1>2. buf' = Least(file.size, buf + Chunk) /\ UNCHANGED <<file, enabled, lexicon, text, phone>>
  BY DEF ReadChunk
<1>3. buf' \in Nat /\ buf' <= Limit + Chunk
  BY <1>1, <1>2 DEF Least
<1>4. pc' \in {"header", "read"} => buf' <= Limit
  BY <1>1 DEF ReadChunk, Goto, Answer
<1>5. pc' \in Labels /\ (answer' = answer \/ answer' = 413)
  BY DEF ReadChunk, Goto, Answer, Labels
<1>6. PhoneRevalidates'
  BY <1>2 DEF IInv, PhoneRevalidates
<1>7. QED
  BY <1>2, <1>3, <1>4, <1>5, <1>6 DEF IInv, TypeOK, ReadsOnWithin, BufferBounded

\* The statements that leave the buffer and the number alone.
LEMMA StatementIInv ==
  IInv /\ (TooMany \/ ValidateHeader \/ ValidatePayload \/ CountPages) => IInv'
<1> SUFFICES ASSUME IInv, TooMany \/ ValidateHeader \/ ValidatePayload \/ CountPages
             PROVE  IInv'
  OBVIOUS
<1>1. UNCHANGED <<file, buf, enabled, lexicon, text, phone>>
  BY DEF TooMany, ValidateHeader, ValidatePayload, CountPages
<1>2. pc' \in Labels /\ answer' \in {0, 200, 400, 413, 422, 429}
  BY DEF TooMany, ValidateHeader, ValidatePayload, CountPages, Goto, Answer, IInv, TypeOK, Labels
<1>3. pc' \in {"header", "read"} => pc = "header"
  BY DEF TooMany, ValidateHeader, ValidatePayload, CountPages, Goto, Answer
<1>4. QED
  BY <1>1, <1>2, <1>3 DEF IInv, TypeOK, ReadsOnWithin, BufferBounded, PhoneRevalidates

\* The text comes and goes.
LEMMA TextIInv == IInv /\ (Extract \/ Assess) => IInv'
<1> SUFFICES ASSUME IInv, Extract \/ Assess
             PROVE  IInv'
  OBVIOUS
<1>1. UNCHANGED <<file, buf, enabled, lexicon, phone>>
  BY DEF Extract, Assess
<1>2. /\ pc' \in Labels /\ pc' \notin {"header", "read"}
      /\ answer' \in {0, 200, 400, 413, 422, 429}
  BY DEF Extract, Assess, Goto, Answer, IInv, TypeOK, Labels
<1>3. text' \in Seq(Words)
  <2>1. CASE UNCHANGED text
    BY <2>1 DEF IInv, TypeOK
  <2>2. CASE text' \in UNION {[1 .. n -> Words] : n \in 1 .. MaxWords}
    <3>1. PICK n \in 1 .. MaxWords : text' \in [1 .. n -> Words]
      BY <2>2
    <3>2. n \in Nat
      BY <3>1, IntakeAssumption
    <3>3. QED
      BY <3>1, <3>2, SeqDef
  <2>3. CASE text' = <<>>
    BY <2>3, EmptySeq
  <2>4. QED
    BY <2>1, <2>2, <2>3 DEF Extract, Assess
<1>4. QED
  BY <1>1, <1>2, <1>3 DEF IInv, TypeOK, ReadsOnWithin, BufferBounded, PhoneRevalidates

\* A number is stored when it is valid.
LEMMA PhoneIInv == IInv /\ CheckPhone => IInv'
<1> SUFFICES ASSUME IInv, CheckPhone
             PROVE  IInv'
  OBVIOUS
<1>1. UNCHANGED <<file, buf, enabled, lexicon, text>>
  BY DEF CheckPhone
<1>2. pc' = "end" /\ answer' \in {200, 422}
  BY DEF CheckPhone, Answer
<1>3. PhoneRevalidates'
  <2>1. CASE phone' = None
    BY <2>1 DEF PhoneRevalidates
  <2>2. ASSUME NEW n \in 1 .. MaxPhone, NEW raw \in [1 .. n -> Symbols],
               ValidPhone(raw), phone' = NormalizePhone(raw)
        PROVE  PhoneRevalidates'
    <3>1. raw \in Seq(Symbols)
      <4>1. n \in Nat
        BY IntakeAssumption
      <4>2. QED
        BY <4>1, SeqDef
    <3>2. ValidPhone(phone') /\ NormalizePhone(phone') = phone'
      BY <2>2, <3>1, ValidStays
    <3>3. QED
      BY <3>2 DEF PhoneRevalidates
  <2>3. QED
    BY <2>1, <2>2 DEF CheckPhone
<1>4. QED
  BY <1>1, <1>2, <1>3 DEF IInv, TypeOK, Labels, ReadsOnWithin, BufferBounded

\* Every step keeps the invariant.
LEMMA NextIInv == IInv /\ [Next]_vars => IInv'
<1> SUFFICES ASSUME IInv, [Next]_vars
             PROVE  IInv'
  OBVIOUS
<1>1. CASE ReadChunk
  BY <1>1, ReadIInv
<1>2. CASE TooMany \/ ValidateHeader \/ ValidatePayload \/ CountPages
  BY <1>2, StatementIInv
<1>3. CASE Extract \/ Assess
  BY <1>3, TextIInv
<1>4. CASE CheckPhone
  BY <1>4, PhoneIInv
<1>5. CASE UNCHANGED vars
  BY <1>5 DEF vars, IInv, TypeOK, ReadsOnWithin, BufferBounded, PhoneRevalidates
<1>6. QED
  BY <1>1, <1>2, <1>3, <1>4, <1>5 DEF Next

-----------------------------------------------------------------------------
\* IInv holds in every reachable state.
THEOREM Invariance == Spec => []IInv
<1>1. QED
  BY InitIInv, NextIInv, PTL DEF Spec

\* However large the file, whether or not a length is declared or is true, the
\* handler's own buffer never grows beyond the limit and one chunk.
THEOREM MemoryIsBounded == Spec => []BufferBounded
<1>1. IInv => BufferBounded
  BY DEF IInv
<1>2. QED
  BY <1>1, Invariance, PTL

\* A number that the upload accepted is accepted, and sent to, as it was stored.
THEOREM NumbersStay == Spec => []PhoneRevalidates
<1>1. IInv => PhoneRevalidates
  BY DEF IInv
<1>2. QED
  BY <1>1, Invariance, PTL

\* For any lexicon and any text: a word beyond the cap, or one that counts for
\* nothing, lifts the score by no more than it dilutes the penalty.
THEOREM StuffingBuysRelief == Spec => []StuffingBuysOnlyRelief
<1>1. IInv => StuffingBuysOnlyRelief
  BY StuffingRelieves DEF IInv, TypeOK, StuffingBuysOnlyRelief
<1>2. QED
  BY <1>1, Invariance, PTL

=============================================================================
