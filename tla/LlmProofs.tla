------------------------------ MODULE LlmProofs ------------------------------
(***************************************************************************)
(* Proofs about LlmClient and LlmReply: for any numbers of retries, any    *)
(* provider and any reply.                                                 *)
(***************************************************************************)
EXTENDS LlmClient, FiniteSetTheorems, FunctionTheorems, SequenceTheorems, WellFoundedInduction, TLAPS

-----------------------------------------------------------------------------
(***************************************************************************)
(* The loops of the code are functions on the numbers of steps.  What they *)
(* come to is proved by least counterexample.                              *)
(***************************************************************************)

\* Every set of numbers that is not empty has a least one.
LEMMA LeastNumber ==
  ASSUME NEW T \in SUBSET Nat, T # {}
  PROVE  \E n \in T : \A m \in T : n <= m
<1> DEFINE R == OpToRel(<, Nat)
<1>1. IsWellFoundedOn(R, Nat)
  BY NatLessThanWellFounded
<1>2. \A x, y \in Nat : <<x, y>> \in R <=> x < y
  BY DEF OpToRel
<1> HIDE DEF R
<1>3. PICK n \in T : \A m \in T : ~(<<m, n>> \in R)
  BY <1>1, WFMin
<1>4. n \in Nat /\ \A m \in T : m \in Nat
  OBVIOUS
<1>5. \A m \in T : ~(m < n)
  BY <1>2, <1>3, <1>4
<1>6. \A m \in T : n <= m
  BY <1>4, <1>5
<1>7. QED
  BY <1>6

\* Induction: a set of numbers that has 0, and with a number the next one up to
\* n, has all of them up to n.
LEMMA Counting ==
  ASSUME NEW n \in Nat, NEW Good, 0 \in Good,
         \A i \in 0 .. n : i # n /\ i \in Good => i + 1 \in Good
  PROVE  \A i \in 0 .. n : i \in Good
<1> DEFINE Bad == {i \in 0 .. n : i \notin Good}
<1>1. SUFFICES ASSUME Bad # {}
               PROVE  FALSE
  OBVIOUS
<1>2. Bad \in SUBSET Nat
  OBVIOUS
<1>3. PICK i \in Bad : \A j \in Bad : i <= j
  <2> HIDE DEF Bad
  <2>1. QED
    BY <1>1, <1>2, LeastNumber
<1>4. i \in 1 .. n
  BY <1>3
<1>5. i - 1 \in 0 .. n /\ i - 1 # n /\ i - 1 \notin Bad
  BY <1>3, <1>4
<1>6. (i - 1) + 1 \in Good
  BY <1>5
<1>7. QED
  BY <1>3, <1>4, <1>6

\* The recursive function of a loop of n rounds.
IsLoop(loop, n, first, round) ==
  loop[0] = first /\ \A i \in 1 .. n : loop[i] = round[i][loop[i - 1]]

\* A loop over values of V is defined: such a function exists.
LEMMA Looping ==
  ASSUME NEW n \in Nat, NEW V, NEW first \in V, NEW round \in [1 .. n -> [V -> V]]
  PROVE  \E loop \in [0 .. n -> V] : IsLoop(loop, n, first, round)
<1> DEFINE Loops(c, m) == c \in [0 .. m -> V] /\ IsLoop(c, m, first, round)
           Good == {m \in 0 .. n : \E c : Loops(c, m)}
<1>1. 0 \in Good
  <2> DEFINE c == [i \in 0 .. 0 |-> first]
  <2>1. Loops(c, 0)
    BY DEF IsLoop
  <2> HIDE DEF c, Loops
  <2>2. QED
    BY <2>1
<1>2. ASSUME NEW m \in 0 .. n, m # n, m \in Good
      PROVE  m + 1 \in Good
  <2>1. PICK c : Loops(c, m)
    BY <1>2
  <2>2. m + 1 \in 1 .. n /\ m \in Nat
    BY <1>2
  <2> DEFINE d == [i \in 0 .. m + 1 |-> IF i = m + 1 THEN round[m + 1][c[m]] ELSE c[i]]
  <2>3. d \in [0 .. m + 1 -> V]
    BY <2>1, <2>2
  <2>4. d[0] = first
    BY <2>1, <2>2 DEF IsLoop
  <2>5. ASSUME NEW i \in 1 .. m + 1
        PROVE  d[i] = round[i][d[i - 1]]
    <3>1. d[i - 1] = c[i - 1]
      BY <2>2
    <3>2. i # m + 1 => d[i] = c[i] /\ i \in 1 .. m
      BY <2>2
    <3>3. d[m + 1] = round[m + 1][c[m]] /\ (m + 1) - 1 = m
      BY <2>2
    <3> HIDE DEF d
    <3>4. QED
      BY <2>1, <3>1, <3>2, <3>3 DEF IsLoop
  <2>6. Loops(d, m + 1)
    <3> HIDE DEF d
    <3>1. QED
      BY <2>3, <2>4, <2>5 DEF IsLoop
  <2> HIDE DEF d, Loops
  <2>7. QED
    BY <2>2, <2>6
<1>3. n \in Good
  <2> HIDE DEF Good
  <2>1. \A m \in 0 .. n : m # n /\ m \in Good => m + 1 \in Good
    BY <1>2
  <2>2. \A m \in 0 .. n : m \in Good
    BY <1>1, <2>1, Counting
  <2>3. QED
    BY <2>2
<1>4. QED
  BY <1>3

\* The least of some positions.
LEMMA MinIs ==
  ASSUME NEW T \in SUBSET Nat, T # {}
  PROVE  Min(T) \in T /\ \A m \in T : Min(T) <= m
  BY LeastNumber DEF Min

\* A lower bound that is in the set is its least element.
LEMMA MinEqual ==
  ASSUME NEW T \in SUBSET Nat, NEW n \in T, \A m \in T : n <= m
  PROVE  Min(T) = n
<1>1. Min(T) \in T /\ Min(T) <= n /\ n <= Min(T)
  BY MinIs
<1>2. n \in Nat /\ Min(T) \in Nat
  BY <1>1
<1>3. QED
  BY <1>1, <1>2

-----------------------------------------------------------------------------
(***************************************************************************)
(* What is found is a part of the reply.                                   *)
(***************************************************************************)

\* The places of a character are positions of the text.
LEMMA PositionsIs ==
  ASSUME NEW text \in Seq(Chars), NEW c
  PROVE  /\ Positions(text, c) \in SUBSET Nat /\ Positions(text, c) \subseteq 1 .. Len(text)
         /\ Len(text) \in Nat
<1>1. Len(text) \in Nat
  BY LenProperties
<1>2. QED
  BY <1>1 DEF Positions

\* A part of a text is a text.
LEMMA PartIs ==
  ASSUME NEW text \in Seq(Chars), NEW i \in 1 .. Len(text), NEW j \in Int, j <= Len(text)
  PROVE  SubSeq(text, i, j) \in Seq(Chars)
<1>1. Len(text) \in Nat /\ \A k \in 1 .. Len(text) : text[k] \in Chars
  BY LenProperties, ElementOfSeq
<1>2. i \in Int /\ \A k \in i .. j : text[k] \in Chars
  BY <1>1
<1>3. QED
  BY <1>2, SubSeqProperties

\* What the scanner returns is a text.
LEMMA OutermostIs ==
  ASSUME NEW text \in Seq(Chars)
  PROVE  OutermostObject(text) \in Seq(Chars)
<1> DEFINE start == FirstBrace(text)
           ends == {i \in Positions(text, "}") :
                      /\ i > start
                      /\ ScanFrom(text, start)[i].depth = 0
                      /\ ScanFrom(text, start)[i - 1].depth = 1}
<1>1. OutermostObject(text) =
        IF Positions(text, "{") = {} \/ ends = {} THEN Nothing ELSE SubSeq(text, start, Min(ends))
  BY DEF OutermostObject
<1>2. Nothing \in Seq(Chars)
  BY EmptySeq DEF Nothing
<1>3. ends \in SUBSET Nat /\ ends \subseteq 1 .. Len(text)
  BY PositionsIs
<1>4. Positions(text, "{") # {} => start \in 1 .. Len(text)
  BY PositionsIs, MinIs DEF FirstBrace
<1> HIDE DEF ends, start
<1>5. ends # {} => Min(ends) \in 1 .. Len(text)
  BY <1>3, MinIs
<1>6. ends # {} => Min(ends) \in Int /\ Min(ends) <= Len(text)
  <2>1. Len(text) \in Nat
    BY LenProperties
  <2>2. QED
    BY <1>5, <2>1
<1>7. Positions(text, "{") # {} /\ ends # {} => SubSeq(text, start, Min(ends)) \in Seq(Chars)
  BY <1>4, <1>6, PartIs
<1>8. QED
  BY <1>1, <1>2, <1>7

\* There are one or two candidates, and both are texts.
LEMMA CandidatesAre ==
  ASSUME NEW text \in Seq(Chars)
  PROVE  \/ Candidates(text) = <<text>>
         \/ /\ FenceEnds(text) # {}
            /\ Fenced(text) \in Seq(Chars)
            /\ Candidates(text) = <<Fenced(text), text>>
<1>1. ASSUME FenceEnds(text) # {}
      PROVE  Fenced(text) \in Seq(Chars)
  <2> DEFINE F == Positions(text, "f")
             E == FenceEnds(text)
  <2>1. E \subseteq F /\ F \in SUBSET Nat /\ F \subseteq 1 .. Len(text) /\ Len(text) \in Nat
    BY PositionsIs DEF FenceEnds
  <2>2. \A j \in E : Min(F) + 2 <= j
    BY DEF FenceEnds
  <2>3. Fenced(text) = SubSeq(text, Min(F) + 1, Min(E) - 1)
    BY DEF Fenced
  <2> HIDE DEF E, F
  <2>4. E # {} /\ F # {}
    BY <1>1, <2>1 DEF E
  <2>5. Min(E) \in E /\ Min(F) \in F
    BY <2>1, <2>4, MinIs
  <2>6. Min(F) + 1 \in 1 .. Len(text) /\ Min(E) - 1 \in Int /\ Min(E) - 1 <= Len(text)
    <3> DEFINE n == Len(text)
               x == Min(F)
               y == Min(E)
    <3>1. n \in Nat /\ x \in 1 .. n /\ y \in 1 .. n /\ x + 2 <= y
      BY <2>1, <2>2, <2>5
    <3> HIDE DEF n, x, y
    <3>2. x + 1 \in 1 .. n /\ y - 1 \in Int /\ y - 1 <= n
      BY <3>1
    <3>3. QED
      BY <3>2 DEF n, x, y
  <2>7. QED
    BY <2>3, <2>6, PartIs
<1>2. QED
  BY <1>1 DEF Candidates

\* What is made of a reply is a text.
LEMMA FoundIs ==
  ASSUME NEW text \in Seq(Chars)
  PROVE  ExtractJsonObject(text) \in Seq(Chars)
<1> DEFINE c == Candidates(text)
           settled == {k \in DOMAIN c : Settles(c[k])}
<1>1. ExtractJsonObject(text) = IF settled = {} THEN Nothing ELSE ObjectIn(c[Min(settled)])
  BY DEF ExtractJsonObject
<1>2. Nothing \in Seq(Chars)
  BY EmptySeq DEF Nothing
<1>3. DOMAIN c \in SUBSET Nat /\ \A k \in DOMAIN c : c[k] \in Seq(Chars)
  <2>1. CASE c = <<text>>
    BY <2>1
  <2>2. CASE c = <<Fenced(text), text>> /\ Fenced(text) \in Seq(Chars)
    BY <2>2
  <2>3. QED
    BY <2>1, <2>2, CandidatesAre
<1> HIDE DEF c
<1>4. settled # {} => Min(settled) \in settled
  BY <1>3, MinIs
<1>5. \A k \in DOMAIN c : ObjectIn(c[k]) \in Seq(Chars)
  BY <1>2, <1>3, OutermostIs DEF ObjectIn
<1>6. QED
  BY <1>1, <1>2, <1>4, <1>5

-----------------------------------------------------------------------------
(***************************************************************************)
(* The scanner.                                                            *)
(***************************************************************************)

\* The backslashes right before i begin at j.
Run(text, start, j, i) ==
  /\ j \in start .. i
  /\ \A m \in j .. i - 1 : text[m] = "b"
  /\ j = start \/ text[j - 1] # "b"

\* Before every position there is a run of backslashes, perhaps an empty one.
LEMMA RunIs ==
  ASSUME NEW text, NEW start \in Nat, NEW i \in Nat, start <= i
  PROVE  \E j \in start .. i : Run(text, start, j, i)
<1> DEFINE T == {j \in start .. i : \A m \in j .. i - 1 : text[m] = "b"}
<1>1. T \in SUBSET Nat
  OBVIOUS
<1>2. i \in T
  OBVIOUS
<1>3. PICK j \in T : \A k \in T : j <= k
  <2> HIDE DEF T
  <2>1. QED
    BY <1>1, <1>2, LeastNumber
<1>4. j \in start .. i /\ \A m \in j .. i - 1 : text[m] = "b"
  BY <1>3
<1>5. ASSUME j # start
      PROVE  text[j - 1] # "b"
  <2>1. j - 1 \in start .. i /\ ~(j <= j - 1) /\ \A m \in j - 1 .. i - 1 : m = j - 1 \/ m \in j .. i - 1
    BY <1>4, <1>5
  <2>2. j - 1 \notin T
    BY <1>3, <2>1
  <2>3. QED
    BY <1>4, <2>1, <2>2
<1>6. QED
  BY <1>4, <1>5 DEF Run

\* There is only one.
LEMMA RunIsUnique ==
  ASSUME NEW text, NEW start \in Nat, NEW i \in Nat, NEW j, NEW k,
         Run(text, start, j, i), Run(text, start, k, i)
  PROVE  j = k
<1>1. \A a, b : Run(text, start, a, i) /\ Run(text, start, b, i) => ~(a < b)
  <2> SUFFICES ASSUME NEW a, NEW b, Run(text, start, a, i), Run(text, start, b, i), a < b
               PROVE  FALSE
    OBVIOUS
  <2>1. a \in start .. i /\ b \in start .. i /\ b # start /\ b - 1 \in a .. i - 1
    BY DEF Run
  <2>2. QED
    BY <2>1 DEF Run
<1>2. j \in Int /\ k \in Int
  BY DEF Run
<1>3. QED
  BY <1>1, <1>2

\* A character is escaped when that run is odd.
LEMMA EscapedByRun ==
  ASSUME NEW text, NEW start \in Nat, NEW i \in Nat, NEW j, Run(text, start, j, i)
  PROVE  Escaped(text, start, i) <=> (i - j) % 2 = 1
<1>1. Escaped(text, start, i) <=> \E k \in start .. i : (i - k) % 2 = 1 /\ Run(text, start, k, i)
  BY DEF Escaped, Run
<1>2. j \in start .. i
  BY DEF Run
<1>3. QED
  BY <1>1, <1>2, RunIsUnique

\* A backslash that is not escaped escapes what follows it, and nothing else does.
LEMMA EscapedStep ==
  ASSUME NEW text, NEW start \in Nat, NEW i \in Nat, start <= i
  PROVE  /\ ~Escaped(text, start, start)
         /\ Escaped(text, start, i + 1) <=> text[i] = "b" /\ ~Escaped(text, start, i)
<1>1. ~Escaped(text, start, start)
  <2>1. Run(text, start, start, start)
    BY DEF Run
  <2>2. (start - start) % 2 = 0
    OBVIOUS
  <2>3. QED
    BY <2>1, <2>2, EscapedByRun
<1>2. i + 1 \in Nat
  OBVIOUS
<1>3. CASE text[i] # "b"
  <2>1. Run(text, start, i + 1, i + 1)
    BY <1>3 DEF Run
  <2>2. ((i + 1) - (i + 1)) % 2 = 0
    OBVIOUS
  <2>3. ~Escaped(text, start, i + 1)
    BY <1>2, <2>1, <2>2, EscapedByRun
  <2>4. QED
    BY <1>1, <1>3, <2>3
<1>4. CASE text[i] = "b"
  <2>1. PICK j \in start .. i : Run(text, start, j, i)
    BY RunIs
  <2>2. Run(text, start, j, i + 1)
    <3>1. \A m \in j .. (i + 1) - 1 : m = i \/ m \in j .. i - 1
      OBVIOUS
    <3>2. QED
      BY <1>4, <2>1, <3>1 DEF Run
  <2>3. ((i + 1) - j) % 2 = 1 <=> ~((i - j) % 2 = 1)
    OBVIOUS
  <2>4. Escaped(text, start, i + 1) <=> ((i + 1) - j) % 2 = 1
    BY <1>2, <2>2, EscapedByRun
  <2>5. Escaped(text, start, i) <=> (i - j) % 2 = 1
    BY <2>1, EscapedByRun
  <2>6. QED
    BY <1>1, <1>4, <2>3, <2>4, <2>5
<1>5. QED
  BY <1>3, <1>4

\* Counting the positions up to i, one by one.
LEMMA OneMore ==
  ASSUME NEW start \in Nat, NEW i \in Int, start - 1 <= i, NEW Q
  PROVE  LET A(k) == {j \in start .. k : j \in Q}
         IN  /\ Cardinality(A(i)) \in Nat
             /\ Cardinality(A(i + 1)) = IF i + 1 \in Q THEN Cardinality(A(i)) + 1 ELSE Cardinality(A(i))
             /\ Cardinality(A(start - 1)) = 0
<1> DEFINE A(k) == {j \in start .. k : j \in Q}
<1>1. IsFiniteSet(A(i))
  <2>1. A(i) \in SUBSET (start .. i) /\ IsFiniteSet(start .. i)
    BY FS_Interval
  <2>2. QED
    BY <2>1, FS_Subset
<1>2. i + 1 \notin A(i)
  OBVIOUS
<1>3. A(i + 1) = IF i + 1 \in Q THEN A(i) \cup {i + 1} ELSE A(i)
  <2>1. \A j : j \in start .. i + 1 <=> j \in start .. i \/ j = i + 1
    OBVIOUS
  <2>2. QED
    BY <2>1
<1>4. A(start - 1) = {}
  OBVIOUS
<1> HIDE DEF A
<1>5. Cardinality(A(i)) \in Nat /\ Cardinality(A(start - 1)) = 0
  BY <1>1, <1>4, FS_CardinalityType, FS_EmptySet
<1>6. Cardinality(A(i) \cup {i + 1}) = Cardinality(A(i)) + 1
  BY <1>1, <1>2, FS_AddElement
<1>7. QED
  BY <1>3, <1>5, <1>6 DEF A

Quoted(text, start) == {j \in Nat : text[j] = "q" /\ ~Escaped(text, start, j)}

Structure(text, start, c) ==
  {j \in Nat : text[j] = c /\ ~Escaped(text, start, j) /\ ~InString(text, start, j)}

\* A quotation mark that is not escaped begins or ends a string.
LEMMA InStringStep ==
  ASSUME NEW text, NEW start \in Nat, NEW i \in Nat, start <= i
  PROVE  /\ ~InString(text, start, start)
         /\ InString(text, start, i + 1)
              <=> ~(InString(text, start, i) <=> text[i] = "q" /\ ~Escaped(text, start, i))
<1> DEFINE Q == Quoted(text, start)
           A(k) == {j \in start .. k : j \in Q}
<1>1. \A k \in Int : InString(text, start, k) <=> Cardinality(A(k - 1)) % 2 = 1
  <2>1. ASSUME NEW k \in Int
        PROVE  {j \in start .. k - 1 : text[j] = "q" /\ ~Escaped(text, start, j)} = A(k - 1)
    BY DEF Quoted
  <2>2. QED
    BY <2>1 DEF InString
<1>2. i \in Q <=> text[i] = "q" /\ ~Escaped(text, start, i)
  BY DEF Quoted
<1> HIDE DEF Q
<1>3. /\ Cardinality(A(i - 1)) \in Nat
      /\ Cardinality(A((i - 1) + 1))
           = IF (i - 1) + 1 \in Q THEN Cardinality(A(i - 1)) + 1 ELSE Cardinality(A(i - 1))
      /\ Cardinality(A(start - 1)) = 0
  <2> DEFINE k == i - 1
  <2>1. k \in Int /\ start - 1 <= k
    OBVIOUS
  <2> HIDE DEF k
  <2>2. /\ Cardinality(A(k)) \in Nat
        /\ Cardinality(A(k + 1)) = IF k + 1 \in Q THEN Cardinality(A(k)) + 1 ELSE Cardinality(A(k))
        /\ Cardinality(A(start - 1)) = 0
    BY <2>1, OneMore
  <2>3. QED
    BY <2>2 DEF k
<1> DEFINE x == Cardinality(A(i - 1))
           y == Cardinality(A(i))
<1>4. (i - 1) + 1 = i /\ (i + 1) - 1 = i /\ i + 1 \in Int
  OBVIOUS
<1>5. x \in Nat /\ y = (IF i \in Q THEN x + 1 ELSE x)
  BY <1>3, <1>4
<1>6. InString(text, start, i + 1) <=> y % 2 = 1
  BY <1>1, <1>4
<1>7. InString(text, start, i) <=> x % 2 = 1
  BY <1>1
<1>8. InString(text, start, start) <=> Cardinality(A(start - 1)) % 2 = 1
  BY <1>1
<1> HIDE DEF A, x, y
<1>9. y % 2 = 1 <=> ~(x % 2 = 1 <=> i \in Q)
  BY <1>5
<1>10. ~InString(text, start, start)
  BY <1>3, <1>8
<1>11. QED
  BY <1>2, <1>6, <1>7, <1>9, <1>10

\* A brace is counted when it is neither escaped nor in a string.
LEMMA BracesStep ==
  ASSUME NEW text, NEW start \in Nat, NEW i \in Nat, start <= i, NEW c
  PROVE  LET count(k) == Cardinality(Braces(text, start, k, c))
         IN  /\ count(i - 1) \in Nat
             /\ count(i) = IF text[i] = c /\ ~Escaped(text, start, i) /\ ~InString(text, start, i)
                           THEN count(i - 1) + 1 ELSE count(i - 1)
<1> DEFINE Q == Structure(text, start, c)
           A(k) == {j \in start .. k : j \in Q}
<1>1. \A k \in Int : Braces(text, start, k, c) = A(k)
  BY DEF Braces, Structure
<1>2. i \in Q <=> text[i] = c /\ ~Escaped(text, start, i) /\ ~InString(text, start, i)
  BY DEF Structure
<1> HIDE DEF Q
<1>3. /\ Cardinality(A(i - 1)) \in Nat
      /\ Cardinality(A((i - 1) + 1))
           = IF (i - 1) + 1 \in Q THEN Cardinality(A(i - 1)) + 1 ELSE Cardinality(A(i - 1))
      /\ Cardinality(A(start - 1)) = 0
  <2> DEFINE h == i - 1
  <2>1. h \in Int /\ start - 1 <= h
    OBVIOUS
  <2> HIDE DEF h
  <2>2. /\ Cardinality(A(h)) \in Nat
        /\ Cardinality(A(h + 1)) = IF h + 1 \in Q THEN Cardinality(A(h)) + 1 ELSE Cardinality(A(h))
        /\ Cardinality(A(start - 1)) = 0
    BY <2>1, OneMore
  <2>3. QED
    BY <2>2 DEF h
<1>4. (i - 1) + 1 = i /\ i - 1 \in Int /\ i \in Int /\ start - 1 \in Int
  OBVIOUS
<1> HIDE DEF A
<1>5. QED
  BY <1>1, <1>2, <1>3, <1>4

\* What the scanner knows behind position i.
Knows(text, start, i) ==
  [depth |-> Cardinality(Braces(text, start, i, "{")) - Cardinality(Braces(text, start, i, "}")),
   str   |-> InString(text, start, i + 1),
   esc   |-> Escaped(text, start, i + 1)]

\* One character of the loop brings the scanner from one position to the next.
LEMMA ScanStep ==
  ASSUME NEW text, NEW start \in Nat, NEW i \in Nat, start <= i
  PROVE  ScanChar(Knows(text, start, i - 1), text[i]) = Knows(text, start, i)
<1> DEFINE c == text[i]
           e == Escaped(text, start, i)
           s == InString(text, start, i)
           o == Cardinality(Braces(text, start, i - 1, "{"))
           p == Cardinality(Braces(text, start, i - 1, "}"))
           o2 == Cardinality(Braces(text, start, i, "{"))
           p2 == Cardinality(Braces(text, start, i, "}"))
           e2 == Escaped(text, start, i + 1)
           s2 == InString(text, start, i + 1)
           was == [depth |-> o - p, str |-> s, esc |-> e]
<1>1. e \in BOOLEAN /\ s \in BOOLEAN /\ e2 \in BOOLEAN /\ s2 \in BOOLEAN
  BY DEF Escaped, InString
<1>2. e2 = (c = "b" /\ ~e)
  BY <1>1, EscapedStep
<1>3. s2 = ~(s <=> c = "q" /\ ~e)
  BY <1>1, InStringStep
<1>4. o \in Nat /\ o2 = (IF c = "{" /\ ~e /\ ~s THEN o + 1 ELSE o)
  BY BracesStep
<1>5. p \in Nat /\ p2 = (IF c = "}" /\ ~e /\ ~s THEN p + 1 ELSE p)
  BY BracesStep
<1>6. Knows(text, start, i) = [depth |-> o2 - p2, str |-> s2, esc |-> e2]
  BY DEF Knows
<1>7. Knows(text, start, i - 1) = was
  <2>1. (i - 1) + 1 = i
    OBVIOUS
  <2>2. QED
    BY <2>1 DEF Knows
<1>10. o \in Nat /\ p \in Nat
  BY <1>4, <1>5
<1> HIDE DEF c, e, s, o, p, o2, p2, e2, s2
<1>8. ScanChar(was, c) = [depth |-> o2 - p2, str |-> s2, esc |-> e2]
  <2>1. CASE e
    BY <1>1, <1>2, <1>3, <1>4, <1>5, <2>1 DEF ScanChar
  <2>2. CASE ~e /\ c = "b"
    BY <1>1, <1>2, <1>3, <1>4, <1>5, <2>2 DEF ScanChar
  <2>3. CASE ~e /\ c = "q"
    BY <1>1, <1>2, <1>3, <1>4, <1>5, <2>3 DEF ScanChar
  <2>4. CASE ~e /\ c = "{"
    <3>1. ~e2 /\ s2 = s
      BY <1>1, <1>2, <1>3, <2>4
    <3>2. CASE s
      <4>1. o2 - p2 = o - p
        BY <1>4, <1>5, <3>2
      <4>2. QED
        BY <1>1, <2>4, <3>1, <3>2, <4>1 DEF ScanChar
    <3>3. CASE ~s
      <4>1. o2 - p2 = (o - p) + 1
        <5>1. o2 = o + 1 /\ p2 = p
          BY <1>4, <1>5, <2>4, <3>3
        <5>2. QED
          BY <1>10, <5>1
      <4>2. ScanChar(was, c) = [was EXCEPT !.depth = @ + 1]
        BY <1>1, <2>4, <3>3 DEF ScanChar
      <4>3. QED
        BY <1>1, <2>4, <3>1, <3>3, <4>1, <4>2
    <3>4. QED
      BY <3>2, <3>3
  <2>5. CASE ~e /\ c = "}"
    <3>1. ~e2 /\ s2 = s
      BY <1>1, <1>2, <1>3, <2>5
    <3>2. CASE s
      <4>1. o2 - p2 = o - p
        BY <1>4, <1>5, <3>2
      <4>2. QED
        BY <1>1, <2>5, <3>1, <3>2, <4>1 DEF ScanChar
    <3>3. CASE ~s
      <4>1. o2 - p2 = (o - p) - 1
        <5>1. o2 = o /\ p2 = p + 1
          BY <1>4, <1>5, <2>5, <3>3
        <5>2. QED
          BY <1>10, <5>1
      <4>2. ScanChar(was, c) = [was EXCEPT !.depth = @ - 1]
        BY <1>1, <2>5, <3>3 DEF ScanChar
      <4>3. QED
        BY <1>1, <2>5, <3>1, <3>3, <4>1, <4>2
    <3>4. QED
      BY <3>2, <3>3
  <2>6. CASE ~e /\ c \notin {"b", "q", "{", "}"}
    BY <1>1, <1>2, <1>3, <1>4, <1>5, <2>6 DEF ScanChar
  <2>7. QED
    BY <2>1, <2>2, <2>3, <2>4, <2>5, <2>6
<1>9. QED
  BY <1>6, <1>7, <1>8 DEF c

\* The loop comes to this at every position.
LEMMA ScanIs ==
  ASSUME NEW text \in Seq(Chars), NEW start \in 1 .. Len(text)
  PROVE  /\ \A i \in start - 1 .. Len(text) : ScanFrom(text, start)[i] = Knows(text, start, i)
         /\ Knows(text, start, start - 1) = [depth |-> 0, str |-> FALSE, esc |-> FALSE]
<1> DEFINE n == Len(text)
           first == [depth |-> 0, str |-> FALSE, esc |-> FALSE]
           Term(g, i) == IF i < start THEN first ELSE ScanChar(g[i - 1], text[i])
           Loop(g) == [i \in start - 1 .. n |-> Term(g, i)]
           scan == CHOOSE g : g = Loop(g)
           known == [i \in start - 1 .. n |-> Knows(text, start, i)]
<1>1. n \in Nat /\ start \in Nat /\ start <= n
  BY LenProperties
<1>2. Knows(text, start, start - 1) = first
  <2>1. (start - 1) + 1 = start
    BY <1>1
  <2>2. ~Escaped(text, start, start) /\ ~InString(text, start, start)
    BY <1>1, EscapedStep, InStringStep
  <2>3. ASSUME NEW c
        PROVE  Cardinality(Braces(text, start, start - 1, c)) = 0
    <3>1. Braces(text, start, start - 1, c) = {}
      BY <1>1 DEF Braces
    <3>2. QED
      BY <3>1, FS_EmptySet
  <2>4. Escaped(text, start, start) \in BOOLEAN /\ InString(text, start, start) \in BOOLEAN
    BY DEF Escaped, InString
  <2>5. /\ Cardinality(Braces(text, start, start - 1, "{")) = 0
        /\ Cardinality(Braces(text, start, start - 1, "}")) = 0
    BY <2>3
  <2>6. 0 - 0 = 0
    OBVIOUS
  <2>7. QED
    BY <2>1, <2>2, <2>4, <2>5, <2>6 DEF Knows
<1>3. ScanFrom(text, start) = scan
  BY DEF ScanFrom
<1> HIDE DEF n
<1>4. known = Loop(known)
  <2>1. ASSUME NEW i \in start - 1 .. n
        PROVE  known[i] = Term(known, i)
    <3>1. CASE i < start
      <4>1. i = start - 1
        BY <1>1, <2>1, <3>1
      <4>2. QED
        BY <1>2, <3>1, <4>1
    <3>2. CASE ~(i < start)
      <4>1. i \in Nat /\ start <= i /\ i - 1 \in start - 1 .. n
        BY <1>1, <2>1, <3>2
      <4>2. known[i - 1] = Knows(text, start, i - 1)
        BY <4>1
      <4>3. ScanChar(Knows(text, start, i - 1), text[i]) = Knows(text, start, i)
        BY <1>1, <4>1, ScanStep
      <4>4. QED
        BY <3>2, <4>2, <4>3
    <3>3. QED
      BY <3>1, <3>2
  <2> HIDE DEF Term
  <2>2. QED
    BY <2>1
<1>5. scan = Loop(scan)
  <2> HIDE DEF Loop, known
  <2>1. QED
    BY <1>4
<1> HIDE DEF scan
<1>6. \A i \in start - 1 .. n : scan[i] = Term(scan, i)
  <2> HIDE DEF Term
  <2>1. QED
    BY <1>5
<1> DEFINE len == n - start + 1
           Good == {m \in 0 .. len : scan[start - 1 + m] = Knows(text, start, start - 1 + m)}
<1>7. 0 \in Good
  <2>1. start - 1 + 0 = start - 1 /\ start - 1 \in start - 1 .. n /\ start - 1 < start /\ len \in Nat
    BY <1>1
  <2>2. scan[start - 1] = first
    BY <1>6, <2>1
  <2>3. QED
    BY <1>2, <2>1, <2>2
<1>8. ASSUME NEW m \in 0 .. len, m # len, m \in Good
      PROVE  m + 1 \in Good
  <2> DEFINE i == start - 1 + (m + 1)
  <2>1. /\ i \in start - 1 .. n /\ ~(i < start) /\ i - 1 = start - 1 + m
        /\ i \in Nat /\ start <= i /\ m + 1 \in 0 .. len
    BY <1>1, <1>8
  <2>2. scan[start - 1 + m] = Knows(text, start, start - 1 + m)
    BY <1>8
  <2> HIDE DEF i
  <2>3. scan[i] = ScanChar(scan[i - 1], text[i])
    BY <1>6, <2>1
  <2>4. ScanChar(Knows(text, start, i - 1), text[i]) = Knows(text, start, i)
    BY <1>1, <2>1, ScanStep
  <2>5. scan[i] = Knows(text, start, i)
    BY <2>1, <2>2, <2>3, <2>4
  <2>6. QED
    BY <2>1, <2>5 DEF i
<1>9. ASSUME NEW i \in start - 1 .. n
      PROVE  scan[i] = Knows(text, start, i)
  <2> DEFINE m == i - start + 1
  <2>1. len \in Nat /\ m \in 0 .. len /\ start - 1 + m = i
    BY <1>1, <1>9
  <2> HIDE DEF len, m
  <2>2. \A k \in 0 .. len : k # len /\ k \in Good => k + 1 \in Good
    BY <1>8
  <2>3. 0 \in Good
    BY <1>7
  <2> DEFINE G == Good
  <2> HIDE DEF G
  <2>4. \A k \in 0 .. len : k \in G
    <3>1. 0 \in G /\ \A k \in 0 .. len : k # len /\ k \in G => k + 1 \in G
      BY <2>2, <2>3 DEF G
    <3>2. QED
      BY <2>1, <3>1, Counting
  <2>5. m \in Good
    BY <2>1, <2>4 DEF G
  <2>6. QED
    BY <2>1, <2>5
<1>10. QED
  BY <1>2, <1>3, <1>9 DEF n

\* The end of the object for the scanner is where the braces are balanced.
LEMMA EndIsBalanced ==
  ASSUME NEW text \in Seq(Chars), NEW start \in 1 .. Len(text),
         NEW i \in start + 1 .. Len(text)
  PROVE  text[i] = "}" =>
           (ScanFrom(text, start)[i].depth = 0 /\ ScanFrom(text, start)[i - 1].depth = 1
            <=> BalancedAt(text, start, i))
<1> DEFINE o == Cardinality(Braces(text, start, i - 1, "{"))
           p == Cardinality(Braces(text, start, i - 1, "}"))
           o2 == Cardinality(Braces(text, start, i, "{"))
           p2 == Cardinality(Braces(text, start, i, "}"))
           closes == text[i] = "}"
           free == ~Escaped(text, start, i) /\ ~InString(text, start, i)
<1>1. /\ i \in start - 1 .. Len(text) /\ i - 1 \in start - 1 .. Len(text)
      /\ start \in Nat /\ i \in Nat /\ start <= i /\ i \in start .. i
  BY LenProperties
<1>2. /\ ScanFrom(text, start)[i] = Knows(text, start, i)
      /\ ScanFrom(text, start)[i - 1] = Knows(text, start, i - 1)
  BY <1>1, ScanIs
<1>3. Knows(text, start, i).depth = o2 - p2 /\ Knows(text, start, i - 1).depth = o - p
  BY DEF Knows
<1>4. o \in Nat /\ (closes => o2 = o)
  BY <1>1, BracesStep
<1>5. p \in Nat /\ (closes => p2 = (IF free THEN p + 1 ELSE p))
  BY <1>1, BracesStep
<1>6. closes => (BalancedAt(text, start, i) <=> free /\ o2 = p2)
  <2>1. closes => (i \in Braces(text, start, i, "}") <=> free)
    BY <1>1 DEF Braces
  <2>2. QED
    BY <2>1 DEF BalancedAt
<1> HIDE DEF o, p, o2, p2, free, closes
<1>7. closes => (o2 - p2 = 0 /\ o - p = 1 <=> free /\ o2 = p2)
  BY <1>4, <1>5
<1>8. closes => (ScanFrom(text, start)[i].depth = 0 /\ ScanFrom(text, start)[i - 1].depth = 1
                 <=> BalancedAt(text, start, i))
  BY <1>2, <1>3, <1>6, <1>7
<1>9. QED
  BY <1>8 DEF closes

\* The scanner finds what its specification says, in any text.
LEMMA ScannerIsRight ==
  ASSUME NEW text \in Seq(Chars)
  PROVE  OutermostObject(text) = FirstBalanced(text)
<1> DEFINE start == FirstBrace(text)
           scan == ScanFrom(text, start)
           ends == {i \in Positions(text, "}") :
                      i > start /\ scan[i].depth = 0 /\ scan[i - 1].depth = 1}
           closed == {j \in Positions(text, "}") : start < j /\ BalancedAt(text, start, j)}
<1>1. OutermostObject(text) =
        IF Positions(text, "{") = {} THEN Nothing
        ELSE IF ends = {} THEN Nothing ELSE SubSeq(text, start, Min(ends))
  BY DEF OutermostObject
<1>2. FirstBalanced(text) =
        IF Positions(text, "{") = {} \/ closed = {} THEN Nothing
        ELSE SubSeq(text, start, Min(closed))
  BY DEF FirstBalanced, FirstBrace
<1>3. \A n \in Nat : \A a, i \in 1 .. n : a < i => i \in a + 1 .. n
  OBVIOUS
<1>4. Positions(text, "{") # {} => ends = closed
  <2> SUFFICES ASSUME Positions(text, "{") # {}
               PROVE  ends = closed
    OBVIOUS
  <2>1. start \in 1 .. Len(text) /\ Len(text) \in Nat
    BY PositionsIs, MinIs DEF FirstBrace
  <2>2. \A i \in Positions(text, "}") : i \in 1 .. Len(text) /\ text[i] = "}"
    BY DEF Positions
  <2> HIDE DEF start
  <2>3. ASSUME NEW i \in Positions(text, "}"), start < i
        PROVE  scan[i].depth = 0 /\ scan[i - 1].depth = 1 <=> BalancedAt(text, start, i)
    <3>1. i \in 1 .. Len(text) /\ start < i
      BY <2>2, <2>3
    <3>2. i \in start + 1 .. Len(text)
      BY <1>3, <2>1, <3>1
    <3>3. QED
      BY <2>1, <2>2, <3>2, EndIsBalanced
  <2>4. \A i \in Positions(text, "}") : i > start <=> start < i
    BY <2>1, <2>2
  <2> HIDE DEF scan
  <2>5. QED
    BY <2>3, <2>4
<1> HIDE DEF ends, closed, start
<1>5. QED
  BY <1>1, <1>2, <1>4

-----------------------------------------------------------------------------
(***************************************************************************)
(* The reader.                                                             *)
(***************************************************************************)

LB == "{"
RB == "}"

\* What an open bracket waits for.
Closers == {RB, "]"}

Readings ==
  [ok : BOOLEAN, values : Nat, open : Seq(Closers), str : BOOLEAN, esc : BOOLEAN]

\* What reading another character comes to.
LEMMA ReadCharIs ==
  ASSUME NEW st \in Readings, NEW c \in Chars
  PROVE  LET next == ReadChar(st, c)
         IN  /\ ~st.ok => next = st
             /\ st.ok /\ st.str /\ st.esc
                  => \E ok \in BOOLEAN : next = [st EXCEPT !.esc = FALSE, !.ok = ok]
             /\ st.ok /\ st.str /\ ~st.esc /\ c = "b" => next = [st EXCEPT !.esc = TRUE]
             /\ st.ok /\ st.str /\ ~st.esc /\ c = "q" => next = [st EXCEPT !.str = FALSE]
             /\ st.ok /\ st.str /\ ~st.esc /\ c \notin {"b", "q"} => next = st
<1>1. CASE ~st.ok
  BY <1>1 DEF ReadChar
<1>2. CASE st.ok /\ st.str
  <2>1. ReadChar(st, c) = ReadInString(st, c)
    BY <1>2 DEF ReadChar
  <2>2. CASE st.esc
    <3>1. (c \in {"q", "b", "x"}) \in BOOLEAN
      OBVIOUS
    <3>2. ReadInString(st, c) = [st EXCEPT !.esc = FALSE, !.ok = c \in {"q", "b", "x"}]
      BY <2>2 DEF ReadInString
    <3>3. QED
      BY <1>2, <2>1, <2>2, <3>1, <3>2
  <2>3. CASE ~st.esc /\ c = "b"
    BY <1>2, <2>1, <2>3 DEF ReadInString
  <2>4. CASE ~st.esc /\ c = "q"
    BY <1>2, <2>1, <2>4 DEF ReadInString
  <2>5. CASE ~st.esc /\ c \notin {"b", "q"}
    BY <1>2, <2>1, <2>5 DEF ReadInString
  <2>6. QED
    BY <1>2, <2>2, <2>3, <2>4, <2>5
<1>3. CASE st.ok /\ ~st.str
  BY <1>3
<1>4. QED
  BY <1>1, <1>2, <1>3

\* The same outside of strings.
LEMMA ReadOutsideIs ==
  ASSUME NEW st \in Readings, NEW c \in Chars, st.ok, ~st.str
  PROVE  LET next == ReadChar(st, c)
         IN  /\ c = LB => next = [BeginValue(st) EXCEPT !.open = <<RB>> \o @]
             /\ c = "[" => next = [BeginValue(st) EXCEPT !.open = <<"]">> \o @]
             /\ c \in {RB, "]"} /\ st.open # <<>> /\ Head(st.open) = c
                  => next = [st EXCEPT !.open = Tail(@)]
             /\ c \in {RB, "]"} /\ ~(st.open # <<>> /\ Head(st.open) = c)
                  => next = [st EXCEPT !.ok = FALSE]
             /\ c = "q" => next = [BeginValue(st) EXCEPT !.str = TRUE]
             /\ c = "x" => next = BeginValue(st)
             /\ c \in {"b", "f"} => next = [st EXCEPT !.ok = FALSE]
             /\ c \in {LB, RB, "[", "]", "q", "b", "f", "x"}
<1>1. ReadChar(st, c) = ReadOutside(st, c)
  BY DEF ReadChar
<1>2. DOMAIN Closer = {"{", "["} /\ Closer["{"] = "}" /\ Closer["["] = "]"
  BY DEF Closer
<1>3. CASE c = "{"
  BY <1>1, <1>2, <1>3 DEF ReadOutside, LB, RB
<1>4. CASE c = "["
  BY <1>1, <1>2, <1>4 DEF ReadOutside, LB, RB
<1>5. CASE c \in {"}", "]"}
  BY <1>1, <1>2, <1>5 DEF ReadOutside, LB, RB
<1>6. CASE c = "q"
  BY <1>1, <1>2, <1>6 DEF ReadOutside, LB, RB
<1>7. CASE c = "x"
  BY <1>1, <1>2, <1>7 DEF ReadOutside, LB, RB
<1>8. CASE c \in {"b", "f"}
  BY <1>1, <1>2, <1>8 DEF ReadOutside, LB, RB
<1>9. QED
  BY <1>3, <1>4, <1>5, <1>6, <1>7, <1>8 DEF Chars, LB, RB

\* A value that begins among open brackets changes nothing.
LEMMA BeginValueIs ==
  ASSUME NEW st \in Readings
  PROVE  /\ BeginValue(st) \in Readings
         /\ st.open # <<>> => BeginValue(st) = st
         /\ st.open = <<>> => BeginValue(st) = [st EXCEPT !.values = st.values + 1, !.ok = st.values = 0]
<1>1. (st.values = 0) \in BOOLEAN /\ st.values + 1 \in Nat
  BY DEF Readings
<1>2. [st EXCEPT !.values = @ + 1, !.ok = st.values = 0] \in Readings
  BY <1>1 DEF Readings
<1>3. QED
  BY <1>2 DEF BeginValue

\* The scanner, by the same cases.
LEMMA ScanCharIs ==
  ASSUME NEW st, NEW c
  PROVE  LET next == ScanChar(st, c)
         IN  /\ st.esc => next = [st EXCEPT !.esc = FALSE]
             /\ ~st.esc /\ c = "b" => next = [st EXCEPT !.esc = TRUE]
             /\ ~st.esc /\ c = "q" => next = [st EXCEPT !.str = ~@]
             /\ ~st.esc /\ c = LB /\ ~st.str => next = [st EXCEPT !.depth = @ + 1]
             /\ ~st.esc /\ c = RB /\ ~st.str => next = [st EXCEPT !.depth = @ - 1]
             /\ ~st.esc /\ c \in {LB, RB} /\ st.str => next = st
             /\ ~st.esc /\ c \notin {"b", "q", LB, RB} => next = st
<1>1. CASE st.esc
  BY <1>1 DEF ScanChar, LB, RB
<1>2. CASE ~st.esc /\ c = "b"
  BY <1>2 DEF ScanChar, LB, RB
<1>3. CASE ~st.esc /\ c = "q"
  BY <1>3 DEF ScanChar, LB, RB
<1>4. CASE ~st.esc /\ c = "{"
  BY <1>4 DEF ScanChar, LB, RB
<1>5. CASE ~st.esc /\ c = "}"
  BY <1>5 DEF ScanChar, LB, RB
<1>6. CASE ~st.esc /\ c \notin {"b", "q", "{", "}"}
  BY <1>6 DEF ScanChar, LB, RB
<1>7. QED
  BY <1>1, <1>2, <1>3, <1>4, <1>5, <1>6

\* The braces are no other character.
LEMMA CharsDiffer ==
  /\ LB # RB /\ LB \notin {"[", "]", "q", "b", "f", "x"} /\ RB \notin {"[", "]", "q", "b", "f", "x"}
  BY DEF LB, RB

-----------------------------------------------------------------------------
\* The places of x in s.
At(s, x) == {j \in 1 .. Len(s) : s[j] = x}

\* A place more or not, when an element is put in front.
LEMMA AtPush ==
  ASSUME NEW S, NEW s \in Seq(S), NEW c \in S, NEW x
  PROVE  /\ Cardinality(At(s, x)) \in Nat
         /\ Cardinality(At(<<c>> \o s, x)) = IF c = x THEN Cardinality(At(s, x)) + 1
                                             ELSE Cardinality(At(s, x))
<1> DEFINE n == Len(s)
           t == <<c>> \o s
           A == At(s, x)
           Up == {j + 1 : j \in A}
           f == [j \in A |-> j + 1]
<1>1. n \in Nat /\ \A j \in 1 .. n : s[j] \in S
  BY LenProperties, ElementOfSeq
<1>2. Len(t) = n + 1 /\ t[1] = c /\ \A j \in 1 .. n : t[j + 1] = s[j]
  <2> DEFINE one == <<c>>
  <2>1. one \in Seq(S) /\ Len(one) = 1 /\ one[1] = c
    OBVIOUS
  <2> HIDE DEF one
  <2>2. /\ Len(one \o s) = 1 + n
        /\ \A i \in 1 .. 1 + n : (one \o s)[i] = IF i <= 1 THEN one[i] ELSE s[i - 1]
    <3> HIDE DEF n
    <3>1. /\ Len(one \o s) = Len(one) + n
          /\ \A i \in 1 .. Len(one) + n :
               (one \o s)[i] = IF i <= Len(one) THEN one[i] ELSE s[i - Len(one)]
      BY <2>1, ConcatProperties DEF n
    <3>2. QED
      BY <2>1, <3>1
  <2>3. 1 \in 1 .. 1 + n /\ \A j \in 1 .. n : j + 1 \in 1 .. 1 + n /\ ~(j + 1 <= 1) /\ (j + 1) - 1 = j
    BY <1>1
  <2> HIDE DEF n
  <2>4. Len(one \o s) = n + 1 /\ (one \o s)[1] = c /\ \A j \in 1 .. n : (one \o s)[j + 1] = s[j]
    BY <1>1, <2>1, <2>2, <2>3
  <2>5. QED
    BY <2>4 DEF one
<1>3. IsFiniteSet(A) /\ A \subseteq 1 .. n
  <2>1. A \in SUBSET (1 .. n) /\ IsFiniteSet(1 .. n)
    BY <1>1, FS_Interval DEF At
  <2>2. QED
    BY <2>1, FS_Subset
<1> HIDE DEF t, n
<1>4. At(t, x) = IF c = x THEN Up \cup {1} ELSE Up
  <2>1. \A i \in 1 .. n + 1 : i = 1 \/ (i - 1 \in 1 .. n /\ (i - 1) + 1 = i)
    BY <1>1
  <2>2. \A j \in 1 .. n : j + 1 \in 1 .. n + 1
    BY <1>1
  <2>3. A = {j \in 1 .. n : s[j] = x}
    BY DEF At, n
  <2>4. At(t, x) = {i \in 1 .. n + 1 : t[i] = x}
    BY <1>2 DEF At
  <2>5. 1 \in 1 .. n + 1
    BY <1>1
  <2> HIDE DEF A
  <2>6. QED
    BY <1>2, <2>1, <2>2, <2>3, <2>4, <2>5
<1>5. Cardinality(Up) = Cardinality(A) /\ IsFiniteSet(Up) /\ 1 \notin Up
  <2>1. f \in Bijection(A, Up)
    <3>1. f \in Injection(A, Up)
      BY <1>1, <1>3 DEF Injection, IsInjective
    <3>2. f \in Surjection(A, Up)
      BY DEF Surjection
    <3>3. QED
      BY <3>1, <3>2 DEF Bijection
  <2>2. 1 \notin Up
    BY <1>1, <1>3
  <2> HIDE DEF f, Up, A
  <2>3. ExistsBijection(A, Up)
    BY <2>1 DEF ExistsBijection
  <2>4. QED
    BY <1>3, <2>2, <2>3, FS_Bijection
<1>6. Cardinality(A) \in Nat /\ Cardinality(Up \cup {1}) = Cardinality(Up) + 1
  BY <1>3, <1>5, FS_CardinalityType, FS_AddElement
<1> HIDE DEF Up, A, f
<1>7. QED
  BY <1>4, <1>5, <1>6 DEF t, A

-----------------------------------------------------------------------------
\* The objects among the open brackets.
Objects(open) == Cardinality(At(open, RB))

\* A bracket is opened.
LEMMA Pushed ==
  ASSUME NEW s \in Seq(Closers), NEW c \in Closers
  PROVE  LET t == <<c>> \o s
         IN  /\ t \in Seq(Closers) /\ t # <<>>
             /\ Objects(s) \in Nat
             /\ Objects(t) = IF c = RB THEN Objects(s) + 1 ELSE Objects(s)
             /\ t[Len(t)] = IF s = <<>> THEN c ELSE s[Len(s)]
<1> DEFINE one == <<c>>
           t == one \o s
           n == Len(s)
<1>1. one \in Seq(Closers) /\ Len(one) = 1 /\ one[1] = c
  OBVIOUS
<1>2. Objects(s) \in Nat /\ Objects(t) = IF c = RB THEN Objects(s) + 1 ELSE Objects(s)
  BY AtPush DEF Objects
<1>3. n \in Nat /\ (s = <<>> <=> n = 0)
  BY EmptySeq, LenProperties
<1> HIDE DEF one, n
<1>4. /\ t \in Seq(Closers) /\ Len(t) = Len(one) + n
      /\ \A i \in 1 .. Len(one) + n : t[i] = IF i <= Len(one) THEN one[i] ELSE s[i - Len(one)]
  BY <1>1, ConcatProperties DEF n
<1> HIDE DEF t
<1>5. Len(t) = n + 1 /\ \A i \in 1 .. n + 1 : t[i] = IF i <= 1 THEN one[i] ELSE s[i - 1]
  BY <1>1, <1>3, <1>4
<1>6. n + 1 \in 1 .. n + 1 /\ (n + 1 <= 1 <=> n = 0) /\ (n + 1) - 1 = n /\ n + 1 # 0
  BY <1>3
<1>7. t[n + 1] = IF n = 0 THEN c ELSE s[n]
  BY <1>1, <1>5, <1>6
<1>8. t # <<>>
  BY <1>4, <1>5, <1>6, EmptySeq
<1>9. t[Len(t)] = IF s = <<>> THEN c ELSE s[Len(s)]
  BY <1>3, <1>5, <1>7 DEF n
<1>10. QED
  BY <1>2, <1>4, <1>8, <1>9 DEF t, one

\* A bracket is closed.
LEMMA Popped ==
  ASSUME NEW s \in Seq(Closers), s # <<>>
  PROVE  LET t == Tail(s)
         IN  /\ t \in Seq(Closers) /\ Objects(t) \in Nat
             /\ Objects(s) = IF Head(s) = RB THEN Objects(t) + 1 ELSE Objects(t)
             /\ s[Len(s)] = IF t = <<>> THEN Head(s) ELSE t[Len(t)]
<1> DEFINE t == Tail(s)
           c == Head(s)
<1>1. c \in Closers /\ t \in Seq(Closers)
  BY HeadTailProperties
<1>2. s = <<c>> \o t
  <2>1. Len(s) \in Nat \ {0} /\ 1 \in 1 .. Len(s) /\ Len(s) \in 1 .. Len(s)
    BY EmptySeq
  <2>2. SubSeq(s, 1, Len(s)) = <<s[1]>> \o SubSeq(s, 1 + 1, Len(s))
    BY <2>1, SubSeqRecursiveFirst
  <2>3. SubSeq(s, 1, Len(s)) = s
    BY SubSeqFull
  <2>4. Head(SubSeq(s, 1, Len(s))) = s[1] /\ Tail(SubSeq(s, 1, Len(s))) = SubSeq(s, 1 + 1, Len(s))
    BY <2>1, HeadTailOfSubSeq
  <2>5. QED
    BY <2>2, <2>3, <2>4
<1> HIDE DEF t, c
<1>3. QED
  BY <1>1, <1>2, Pushed DEF t, c

\* At the bottom of the stack is an object, so that there is one.
LEMMA SomeObject ==
  ASSUME NEW s \in Seq(Closers), s # <<>>, s[Len(s)] = RB
  PROVE  Objects(s) >= 1
<1>1. Len(s) \in Nat \ {0} /\ Len(s) \in At(s, RB)
  BY EmptySeq DEF At
<1>2. At(s, RB) \in SUBSET (1 .. Len(s)) /\ IsFiniteSet(1 .. Len(s))
  BY <1>1, FS_Interval DEF At
<1>3. IsFiniteSet(At(s, RB)) /\ Objects(s) \in Nat
  BY <1>2, FS_Subset, FS_CardinalityType DEF Objects
<1>4. Objects(s) # 0
  BY <1>1, <1>3, FS_EmptySet DEF Objects
<1>5. QED
  BY <1>3, <1>4

\* No bracket, no object.
LEMMA NoObject == Objects(<<>>) = 0
<1>1. At(<<>>, RB) = {}
  BY DEF At
<1>2. QED
  BY <1>1, FS_EmptySet DEF Objects

-----------------------------------------------------------------------------
\* The reader stays well typed.
LEMMA ReadCharType ==
  ASSUME NEW st \in Readings, NEW c \in Chars
  PROVE  ReadChar(st, c) \in Readings
<1>1. CASE ~st.ok
  BY <1>1, ReadCharIs
<1>2. CASE st.ok /\ st.str /\ st.esc
  <2>1. PICK ok \in BOOLEAN : ReadChar(st, c) = [st EXCEPT !.esc = FALSE, !.ok = ok]
    BY <1>2, ReadCharIs
  <2>2. QED
    BY <2>1 DEF Readings
<1>3. CASE st.ok /\ st.str /\ ~st.esc
  <2>1. \/ ReadChar(st, c) = [st EXCEPT !.esc = TRUE]
        \/ ReadChar(st, c) = [st EXCEPT !.str = FALSE]
        \/ ReadChar(st, c) = st
    BY <1>3, ReadCharIs
  <2>2. QED
    BY <2>1 DEF Readings
<1>4. CASE st.ok /\ ~st.str
  <2> DEFINE bv == BeginValue(st)
  <2>1. bv \in Readings
    BY BeginValueIs
  <2>2. RB \in Closers /\ "]" \in Closers
    BY DEF Closers
  <2>3. /\ <<RB>> \o bv.open \in Seq(Closers) /\ <<"]">> \o bv.open \in Seq(Closers)
        /\ st.open # <<>> => Tail(st.open) \in Seq(Closers)
    <3>1. bv.open \in Seq(Closers) /\ st.open \in Seq(Closers)
      BY <2>1 DEF Readings
    <3>2. QED
      BY <2>2, <3>1, Pushed, Popped
  <2>4. \/ ReadChar(st, c) = [bv EXCEPT !.open = <<RB>> \o @]
        \/ ReadChar(st, c) = [bv EXCEPT !.open = <<"]">> \o @]
        \/ st.open # <<>> /\ ReadChar(st, c) = [st EXCEPT !.open = Tail(@)]
        \/ ReadChar(st, c) = [st EXCEPT !.ok = FALSE]
        \/ ReadChar(st, c) = [bv EXCEPT !.str = TRUE]
        \/ ReadChar(st, c) = bv
    BY <1>4, ReadOutsideIs
  <2> HIDE DEF bv
  <2>5. QED
    BY <2>1, <2>3, <2>4 DEF Readings
<1>5. QED
  BY <1>1, <1>2, <1>3, <1>4 DEF Readings

\* The reader is defined, and goes from character to character.
LEMMA ReaderIs ==
  ASSUME NEW text \in Seq(Chars)
  PROVE  /\ Len(text) \in Nat
         /\ Reader(text)[0] = Reading
         /\ \A k \in 0 .. Len(text) : Reader(text)[k] \in Readings
         /\ \A k \in 1 .. Len(text) : Reader(text)[k] = ReadChar(Reader(text)[k - 1], text[k])
<1> DEFINE n == Len(text)
           Loop(g) == [i \in 0 .. n |-> IF i = 0 THEN Reading ELSE ReadChar(g[i - 1], text[i])]
           read == CHOOSE g : g = Loop(g)
           round == [i \in 1 .. n |-> [st \in Readings |-> ReadChar(st, text[i])]]
<1>1. n \in Nat /\ \A i \in 1 .. n : text[i] \in Chars
  BY LenProperties, ElementOfSeq
<1>2. Reader(text) = read
  BY DEF Reader
<1>3. Reading \in Readings
  BY EmptySeq DEF Reading, Readings
<1> HIDE DEF n
<1>4. round \in [1 .. n -> [Readings -> Readings]]
  BY <1>1, ReadCharType
<1>5. PICK loop \in [0 .. n -> Readings] : IsLoop(loop, n, Reading, round)
  <2> HIDE DEF round
  <2>1. QED
    BY <1>1, <1>3, <1>4, Looping
<1>6. ASSUME NEW i \in 1 .. n
      PROVE  loop[i] = ReadChar(loop[i - 1], text[i])
  <2>1. i - 1 \in 0 .. n
    BY <1>1
  <2>2. loop[i - 1] \in Readings
    BY <2>1
  <2>3. round[i][loop[i - 1]] = ReadChar(loop[i - 1], text[i])
    BY <2>2
  <2>4. QED
    BY <1>5, <2>3 DEF IsLoop
<1>7. loop = Loop(loop)
  <2>1. \A i \in 0 .. n : loop[i] = IF i = 0 THEN Reading ELSE ReadChar(loop[i - 1], text[i])
    <3>1. \A i \in 0 .. n : i = 0 \/ i \in 1 .. n
      BY <1>1
    <3>2. QED
      BY <1>5, <1>6, <3>1 DEF IsLoop
  <2>2. QED
    BY <2>1
<1>8. read = Loop(read)
  <2> HIDE DEF Loop
  <2>1. QED
    BY <1>7
<1> HIDE DEF read
<1>9. /\ read[0] = Reading
      /\ \A k \in 1 .. n : read[k] = ReadChar(read[k - 1], text[k])
  <2>1. 0 \in 0 .. n /\ \A k \in 1 .. n : k \in 0 .. n /\ k # 0
    BY <1>1
  <2>2. \A k \in 0 .. n : read[k] = IF k = 0 THEN Reading ELSE ReadChar(read[k - 1], text[k])
    BY <1>8
  <2>3. QED
    BY <2>1, <2>2
<1> DEFINE Good == {k \in 0 .. n : read[k] \in Readings}
<1>10. 0 \in Good
  BY <1>1, <1>3, <1>9
<1>11. ASSUME NEW k \in 0 .. n, k # n, k \in Good
       PROVE  k + 1 \in Good
  <2>1. k + 1 \in 1 .. n /\ (k + 1) - 1 = k /\ k + 1 \in 0 .. n
    BY <1>1, <1>11
  <2>2. read[k + 1] = ReadChar(read[k], text[k + 1])
    BY <1>9, <2>1
  <2>3. QED
    BY <1>1, <1>11, <2>1, <2>2, ReadCharType
<1>12. \A k \in 0 .. n : k \in Good
  <2> HIDE DEF Good
  <2>1. QED
    BY <1>1, <1>10, <1>11, Counting
<1>13. QED
  BY <1>1, <1>2, <1>9, <1>12 DEF n

-----------------------------------------------------------------------------
(***************************************************************************)
(* The scanner follows the reader through an object.                       *)
(***************************************************************************)
Scans == [depth : Int, str : BOOLEAN, esc : BOOLEAN]

\* As long as the reader finds no fault, the scanner is in a string when it is,
\* and as deep as the reader has objects open.
Agree(st, scan) ==
  st.ok =>
    /\ scan.str = st.str /\ scan.esc = st.esc /\ scan.depth = Objects(st.open)
    /\ st.values = 1
    /\ st.esc => st.str
    /\ st.open = <<>> => ~st.str
    /\ st.open # <<>> => st.open[Len(st.open)] = RB

\* The first brace opens an object for both.
LEMMA AgreeFirst ==
  LET st   == ReadChar(Reading, LB)
      scan == ScanChar([depth |-> 0, str |-> FALSE, esc |-> FALSE], LB)
  IN  Agree(st, scan) /\ st.open # <<>>
<1> DEFINE st == ReadChar(Reading, LB)
           was == [depth |-> 0, str |-> FALSE, esc |-> FALSE]
           scan == ScanChar(was, LB)
           open == <<RB>> \o <<>>
<1>1. LB \in Chars /\ Reading \in Readings /\ RB \in Closers
  BY EmptySeq DEF Chars, LB, RB, Reading, Readings, Closers
<1>2. st = [BeginValue(Reading) EXCEPT !.open = <<RB>> \o @]
  BY <1>1, ReadOutsideIs DEF Reading
<1>3. BeginValue(Reading) = [Reading EXCEPT !.values = Reading.values + 1, !.ok = Reading.values = 0]
  BY <1>1, BeginValueIs DEF Reading
<1>4. st = [ok |-> TRUE, values |-> 1, open |-> open, str |-> FALSE, esc |-> FALSE]
  <2> DEFINE bv == BeginValue(Reading)
  <2>1. bv = [ok |-> TRUE, values |-> 1, open |-> <<>>, str |-> FALSE, esc |-> FALSE]
    <3>1. Reading.values = 0 /\ 0 + 1 = 1
      BY DEF Reading
    <3>2. bv = [Reading EXCEPT !.values = 1, !.ok = TRUE]
      BY <1>3, <3>1
    <3> HIDE DEF bv
    <3>3. QED
      BY <3>2 DEF Reading
  <2>2. st = [bv EXCEPT !.open = <<RB>> \o @]
    BY <1>2
  <2> HIDE DEF st, bv
  <2>3. QED
    BY <2>1, <2>2
<1>5. scan = [was EXCEPT !.depth = @ + 1]
  BY ScanCharIs, CharsDiffer
<1>6. scan = [depth |-> 1, str |-> FALSE, esc |-> FALSE]
  <2>1. 0 + 1 = 1
    OBVIOUS
  <2> HIDE DEF scan
  <2>2. QED
    BY <1>5, <2>1
<1>7. /\ open # <<>> /\ open[Len(open)] = RB
      /\ Objects(open) = Objects(<<>>) + 1
  BY <1>1, EmptySeq, Pushed
<1>8. Objects(open) = 1
  BY <1>7, NoObject
<1> HIDE DEF st, scan, open
<1>9. Agree(st, scan) /\ st.open # <<>>
  BY <1>4, <1>6, <1>7, <1>8 DEF Agree
<1>10. QED
  BY <1>9 DEF st, scan

\* Within an object: they go on together, nothing follows its last brace, and
\* that brace takes the scanner one level up.
LEMMA AgreeStep ==
  ASSUME NEW st \in Readings, NEW scan \in Scans, NEW c \in Chars, Agree(st, scan)
  PROVE  LET r == ReadChar(st, c)
             s == ScanChar(scan, c)
         IN  /\ Agree(r, s)
             /\ r.ok => st.ok /\ st.open # <<>>
             /\ r.ok /\ r.open = <<>> => c = RB /\ s.depth = scan.depth - 1
<1> DEFINE r == ReadChar(st, c)
           s == ScanChar(scan, c)
           Goal == /\ Agree(r, s)
                   /\ r.ok => st.ok /\ st.open # <<>>
                   /\ r.ok /\ r.open = <<>> => c = RB /\ s.depth = scan.depth - 1
<1>1. CASE ~st.ok
  <2>1. r = st
    BY <1>1, ReadCharIs
  <2> HIDE DEF r, s
  <2>2. QED
    BY <1>1, <2>1 DEF Agree, r, s
<1>2. ASSUME st.ok
      PROVE  /\ scan.str = st.str /\ scan.esc = st.esc /\ scan.depth = Objects(st.open)
             /\ st.values = 1
             /\ st.esc => st.str
             /\ st.open = <<>> => ~st.str
             /\ st.open # <<>> => st.open[Len(st.open)] = RB
             /\ st.open \in Seq(Closers)
             /\ st.str \in BOOLEAN /\ st.esc \in BOOLEAN /\ st.ok \in BOOLEAN
             /\ st = [ok |-> st.ok, values |-> st.values, open |-> st.open, str |-> st.str, esc |-> st.esc]
             /\ scan = [depth |-> scan.depth, str |-> scan.str, esc |-> scan.esc]
  BY <1>2 DEF Agree, Readings, Scans
<1>3. CASE st.ok /\ st.str
  <2>1. st.open # <<>>
    BY <1>2, <1>3
  <2>2. CASE st.esc
    <3>1. PICK ok \in BOOLEAN : r = [st EXCEPT !.esc = FALSE, !.ok = ok]
      BY <1>3, <2>2, ReadCharIs
    <3>2. s = [scan EXCEPT !.esc = FALSE]
      BY <1>2, <1>3, <2>2, ScanCharIs
    <3> HIDE DEF r, s
    <3>3. QED
      BY <1>2, <1>3, <2>1, <3>1, <3>2 DEF Agree, r, s
  <2>3. CASE ~st.esc /\ c = "b"
    <3>1. r = [st EXCEPT !.esc = TRUE]
      BY <1>3, <2>3, ReadCharIs
    <3>2. s = [scan EXCEPT !.esc = TRUE]
      BY <1>2, <1>3, <2>3, ScanCharIs
    <3> HIDE DEF r, s
    <3>3. QED
      BY <1>2, <1>3, <2>1, <3>1, <3>2 DEF Agree, r, s
  <2>4. CASE ~st.esc /\ c = "q"
    <3>1. r = [st EXCEPT !.str = FALSE]
      BY <1>3, <2>4, ReadCharIs
    <3>2. s = [scan EXCEPT !.str = ~@]
      BY <1>2, <1>3, <2>4, ScanCharIs
    <3> HIDE DEF r, s
    <3>3. QED
      BY <1>2, <1>3, <2>1, <2>4, <3>1, <3>2 DEF Agree, r, s
  <2>5. CASE ~st.esc /\ c \notin {"b", "q"}
    <3>1. r = st
      BY <1>3, <2>5, ReadCharIs
    <3>2. s = scan
      BY <1>2, <1>3, <2>5, ScanCharIs
    <3> HIDE DEF r, s
    <3>3. QED
      BY <1>2, <1>3, <2>1, <3>1, <3>2 DEF Agree, r, s
  <2>6. QED
    BY <1>2, <1>3, <2>2, <2>3, <2>4, <2>5
<1>4. CASE st.ok /\ ~st.str /\ st.open = <<>>
  <2>1. ~r.ok
    <3>1. BeginValue(st) = [st EXCEPT !.values = st.values + 1, !.ok = st.values = 0]
      BY <1>4, BeginValueIs
    <3>2. BeginValue(st).ok = FALSE /\ DOMAIN BeginValue(st) = {"ok", "values", "open", "str", "esc"}
      BY <1>2, <1>4, <3>1
    <3> DEFINE bv == BeginValue(st)
    <3> HIDE DEF bv
    <3>3. \/ r = [bv EXCEPT !.open = <<RB>> \o @]
          \/ r = [bv EXCEPT !.open = <<"]">> \o @]
          \/ r = [st EXCEPT !.ok = FALSE]
          \/ r = [bv EXCEPT !.str = TRUE]
          \/ r = bv
      BY <1>4, ReadOutsideIs DEF bv
    <3>4. bv.ok = FALSE /\ DOMAIN bv = {"ok", "values", "open", "str", "esc"}
      BY <3>2 DEF bv
    <3> HIDE DEF r
    <3>5. QED
      BY <1>2, <1>4, <3>3, <3>4
  <2> HIDE DEF r, s
  <2>2. QED
    BY <2>1 DEF Agree, r, s
<1>5. CASE st.ok /\ ~st.str /\ st.open # <<>>
  <2>1. BeginValue(st) = st /\ ~st.esc /\ ~scan.esc /\ ~scan.str
    BY <1>2, <1>5, BeginValueIs
  <2>2. CASE c = LB
    <3> DEFINE open == <<RB>> \o st.open
    <3>1. r = [st EXCEPT !.open = open]
      BY <1>5, <2>1, <2>2, ReadOutsideIs
    <3>2. s = [scan EXCEPT !.depth = @ + 1]
      BY <2>1, <2>2, ScanCharIs
    <3>3. open # <<>> /\ Objects(open) = Objects(st.open) + 1 /\ open[Len(open)] = st.open[Len(st.open)]
      BY <1>2, <1>5, Pushed DEF Closers
    <3> HIDE DEF r, s, open
    <3>4. QED
      BY <1>2, <1>5, <3>1, <3>2, <3>3 DEF Agree, r, s
  <2>3. CASE c = "["
    <3> DEFINE open == <<"]">> \o st.open
    <3>1. r = [st EXCEPT !.open = open]
      BY <1>5, <2>1, <2>3, ReadOutsideIs
    <3>2. s = scan
      BY <2>1, <2>3, CharsDiffer, ScanCharIs
    <3>3. "]" \in Closers /\ "]" # RB
      BY CharsDiffer DEF Closers
    <3>4. open # <<>> /\ Objects(open) = Objects(st.open) /\ open[Len(open)] = st.open[Len(st.open)]
      BY <1>2, <1>5, <3>3, Pushed
    <3> HIDE DEF r, s, open
    <3>5. QED
      BY <1>2, <1>5, <3>1, <3>2, <3>4 DEF Agree, r, s
  <2>4. CASE c \in {RB, "]"} /\ Head(st.open) = c
    <3> DEFINE open == Tail(st.open)
    <3>1. r = [st EXCEPT !.open = open]
      BY <1>5, <2>4, ReadOutsideIs
    <3>2. s = IF c = RB THEN [scan EXCEPT !.depth = @ - 1] ELSE scan
      BY <2>1, <2>4, CharsDiffer, ScanCharIs
    <3>3. /\ Objects(open) \in Nat
          /\ Objects(st.open) = IF c = RB THEN Objects(open) + 1 ELSE Objects(open)
          /\ st.open[Len(st.open)] = IF open = <<>> THEN c ELSE open[Len(open)]
      BY <1>2, <1>5, <2>4, Popped
    <3> HIDE DEF r, s, open
    <3>4. s.depth = Objects(open)
      BY <1>2, <1>5, <3>2, <3>3
    <3>5. open = <<>> => c = RB
      BY <1>2, <1>5, <3>3
    <3>6. QED
      BY <1>2, <1>5, <3>1, <3>2, <3>3, <3>4, <3>5 DEF Agree, r, s
  <2>5. CASE \/ c \in {RB, "]"} /\ Head(st.open) # c
             \/ c \in {"b", "f"}
    <3>1. r = [st EXCEPT !.ok = FALSE]
      BY <1>5, <2>5, ReadOutsideIs
    <3> HIDE DEF r, s
    <3>2. ~r.ok
      BY <1>2, <1>5, <3>1
    <3>3. QED
      BY <3>2 DEF Agree, r, s
  <2>6. CASE c = "q"
    <3>1. r = [st EXCEPT !.str = TRUE]
      BY <1>5, <2>1, <2>6, ReadOutsideIs
    <3>2. s = [scan EXCEPT !.str = ~@]
      BY <2>1, <2>6, ScanCharIs
    <3> HIDE DEF r, s
    <3>3. QED
      BY <1>2, <1>5, <2>1, <3>1, <3>2 DEF Agree, r, s
  <2>7. CASE c = "x"
    <3>1. r = st
      BY <1>5, <2>1, <2>7, ReadOutsideIs
    <3>2. s = scan
      BY <2>1, <2>7, CharsDiffer, ScanCharIs
    <3> HIDE DEF r, s
    <3>3. QED
      BY <1>2, <1>5, <3>1, <3>2 DEF Agree, r, s
  <2>8. c \in {LB, RB, "[", "]", "q", "b", "f", "x"}
    BY <1>5, ReadOutsideIs
  <2>9. QED
    BY <2>2, <2>3, <2>4, <2>5, <2>6, <2>7, <2>8
<1>6. QED
  BY <1>1, <1>2, <1>3, <1>4, <1>5

\* The scanner goes from character to character.
LEMMA ScanRuns ==
  ASSUME NEW text \in Seq(Chars), NEW start \in 1 .. Len(text)
  PROVE  /\ ScanFrom(text, start)[start - 1] = [depth |-> 0, str |-> FALSE, esc |-> FALSE]
         /\ \A i \in start .. Len(text) :
              /\ ScanFrom(text, start)[i] \in Scans
              /\ ScanFrom(text, start)[i] = ScanChar(ScanFrom(text, start)[i - 1], text[i])
<1>1. Len(text) \in Nat /\ start \in Nat /\ start - 1 \in start - 1 .. Len(text)
  BY LenProperties
<1>2. ScanFrom(text, start)[start - 1] = [depth |-> 0, str |-> FALSE, esc |-> FALSE]
  BY <1>1, ScanIs
<1>3. ASSUME NEW i \in start .. Len(text)
      PROVE  /\ ScanFrom(text, start)[i] \in Scans
             /\ ScanFrom(text, start)[i] = ScanChar(ScanFrom(text, start)[i - 1], text[i])
  <2>1. /\ i \in Nat /\ start <= i /\ i - 1 \in start - 1 .. Len(text) /\ i \in start - 1 .. Len(text)
        /\ i + 1 \in Nat /\ start <= i + 1 /\ (i + 1) - 1 = i
    BY <1>1, <1>3
  <2>2. /\ ScanFrom(text, start)[i] = Knows(text, start, i)
        /\ ScanFrom(text, start)[i - 1] = Knows(text, start, i - 1)
    BY <2>1, ScanIs
  <2>3. ScanChar(Knows(text, start, i - 1), text[i]) = Knows(text, start, i)
    BY <1>1, <2>1, ScanStep
  <2>4. \A c : Cardinality(Braces(text, start, i, c)) \in Nat
    <3> SUFFICES ASSUME NEW c
                 PROVE  Cardinality(Braces(text, start, i, c)) \in Nat
      OBVIOUS
    <3>1. Cardinality(Braces(text, start, (i + 1) - 1, c)) \in Nat
      BY <1>1, <2>1, BracesStep
    <3>2. QED
      BY <2>1, <3>1
  <2>5. Knows(text, start, i) \in Scans
    <3> DEFINE o == Cardinality(Braces(text, start, i, LB))
               p == Cardinality(Braces(text, start, i, RB))
               str == InString(text, start, i + 1)
               esc == Escaped(text, start, i + 1)
    <3>1. o \in Nat /\ p \in Nat /\ str \in BOOLEAN /\ esc \in BOOLEAN
      BY <2>4 DEF InString, Escaped
    <3>2. Knows(text, start, i) = [depth |-> o - p, str |-> str, esc |-> esc]
      BY DEF Knows, LB, RB
    <3> HIDE DEF o, p, str, esc
    <3>3. QED
      BY <3>1, <3>2 DEF Scans
  <2>6. QED
    BY <2>2, <2>3, <2>5
<1>4. QED
  BY <1>2, <1>3

\* An object, or the beginning of one, that stands in a text from start on.
Within(doc, text, start) ==
  /\ text \in Seq(Chars) /\ doc \in Seq(Chars) /\ start \in 1 .. Len(text)
  /\ Len(doc) \in 1 .. Len(text) - start + 1
  /\ doc[1] = LB
  /\ \A k \in 1 .. Len(doc) : doc[k] = text[start - 1 + k]

\* Reader and scanner agree at every character of an object in a text.
LEMMA AgreeThroughout ==
  ASSUME NEW doc, NEW text, NEW start, Within(doc, text, start)
  PROVE  LET st(k)   == Reader(doc)[k]
             scan(k) == ScanFrom(text, start)[start - 1 + k]
         IN  /\ st(1).open # <<>>
             /\ \A k \in 1 .. Len(doc) : st(k) \in Readings /\ scan(k) \in Scans /\ Agree(st(k), scan(k))
             /\ \A k \in 1 .. Len(doc) - 1 :
                  /\ st(k + 1).ok => st(k).ok /\ st(k).open # <<>>
                  /\ st(k + 1).ok /\ st(k + 1).open = <<>>
                       => doc[k + 1] = RB /\ scan(k + 1).depth = scan(k).depth - 1
<1> DEFINE n == Len(doc)
           st(k) == Reader(doc)[k]
           scan(k) == ScanFrom(text, start)[start - 1 + k]
           was == [depth |-> 0, str |-> FALSE, esc |-> FALSE]
           Good == {m \in 0 .. n - 1 : Agree(st(m + 1), scan(m + 1))}
<1>1. /\ text \in Seq(Chars) /\ doc \in Seq(Chars) /\ start \in 1 .. Len(text)
      /\ n \in 1 .. Len(text) - start + 1
      /\ doc[1] = LB
      /\ \A k \in 1 .. n : doc[k] = text[start - 1 + k]
      /\ Len(text) \in Nat
  BY LenProperties DEF Within
<1>2. \A k \in 1 .. n : doc[k] \in Chars
  BY <1>1, ElementOfSeq
<1>3. /\ st(0) = Reading
      /\ \A k \in 0 .. n : st(k) \in Readings
      /\ \A k \in 1 .. n : st(k) = ReadChar(st(k - 1), doc[k])
  BY <1>1, ReaderIs
<1> HIDE DEF n
<1>4. /\ scan(0) = was
      /\ \A k \in 1 .. n : scan(k) \in Scans /\ scan(k) = ScanChar(scan(k - 1), doc[k])
  <2>1. start - 1 + 0 = start - 1
    BY <1>1
  <2>2. scan(0) = was
    BY <1>1, <2>1, ScanRuns
  <2>3. ASSUME NEW k \in 1 .. n
        PROVE  scan(k) \in Scans /\ scan(k) = ScanChar(scan(k - 1), doc[k])
    <3>1. /\ start - 1 + k \in start .. Len(text)
          /\ (start - 1 + k) - 1 = start - 1 + (k - 1)
      BY <1>1, <2>3
    <3> DEFINE i == start - 1 + k
    <3> HIDE DEF i
    <3>2. i \in start .. Len(text) /\ i - 1 = start - 1 + (k - 1) /\ doc[k] = text[i]
      BY <1>1, <2>3, <3>1 DEF i
    <3>3. ScanFrom(text, start)[i] \in Scans /\ ScanFrom(text, start)[i] = ScanChar(ScanFrom(text, start)[i - 1], text[i])
      BY <1>1, <3>2, ScanRuns
    <3>4. QED
      BY <3>2, <3>3 DEF i
  <2>4. QED
    BY <2>2, <2>3
<1> HIDE DEF st, scan
<1>5. Agree(st(1), scan(1)) /\ st(1).open # <<>>
  <2>1. 1 \in 1 .. n /\ 1 - 1 = 0
    BY <1>1
  <2>2. st(1) = ReadChar(Reading, LB) /\ scan(1) = ScanChar(was, LB)
    BY <1>1, <1>3, <1>4, <2>1
  <2>3. QED
    BY <2>2, AgreeFirst
<1>6. ASSUME NEW k \in 1 .. n - 1, Agree(st(k), scan(k))
      PROVE  /\ Agree(st(k + 1), scan(k + 1))
             /\ st(k + 1).ok => st(k).ok /\ st(k).open # <<>>
             /\ st(k + 1).ok /\ st(k + 1).open = <<>>
                  => doc[k + 1] = RB /\ scan(k + 1).depth = scan(k).depth - 1
  <2>1. k \in 0 .. n /\ k \in 1 .. n /\ k + 1 \in 1 .. n /\ (k + 1) - 1 = k
    BY <1>1, <1>6
  <2>2. st(k + 1) = ReadChar(st(k), doc[k + 1]) /\ scan(k + 1) = ScanChar(scan(k), doc[k + 1])
    BY <1>3, <1>4, <2>1
  <2>3. st(k) \in Readings /\ scan(k) \in Scans /\ doc[k + 1] \in Chars
    BY <1>2, <1>3, <1>4, <2>1
  <2>4. QED
    BY <1>6, <2>2, <2>3, AgreeStep
<1>7. 0 \in Good
  BY <1>1, <1>5
<1>8. ASSUME NEW m \in 0 .. n - 1, m # n - 1, m \in Good
      PROVE  m + 1 \in Good
  <2>1. m + 1 \in 1 .. n - 1 /\ m + 1 \in 0 .. n - 1
    BY <1>1, <1>8
  <2>2. Agree(st(m + 1), scan(m + 1))
    BY <1>8
  <2>3. Agree(st((m + 1) + 1), scan((m + 1) + 1))
    BY <1>6, <2>1, <2>2
  <2>4. QED
    BY <2>1, <2>3
<1>9. \A m \in 0 .. n - 1 : m \in Good
  <2>1. n - 1 \in Nat
    BY <1>1
  <2> DEFINE last == n - 1
  <2>2. last \in Nat /\ 0 \in Good /\ \A m \in 0 .. last : m # last /\ m \in Good => m + 1 \in Good
    BY <1>7, <1>8, <2>1
  <2> DEFINE G == Good
  <2> HIDE DEF last, G
  <2>3. 0 \in G /\ \A m \in 0 .. last : m # last /\ m \in G => m + 1 \in G
    BY <2>2 DEF G
  <2>4. \A m \in 0 .. last : m \in G
    BY <2>2, <2>3, Counting
  <2>5. QED
    BY <2>4 DEF last, G
<1>10. \A k \in 1 .. n : Agree(st(k), scan(k))
  <2>1. ASSUME NEW k \in 1 .. n
        PROVE  Agree(st(k), scan(k))
    <3>1. k - 1 \in 0 .. n - 1 /\ (k - 1) + 1 = k
      BY <1>1, <2>1
    <3>2. k - 1 \in Good
      BY <1>9, <3>1
    <3>3. QED
      BY <3>1, <3>2
  <2>2. QED
    BY <2>1
<1>11. /\ \A k \in 1 .. n : st(k) \in Readings /\ scan(k) \in Scans /\ Agree(st(k), scan(k))
       /\ \A k \in 1 .. n - 1 :
             /\ st(k + 1).ok => st(k).ok /\ st(k).open # <<>>
             /\ st(k + 1).ok /\ st(k + 1).open = <<>>
                  => doc[k + 1] = RB /\ scan(k + 1).depth = scan(k).depth - 1
  <2>1. \A k \in 1 .. n : k \in 0 .. n
    BY <1>1
  <2>2. \A k \in 1 .. n - 1 : k \in 1 .. n
    BY <1>1
  <2>3. QED
    BY <1>3, <1>4, <1>6, <1>10, <2>1, <2>2
<1>12. QED
  BY <1>5, <1>11 DEF st, scan, n

\* What the scanner sees of an object and of the beginning of one: the depth
\* stays above zero, except behind the last brace of a whole object.
LEMMA DepthThroughout ==
  ASSUME NEW doc, NEW text, NEW start, Within(doc, text, start), Read(doc).ok
  PROVE  LET depth(k) == ScanFrom(text, start)[start - 1 + k].depth
             n        == Len(doc)
         IN  /\ \A k \in 1 .. n - 1 : depth(k) # 0
             /\ Read(doc).open # <<>> => depth(n) # 0
             /\ Read(doc).open = <<>> =>
                  /\ n > 1 /\ doc[n] = RB /\ depth(n) = 0 /\ depth(n - 1) = 1
                  /\ ~Read(doc).str
<1> DEFINE n == Len(doc)
           st(k) == Reader(doc)[k]
           scan(k) == ScanFrom(text, start)[start - 1 + k]
           Good == {m \in 0 .. n - 1 : st(n - m).ok}
<1>1. n \in Nat \ {0}
  BY DEF Within
<1>2. Read(doc) = st(n)
  BY DEF Read
<1>3. /\ st(1).open # <<>>
      /\ \A k \in 1 .. n : st(k) \in Readings /\ scan(k) \in Scans /\ Agree(st(k), scan(k))
      /\ \A k \in 1 .. n - 1 :
           /\ st(k + 1).ok => st(k).ok /\ st(k).open # <<>>
           /\ st(k + 1).ok /\ st(k + 1).open = <<>>
                => doc[k + 1] = RB /\ scan(k + 1).depth = scan(k).depth - 1
  BY AgreeThroughout
<1> HIDE DEF n, st, scan
<1>4. 0 \in Good
  BY <1>1, <1>2
<1>5. ASSUME NEW m \in 0 .. n - 1, m # n - 1, m \in Good
      PROVE  m + 1 \in Good
  <2> DEFINE k == n - (m + 1)
  <2>1. k \in 1 .. n - 1 /\ k + 1 = n - m /\ m + 1 \in 0 .. n - 1
    BY <1>1, <1>5
  <2> HIDE DEF k
  <2>2. st(k + 1).ok
    BY <1>5, <2>1
  <2>3. st(k).ok
    BY <1>3, <2>1, <2>2
  <2>4. QED
    BY <2>1, <2>3 DEF k
<1>6. \A m \in 0 .. n - 1 : m \in Good
  <2> DEFINE last == n - 1
             G == Good
  <2>1. last \in Nat /\ 0 \in G /\ \A m \in 0 .. last : m # last /\ m \in G => m + 1 \in G
    BY <1>1, <1>4, <1>5
  <2> HIDE DEF last, G
  <2>2. \A m \in 0 .. last : m \in G
    BY <2>1, Counting
  <2>3. QED
    BY <2>2 DEF last, G
<1>7. ASSUME NEW k \in 1 .. n
      PROVE  st(k).ok
  <2>1. n - k \in 0 .. n - 1 /\ n - (n - k) = k
    BY <1>1, <1>7
  <2>2. n - k \in Good
    BY <1>6, <2>1
  <2>3. QED
    BY <2>1, <2>2
<1>8. ASSUME NEW k \in 1 .. n - 1
      PROVE  st(k).open # <<>> /\ st(k + 1).ok
  <2>1. k + 1 \in 1 .. n
    BY <1>1, <1>8
  <2>2. QED
    BY <1>3, <1>7, <1>8, <2>1
<1>9. ASSUME NEW k \in 1 .. n, st(k).open # <<>>
      PROVE  scan(k).depth # 0
  <2>1. /\ scan(k).depth = Objects(st(k).open)
        /\ st(k).open \in Seq(Closers)
        /\ st(k).open[Len(st(k).open)] = RB
    BY <1>3, <1>7, <1>9 DEF Agree, Readings
  <2>2. Objects(st(k).open) >= 1 /\ Objects(st(k).open) \in Nat
    <3>1. RB \in Closers
      BY DEF Closers
    <3>2. QED
      BY <1>9, <2>1, <3>1, SomeObject, Pushed
  <2>3. QED
    BY <2>1, <2>2
<1>10. \A k \in 1 .. n - 1 : scan(k).depth # 0
  <2>1. \A k \in 1 .. n - 1 : k \in 1 .. n
    BY <1>1
  <2>2. QED
    BY <1>8, <1>9, <2>1
<1>11. Read(doc).open # <<>> => scan(n).depth # 0
  BY <1>1, <1>2, <1>9
<1>12. ASSUME Read(doc).open = <<>>
       PROVE  /\ n > 1 /\ doc[n] = RB /\ scan(n).depth = 0 /\ scan(n - 1).depth = 1
              /\ ~Read(doc).str
  <2>1. n > 1
    BY <1>1, <1>2, <1>3, <1>12
  <2>2. n \in 1 .. n /\ n - 1 \in 1 .. n - 1 /\ (n - 1) + 1 = n /\ n - 1 \in 1 .. n
    BY <1>1, <2>1
  <2>3. scan(n).depth = Objects(<<>>) /\ ~Read(doc).str
    BY <1>2, <1>3, <1>7, <1>12, <2>2 DEF Agree
  <2>4. doc[n] = RB /\ scan(n).depth = scan(n - 1).depth - 1
    BY <1>2, <1>3, <1>7, <1>12, <2>2
  <2>5. scan(n - 1).depth \in Int
    BY <1>3, <2>2 DEF Scans
  <2>6. scan(n).depth = 0 /\ scan(n - 1).depth = 1
    BY <2>3, <2>4, <2>5, NoObject
  <2>7. QED
    BY <2>1, <2>3, <2>4, <2>6
<1>13. QED
  BY <1>10, <1>11, <1>12 DEF scan, n

-----------------------------------------------------------------------------
(***************************************************************************)
(* What is made of a reply.                                                *)
(***************************************************************************)
LEMMA HeadIs ==
  ASSUME NEW text \in Seq(Chars), text # <<>>
  PROVE  Head(text) = text[1] /\ Len(text) \in Nat \ {0}
<1>1. Len(text) \in Nat \ {0} /\ 1 \in 1 .. Len(text) /\ Len(text) \in 1 .. Len(text)
  BY EmptySeq
<1>2. SubSeq(text, 1, Len(text)) = text
  BY SubSeqFull
<1>3. Head(SubSeq(text, 1, Len(text))) = text[1]
  BY <1>1, HeadTailOfSubSeq
<1>4. QED
  BY <1>1, <1>2, <1>3

\* With one candidate, that one decides; of two, the first if it is an object.
LEMMA OneCandidate ==
  ASSUME NEW text, Candidates(text) = <<text>>, ~IsJson(text)
  PROVE  ExtractJsonObject(text) = IF IsJson(OutermostObject(text)) THEN OutermostObject(text) ELSE Nothing
<1> DEFINE c == Candidates(text)
           settled == {k \in DOMAIN c : Settles(c[k])}
<1>1. ExtractJsonObject(text) = IF settled = {} THEN Nothing ELSE ObjectIn(c[Min(settled)])
  BY DEF ExtractJsonObject
<1>2. DOMAIN c = {1} /\ c[1] = text
  BY DEF c
<1>3. Settles(text) <=> IsJson(OutermostObject(text))
  BY DEF Settles
<1>4. ObjectIn(text) = OutermostObject(text)
  BY DEF ObjectIn
<1>5. CASE IsJson(OutermostObject(text))
  <2>1. settled = {1}
    BY <1>2, <1>3, <1>5
  <2>2. Min({1}) = 1
    BY MinEqual
  <2> HIDE DEF settled, c
  <2>3. QED
    BY <1>1, <1>2, <1>4, <1>5, <2>1, <2>2
<1>6. CASE ~IsJson(OutermostObject(text))
  <2>1. settled = {}
    BY <1>2, <1>3, <1>6
  <2>2. QED
    BY <1>1, <1>6, <2>1
<1>7. QED
  BY <1>5, <1>6

\* An object that is the first of two candidates is returned.
LEMMA FirstCandidate ==
  ASSUME NEW text, NEW doc, Candidates(text) = <<doc, text>>, IsObject(doc)
  PROVE  ExtractJsonObject(text) = doc
<1> DEFINE c == Candidates(text)
           settled == {k \in DOMAIN c : Settles(c[k])}
<1>1. ExtractJsonObject(text) = IF settled = {} THEN Nothing ELSE ObjectIn(c[Min(settled)])
  BY DEF ExtractJsonObject
<1>2. DOMAIN c = {1, 2} /\ c[1] = doc
  BY DEF c
<1>3. Settles(doc) /\ ObjectIn(doc) = doc
  BY DEF IsObject, Settles, ObjectIn
<1> HIDE DEF c
<1>4. 1 \in settled /\ settled \subseteq {1, 2}
  BY <1>2, <1>3
<1>5. Min(settled) = 1
  <2> HIDE DEF settled
  <2>1. settled \in SUBSET Nat /\ \A m \in settled : 1 <= m
    BY <1>4
  <2>2. QED
    BY <1>4, <2>1, MinEqual
<1> HIDE DEF settled
<1>6. QED
  BY <1>1, <1>2, <1>3, <1>4, <1>5

\* Without a fence there is one candidate.
LEMMA WithoutFence ==
  ASSUME NEW text, Positions(text, "f") = {}
  PROVE  Candidates(text) = <<text>>
<1>1. FenceEnds(text) = {}
  BY DEF FenceEnds
<1>2. QED
  BY <1>1 DEF Candidates

\* Where the scanner ends, if it starts at a given brace.
Ends(text, start) ==
  {i \in Positions(text, RB) :
     /\ i > start
     /\ ScanFrom(text, start)[i].depth = 0
     /\ ScanFrom(text, start)[i - 1].depth = 1}

\* Where the first brace is known, the scanner starts there.
LEMMA OutermostFrom ==
  ASSUME NEW text \in Seq(Chars), NEW start \in 1 .. Len(text), text[start] = LB,
         \A k \in 1 .. start - 1 : text[k] # LB
  PROVE  OutermostObject(text) =
           IF Ends(text, start) = {} THEN Nothing ELSE SubSeq(text, start, Min(Ends(text, start)))
<1> DEFINE P == Positions(text, LB)
<1>1. P \in SUBSET Nat /\ start \in P /\ Len(text) \in Nat
  BY PositionsIs DEF Positions
<1>2. ASSUME NEW m \in P
      PROVE  start <= m
  <2>1. m \in 1 .. Len(text) /\ text[m] = LB
    BY DEF Positions
  <2>2. m \in 1 .. start - 1 \/ start <= m
    BY <1>1, <2>1
  <2>3. QED
    BY <2>1, <2>2
<1>3. Min(P) = start
  <2> HIDE DEF P
  <2>1. QED
    BY <1>1, <1>2, MinEqual
<1>4. FirstBrace(text) = start
  BY <1>3 DEF FirstBrace, LB
<1>5. Positions(text, "{") # {}
  BY <1>1 DEF LB
<1>6. QED
  BY <1>4, <1>5 DEF OutermostObject, Ends, RB

\* The beginning of an object comes to nothing.
LEMMA CutIsRejected ==
  ASSUME NEW text \in Seq(Chars), Positions(text, "f") = {}, IsCutObject(text)
  PROVE  ExtractJsonObject(text) = Nothing
<1> DEFINE n == Len(text)
<1>1. text # <<>> /\ Read(text).ok /\ (Read(text).open # <<>> \/ Read(text).str)
  BY DEF IsCutObject
<1>2. text[1] = LB /\ n \in Nat \ {0}
  <2>1. Head(text) = LB
    BY DEF IsCutObject, LB
  <2>2. QED
    BY <1>1, <2>1, HeadIs
<1>3. ~IsJson(text)
  BY <1>1 DEF IsJson
<1>4. Within(text, text, 1)
  <2>1. 1 \in 1 .. n /\ n \in 1 .. n - 1 + 1 /\ \A k \in 1 .. n : 1 - 1 + k = k
    BY <1>2
  <2>2. QED
    BY <1>2, <2>1 DEF Within
<1>5. /\ \A k \in 1 .. n - 1 : ScanFrom(text, 1)[1 - 1 + k].depth # 0
      /\ Read(text).open # <<>> => ScanFrom(text, 1)[1 - 1 + n].depth # 0
      /\ Read(text).open = <<>> => ~Read(text).str
  BY <1>1, <1>4, DepthThroughout
<1>6. \A k \in 1 .. n : ScanFrom(text, 1)[k].depth # 0
  <2>1. \A k \in 1 .. n : 1 - 1 + k = k /\ (k = n \/ k \in 1 .. n - 1)
    BY <1>2
  <2> HIDE DEF n
  <2>2. 1 - 1 + n = n
    BY <1>2
  <2>3. QED
    BY <1>1, <1>5, <2>1, <2>2
<1>7. Ends(text, 1) = {}
  BY <1>6 DEF Ends, Positions
<1>8. 1 \in 1 .. n /\ \A k \in 1 .. 1 - 1 : text[k] # LB
  BY <1>2
<1>9. OutermostObject(text) = Nothing
  BY <1>2, <1>7, <1>8, OutermostFrom
<1>10. QED
  BY <1>3, <1>9, OneCandidate, WithoutFence

\* An object that is a part of a text stands in it.
LEMMA PartWithin ==
  ASSUME NEW text \in Seq(Chars), NEW i \in 1 .. Len(text), NEW j \in 1 .. Len(text), i <= j,
         IsObject(SubSeq(text, i, j))
  PROVE  LET doc == SubSeq(text, i, j)
         IN  Within(doc, text, i) /\ Len(doc) = j - i + 1 /\ text[i] = LB
<1> DEFINE doc == SubSeq(text, i, j)
<1>1. Len(text) \in Nat /\ i \in Int /\ j \in Int /\ j <= Len(text)
  BY LenProperties
<1>2. \A k \in i .. j : text[k] \in Chars
  <2>1. \A k \in i .. j : k \in 1 .. Len(text)
    BY <1>1
  <2>2. QED
    BY <2>1, ElementOfSeq
<1>3. doc \in Seq(Chars) /\ Len(doc) = j - i + 1 /\ \A k \in 1 .. j - i + 1 : doc[k] = text[i + k - 1]
  BY <1>1, <1>2, SubSeqProperties
<1>4. Head(doc) = LB
  BY DEF IsObject, LB
<1> HIDE DEF doc
<1>5. Len(doc) \in 1 .. Len(text) - i + 1
  BY <1>1, <1>3
<1>6. doc[1] = LB
  <2>1. doc # <<>>
    BY <1>5, EmptySeq
  <2>2. QED
    BY <1>3, <1>4, <2>1, HeadIs
<1>7. \A k \in 1 .. Len(doc) : doc[k] = text[i - 1 + k]
  <2>1. \A k \in 1 .. j - i + 1 : i + k - 1 = i - 1 + k
    BY <1>1
  <2>2. QED
    BY <1>3, <2>1
<1>8. text[i] = LB
  <2>1. 1 \in 1 .. Len(doc) /\ i - 1 + 1 = i
    BY <1>1, <1>5
  <2>2. QED
    BY <1>6, <1>7, <2>1
<1>9. QED
  BY <1>3, <1>5, <1>6, <1>7, <1>8 DEF Within, doc

\* The object behind a preamble and before a trailing commentary.
LEMMA AmongProse ==
  ASSUME NEW text \in Seq(Chars), NEW i \in 1 .. Len(text), NEW j \in 1 .. Len(text), i <= j,
         IsObject(SubSeq(text, i, j)), Positions(text, "f") = {},
         \A k \in 1 .. i - 1 : text[k] # LB, ~IsJson(text)
  PROVE  ExtractJsonObject(text) = SubSeq(text, i, j)
<1> DEFINE doc == SubSeq(text, i, j)
           n == Len(doc)
           depth(k) == ScanFrom(text, i)[k].depth
<1>1. Within(doc, text, i) /\ n = j - i + 1 /\ text[i] = LB
  BY PartWithin
<1>2. Read(doc).ok /\ Read(doc).open = <<>> /\ IsJson(doc)
  BY DEF IsObject, IsJson
<1>3. /\ \A k \in 1 .. n - 1 : depth(i - 1 + k) # 0
      /\ n > 1 /\ doc[n] = RB /\ depth(i - 1 + n) = 0 /\ depth(i - 1 + (n - 1)) = 1
  BY <1>1, <1>2, DepthThroughout
<1>4. doc[n] = text[i - 1 + n]
  <2>1. n \in 1 .. n
    BY <1>1
  <2>2. QED
    BY <1>1, <2>1 DEF Within
<1> HIDE DEF doc, n, depth
<1>5. i \in Nat /\ j \in Nat /\ Len(text) \in Nat
  BY LenProperties
<1>6. i < j /\ i - 1 + n = j /\ i - 1 + (n - 1) = j - 1
  BY <1>1, <1>3, <1>5
<1>7. text[j] = RB /\ depth(j) = 0 /\ depth(j - 1) = 1
  BY <1>3, <1>4, <1>6
<1>8. j \in Ends(text, i)
  BY <1>6, <1>7 DEF Ends, Positions, depth
<1>9. ASSUME NEW m \in Ends(text, i)
      PROVE  j <= m
  <2>1. m \in Nat /\ m > i /\ depth(m) = 0
    BY <1>5 DEF Ends, Positions, depth
  <2>2. ASSUME ~(j <= m)
        PROVE  FALSE
    <3>1. m - i + 1 \in 1 .. n - 1 /\ i - 1 + (m - i + 1) = m
      BY <1>1, <1>5, <2>1, <2>2
    <3>2. QED
      BY <1>3, <2>1, <3>1
  <2>3. QED
    BY <2>2
<1>10. Min(Ends(text, i)) = j
  <2>1. Ends(text, i) \in SUBSET Nat
    BY <1>5 DEF Ends, Positions
  <2>2. QED
    BY <1>8, <1>9, <2>1, MinEqual
<1>11. OutermostObject(text) = doc
  BY <1>1, <1>8, <1>10, OutermostFrom DEF doc
<1>12. QED
  BY <1>2, <1>11, OneCandidate, WithoutFence DEF doc

\* The object between two fences.
LEMMA BetweenFences ==
  ASSUME NEW text \in Seq(Chars), NEW i \in 1 .. Len(text), NEW j \in 1 .. Len(text), i <= j,
         IsObject(SubSeq(text, i, j)), Positions(text, "f") = {i - 1, j + 1}
  PROVE  ExtractJsonObject(text) = SubSeq(text, i, j)
<1> DEFINE F == Positions(text, "f")
<1>1. i \in Nat /\ j \in Nat /\ F \in SUBSET Nat
  BY PositionsIs
<1>2. F = {i - 1, j + 1} /\ FenceEnds(text) = {k \in F : Min(F) + 2 <= k}
  BY DEF FenceEnds
<1>3. Fenced(text) = SubSeq(text, Min(F) + 1, Min(FenceEnds(text)) - 1)
  BY DEF Fenced
<1> HIDE DEF F
<1>4. Min(F) = i - 1
  <2>1. i - 1 \in F /\ \A m \in F : i - 1 <= m
    BY <1>1, <1>2
  <2>2. QED
    BY <1>1, <2>1, MinEqual
<1>5. FenceEnds(text) = {j + 1}
  BY <1>1, <1>2, <1>4
<1>6. Min({j + 1}) = j + 1
  <2>1. {j + 1} \in SUBSET Nat /\ j + 1 \in {j + 1} /\ \A m \in {j + 1} : j + 1 <= m
    BY <1>1
  <2>2. QED
    BY <2>1, MinEqual
<1>7. (i - 1) + 1 = i /\ (j + 1) - 1 = j
  BY <1>1
<1>8. Fenced(text) = SubSeq(text, i, j)
  BY <1>3, <1>4, <1>5, <1>6, <1>7
<1>9. Candidates(text) = <<SubSeq(text, i, j), text>>
  BY <1>5, <1>8 DEF Candidates
<1>10. QED
  BY <1>9, FirstCandidate

-----------------------------------------------------------------------------
(***************************************************************************)
(* One call.                                                               *)
(***************************************************************************)

\* Before the provider has answered anything the only request is the first one,
\* and each time it was sent has cost one timeout.
Unanswered ==
  ~answered =>
    /\ pc \in {"ask", "failed"}
    /\ pc = "ask" => spent = tries
    /\ pc = "failed" => spent <= MaxRetries + 1

\* A reply is parsed as it came.
Parsing == pc = "parse" => raw \in Replies /\ found = ExtractJsonObject(raw)

AnsweredIsFree == answered => spent = 0

IInv == TypeOK /\ Unanswered /\ AnsweredIsFree /\ Parsing

\* There is at least one attempt.
LEMMA AttemptsIs == Attempts \in Nat \ {0}
<1> DEFINE T == {1, JsonRetries + 1}
<1>1. T \in SUBSET Int
  BY ClientAssumption
<1>2. \E n \in T : \A m \in T : n >= m
  <2>1. CASE JsonRetries + 1 >= 1
    BY <2>1, ClientAssumption
  <2>2. CASE ~(JsonRetries + 1 >= 1)
    BY <2>2, ClientAssumption
  <2>3. QED
    BY <2>1, <2>2
<1>3. Max(T) \in T /\ \A m \in T : Max(T) >= m
  BY <1>2 DEF Max
<1>4. Max(T) \in Int /\ Max(T) >= 1
  BY <1>1, <1>3
<1>5. QED
  BY <1>4 DEF Attempts

\* The invariant holds at first.
LEMMA InitIInv == Init => IInv
<1>1. Nothing \in Seq(Chars)
  BY EmptySeq DEF Nothing
<1>2. 0 \in 0 .. MaxRetries /\ 0 \in 0 .. Attempts * 2 * (MaxRetries + 1) /\ 1 \in 1 .. Attempts
  <2>1. Attempts * 2 * (MaxRetries + 1) \in Nat
    BY AttemptsIs, ClientAssumption
  <2>2. QED
    BY <2>1, AttemptsIs, ClientAssumption
<1>3. QED
  BY <1>1, <1>2 DEF Init, IInv, TypeOK, Unanswered, AnsweredIsFree, Parsing

\* What may be asked and what may be given up next is well typed.
CallTypes ==
  /\ pc \in {"ask", "parse", "done", "failed"}
  /\ attempt \in 1 .. Attempts /\ plain \in BOOLEAN /\ tries \in 0 .. MaxRetries
  /\ raw \in Seq(Chars) /\ found \in Seq(Chars)

\* Asking and giving up keep the types.
LEMMA CallStep ==
  ASSUME CallTypes,
         \/ \E n \in 1 .. Attempts, mode \in BOOLEAN : Ask(n, mode)
         \/ Fail
  PROVE  CallTypes'
<1>1. Nothing \in Seq(Chars)
  BY EmptySeq DEF Nothing
<1>2. 0 \in 0 .. MaxRetries
  BY ClientAssumption
<1>3. QED
  BY <1>1, <1>2 DEF CallTypes, Ask, Fail

\* An error ends the call, or one that names JSON mode falls back.
LEMMA RaiseStep ==
  ASSUME CallTypes, NEW named \in BOOLEAN, Raise(named)
  PROVE  CallTypes' /\ (pc' = "failed" \/ (named /\ pc' = "ask"))
<1>1. CASE ~plain /\ named /\ Ask(attempt, TRUE)
  BY <1>1, CallStep DEF CallTypes, Ask
<1>2. CASE Fail
  BY <1>2, CallStep DEF Fail
<1>3. QED
  BY <1>1, <1>2 DEF Raise

\* A failed request is sent again, or it was the last.
LEMMA RetryStep ==
  ASSUME CallTypes, pc = "ask", NEW named \in BOOLEAN, SdkRetry(named)
  PROVE  /\ CallTypes'
         /\ \/ pc' = "ask" /\ tries < MaxRetries /\ tries' = tries + 1
            \/ tries = MaxRetries /\ (pc' = "failed" \/ (named /\ pc' = "ask"))
<1>1. CASE tries < MaxRetries /\ tries' = tries + 1 /\ UNCHANGED <<pc, attempt, plain, raw, found>>
  <2>1. tries + 1 \in 0 .. MaxRetries
    BY <1>1, ClientAssumption DEF CallTypes
  <2>2. QED
    BY <1>1, <2>1 DEF CallTypes
<1>2. CASE tries = MaxRetries /\ Raise(named)
  BY <1>2, RaiseStep
<1>3. QED
  BY <1>1, <1>2 DEF SdkRetry

\* Spent is small enough for its type.
LEMMA SpentIs ==
  ASSUME NEW n \in Nat, n <= MaxRetries + 1
  PROVE  n \in 0 .. Attempts * 2 * (MaxRetries + 1)
<1> DEFINE m == MaxRetries + 1
<1>1. m \in Nat \ {0} /\ Attempts \in Nat \ {0}
  BY ClientAssumption, AttemptsIs
<1> HIDE DEF m
<1>2. Attempts * 2 * m \in Nat /\ m <= Attempts * 2 * m
  <2>1. Attempts * 2 * m = (Attempts * 2 - 1) * m + m
    BY <1>1
  <2>2. (Attempts * 2 - 1) * m \in Nat
    BY <1>1
  <2>3. QED
    BY <1>1, <2>1, <2>2
<1> DEFINE x == Attempts * 2 * m
<1>3. x \in Nat /\ m <= x /\ n <= m
  BY <1>2 DEF m
<1>4. x = Attempts * 2 * (MaxRetries + 1)
  BY DEF m
<1> HIDE DEF x
<1>5. n \in 0 .. x
  BY <1>1, <1>3
<1>6. QED
  BY <1>4, <1>5

\* Every step keeps the invariant.
LEMMA NextIInv == IInv /\ [Next]_vars => IInv'
<1> SUFFICES ASSUME IInv, [Next]_vars
             PROVE  IInv'
  OBVIOUS
<1>1. CallTypes /\ spent \in Nat /\ tries \in Nat /\ tries <= MaxRetries /\ MaxRetries \in Nat
  <2>1. Attempts * 2 * (MaxRetries + 1) \in Nat
    BY AttemptsIs, ClientAssumption
  <2>2. QED
    BY <2>1, ClientAssumption DEF IInv, TypeOK, CallTypes
<1>2. TypeOK' <=> CallTypes' /\ answered' \in BOOLEAN
                  /\ spent' \in 0 .. Attempts * 2 * (MaxRetries + 1)
  BY DEF TypeOK, CallTypes
<1>3. CASE Hang
  <2>1. pc = "ask" /\ CallTypes' /\ answered' = answered
        /\ (\/ pc' = "ask" /\ tries < MaxRetries /\ tries' = tries + 1
            \/ tries = MaxRetries /\ pc' = "failed")
    BY <1>1, <1>3, RetryStep DEF Hang
  <2>2. CASE answered
    <3>1. spent' = 0
      BY <1>3, <2>2 DEF Hang
    <3>2. spent' \in 0 .. Attempts * 2 * (MaxRetries + 1)
      BY <1>1, <3>1, SpentIs
    <3>3. QED
      BY <1>2, <2>1, <2>2, <3>1, <3>2 DEF IInv, Unanswered, AnsweredIsFree, Parsing, TypeOK
  <2>3. CASE ~answered
    <3>1. spent' = spent + 1 /\ spent = tries
      BY <1>3, <2>1, <2>3 DEF Hang, IInv, Unanswered
    <3>2. spent' \in Nat /\ spent' <= MaxRetries + 1
      BY <1>1, <3>1
    <3>3. spent' \in 0 .. Attempts * 2 * (MaxRetries + 1)
      BY <3>2, SpentIs
    <3>4. QED
      BY <1>1, <1>2, <2>1, <2>3, <3>1, <3>2, <3>3 DEF IInv, Unanswered, AnsweredIsFree, Parsing, TypeOK
  <2>4. QED
    BY <2>2, <2>3
<1>4. ASSUME answered', spent' = 0, CallTypes', Parsing', answered' \in BOOLEAN
      PROVE  IInv'
  <2>1. spent' \in 0 .. Attempts * 2 * (MaxRetries + 1)
    BY <1>1, <1>4, SpentIs
  <2>2. QED
    BY <1>2, <1>4, <2>1 DEF IInv, Unanswered, AnsweredIsFree
<1>5. CASE \E named \in BOOLEAN : Refuse(named)
  <2>1. PICK named \in BOOLEAN : Refuse(named)
    BY <1>5
  <2>2. CallTypes' /\ pc' # "parse"
    BY <1>1, <2>1, RetryStep, RaiseStep DEF Refuse
  <2>3. answered' = TRUE /\ spent' = 0
    BY <2>1 DEF Refuse, Answered
  <2>4. QED
    BY <1>4, <2>2, <2>3 DEF Parsing
<1>6. CASE \E text \in Replies : Reply(text)
  <2>1. PICK text \in Replies : Reply(text)
    BY <1>6
  <2>2. text \in Seq(Chars) /\ ExtractJsonObject(text) \in Seq(Chars)
    BY ClientAssumption, FoundIs
  <2>3. answered' = TRUE /\ spent' = 0
    BY <2>1 DEF Reply, Answered
  <2>4. CallTypes' /\ Parsing'
    BY <1>1, <2>1, <2>2 DEF Reply, CallTypes, Parsing
  <2>5. QED
    BY <1>4, <2>3, <2>4
<1>7. CASE Accept \/ Reject
  <2>1. pc = "parse" /\ answered = TRUE /\ spent = 0 /\ answered' = answered /\ spent' = spent
    BY <1>7 DEF Accept, Reject, IInv, Unanswered, AnsweredIsFree, TypeOK
  <2>2. CallTypes' /\ pc' # "parse"
    <3>1. CASE Accept
      <4>1. Nothing \in Seq(Chars)
        BY EmptySeq DEF Nothing
      <4>2. QED
        BY <1>1, <3>1, <4>1 DEF Accept, CallTypes
    <3>2. CASE Reject
      <4>1. attempt < Attempts => attempt + 1 \in 1 .. Attempts
        BY <1>1, AttemptsIs DEF CallTypes
      <4>2. QED
        BY <1>1, <3>2, <4>1, CallStep DEF Reject, Ask, Fail
    <3>3. QED
      BY <1>7, <3>1, <3>2
  <2>3. QED
    BY <1>4, <2>1, <2>2 DEF Parsing
<1>8. CASE UNCHANGED vars
  BY <1>8 DEF vars, IInv, TypeOK, Unanswered, AnsweredIsFree, Parsing
<1>9. QED
  BY <1>3, <1>5, <1>6, <1>7, <1>8 DEF Next

-----------------------------------------------------------------------------
\* Every reachable state is well typed: in particular no call asks more often
\* than it may.
THEOREM TypeCorrect == Spec => []TypeOK
<1>1. Spec => []IInv
  BY InitIInv, NextIInv, PTL DEF Spec
<1>2. IInv => TypeOK
  BY DEF IInv
<1>3. QED
  BY <1>1, <1>2, PTL

\* Before the first answer every timeout that passed is one sending of the first
\* request, and a reply is parsed as it came.
THEOREM Invariance == Spec => []IInv
<1>1. QED
  BY InitIInv, NextIInv, PTL DEF Spec

\* Whatever number of retries is configured, as long as their timeouts fit into a
\* job: the waits for a provider that never answers end before the job does.
THEOREM HangsSurface == Spec => []HangingSurfaces
<1>1. IInv => HangingSurfaces
  <2> SUFFICES ASSUME IInv, ~answered
               PROVE  Phases * spent < JobTimeout
    BY DEF HangingSurfaces
  <2>1. spent \in Int /\ spent <= MaxRetries + 1
    <3>1. Attempts * 2 * (MaxRetries + 1) \in Nat
      BY AttemptsIs, ClientAssumption
    <3>2. QED
      BY <3>1, ClientAssumption DEF IInv, TypeOK, Unanswered
  <2>2. QED
    BY <2>1, ClientAssumption DEF Phases
<1>2. QED
  BY <1>1, Invariance, PTL

\* Whatever the reply, the brace counter finds the first object balanced outside
\* of strings.
THEOREM ScannerIsExact == Spec => []ScannerFindsFirst
<1>1. IInv => ScannerFindsFirst
  BY ClientAssumption, ScannerIsRight DEF IInv, Parsing, ScannerFindsFirst
<1>2. QED
  BY <1>1, Invariance, PTL

\* Whatever the reply, the object among prose or between two fences is what is
\* found, entire.
THEOREM ProseFallsOff == Spec => []ProseIsStripped
<1>1. IInv => ProseIsStripped
  <2> SUFFICES ASSUME IInv, pc = "parse",
                      NEW i \in 1 .. Len(raw), NEW j \in 1 .. Len(raw),
                      i <= j, IsObject(SubSeq(raw, i, j)), Stands(i, j)
               PROVE  found = SubSeq(raw, i, j)
    BY DEF ProseIsStripped
  <2>1. raw \in Seq(Chars) /\ found = ExtractJsonObject(raw)
    BY ClientAssumption DEF IInv, Parsing
  <2>2. CASE NoFence /\ (\A k \in 1 .. i - 1 : raw[k] # "{") /\ ~IsJson(raw)
    BY <2>1, <2>2, AmongProse DEF NoFence, LB
  <2>3. CASE Positions(raw, "f") = {i - 1, j + 1}
    BY <2>1, <2>3, BetweenFences
  <2>4. QED
    BY <2>2, <2>3 DEF Stands
<1>2. QED
  BY <1>1, Invariance, PTL

\* Whatever the reply, if it is the beginning of an object and has no fence it is
\* refused, with all the whole objects in it.
THEOREM CutIsRefused == Spec => []CutNeverAccepted
<1>1. IInv => CutNeverAccepted
  BY ClientAssumption, CutIsRejected DEF IInv, Parsing, CutNeverAccepted, NoFence
<1>2. QED
  BY <1>1, Invariance, PTL

=============================================================================
