---------------------------- MODULE ReadsProofs -----------------------------
(***************************************************************************)
(* Proofs about PatternReads.                                              *)
(***************************************************************************)
EXTENDS PatternReads, FiniteSetTheorems, FunctionTheorems, SequenceTheorems, TLAPS

-----------------------------------------------------------------------------
(***************************************************************************)
(* The loops of the code are functions on the numbers of steps.  What they *)
(* come to is proved by least counterexample.                              *)
(***************************************************************************)

\* Every set of numbers that is not empty has a least one.
LEMMA Least ==
  ASSUME NEW T \in SUBSET Nat, T # {}
  PROVE  \E n \in T : \A m \in T : n <= m
<1> DEFINE R == OpToRel(<, Nat)
<1>1. IsWellFoundedOn(R, Nat)
  BY NatLessThanWellFounded
<1>2. \A x, y \in Nat : <<x, y>> \in R <=> x < y
  BY DEF OpToRel
<1> HIDE DEF R
<1>3. PICK n \in T : \A m \in T : ~(<<m, n>> \in R)
  BY <1>1, WFMin
<1>4. n \in Nat /\ \A m \in T : m \in Nat
  OBVIOUS
<1>5. \A m \in T : ~(m < n)
  BY <1>2, <1>3, <1>4
<1>6. \A m \in T : n <= m
  BY <1>4, <1>5
<1>7. QED
  BY <1>6

\* Induction: a set of numbers that has 0, and with a number the next one up to
\* n, has all of them up to n.
LEMMA Counting ==
  ASSUME NEW n \in Nat, NEW Good, 0 \in Good,
         \A i \in 0 .. n : i # n /\ i \in Good => i + 1 \in Good
  PROVE  \A i \in 0 .. n : i \in Good
<1> DEFINE Bad == {i \in 0 .. n : i \notin Good}
<1>1. SUFFICES ASSUME Bad # {}
               PROVE  FALSE
  OBVIOUS
<1>2. Bad \in SUBSET Nat
  OBVIOUS
<1>3. PICK i \in Bad : \A j \in Bad : i <= j
  <2> HIDE DEF Bad
  <2>1. QED
    BY <1>1, <1>2, Least
<1>4. i \in 1 .. n
  BY <1>3
<1>5. i - 1 \in 0 .. n /\ i - 1 # n /\ i - 1 \notin Bad
  BY <1>3, <1>4
<1>6. (i - 1) + 1 \in Good
  BY <1>5
<1>7. QED
  BY <1>3, <1>4, <1>6

\* The recursive function of a loop of n rounds.
IsLoop(loop, n, first, round) ==
  loop[0] = first /\ \A i \in 1 .. n : loop[i] = round[i][loop[i - 1]]

\* A loop over values of V is defined: such a function exists.
LEMMA Looping ==
  ASSUME NEW n \in Nat, NEW V, NEW first \in V, NEW round \in [1 .. n -> [V -> V]]
  PROVE  \E loop \in [0 .. n -> V] : IsLoop(loop, n, first, round)
<1> DEFINE Loops(c, m) == c \in [0 .. m -> V] /\ IsLoop(c, m, first, round)
           Good == {m \in 0 .. n : \E c : Loops(c, m)}
<1>1. 0 \in Good
  <2> DEFINE c == [i \in 0 .. 0 |-> first]
  <2>1. Loops(c, 0)
    BY DEF IsLoop
  <2> HIDE DEF c, Loops
  <2>2. QED
    BY <2>1
<1>2. ASSUME NEW m \in 0 .. n, m # n, m \in Good
      PROVE  m + 1 \in Good
  <2>1. PICK c : Loops(c, m)
    BY <1>2
  <2>2. m + 1 \in 1 .. n /\ m \in Nat
    BY <1>2
  <2> DEFINE d == [i \in 0 .. m + 1 |-> IF i = m + 1 THEN round[m + 1][c[m]] ELSE c[i]]
  <2>3. d \in [0 .. m + 1 -> V]
    BY <2>1, <2>2
  <2>4. d[0] = first
    BY <2>1, <2>2 DEF IsLoop
  <2>5. ASSUME NEW i \in 1 .. m + 1
        PROVE  d[i] = round[i][d[i - 1]]
    <3>1. d[i - 1] = c[i - 1]
      BY <2>2
    <3>2. i # m + 1 => d[i] = c[i] /\ i \in 1 .. m
      BY <2>2
    <3>3. d[m + 1] = round[m + 1][c[m]] /\ (m + 1) - 1 = m
      BY <2>2
    <3> HIDE DEF d
    <3>4. QED
      BY <2>1, <3>1, <3>2, <3>3 DEF IsLoop
  <2>6. Loops(d, m + 1)
    <3> HIDE DEF d
    <3>1. QED
      BY <2>3, <2>4, <2>5 DEF IsLoop
  <2> HIDE DEF d, Loops
  <2>7. QED
    BY <2>2, <2>6
<1>3. n \in Good
  <2> HIDE DEF Good
  <2>1. \A m \in 0 .. n : m # n /\ m \in Good => m + 1 \in Good
    BY <1>2
  <2>2. \A m \in 0 .. n : m \in Good
    BY <1>1, <2>1, Counting
  <2>3. QED
    BY <2>2
<1>4. QED
  BY <1>3

-----------------------------------------------------------------------------
(***************************************************************************)
(* What a reply comes to.                                                  *)
(***************************************************************************)

\* The loop of normalize_findings leaves out what is malformed and nothing else.
LEMMA WellFormedKeeps ==
  ASSUME NEW S, NEW items \in Seq(S)
  PROVE  /\ WellFormed(items) \in Seq(S)
         /\ \A x \in S : (\E i \in 1 .. Len(WellFormed(items)) : WellFormed(items)[i] = x)
                         <=> (\E i \in 1 .. Len(items) : items[i] = x /\ Usable(x))
<1> DEFINE n == Len(items)
           Step(c, i) == IF Usable(items[i]) THEN Append(c, items[i]) ELSE c
           round == [i \in 1 .. n |-> [c \in Seq(S) |-> Step(c, i)]]
           Loop(c) == [i \in 0 .. n |-> IF i = 0 THEN << >> ELSE Step(c[i - 1], i)]
<1>1. n \in Nat /\ \A i \in 1 .. n : items[i] \in S
  BY LenProperties, ElementOfSeq
<1> HIDE DEF n
<1>2. round \in [1 .. n -> [Seq(S) -> Seq(S)]]
  BY <1>1, AppendProperties
<1>3. << >> \in Seq(S)
  BY EmptySeq
<1>4. PICK loop \in [0 .. n -> Seq(S)] :
        loop[0] = << >> /\ \A i \in 1 .. n : loop[i] = round[i][loop[i - 1]]
  <2> DEFINE V == Seq(S)
             first == << >>
  <2>1. first \in V
    BY <1>3
  <2>2. round \in [1 .. n -> [V -> V]]
    BY <1>2
  <2> HIDE DEF round, V, first
  <2>3. n \in Nat
    BY <1>1
  <2>4. \E loop \in [0 .. n -> V] : IsLoop(loop, n, first, round)
    BY <2>1, <2>2, <2>3, Looping
  <2>5. QED
    BY <2>4 DEF V, first, IsLoop
<1>5. \A i \in 1 .. n : i - 1 \in 0 .. n /\ loop[i - 1] \in Seq(S)
  <2>1. \A i \in 1 .. n : i - 1 \in 0 .. n
    BY <1>1
  <2> HIDE DEF round
  <2>2. QED
    BY <2>1
<1>6. \A i \in 1 .. n : round[i][loop[i - 1]] = Step(loop[i - 1], i)
  BY <1>5
<1>7. loop = Loop(loop)
  <2> HIDE DEF round, Step
  <2>1. \A i \in 0 .. n : i # 0 => i \in 1 .. n
    BY <1>1
  <2>2. QED
    BY <1>4, <1>6, <2>1
<1> DEFINE cleaned == CHOOSE c : c = Loop(c)
<1>8. cleaned = Loop(cleaned)
  <2> HIDE DEF Loop
  <2>1. QED
    BY <1>7
<1>9. WellFormed(items) = cleaned[n]
  BY DEF WellFormed, n
<1>10. cleaned[0] = << >> /\ \A i \in 1 .. n : cleaned[i] = Step(cleaned[i - 1], i)
  <2> HIDE DEF cleaned, Step
  <2>1. 0 \in 0 .. n /\ \A i \in 1 .. n : i \in 0 .. n /\ i # 0
    BY <1>1
  <2>2. QED
    BY <1>8, <2>1
<1> HIDE DEF cleaned
<1> DEFINE Has(s, x) == \E i \in 1 .. Len(s) : s[i] = x
           Good == {m \in 0 .. n :
                      /\ cleaned[m] \in Seq(S)
                      /\ \A x \in S : Has(cleaned[m], x)
                           <=> (\E i \in 1 .. m : items[i] = x /\ Usable(x))}
<1>11. 0 \in Good
  <2>1. cleaned[0] \in Seq(S) /\ Len(cleaned[0]) = 0
    BY <1>10, EmptySeq
  <2>2. \A i \in 1 .. 0 : FALSE
    OBVIOUS
  <2>3. \A x \in S : ~Has(cleaned[0], x)
    BY <2>1, <2>2
  <2> HIDE DEF Has
  <2>4. QED
    BY <1>1, <2>1, <2>2, <2>3
<1>12. ASSUME NEW m \in 0 .. n, m # n, m \in Good
       PROVE  m + 1 \in Good
  <2>1. m + 1 \in 1 .. n /\ (m + 1) - 1 = m /\ m \in Nat
    BY <1>1, <1>12
  <2>2. cleaned[m + 1] = Step(cleaned[m], m + 1)
    BY <1>10, <2>1
  <2>3. items[m + 1] \in S
    BY <1>1, <2>1
  <2>4. cleaned[m + 1] \in Seq(S)
    BY <1>12, <2>2, <2>3, AppendProperties
  <2>5. ASSUME NEW x \in S
        PROVE  Has(cleaned[m + 1], x) <=> (\E i \in 1 .. m + 1 : items[i] = x /\ Usable(x))
    <3>1. Has(cleaned[m], x) <=> (\E i \in 1 .. m : items[i] = x /\ Usable(x))
      BY <1>12
    <3>2. (\E i \in 1 .. m + 1 : items[i] = x /\ Usable(x))
            <=> (\E i \in 1 .. m : items[i] = x /\ Usable(x))
                  \/ (items[m + 1] = x /\ Usable(x))
      <4>1. \A i : i \in 1 .. m + 1 <=> i \in 1 .. m \/ i = m + 1
        BY <2>1
      <4>2. QED
        BY <4>1
    <3>3. CASE ~Usable(items[m + 1])
      BY <2>2, <3>1, <3>2, <3>3
    <3>4. CASE Usable(items[m + 1])
      <4> DEFINE c == cleaned[m]
      <4>1. c \in Seq(S)
        BY <1>12
      <4> HIDE DEF c
      <4>2. /\ Len(Append(c, items[m + 1])) = Len(c) + 1 /\ Len(c) \in Nat
            /\ \A i \in 1 .. Len(c) : Append(c, items[m + 1])[i] = c[i]
            /\ Append(c, items[m + 1])[Len(c) + 1] = items[m + 1]
        BY <2>3, <4>1, AppendProperties, LenProperties
      <4>3. Has(Append(c, items[m + 1]), x) <=> Has(c, x) \/ items[m + 1] = x
        BY <4>2
      <4>4. cleaned[m + 1] = Append(c, items[m + 1])
        BY <2>2, <3>4 DEF c
      <4>5. Has(c, x) <=> Has(cleaned[m], x)
        BY DEF c
      <4> HIDE DEF Has
      <4>6. QED
        BY <3>1, <3>2, <3>4, <4>3, <4>4, <4>5
    <3>5. QED
      BY <3>3, <3>4
  <2>6. m + 1 \in 0 .. n
    BY <1>1, <2>1
  <2> HIDE DEF Has
  <2>7. QED
    BY <2>4, <2>5, <2>6
<1>13. n \in Good
  <2> HIDE DEF Good
  <2>1. \A m \in 0 .. n : m # n /\ m \in Good => m + 1 \in Good
    BY <1>12
  <2>2. \A m \in 0 .. n : m \in Good
    BY <1>1, <1>11, <2>1, Counting
  <2>3. QED
    BY <1>1, <2>2
<1>14. QED
  BY <1>9, <1>13 DEF n

LEMMA ShareOfPercent ==
  ASSUME NEW v \in Int
  PROVE  /\ Share(v, 100) \in Int
         /\ Share(v, 100) >= 75 <=> (7500 <= v /\ v <= 10000) \/ v >= 750000
<1>1. CASE v <= 10000
  BY <1>1, SMT DEF Share, One
<1>2. CASE v > 10000 /\ v <= 1000000
  <2>1. Share(v, 100) = v \div 10000
    BY <1>2, SMT DEF Share, One
  <2>2. v \div 10000 \in Int /\ (v \div 10000 >= 75 <=> v >= 750000)
    BY <1>2, SMT
  <2>3. QED
    BY <1>2, <2>1, <2>2, SMT
<1>3. CASE v > 1000000
  BY <1>3, SMT DEF Share, One
<1>4. QED
  BY <1>1, <1>2, <1>3, SMT

LEMMA ShareOfNumber ==
  ASSUME NEW v \in Int
  PROVE  /\ Share(v, 1) \in Int
         /\ Share(v, 1) >= 75 <=> (75 <= v /\ v <= 100) \/ v >= 7500
<1>1. CASE v <= 100
  BY <1>1, SMT DEF Share, One
<1>2. CASE v > 100 /\ v <= 10000
  <2>1. Share(v, 1) = v \div 100
    BY <1>2, SMT DEF Share, One
  <2>2. v \div 100 \in Int /\ (v \div 100 >= 75 <=> v >= 7500)
    BY <1>2, SMT
  <2>3. QED
    BY <1>2, <2>1, <2>2, SMT
<1>3. CASE v > 10000
  BY <1>3, SMT DEF Share, One
<1>4. QED
  BY <1>1, <1>2, <1>3, SMT

\* The threshold takes what is sure, whatever form it has, and beyond that only
\* what is no confidence at all.
LEMMA SureConfidence ==
  ASSUME NEW raw \in Confidence, raw.form # "huge"
  PROVE  /\ NormalizeConfidence(raw) \in Int
         /\ Sure(raw) => NormalizeConfidence(raw) >= CONFIDENCE_THRESHOLD
         /\ NormalizeConfidence(raw) >= CONFIDENCE_THRESHOLD => Sure(raw) \/ Odd(raw)
<1>1. raw.form \in {"number", "text", "percent", "other"} /\ raw.value \in Int \cup {NaN}
  BY DEF Confidence
<1>2. NaN \notin Int
  BY ReadsAssumption
<1>3. CASE raw.form = "other"
  BY <1>3, SMT DEF NormalizeConfidence, Sure, CONFIDENCE_THRESHOLD
<1>4. CASE raw.form # "other" /\ raw.value = NaN
  <2>1. NormalizeConfidence(raw) = 100 /\ CONFIDENCE_THRESHOLD = 75
    BY <1>4 DEF NormalizeConfidence, CONFIDENCE_THRESHOLD, One
  <2>2. Odd(raw)
    BY <1>1, <1>4 DEF Odd
  <2>3. QED
    BY <2>1, <2>2
<1>5. CASE raw.form = "percent" /\ raw.value \in Int
  <2> DEFINE v == raw.value
             High == (7500 <= v /\ v <= 10000) \/ v >= 750000
  <2>1. v \in Int /\ NormalizeConfidence(raw) = Share(v, 100) /\ CONFIDENCE_THRESHOLD = 75
    BY <1>2, <1>5, SMT DEF NormalizeConfidence, Signed, CONFIDENCE_THRESHOLD
  <2>2. (Sure(raw) <=> v \in 7500 .. 10000) /\ (Odd(raw) <=> v > 10000)
    BY <1>2, <1>5, SMT DEF Sure, Odd
  <2> HIDE DEF v
  <2>3. v \in 7500 .. 10000 <=> 7500 <= v /\ v <= 10000
    BY <2>1
  <2>4. (7500 <= v /\ v <= 10000 => High) /\ (High => (7500 <= v /\ v <= 10000) \/ v > 10000)
    BY <2>1, SMT
  <2>5. Share(v, 100) \in Int /\ (Share(v, 100) >= 75 <=> High)
    BY <2>1, ShareOfPercent, SMT
  <2> HIDE DEF High
  <2>6. QED
    BY <2>1, <2>2, <2>3, <2>4, <2>5
<1>6. CASE raw.form \in {"number", "text"} /\ raw.value \in Int
  <2> DEFINE v == raw.value
             High == (75 <= v /\ v <= 100) \/ v >= 7500
  <2>1. v \in Int /\ NormalizeConfidence(raw) = Share(v, 1) /\ CONFIDENCE_THRESHOLD = 75
    BY <1>2, <1>6, SMT DEF NormalizeConfidence, Signed, CONFIDENCE_THRESHOLD
  <2>2. /\ Sure(raw) <=> v \in 75 .. 100 \/ v \in 7500 .. 10000
        /\ Odd(raw) <=> v > 10000
    BY <1>2, <1>6, SMT DEF Sure, Odd
  <2> HIDE DEF v
  <2>3. /\ v \in 75 .. 100 <=> 75 <= v /\ v <= 100
        /\ v \in 7500 .. 10000 <=> 7500 <= v /\ v <= 10000
    BY <2>1
  <2>4. (7500 <= v /\ v <= 10000) \/ v > 10000 <=> v >= 7500
    BY <2>1, SMT
  <2>5. Share(v, 1) \in Int /\ (Share(v, 1) >= 75 <=> High)
    BY <2>1, ShareOfNumber, SMT
  <2>6. Sure(raw) \/ Odd(raw) <=> High
    BY <2>2, <2>3, <2>4
  <2> HIDE DEF High
  <2>7. QED
    BY <2>1, <2>5, <2>6
<1>7. QED
  BY <1>1, <1>3, <1>4, <1>5, <1>6

\* What the threshold takes.
Trusted(raw) == NormalizeConfidence(raw) >= CONFIDENCE_THRESHOLD

TrustedClauses(reply) == {item.fp : item \in {q \in Quoted(reply) : Trusted(q.conf)}}

\* What the store learns from a reply is every clause it quotes with a confidence
\* the threshold takes, and each of them is met at least once.
LEMMA LearnedIsTrusted ==
  ASSUME NEW reply \in Reply
  PROVE  /\ DOMAIN Learned(reply) = IF Overflows(reply) THEN {} ELSE TrustedClauses(reply)
         /\ \A f \in DOMAIN Learned(reply) : f \in Fps /\ Learned(reply)[f] \in Nat \ {0}
<1> DEFINE findings == NormalizeFindings(reply)
           stored == {i \in 1 .. Len(findings) : Storable(findings[i])}
           S == Entry \cup {NotAnObject}
           items == WellFormed(reply.items)
<1>1. reply.items \in Seq(S) /\ reply.list \in BOOLEAN
  BY DEF Reply
<1>2. /\ items \in Seq(S)
      /\ \A x \in S : (\E i \in 1 .. Len(items) : items[i] = x)
                      <=> (\E i \in 1 .. Len(reply.items) : reply.items[i] = x /\ Usable(x))
  <2> HIDE DEF S
  <2>1. QED
    BY <1>1, WellFormedKeeps
<1>3. /\ DOMAIN Learned(reply) = {findings[i].fp : i \in stored}
      /\ \A f \in DOMAIN Learned(reply) :
           Learned(reply)[f] = Cardinality({i \in stored : findings[i].fp = f})
  BY DEF Learned
<1>4. Len(findings) \in Nat
  <2>1. CASE reply.list /\ ~Overflows(reply)
    <3>1. findings = [i \in 1 .. Len(items) |-> Normalized(items[i])]
      BY <2>1 DEF NormalizeFindings
    <3>2. Len(items) \in Nat
      BY <1>2, LenProperties
    <3> HIDE DEF findings, items
    <3>3. QED
      BY <3>1, <3>2
  <2>2. CASE ~reply.list \/ Overflows(reply)
    BY <2>2 DEF NormalizeFindings
  <2>3. QED
    BY <2>1, <2>2
<1>5. ASSUME NEW f \in DOMAIN Learned(reply)
      PROVE  Learned(reply)[f] \in Nat \ {0}
  <2> DEFINE met == {i \in stored : findings[i].fp = f}
  <2>1. met # {}
    BY <1>3
  <2>2. IsFiniteSet(1 .. Len(findings)) /\ met \subseteq 1 .. Len(findings)
    BY <1>4, FS_Interval
  <2> HIDE DEF met
  <2>3. IsFiniteSet(met) /\ Cardinality(met) \in Nat /\ Cardinality(met) # 0
    BY <2>1, <2>2, FS_Subset, FS_CardinalityType, FS_EmptySet
  <2>4. QED
    BY <1>3, <2>3 DEF met
<1>6. CASE ~reply.list \/ Overflows(reply)
  <2>1. findings = << >>
    BY <1>6 DEF NormalizeFindings
  <2>2. stored = {}
    BY <2>1
  <2>3. ~reply.list => TrustedClauses(reply) = {}
    BY DEF TrustedClauses, Quoted
  <2>4. DOMAIN Learned(reply) = {}
    <3> HIDE DEF stored, findings
    <3>1. QED
      BY <1>3, <2>2
  <2>5. QED
    BY <1>6, <2>3, <2>4
<1>7. CASE reply.list /\ ~Overflows(reply)
  <2>1. findings = [i \in 1 .. Len(items) |-> Normalized(items[i])] /\ Len(items) \in Nat
    BY <1>2, <1>7, LenProperties DEF NormalizeFindings
  <2>2. Len(findings) = Len(items)
    <3> HIDE DEF findings, items
    <3>1. QED
      BY <2>1
  <2>3. \A i \in 1 .. Len(items) : findings[i] = Normalized(items[i])
    <3> HIDE DEF findings, items
    <3>1. QED
      BY <2>1
  <2>4. ASSUME NEW x \in S, Usable(x)
        PROVE  /\ x \in Entry /\ x.fp \in Fps /\ Normalized(x).fp = x.fp
               /\ Storable(Normalized(x)) <=> x.quote /\ Trusted(x.conf)
    <3>1. x \in Entry
      BY <2>4 DEF Usable
    <3>2. x.conf \in Confidence /\ x.fp \in Fps /\ x.quote \in BOOLEAN
      BY <3>1 DEF Entry
    <3>3. /\ Normalized(x).fp = x.fp /\ Normalized(x).quote = x.quote
          /\ Normalized(x).conf = NormalizeConfidence(x.conf)
      BY <3>1 DEF Normalized, Entry
    <3>4. QED
      BY <3>1, <3>2, <3>3 DEF Storable, Trusted
  <2>5. \A i \in 1 .. Len(items) : items[i] \in S /\ Usable(items[i])
    <3> HIDE DEF S, items
    <3>1. \A i \in 1 .. Len(items) : items[i] \in S
      BY <1>2, ElementOfSeq
    <3>2. QED
      BY <1>2, <3>1
  <2>6. \A x \in S : x # NotAnObject /\ x.quote => Usable(x)
    BY DEF Usable
  <2>7. TrustedClauses(reply) =
          {x.fp : x \in {y \in S : /\ \E i \in 1 .. Len(reply.items) : reply.items[i] = y
                                   /\ y # NotAnObject /\ y.quote /\ Trusted(y.conf)}}
    <3>1. DOMAIN reply.items = 1 .. Len(reply.items)
      BY <1>1, LenProperties
    <3>2. \A y : y \in ToSet(reply.items) <=> y \in S /\ \E i \in 1 .. Len(reply.items) : reply.items[i] = y
      BY <1>1, <3>1, ElementOfSeq DEF ToSet
    <3>3. TrustedClauses(reply) = {item.fp : item \in {item \in ToSet(reply.items) :
                              item # NotAnObject /\ item.quote /\ Trusted(item.conf)}}
      BY <1>7 DEF TrustedClauses, Quoted
    <3> HIDE DEF S
    <3>4. QED
      BY <3>2, <3>3
  <2>8. \A f : (\E i \in stored : findings[i].fp = f)
              <=> (\E x \in S : /\ \E i \in 1 .. Len(reply.items) : reply.items[i] = x
                                /\ x # NotAnObject /\ x.quote /\ Trusted(x.conf) /\ x.fp = f)
    <3>1. \A f : (\E i \in stored : findings[i].fp = f)
                <=> (\E i \in 1 .. Len(items) :
                       items[i].quote /\ Trusted(items[i].conf) /\ items[i].fp = f)
      <4> HIDE DEF findings, items, S
      <4>1. \A i \in 1 .. Len(items) :
              /\ findings[i].fp = items[i].fp
              /\ Storable(findings[i]) <=> items[i].quote /\ Trusted(items[i].conf)
        BY <2>3, <2>4, <2>5
      <4>2. QED
        BY <2>2, <4>1
    <3>2. \A i \in 1 .. Len(items) : items[i] # NotAnObject
      BY <2>5 DEF Usable
    <3> DEFINE Learnt(x, f) == x.quote /\ Trusted(x.conf) /\ x.fp = f
               Said(x) == \E i \in 1 .. Len(reply.items) : reply.items[i] = x
               Kept(x) == \E i \in 1 .. Len(items) : items[i] = x
    <3>3. \A x \in S : Kept(x) <=> Said(x) /\ Usable(x)
      <4> HIDE DEF items, S
      <4>1. QED
        BY <1>2
    <3>4. \A x \in S : Usable(x) => x # NotAnObject
      BY DEF Usable
    <3>5. \A f : (\E i \in 1 .. Len(items) : Learnt(items[i], f))
                <=> \E x \in S : Kept(x) /\ Learnt(x, f)
      <4> HIDE DEF items, S, Learnt
      <4>1. QED
        BY <2>5
    <3>6. \A x \in S : \A f : Kept(x) /\ Learnt(x, f)
                         <=> Said(x) /\ x # NotAnObject /\ Learnt(x, f)
      <4>1. \A x \in S : \A f : x # NotAnObject /\ Learnt(x, f) => Usable(x)
        BY <2>6
      <4> HIDE DEF items, S, Learnt, Said, Kept
      <4>2. QED
        BY <3>3, <3>4, <4>1
    <3>7. \A f : (\E i \in stored : findings[i].fp = f)
                <=> \E x \in S : Said(x) /\ x # NotAnObject /\ Learnt(x, f)
      <4>1. \A f : (\E i \in stored : findings[i].fp = f)
                  <=> \E i \in 1 .. Len(items) : Learnt(items[i], f)
        BY <3>1
      <4> HIDE DEF findings, items, S, stored, Learnt, Said, Kept
      <4>2. QED
        BY <3>5, <3>6, <4>1
    <3> HIDE DEF findings, items, S, stored
    <3>8. QED
      BY <3>7
  <2>9. DOMAIN Learned(reply) = TrustedClauses(reply)
    <3> DEFINE D == DOMAIN Learned(reply)
               C == TrustedClauses(reply)
    <3>1. \A f : f \in D <=> \E i \in stored : findings[i].fp = f
      <4> HIDE DEF findings, stored
      <4>1. QED
        BY <1>3
    <3>2. \A f : f \in C <=>
            \E x \in S : /\ \E i \in 1 .. Len(reply.items) : reply.items[i] = x
                         /\ x # NotAnObject /\ x.quote /\ Trusted(x.conf) /\ x.fp = f
      <4> HIDE DEF S, C
      <4>1. C = {x.fp : x \in {y \in S : /\ \E i \in 1 .. Len(reply.items) : reply.items[i] = y
                                         /\ y # NotAnObject /\ y.quote /\ Trusted(y.conf)}}
        BY <2>7 DEF C
      <4>2. QED
        BY <4>1
    <3>3. \A f : f \in D <=> f \in C
      <4> HIDE DEF findings, items, S, stored, D, C
      <4>1. QED
        BY <2>8, <3>1, <3>2
    <3> HIDE DEF D, C
    <3>4. D = C
      BY <3>3
    <3>5. QED
      BY <3>4 DEF D, C
  <2>10. \A f \in DOMAIN Learned(reply) : f \in Fps
    <3>1. \A i \in stored : findings[i].fp \in Fps
      <4> HIDE DEF findings, items, S
      <4>1. QED
        BY <2>2, <2>3, <2>4, <2>5
    <3> HIDE DEF findings, stored
    <3>2. QED
      BY <1>3, <3>1
  <2>11. QED
    BY <1>5, <1>7, <2>9, <2>10
<1>8. QED
  BY <1>1, <1>6, <1>7

\* Of a reply that does not overflow these are the clauses it is sure of, and
\* perhaps some whose confidence is none.
LEMMA TrustedIsSure ==
  ASSUME NEW reply \in Reply, ~Overflows(reply)
  PROVE  /\ SureClauses(reply) \subseteq TrustedClauses(reply)
         /\ TrustedClauses(reply) \subseteq SureClauses(reply) \cup OddClauses(reply)
<1>1. ASSUME NEW item \in Quoted(reply)
      PROVE  item.conf \in Confidence /\ item.conf.form # "huge"
  <2>1. reply.list /\ reply.items \in Seq(Entry \cup {NotAnObject})
    BY <1>1 DEF Reply, Quoted
  <2>2. item \in ToSet(reply.items) /\ item # NotAnObject
    BY <1>1 DEF Quoted
  <2>3. item \in Entry
    BY <2>1, <2>2, ElementOfSeq, LenProperties DEF ToSet
  <2>4. QED
    BY <2>1, <2>2, <2>3 DEF Entry, Overflows
<1>2. \A item \in Quoted(reply) :
        /\ Sure(item.conf) => Trusted(item.conf)
        /\ Trusted(item.conf) => Sure(item.conf) \/ Odd(item.conf)
  BY <1>1, SureConfidence DEF Trusted
<1>3. QED
  BY <1>2 DEF SureClauses, OddClauses, TrustedClauses

\* The dataset names clauses only.
LEMMA DatasetsOfClauses ==
  ASSUME NEW dataset \in Datasets
  PROVE  dataset \subseteq Fps
<1>1. PICK file \in Files : dataset = ClausePatterns(file)
  BY DEF Datasets
<1>2. file \in File /\ NotAnObject \notin Entry
  BY ReadsAssumption
<1>3. ASSUME NEW record \in Record
      PROVE  Labels(record) \subseteq Fps
  <2>1. record.findings \in Seq(Fps \cup {NotAnObject}) /\ record.category \in Fps
    BY DEF Record
  <2>2. ToSet(record.findings) \subseteq Fps \cup {NotAnObject}
    BY <2>1, ElementOfSeq, LenProperties DEF ToSet
  <2>3. QED
    BY <2>1, <2>2 DEF Labels
<1>4. ToSet(file.records) \subseteq Record
  <2>1. file.records \in Seq(Record)
    BY <1>2 DEF File
  <2>2. QED
    BY <2>1, ElementOfSeq, LenProperties DEF ToSet
<1>5. QED
  BY <1>1, <1>3, <1>4 DEF ClausePatterns

-----------------------------------------------------------------------------
(***************************************************************************)
(* The table.                                                              *)
(***************************************************************************)

\* Who brought a row in follows from its owner and its count, with the table
\* scoped or not: this is what lets a migration classify by the count.
Classified ==
  \A row \in table :
    /\ row.owner \in Owners => row.by = row.owner /\ row.n > 0
    /\ row.owner = Global => row.by = Global /\ row.n = 0
    /\ row.owner = Legacy => row.n > 0
    /\ row.owner = NoOwner /\ row.n = 0 => row.by = Global

IInv == TypeOK /\ Classified

LEMMA RowFields ==
  ASSUME NEW row \in RowType
  PROVE  /\ row.owner \in Owners \cup Reserved \cup {NoOwner} /\ row.fp \in Fps
         /\ row.n \in 0 .. MaxCount /\ row.born \in 0 .. MaxTime
         /\ row.by \in Owners \cup Reserved
  BY DEF RowType

LEMMA InitIInv == Init => IInv
<1> SUFFICES ASSUME Init
             PROVE  IInv
  OBVIOUS
<1>1. PICK learned \in SUBSET Fps :
        table = {[owner |-> NoOwner, fp |-> f, n |-> IF f \in learned THEN 1 ELSE 0,
                  born |-> 0, by |-> IF f \in learned THEN Legacy ELSE Global] : f \in Fps}
  BY DEF Init
<1>2. time = 1 /\ scoped = FALSE /\ MaxTime \in Nat /\ MaxCount \in Nat \ {0}
  BY ReadsAssumption DEF Init
<1>3. ASSUME NEW row \in table
      PROVE  /\ row \in RowType /\ row.owner = NoOwner
             /\ row.n = 0 => row.by = Global
  BY <1>1, <1>2 DEF RowType, Reserved
<1>4. ASSUME NEW a \in table, NEW b \in table, a.fp = b.fp
      PROVE  a = b
  BY <1>1, <1>4
<1>5. TypeOK
  BY <1>2, <1>3, <1>4 DEF TypeOK
<1>6. Classified
  BY <1>3, ReadsAssumption DEF Classified
<1>7. QED
  BY <1>5, <1>6 DEF IInv

LEMMA UpgradeIInv == IInv /\ Upgrade => IInv'
<1> SUFFICES ASSUME IInv, Upgrade
             PROVE  IInv'
  OBVIOUS
<1> USE DEF IInv
<1> DEFINE Owned(row) == [row EXCEPT !.owner = OwnerByCount(row)]
<1>1. /\ table' = {Owned(row) : row \in table}
      /\ ~scoped /\ scoped' = TRUE /\ time' = time
  BY DEF Upgrade
<1>2. ASSUME NEW row \in table
      PROVE  /\ row \in RowType /\ row.owner = NoOwner /\ row.n \in Nat
             /\ Owned(row) \in RowType /\ Owned(row).owner = OwnerByCount(row)
             /\ Owned(row).fp = row.fp /\ Owned(row).n = row.n /\ Owned(row).by = row.by
  <2>1. row \in RowType /\ row.owner = NoOwner
    BY <1>1 DEF TypeOK
  <2>2. OwnerByCount(row) \in Reserved
    BY DEF OwnerByCount, Reserved
  <2>3. QED
    BY <2>1, <2>2, ReadsAssumption DEF RowType
<1> HIDE DEF Owned
<1>3. \A row \in table' : \E from \in table : row = Owned(from)
  BY <1>1
<1>4. \A row \in table' : row \in RowType /\ row.owner \in Reserved
  BY <1>2, <1>3 DEF OwnerByCount, Reserved
<1>5. \A a, b \in table' : a.fp = b.fp => a = b
  <2>1. \A a, b \in table : a.fp = b.fp => a = b
    BY <1>2 DEF TypeOK
  <2>2. QED
    BY <1>2, <1>3, <2>1
<1>6. \A row \in table' : /\ row.owner = Global => row.by = Global /\ row.n = 0
                          /\ row.owner = Legacy => row.n > 0
  <2>1. \A row \in table : row.n = 0 => row.by = Global
    BY <1>2 DEF Classified
  <2>2. ASSUME NEW row \in table
        PROVE  /\ Owned(row).owner = Global => Owned(row).by = Global /\ Owned(row).n = 0
               /\ Owned(row).owner = Legacy => Owned(row).n > 0
    BY <1>2, <2>1, ReadsAssumption DEF OwnerByCount
  <2>3. QED
    BY <1>3, <2>2
<1>7. NoOwner \notin Reserved /\ \A o \in Reserved : o \notin Owners
  BY ReadsAssumption DEF Reserved
<1>8. TypeOK'
  <2>1. time' \in 1 .. MaxTime + 1
    BY <1>1 DEF TypeOK
  <2>2. QED
    BY <1>1, <1>4, <1>5, <1>7, <2>1 DEF TypeOK
<1>9. Classified'
  <2>1. \A row \in table' : row.owner \notin Owners /\ row.owner # NoOwner
    BY <1>4, <1>7
  <2>2. QED
    BY <1>6, <2>1 DEF Classified
<1>10. QED
  BY <1>8, <1>9

LEMMA DowngradeIInv == IInv /\ Downgrade => IInv'
<1> SUFFICES ASSUME IInv, Downgrade
             PROVE  IInv'
  OBVIOUS
<1> USE DEF IInv
<1> DEFINE Freed(row) == [row EXCEPT !.owner = NoOwner]
<1>1. PICK kept \in Deduped(table) : table' = {Freed(row) : row \in kept}
  BY DEF Downgrade
<1>2. scoped /\ scoped' = FALSE /\ time' = time
  BY DEF Downgrade
<1>3. /\ kept \subseteq table
      /\ \A a, b \in kept : a.fp = b.fp => a = b
  <2>1. kept \in SUBSET table
    BY DEF Deduped
  <2>2. \A f \in {row.fp : row \in table} :
          \E row \in kept : \A other \in kept : other.fp = f => other = row
    BY DEF Deduped
  <2>3. QED
    BY <2>1, <2>2
<1>4. ASSUME NEW row \in kept
      PROVE  /\ row \in RowType /\ row.owner \in Owners \cup Reserved
             /\ Freed(row) \in RowType /\ Freed(row).owner = NoOwner
             /\ Freed(row).fp = row.fp /\ Freed(row).n = row.n /\ Freed(row).by = row.by
  <2>1. row \in RowType /\ row.owner # NoOwner
    BY <1>2, <1>3 DEF TypeOK
  <2>2. QED
    BY <2>1 DEF RowType
<1> HIDE DEF Freed
<1>5. \A row \in table' : \E from \in kept : row = Freed(from)
  BY <1>1
<1>6. \A row \in kept : row.n = 0 => row.by = Global
  <2>1. ASSUME NEW row \in kept, row.n = 0
        PROVE  row.by = Global
    <3>1. row.owner \notin Owners /\ row.owner # Legacy
      BY <1>3, <2>1 DEF Classified
    <3>2. row.owner = Global
      BY <1>4, <3>1 DEF Reserved
    <3>3. QED
      BY <1>3, <3>2 DEF Classified
  <2>2. QED
    BY <2>1
<1>7. \A row \in table' : /\ row \in RowType /\ row.owner = NoOwner
                          /\ row.n = 0 => row.by = Global
  BY <1>4, <1>5, <1>6
<1>8. \A a, b \in table' : a.fp = b.fp => a = b
  BY <1>3, <1>4, <1>5
<1>9. TypeOK'
  <2>1. time' \in 1 .. MaxTime + 1
    BY <1>2 DEF TypeOK
  <2>2. table' \subseteq RowType
    BY <1>7
  <2>3. \A row \in table' : scoped' <=> row.owner # NoOwner
    BY <1>2, <1>7
  <2>4. QED
    BY <1>8, <2>1, <2>2, <2>3 DEF TypeOK
<1>10. Classified'
  <2>1. \A row \in table' : /\ row.owner \notin Owners /\ row.owner # Global
                            /\ row.owner # Legacy
    BY <1>7, ReadsAssumption
  <2>2. QED
    BY <1>7, <2>1 DEF Classified
<1>11. QED
  BY <1>9, <1>10

LEMMA SeedIInv ==
  ASSUME NEW dataset \in SUBSET Fps, IInv, Seed(dataset)
  PROVE  IInv'
<1> USE DEF IInv
<1> DEFINE new == {[owner |-> Global, fp |-> f, n |-> 0, born |-> time, by |-> Global] :
                     f \in dataset \ FpsOf(Global)}
<1>1. /\ scoped /\ scoped' = scoped /\ time <= MaxTime /\ time' = time + 1
      /\ table' = table \cup new
  BY DEF Seed
<1>2. time \in 1 .. MaxTime + 1 /\ MaxTime \in Nat /\ MaxCount \in Nat
  BY ReadsAssumption DEF TypeOK
<1>3. ASSUME NEW row \in new
      PROVE  /\ row \in RowType /\ row.owner = Global /\ row.by = Global /\ row.n = 0
             /\ row.fp \notin FpsOf(Global)
  BY <1>1, <1>2 DEF RowType, Reserved
<1>4. \A a, b \in new : a.fp = b.fp => a = b
  OBVIOUS
<1> HIDE DEF new
<1>5. \A a \in table, b \in new : ~(a.owner = b.owner /\ a.fp = b.fp)
  BY <1>3 DEF FpsOf, RowsOf
<1>6. \A a, b \in table' : a.owner = b.owner /\ a.fp = b.fp => a = b
  BY <1>1, <1>4, <1>5 DEF TypeOK
<1>7. TypeOK'
  BY <1>1, <1>2, <1>3, <1>6, ReadsAssumption DEF TypeOK
<1>8. Classified'
  BY <1>1, <1>3, ReadsAssumption DEF Classified
<1>9. QED
  BY <1>7, <1>8

LEMMA LearnIInv ==
  ASSUME NEW o \in Owners, NEW found, IInv, Learn(o, found),
         \A f \in DOMAIN found : f \in Fps /\ found[f] \in Nat \ {0}
  PROVE  IInv'
<1> USE DEF IInv
<1> DEFINE old == Bumped(o, found)
           Up(row) == [row EXCEPT !.n = @ + found[row.fp]]
           more == {Up(row) : row \in old}
           new == {[owner |-> o, fp |-> f, n |-> found[f], born |-> time, by |-> o] :
                     f \in DOMAIN found \ FpsOf(o)}
<1>1. /\ scoped /\ scoped' = scoped /\ time <= MaxTime /\ time' = time + 1
      /\ table' = (table \ old) \cup more \cup new
      /\ \A f \in DOMAIN found : found[f] <= MaxCount
      /\ \A row \in old : row.n + found[row.fp] <= MaxCount
  BY DEF Learn
<1>2. time \in 1 .. MaxTime + 1 /\ MaxTime \in Nat /\ MaxCount \in Nat
  BY ReadsAssumption DEF TypeOK
<1>3. ASSUME NEW row \in old
      PROVE  /\ row \in table /\ row.owner = o /\ row.fp \in DOMAIN found
             /\ Up(row) \in RowType /\ Up(row).owner = o /\ Up(row).fp = row.fp
             /\ Up(row).by = row.by /\ Up(row).n > 0
  <2>1. row \in table /\ row.owner = o /\ row.fp \in DOMAIN found /\ row \in RowType
    BY DEF Bumped, RowsOf, TypeOK
  <2>2. row.n + found[row.fp] \in 1 .. MaxCount
    BY <1>1, <1>2, <2>1, RowFields
  <2>3. QED
    BY <2>1, <2>2 DEF RowType
<1>4. ASSUME NEW row \in new
      PROVE  /\ row \in RowType /\ row.owner = o /\ row.by = o /\ row.n > 0
             /\ row.fp \notin FpsOf(o)
  BY <1>1, <1>2 DEF RowType
<1>5. \A a, b \in new : a.fp = b.fp => a = b
  OBVIOUS
<1> HIDE DEF old, Up, more, new
<1>6. \A row \in more : \E known \in old : row = Up(known)
  BY DEF more
<1>7. \A a, b \in more : a.fp = b.fp => a = b
  BY <1>3, <1>6 DEF TypeOK
<1>8. \A a \in table, b \in new : ~(a.owner = b.owner /\ a.fp = b.fp)
  BY <1>4 DEF FpsOf, RowsOf
<1>9. \A a \in more, b \in new : a.fp # b.fp
  BY <1>3, <1>4, <1>6, <1>8
<1>10. \A a \in table \ old, b \in more : ~(a.owner = b.owner /\ a.fp = b.fp)
  BY <1>3, <1>6 DEF TypeOK
<1>11. \A a, b \in table' : a.owner = b.owner /\ a.fp = b.fp => a = b
  BY <1>1, <1>5, <1>7, <1>8, <1>9, <1>10 DEF TypeOK
<1>12. /\ table' \subseteq RowType
       /\ \A row \in table' : row.owner # NoOwner
  BY <1>1, <1>3, <1>4, <1>6, ReadsAssumption DEF TypeOK
<1>13. TypeOK'
  BY <1>1, <1>2, <1>11, <1>12 DEF TypeOK
<1>14. \A row \in more \cup new : row.owner = o /\ row.by = o /\ row.n > 0
  BY <1>3, <1>4, <1>6 DEF Classified
<1>15. Classified'
  BY <1>1, <1>14, ReadsAssumption DEF Classified
<1>16. QED
  BY <1>13, <1>15

LEMMA StutterIInv == IInv /\ UNCHANGED vars => IInv'
<1> SUFFICES ASSUME IInv, UNCHANGED vars
             PROVE  IInv'
  OBVIOUS
<1>1. table' = table /\ time' = time /\ scoped' = scoped
  BY DEF vars
<1>2. TypeOK'
  BY <1>1 DEF IInv, TypeOK
<1>3. Classified'
  BY <1>1 DEF IInv, Classified
<1>4. QED
  BY <1>2, <1>3 DEF IInv

LEMMA LessonsAreLearned ==
  ASSUME NEW lesson \in Lessons
  PROVE  /\ lesson.lost => DOMAIN lesson.found = {}
         /\ ~lesson.lost => /\ lesson.sure \subseteq DOMAIN lesson.found
                           /\ DOMAIN lesson.found \subseteq lesson.sure \cup lesson.odd
         /\ \A f \in DOMAIN lesson.found : f \in Fps /\ lesson.found[f] \in Nat \ {0}
<1>1. PICK reply \in Replies :
        lesson = [found |-> Learned(reply), lost |-> Overflows(reply),
                  sure |-> SureClauses(reply), odd |-> OddClauses(reply)]
  BY DEF Lessons
<1>2. /\ lesson.found = Learned(reply) /\ lesson.lost = Overflows(reply)
      /\ lesson.sure = SureClauses(reply) /\ lesson.odd = OddClauses(reply)
  BY <1>1
<1>3. reply \in Reply
  BY ReadsAssumption
<1>4. CASE Overflows(reply)
  BY <1>2, <1>3, <1>4, LearnedIsTrusted
<1>5. CASE ~Overflows(reply)
  BY <1>2, <1>3, <1>5, LearnedIsTrusted, TrustedIsSure
<1>6. QED
  BY <1>4, <1>5

LEMMA NextIInv == IInv /\ [Next]_vars => IInv'
<1> SUFFICES ASSUME IInv, [Next]_vars
             PROVE  IInv'
  OBVIOUS
<1>1. CASE Upgrade
  BY <1>1, UpgradeIInv
<1>2. CASE Downgrade
  BY <1>2, DowngradeIInv
<1>3. ASSUME NEW dataset \in Datasets, Seed(dataset)
      PROVE  IInv'
  <2>1. dataset \in SUBSET Fps
    BY DatasetsOfClauses
  <2>2. QED
    BY <1>3, <2>1, SeedIInv
<1>4. ASSUME NEW o \in Owners, NEW lesson \in Lessons, Learn(o, lesson.found)
      PROVE  IInv'
  <2> DEFINE found == lesson.found
  <2>1. \A f \in DOMAIN found : f \in Fps /\ found[f] \in Nat \ {0}
    BY LessonsAreLearned
  <2>2. Learn(o, found)
    BY <1>4
  <2> HIDE DEF found
  <2>3. QED
    BY <2>1, <2>2, LearnIInv
<1>5. CASE UNCHANGED vars
  BY <1>5, StutterIInv
<1>6. ASSUME NEW o \in Owners, NEW found \in {lesson.found : lesson \in Lessons}, Learn(o, found)
      PROVE  IInv'
  BY <1>4, <1>6
<1>7. QED
  BY <1>1, <1>2, <1>3, <1>5, <1>6 DEF Next

\* The table keeps its type and its unique constraint, and every row its class,
\* through any sequence of deployments, saves and migrations up and down.
THEOREM TypeCorrect == Spec => [](TypeOK /\ Classified)
<1>1. Spec => []IInv
  BY InitIInv, NextIInv, PTL DEF Spec
<1>2. IInv => TypeOK /\ Classified
  BY DEF IInv
<1>3. QED
  BY <1>1, <1>2, PTL

-----------------------------------------------------------------------------
(***************************************************************************)
(* Who sees what.                                                          *)
(***************************************************************************)

\* readable_owners and 0005: no caller is shown what another owner's contracts
\* taught, nor what nobody owns.
THEOREM OthersStayHidden == Spec => []ShownIsOwnOrCurated
<1>1. Classified => ShownIsOwnOrCurated
  <2> SUFFICES ASSUME Classified, NEW o \in Callers, NEW row \in Visible(o)
               PROVE  row.by \in {o, Global}
    BY DEF ShownIsOwnOrCurated
  <2>1. row \in table /\ row.owner \in {Global} \cup ({o} \cap Owners)
    BY DEF Visible, Readable
  <2>2. CASE row.owner = Global
    BY <2>1, <2>2 DEF Classified
  <2>3. CASE row.owner = o /\ o \in Owners
    BY <2>1, <2>3 DEF Classified
  <2>4. QED
    BY <2>1, <2>2, <2>3
<1>2. QED
  BY <1>1, TypeCorrect, PTL

\* normalize_findings and save_new_patterns: what a save adds to its owner's
\* clauses is what the reply quotes and is sure of, and beyond that only what
\* has a confidence that is none; nothing, when an integer overflows.
THEOREM SureIsLearned == Spec => LearnsWhatIsSure
<1>1. ASSUME IInv, NEW o \in Owners, NEW lesson \in Lessons, Learn(o, lesson.found)
      PROVE  IF lesson.lost THEN FpsOf(o)' = FpsOf(o)
             ELSE /\ FpsOf(o) \cup lesson.sure \subseteq FpsOf(o)'
                  /\ FpsOf(o)' \subseteq FpsOf(o) \cup lesson.sure \cup lesson.odd
  <2> DEFINE found == lesson.found
             old == Bumped(o, found)
             Up(row) == [row EXCEPT !.n = @ + found[row.fp]]
             more == {Up(row) : row \in old}
             new == {[owner |-> o, fp |-> f, n |-> found[f], born |-> time, by |-> o] :
                       f \in DOMAIN found \ FpsOf(o)}
  <2>1. table' = (table \ old) \cup more \cup new
    BY <1>1 DEF Learn
  <2>2. /\ lesson.lost => DOMAIN found = {}
        /\ ~lesson.lost => /\ lesson.sure \subseteq DOMAIN found
                          /\ DOMAIN found \subseteq lesson.sure \cup lesson.odd
    BY LessonsAreLearned
  <2>3. ASSUME NEW row \in old
        PROVE  /\ row \in table /\ row.owner = o /\ Up(row).owner = o /\ Up(row).fp = row.fp
    <3>1. row \in table /\ row.owner = o /\ row \in RowType
      BY <1>1 DEF Bumped, RowsOf, IInv, TypeOK
    <3>2. QED
      BY <3>1 DEF RowType
  <2>4. \A f : f \in FpsOf(o) <=> \E row \in table : row.owner = o /\ row.fp = f
    BY DEF FpsOf, RowsOf
  <2>5. \A f : f \in FpsOf(o)' <=> \E row \in table' : row.owner = o /\ row.fp = f
    BY DEF FpsOf, RowsOf
  <2>6. \A f : (\E row \in new : row.owner = o /\ row.fp = f) <=> f \in DOMAIN found \ FpsOf(o)
    <3>1. \A row \in new : row.owner = o /\ row.fp \in DOMAIN found \ FpsOf(o)
      OBVIOUS
    <3>2. ASSUME NEW f \in DOMAIN found \ FpsOf(o)
          PROVE  \E row \in new : row.owner = o /\ row.fp = f
      <4> DEFINE r == [owner |-> o, fp |-> f, n |-> found[f], born |-> time, by |-> o]
      <4>1. r \in new /\ r.owner = o /\ r.fp = f
        OBVIOUS
      <4> HIDE DEF r, new
      <4>2. QED
        BY <4>1
    <3> HIDE DEF new
    <3>3. QED
      BY <3>1, <3>2
  <2>7. \A f : (\E row \in more : row.owner = o /\ row.fp = f)
               <=> \E row \in old : row.fp = f
    <3> HIDE DEF old, Up
    <3>1. QED
      BY <2>3
  <2>8. \A f : f \in FpsOf(o)' <=> f \in FpsOf(o) \/ f \in DOMAIN found
    <3> HIDE DEF old, more, new, found
    <3>1. \A f : f \in FpsOf(o)' <=> \/ \E row \in table \ old : row.owner = o /\ row.fp = f
                                     \/ \E row \in more : row.owner = o /\ row.fp = f
                                     \/ \E row \in new : row.owner = o /\ row.fp = f
      BY <2>1, <2>5
    <3>2. QED
      BY <2>3, <2>4, <2>6, <2>7, <3>1
  <2> HIDE DEF found
  <2>9. FpsOf(o)' = FpsOf(o) \cup DOMAIN found
    BY <2>8
  <2>10. QED
    BY <2>2, <2>9
<1>2. IInv /\ [Next]_vars =>
        [\A o \in Owners, lesson \in Lessons :
           Learn(o, lesson.found) =>
             IF lesson.lost THEN FpsOf(o)' = FpsOf(o)
             ELSE /\ FpsOf(o) \cup lesson.sure \subseteq FpsOf(o)'
                  /\ FpsOf(o)' \subseteq FpsOf(o) \cup lesson.sure \cup lesson.odd]_vars
  BY <1>1
<1>3. Spec => []IInv
  BY InitIInv, NextIInv, PTL DEF Spec
<1>4. QED
  BY <1>2, <1>3, PTL DEF Spec, LearnsWhatIsSure

\* get_active_patterns reads the rows of the owner and the curated ones only: as
\* long as those stay, so does the prompt, whatever the others are doing.
THEOREM PromptsStayApart == Spec => PromptsAreApart
<1>1. ASSUME NEW o \in Owners, NEW rank \in Ranks,
             RowsOf(o)' = RowsOf(o), RowsOf(Global)' = RowsOf(Global)
      PROVE  Patterns(o, rank)' = Patterns(o, rank)
  <2>1. Visible(o) = RowsOf(Global) \cup RowsOf(o)
    BY DEF Visible, Readable, RowsOf
  <2>2. Visible(o)' = RowsOf(Global)' \cup RowsOf(o)'
    BY DEF Visible, Readable, RowsOf
  <2>3. Visible(o)' = Visible(o)
    BY <1>1, <2>1, <2>2
  <2>4. Fetched(o, rank)' = Fetched(o, rank)
    BY <2>3 DEF Fetched
  <2>5. QED
    BY <2>4 DEF Patterns
<1>2. [Next]_vars =>
        [\A o \in Owners, rank \in Ranks :
           RowsOf(o)' = RowsOf(o) /\ RowsOf(Global)' = RowsOf(Global) =>
             Patterns(o, rank)' = Patterns(o, rank)]_vars
  BY <1>1
<1>3. QED
  BY <1>2, PTL DEF Spec, PromptsAreApart

-----------------------------------------------------------------------------
(***************************************************************************)
(* The order of the rows.                                                  *)
(***************************************************************************)

Ordered(rows, rank) ==
  /\ \A a, b \in rows : a # b => Before(rank, a, b) \/ Before(rank, b, a)
  /\ \A a, b \in rows : ~(Before(rank, a, b) /\ Before(rank, b, a))
  /\ \A a, b, c \in rows : Before(rank, a, b) /\ Before(rank, b, c) => Before(rank, a, c)

AtMostTwice(rows) ==
  \A a, b, c \in rows : a.fp = b.fp /\ b.fp = c.fp => a = b \/ b = c \/ a = c

Ahead(rows, rank, row) == {a \in rows : Before(rank, a, row)}

Place(rows, rank, row) == Cardinality(Ahead(rows, rank, row)) + 1

\* In an ordered set every row has a place of its own, and the places are in
\* the order of the rows.
LEMMA Places ==
  ASSUME NEW rows, NEW rank, IsFiniteSet(rows), Ordered(rows, rank)
  PROVE  /\ Cardinality(rows) \in Nat
         /\ \A a \in rows : Place(rows, rank, a) \in 1 .. Cardinality(rows)
         /\ \A a, b \in rows :
              Before(rank, a, b) <=> Place(rows, rank, a) < Place(rows, rank, b)
         /\ \A a, b \in rows : Place(rows, rank, a) = Place(rows, rank, b) => a = b
<1>1. Cardinality(rows) \in Nat
  BY FS_CardinalityType
<1>2. ASSUME NEW a \in rows
      PROVE  /\ IsFiniteSet(Ahead(rows, rank, a)) /\ Cardinality(Ahead(rows, rank, a)) \in Nat
             /\ Cardinality(Ahead(rows, rank, a)) < Cardinality(rows)
  <2>1. Ahead(rows, rank, a) \subseteq rows /\ a \notin Ahead(rows, rank, a)
    BY DEF Ahead, Ordered
  <2>2. /\ IsFiniteSet(Ahead(rows, rank, a))
        /\ Cardinality(Ahead(rows, rank, a)) <= Cardinality(rows)
        /\ Cardinality(Ahead(rows, rank, a)) # Cardinality(rows)
    BY <2>1, FS_Subset
  <2>3. Cardinality(Ahead(rows, rank, a)) \in Nat
    BY <2>2, FS_CardinalityType
  <2>4. QED
    BY <1>1, <2>2, <2>3
<1>3. ASSUME NEW a \in rows, NEW b \in rows, Before(rank, a, b)
      PROVE  Place(rows, rank, a) < Place(rows, rank, b)
  <2>1. Ahead(rows, rank, a) \subseteq Ahead(rows, rank, b)
    BY <1>3 DEF Ahead, Ordered
  <2>2. a \in Ahead(rows, rank, b) /\ a \notin Ahead(rows, rank, a)
    BY <1>3 DEF Ahead, Ordered
  <2>3. /\ Cardinality(Ahead(rows, rank, a)) <= Cardinality(Ahead(rows, rank, b))
        /\ Cardinality(Ahead(rows, rank, a)) # Cardinality(Ahead(rows, rank, b))
    BY <1>2, <2>1, <2>2, FS_Subset
  <2>4. QED
    BY <1>2, <2>3 DEF Place
<1>4. \A a \in rows : Place(rows, rank, a) \in 1 .. Cardinality(rows)
  BY <1>1, <1>2 DEF Place
<1>5. ASSUME NEW a \in rows, NEW b \in rows
      PROVE  /\ Before(rank, a, b) <=> Place(rows, rank, a) < Place(rows, rank, b)
             /\ Place(rows, rank, a) = Place(rows, rank, b) => a = b
  <2>1. Place(rows, rank, a) \in Nat /\ Place(rows, rank, b) \in Nat
    BY <1>4
  <2>2. CASE a = b
    BY <2>1, <2>2 DEF Ordered
  <2>3. CASE Before(rank, a, b)
    BY <1>3, <2>1, <2>3
  <2>4. CASE Before(rank, b, a)
    <3>1. ~Before(rank, a, b)
      BY <2>4 DEF Ordered
    <3>2. QED
      BY <1>3, <2>1, <2>4, <3>1
  <2>5. QED
    BY <2>2, <2>3, <2>4 DEF Ordered
<1>6. QED
  BY <1>1, <1>4, <1>5

\* Sorting puts every row in its place.
LEMMA SortedByPlace ==
  ASSUME NEW rows, NEW rank, IsFiniteSet(rows), Ordered(rows, rank)
  PROVE  /\ Sorted(rows, rank) \in Seq(rows)
         /\ Len(Sorted(rows, rank)) = Cardinality(rows)
         /\ \A a \in rows : Sorted(rows, rank)[Place(rows, rank, a)] = a
         /\ \A i \in 1 .. Cardinality(rows) :
              /\ Sorted(rows, rank)[i] \in rows
              /\ Place(rows, rank, Sorted(rows, rank)[i]) = i
<1> DEFINE n == Cardinality(rows)
           place == [a \in rows |-> Place(rows, rank, a)]
           sorted == Sorted(rows, rank)
<1>1. n \in Nat /\ \A a \in rows : Place(rows, rank, a) \in 1 .. n
  BY Places
<1>2. \A a, b \in rows : Place(rows, rank, a) = Place(rows, rank, b) => a = b
  BY Places
<1>3. place \in Injection(rows, 1 .. n)
  BY <1>1, <1>2, Fun_IsInj
<1>4. \A i \in 1 .. n : \E a \in rows : Place(rows, rank, a) = i
  <2>1. IsFiniteSet(1 .. n) /\ Cardinality(1 .. n) = n
    BY <1>1, FS_Interval
  <2> HIDE DEF place
  <2>2. place \in Surjection(rows, 1 .. n)
    BY <1>3, <2>1, FS_Injection DEF n
  <2>3. \A i \in 1 .. n : \E a \in rows : place[a] = i
    BY <2>2, Fun_SurjectionProperties
  <2>4. QED
    BY <2>3 DEF place
<1>5. /\ DOMAIN sorted = 1 .. n
      /\ \A i \in 1 .. n : sorted[i] = CHOOSE a \in rows : Cardinality(Ahead(rows, rank, a)) = i - 1
      /\ sorted = [i \in 1 .. n |-> sorted[i]]
  <2> DEFINE Pick(i) == CHOOSE a \in rows : Cardinality(Ahead(rows, rank, a)) = i - 1
  <2>1. sorted = [i \in 1 .. n |-> Pick(i)]
    BY DEF Sorted, Ahead
  <2> HIDE DEF sorted, n, Pick
  <2>2. DOMAIN sorted = 1 .. n /\ \A i \in 1 .. n : sorted[i] = Pick(i)
    BY <2>1
  <2>3. sorted = [i \in 1 .. n |-> sorted[i]]
    BY <2>1
  <2>4. QED
    BY <2>2, <2>3 DEF Pick
<1>6. ASSUME NEW i \in 1 .. n
      PROVE  sorted[i] \in rows /\ Place(rows, rank, sorted[i]) = i
  <2>1. PICK a \in rows : Place(rows, rank, a) = i
    BY <1>4
  <2>2. Cardinality(Ahead(rows, rank, a)) \in Nat
    <3>1. IsFiniteSet(Ahead(rows, rank, a))
      BY FS_Subset DEF Ahead
    <3>2. QED
      BY <3>1, FS_CardinalityType
  <2>3. Cardinality(Ahead(rows, rank, a)) = i - 1
    BY <2>1, <2>2 DEF Place
  <2>4. sorted[i] \in rows /\ Cardinality(Ahead(rows, rank, sorted[i])) = i - 1
    <3> HIDE DEF sorted, n
    <3>1. QED
      BY <1>5, <2>3
  <2>5. i \in Nat
    BY <1>1
  <2>6. QED
    BY <2>4, <2>5 DEF Place
<1>7. \A a \in rows : sorted[Place(rows, rank, a)] = a
  BY <1>1, <1>2, <1>6
<1>8. sorted \in Seq(rows) /\ Len(sorted) = n
  <2> HIDE DEF sorted, n
  <2>1. sorted \in [1 .. n -> rows]
    BY <1>5, <1>6
  <2>2. QED
    BY <1>1, <2>1
<1>9. QED
  BY <1>6, <1>7, <1>8

\* What a caller may read is ordered and finite, and no clause is in it more
\* than twice: once of the caller's own and once curated.
LEMMA VisibleOrdered ==
  ASSUME TypeOK, NEW o, NEW rank \in Ranks
  PROVE  IsFiniteSet(Visible(o)) /\ Ordered(Visible(o), rank) /\ AtMostTwice(Visible(o))
<1> DEFINE rows == Visible(o)
<1>1. ASSUME NEW a \in rows
      PROVE  /\ a.owner \in {Global, o} /\ a.fp \in Fps
             /\ a.n \in Int /\ a.born \in Int /\ rank[a.fp] \in Int
  <2>1. a \in RowType /\ a.owner \in {Global, o}
    BY DEF TypeOK, Visible, Readable
  <2>2. MaxCount \in Nat /\ MaxTime \in Nat /\ Cardinality(Fps) \in Nat
    BY ReadsAssumption, FS_CardinalityType
  <2>3. a.fp \in Fps /\ a.n \in 0 .. MaxCount /\ a.born \in 0 .. MaxTime
    BY <2>1, RowFields
  <2>4. rank[a.fp] \in 1 .. Cardinality(Fps)
    BY <2>3 DEF Ranks
  <2>5. QED
    BY <2>1, <2>2, <2>3, <2>4
<1>2. \A a, b \in rows : a.owner = b.owner /\ a.fp = b.fp => a = b
  BY DEF TypeOK, Visible
<1>3. \A f, g \in Fps : rank[f] = rank[g] => f = g
  BY DEF Ranks
<1>4. IsFiniteSet(rows)
  <2> DEFINE f == [a \in rows |-> <<a.owner, a.fp>>]
  <2>1. f \in [rows -> {Global, o} \X Fps]
    BY <1>1
  <2>2. \A a, b \in rows : f[a] = f[b] => a = b
    BY <1>2
  <2> HIDE DEF f, rows
  <2>3. f \in Injection(rows, {Global, o} \X Fps)
    BY <2>1, <2>2, Fun_IsInj
  <2>4. IsFiniteSet({Global, o})
    <3>1. IsFiniteSet({Global}) /\ IsFiniteSet({Global} \cup {o})
      BY FS_Singleton, FS_AddElement
    <3>2. {Global, o} = {Global} \cup {o}
      OBVIOUS
    <3>3. QED
      BY <3>1, <3>2
  <2>5. IsFiniteSet({Global, o} \X Fps)
    BY <2>4, ReadsAssumption, FS_Product
  <2>6. QED
    BY <2>3, <2>5, FS_Injection
<1> HIDE DEF rows
<1>5. ASSUME NEW a \in rows, NEW b \in rows, a # b
      PROVE  Before(rank, a, b) \/ Before(rank, b, a)
  <2>1. CASE a.owner # b.owner
    BY <1>1, <2>1 DEF Before
  <2>2. CASE a.owner = b.owner
    <3>1. a.fp # b.fp /\ rank[a.fp] # rank[b.fp]
      BY <1>1, <1>2, <1>3, <1>5, <2>2
    <3>2. QED
      BY <1>1, <2>2, <3>1 DEF Before
  <2>3. QED
    BY <2>1, <2>2
<1>6. \A a, b \in rows : ~(Before(rank, a, b) /\ Before(rank, b, a))
  BY <1>1 DEF Before
<1>7. \A a, b, c \in rows : Before(rank, a, b) /\ Before(rank, b, c) => Before(rank, a, c)
  BY <1>1 DEF Before
<1>8. \A a, b, c \in rows : a.fp = b.fp /\ b.fp = c.fp => a = b \/ b = c \/ a = c
  BY <1>1, <1>2
<1>9. QED
  BY <1>4, <1>5, <1>6, <1>7, <1>8 DEF Ordered, AtMostTwice, rows

-----------------------------------------------------------------------------
(***************************************************************************)
(* What the loop over the fetched rows keeps: of every clause the row that *)
(* comes first.                                                            *)
(***************************************************************************)

Best(rows, rank) ==
  {row \in rows : \A other \in rows : other.fp = row.fp => ~Before(rank, other, row)}

\* The best rows of the first i, in the order of all.
BestOf(rows, rank, i) == {row \in Best(rows, rank) : Place(rows, rank, row) <= i}

\* A row that is not the best of its clause comes behind the one that is.
LEMMA BetterIsBest ==
  ASSUME NEW rows, NEW rank, Ordered(rows, rank), AtMostTwice(rows),
         NEW a \in rows, a \notin Best(rows, rank)
  PROVE  \E b \in Best(rows, rank) : b.fp = a.fp /\ Before(rank, b, a)
<1>1. PICK b \in rows : b.fp = a.fp /\ Before(rank, b, a)
  BY DEF Best
<1>2. ASSUME NEW c \in rows, c.fp = b.fp, Before(rank, c, b)
      PROVE  FALSE
  <2>1. a # b /\ b # c /\ a # c
    BY <1>1, <1>2 DEF Ordered
  <2>2. QED
    BY <1>1, <1>2, <2>1 DEF AtMostTwice
<1>3. b \in Best(rows, rank)
  BY <1>2 DEF Best
<1>4. QED
  BY <1>1, <1>3

\* A part of an ordered set is ordered.
LEMMA BestOrdered ==
  ASSUME NEW rows, NEW rank, IsFiniteSet(rows), Ordered(rows, rank)
  PROVE  /\ Best(rows, rank) \subseteq rows /\ IsFiniteSet(Best(rows, rank))
         /\ Ordered(Best(rows, rank), rank)
         /\ \A i : /\ IsFiniteSet(BestOf(rows, rank, i))
                   /\ Cardinality(BestOf(rows, rank, i)) \in Nat
                   /\ Cardinality(BestOf(rows, rank, i)) <= Cardinality(Best(rows, rank))
<1>1. Best(rows, rank) \subseteq rows
  BY DEF Best
<1>2. IsFiniteSet(Best(rows, rank))
  BY <1>1, FS_Subset
<1>3. Ordered(Best(rows, rank), rank)
  BY <1>1 DEF Ordered
<1>4. ASSUME NEW i
      PROVE  /\ IsFiniteSet(BestOf(rows, rank, i))
             /\ Cardinality(BestOf(rows, rank, i)) \in Nat
             /\ Cardinality(BestOf(rows, rank, i)) <= Cardinality(Best(rows, rank))
  <2>1. BestOf(rows, rank, i) \subseteq Best(rows, rank)
    BY DEF BestOf
  <2>2. QED
    BY <1>2, <2>1, FS_Subset, FS_CardinalityType
<1>5. QED
  BY <1>1, <1>2, <1>3, <1>4

\* One more row: it is the best of its clause unless one of the best so far has
\* the clause, and then it is the next one of the best.
LEMMA BestGrows ==
  ASSUME NEW rows, NEW rank, IsFiniteSet(rows), Ordered(rows, rank), AtMostTwice(rows),
         NEW i \in 1 .. Cardinality(rows), NEW row, row = Sorted(rows, rank)[i]
  PROVE  /\ row \in Best(rows, rank) <=> \A a \in BestOf(rows, rank, i - 1) : a.fp # row.fp
         /\ row \notin Best(rows, rank) => BestOf(rows, rank, i) = BestOf(rows, rank, i - 1)
         /\ row \in Best(rows, rank) =>
              LET n == Cardinality(BestOf(rows, rank, i - 1))
              IN  /\ Cardinality(BestOf(rows, rank, i)) = n + 1
                  /\ Sorted(Best(rows, rank), rank)[n + 1] = row
<1> DEFINE best == Best(rows, rank)
           P == BestOf(rows, rank, i - 1)
<1>1. row \in rows /\ Place(rows, rank, row) = i /\ i \in Nat
  BY SortedByPlace, Places
<1>2. /\ best \subseteq rows /\ IsFiniteSet(best) /\ Ordered(best, rank)
      /\ IsFiniteSet(P) /\ Cardinality(P) \in Nat
  BY BestOrdered
<1>3. \A a \in rows : /\ Place(rows, rank, a) \in Nat
                      /\ Before(rank, a, row) <=> Place(rows, rank, a) < i
                      /\ Place(rows, rank, a) = i => a = row
  BY <1>1, Places
<1>4. P = {a \in best : Before(rank, a, row)}
  BY <1>1, <1>2, <1>3 DEF BestOf
<1>5. BestOf(rows, rank, i) = {a \in best : Before(rank, a, row) \/ a = row}
  BY <1>1, <1>2, <1>3 DEF BestOf
<1>6. row \in best => \A a \in P : a.fp # row.fp
  BY <1>2, <1>4 DEF Best
<1>7. row \notin best => \E a \in P : a.fp = row.fp
  BY <1>1, <1>4, BetterIsBest
<1>8. row \notin best => BestOf(rows, rank, i) = P
  BY <1>4, <1>5
<1>9. ASSUME row \in best
      PROVE  /\ Cardinality(BestOf(rows, rank, i)) = Cardinality(P) + 1
             /\ Sorted(best, rank)[Cardinality(P) + 1] = row
  <2>1. row \notin P
    BY <1>1, <1>4 DEF Ordered
  <2>2. BestOf(rows, rank, i) = P \cup {row}
    BY <1>4, <1>5, <1>9
  <2>3. Cardinality(P \cup {row}) = Cardinality(P) + 1
    BY <1>2, <2>1, FS_AddElement
  <2>4. Place(best, rank, row) = Cardinality(P) + 1
    BY <1>4 DEF Place, Ahead
  <2>5. Sorted(best, rank)[Place(best, rank, row)] = row
    BY <1>2, <1>9, SortedByPlace
  <2>6. QED
    BY <2>2, <2>3, <2>4, <2>5
<1>10. QED
  BY <1>6, <1>7, <1>8, <1>9

\* The best of the first i rows are the first ones of the best.
LEMMA BestComeFirst ==
  ASSUME NEW rows, NEW rank, IsFiniteSet(rows), Ordered(rows, rank), NEW i \in Int
  PROVE  BestOf(rows, rank, i) =
           {Sorted(Best(rows, rank), rank)[k] : k \in 1 .. Cardinality(BestOf(rows, rank, i))}
<1> DEFINE best == Best(rows, rank)
           P == BestOf(rows, rank, i)
           q == Sorted(best, rank)
<1>1. /\ best \subseteq rows /\ IsFiniteSet(best) /\ Ordered(best, rank)
      /\ IsFiniteSet(P) /\ Cardinality(P) \in Nat /\ Cardinality(P) <= Cardinality(best)
  BY BestOrdered
<1>2. Cardinality(best) \in Nat
  BY <1>1, FS_CardinalityType
<1>3. ASSUME NEW x \in P
      PROVE  \E k \in 1 .. Cardinality(P) : q[k] = x
  <2>1. x \in best /\ Place(rows, rank, x) <= i
    BY DEF BestOf
  <2>2. Ahead(best, rank, x) \subseteq P
    <3>1. ASSUME NEW a \in best, Before(rank, a, x)
          PROVE  a \in P
      <4>1. Place(rows, rank, a) < Place(rows, rank, x)
        BY <1>1, <2>1, <3>1, Places
      <4>2. Place(rows, rank, a) \in Int /\ Place(rows, rank, x) \in Int
        BY <1>1, <2>1, Places
      <4>3. QED
        BY <2>1, <4>1, <4>2 DEF BestOf
    <3>2. QED
      BY <3>1 DEF Ahead
  <2>3. x \notin Ahead(best, rank, x)
    BY <1>1, <2>1 DEF Ahead, Ordered
  <2>4. /\ Cardinality(Ahead(best, rank, x)) <= Cardinality(P)
        /\ Cardinality(Ahead(best, rank, x)) # Cardinality(P)
    BY <1>1, <2>2, <2>3, FS_Subset
  <2>5. Cardinality(Ahead(best, rank, x)) \in Nat
    BY <1>1, <2>2, FS_Subset, FS_CardinalityType
  <2>6. Place(best, rank, x) \in 1 .. Cardinality(P)
    BY <1>1, <2>4, <2>5 DEF Place
  <2>7. q[Place(best, rank, x)] = x
    BY <1>1, <2>1, SortedByPlace
  <2>8. QED
    BY <2>6, <2>7
<1>4. ASSUME NEW k \in 1 .. Cardinality(P)
      PROVE  q[k] \in P
  <2>1. k \in 1 .. Cardinality(best)
    BY <1>1, <1>2
  <2>2. q[k] \in best /\ Place(best, rank, q[k]) = k
    BY <1>1, <2>1, SortedByPlace
  <2>3. SUFFICES ASSUME q[k] \notin P
                 PROVE  FALSE
    OBVIOUS
  <2>4. P \subseteq Ahead(best, rank, q[k])
    <3>1. ASSUME NEW a \in P
          PROVE  Before(rank, a, q[k])
      <4>1. a \in best /\ Place(rows, rank, a) <= i
        BY DEF BestOf
      <4>2. ~(Place(rows, rank, q[k]) <= i)
        BY <2>2, <2>3 DEF BestOf
      <4>3. Place(rows, rank, a) \in Int /\ Place(rows, rank, q[k]) \in Int
        BY <1>1, <2>2, <4>1, Places
      <4>4. Place(rows, rank, a) < Place(rows, rank, q[k])
        BY <4>1, <4>2, <4>3
      <4>5. QED
        BY <1>1, <2>2, <4>1, <4>4, Places
    <3>2. P \subseteq best
      BY DEF BestOf
    <3>3. QED
      BY <3>1, <3>2 DEF Ahead
  <2>5. IsFiniteSet(Ahead(best, rank, q[k]))
    BY <1>1, FS_Subset DEF Ahead
  <2>6. /\ Cardinality(Ahead(best, rank, q[k])) \in Nat
        /\ Cardinality(P) <= Cardinality(Ahead(best, rank, q[k]))
    BY <2>4, <2>5, FS_Subset, FS_CardinalityType
  <2>7. QED
    BY <1>1, <2>2, <2>6 DEF Place
<1> HIDE DEF P, q
<1>5. P = {q[k] : k \in 1 .. Cardinality(P)}
  BY <1>3, <1>4
<1>6. QED
  BY <1>5 DEF P, q

\* Among the first i rows at least half are the best of their clause.
LEMMA HalfAreBest ==
  ASSUME NEW rows, NEW rank, IsFiniteSet(rows), Ordered(rows, rank), AtMostTwice(rows),
         NEW i \in 0 .. Cardinality(rows)
  PROVE  i <= 2 * Cardinality(BestOf(rows, rank, i))
<1> DEFINE best == Best(rows, rank)
           P == BestOf(rows, rank, i)
           Q == {a \in rows : Place(rows, rank, a) <= i}
           twin == [a \in Q \ P |-> CHOOSE b \in P : b.fp = a.fp]
<1>1. Cardinality(rows) \in Nat /\ i \in Nat
  BY Places
<1>2. /\ best \subseteq rows /\ IsFiniteSet(best) /\ Ordered(best, rank)
      /\ IsFiniteSet(P) /\ Cardinality(P) \in Nat
  BY BestOrdered
<1>3. IsFiniteSet(Q) /\ Cardinality(Q) = i
  <2> DEFINE f == [k \in 1 .. i |-> Sorted(rows, rank)[k]]
  <2>1. \A k \in 1 .. i : k \in 1 .. Cardinality(rows)
    BY <1>1
  <2>2. \A k \in 1 .. i : /\ Sorted(rows, rank)[k] \in rows
                          /\ Place(rows, rank, Sorted(rows, rank)[k]) = k
    BY <2>1, SortedByPlace
  <2>3. f \in [1 .. i -> Q]
    BY <1>1, <2>2
  <2>4. \A k, m \in 1 .. i : f[k] = f[m] => k = m
    BY <2>2
  <2>5. ASSUME NEW a \in Q
        PROVE  \E k \in 1 .. i : f[k] = a
    <3>1. Place(rows, rank, a) \in 1 .. i
      BY <1>1, Places
    <3>2. Sorted(rows, rank)[Place(rows, rank, a)] = a
      BY SortedByPlace
    <3>3. QED
      BY <3>1, <3>2
  <2> HIDE DEF f, Q
  <2>6. f \in Bijection(1 .. i, Q)
    BY <2>3, <2>4, <2>5, Fun_IsBij
  <2>7. ExistsBijection(1 .. i, Q)
    BY <2>6 DEF ExistsBijection
  <2>8. IsFiniteSet(Q) /\ Cardinality(Q) = i
    BY <1>1, <2>7, FS_CountingElements, FS_NatBijection
  <2>9. QED
    BY <2>8
<1>4. P \subseteq Q
  BY <1>2 DEF BestOf
<1>5. ASSUME NEW a \in Q \ P
      PROVE  \E b \in P : b.fp = a.fp
  <2>1. a \in rows /\ a \notin best /\ Place(rows, rank, a) <= i
    BY DEF BestOf
  <2>2. PICK b \in best : b.fp = a.fp /\ Before(rank, b, a)
    BY <2>1, BetterIsBest
  <2>3. Place(rows, rank, b) < Place(rows, rank, a)
    BY <1>2, <2>1, <2>2, Places
  <2>4. Place(rows, rank, b) \in Int /\ Place(rows, rank, a) \in Int
    BY <1>2, <2>1, Places
  <2>5. b \in P
    BY <1>1, <2>1, <2>3, <2>4 DEF BestOf
  <2>6. QED
    BY <2>2, <2>5
<1>6. \A a \in Q \ P : twin[a] \in P /\ twin[a].fp = a.fp
  <2> HIDE DEF P, Q
  <2>1. QED
    BY <1>5
<1>7. \A a, b \in Q \ P : twin[a] = twin[b] => a = b
  <2> SUFFICES ASSUME NEW a \in Q \ P, NEW b \in Q \ P, twin[a] = twin[b]
               PROVE  a = b
    OBVIOUS
  <2>1. a \in rows /\ b \in rows /\ twin[a] \in rows
    BY <1>2, <1>6 DEF BestOf
  <2>2. twin[a] # a /\ twin[a] # b
    BY <1>6
  <2>3. twin[a].fp = a.fp /\ twin[a].fp = b.fp
    BY <1>6
  <2> HIDE DEF twin
  <2>4. QED
    BY <2>1, <2>2, <2>3 DEF AtMostTwice
<1> HIDE DEF P, Q
<1>8. twin \in [Q \ P -> P]
  BY <1>6
<1> HIDE DEF twin
<1>9. twin \in Injection(Q \ P, P)
  BY <1>7, <1>8, Fun_IsInj
<1>10. Cardinality(Q \ P) <= Cardinality(P)
  BY <1>2, <1>9, FS_Injection
<1>11. Q \cap P = P
  BY <1>4
<1>12. Cardinality(Q \ P) = i - Cardinality(P)
  BY <1>3, <1>11, FS_Difference
<1>13. i <= 2 * Cardinality(P)
  BY <1>1, <1>2, <1>10, <1>12
<1>14. QED
  BY <1>13 DEF P

LEMMA TakeIsPrefix ==
  ASSUME NEW S, NEW q \in Seq(S), NEW n \in Nat
  PROVE  /\ Take(q, n) \in Seq(S)
         /\ Len(Take(q, n)) = IF Len(q) < n THEN Len(q) ELSE n
         /\ \A i \in 1 .. Len(Take(q, n)) : i \in 1 .. Len(q) /\ Take(q, n)[i] = q[i]
<1> DEFINE m == IF Len(q) < n THEN Len(q) ELSE n
<1>1. Len(q) \in Nat
  BY LenProperties
<1>2. m \in Nat /\ m <= Len(q)
  BY <1>1
<1>3. Take(q, n) = SubSeq(q, 1, m)
  BY DEF Take
<1> HIDE DEF m
<1>4. \A i \in 1 .. m : i \in 1 .. Len(q) /\ q[i] \in S
  BY <1>1, <1>2, ElementOfSeq
<1>5. /\ SubSeq(q, 1, m) \in Seq(S)
      /\ Len(SubSeq(q, 1, m)) = m
      /\ \A i \in 1 .. m : SubSeq(q, 1, m)[i] = q[i]
  BY <1>2, <1>4, SubSeqProperties
<1>6. QED
  BY <1>3, <1>4, <1>5 DEF m

\* The loop ends with the best rows, as many as fit: the dedupe cannot shrink
\* what twice the cap has brought.
LEMMA GatheredIsBest ==
  ASSUME NEW rows, NEW rank, IsFiniteSet(rows), Ordered(rows, rank), AtMostTwice(rows)
  PROVE  Gathered(Take(Sorted(rows, rank), 2 * Limit))
           = Take(Sorted(Best(rows, rank), rank), Limit)
<1> DEFINE n == Cardinality(rows)
           best == Best(rows, rank)
           q == Sorted(best, rank)
           fetched == Take(Sorted(rows, rank), 2 * Limit)
           m == Len(fetched)
           c(i) == Cardinality(BestOf(rows, rank, i))
           Step(p, i) == IF Len(p) = Limit \/ fetched[i].fp \in ShownFps(p) THEN p
                         ELSE Append(p, fetched[i])
           round == [i \in 1 .. m |-> [p \in Seq(rows) |-> Step(p, i)]]
           Loop(p) == [i \in 0 .. m |-> IF i = 0 THEN << >> ELSE Step(p[i - 1], i)]
<1>1. n \in Nat /\ Limit \in Nat /\ Limit > 0 /\ 2 * Limit \in Nat
  BY FS_CardinalityType, ReadsAssumption
<1>2. /\ Sorted(rows, rank) \in Seq(rows) /\ Len(Sorted(rows, rank)) = n
  BY SortedByPlace
<1>3. /\ fetched \in Seq(rows) /\ m = (IF n < 2 * Limit THEN n ELSE 2 * Limit)
      /\ \A i \in 1 .. m : i \in 1 .. n /\ fetched[i] = Sorted(rows, rank)[i]
  <2> HIDE DEF n
  <2>1. QED
    BY <1>1, <1>2, TakeIsPrefix
<1>4. m \in Nat /\ m <= n /\ \A i \in 1 .. m : fetched[i] \in rows
  <2>1. m \in Nat /\ m <= n
    BY <1>1, <1>3
  <2>2. \A i \in 1 .. m : fetched[i] \in rows
    BY <1>3, ElementOfSeq
  <2>3. QED
    BY <2>1, <2>2
<1>5. /\ best \subseteq rows /\ IsFiniteSet(best) /\ Ordered(best, rank)
      /\ \A i : c(i) \in Nat /\ c(i) <= Cardinality(best)
  BY BestOrdered
<1>6. /\ Cardinality(best) \in Nat /\ q \in Seq(best) /\ Len(q) = Cardinality(best)
      /\ \A k \in 1 .. Cardinality(best) : q[k] \in rows
  <2>1. Cardinality(best) \in Nat /\ q \in Seq(best) /\ Len(q) = Cardinality(best)
    BY <1>5, SortedByPlace, FS_CardinalityType
  <2>2. \A k \in 1 .. Cardinality(best) : q[k] \in rows
    BY <1>5, SortedByPlace
  <2>3. QED
    BY <2>1, <2>2
<1> HIDE DEF fetched, m, n, best, q, c
<1>7. round \in [1 .. m -> [Seq(rows) -> Seq(rows)]]
  BY <1>4, AppendProperties
<1>8. PICK loop \in [0 .. m -> Seq(rows)] :
        loop[0] = << >> /\ \A i \in 1 .. m : loop[i] = round[i][loop[i - 1]]
  <2> DEFINE V == Seq(rows)
             first == << >>
  <2>1. first \in V
    BY EmptySeq
  <2>2. round \in [1 .. m -> [V -> V]]
    BY <1>7
  <2> HIDE DEF round, V, first
  <2>3. m \in Nat
    BY <1>4
  <2>4. \E loop \in [0 .. m -> V] : IsLoop(loop, m, first, round)
    BY <2>1, <2>2, <2>3, Looping
  <2>5. QED
    BY <2>4 DEF V, first, IsLoop
<1>9. loop = Loop(loop)
  <2>1. \A i \in 1 .. m : i - 1 \in 0 .. m /\ loop[i - 1] \in Seq(rows)
    <3>1. \A i \in 1 .. m : i - 1 \in 0 .. m
      BY <1>4
    <3> HIDE DEF round
    <3>2. QED
      BY <3>1
  <2>2. \A i \in 1 .. m : round[i][loop[i - 1]] = Step(loop[i - 1], i)
    BY <2>1
  <2> HIDE DEF round, Step
  <2>3. \A i \in 0 .. m : i # 0 => i \in 1 .. m
    BY <1>4
  <2>4. QED
    BY <1>8, <2>2, <2>3
<1> DEFINE patterns == CHOOSE p : p = Loop(p)
<1>10. patterns = Loop(patterns)
  <2> HIDE DEF Loop
  <2>1. QED
    BY <1>9
<1>11. Gathered(fetched) = patterns[m]
  BY DEF Gathered, m
<1>12. patterns[0] = << >> /\ \A i \in 1 .. m : patterns[i] = Step(patterns[i - 1], i)
  <2> HIDE DEF patterns, Step
  <2>1. 0 \in 0 .. m /\ \A i \in 1 .. m : i \in 0 .. m /\ i # 0
    BY <1>4
  <2>2. QED
    BY <1>10, <2>1
<1> HIDE DEF patterns, round
<1> DEFINE Capped(k) == IF k < Limit THEN k ELSE Limit
           Begins(p, k) == /\ p \in Seq(rows) /\ Len(p) = Capped(k)
                           /\ \A j \in 1 .. Len(p) : p[j] = q[j]
           Good == {i \in 0 .. m : Begins(patterns[i], c(i))}
<1>13. 0 \in Good
  <2>1. c(0) = 0
    <3>1. \A a \in best : Place(rows, rank, a) > 0
      BY <1>5, Places
    <3>2. BestOf(rows, rank, 0) = {}
      <4>1. \A a \in best : Place(rows, rank, a) \in Nat
        BY <1>5, Places
      <4>2. QED
        BY <3>1, <4>1 DEF BestOf, best
    <3>3. QED
      BY <3>2, FS_EmptySet DEF c
  <2>2. patterns[0] \in Seq(rows) /\ Len(patterns[0]) = 0
    BY <1>12, EmptySeq
  <2>3. QED
    BY <1>1, <1>4, <2>1, <2>2
<1>14. ASSUME NEW i \in 0 .. m, i # m, i \in Good
       PROVE  i + 1 \in Good
  <2> DEFINE p == patterns[i]
             row == fetched[i + 1]
  <2>1. i \in Nat /\ i + 1 \in 1 .. m /\ i + 1 \in 0 .. m /\ (i + 1) - 1 = i
    BY <1>4, <1>14
  <2>2. Begins(p, c(i))
    BY <1>14
  <2>3. patterns[i + 1] = Step(p, i + 1)
    BY <1>12, <2>1
  <2>4. row \in rows /\ i + 1 \in 1 .. n /\ row = Sorted(rows, rank)[i + 1]
    BY <1>3, <1>4, <2>1
  <2>5. /\ row \in best <=> \A a \in BestOf(rows, rank, i) : a.fp # row.fp
        /\ row \notin best => c(i + 1) = c(i)
        /\ row \in best => c(i + 1) = c(i) + 1 /\ q[c(i) + 1] = row
    BY <2>1, <2>4, BestGrows DEF n, best, q, c
  <2>6. c(i) \in Nat /\ c(i + 1) \in Nat
    BY <1>5
  <2> HIDE DEF p, row
  <2>7. CASE Len(p) = Limit
    <3>1. c(i) >= Limit /\ c(i + 1) >= Limit
      BY <1>1, <2>2, <2>5, <2>6, <2>7
    <3>2. patterns[i + 1] = p
      BY <2>3, <2>7
    <3>3. Begins(p, c(i + 1))
      BY <1>1, <2>2, <2>6, <2>7, <3>1
    <3>4. QED
      BY <2>1, <3>2, <3>3
  <2>8. CASE Len(p) # Limit
    <3>1. c(i) < Limit /\ Len(p) = c(i)
      BY <1>1, <2>2, <2>6, <2>8
    <3>2. BestOf(rows, rank, i) = {q[k] : k \in 1 .. c(i)}
      BY <2>1, BestComeFirst DEF q, best, c
    <3>3. ShownFps(p) = {a.fp : a \in BestOf(rows, rank, i)}
      BY <2>2, <3>1, <3>2 DEF ShownFps
    <3>4. row \in best <=> row.fp \notin ShownFps(p)
      BY <2>5, <3>3
    <3>5. CASE row \notin best
      <4>1. patterns[i + 1] = p
        BY <2>3, <3>4, <3>5 DEF row
      <4>2. QED
        BY <2>1, <2>2, <2>5, <3>5, <4>1
    <3>6. CASE row \in best
      <4>1. patterns[i + 1] = Append(p, row)
        BY <2>3, <2>8, <3>4, <3>6 DEF row
      <4>2. /\ Append(p, row) \in Seq(rows) /\ Len(Append(p, row)) = c(i) + 1
            /\ \A j \in 1 .. c(i) : Append(p, row)[j] = p[j]
            /\ Append(p, row)[c(i) + 1] = row
        BY <2>2, <2>4, <3>1, AppendProperties
      <4>3. \A j \in 1 .. c(i) + 1 : Append(p, row)[j] = q[j]
        BY <2>2, <2>5, <2>6, <3>1, <3>6, <4>2
      <4>4. Capped(c(i) + 1) = c(i) + 1
        BY <1>1, <2>6, <3>1
      <4>5. Begins(Append(p, row), c(i + 1))
        BY <2>5, <3>6, <4>2, <4>3, <4>4
      <4>6. QED
        BY <2>1, <4>1, <4>5
    <3>7. QED
      BY <3>5, <3>6
  <2>9. QED
    BY <2>7, <2>8
<1>15. m \in Good
  <2> HIDE DEF Good
  <2>1. \A i \in 0 .. m : i # m /\ i \in Good => i + 1 \in Good
    BY <1>14
  <2>2. \A i \in 0 .. m : i \in Good
    BY <1>4, <1>13, <2>1, Counting
  <2>3. QED
    BY <1>4, <2>2
<1>16. Capped(c(m)) = Capped(Cardinality(best))
  <2>1. CASE n < 2 * Limit
    <3>1. m = n
      BY <1>3, <2>1
    <3>2. BestOf(rows, rank, n) = best
      <4>1. \A a \in best : Place(rows, rank, a) <= n
        BY <1>1, <1>5, Places DEF n
      <4>2. QED
        BY <4>1 DEF BestOf, best
    <3>3. QED
      BY <3>1, <3>2 DEF c
  <2>2. CASE ~(n < 2 * Limit)
    <3>1. m = 2 * Limit /\ m \in 0 .. n
      BY <1>1, <1>3, <1>4, <2>2
    <3>2. m <= 2 * c(m)
      BY <3>1, HalfAreBest DEF n, c
    <3>3. c(m) \in Nat /\ c(m) <= Cardinality(best)
      BY <1>5
    <3>4. c(m) >= Limit /\ Cardinality(best) >= Limit
      BY <1>1, <1>6, <3>1, <3>2, <3>3
    <3>5. QED
      BY <1>1, <1>6, <3>3, <3>4
  <2>3. QED
    BY <2>1, <2>2
<1> DEFINE taken == Take(q, Limit)
<1>17. /\ taken \in Seq(best) /\ Len(taken) = Capped(Cardinality(best))
       /\ \A j \in 1 .. Len(taken) : taken[j] = q[j]
  BY <1>1, <1>6, TakeIsPrefix
<1>18. taken \in Seq(rows)
  BY <1>5, <1>17, SeqMonotonic
<1>19. Begins(patterns[m], c(m))
  BY <1>15
<1> HIDE DEF taken, Capped
<1>20. patterns[m] = taken
  BY <1>16, <1>17, <1>18, <1>19, SeqEqual
<1>21. QED
  BY <1>11, <1>20 DEF fetched, taken, q, best

\* skill_store.py:102-104: for every cap, table and order of equal rows, a prompt
\* has the best row of each clause the caller may read, best first.
THEOREM PromptsAreTheBest == Spec => []PatternsAreTheBest
<1>1. TypeOK => PatternsAreTheBest
  <2> SUFFICES ASSUME TypeOK, NEW o \in Callers, NEW rank \in Ranks
               PROVE  Patterns(o, rank) = Reference(o, rank)
    BY DEF PatternsAreTheBest
  <2>1. IsFiniteSet(Visible(o)) /\ Ordered(Visible(o), rank) /\ AtMostTwice(Visible(o))
    BY VisibleOrdered
  <2>2. Patterns(o, rank) = Gathered(Take(Sorted(Visible(o), rank), 2 * Limit))
    BY DEF Patterns, Fetched
  <2>3. Reference(o, rank) = Take(Sorted(Best(Visible(o), rank), rank), Limit)
    BY DEF Reference, Best
  <2>4. QED
    BY <2>1, <2>2, <2>3, GatheredIsBest
<1>2. QED
  BY <1>1, TypeCorrect, PTL

\* The ordering puts an owner's own sighting of a clause before the curated row
\* of it, so the own one is shown.
THEOREM OwnRowsAreShown == Spec => []OwnRowIsShown
<1>1. TypeOK /\ Classified => OwnRowIsShown
  <2> SUFFICES ASSUME TypeOK, Classified, NEW o \in Owners, NEW rank \in Ranks,
                      NEW row \in ToSet(Patterns(o, rank)), row.fp \in FpsOf(o)
               PROVE  row.owner = o
    BY DEF OwnRowIsShown
  <2> DEFINE best == Best(Visible(o), rank)
  <2>1. IsFiniteSet(Visible(o)) /\ Ordered(Visible(o), rank) /\ AtMostTwice(Visible(o))
    BY VisibleOrdered
  <2>2. Patterns(o, rank) = Take(Sorted(best, rank), Limit)
    BY <2>1, GatheredIsBest DEF Patterns, Fetched
  <2>3. best \subseteq Visible(o) /\ IsFiniteSet(best) /\ Ordered(best, rank)
    BY <2>1, BestOrdered
  <2> HIDE DEF best
  <2>4. Sorted(best, rank) \in Seq(best) /\ Limit \in Nat
    BY <2>3, SortedByPlace, ReadsAssumption
  <2>5. Patterns(o, rank) \in Seq(best)
    BY <2>2, <2>4, TakeIsPrefix
  <2>6. row \in best
    BY <2>5, ElementOfSeq, LenProperties DEF ToSet
  <2>7. row \in table /\ row.owner \in {Global, o}
    BY <2>3, <2>6 DEF Visible, Readable
  <2>8. PICK own \in table : own.owner = o /\ own.fp = row.fp
    BY DEF FpsOf, RowsOf
  <2>9. own \in Visible(o)
    BY <2>8 DEF Visible, Readable
  <2>10. ~Before(rank, own, row)
    BY <2>6, <2>8, <2>9 DEF best, Best
  <2>11. o # Global /\ own.n > 0 /\ (row.owner = Global => row.n = 0)
    BY <2>7, <2>8, ReadsAssumption DEF Classified
  <2>12. CASE row.owner = Global
    <3>1. own.n > row.n
      BY <2>11, <2>12
    <3>2. QED
      BY <2>10, <3>1 DEF Before
  <2>13. QED
    BY <2>7, <2>12
<1>2. QED
  BY <1>1, TypeCorrect, PTL
=============================================================================
