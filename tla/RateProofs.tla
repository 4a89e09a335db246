----------------------------- MODULE RateProofs -----------------------------
(***************************************************************************)
(* Proofs about RateLimit, for any keys, processes, windows, limits and    *)
(* delays of Redis.                                                        *)
(***************************************************************************)
EXTENDS RateLimit, FiniteSetTheorems, TLAPS

LEMMA DivBounds ==
  ASSUME NEW a \in Nat, NEW d \in Nat \ {0}
  PROVE  a \div d \in Nat /\ (a \div d) * d <= a /\ a < (a \div d) * d + d
  OBVIOUS

LEMMA Product ==
  ASSUME NEW a \in Nat, NEW b \in Nat, NEW d \in Nat
  PROVE  /\ a * d \in Nat /\ (a + b) * d = a * d + b * d
         /\ a <= b => a * d <= b * d
  OBVIOUS

\* One more of what is counted fits into what is longer by one.
LEMMA DivNext ==
  ASSUME NEW a \in Nat, NEW b \in Nat, NEW d \in Nat \ {0}, a + d <= b
  PROVE  a \div d + 1 <= b \div d
<1> DEFINE q == a \div d
           r == b \div d
<1>1. q \in Nat /\ r \in Nat /\ q * d <= a /\ b < r * d + d
  BY DivBounds
<1> HIDE DEF q, r
<1>2. (q + 1) * d = q * d + d /\ (r + 1) * d = r * d + d
  BY <1>1
<1>3. ~(r + 1 <= q + 1)
  <2>1. r + 1 <= q + 1 => (r + 1) * d <= (q + 1) * d
    BY <1>1, Product
  <2>2. q * d \in Nat /\ r * d \in Nat
    BY <1>1, Product
  <2>3. QED
    BY <1>1, <1>2, <2>1, <2>2
<1>4. QED
  BY <1>1, <1>3 DEF q, r

LEMMA DivMonotone ==
  ASSUME NEW a \in Nat, NEW b \in Nat, NEW d \in Nat \ {0}, a <= b
  PROVE  a \div d <= b \div d
<1> DEFINE q == a \div d
           r == b \div d
<1>1. q \in Nat /\ r \in Nat /\ q * d <= a /\ b < r * d + d
  BY DivBounds
<1> HIDE DEF q, r
<1>2. (r + 1) * d = r * d + d /\ q * d \in Nat /\ r * d \in Nat
  BY <1>1, Product
<1>3. ~(r + 1 <= q)
  <2>1. r + 1 <= q => (r + 1) * d <= q * d
    BY <1>1, Product
  <2>2. QED
    BY <1>1, <1>2, <2>1
<1>4. QED
  BY <1>1, <1>3 DEF q, r

-----------------------------------------------------------------------------
LEMMA TicksType ==
  ASSUME NEW k \in Keys
  PROVE  Ticks(k) \in Nat \ {0}
<1>1. Window[k] \in Nat \ {0} /\ Second \in Nat \ {0}
  BY RateAssumption
<1>2. QED
  BY <1>1 DEF Ticks

\* A moment is in the window that is computed for it.
LEMMA InWindow ==
  ASSUME NEW k \in Keys, NEW now \in Nat
  PROVE  /\ WindowStart(k, now) \in Nat /\ WindowStart(k, now) <= now
         /\ now < WindowStart(k, now) + Ticks(k)
<1>1. Ticks(k) \in Nat \ {0}
  BY TicksType
<1> HIDE DEF Ticks
<1>2. now \div Ticks(k) \in Nat
  BY <1>1, DivBounds
<1>3. QED
  BY <1>1, <1>2, DivBounds, Product DEF WindowStart

LEMMA WindowsFollow ==
  ASSUME NEW k \in Keys, NEW a \in Nat, NEW b \in Nat, a <= b
  PROVE  WindowStart(k, a) <= WindowStart(k, b)
<1>1. Ticks(k) \in Nat \ {0}
  BY TicksType
<1>2. a \div Ticks(k) \in Nat /\ b \div Ticks(k) \in Nat /\ a \div Ticks(k) <= b \div Ticks(k)
  BY <1>1, DivBounds, DivMonotone
<1>3. QED
  BY <1>1, <1>2, Product DEF WindowStart

-----------------------------------------------------------------------------
LEMMA InitTypeOK == Init => TypeOK
<1> SUFFICES ASSUME Init PROVE TypeOK
  OBVIOUS
<1>1. /\ 0 \in Times /\ 0 \in 0 .. MaxRestarts /\ 0 \in 0 .. MaxHits
      /\ NoCount \in [n : Nat, until : Nat]
  BY RateAssumption DEF Times, NoCount
<1>2. << >> \in [{} -> [start : Times, n : Nat \ {0}]]
  OBVIOUS
<1>3. << >> \in UNION {[K -> [start : Times, n : Nat \ {0}]] : K \in SUBSET Keys}
  BY <1>2
<1>4. QED
  BY <1>1, <1>3 DEF Init, TypeOK

\* The call of a process: its key and its window.
KeyOf(p) == call[p].key

StartOf(p) == WindowStart(call[p].key, call[p].now)

LEMMA CallTypes ==
  ASSUME TypeOK, NEW p \in Procs, call[p] # NoCall
  PROVE  /\ KeyOf(p) \in Keys /\ call[p].now \in Times /\ call[p].now \in Nat
         /\ StartOf(p) \in Times /\ StartOf(p) <= call[p].now
         /\ call[p].now < StartOf(p) + Ticks(KeyOf(p)) /\ Ticks(KeyOf(p)) \in Nat \ {0}
<1>1. call[p] \in [key : Keys, now : Times]
  BY DEF TypeOK
<1>2. KeyOf(p) \in Keys /\ call[p].now \in Times /\ call[p].now \in Nat
  BY <1>1, RateAssumption DEF KeyOf, Times
<1>3. /\ StartOf(p) \in Nat /\ StartOf(p) <= call[p].now
      /\ call[p].now < StartOf(p) + Ticks(KeyOf(p))
  BY <1>2, InWindow DEF StartOf, KeyOf
<1>4. StartOf(p) \in Times
  BY <1>2, <1>3, RateAssumption DEF Times
<1>5. QED
  BY <1>2, <1>3, <1>4, TicksType

\* What one INCR does.
LEMMA IncrEffect ==
  ASSUME TypeOK, NEW k \in Keys, NEW s \in Times, Incr(k, s)
  PROVE  /\ redis' \in [Keys -> [Times -> [n : Nat, until : Nat]]]
         /\ redis'[k][s].n = redis[k][s].n + 1
         /\ redis'[k][s].until = clock + Ticks(k) + Second
         /\ \A j \in Keys, t \in Times : j # k \/ t # s => redis'[j][t] = redis[j][t]
<1>1. redis[k][s] \in [n : Nat, until : Nat] /\ redis[k] \in [Times -> [n : Nat, until : Nat]]
  BY DEF TypeOK
<1>2. Expiry(k) \in Nat /\ Expiry(k) = clock + Ticks(k) + Second
  <2>1. Ticks(k) \in Nat
    BY TicksType
  <2>2. clock \in Nat /\ Second \in Nat
    BY RateAssumption DEF TypeOK, Times
  <2>3. QED
    BY <2>1, <2>2 DEF Expiry
<1>3. redis' = [redis EXCEPT ![k][s] = [n |-> redis[k][s].n + 1, until |-> Expiry(k)]]
  BY DEF Incr
<1> DEFINE c == [n |-> redis[k][s].n + 1, until |-> Expiry(k)]
<1>4. c \in [n : Nat, until : Nat] /\ c.n = redis[k][s].n + 1 /\ c.until = Expiry(k)
  BY <1>1, <1>2
<1> HIDE DEF c
<1>5. redis' = [redis EXCEPT ![k][s] = c]
  BY <1>3 DEF c
<1>6. QED
  BY <1>2, <1>4, <1>5 DEF TypeOK

LEMMA RedisHit ==
  ASSUME TypeOK, NEW p \in Procs, HitRedis(p)
  PROVE  /\ call[p] # NoCall /\ Incr(KeyOf(p), StartOf(p))
         /\ call' = [call EXCEPT ![p] = NoCall]
         /\ UNCHANGED <<clock, restarts, local, hits, attempts, byLocal>>
         /\ \/ /\ redis'[KeyOf(p)][StartOf(p)].n <= Limit
               /\ byRedis' = [byRedis EXCEPT ![KeyOf(p)][StartOf(p)] = @ + 1]
            \/ redis'[KeyOf(p)][StartOf(p)].n > Limit /\ UNCHANGED byRedis
  BY DEF HitRedis, KeyOf, StartOf, Answer

LEMMA AddOne ==
  ASSUME NEW counts \in [Keys -> [Times -> Nat]], NEW k \in Keys, NEW s \in Times
  PROVE  /\ [counts EXCEPT ![k][s] = @ + 1] \in [Keys -> [Times -> Nat]]
         /\ [counts EXCEPT ![k][s] = @ + 1][k][s] = counts[k][s] + 1
         /\ \A j \in Keys, t \in Times :
              j # k \/ t # s => [counts EXCEPT ![k][s] = @ + 1][j][t] = counts[j][t]
<1>1. counts[k][s] \in Nat /\ counts[k][s] + 1 \in Nat
  OBVIOUS
<1> DEFINE c == counts[k][s] + 1
<1> HIDE DEF c
<1>2. [counts EXCEPT ![k][s] = @ + 1] = [counts EXCEPT ![k][s] = c]
  BY DEF c
<1>3. c \in Nat
  BY <1>1 DEF c
<1>4. QED
  BY <1>2, <1>3 DEF c

\* The count of Redis decides.
LEMMA RedisEffect ==
  ASSUME TypeOK, NEW p \in Procs, HitRedis(p)
  PROVE  /\ byRedis' \in [Keys -> [Times -> Nat]]
         /\ \A k \in Keys, s \in Times :
              k # KeyOf(p) \/ s # StartOf(p) => byRedis'[k][s] = byRedis[k][s]
         /\ \/ /\ redis'[KeyOf(p)][StartOf(p)].n <= Limit
               /\ byRedis'[KeyOf(p)][StartOf(p)] = byRedis[KeyOf(p)][StartOf(p)] + 1
            \/ redis'[KeyOf(p)][StartOf(p)].n > Limit /\ UNCHANGED byRedis
<1>1. call[p] # NoCall
  BY RedisHit
<1>2. KeyOf(p) \in Keys /\ StartOf(p) \in Times /\ byRedis \in [Keys -> [Times -> Nat]]
  BY <1>1, CallTypes DEF TypeOK
<1>3. CASE /\ redis'[KeyOf(p)][StartOf(p)].n <= Limit
           /\ byRedis' = [byRedis EXCEPT ![KeyOf(p)][StartOf(p)] = @ + 1]
  BY <1>2, <1>3, AddOne
<1>4. CASE redis'[KeyOf(p)][StartOf(p)].n > Limit /\ UNCHANGED byRedis
  BY <1>2, <1>4
<1>5. QED
  BY <1>3, <1>4, RedisHit

\* The count of a hit in the process's own memory.
CountOf(p) == LocalCount(p, KeyOf(p), StartOf(p))

LEMMA LocalHit ==
  ASSUME TypeOK, NEW p \in Procs, HitLocal(p)
  PROVE  /\ call[p] # NoCall
         /\ Incr(KeyOf(p), StartOf(p)) \/ UNCHANGED redis
         /\ call' = [call EXCEPT ![p] = NoCall]
         /\ UNCHANGED <<clock, restarts, hits, attempts, byRedis>>
         /\ local' = [local EXCEPT ![p] =
              [j \in Kept(p, StartOf(p)) \cup {KeyOf(p)} |->
                 IF j = KeyOf(p) THEN [start |-> StartOf(p), n |-> CountOf(p)] ELSE local[p][j]]]
         /\ \/ /\ CountOf(p) <= Limit
               /\ byLocal' = [byLocal EXCEPT ![p][KeyOf(p)][StartOf(p)] = @ + 1]
            \/ CountOf(p) > Limit /\ UNCHANGED byLocal
  BY DEF HitLocal, KeyOf, StartOf, CountOf, Answer

Entry == [start : Times, n : Nat \ {0}]

LEMMA EntryTypes ==
  ASSUME TypeOK, NEW p \in Procs
  PROVE  DOMAIN local[p] \subseteq Keys /\ \A k \in DOMAIN local[p] : local[p][k] \in Entry
<1>1. PICK K \in SUBSET Keys : local[p] \in [K -> Entry]
  BY DEF TypeOK, Entry
<1>2. QED
  BY <1>1

\* What the memory holds after a hit.
LEMMA LocalEffect ==
  ASSUME TypeOK, NEW p \in Procs, HitLocal(p)
  PROVE  /\ local' \in [Procs -> UNION {[K -> Entry] : K \in SUBSET Keys}]
         /\ \A q \in Procs \ {p} : local'[q] = local[q]
         /\ DOMAIN local'[p] = Kept(p, StartOf(p)) \cup {KeyOf(p)}
         /\ local'[p][KeyOf(p)].start = StartOf(p) /\ local'[p][KeyOf(p)].n = CountOf(p)
         /\ \A j \in Kept(p, StartOf(p)) : j # KeyOf(p) => local'[p][j] = local[p][j]
         /\ CountOf(p) \in Nat \ {0}
<1> DEFINE K == Kept(p, StartOf(p)) \cup {KeyOf(p)}
           e == [start |-> StartOf(p), n |-> CountOf(p)]
           f == [j \in K |-> IF j = KeyOf(p) THEN e ELSE local[p][j]]
<1>1. call[p] # NoCall /\ local' = [local EXCEPT ![p] = f]
  BY LocalHit
<1>2. KeyOf(p) \in Keys /\ StartOf(p) \in Times
  BY <1>1, CallTypes
<1>3. Kept(p, StartOf(p)) \subseteq DOMAIN local[p]
  BY DEF Kept
<1>4. DOMAIN local[p] \subseteq Keys /\ \A k \in DOMAIN local[p] : local[p][k] \in Entry
  BY EntryTypes
<1>5. CountOf(p) \in Nat \ {0}
  <2>1. KeyOf(p) \in Kept(p, StartOf(p)) => local[p][KeyOf(p)].n \in Nat
    BY <1>3, <1>4 DEF Entry
  <2>2. QED
    BY <2>1 DEF CountOf, LocalCount
<1>6. e \in Entry /\ e.start = StartOf(p) /\ e.n = CountOf(p)
  BY <1>2, <1>5 DEF Entry
<1> HIDE DEF e
<1>7. K \in SUBSET Keys /\ f \in [K -> Entry]
  BY <1>2, <1>3, <1>4, <1>6
<1>8. f \in UNION {[J -> Entry] : J \in SUBSET Keys}
  BY <1>7
<1>9. /\ DOMAIN f = K /\ f[KeyOf(p)] = e
      /\ \A j \in Kept(p, StartOf(p)) : j # KeyOf(p) => f[j] = local[p][j]
  OBVIOUS
<1>10. local \in [Procs -> UNION {[J -> Entry] : J \in SUBSET Keys}]
  BY DEF TypeOK, Entry
<1> HIDE DEF f
<1>11. local' \in [Procs -> UNION {[J -> Entry] : J \in SUBSET Keys}]
       /\ local'[p] = f /\ \A q \in Procs \ {p} : local'[q] = local[q]
  BY <1>1, <1>8, <1>10
<1>12. QED
  BY <1>5, <1>6, <1>9, <1>11

\* The count of the process decides.
LEMMA LocalDecides ==
  ASSUME TypeOK, NEW p \in Procs, HitLocal(p)
  PROVE  /\ byLocal' \in [Procs -> [Keys -> [Times -> Nat]]]
         /\ \A q \in Procs \ {p} : byLocal'[q] = byLocal[q]
         /\ \A k \in Keys, s \in Times :
              k # KeyOf(p) \/ s # StartOf(p) => byLocal'[p][k][s] = byLocal[p][k][s]
         /\ \/ /\ CountOf(p) <= Limit
               /\ byLocal'[p][KeyOf(p)][StartOf(p)] = byLocal[p][KeyOf(p)][StartOf(p)] + 1
            \/ CountOf(p) > Limit /\ UNCHANGED byLocal
<1>1. call[p] # NoCall
  BY LocalHit
<1>2. /\ KeyOf(p) \in Keys /\ StartOf(p) \in Times
      /\ byLocal \in [Procs -> [Keys -> [Times -> Nat]]]
      /\ byLocal[p] \in [Keys -> [Times -> Nat]]
  BY <1>1, CallTypes DEF TypeOK
<1>3. CASE /\ CountOf(p) <= Limit
           /\ byLocal' = [byLocal EXCEPT ![p][KeyOf(p)][StartOf(p)] = @ + 1]
  <2> DEFINE counts == byLocal[p]
             more == [counts EXCEPT ![KeyOf(p)][StartOf(p)] = @ + 1]
  <2>1. byLocal' = [byLocal EXCEPT ![p] = more]
    BY <1>2, <1>3
  <2>2. /\ more \in [Keys -> [Times -> Nat]]
        /\ more[KeyOf(p)][StartOf(p)] = counts[KeyOf(p)][StartOf(p)] + 1
        /\ \A k \in Keys, s \in Times :
             k # KeyOf(p) \/ s # StartOf(p) => more[k][s] = counts[k][s]
    <3>1. counts \in [Keys -> [Times -> Nat]]
      BY <1>2
    <3> HIDE DEF counts
    <3>2. QED
      BY <1>2, <3>1, AddOne
  <2> HIDE DEF more
  <2>3. byLocal'[p] = more /\ byLocal' \in [Procs -> [Keys -> [Times -> Nat]]]
        /\ \A q \in Procs \ {p} : byLocal'[q] = byLocal[q]
    BY <1>2, <2>1, <2>2
  <2>4. QED
    BY <1>3, <2>2, <2>3
<1>4. CASE CountOf(p) > Limit /\ UNCHANGED byLocal
  BY <1>2, <1>4
<1>5. QED
  BY <1>3, <1>4, LocalHit

LEMMA ForgetType ==
  ASSUME NEW counts \in [Keys -> [Times -> Nat]], NEW t \in Nat
  PROVE  /\ Forget(counts, t) \in [Keys -> [Times -> Nat]]
         /\ \A k \in Keys, s \in Times :
              Forget(counts, t)[k][s] = IF Over(k, s, t) THEN 0 ELSE counts[k][s]
<1>1. \A k \in Keys, s \in Times : counts[k][s] \in Nat
  OBVIOUS
<1>2. QED
  BY <1>1 DEF Forget

\* What is left when time has passed.
LEMMA TickEffect ==
  ASSUME TypeOK, Tick
  PROVE  /\ clock' = clock + 1 /\ clock' \in Times
         /\ redis' \in [Keys -> [Times -> [n : Nat, until : Nat]]]
         /\ attempts' \in [Keys -> [Times -> Nat]]
         /\ byRedis' \in [Keys -> [Times -> Nat]]
         /\ byLocal' \in [Procs -> [Keys -> [Times -> Nat]]]
         /\ \A k \in Keys, s \in Times :
              /\ redis'[k][s] = IF redis[k][s].until <= clock' THEN NoCount ELSE redis[k][s]
              /\ attempts'[k][s] = IF Over(k, s, clock') THEN 0 ELSE attempts[k][s]
              /\ byRedis'[k][s] = IF Over(k, s, clock') THEN 0 ELSE byRedis[k][s]
              /\ \A p \in Procs :
                   byLocal'[p][k][s] = IF Over(k, s, clock') THEN 0 ELSE byLocal[p][k][s]
         /\ \A p \in Procs : call[p] # NoCall => clock' <= call[p].now + MaxWait
         /\ UNCHANGED <<restarts, local, call, hits>>
<1>1. clock' = clock + 1 /\ clock' \in Times /\ UNCHANGED <<restarts, local, call, hits>>
  BY RateAssumption DEF Tick, TypeOK, Times
<1>2. /\ redis' \in [Keys -> [Times -> [n : Nat, until : Nat]]]
      /\ \A k \in Keys, s \in Times :
           redis'[k][s] = IF redis[k][s].until <= clock' THEN NoCount ELSE redis[k][s]
  <2>1. \A k \in Keys, s \in Times : redis[k][s] \in [n : Nat, until : Nat]
    BY DEF TypeOK
  <2>2. NoCount \in [n : Nat, until : Nat]
    BY DEF NoCount
  <2>3. redis' = [k \in Keys |-> [s \in Times |->
                    IF redis[k][s].until <= clock' THEN NoCount ELSE redis[k][s]]]
    BY DEF Tick
  <2>4. QED
    BY <2>1, <2>2, <2>3
<1>3. /\ attempts' \in [Keys -> [Times -> Nat]]
      /\ \A k \in Keys, s \in Times :
           attempts'[k][s] = IF Over(k, s, clock') THEN 0 ELSE attempts[k][s]
  <2>1. attempts' = Forget(attempts, clock')
        /\ attempts \in [Keys -> [Times -> Nat]]
    BY RateAssumption DEF Tick, TypeOK
  <2>2. \A k \in Keys, s \in Times : attempts[k][s] \in Nat
    BY <2>1
  <2>3. QED
    BY <2>1, <2>2 DEF Forget
<1>4. /\ byRedis' \in [Keys -> [Times -> Nat]]
      /\ \A k \in Keys, s \in Times :
           byRedis'[k][s] = IF Over(k, s, clock') THEN 0 ELSE byRedis[k][s]
  <2>1. byRedis' = Forget(byRedis, clock') /\ byRedis \in [Keys -> [Times -> Nat]]
    BY DEF Tick, TypeOK
  <2>2. clock' \in Nat
    BY <1>1, RateAssumption DEF Times
  <2>3. QED
    BY <2>1, <2>2, ForgetType
<1>5. /\ byLocal' \in [Procs -> [Keys -> [Times -> Nat]]]
      /\ \A p \in Procs, k \in Keys, s \in Times :
           byLocal'[p][k][s] = IF Over(k, s, clock') THEN 0 ELSE byLocal[p][k][s]
  <2>1. byLocal' = [p \in Procs |-> Forget(byLocal[p], clock')]
    BY DEF Tick
  <2>2. ASSUME NEW p \in Procs
        PROVE  /\ Forget(byLocal[p], clock') \in [Keys -> [Times -> Nat]]
               /\ \A k \in Keys, s \in Times :
                    Forget(byLocal[p], clock')[k][s] =
                      IF Over(k, s, clock') THEN 0 ELSE byLocal[p][k][s]
    <3>1. byLocal[p] \in [Keys -> [Times -> Nat]]
      BY DEF TypeOK
    <3>2. clock' \in Nat
      BY <1>1, RateAssumption DEF Times
    <3>3. QED
      BY <3>1, <3>2, ForgetType
  <2>3. QED
    BY <2>1, <2>2
<1>6. \A p \in Procs : call[p] # NoCall => clock' <= call[p].now + MaxWait
  <2>1. ASSUME NEW p \in Procs, call[p] # NoCall PROVE clock + 1 <= call[p].now + MaxWait
    <3>1. call[p].now \in Nat /\ clock \in Nat /\ MaxWait \in Nat
      BY <2>1, CallTypes, RateAssumption DEF TypeOK, Times
    <3>2. clock < call[p].now + MaxWait
      BY <2>1 DEF Tick
    <3>3. QED
      BY <3>1, <3>2
  <2>2. QED
    BY <1>1, <2>1
<1>7. QED
  BY <1>1, <1>2, <1>3, <1>4, <1>5, <1>6

\* A check begins in the window of this moment.
LEMMA BeginEffect ==
  ASSUME TypeOK, NEW p \in Procs, NEW k \in Keys, Begin(p, k)
  PROVE  /\ WindowStart(k, clock) \in Times /\ clock < WindowStart(k, clock) + Ticks(k)
         /\ call[p] = NoCall /\ call' \in [Procs -> {NoCall} \cup [key : Keys, now : Times]]
         /\ call'[p] # NoCall /\ call'[p].key = k /\ call'[p].now = clock
         /\ \A q \in Procs \ {p} : call'[q] = call[q]
         /\ hits' \in 0 .. MaxHits
         /\ attempts' \in [Keys -> [Times -> Nat]]
         /\ attempts'[k][WindowStart(k, clock)] = attempts[k][WindowStart(k, clock)] + 1
         /\ \A j \in Keys, s \in Times :
              j # k \/ s # WindowStart(k, clock) => attempts'[j][s] = attempts[j][s]
         /\ UNCHANGED <<clock, redis, restarts, local, byRedis, byLocal>>
<1> DEFINE w == WindowStart(k, clock)
           c == [key |-> k, now |-> clock]
<1>1. clock \in Times /\ clock \in Nat
  BY RateAssumption DEF TypeOK, Times
<1>2. w \in Times /\ clock < w + Ticks(k)
  <2>1. w \in Nat /\ w <= clock /\ clock < w + Ticks(k)
    BY <1>1, InWindow
  <2>2. QED
    BY <1>1, <2>1, RateAssumption DEF Times
<1>3. c \in [key : Keys, now : Times] /\ c \in [key : Keys, now : Nat] /\ c.key = k
      /\ c.now = clock
  BY <1>1
<1>4. c # NoCall
  BY <1>3, RateAssumption
<1>5. /\ call[p] = NoCall /\ hits < MaxHits /\ hits' = hits + 1
      /\ call' = [call EXCEPT ![p] = c]
      /\ attempts' = [attempts EXCEPT ![k][w] = @ + 1]
      /\ UNCHANGED <<clock, redis, restarts, local, byRedis, byLocal>>
  BY DEF Begin
<1> HIDE DEF w, c
<1>6. /\ call' \in [Procs -> {NoCall} \cup [key : Keys, now : Times]]
      /\ call'[p] = c /\ \A q \in Procs \ {p} : call'[q] = call[q]
  BY <1>3, <1>5 DEF TypeOK
<1>7. attempts[k][w] + 1 \in Nat /\ hits' \in 0 .. MaxHits
  BY <1>2, <1>5, RateAssumption DEF TypeOK
<1>8. /\ attempts' \in [Keys -> [Times -> Nat]]
      /\ attempts'[k][w] = attempts[k][w] + 1
      /\ \A j \in Keys, s \in Times : j # k \/ s # w => attempts'[j][s] = attempts[j][s]
  BY <1>2, <1>5, <1>7 DEF TypeOK
<1>9. QED
  BY <1>2, <1>3, <1>4, <1>5, <1>6, <1>7, <1>8 DEF w

LEMMA RestartEffect ==
  ASSUME TypeOK, RestartRedis
  PROVE  /\ restarts' = restarts + 1 /\ restarts' \in 0 .. MaxRestarts
         /\ redis' \in [Keys -> [Times -> [n : Nat, until : Nat]]]
         /\ \A k \in Keys, s \in Times : redis'[k][s].n = 0
         /\ UNCHANGED <<clock, local, call, hits, attempts, byRedis, byLocal>>
<1>1. NoCount \in [n : Nat, until : Nat] /\ NoCount.n = 0
  BY DEF NoCount
<1>2. redis' = [k \in Keys |-> [s \in Times |-> NoCount]]
  BY DEF RestartRedis
<1>3. QED
  BY <1>1, <1>2, RateAssumption DEF RestartRedis, TypeOK, ghosts

LEMMA StepTypeOK ==
  ASSUME TypeOK, [Next]_vars
  PROVE  TypeOK'
<1>1. ASSUME NEW p \in Procs, HitRedis(p) PROVE TypeOK'
  <2>1. call[p] # NoCall /\ Incr(KeyOf(p), StartOf(p))
        /\ call' = [call EXCEPT ![p] = NoCall]
        /\ UNCHANGED <<clock, restarts, local, hits, attempts, byLocal>>
    BY <1>1, RedisHit
  <2>2. KeyOf(p) \in Keys /\ StartOf(p) \in Times
    BY <2>1, CallTypes
  <2>3. redis' \in [Keys -> [Times -> [n : Nat, until : Nat]]]
    BY <2>1, <2>2, IncrEffect
  <2>4. byRedis' \in [Keys -> [Times -> Nat]]
    BY <1>1, RedisEffect
  <2>5. QED
    BY <2>1, <2>3, <2>4 DEF TypeOK
<1>2. ASSUME NEW p \in Procs, HitLocal(p) PROVE TypeOK'
  <2>1. /\ call[p] # NoCall
        /\ Incr(KeyOf(p), StartOf(p)) \/ UNCHANGED redis
        /\ call' = [call EXCEPT ![p] = NoCall]
        /\ UNCHANGED <<clock, restarts, hits, attempts, byRedis>>
    BY <1>2, LocalHit
  <2>2. KeyOf(p) \in Keys /\ StartOf(p) \in Times
    BY <2>1, CallTypes
  <2>3. redis' \in [Keys -> [Times -> [n : Nat, until : Nat]]]
    BY <2>1, <2>2, IncrEffect DEF TypeOK
  <2>4. byLocal' \in [Procs -> [Keys -> [Times -> Nat]]]
    BY <1>2, LocalDecides
  <2>5. local' \in [Procs -> UNION {[K -> Entry] : K \in SUBSET Keys}]
    BY <1>2, LocalEffect
  <2>6. QED
    BY <2>1, <2>3, <2>4, <2>5 DEF TypeOK, Entry
<1>3. ASSUME NEW p \in Procs, NEW k \in Keys, Begin(p, k) PROVE TypeOK'
  BY <1>3, BeginEffect DEF TypeOK
<1>4. CASE RestartRedis
  BY <1>4, RestartEffect DEF TypeOK
<1>5. CASE Tick
  BY <1>5, TickEffect DEF TypeOK
<1>6. CASE UNCHANGED vars
  BY <1>6 DEF TypeOK, vars
<1>7. QED
  BY <1>1, <1>2, <1>3, <1>4, <1>5, <1>6 DEF Next

\* Every reachable state of the limiter is well typed; what is
\* counted never leaves its range.
THEOREM TypeCorrect == Spec => []TypeOK
  BY InitTypeOK, StepTypeOK, PTL DEF Spec

-----------------------------------------------------------------------------
(***************************************************************************)
(* What Redis admits.                                                      *)
(***************************************************************************)
CallsEnd ==
  \A p \in Procs : call[p] # NoCall => call[p].now <= clock /\ clock <= call[p].now + MaxWait

LEMMA StepCallsEnd ==
  ASSUME TypeOK, CallsEnd, [Next]_vars
  PROVE  CallsEnd'
<1> USE DEF CallsEnd
<1>1. ASSUME NEW p \in Procs, HitRedis(p) \/ HitLocal(p) PROVE CallsEnd'
  <2>1. call' = [call EXCEPT ![p] = NoCall] /\ UNCHANGED clock
    BY <1>1, RedisHit, LocalHit
  <2>2. QED
    BY <2>1 DEF TypeOK
<1>2. ASSUME NEW p \in Procs, NEW k \in Keys, Begin(p, k) PROVE CallsEnd'
  <2>1. UNCHANGED clock /\ call'[p].now = clock /\ \A q \in Procs \ {p} : call'[q] = call[q]
    BY <1>2, BeginEffect
  <2>2. clock \in Nat /\ MaxWait \in Nat
    BY RateAssumption DEF TypeOK, Times
  <2>3. QED
    BY <2>1, <2>2
<1>3. CASE RestartRedis
  BY <1>3, RestartEffect
<1>4. CASE Tick
  <2>1. ASSUME NEW p \in Procs, call'[p] # NoCall
        PROVE  call'[p].now <= clock' /\ clock' <= call'[p].now + MaxWait
    <3>1. call'[p] = call[p] /\ call[p] # NoCall /\ clock' = clock + 1
          /\ clock' <= call[p].now + MaxWait
      BY <1>4, <2>1, TickEffect
    <3>2. clock \in Nat /\ call[p].now \in Nat /\ call[p].now <= clock
      BY <3>1, CallTypes, RateAssumption DEF TypeOK, Times
    <3>3. QED
      BY <3>1, <3>2
  <2>2. QED
    BY <2>1
<1>5. CASE UNCHANGED vars
  BY <1>5 DEF vars
<1>6. QED
  BY <1>1, <1>2, <1>3, <1>4, <1>5 DEF Next

\* A hit comes while its window is not over.
LEMMA HitInTime ==
  ASSUME TypeOK, CallsEnd, NEW p \in Procs, call[p] # NoCall
  PROVE  StartOf(p) <= clock /\ ~Over(KeyOf(p), StartOf(p), clock)
<1>1. /\ StartOf(p) \in Nat /\ StartOf(p) <= call[p].now /\ KeyOf(p) \in Keys
      /\ call[p].now < StartOf(p) + Ticks(KeyOf(p)) /\ Ticks(KeyOf(p)) \in Nat
      /\ call[p].now \in Nat /\ clock \in Nat /\ MaxWait \in Nat
  <2>1. clock \in Nat /\ MaxWait \in Nat
    BY RateAssumption DEF TypeOK, Times
  <2>2. StartOf(p) \in Nat
    BY CallTypes, RateAssumption DEF Times
  <2>3. QED
    BY <2>1, <2>2, CallTypes
<1>2. QED
  BY <1>1 DEF CallsEnd, Over

\* How long a counter lives after its last hit, and how often it can have died.
Life(k) == Ticks(k) + Second

Age(k, s, t) == (t - s) \div Life(k)

\* A counter that is gone has let its limit in for each life its window may
\* have seen; one that is there has counted what it let in.
LivesCounted(k, s) ==
  LET c == redis[k][s] IN
  /\ s > clock => c.n = 0 /\ byRedis[k][s] = 0
  /\ s <= clock /\ c.n = 0 => byRedis[k][s] <= Limit * (restarts + Age(k, s, clock))
  /\ c.n > 0 =>
       /\ s + Life(k) <= c.until /\ c.until <= clock + Life(k)
       /\ byRedis[k][s] <= Limit * (restarts + Age(k, s, c.until - Life(k))) + c.n
       /\ byRedis[k][s] <= Limit * (restarts + Age(k, s, c.until - Life(k))) + Limit

OverForgotten == \A k \in Keys, s \in Times : Over(k, s, clock) => byRedis[k][s] = 0

RedisInv ==
  /\ CallsEnd /\ OverForgotten
  /\ \A k \in Keys, s \in Times : LivesCounted(k, s)

LEMMA LifeType ==
  ASSUME NEW k \in Keys
  PROVE  Life(k) \in Nat \ {0}
<1>1. Ticks(k) \in Nat \ {0} /\ Second \in Nat
  BY TicksType, RateAssumption
<1>2. QED
  BY <1>1 DEF Life

LEMMA AgeGrows ==
  ASSUME NEW k \in Keys, NEW s \in Nat, NEW a \in Nat, NEW b \in Nat, s <= a
  PROVE  /\ Age(k, s, a) \in Nat
         /\ a <= b => Age(k, s, a) <= Age(k, s, b)
         /\ a + Life(k) <= b => Age(k, s, a) + 1 <= Age(k, s, b)
<1>1. Life(k) \in Nat \ {0} /\ a - s \in Nat
  BY LifeType
<1> HIDE DEF Life
<1>2. Age(k, s, a) \in Nat
  BY <1>1, DivBounds DEF Age
<1>3. ASSUME a <= b PROVE Age(k, s, a) <= Age(k, s, b)
  <2>1. b - s \in Nat /\ a - s <= b - s
    BY <1>3
  <2>2. QED
    BY <1>1, <2>1, DivMonotone DEF Age
<1>4. ASSUME a + Life(k) <= b PROVE Age(k, s, a) + 1 <= Age(k, s, b)
  <2>1. b - s \in Nat /\ (a - s) + Life(k) <= b - s
    BY <1>1, <1>4
  <2>2. QED
    BY <1>1, <2>1, DivNext DEF Age
<1>5. QED
  BY <1>2, <1>3, <1>4

LEMMA Scale ==
  ASSUME NEW a \in Nat, NEW b \in Nat
  PROVE  /\ Limit * a \in Nat /\ Limit * (a + 1) = Limit * a + Limit
         /\ a <= b => Limit * a <= Limit * b
         /\ a + 1 <= b => Limit * a + Limit <= Limit * b
<1>1. Limit \in Nat
  BY RateAssumption
<1>2. a * Limit \in Nat /\ (a + 1) * Limit = a * Limit + Limit
      /\ (a <= b => a * Limit <= b * Limit) /\ (a + 1 <= b => (a + 1) * Limit <= b * Limit)
  BY <1>1, Product
<1>3. QED
  BY <1>1, <1>2

LEMMA CountTypes ==
  ASSUME TypeOK, NEW k \in Keys, NEW s \in Times
  PROVE  /\ s \in Nat /\ clock \in Nat /\ restarts \in Nat
         /\ redis[k][s].n \in Nat /\ redis[k][s].until \in Nat /\ byRedis[k][s] \in Nat
<1>1. redis[k][s] \in [n : Nat, until : Nat]
  BY DEF TypeOK
<1>2. QED
  BY <1>1, RateAssumption DEF TypeOK, Times

\* INCR on the counter of a window that is not over yet.
LEMMA IncrLives ==
  ASSUME TypeOK, NEW k \in Keys, NEW s \in Times, s <= clock, LivesCounted(k, s),
         Incr(k, s), UNCHANGED <<clock, restarts>>,
         \/ byRedis'[k][s] = byRedis[k][s]
         \/ byRedis'[k][s] = byRedis[k][s] + 1 /\ redis'[k][s].n <= Limit
  PROVE  LivesCounted(k, s)'
<1> DEFINE n == redis[k][s].n
           h == redis[k][s].until - Life(k)
           now == Limit * (restarts + Age(k, s, clock))
           old == Limit * (restarts + Age(k, s, h))
<1>1. /\ s \in Nat /\ clock \in Nat /\ restarts \in Nat /\ n \in Nat
      /\ redis[k][s].until \in Nat /\ byRedis[k][s] \in Nat /\ Life(k) \in Nat
      /\ Limit \in Nat /\ Limit > 0
  BY CountTypes, LifeType, RateAssumption
<1>2. redis'[k][s].n = n + 1 /\ redis'[k][s].until = clock + Life(k)
  <2>1. redis'[k][s].n = redis[k][s].n + 1 /\ redis'[k][s].until = clock + Ticks(k) + Second
    BY IncrEffect
  <2>2. Ticks(k) \in Nat /\ Second \in Nat
    BY TicksType, RateAssumption
  <2>3. QED
    BY <1>1, <2>1, <2>2 DEF Life
<1>3. Age(k, s, clock) \in Nat /\ now \in Nat
  <2>1. Age(k, s, clock) \in Nat
    BY <1>1, AgeGrows
  <2>2. restarts + Age(k, s, clock) \in Nat
    BY <1>1, <2>1
  <2>3. QED
    BY <2>1, <2>2, Scale
<1>4. n > 0 => old \in Nat /\ old <= now /\ byRedis[k][s] <= old + n
               /\ byRedis[k][s] <= old + Limit
  <2> SUFFICES ASSUME n > 0
               PROVE  old \in Nat /\ old <= now /\ byRedis[k][s] <= old + n
                      /\ byRedis[k][s] <= old + Limit
    OBVIOUS
  <2>1. s + Life(k) <= redis[k][s].until /\ redis[k][s].until <= clock + Life(k)
    BY DEF LivesCounted
  <2>2. h \in Nat /\ s <= h /\ h <= clock
    BY <1>1, <2>1
  <2> HIDE DEF h
  <2>3. Age(k, s, h) \in Nat /\ Age(k, s, h) <= Age(k, s, clock)
    BY <1>1, <2>2, AgeGrows
  <2>4. /\ restarts + Age(k, s, h) \in Nat /\ restarts + Age(k, s, clock) \in Nat
        /\ restarts + Age(k, s, h) <= restarts + Age(k, s, clock)
    BY <1>1, <1>3, <2>3
  <2>5. old \in Nat /\ old <= now
    BY <2>4, Scale
  <2>6. byRedis[k][s] <= old + n /\ byRedis[k][s] <= old + Limit
    BY DEF LivesCounted, h
  <2>7. QED
    BY <2>5, <2>6
<1>5. n = 0 => byRedis[k][s] <= now
  BY DEF LivesCounted
<1>6. byRedis[k][s] <= now + n /\ byRedis[k][s] <= now + Limit
  <2> HIDE DEF n, now, old
  <2>1. QED
    BY <1>1, <1>3, <1>4, <1>5
<1>7. byRedis'[k][s] <= now + (n + 1) /\ byRedis'[k][s] <= now + Limit
  <2> HIDE DEF now
  <2>1. byRedis'[k][s] = byRedis[k][s] + 1 => n + 1 <= Limit
    BY <1>1, <1>2
  <2>2. QED
    BY <1>1, <1>3, <1>6, <2>1
<1>8. Age(k, s, redis'[k][s].until - Life(k)) = Age(k, s, clock)
  BY <1>1, <1>2 DEF Age
<1>9. QED
  <2>1. s <= clock' /\ redis'[k][s].n > 0 /\ restarts' = restarts /\ clock' = clock
    BY <1>1, <1>2
  <2>2. /\ s + Life(k) <= redis'[k][s].until /\ redis'[k][s].until <= clock' + Life(k)
    BY <1>1, <1>2, <2>1
  <2>3. Limit * (restarts' + Age(k, s, redis'[k][s].until - Life(k))) = now
    BY <1>8, <2>1
  <2>4. QED
    BY <1>1, <1>2, <1>7, <2>1, <2>2, <2>3 DEF LivesCounted

LEMMA RestartLives ==
  ASSUME TypeOK, RestartRedis, NEW k \in Keys, NEW s \in Times, LivesCounted(k, s)
  PROVE  LivesCounted(k, s)'
<1> DEFINE h == redis[k][s].until - Life(k)
           r == restarts + Age(k, s, clock)
<1>1. /\ s \in Nat /\ clock \in Nat /\ restarts \in Nat /\ redis[k][s].n \in Nat
      /\ redis[k][s].until \in Nat /\ byRedis[k][s] \in Nat /\ Life(k) \in Nat
      /\ Limit \in Nat
  BY CountTypes, LifeType, RateAssumption
<1>2. /\ redis'[k][s].n = 0 /\ restarts' = restarts + 1 /\ clock' = clock
      /\ byRedis' = byRedis
  BY RestartEffect
<1>3. CASE s > clock
  BY <1>1, <1>2, <1>3 DEF LivesCounted
<1>4. CASE s <= clock
  <2>1. Age(k, s, clock) \in Nat
    BY <1>1, <1>4, AgeGrows
  <2>2. r \in Nat /\ restarts' + Age(k, s, clock') = r + 1
    BY <1>1, <1>2, <2>1
  <2>3. Limit * r \in Nat /\ Limit * (r + 1) = Limit * r + Limit
    BY <2>2, Scale
  <2>4. byRedis[k][s] <= Limit * r + Limit
    <3>1. CASE redis[k][s].n = 0
      BY <1>1, <1>4, <2>3, <3>1 DEF LivesCounted
    <3>2. CASE redis[k][s].n > 0
      <4>1. s + Life(k) <= redis[k][s].until /\ redis[k][s].until <= clock + Life(k)
        BY <3>2 DEF LivesCounted
      <4>2. h \in Nat /\ s <= h /\ h <= clock
        BY <1>1, <4>1
      <4>3. byRedis[k][s] <= Limit * (restarts + Age(k, s, h)) + Limit
        BY <3>2 DEF LivesCounted
      <4> HIDE DEF h
      <4>4. Age(k, s, h) \in Nat /\ Age(k, s, h) <= Age(k, s, clock)
        BY <1>1, <4>2, AgeGrows
      <4>5. restarts + Age(k, s, h) \in Nat /\ restarts + Age(k, s, h) <= r
        BY <1>1, <2>1, <4>4
      <4>6. Limit * (restarts + Age(k, s, h)) <= Limit * r
            /\ Limit * (restarts + Age(k, s, h)) \in Nat
        BY <2>2, <4>5, Scale
      <4> HIDE DEF r
      <4>7. QED
        BY <1>1, <2>3, <4>3, <4>6
    <3>3. QED
      BY <1>1, <3>1, <3>2
  <2>5. byRedis'[k][s] <= Limit * (restarts' + Age(k, s, clock'))
    <3>1. Limit * (restarts' + Age(k, s, clock')) = Limit * r + Limit
      BY <2>2, <2>3
    <3>2. QED
      BY <1>2, <2>4, <3>1
  <2>6. QED
    BY <1>1, <1>2, <1>4, <2>5 DEF LivesCounted
<1>5. QED
  BY <1>1, <1>3, <1>4

\* A counter that expires has lived for its window and a second since its last hit.
LEMMA TickLives ==
  ASSUME TypeOK, Tick, NEW k \in Keys, NEW s \in Times, LivesCounted(k, s)
  PROVE  LivesCounted(k, s)'
<1> DEFINE h == redis[k][s].until - Life(k)
<1>1. /\ s \in Nat /\ clock \in Nat /\ restarts \in Nat /\ redis[k][s].n \in Nat
      /\ redis[k][s].until \in Nat /\ byRedis[k][s] \in Nat /\ Life(k) \in Nat \ {0}
      /\ Limit \in Nat
  BY CountTypes, LifeType, RateAssumption
<1>2. /\ clock' = clock + 1 /\ restarts' = restarts
      /\ redis'[k][s] = IF redis[k][s].until <= clock' THEN NoCount ELSE redis[k][s]
      /\ byRedis'[k][s] = 0 \/ byRedis'[k][s] = byRedis[k][s]
  BY TickEffect
<1>3. byRedis'[k][s] <= byRedis[k][s] /\ clock' \in Nat
  BY <1>1, <1>2
<1>4. NoCount.n = 0
  BY DEF NoCount
<1>5. CASE s > clock
  <2>1. redis[k][s].n = 0 /\ byRedis[k][s] = 0
    BY <1>5 DEF LivesCounted
  <2>2. redis'[k][s].n = 0 /\ byRedis'[k][s] = 0
    BY <1>2, <1>4, <2>1
  <2>3. s <= clock' => Limit * (restarts' + Age(k, s, clock')) \in Nat
    <3>1. s <= clock' => Age(k, s, clock') \in Nat
      BY <1>1, <1>3, AgeGrows
    <3>2. s <= clock' => restarts' + Age(k, s, clock') \in Nat
      BY <1>1, <1>2, <3>1
    <3>3. QED
      BY <3>2, Scale
  <2>4. QED
    BY <2>2, <2>3 DEF LivesCounted
<1>6. CASE s <= clock /\ redis[k][s].n = 0
  <2>1. redis'[k][s].n = 0
    BY <1>2, <1>4, <1>6
  <2>2. Age(k, s, clock) \in Nat /\ Age(k, s, clock') \in Nat
        /\ Age(k, s, clock) <= Age(k, s, clock')
    <3>1. s <= clock' /\ clock <= clock'
      BY <1>1, <1>2, <1>6
    <3>2. QED
      BY <1>1, <1>3, <1>6, <3>1, AgeGrows
  <2>3. /\ restarts + Age(k, s, clock) \in Nat /\ restarts + Age(k, s, clock') \in Nat
        /\ restarts + Age(k, s, clock) <= restarts + Age(k, s, clock')
    BY <1>1, <2>2
  <2>4. /\ Limit * (restarts + Age(k, s, clock)) <= Limit * (restarts + Age(k, s, clock'))
        /\ Limit * (restarts + Age(k, s, clock)) \in Nat
        /\ Limit * (restarts + Age(k, s, clock')) \in Nat
    BY <2>3, Scale
  <2>5. byRedis[k][s] <= Limit * (restarts + Age(k, s, clock))
    BY <1>6 DEF LivesCounted
  <2>6. byRedis'[k][s] <= Limit * (restarts' + Age(k, s, clock'))
    <3>1. byRedis'[k][s] \in Nat
      BY <1>1, <1>2
    <3>2. QED
      BY <1>1, <1>2, <1>3, <2>4, <2>5, <3>1
  <2>7. s <= clock' /\ ~(s > clock')
    BY <1>1, <1>2, <1>6
  <2>8. QED
    BY <2>1, <2>6, <2>7 DEF LivesCounted
<1>7. CASE redis[k][s].n > 0
  <2>1. /\ s + Life(k) <= redis[k][s].until /\ redis[k][s].until <= clock + Life(k)
        /\ byRedis[k][s] <= Limit * (restarts + Age(k, s, h)) + redis[k][s].n
        /\ byRedis[k][s] <= Limit * (restarts + Age(k, s, h)) + Limit
    BY <1>7 DEF LivesCounted
  <2>2. h \in Nat /\ s <= h /\ h <= clock /\ h + Life(k) = redis[k][s].until
    BY <1>1, <2>1
  <2>3. s <= clock' /\ ~(s > clock')
    BY <1>1, <1>2, <2>2
  <2> HIDE DEF h
  <2>4. CASE redis[k][s].until <= clock'
    <3>1. redis'[k][s].n = 0
      BY <1>2, <1>4, <2>4
    <3>2. /\ Age(k, s, h) \in Nat /\ Age(k, s, h) + 1 <= Age(k, s, clock')
          /\ Age(k, s, clock') \in Nat
      BY <1>1, <1>3, <2>2, <2>3, <2>4, AgeGrows
    <3>3. /\ restarts + Age(k, s, h) \in Nat /\ restarts + Age(k, s, clock') \in Nat
          /\ restarts + Age(k, s, h) + 1 <= restarts + Age(k, s, clock')
      BY <1>1, <3>2
    <3>4. /\ Limit * (restarts + Age(k, s, h)) \in Nat
          /\ Limit * (restarts + Age(k, s, clock')) \in Nat
          /\ Limit * (restarts + Age(k, s, h)) + Limit <= Limit * (restarts + Age(k, s, clock'))
      BY <3>3, Scale
    <3>5. byRedis'[k][s] <= Limit * (restarts' + Age(k, s, clock'))
      <4>1. byRedis'[k][s] \in Nat
        BY <1>1, <1>2
      <4>2. QED
        BY <1>1, <1>2, <1>3, <2>1, <3>4, <4>1
    <3>6. QED
      BY <2>3, <3>1, <3>5 DEF LivesCounted
  <2>5. CASE ~(redis[k][s].until <= clock')
    <3>1. redis'[k][s] = redis[k][s]
      BY <1>2, <2>5
    <3>2. Limit * (restarts + Age(k, s, h)) \in Nat
      <4>1. Age(k, s, h) \in Nat
        BY <1>1, <2>2, AgeGrows
      <4>2. restarts + Age(k, s, h) \in Nat
        BY <1>1, <4>1
      <4>3. QED
        BY <4>2, Scale
    <3>3. /\ byRedis'[k][s] <= Limit * (restarts + Age(k, s, h)) + redis[k][s].n
          /\ byRedis'[k][s] <= Limit * (restarts + Age(k, s, h)) + Limit
      <4>1. byRedis'[k][s] \in Nat
        BY <1>1, <1>2
      <4>2. QED
        BY <1>1, <1>3, <2>1, <3>2, <4>1
    <3>4. redis[k][s].until <= clock' + Life(k)
      BY <1>1, <1>2, <2>1
    <3>5. QED
      BY <1>2, <1>7, <2>1, <2>3, <3>1, <3>3, <3>4 DEF LivesCounted, h
  <2>6. QED
    BY <2>4, <2>5
<1>8. QED
  BY <1>1, <1>5, <1>6, <1>7

LEMMA InitRedisInv == Init => RedisInv
<1> SUFFICES ASSUME Init PROVE RedisInv
  OBVIOUS
<1>1. CallsEnd /\ OverForgotten
  BY DEF Init, CallsEnd, OverForgotten
<1>2. ASSUME NEW k \in Keys, NEW s \in Times PROVE LivesCounted(k, s)
  <2>1. redis[k][s].n = 0 /\ byRedis[k][s] = 0 /\ clock = 0 /\ restarts = 0
    BY DEF Init, NoCount
  <2>2. s \in Nat
    BY RateAssumption DEF Times
  <2>3. s <= clock => Limit * (restarts + Age(k, s, clock)) \in Nat
    <3>1. s <= clock => Age(k, s, clock) \in Nat
      BY <2>1, <2>2, AgeGrows
    <3>2. s <= clock => restarts + Age(k, s, clock) \in Nat
      BY <2>1, <3>1
    <3>3. QED
      BY <3>2, Scale
  <2>4. QED
    BY <2>1, <2>3 DEF LivesCounted
<1>3. QED
  BY <1>1, <1>2 DEF RedisInv

LEMMA FrameLives ==
  ASSUME NEW k \in Keys, NEW s \in Times, LivesCounted(k, s),
         redis'[k][s] = redis[k][s], byRedis'[k][s] = byRedis[k][s],
         UNCHANGED <<clock, restarts>>
  PROVE  LivesCounted(k, s)'
  BY DEF LivesCounted

LEMMA StepLives ==
  ASSUME TypeOK, RedisInv, [Next]_vars, NEW k \in Keys, NEW s \in Times
  PROVE  LivesCounted(k, s)'
<1>0. LivesCounted(k, s)
  BY DEF RedisInv
<1>1. ASSUME NEW p \in Procs, HitRedis(p) PROVE LivesCounted(k, s)'
  <2>1. /\ call[p] # NoCall /\ Incr(KeyOf(p), StartOf(p)) /\ UNCHANGED <<clock, restarts>>
    BY <1>1, RedisHit
  <2>2. KeyOf(p) \in Keys /\ StartOf(p) \in Times /\ StartOf(p) <= clock
    BY <2>1, CallTypes, HitInTime DEF RedisInv
  <2>3. CASE k = KeyOf(p) /\ s = StartOf(p)
    <3>1. Incr(k, s) /\ s <= clock
      BY <2>1, <2>2, <2>3
    <3>2. \/ byRedis'[k][s] = byRedis[k][s]
          \/ byRedis'[k][s] = byRedis[k][s] + 1 /\ redis'[k][s].n <= Limit
      BY <1>1, <2>3, RedisEffect
    <3>3. QED
      BY <1>0, <2>1, <3>1, <3>2, IncrLives
  <2>4. CASE ~(k = KeyOf(p) /\ s = StartOf(p))
    <3>1. redis'[k][s] = redis[k][s]
      BY <2>1, <2>2, <2>4, IncrEffect
    <3>2. byRedis'[k][s] = byRedis[k][s]
      BY <1>1, <2>4, RedisEffect
    <3>3. QED
      BY <1>0, <2>1, <3>1, <3>2, FrameLives
  <2>5. QED
    BY <2>3, <2>4
<1>2. ASSUME NEW p \in Procs, HitLocal(p) PROVE LivesCounted(k, s)'
  <2>1. /\ call[p] # NoCall /\ UNCHANGED <<clock, restarts, byRedis>>
        /\ Incr(KeyOf(p), StartOf(p)) \/ UNCHANGED redis
    BY <1>2, LocalHit
  <2>2. KeyOf(p) \in Keys /\ StartOf(p) \in Times /\ StartOf(p) <= clock
    BY <2>1, CallTypes, HitInTime DEF RedisInv
  <2>3. CASE Incr(KeyOf(p), StartOf(p)) /\ k = KeyOf(p) /\ s = StartOf(p)
    <3>1. Incr(k, s) /\ s <= clock /\ byRedis'[k][s] = byRedis[k][s]
      BY <2>1, <2>2, <2>3
    <3>2. QED
      BY <1>0, <2>1, <3>1, IncrLives
  <2>4. CASE UNCHANGED redis \/ ~(k = KeyOf(p) /\ s = StartOf(p))
    <3>1. redis'[k][s] = redis[k][s]
      BY <2>1, <2>2, <2>4, IncrEffect
    <3>2. QED
      BY <1>0, <2>1, <3>1, FrameLives
  <2>5. QED
    BY <2>1, <2>3, <2>4
<1>3. ASSUME NEW p \in Procs, NEW j \in Keys, Begin(p, j) PROVE LivesCounted(k, s)'
  <2>1. UNCHANGED <<redis, byRedis, clock, restarts>>
    BY <1>3, BeginEffect
  <2>2. QED
    BY <1>0, <2>1, FrameLives
<1>4. CASE RestartRedis
  BY <1>0, <1>4, RestartLives
<1>5. CASE Tick
  BY <1>0, <1>5, TickLives
<1>6. CASE UNCHANGED vars
  BY <1>0, <1>6, FrameLives DEF vars
<1>7. QED
  BY <1>1, <1>2, <1>3, <1>4, <1>5, <1>6 DEF Next

LEMMA StepOverForgotten ==
  ASSUME TypeOK, RedisInv, [Next]_vars
  PROVE  OverForgotten'
<1> USE DEF OverForgotten, RedisInv
<1>1. ASSUME NEW p \in Procs, HitRedis(p) PROVE OverForgotten'
  <2>1. call[p] # NoCall /\ UNCHANGED clock
    BY <1>1, RedisHit
  <2>2. ~Over(KeyOf(p), StartOf(p), clock)
    BY <2>1, HitInTime
  <2>3. \A k \in Keys, s \in Times : Over(k, s, clock) => byRedis'[k][s] = byRedis[k][s]
    BY <1>1, <2>2, RedisEffect
  <2>4. QED
    BY <2>1, <2>3
<1>2. ASSUME NEW p \in Procs, HitLocal(p) PROVE OverForgotten'
  BY <1>2, LocalHit
<1>3. ASSUME NEW p \in Procs, NEW j \in Keys, Begin(p, j) PROVE OverForgotten'
  BY <1>3, BeginEffect
<1>4. CASE RestartRedis
  BY <1>4, RestartEffect
<1>5. CASE Tick
  BY <1>5, TickEffect
<1>6. CASE UNCHANGED vars
  BY <1>6 DEF vars
<1>7. QED
  BY <1>1, <1>2, <1>3, <1>4, <1>5, <1>6 DEF Next

\* The counters of Redis and the calls under way, in every reachable state.
THEOREM RedisInvariance == Spec => [](TypeOK /\ RedisInv)
<1>1. Init => TypeOK /\ RedisInv
  BY InitTypeOK, InitRedisInv
<1>2. TypeOK /\ RedisInv /\ [Next]_vars => (TypeOK /\ RedisInv)'
  BY StepTypeOK, StepCallsEnd, StepLives, StepOverForgotten DEF RedisInv
<1>3. QED
  BY <1>1, <1>2, PTL DEF Spec

LEMMA AdmitsLimit ==
  ASSUME TypeOK, RedisInv
  PROVE  RedisAdmitsLimit
<1> SUFFICES ASSUME NEW k \in Keys, NEW s \in Times
             PROVE  byRedis[k][s] <= Limit * (Lifetimes(k) + restarts)
  BY DEF RedisAdmitsLimit
<1> DEFINE last == s + (Ticks(k) - 1 + MaxWait)
           h == redis[k][s].until - Life(k)
           old == Age(k, s, last)
<1>1. /\ s \in Nat /\ clock \in Nat /\ restarts \in Nat /\ redis[k][s].n \in Nat
      /\ redis[k][s].until \in Nat /\ byRedis[k][s] \in Nat /\ Life(k) \in Nat
      /\ Limit \in Nat /\ Ticks(k) \in Nat \ {0} /\ MaxWait \in Nat
  BY CountTypes, LifeType, TicksType, RateAssumption
<1>2. last \in Nat /\ s <= last /\ last - s = Ticks(k) - 1 + MaxWait
  BY <1>1
<1>3. old \in Nat /\ Lifetimes(k) = 1 + old
  <2>1. old \in Nat
    BY <1>1, <1>2, AgeGrows
  <2>2. QED
    BY <1>2, <2>1 DEF Lifetimes, Age, Life
<1>4. Limit * (Lifetimes(k) + restarts) = Limit * (restarts + old) + Limit
      /\ Limit * (restarts + old) \in Nat
  <2> HIDE DEF old
  <2>1. restarts + old \in Nat /\ Lifetimes(k) + restarts = (restarts + old) + 1
    BY <1>1, <1>3
  <2>2. QED
    BY <2>1, Scale
<1>5. CASE Over(k, s, clock)
  BY <1>1, <1>4, <1>5 DEF RedisInv, OverForgotten
<1>6. CASE s > clock
  BY <1>1, <1>4, <1>6 DEF RedisInv, LivesCounted
<1>7. CASE ~Over(k, s, clock) /\ s <= clock
  <2>1. clock <= last
    BY <1>1, <1>7 DEF Over
  <2>2. LivesCounted(k, s)
    BY DEF RedisInv
  <2>3. PICK t \in Nat : /\ s <= t /\ t <= last
                         /\ byRedis[k][s] <= Limit * (restarts + Age(k, s, t)) + Limit
    <3>1. CASE redis[k][s].n = 0
      <4>1. byRedis[k][s] <= Limit * (restarts + Age(k, s, clock))
        BY <1>7, <2>2, <3>1 DEF LivesCounted
      <4>2. Limit * (restarts + Age(k, s, clock)) \in Nat
        <5>1. Age(k, s, clock) \in Nat
          BY <1>1, <1>7, AgeGrows
        <5>2. restarts + Age(k, s, clock) \in Nat
          BY <1>1, <5>1
        <5>3. QED
          BY <5>2, Scale
      <4>3. byRedis[k][s] <= Limit * (restarts + Age(k, s, clock)) + Limit
        BY <1>1, <4>1, <4>2
      <4>4. QED
        BY <1>1, <1>7, <2>1, <4>3
    <3>2. CASE redis[k][s].n > 0
      <4>1. s + Life(k) <= redis[k][s].until /\ redis[k][s].until <= clock + Life(k)
            /\ byRedis[k][s] <= Limit * (restarts + Age(k, s, h)) + Limit
        BY <2>2, <3>2 DEF LivesCounted
      <4>2. h \in Nat /\ s <= h /\ h <= last
        BY <1>1, <1>2, <2>1, <4>1
      <4> HIDE DEF h
      <4>3. QED
        BY <4>1, <4>2
    <3>3. QED
      BY <1>1, <3>1, <3>2
  <2>4. Age(k, s, t) \in Nat /\ Age(k, s, t) <= old
    BY <1>1, <1>2, <2>3, AgeGrows
  <2>5. restarts + Age(k, s, t) \in Nat /\ restarts + old \in Nat
        /\ restarts + Age(k, s, t) <= restarts + old
    BY <1>1, <1>3, <2>4
  <2>6. Limit * (restarts + Age(k, s, t)) \in Nat
        /\ Limit * (restarts + Age(k, s, t)) <= Limit * (restarts + old)
    BY <2>5, Scale
  <2>7. QED
    BY <1>1, <1>4, <2>3, <2>6
<1>8. QED
  BY <1>1, <1>5, <1>6, <1>7

\* All processes together let no more than the limit into a window, but for the
\* counters that a restart or a slow call has outlived.
THEOREM RedisBoundsAll == Spec => []RedisAdmitsLimit
  BY RedisInvariance, AdmitsLimit, PTL

-----------------------------------------------------------------------------
(***************************************************************************)
(* Who is refused, and when he may come back.                              *)
(***************************************************************************)
Pending(k, s) ==
  {p \in Procs : call[p] # NoCall /\ call[p].key = k /\ WindowStart(k, call[p].now) = s}

\* No memory counts more than the hits that have come, less those under way.
Counted(k, s) ==
  ~Over(k, s, clock) =>
    /\ redis[k][s].n + Cardinality(Pending(k, s)) <= attempts[k][s]
    /\ \A p \in Procs : k \in DOMAIN local[p] =>
         (local[p][k].start = s => local[p][k].n + Cardinality(Pending(k, s)) <= attempts[k][s])

LEMMA PendingFinite ==
  ASSUME NEW k, NEW s
  PROVE  IsFiniteSet(Pending(k, s)) /\ Cardinality(Pending(k, s)) \in Nat
<1>1. Pending(k, s) \subseteq Procs
  BY DEF Pending
<1>2. QED
  BY <1>1, RateAssumption, FS_Subset, FS_CardinalityType

\* A check that ends is no longer under way.
LEMMA PendingEnds ==
  ASSUME TypeOK, NEW p \in Procs, call[p] # NoCall, call' = [call EXCEPT ![p] = NoCall],
         NEW k \in Keys, NEW s \in Times
  PROVE  /\ k = KeyOf(p) /\ s = StartOf(p) =>
              Cardinality(Pending(k, s))' + 1 = Cardinality(Pending(k, s))
         /\ k # KeyOf(p) \/ s # StartOf(p) =>
              Cardinality(Pending(k, s))' = Cardinality(Pending(k, s))
<1>1. \A q \in Procs : call'[q] = IF q = p THEN NoCall ELSE call[q]
  BY DEF TypeOK
<1>2. Pending(k, s)' = Pending(k, s) \ {p}
  BY <1>1 DEF Pending
<1>3. p \in Pending(k, s) <=> k = KeyOf(p) /\ s = StartOf(p)
  BY DEF Pending, KeyOf, StartOf
<1>4. IsFiniteSet(Pending(k, s)) /\ Cardinality(Pending(k, s)) \in Nat
  BY PendingFinite
<1>5. Cardinality(Pending(k, s))' = Cardinality(Pending(k, s) \ {p})
  BY <1>2
<1>6. CASE p \in Pending(k, s)
  <2>1. Cardinality(Pending(k, s) \ {p}) = Cardinality(Pending(k, s)) - 1
    BY <1>4, <1>6, FS_RemoveElement
  <2>2. QED
    BY <1>3, <1>4, <1>5, <1>6, <2>1
<1>7. CASE p \notin Pending(k, s)
  <2>1. Pending(k, s) \ {p} = Pending(k, s)
    BY <1>7
  <2>2. QED
    BY <1>3, <1>5, <1>7, <2>1
<1>8. QED
  BY <1>6, <1>7

\* A check that begins is under way in the window of this moment.
LEMMA PendingBegins ==
  ASSUME TypeOK, NEW p \in Procs, NEW j \in Keys, Begin(p, j),
         NEW k \in Keys, NEW s \in Times
  PROVE  /\ k = j /\ s = WindowStart(j, clock) =>
              Cardinality(Pending(k, s))' = Cardinality(Pending(k, s)) + 1
         /\ k # j \/ s # WindowStart(j, clock) =>
              Cardinality(Pending(k, s))' = Cardinality(Pending(k, s))
<1>1. /\ call[p] = NoCall /\ call'[p] # NoCall /\ call'[p].key = j /\ call'[p].now = clock
      /\ \A q \in Procs \ {p} : call'[q] = call[q]
  BY BeginEffect
<1>2. p \notin Pending(k, s)
  BY <1>1 DEF Pending
<1>3. IsFiniteSet(Pending(k, s)) /\ Cardinality(Pending(k, s)) \in Nat
  BY PendingFinite
<1>4. CASE k = j /\ s = WindowStart(j, clock)
  <2>1. Pending(k, s)' = Pending(k, s) \cup {p}
    BY <1>1, <1>4 DEF Pending
  <2>2. Cardinality(Pending(k, s) \cup {p}) = Cardinality(Pending(k, s)) + 1
    BY <1>2, <1>3, FS_AddElement
  <2>3. QED
    BY <1>4, <2>1, <2>2
<1>5. CASE k # j \/ s # WindowStart(j, clock)
  <2>1. Pending(k, s)' = Pending(k, s)
    BY <1>1, <1>5 DEF Pending
  <2>2. QED
    BY <1>5, <2>1
<1>6. QED
  BY <1>4, <1>5

LEMMA OneLess ==
  ASSUME NEW n \in Nat, NEW c \in Nat, NEW d \in Nat, NEW m \in Nat, d + 1 = c, n + c <= m
  PROVE  n + d <= m /\ (n + 1) + d <= m
  OBVIOUS

LEMMA StepCounted ==
  ASSUME TypeOK, [Next]_vars, NEW k \in Keys, NEW s \in Times, Counted(k, s)
  PROVE  Counted(k, s)'
<1> DEFINE card == Cardinality(Pending(k, s))
<1>1. card \in Nat /\ card' \in Nat /\ redis[k][s].n \in Nat /\ attempts[k][s] \in Nat
  <2>1. card \in Nat
    BY PendingFinite
  <2>2. \A S \in SUBSET Procs : IsFiniteSet(S) /\ Cardinality(S) \in Nat
    BY RateAssumption, FS_Subset, FS_CardinalityType
  <2>3. Pending(k, s)' \in SUBSET Procs
    BY DEF Pending
  <2>4. card' \in Nat
    BY <2>2, <2>3
  <2>5. redis[k][s].n \in Nat
    BY CountTypes
  <2>6. attempts[k][s] \in Nat
    BY RateAssumption DEF TypeOK
  <2>7. QED
    BY <2>1, <2>4, <2>5, <2>6
<1>2. \A p \in Procs : k \in DOMAIN local[p] => local[p][k].n \in Nat
  BY EntryTypes DEF Entry
<1>3. ASSUME NEW p \in Procs, HitRedis(p) PROVE Counted(k, s)'
  <2>1. /\ call[p] # NoCall /\ Incr(KeyOf(p), StartOf(p)) /\ UNCHANGED <<clock, local, attempts>>
        /\ call' = [call EXCEPT ![p] = NoCall]
    BY <1>3, RedisHit
  <2>2. KeyOf(p) \in Keys /\ StartOf(p) \in Times
    BY <2>1, CallTypes
  <2>3. CASE k = KeyOf(p) /\ s = StartOf(p)
    <3>1. redis'[k][s].n = redis[k][s].n + 1
      BY <2>1, <2>2, <2>3, IncrEffect
    <3>2. card' + 1 = card
      BY <2>1, <2>3, PendingEnds
    <3> HIDE DEF card
    <3>3. QED
      BY <1>1, <1>2, <2>1, <3>1, <3>2 DEF Counted, card
  <2>4. CASE k # KeyOf(p) \/ s # StartOf(p)
    <3>1. redis'[k][s] = redis[k][s]
      BY <2>1, <2>2, <2>4, IncrEffect
    <3>2. card' = card
      BY <2>1, <2>4, PendingEnds
    <3>3. QED
      BY <2>1, <3>1, <3>2 DEF Counted
  <2>5. QED
    BY <2>3, <2>4
<1>4. ASSUME NEW p \in Procs, HitLocal(p) PROVE Counted(k, s)'
  <2>1. /\ call[p] # NoCall
        /\ Incr(KeyOf(p), StartOf(p)) \/ UNCHANGED redis
        /\ call' = [call EXCEPT ![p] = NoCall] /\ UNCHANGED <<clock, attempts>>
    BY <1>4, LocalHit
  <2>2. KeyOf(p) \in Keys /\ StartOf(p) \in Times
    BY <2>1, CallTypes
  <2>3. /\ \A q \in Procs \ {p} : local'[q] = local[q]
        /\ DOMAIN local'[p] = Kept(p, StartOf(p)) \cup {KeyOf(p)}
        /\ local'[p][KeyOf(p)].start = StartOf(p) /\ local'[p][KeyOf(p)].n = CountOf(p)
        /\ \A j \in Kept(p, StartOf(p)) : j # KeyOf(p) => local'[p][j] = local[p][j]
        /\ CountOf(p) \in Nat
    BY <1>4, LocalEffect
  <2>4. Kept(p, StartOf(p)) \subseteq DOMAIN local[p]
    BY DEF Kept
  <2>5. CASE k = KeyOf(p) /\ s = StartOf(p)
    <3>1. redis'[k][s].n <= redis[k][s].n + 1 /\ redis'[k][s].n \in Nat
      <4>1. CASE UNCHANGED redis
        BY <1>1, <4>1
      <4>2. CASE Incr(KeyOf(p), StartOf(p))
        <5>1. redis'[k][s].n = redis[k][s].n + 1
          BY <2>2, <2>5, <4>2, IncrEffect
        <5>2. QED
          BY <1>1, <5>1
      <4>3. QED
        BY <2>1, <4>1, <4>2
    <3>2. card' + 1 = card
      BY <2>1, <2>5, PendingEnds
    <3>3. \/ k \in DOMAIN local[p] /\ local[p][k].start = s /\ CountOf(p) = local[p][k].n + 1
          \/ CountOf(p) = 1
      BY <2>4, <2>5 DEF CountOf, LocalCount
    <3> HIDE DEF card
    <3>4. ~Over(k, s, clock) => redis'[k][s].n + card' <= attempts[k][s]
      BY <1>1, <3>1, <3>2 DEF Counted, card
    <3>5. ~Over(k, s, clock) => CountOf(p) + card' <= attempts[k][s]
      <4>1. CASE CountOf(p) = 1
        BY <1>1, <3>2, <4>1 DEF Counted, card
      <4>2. CASE k \in DOMAIN local[p] /\ local[p][k].start = s
                 /\ CountOf(p) = local[p][k].n + 1
        <5>1. local[p][k].n \in Nat
          BY <1>2, <4>2
        <5>2. ~Over(k, s, clock) => local[p][k].n + card <= attempts[k][s]
          BY <4>2 DEF Counted, card
        <5>3. QED
          BY <1>1, <3>2, <4>2, <5>1, <5>2, OneLess
      <4>3. QED
        BY <3>3, <4>1, <4>2
    <3>6. ASSUME NEW q \in Procs \ {p}, k \in DOMAIN local[q], local[q][k].start = s,
                 ~Over(k, s, clock)
          PROVE  local[q][k].n + card' <= attempts[k][s]
      <4>1. local[q][k].n + card <= attempts[k][s] /\ local[q][k].n \in Nat
        BY <1>2, <3>6 DEF Counted, card
      <4>2. QED
        BY <1>1, <3>2, <4>1, OneLess
    <3>7. ASSUME NEW q \in Procs, k \in DOMAIN local'[q], local'[q][k].start = s,
                 ~Over(k, s, clock)
          PROVE  local'[q][k].n + card' <= attempts[k][s]
      BY <2>3, <2>5, <3>5, <3>6, <3>7
    <3>8. QED
      BY <2>1, <3>4, <3>7 DEF Counted, card
  <2>6. CASE k # KeyOf(p) \/ s # StartOf(p)
    <3>1. redis'[k][s] = redis[k][s]
      BY <2>1, <2>2, <2>6, IncrEffect
    <3>2. card' = card
      BY <2>1, <2>6, PendingEnds
    <3> HIDE DEF card
    <3>3. ASSUME NEW q \in Procs, k \in DOMAIN local'[q], local'[q][k].start = s
          PROVE  k \in DOMAIN local[q] /\ local'[q][k] = local[q][k]
      BY <2>3, <2>4, <2>6, <3>3
    <3>4. QED
      BY <2>1, <3>1, <3>2, <3>3 DEF Counted, card
  <2>7. QED
    BY <2>5, <2>6
<1>5. ASSUME NEW p \in Procs, NEW j \in Keys, Begin(p, j) PROVE Counted(k, s)'
  <2>1. UNCHANGED <<redis, local, clock>>
    BY <1>5, BeginEffect
  <2>2. CASE k = j /\ s = WindowStart(j, clock)
    <3>1. attempts'[k][s] = attempts[k][s] + 1
      BY <1>5, <2>2, BeginEffect
    <3>2. card' = card + 1
      BY <1>5, <2>2, PendingBegins
    <3> HIDE DEF card
    <3>3. QED
      BY <1>1, <1>2, <2>1, <3>1, <3>2 DEF Counted, card
  <2>3. CASE k # j \/ s # WindowStart(j, clock)
    <3>1. attempts'[k][s] = attempts[k][s]
      BY <1>5, <2>3, BeginEffect
    <3>2. card' = card
      BY <1>5, <2>3, PendingBegins
    <3>3. QED
      BY <2>1, <3>1, <3>2 DEF Counted
  <2>4. QED
    BY <2>2, <2>3
<1>6. CASE RestartRedis
  <2>1. redis'[k][s].n = 0 /\ UNCHANGED <<clock, local, call, attempts>>
    BY <1>6, RestartEffect
  <2>2. card' = card
    BY <2>1 DEF Pending
  <2> HIDE DEF card
  <2>3. QED
    BY <1>1, <2>1, <2>2 DEF Counted, card
<1>7. CASE Tick
  <2>1. /\ redis'[k][s] = NoCount \/ redis'[k][s] = redis[k][s]
        /\ attempts'[k][s] = IF Over(k, s, clock') THEN 0 ELSE attempts[k][s]
        /\ UNCHANGED <<local, call>> /\ clock' = clock + 1
    BY <1>7, TickEffect
  <2>2. ~Over(k, s, clock') => ~Over(k, s, clock)
    <3>1. s \in Nat /\ clock \in Nat /\ Ticks(k) \in Nat /\ MaxWait \in Nat
      BY CountTypes, TicksType, RateAssumption
    <3>2. QED
      BY <2>1, <3>1 DEF Over
  <2>3. card' = card
    BY <2>1 DEF Pending
  <2>4. redis'[k][s].n <= redis[k][s].n /\ redis'[k][s].n \in Nat
    BY <1>1, <2>1 DEF NoCount
  <2> HIDE DEF card
  <2>5. QED
    BY <1>1, <1>2, <2>1, <2>2, <2>3, <2>4 DEF Counted, card
<1>8. CASE UNCHANGED vars
  BY <1>8 DEF vars, Counted, Pending
<1>9. QED
  BY <1>3, <1>4, <1>5, <1>6, <1>7, <1>8 DEF Next

\* Every hit is counted at most once in each memory.
THEOREM HitsAreCounted == Spec => [](\A k \in Keys, s \in Times : Counted(k, s))
<1>1. ASSUME Init, NEW k \in Keys, NEW s \in Times PROVE Counted(k, s)
  <2>1. Pending(k, s) = {} /\ \A p \in Procs : DOMAIN local[p] = {}
    BY <1>1 DEF Init, Pending
  <2>2. Cardinality(Pending(k, s)) = 0
    BY <2>1, FS_EmptySet
  <2>3. redis[k][s].n = 0 /\ attempts[k][s] = 0
    BY <1>1 DEF Init, NoCount
  <2>4. QED
    BY <2>1, <2>2, <2>3 DEF Counted
<1>2. Init => TypeOK /\ \A k \in Keys, s \in Times : Counted(k, s)
  BY <1>1, InitTypeOK
<1>3. TypeOK /\ (\A k \in Keys, s \in Times : Counted(k, s)) /\ [Next]_vars =>
        TypeOK' /\ (\A k \in Keys, s \in Times : Counted(k, s))'
  <2> SUFFICES ASSUME TypeOK, \A k \in Keys, s \in Times : Counted(k, s), [Next]_vars
               PROVE  TypeOK' /\ \A k \in Keys, s \in Times' : Counted(k, s)'
    OBVIOUS
  <2>1. Times' = Times
    BY DEF Times
  <2>2. QED
    BY <2>1, StepTypeOK, StepCounted
<1>4. QED
  BY <1>2, <1>3, PTL DEF Spec

\* Only an answer ends a check, and a refusal admits nobody.
LEMMA WhoRefuses ==
  ASSUME TypeOK, [Next]_vars, NEW p \in Procs, Refuses(p)
  PROVE  \/ HitRedis(p) /\ redis'[KeyOf(p)][StartOf(p)].n > Limit
         \/ HitLocal(p) /\ CountOf(p) > Limit
<1> USE DEF Refuses
<1>1. ASSUME NEW q \in Procs, HitRedis(q)
      PROVE  q = p /\ redis'[KeyOf(p)][StartOf(p)].n > Limit
  <2>1. call' = [call EXCEPT ![q] = NoCall] /\ call[q] # NoCall
    BY <1>1, RedisHit
  <2>2. q = p
    BY <2>1 DEF TypeOK
  <2>3. byRedis[KeyOf(p)][StartOf(p)] \in Nat
    BY <2>1, <2>2, CallTypes, CountTypes
  <2>4. QED
    BY <1>1, <2>2, <2>3, RedisEffect
<1>2. ASSUME NEW q \in Procs, HitLocal(q)
      PROVE  q = p /\ CountOf(p) > Limit
  <2>1. call' = [call EXCEPT ![q] = NoCall] /\ call[q] # NoCall
    BY <1>2, LocalHit
  <2>2. q = p
    BY <2>1 DEF TypeOK
  <2>3. byLocal[p][KeyOf(p)][StartOf(p)] \in Nat
    <3>1. KeyOf(p) \in Keys /\ StartOf(p) \in Times
      BY <2>1, <2>2, CallTypes
    <3>2. QED
      BY <3>1 DEF TypeOK
  <2>4. QED
    BY <1>2, <2>2, <2>3, LocalDecides
<1>3. ASSUME NEW q \in Procs, NEW k \in Keys, Begin(q, k) PROVE FALSE
  BY <1>3, BeginEffect
<1>4. CASE RestartRedis \/ Tick \/ UNCHANGED vars
  BY <1>4, RestartEffect, TickEffect DEF vars
<1>5. QED
  BY <1>1, <1>2, <1>3, <1>4 DEF Next

LEMMA RefusedIsOver ==
  ASSUME TypeOK, CallsEnd, \A k \in Keys, s \in Times : Counted(k, s), [Next]_vars,
         NEW p \in Procs, Refuses(p)
  PROVE  attempts[KeyOf(p)][StartOf(p)] > Limit
<1> DEFINE k == KeyOf(p)
           s == StartOf(p)
           card == Cardinality(Pending(k, s))
<1>1. /\ call[p] # NoCall /\ k \in Keys /\ s \in Times /\ ~Over(k, s, clock)
      /\ Counted(k, s)
  BY CallTypes, HitInTime DEF Refuses
<1>2. /\ redis[k][s].n \in Nat /\ attempts[k][s] \in Nat /\ Limit \in Nat /\ Limit >= 1
      /\ card \in Nat /\ card >= 1
  <2>1. redis[k][s].n \in Nat
    BY <1>1, CountTypes
  <2>2. attempts[k][s] \in Nat
    BY <1>1, RateAssumption DEF TypeOK
  <2>3. p \in Pending(k, s)
    BY <1>1 DEF Pending, KeyOf, StartOf
  <2>4. card \in Nat /\ card # 0
    BY <2>3, PendingFinite, FS_EmptySet
  <2>5. QED
    BY <2>1, <2>2, <2>4, RateAssumption
<1>3. CASE HitRedis(p) /\ redis'[k][s].n > Limit
  <2>1. redis'[k][s].n = redis[k][s].n + 1
    BY <1>1, <1>3, RedisHit, IncrEffect
  <2>2. redis[k][s].n + card <= attempts[k][s]
    BY <1>1 DEF Counted
  <2> HIDE DEF k, s, card
  <2>3. attempts[k][s] > Limit
    BY <1>2, <1>3, <2>1, <2>2
  <2>4. QED
    BY <2>3 DEF k, s
<1>4. CASE HitLocal(p) /\ CountOf(p) > Limit
  <2>1. /\ k \in DOMAIN local[p] /\ local[p][k].start = s
        /\ CountOf(p) = local[p][k].n + 1
    <3>1. CountOf(p) # 1
      BY <1>2, <1>4
    <3>2. QED
      BY <3>1 DEF CountOf, LocalCount, Kept
  <2>2. local[p][k].n \in Nat
    BY <2>1, EntryTypes DEF Entry
  <2>3. local[p][k].n + card <= attempts[k][s]
    BY <1>1, <2>1 DEF Counted
  <2> HIDE DEF k, s, card
  <2>4. attempts[k][s] > Limit
    BY <1>2, <1>4, <2>1, <2>2, <2>3
  <2>5. QED
    BY <2>4 DEF k, s
<1>5. QED
  BY <1>3, <1>4, WhoRefuses

\* Nobody is refused in a window before more than the limit have come, whatever
\* is counted twice, lost or restarted.
THEOREM RefusalsAreDue == Spec => RefusedOnlyOverLimit
<1>1. TypeOK /\ RedisInv /\ (\A k \in Keys, s \in Times : Counted(k, s)) /\ [Next]_vars =>
        [\A p \in Procs : Refuses(p) =>
           attempts[call[p].key][WindowStart(call[p].key, call[p].now)] > Limit]_vars
  BY RefusedIsOver DEF RedisInv, KeyOf, StartOf
<1>2. QED
  BY <1>1, RedisInvariance, HitsAreCounted, PTL DEF Spec, RefusedOnlyOverLimit

LEMMA BackInTime ==
  ASSUME NEW k \in Keys, NEW now \in Nat
  PROVE  LET back == now + RetryAfter(k, now) * Second
             next == WindowStart(k, now) + Ticks(k)
         IN  next <= back /\ back <= next + Second
<1> DEFINE wait == WindowStart(k, now) + Ticks(k) - now
           q == wait \div Second
<1>1. /\ WindowStart(k, now) \in Nat /\ Ticks(k) \in Nat /\ Second \in Nat \ {0}
      /\ wait \in Nat
  BY InWindow, TicksType, RateAssumption
<1>2. wait + now = WindowStart(k, now) + Ticks(k)
  BY <1>1
<1> HIDE DEF wait
<1>3. q \in Nat /\ q * Second <= wait /\ wait < q * Second + Second
  BY <1>1, DivBounds
<1>4. RetryAfter(k, now) = q + 1
  BY DEF RetryAfter, wait
<1> HIDE DEF q
<1>5. (q + 1) * Second = q * Second + Second /\ q * Second \in Nat
  BY <1>1, <1>3, Product
<1>6. QED
  BY <1>1, <1>2, <1>3, <1>4, <1>5

\* Who comes back when he was told to is in the next window, and not more than a
\* second late.
THEOREM RetryIsInTime == Spec => RetryReachesNextWindow
<1>1. ASSUME TypeOK, NEW p \in Procs, Refuses(p)
      PROVE  LET back == call[p].now + RetryAfter(call[p].key, call[p].now) * Second
                 next == WindowStart(call[p].key, call[p].now) + Ticks(call[p].key)
             IN  next <= back /\ back <= next + Second
  <2>1. call[p].key \in Keys /\ call[p].now \in Nat
    BY <1>1, CallTypes DEF Refuses, KeyOf
  <2>2. QED
    BY <2>1, BackInTime
<1>2. TypeOK /\ [Next]_vars =>
        [\A p \in Procs : Refuses(p) =>
           LET back == call[p].now + RetryAfter(call[p].key, call[p].now) * Second
               next == WindowStart(call[p].key, call[p].now) + Ticks(call[p].key)
           IN  next <= back /\ back <= next + Second]_vars
  BY <1>1
<1>3. QED
  BY <1>2, TypeCorrect, PTL DEF Spec, RetryReachesNextWindow

-----------------------------------------------------------------------------
(***************************************************************************)
(* What a process admits on its own.                                       *)
(***************************************************************************)
LEMMA Multiple ==
  ASSUME NEW a \in Nat, NEW d \in Nat \ {0}, a % d = 0
  PROVE  a \div d \in Nat /\ a = (a \div d) * d
  OBVIOUS

LEMMA ProductSwap ==
  ASSUME NEW a \in Nat, NEW b \in Nat, NEW d \in Nat
  PROVE  (a * b) * d = a * (b * d) /\ a * b \in Nat
  OBVIOUS

\* What a multiple of a number leaves of a moment, the number leaves too.
LEMMA DivMultiple ==
  ASSUME NEW t \in Nat, NEW d \in Nat \ {0}, NEW m \in Nat, m * d \in Nat \ {0}
  PROVE  (t \div (m * d)) * (m * d) <= (t \div d) * d
<1> DEFINE q == t \div (m * d)
           r == t \div d
<1>1. q \in Nat /\ q * (m * d) <= t
  BY DivBounds
<1>2. r \in Nat /\ t < r * d + d
  BY DivBounds
<1> HIDE DEF q, r
<1>3. q * (m * d) = (q * m) * d /\ q * m \in Nat
  BY <1>1, ProductSwap
<1>4. ~(r + 1 <= q * m)
  <2>1. r + 1 <= q * m => (r + 1) * d <= (q * m) * d
    BY <1>2, <1>3, Product
  <2>2. (r + 1) * d = r * d + d /\ r * d \in Nat /\ (q * m) * d \in Nat
    BY <1>2, <1>3, Product
  <2>3. QED
    BY <1>1, <1>2, <1>3, <2>1, <2>2
<1>5. q * m <= r
  BY <1>2, <1>3, <1>4
<1>6. (q * m) * d <= r * d
  BY <1>2, <1>3, <1>5, Product
<1>7. QED
  BY <1>3, <1>6 DEF q, r

\* The windows of a key that divides all others begin no earlier than theirs.
LEMMA ShortestBeginsLast ==
  ASSUME NEW k \in Keys, NEW j \in Keys, Shortest(k), NEW t \in Nat
  PROVE  WindowStart(j, t) <= WindowStart(k, t)
<1>1. Window[j] \in Nat \ {0} /\ Window[k] \in Nat \ {0} /\ Second \in Nat \ {0}
  BY RateAssumption
<1>2. PICK m \in Nat : Window[j] = m * Window[k]
  BY <1>1, Multiple DEF Shortest
<1>3. Ticks(j) = m * Ticks(k)
  BY <1>1, <1>2, ProductSwap DEF Ticks
<1>4. Ticks(j) \in Nat \ {0} /\ Ticks(k) \in Nat \ {0}
  BY TicksType
<1> HIDE DEF Ticks
<1>5. QED
  BY <1>3, <1>4, DivMultiple DEF WindowStart

\* No later hit of a process is of an earlier moment.
Earliest(p) == IF call[p] = NoCall THEN clock ELSE call[p].now

\* What a process has admitted is in its memory, or can no longer be hit.
Remembered(p, k) ==
  /\ k \in DOMAIN local[p] => local[p][k].start <= WindowStart(k, Earliest(p))
  /\ \A s \in Times :
       /\ byLocal[p][k][s] <= Limit
       /\ byLocal[p][k][s] > 0 =>
            \/ /\ k \in DOMAIN local[p] /\ local[p][k].start = s
               /\ byLocal[p][k][s] <= local[p][k].n
            \/ s < WindowStart(k, Earliest(p))

LEMMA EarliestGrows ==
  ASSUME TypeOK, CallsEnd, [Next]_vars, NEW p \in Procs
  PROVE  Earliest(p) \in Nat /\ Earliest(p)' \in Nat /\ Earliest(p) <= Earliest(p)'
<1>1. clock \in Nat /\ clock' \in Nat
  <2>1. TypeOK'
    BY StepTypeOK
  <2>2. QED
    BY <2>1, RateAssumption DEF TypeOK, Times
<1>2. Earliest(p) \in Nat /\ Earliest(p) <= clock
  BY <1>1, CallTypes DEF Earliest, CallsEnd
<1>3. ASSUME NEW q \in Procs, HitRedis(q) \/ HitLocal(q)
      PROVE  Earliest(p)' \in Nat /\ Earliest(p) <= Earliest(p)'
  <2>1. call' = [call EXCEPT ![q] = NoCall] /\ UNCHANGED clock
    BY <1>3, RedisHit, LocalHit
  <2>2. call'[p] = IF p = q THEN NoCall ELSE call[p]
    BY <2>1 DEF TypeOK
  <2>3. QED
    BY <1>1, <1>2, <2>1, <2>2 DEF Earliest
<1>4. ASSUME NEW q \in Procs, NEW k \in Keys, Begin(q, k)
      PROVE  Earliest(p)' \in Nat /\ Earliest(p) <= Earliest(p)'
  <2>1. /\ UNCHANGED clock /\ call'[q] # NoCall /\ call'[q].now = clock
        /\ p # q => call'[p] = call[p]
    BY <1>4, BeginEffect
  <2>2. QED
    BY <1>1, <1>2, <2>1 DEF Earliest
<1>5. CASE RestartRedis \/ UNCHANGED vars
  <2>1. UNCHANGED <<clock, call>>
    BY <1>5, RestartEffect DEF vars
  <2>2. QED
    BY <1>2, <2>1 DEF Earliest
<1>6. CASE Tick
  <2>1. clock' = clock + 1 /\ UNCHANGED call
    BY <1>6, TickEffect
  <2>2. QED
    BY <1>1, <1>2, <2>1 DEF Earliest
<1>7. QED
  BY <1>2, <1>3, <1>4, <1>5, <1>6 DEF Next

\* A step that leaves the memory of a process alone.
LEMMA FrameRemembered ==
  ASSUME TypeOK, CallsEnd, [Next]_vars, NEW p \in Procs, NEW k \in Keys, Remembered(p, k),
         local'[p] = local[p],
         \A s \in Times : byLocal'[p][k][s] = 0 \/ byLocal'[p][k][s] = byLocal[p][k][s]
  PROVE  Remembered(p, k)'
<1>1. /\ WindowStart(k, Earliest(p)) \in Nat /\ WindowStart(k, Earliest(p)') \in Nat
      /\ WindowStart(k, Earliest(p)) <= WindowStart(k, Earliest(p)')
  <2>1. Earliest(p) \in Nat /\ Earliest(p)' \in Nat /\ Earliest(p) <= Earliest(p)'
    BY EarliestGrows
  <2>2. QED
    BY <2>1, InWindow, WindowsFollow
<1>2. k \in DOMAIN local[p] => local[p][k].start \in Nat
  BY EntryTypes, RateAssumption DEF Entry, Times
<1>3. \A s \in Times : s \in Nat /\ byLocal[p][k][s] \in Nat
  BY RateAssumption DEF TypeOK, Times
<1>4. Limit \in Nat
  BY RateAssumption
<1>5. k \in DOMAIN local'[p] => local'[p][k].start <= WindowStart(k, Earliest(p)')
  BY <1>1, <1>2 DEF Remembered
<1>6. ASSUME NEW s \in Times
      PROVE  /\ byLocal'[p][k][s] <= Limit
             /\ byLocal'[p][k][s] > 0 =>
                  \/ /\ k \in DOMAIN local'[p] /\ local'[p][k].start = s
                     /\ byLocal'[p][k][s] <= local'[p][k].n
                  \/ s < WindowStart(k, Earliest(p)')
  <2>1. CASE byLocal'[p][k][s] = 0
    BY <1>4, <2>1
  <2>2. CASE byLocal'[p][k][s] = byLocal[p][k][s]
    BY <1>1, <1>3, <2>2 DEF Remembered
  <2>3. QED
    BY <2>1, <2>2
<1>7. WindowStart(k, Earliest(p))' = WindowStart(k, Earliest(p)') /\ Times' = Times
  BY DEF WindowStart, Ticks, Times
<1>8. QED
  BY <1>5, <1>6, <1>7 DEF Remembered

\* The process counts a hit in its memory; the sweep drops only what it cannot
\* hit again.
LEMMA HitRemembered ==
  ASSUME TypeOK, CallsEnd, NEW p \in Procs, NEW k \in Keys, Shortest(k), Remembered(p, k),
         HitLocal(p)
  PROVE  Remembered(p, k)'
<1> DEFINE K == KeyOf(p)
           S == StartOf(p)
<1>1. /\ call[p] # NoCall /\ call' = [call EXCEPT ![p] = NoCall] /\ UNCHANGED clock
  BY LocalHit
<1>2. K \in Keys /\ S \in Times /\ S \in Nat /\ call[p].now \in Nat
  BY <1>1, CallTypes, RateAssumption DEF Times
<1>3. Earliest(p) = call[p].now /\ Earliest(p)' = clock
  BY <1>1 DEF Earliest, TypeOK
<1> DEFINE W == WindowStart(k, call[p].now)
<1>4. /\ W \in Nat /\ S <= W /\ (k = K => W = S)
      /\ WindowStart(k, clock) \in Nat /\ W <= WindowStart(k, clock)
  <2>1. S = WindowStart(K, call[p].now)
    BY DEF StartOf, KeyOf
  <2>2. S <= W
    BY <1>2, <2>1, ShortestBeginsLast
  <2>3. clock \in Nat /\ call[p].now <= clock
    BY <1>1, RateAssumption DEF TypeOK, Times, CallsEnd
  <2>4. QED
    BY <1>2, <2>1, <2>2, <2>3, InWindow, WindowsFollow
<1>5. /\ DOMAIN local'[p] = Kept(p, S) \cup {K}
      /\ local'[p][K].start = S /\ local'[p][K].n = CountOf(p)
      /\ \A j \in Kept(p, S) : j # K => local'[p][j] = local[p][j]
      /\ CountOf(p) \in Nat \ {0}
  BY LocalEffect
<1>6. Kept(p, S) \subseteq DOMAIN local[p]
      /\ \A j \in DOMAIN local[p] : ~(local[p][j].start < S) => j \in Kept(p, S)
  BY DEF Kept, Swept
<1>7. /\ k \in DOMAIN local[p] => /\ local[p][k].start \in Nat /\ local[p][k].n \in Nat
                                 /\ local[p][k].start <= W
      /\ \A s \in Times : s \in Nat /\ byLocal[p][k][s] \in Nat
      /\ Limit \in Nat
  <2>1. k \in DOMAIN local[p] => local[p][k].start \in Nat /\ local[p][k].n \in Nat
    BY EntryTypes, RateAssumption DEF Entry, Times
  <2>2. \A s \in Times : s \in Nat /\ byLocal[p][k][s] \in Nat
    BY RateAssumption DEF TypeOK, Times
  <2>3. QED
    BY <1>3, <1>4, <2>1, <2>2, RateAssumption DEF Remembered
<1>8. /\ \A s \in Times :
           /\ byLocal[p][k][s] <= Limit
           /\ byLocal[p][k][s] > 0 =>
                \/ /\ k \in DOMAIN local[p] /\ local[p][k].start = s
                   /\ byLocal[p][k][s] <= local[p][k].n
                \/ s < W
  BY <1>3, <1>4 DEF Remembered
<1> HIDE DEF K, S, W
<1>9. k \in DOMAIN local'[p] => local'[p][k].start <= WindowStart(k, clock)
  BY <1>2, <1>4, <1>5, <1>6, <1>7
<1>10. ASSUME NEW s \in Times
       PROVE  /\ byLocal'[p][k][s] <= Limit
              /\ byLocal'[p][k][s] > 0 =>
                   \/ /\ k \in DOMAIN local'[p] /\ local'[p][k].start = s
                      /\ byLocal'[p][k][s] <= local'[p][k].n
                   \/ s < WindowStart(k, clock)
  <2>1. CASE k = K /\ s = S
    <3>1. byLocal[p][k][s] + 1 <= CountOf(p)
      <4>1. CASE byLocal[p][k][s] = 0
        BY <1>5, <4>1
      <4>2. CASE byLocal[p][k][s] > 0
        <5>1. k \in DOMAIN local[p] /\ local[p][k].start = s /\ byLocal[p][k][s] <= local[p][k].n
          BY <1>2, <1>4, <1>8, <2>1, <4>2
        <5>2. k \in Kept(p, S)
          BY <1>2, <1>6, <2>1, <5>1
        <5>3. CountOf(p) = local[p][k].n + 1
          BY <2>1, <5>1, <5>2 DEF CountOf, LocalCount, K, S
        <5>4. QED
          BY <1>7, <5>1, <5>3
      <4>3. QED
        BY <1>7, <4>1, <4>2
    <3>2. \/ CountOf(p) <= Limit /\ byLocal'[p][k][s] = byLocal[p][k][s] + 1
          \/ byLocal'[p][k][s] = byLocal[p][k][s]
      BY <2>1, LocalDecides DEF K, S
    <3>3. byLocal'[p][k][s] <= CountOf(p) /\ byLocal'[p][k][s] <= Limit
      BY <1>5, <1>7, <1>8, <3>1, <3>2
    <3>4. QED
      BY <1>5, <2>1, <3>3
  <2>2. CASE ~(k = K /\ s = S)
    <3>1. byLocal'[p][k][s] = byLocal[p][k][s]
      BY <2>2, LocalDecides DEF K, S
    <3>2. CASE s < W
      BY <1>2, <1>4, <1>7, <1>8, <3>1, <3>2
    <3>3. CASE ~(s < W)
      <4>1. byLocal[p][k][s] > 0 =>
              /\ k \in DOMAIN local[p] /\ local[p][k].start = s
              /\ byLocal[p][k][s] <= local[p][k].n
        BY <1>8, <3>3
      <4>2. byLocal[p][k][s] > 0 => k # K /\ k \in Kept(p, S)
        BY <1>2, <1>4, <1>6, <1>7, <2>2, <3>3, <4>1
      <4>3. QED
        BY <1>5, <1>8, <3>1, <4>1, <4>2
    <3>4. QED
      BY <3>2, <3>3
  <2>3. QED
    BY <2>1, <2>2
<1>11. WindowStart(k, Earliest(p))' = WindowStart(k, clock) /\ Times' = Times
  BY <1>3 DEF WindowStart, Ticks, Times
<1>12. QED
  BY <1>9, <1>10, <1>11 DEF Remembered

LEMMA StepRemembered ==
  ASSUME TypeOK, CallsEnd, [Next]_vars, NEW p \in Procs, NEW k \in Keys, Shortest(k),
         Remembered(p, k)
  PROVE  Remembered(p, k)'
<1>1. CASE HitLocal(p)
  BY <1>1, HitRemembered
<1>2. ASSUME NEW q \in Procs \ {p}, HitLocal(q) PROVE Remembered(p, k)'
  <2>1. local'[p] = local[p] /\ byLocal'[p] = byLocal[p]
    BY <1>2, LocalEffect, LocalDecides
  <2>2. QED
    BY <2>1, FrameRemembered
<1>3. ASSUME NEW q \in Procs, HitRedis(q) PROVE Remembered(p, k)'
  <2>1. UNCHANGED <<local, byLocal>>
    BY <1>3, RedisHit
  <2>2. QED
    BY <2>1, FrameRemembered
<1>4. ASSUME NEW q \in Procs, NEW j \in Keys, Begin(q, j) PROVE Remembered(p, k)'
  <2>1. UNCHANGED <<local, byLocal>>
    BY <1>4, BeginEffect
  <2>2. QED
    BY <2>1, FrameRemembered
<1>5. CASE RestartRedis \/ UNCHANGED vars
  <2>1. UNCHANGED <<local, byLocal>>
    BY <1>5, RestartEffect DEF vars
  <2>2. QED
    BY <2>1, FrameRemembered
<1>6. CASE Tick
  <2>1. UNCHANGED local
        /\ \A s \in Times : byLocal'[p][k][s] = 0 \/ byLocal'[p][k][s] = byLocal[p][k][s]
    BY <1>6, TickEffect
  <2>2. QED
    BY <2>1, FrameRemembered
<1>7. QED
  BY <1>1, <1>2, <1>3, <1>4, <1>5, <1>6 DEF Next

\* A process on its own lets no more than the limit into a window of a key whose
\* window divides the others, `req:` among them, whichever keys it has in its
\* memory and whichever of them sweeps.
THEOREM FallbackBoundsProcess == Spec => []FallbackAdmitsLimit
<1> DEFINE LocalInv ==
             /\ TypeOK /\ CallsEnd
             /\ \A p \in Procs, k \in Keys : Shortest(k) => Remembered(p, k)
<1>1. Init => LocalInv
  <2> SUFFICES ASSUME Init PROVE LocalInv
    OBVIOUS
  <2>1. TypeOK /\ CallsEnd
    BY InitTypeOK, InitRedisInv DEF RedisInv
  <2>2. ASSUME NEW p \in Procs, NEW k \in Keys PROVE Remembered(p, k)
    <3>1. DOMAIN local[p] = {} /\ Limit \in Nat
      BY RateAssumption DEF Init
    <3>2. \A s \in Times : byLocal[p][k][s] = 0
      BY DEF Init
    <3>3. QED
      BY <3>1, <3>2 DEF Remembered
  <2>3. QED
    BY <2>1, <2>2
<1>2. LocalInv /\ [Next]_vars => LocalInv'
  <2> SUFFICES ASSUME LocalInv, [Next]_vars PROVE LocalInv'
    OBVIOUS
  <2>1. TypeOK' /\ CallsEnd'
    BY StepTypeOK, StepCallsEnd
  <2>2. ASSUME NEW p \in Procs, NEW k \in Keys, Shortest(k) PROVE Remembered(p, k)'
    BY <2>2, StepRemembered
  <2>3. \A k \in Keys : Shortest(k)' <=> Shortest(k)
    BY DEF Shortest
  <2>4. QED
    BY <2>1, <2>2, <2>3
<1>3. LocalInv => FallbackAdmitsLimit
  BY DEF Remembered, FallbackAdmitsLimit
<1>4. QED
  BY <1>1, <1>2, <1>3, PTL DEF Spec
=============================================================================
