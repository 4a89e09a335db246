----------------------------- MODULE RateLimit -----------------------------
(***************************************************************************)
(* The fixed-window rate limiter (services/rate_limit.py): a counter in    *)
(* Redis shared by the API processes, and one in the memory of each        *)
(* process for the calls that Redis does not answer.                       *)
(*                                                                         *)
(* A key stands for a kind of limit and a client (`req:<ip>`,              *)
(* `upload:<ip>`); each has its window.  A process handles one check at a  *)
(* time, since the call blocks its event loop, but time passes and other   *)
(* processes work while it waits for Redis.                                *)
(***************************************************************************)
EXTENDS Integers, FiniteSets

CONSTANTS
  Keys,           \* what hits are counted against
  Procs,          \* API processes
  NoCall,         \* no check under way
  Window,         \* window_seconds of each key
  Second,         \* clock ticks in a second: `now` has a fraction
  Limit,          \* hits allowed in a window
  MaxLocalKeys,   \* _MAX_LOCAL_KEYS
  MaxWait,        \* ticks a Redis call may block (the socket timeouts)
  MaxClock,       \* bound on the clock
  MaxHits,        \* bound on the hits
  MaxRestarts     \* bound on restarts of Redis, which keeps nothing on disk

ASSUME RateAssumption ==
  /\ IsFiniteSet(Procs) /\ NoCall \notin [key : Keys, now : Nat]
  /\ Window \in [Keys -> Nat \ {0}]
  /\ Second \in Nat \ {0} /\ Limit \in Nat \ {0}
  /\ MaxLocalKeys \in Nat /\ MaxWait \in Nat /\ MaxClock \in Nat
  /\ MaxHits \in Nat /\ MaxRestarts \in Nat

VARIABLES
  clock,      \* time.time(), in ticks
  redis,      \* for each key and window: the count and the tick it expires at
  restarts,   \* restarts of Redis so far
  local,      \* _local of each process: window and count of the keys in it
  call,       \* the check of each process: its key and its `now`
  hits,       \* hits so far
  attempts,   \* hits of each key in each window
  byRedis,    \* those admitted on the count of Redis
  byLocal     \* those admitted by each process on its own count

vars == <<clock, redis, restarts, local, call, hits, attempts, byRedis, byLocal>>
ghosts == <<hits, attempts, byRedis, byLocal>>

-----------------------------------------------------------------------------
Ticks(k) == Window[k] * Second

\* _window_start
WindowStart(k, now) == (now \div Ticks(k)) * Ticks(k)

Times == 0 .. MaxClock

NoCount == [n |-> 0, until |-> 0]

TypeOK ==
  /\ clock \in Times
  /\ redis \in [Keys -> [Times -> [n : Nat, until : Nat]]]
  /\ restarts \in 0 .. MaxRestarts
  /\ local \in [Procs -> UNION {[K -> [start : Times, n : Nat \ {0}]] : K \in SUBSET Keys}]
  /\ call \in [Procs -> {NoCall} \cup [key : Keys, now : Times]]
  /\ hits \in 0 .. MaxHits
  /\ attempts \in [Keys -> [Times -> Nat]]
  /\ byRedis \in [Keys -> [Times -> Nat]]
  /\ byLocal \in [Procs -> [Keys -> [Times -> Nat]]]

Init ==
  /\ clock = 0
  /\ redis = [k \in Keys |-> [s \in Times |-> NoCount]]
  /\ restarts = 0
  /\ local = [p \in Procs |-> << >>]
  /\ call = [p \in Procs |-> NoCall]
  /\ hits = 0
  /\ attempts = [k \in Keys |-> [s \in Times |-> 0]]
  /\ byRedis = attempts
  /\ byLocal = [p \in Procs |-> attempts]

-----------------------------------------------------------------------------
\* check() begins: `now` is read before Redis is asked.
Begin(p, k) ==
  LET s == WindowStart(k, clock) IN
  /\ call[p] = NoCall
  /\ hits < MaxHits
  /\ hits' = hits + 1
  /\ call' = [call EXCEPT ![p] = [key |-> k, now |-> clock]]
  /\ attempts' = [attempts EXCEPT ![k][s] = @ + 1]
  /\ UNCHANGED <<clock, redis, restarts, local, byRedis, byLocal>>

\* Faulty variant: the counter expires at the end of the second.
ExpiryTooSoon(k) == clock + 1

\* EXPIRE window_seconds + 1, from the time Redis executes it.
Expiry(k) == clock + Ticks(k) + Second

\* Faulty variant: the client sends the transaction again.
IncrTwice(k, s) ==
  redis' = [redis EXCEPT ![k][s] = [n |-> @.n + 2, until |-> Expiry(k)]]

\* INCR and EXPIRE in one MULTI.
Incr(k, s) ==
  redis' = [redis EXCEPT ![k][s] = [n |-> @.n + 1, until |-> Expiry(k)]]

\* Faulty variant: the fraction of a second is cut off.
RetryAfterCut(k, now) == (WindowStart(k, now) + Ticks(k) - now) \div Second

\* RateLimitExceeded.retry_after, in seconds.
RetryAfter(k, now) == (WindowStart(k, now) + Ticks(k) - now) \div Second + 1

\* The caller is let through, or refused: RateLimitExceeded.
Answer(p) == call' = [call EXCEPT ![p] = NoCall]

\* Redis answers: its count decides.
HitRedis(p) ==
  /\ call[p] # NoCall
  /\ LET k == call[p].key
         s == WindowStart(k, call[p].now)
     IN  /\ Incr(k, s)
         /\ \/ /\ redis'[k][s].n <= Limit
               /\ byRedis' = [byRedis EXCEPT ![k][s] = @ + 1]
            \/ redis'[k][s].n > Limit /\ UNCHANGED byRedis
  /\ Answer(p)
  /\ UNCHANGED <<clock, restarts, local, hits, attempts, byLocal>>

\* Faulty variant: the sweep takes the open windows too.
SweptAll(p, start) == {k \in DOMAIN local[p] : local[p][k].start <= start}

\* Once over its bound the dictionary loses what is older than the hit's window.
Swept(p, start) == {k \in DOMAIN local[p] : local[p][k].start < start}

Kept(p, start) ==
  IF Cardinality(DOMAIN local[p]) > MaxLocalKeys
  THEN DOMAIN local[p] \ Swept(p, start)
  ELSE DOMAIN local[p]

\* The count of this hit in the memory of the process.
LocalCount(p, k, start) ==
  IF k \in Kept(p, start) /\ local[p][k].start = start THEN local[p][k].n + 1 ELSE 1

\* Redis gives no answer; it may have counted the hit nevertheless.  The
\* process counts it in its own memory, and that count decides.
HitLocal(p) ==
  /\ call[p] # NoCall
  /\ LET k == call[p].key
         s == WindowStart(k, call[p].now)
         n == LocalCount(p, k, s)
     IN  /\ Incr(k, s) \/ UNCHANGED redis
         /\ local' = [local EXCEPT ![p] =
              [j \in Kept(p, s) \cup {k} |->
                 IF j = k THEN [start |-> s, n |-> n] ELSE local[p][j]]]
         /\ \/ /\ n <= Limit
               /\ byLocal' = [byLocal EXCEPT ![p][k][s] = @ + 1]
            \/ n > Limit /\ UNCHANGED byLocal
  /\ Answer(p)
  /\ UNCHANGED <<clock, restarts, hits, attempts, byRedis>>

\* Redis comes back empty.
RestartRedis ==
  /\ restarts < MaxRestarts
  /\ restarts' = restarts + 1
  /\ redis' = [k \in Keys |-> [s \in Times |-> NoCount]]
  /\ UNCHANGED <<clock, local, call, ghosts>>

\* A window no call can hit any more.
Over(k, s, t) == s + Ticks(k) + MaxWait <= t

Forget(counts, t) ==
  [k \in Keys |-> [s \in Times |-> IF Over(k, s, t) THEN 0 ELSE counts[k][s]]]

\* Time passes, no further than a blocked call allows, and counters expire.
\* What is remembered of windows that are over is dropped.
Tick ==
  /\ clock < MaxClock
  /\ \A p \in Procs : call[p] # NoCall => clock < call[p].now + MaxWait
  /\ clock' = clock + 1
  /\ redis' = [k \in Keys |-> [s \in Times |->
                 IF redis[k][s].until <= clock' THEN NoCount ELSE redis[k][s]]]
  /\ attempts' = Forget(attempts, clock')
  /\ byRedis' = Forget(byRedis, clock')
  /\ byLocal' = [p \in Procs |-> Forget(byLocal[p], clock')]
  /\ UNCHANGED <<restarts, local, call, hits>>

Next ==
  \/ \E p \in Procs : HitRedis(p) \/ HitLocal(p) \/ \E k \in Keys : Begin(p, k)
  \/ RestartRedis
  \/ Tick

Spec == Init /\ [][Next]_vars

-----------------------------------------------------------------------------
(***************************************************************************)
(* Properties.                                                             *)
(***************************************************************************)

\* The step that refuses the caller of p.
Refuses(p) ==
  call[p] # NoCall /\ call'[p] = NoCall /\ UNCHANGED <<byRedis, byLocal>>

\* How often a counter of a window can be new: it lives for a second more than
\* the window since its last hit, but a call under way for longer than that
\* second finds it gone.
Lifetimes(k) == 1 + (Ticks(k) - 1 + MaxWait) \div (Ticks(k) + Second)

\* Across all processes Redis admits no more than the limit in a window, once
\* more for every restart that lost its counters, and for every one that slow
\* calls outlive; none expires early.
RedisAdmitsLimit ==
  \A k \in Keys, s \in Times : byRedis[k][s] <= Limit * (Lifetimes(k) + restarts)

\* The window of this key divides every other: the minute of `req:`.
Shortest(k) == \A j \in Keys : Window[j] % Window[k] = 0

\* The fallback bounds a single process (rate_limit.py:16) for the keys of the
\* shortest window, whichever keys sweep.  The longer ones lose the bound with
\* EvictsOnlyClosedWindows, below.
FallbackAdmitsLimit ==
  \A p \in Procs, k \in Keys, s \in Times : Shortest(k) => byLocal[p][k][s] <= Limit

\* Whatever is counted twice or restarted, nobody is refused in a window
\* before passing the limit in it.
RefusedOnlyOverLimit ==
  [][\A p \in Procs : Refuses(p) =>
       attempts[call[p].key][WindowStart(call[p].key, call[p].now)] > Limit]_vars

\* A client that comes back when it was told to is in a later window, and has
\* not waited for more than a second into it.
RetryReachesNextWindow ==
  [][\A p \in Procs : Refuses(p) =>
       LET back == call[p].now + RetryAfter(call[p].key, call[p].now) * Second
           next == WindowStart(call[p].key, call[p].now) + Ticks(call[p].key)
       IN  next <= back /\ back <= next + Second]_vars

-----------------------------------------------------------------------------
(***************************************************************************)
(* What the repository says of the limiter and the code does not keep.     *)
(***************************************************************************)

\* rate_limit.py:55: the eviction drops "everything whose window has already
\* closed".  It compares with the window of the key at hand, so the hit of a
\* minute window drops hour windows that are still open.
EvictsOnlyClosedWindows ==
  [][\A p \in Procs : \A k \in DOMAIN local[p] \ DOMAIN local'[p] :
       local[p][k].start + Ticks(k) <= clock]_vars
=============================================================================
