--------------------------- MODULE PatternWrites ---------------------------
(***************************************************************************)
(* save_new_patterns (services/skill_store.py): the risk agent's findings  *)
(* enter the pattern store in one transaction per run.  Several runs of    *)
(* one owner may be under way in different workers, so their statements    *)
(* interleave.  Rows of different owners never meet: every statement is    *)
(* scoped to the owner, and so is the unique constraint.                   *)
(*                                                                         *)
(* The session flushes its pending change before each SELECT (autoflush)   *)
(* and at the commit; PostgreSQL runs it at READ COMMITTED with row locks. *)
(* Findings below the confidence threshold or without an example have no   *)
(* effect and are left out of the batches.                                 *)
(***************************************************************************)
EXTENDS Naturals, FiniteSets, Sequences, SequencesExt

CONSTANTS
  Runs,       \* runs of run_analysis for contracts of one owner
  Fps,        \* fingerprints
  Confs,      \* confidences at or above CONFIDENCE_THRESHOLD
  None,       \* no row, no object
  MaxBatch,   \* findings of a run
  MayFail     \* whether a statement may fail on its own

ASSUME WritesAssumption ==
  /\ Confs \subseteq Nat
  /\ MaxBatch \in Nat
  /\ MayFail \in BOOLEAN
  /\ None \notin [n : Nat \ {0}, conf : Confs]
  /\ None \notin [fp : Fps, n : Nat \ {0}, conf : Confs, base : Confs, new : BOOLEAN,
                  dirty : BOOLEAN]

VARIABLES
  rows,     \* committed clause_patterns rows of the owner
  phase,    \* how far the save of a run is
  batch,    \* findings still to be handled
  obj,      \* the object the session holds: `existing`, or the one just added
  own,      \* versions the open transaction has written, and locked
  done,     \* findings of the run's batch handled so far
  seen,     \* findings committed for each fingerprint
  met       \* runs that were saving at the same time as this one

vars == <<rows, phase, batch, obj, own, done, seen, met>>

-----------------------------------------------------------------------------
Finding == [fp : Fps, conf : Confs]

Row == [n : Nat \ {0}, conf : Confs]

\* `base` is the confidence the session believes to be in the row.
Obj == [fp : Fps, n : Nat \ {0}, conf : Confs, base : Confs, new : BOOLEAN, dirty : BOOLEAN]

TypeOK ==
  /\ rows \in [Fps -> Row \cup {None}]
  /\ phase \in [Runs -> {"before", "saving", "stored", "lost", "failed"}]
  /\ batch \in [Runs -> Seq(Finding)] /\ done \in [Runs -> Seq(Finding)]
  /\ obj \in [Runs -> Obj \cup {None}]
  /\ own \in [Runs -> [Fps -> Row \cup {None}]]
  /\ seen \in [Fps -> Nat]
  /\ met \in [Runs -> SUBSET Runs]

Nothing == [f \in Fps |-> None]

\* The store holds what earlier uploads taught it.
Init ==
  /\ rows \in [Fps -> {None} \cup [n : {1}, conf : Confs]]
  /\ phase = [r \in Runs |-> "before"]
  /\ batch = [r \in Runs |-> << >>]
  /\ obj = [r \in Runs |-> None]
  /\ own = [r \in Runs |-> Nothing]
  /\ done = batch
  /\ seen = [f \in Fps |-> IF rows[f] = None THEN 0 ELSE 1]
  /\ met = [r \in Runs |-> {}]

-----------------------------------------------------------------------------
Saving == {r \in Runs : phase[r] = "saving"}

\* The risk agent has returned; its findings are in no particular order.
Start(r) ==
  /\ phase[r] = "before"
  /\ batch' \in {[batch EXCEPT ![r] = b] : b \in BoundedSeq(Finding, MaxBatch)}
  /\ phase' = [phase EXCEPT ![r] = "saving"]
  /\ met' = [q \in Runs |->
       IF q = r THEN Saving ELSE IF q \in Saving THEN met[q] \cup {r} ELSE met[q]]
  /\ UNCHANGED <<rows, obj, own, done, seen>>

Dirty(r) == obj[r] # None /\ obj[r].dirty

\* Faulty variant: the SELECT does not see what the session has pending.
VisibleCommitted(r, f) == rows[f]

\* What a statement of the transaction sees of a row.
Visible(r, f) == IF own[r][f] # None THEN own[r][f] ELSE rows[f]

\* A write waits while another transaction has written the row.
WaitsFor(r, q) == q # r /\ Dirty(r) /\ own[q][obj[r].fp] # None

Blocked(r) == \E q \in Runs : WaitsFor(r, q)

\* The session is closed and everything it wrote is rolled back.
RollBack(r, outcome) ==
  /\ phase' = [phase EXCEPT ![r] = outcome]
  /\ batch' = [batch EXCEPT ![r] = << >>]
  /\ obj' = [obj EXCEPT ![r] = None]
  /\ own' = [own EXCEPT ![r] = Nothing]
  /\ UNCHANGED <<rows, done, seen, met>>

\* The pattern is in the table, as this transaction sees it.
Stored(r, f) == rows[f] # None \/ own[r][f] # None

\* INSERT of a new pattern; the session keeps no reference to it.
FlushInsert(r) ==
  /\ Dirty(r) /\ obj[r].new /\ ~Blocked(r)
  /\ ~Stored(r, obj[r].fp)
  /\ own' = [own EXCEPT ![r][obj[r].fp] = [n |-> obj[r].n, conf |-> obj[r].conf]]
  /\ obj' = [obj EXCEPT ![r] = None]
  /\ UNCHANGED <<rows, phase, batch, done, seen, met>>

\* Another run has committed the same pattern since the SELECT: the unique
\* constraint raises, and the batch is given up.
FlushCollides(r) ==
  /\ Dirty(r) /\ obj[r].new /\ ~Blocked(r)
  /\ Stored(r, obj[r].fp)
  /\ RollBack(r, "lost")

\* UPDATE of a known pattern: the count the session has computed, and the
\* confidence only where it differs from what the session has read.
FlushUpdate(r) ==
  /\ Dirty(r) /\ ~obj[r].new /\ ~Blocked(r)
  /\ own' = [own EXCEPT ![r][obj[r].fp] =
       [n |-> obj[r].n,
        conf |-> IF obj[r].conf # obj[r].base THEN obj[r].conf
                 ELSE Visible(r, obj[r].fp).conf]]
  /\ obj' = [obj EXCEPT ![r].dirty = FALSE, ![r].base = obj[r].conf]
  /\ UNCHANGED <<rows, phase, batch, done, seen, met>>

\* PostgreSQL ends one transaction of a circle of waiting ones.
DeadlockVictim(r) ==
  /\ \E circle \in SUBSET Runs :
       r \in circle /\ \A p \in circle : \E q \in circle : WaitsFor(p, q)
  /\ RollBack(r, "lost")

\* A statement fails, or the job ends in the middle of the save.
Fail(r) ==
  /\ MayFail
  /\ phase[r] = "saving"
  /\ RollBack(r, "failed")

\* The object a SELECT returns: the one `existing` still refers to, else one
\* made of the visible row.
Loaded(r, f) ==
  IF obj[r] # None /\ obj[r].fp = f THEN obj[r]
  ELSE LET row == Visible(r, f)
       IN  [fp |-> f, n |-> row.n, conf |-> row.conf, base |-> row.conf,
            new |-> FALSE, dirty |-> FALSE]

Better(a, b) == IF a > b THEN a ELSE b

\* Faulty variant: the sighting is counted twice.
BumpTwice(o, conf) ==
  [o EXCEPT !.n = @ + 2, !.conf = Better(@, conf), !.dirty = TRUE]

Bump(o, conf) ==
  [o EXCEPT !.n = @ + 1, !.conf = Better(@, conf), !.dirty = TRUE]

\* Faulty variant: a new pattern starts like a seeded one.
FreshUncounted(f, conf) ==
  [fp |-> f, n |-> 0, conf |-> conf, base |-> conf, new |-> TRUE, dirty |-> TRUE]

Fresh(f, conf) ==
  [fp |-> f, n |-> 1, conf |-> conf, base |-> conf, new |-> TRUE, dirty |-> TRUE]

\* One finding: SELECT the pattern, then bump it or add it.
Select(r) ==
  /\ phase[r] = "saving" /\ batch[r] # << >> /\ ~Dirty(r)
  /\ LET f == Head(batch[r]).fp
         conf == Head(batch[r]).conf
     IN  obj' = [obj EXCEPT ![r] =
           IF Visible(r, f) # None THEN Bump(Loaded(r, f), conf) ELSE Fresh(f, conf)]
  /\ done' = [done EXCEPT ![r] = Append(@, Head(batch[r]))]
  /\ batch' = [batch EXCEPT ![r] = Tail(@)]
  /\ UNCHANGED <<rows, phase, own, seen, met>>

Sightings(r, f) == Cardinality({i \in 1 .. Len(done[r]) : done[r][i].fp = f})

\* Faulty variant: the transaction's locks outlive it.
CommitKeepingLocks(r) ==
  /\ phase[r] = "saving" /\ batch[r] = << >> /\ ~Dirty(r)
  /\ rows' = [f \in Fps |-> Visible(r, f)]
  /\ seen' = [f \in Fps |-> seen[f] + Sightings(r, f)]
  /\ phase' = [phase EXCEPT ![r] = "stored"]
  /\ obj' = [obj EXCEPT ![r] = None]
  /\ UNCHANGED <<batch, own, done, met>>

Commit(r) ==
  /\ phase[r] = "saving" /\ batch[r] = << >> /\ ~Dirty(r)
  /\ rows' = [f \in Fps |-> Visible(r, f)]
  /\ seen' = [f \in Fps |-> seen[f] + Sightings(r, f)]
  /\ phase' = [phase EXCEPT ![r] = "stored"]
  /\ obj' = [obj EXCEPT ![r] = None]
  /\ own' = [own EXCEPT ![r] = Nothing]
  /\ UNCHANGED <<batch, done, met>>

SaveStep(r) ==
  \/ FlushInsert(r) \/ FlushCollides(r) \/ FlushUpdate(r) \/ DeadlockVictim(r)
  \/ Select(r) \/ Commit(r)

Next == \E r \in Runs : Start(r) \/ SaveStep(r) \/ Fail(r)

Spec == Init /\ [][Next]_vars

\* A worker goes on with its save, and PostgreSQL breaks a deadlock.
FairSpec == Spec /\ \A r \in Runs : WF_vars(SaveStep(r))

-----------------------------------------------------------------------------
(***************************************************************************)
(* Properties.                                                             *)
(***************************************************************************)

\* A pattern never counts more sightings than were committed: the counter
\* orders the prompts, and an update may be lost but not made up.  Nor is a
\* pattern lost that was committed once.
CountNotOverstated ==
  \A f \in Fps : IF rows[f] = None THEN seen[f] = 0 ELSE rows[f].n <= seen[f]

\* A run that met no other run has counted all its findings.
CountExactWhenAlone ==
  [][\A r \in Runs : phase'[r] = "stored" /\ phase[r] = "saving" /\ met[r] = {} =>
       \A f \in Fps : Sightings(r, f) > 0 =>
         rows'[f].n = Sightings(r, f) + (IF rows[f] = None THEN 0 ELSE rows[f].n)]_vars

\* Learning is lost to another run of the same owner, never to the data alone.
LostOnlyWhenMet ==
  \A r \in Runs : phase[r] = "lost" => met[r] # {}

\* Row locks or not, every save comes to an end.
SaveEnds ==
  \A r \in Runs : phase[r] = "saving" ~> phase[r] # "saving"
=============================================================================
