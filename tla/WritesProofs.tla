---------------------------- MODULE WritesProofs ----------------------------
(***************************************************************************)
(* Proofs about PatternWrites, for any runs, clauses, confidences and      *)
(* lengths of a batch, whether statements fail or not.                     *)
(***************************************************************************)
EXTENDS PatternWrites, FiniteSetTheorems, TLAPS

\* A finding of f that the session has not yet written.
Pending(r, f) == Dirty(r) /\ obj[r].fp = f

\* Sightings counted in the table when a run began to save alone.
Base(f) == IF rows[f] = None THEN 0 ELSE rows[f].n

\* Who is not saving holds no lock and no object.
OnlySavingWrites ==
  \A r \in Runs : phase[r] # "saving" => obj[r] = None /\ own[r] = Nothing

BeginsEmpty == \A r \in Runs : phase[r] = "before" => done[r] = << >>

\* An added object is still to be written; the row of any other is there.
NewIsUnwritten ==
  \A r \in Runs : obj[r] # None =>
    IF obj[r].new THEN obj[r].dirty /\ own[r][obj[r].fp] = None ELSE Stored(r, obj[r].fp)

\* Every finding that was handled is written, or about to be.
HandledIsWritten ==
  \A r \in Runs, f \in Fps :
    phase[r] = "saving" /\ Sightings(r, f) > 0 => own[r][f] # None \/ Pending(r, f)

\* No version of a row counts more than was committed and this run has seen.
VersionsBounded ==
  \A r \in Runs :
    /\ \A f \in Fps : own[r][f] # None => own[r][f].n <= seen[f] + Sightings(r, f)
    /\ obj[r] # None => obj[r].n <= seen[obj[r].fp] + Sightings(r, obj[r].fp)

\* Two that are saving know of each other.
MetWhenBothSave ==
  \A q, r \in Runs : phase[q] = "saving" /\ phase[r] = "saving" /\ q # r => q \in met[r]

\* What a run that has met nobody has written is exact.
ExactAlone ==
  \A r \in Runs : phase[r] = "saving" /\ met[r] = {} =>
    /\ \A f \in Fps : own[r][f] # None /\ ~Pending(r, f) =>
         own[r][f].n = Base(f) + Sightings(r, f)
    /\ obj[r] # None =>
         /\ obj[r].n = Base(obj[r].fp) + Sightings(r, obj[r].fp)
         /\ obj[r].new => rows[obj[r].fp] = None

IInv ==
  /\ OnlySavingWrites /\ BeginsEmpty /\ NewIsUnwritten /\ HandledIsWritten
  /\ VersionsBounded /\ CountNotOverstated /\ MetWhenBothSave /\ ExactAlone /\ LostOnlyWhenMet

-----------------------------------------------------------------------------
Counted(s, f) == {i \in 1 .. Len(s) : s[i].fp = f}

LEMMA SightingsType ==
  ASSUME NEW s \in Seq(Finding), NEW f
  PROVE  IsFiniteSet(Counted(s, f)) /\ Cardinality(Counted(s, f)) \in Nat
<1>1. IsFiniteSet(1 .. Len(s))
  BY FS_Interval
<1>2. Counted(s, f) \in SUBSET (1 .. Len(s))
  BY DEF Counted
<1>3. QED
  BY <1>1, <1>2, FS_Subset, FS_CardinalityType

LEMMA NoSightings ==
  ASSUME NEW f
  PROVE  Cardinality(Counted(<< >>, f)) = 0
<1>1. Counted(<< >>, f) = {}
  BY DEF Counted
<1>2. QED
  BY <1>1, FS_EmptySet

\* One more finding is one more sighting of its clause, and of no other.
LEMMA SightingsAppend ==
  ASSUME NEW s \in Seq(Finding), NEW x \in Finding, NEW f
  PROVE  Cardinality(Counted(Append(s, x), f)) =
           Cardinality(Counted(s, f)) + (IF x.fp = f THEN 1 ELSE 0)
<1> DEFINE n == Len(s) + 1
<1>1. /\ Len(s) \in Nat /\ Len(Append(s, x)) = n /\ Append(s, x)[n] = x
      /\ \A i \in 1 .. Len(s) : Append(s, x)[i] = s[i]
  OBVIOUS
<1>2. n \notin Counted(s, f)
  BY <1>1 DEF Counted
<1>3. Counted(Append(s, x), f) =
        IF x.fp = f THEN Counted(s, f) \cup {n} ELSE Counted(s, f)
  BY <1>1 DEF Counted
<1>4. IsFiniteSet(Counted(s, f)) /\ Cardinality(Counted(s, f)) \in Nat
  BY SightingsType
<1>5. Cardinality(Counted(s, f) \cup {n}) = Cardinality(Counted(s, f)) + 1
  BY <1>2, <1>4, FS_AddElement
<1>6. QED
  BY <1>3, <1>4, <1>5

LEMMA SightingsOf ==
  ASSUME NEW r, NEW f
  PROVE  /\ Sightings(r, f) = Cardinality(Counted(done[r], f))
         /\ Sightings(r, f)' = Cardinality(Counted(done'[r], f))
  BY DEF Sightings, Counted

-----------------------------------------------------------------------------
LEMMA InitTypeOK == Init => TypeOK
<1> SUFFICES ASSUME Init PROVE TypeOK
  OBVIOUS
<1>1. rows \in [Fps -> Row \cup {None}]
  BY DEF Init, Row
<1>2. /\ << >> \in Seq(Finding)
      /\ own \in [Runs -> [Fps -> Row \cup {None}]]
  BY DEF Init, Nothing
<1>3. QED
  BY <1>1, <1>2 DEF Init, TypeOK

LEMMA RollBackType ==
  ASSUME TypeOK, NEW r \in Runs, NEW outcome \in {"lost", "failed"}, RollBack(r, outcome)
  PROVE  TypeOK'
<1>1. << >> \in Seq(Finding) /\ Nothing \in [Fps -> Row \cup {None}]
  BY DEF Nothing
<1>2. QED
  BY <1>1 DEF RollBack, TypeOK

LEMMA VisibleType ==
  ASSUME TypeOK, NEW r \in Runs, NEW f \in Fps
  PROVE  /\ Visible(r, f) \in Row \cup {None}
         /\ own[r][f] \in Row \cup {None} /\ rows[f] \in Row \cup {None}
  BY DEF TypeOK, Visible

\* A record of the right fields is a row, an object.
LEMMA ObjType ==
  ASSUME TypeOK, NEW r \in Runs, obj[r] # None
  PROVE  /\ obj[r] \in Obj
         /\ obj[r].fp \in Fps /\ obj[r].n \in Nat \ {0} /\ obj[r].conf \in Confs
         /\ obj[r].base \in Confs /\ obj[r].new \in BOOLEAN /\ obj[r].dirty \in BOOLEAN
<1>1. obj[r] \in Obj
  BY DEF TypeOK
<1>2. QED
  BY <1>1 DEF Obj

LEMMA NoneIsNoObject == None \notin Obj /\ None \notin Row
  BY WritesAssumption DEF Obj, Row

\* The object a SELECT leaves behind.
LEMMA SelectedType ==
  ASSUME TypeOK, NEW r \in Runs, NEW f \in Fps, NEW conf \in Confs
  PROVE  /\ Visible(r, f) # None => Bump(Loaded(r, f), conf) \in Obj
         /\ Fresh(f, conf) \in Obj
<1>1. Fresh(f, conf) \in Obj
  BY DEF Fresh, Obj
<1>2. ASSUME Visible(r, f) # None PROVE Loaded(r, f) \in Obj
  <2>1. CASE obj[r] # None /\ obj[r].fp = f
    BY <2>1, ObjType DEF Loaded
  <2>2. CASE ~(obj[r] # None /\ obj[r].fp = f)
    <3>1. Visible(r, f) \in Row
      BY <1>2, VisibleType
    <3>2. QED
      BY <2>2, <3>1 DEF Loaded, Obj, Row
  <2>3. QED
    BY <2>1, <2>2
<1>3. ASSUME NEW o \in Obj PROVE Bump(o, conf) \in Obj
  <2>1. o.n + 1 \in Nat \ {0} /\ Better(o.conf, conf) \in Confs
    BY DEF Obj, Better
  <2>2. QED
    BY <2>1 DEF Obj, Bump
<1>4. QED
  BY <1>1, <1>2, <1>3

\* The version an UPDATE writes.
UpdatedRow(r) ==
  [n |-> obj[r].n,
   conf |-> IF obj[r].conf # obj[r].base THEN obj[r].conf ELSE Visible(r, obj[r].fp).conf]

LEMMA UpdatedRowType ==
  ASSUME TypeOK, NewIsUnwritten, NEW r \in Runs, FlushUpdate(r)
  PROVE  /\ obj[r] # None /\ ~obj[r].new /\ obj[r].dirty
         /\ UpdatedRow(r) \in Row
         /\ [obj[r] EXCEPT !.dirty = FALSE, !.base = obj[r].conf] \in Obj
<1>1. obj[r] # None /\ ~obj[r].new /\ obj[r].dirty
  BY DEF FlushUpdate, Dirty
<1>2. Visible(r, obj[r].fp) \in Row
  BY <1>1, ObjType, VisibleType DEF NewIsUnwritten, Stored, Visible
<1>3. UpdatedRow(r) \in Row
  BY <1>1, <1>2, ObjType DEF Row, UpdatedRow
<1>4. [obj[r] EXCEPT !.dirty = FALSE, !.base = obj[r].conf] \in Obj
  BY <1>1, ObjType DEF Obj
<1>5. QED
  BY <1>1, <1>3, <1>4

LEMMA StepTypeOK ==
  ASSUME TypeOK, NewIsUnwritten, [Next]_vars
  PROVE  TypeOK'
<1>1. CASE UNCHANGED vars
  BY <1>1 DEF vars, TypeOK
<1>2. ASSUME NEW r \in Runs, Start(r) PROVE TypeOK'
  <2>1. PICK b \in BoundedSeq(Finding, MaxBatch) : batch' = [batch EXCEPT ![r] = b]
    BY <1>2 DEF Start
  <2>2. b \in Seq(Finding)
    <3>1. PICK m \in 0 .. MaxBatch : b \in [1 .. m -> Finding]
      BY DEF BoundedSeq, SeqOf
    <3>2. m \in Nat
      BY WritesAssumption
    <3>3. QED
      BY <3>1, <3>2
  <2>3. met' \in [Runs -> SUBSET Runs]
    BY <1>2 DEF Start, TypeOK, Saving
  <2>4. QED
    BY <1>2, <2>1, <2>2, <2>3 DEF Start, TypeOK
<1>3. ASSUME NEW r \in Runs, FlushInsert(r) PROVE TypeOK'
  <2>1. [n |-> obj[r].n, conf |-> obj[r].conf] \in Row
    BY <1>3, ObjType DEF FlushInsert, Dirty, Row
  <2>2. QED
    BY <1>3, <2>1 DEF FlushInsert, TypeOK
<1>4. ASSUME NEW r \in Runs, FlushUpdate(r) PROVE TypeOK'
  <2> DEFINE o == [obj[r] EXCEPT !.dirty = FALSE, !.base = obj[r].conf]
  <2>1. UpdatedRow(r) \in Row /\ o \in Obj
    BY <1>4, UpdatedRowType
  <2>2. /\ own' = [own EXCEPT ![r][obj[r].fp] = UpdatedRow(r)]
        /\ obj' = [obj EXCEPT ![r] = o]
        /\ UNCHANGED <<rows, phase, batch, done, seen, met>>
    BY <1>4 DEF FlushUpdate, UpdatedRow
  <2> HIDE DEF o
  <2>3. QED
    BY <2>1, <2>2 DEF TypeOK
<1>5. ASSUME NEW r \in Runs, FlushCollides(r) \/ DeadlockVictim(r) \/ Fail(r) PROVE TypeOK'
  BY <1>5, RollBackType DEF FlushCollides, DeadlockVictim, Fail
<1>6. ASSUME NEW r \in Runs, Select(r) PROVE TypeOK'
  <2> DEFINE f == Head(batch[r]).fp
             conf == Head(batch[r]).conf
             o == IF Visible(r, f) # None THEN Bump(Loaded(r, f), conf) ELSE Fresh(f, conf)
  <2>1. batch[r] \in Seq(Finding) /\ batch[r] # << >> /\ done[r] \in Seq(Finding)
    BY <1>6 DEF Select, TypeOK
  <2>2. Head(batch[r]) \in Finding
    BY <2>1
  <2>9. f \in Fps /\ conf \in Confs
    BY <2>2 DEF Finding
  <2>3. Append(done[r], Head(batch[r])) \in Seq(Finding) /\ Tail(batch[r]) \in Seq(Finding)
    BY <2>1, <2>2
  <2>4. o \in Obj
    BY <2>9, SelectedType
  <2>5. /\ obj' = [obj EXCEPT ![r] = o]
        /\ done' = [done EXCEPT ![r] = Append(@, Head(batch[r]))]
        /\ batch' = [batch EXCEPT ![r] = Tail(@)]
        /\ UNCHANGED <<rows, phase, own, seen, met>>
    BY <1>6 DEF Select
  <2> HIDE DEF o
  <2>6. QED
    BY <2>3, <2>4, <2>5 DEF TypeOK
<1>7. ASSUME NEW r \in Runs, Commit(r) PROVE TypeOK'
  <2>1. \A f \in Fps : Visible(r, f) \in Row \cup {None} /\ Sightings(r, f) \in Nat
    BY VisibleType, SightingsOf, SightingsType DEF TypeOK
  <2>2. Nothing \in [Fps -> Row \cup {None}]
    BY DEF Nothing
  <2>3. QED
    BY <1>7, <2>1, <2>2 DEF Commit, TypeOK
<1>8. QED
  BY <1>1, <1>2, <1>3, <1>4, <1>5, <1>6, <1>7 DEF Next, SaveStep

-----------------------------------------------------------------------------
RunStep(r) == Start(r) \/ SaveStep(r) \/ Fail(r)

\* What a run gives up with: its session is closed.
GivesUp(r) == FlushCollides(r) \/ DeadlockVictim(r) \/ Fail(r)

LEMMA OthersKeep ==
  ASSUME TypeOK, NEW r \in Runs, RunStep(r), NEW q \in Runs, q # r
  PROVE  /\ phase'[q] = phase[q] /\ obj'[q] = obj[q] /\ own'[q] = own[q] /\ done'[q] = done[q]
         /\ \A f : Sightings(q, f)' = Sightings(q, f)
<1>1. /\ phase'[q] = phase[q] /\ obj'[q] = obj[q] /\ own'[q] = own[q] /\ done'[q] = done[q]
  BY DEF RunStep, Start, SaveStep, FlushInsert, FlushCollides, FlushUpdate, DeadlockVictim,
         Fail, RollBack, Select, Commit, TypeOK
<1>2. QED
  BY <1>1, SightingsOf

\* Only a commit changes the table.
LEMMA TableChanges ==
  ASSUME NEW r \in Runs, RunStep(r)
  PROVE  Commit(r) \/ UNCHANGED <<rows, seen>>
  BY DEF RunStep, Start, SaveStep, FlushInsert, FlushCollides, FlushUpdate, DeadlockVictim,
         Fail, RollBack, Select

LEMMA TableGrows ==
  ASSUME TypeOK, NEW r \in Runs, RunStep(r), NEW f \in Fps
  PROVE  /\ rows[f] # None => rows'[f] # None
         /\ seen[f] \in Nat /\ seen'[f] \in Nat /\ seen[f] <= seen'[f]
<1>1. CASE UNCHANGED <<rows, seen>>
  BY <1>1 DEF TypeOK
<1>2. CASE Commit(r)
  <2>1. Sightings(r, f) \in Nat
    BY SightingsOf, SightingsType DEF TypeOK
  <2>2. rows'[f] = Visible(r, f) /\ seen'[f] = seen[f] + Sightings(r, f)
    BY <1>2 DEF Commit
  <2>3. QED
    BY <2>1, <2>2 DEF Visible, TypeOK
<1>3. QED
  BY <1>1, <1>2, TableChanges

LEMMA GivenUp ==
  ASSUME TypeOK, NEW r \in Runs, GivesUp(r)
  PROVE  /\ phase[r] = "saving" \/ Dirty(r)
         /\ phase'[r] \in {"lost", "failed"} /\ obj'[r] = None /\ own'[r] = Nothing
         /\ done'[r] = done[r] /\ UNCHANGED met
  BY DEF GivesUp, FlushCollides, DeadlockVictim, WaitsFor, Fail, RollBack, TypeOK

\* A finding is looked up: nothing was pending, and now this finding is.
LEMMA Selected ==
  ASSUME TypeOK, NEW r \in Runs, Select(r)
  PROVE  \E x \in Finding :
           /\ done'[r] = Append(done[r], x)
           /\ obj'[r] = IF Visible(r, x.fp) # None THEN Bump(Loaded(r, x.fp), x.conf)
                        ELSE Fresh(x.fp, x.conf)
           /\ obj'[r] # None /\ obj'[r].fp = x.fp /\ obj'[r].dirty
           /\ \A f : Sightings(r, f)' = Sightings(r, f) + (IF x.fp = f THEN 1 ELSE 0)
           /\ x.fp \in Fps /\ own'[r] = own[r] /\ phase[r] = "saving" /\ phase'[r] = "saving"
<1> DEFINE x == Head(batch[r])
<1>1. x \in Finding /\ done[r] \in Seq(Finding)
  BY DEF Select, TypeOK
<1>2. x.fp \in Fps /\ x.conf \in Confs
  BY <1>1 DEF Finding
<1>3. /\ done'[r] = Append(done[r], x)
      /\ obj'[r] = IF Visible(r, x.fp) # None THEN Bump(Loaded(r, x.fp), x.conf)
                   ELSE Fresh(x.fp, x.conf)
      /\ own'[r] = own[r] /\ phase[r] = "saving" /\ phase'[r] = "saving"
  BY DEF Select, TypeOK
<1> HIDE DEF x
<1>4. obj'[r] \in Obj
  BY <1>2, <1>3, SelectedType
<1>5. obj'[r].fp = x.fp /\ obj'[r].dirty
  <2>1. CASE Visible(r, x.fp) = None
    BY <1>3, <2>1 DEF Fresh
  <2>2. CASE Visible(r, x.fp) # None /\ obj[r] # None /\ obj[r].fp = x.fp
    BY <1>3, <2>2, ObjType DEF Bump, Loaded, Obj
  <2>3. CASE Visible(r, x.fp) # None /\ ~(obj[r] # None /\ obj[r].fp = x.fp)
    BY <1>3, <2>3 DEF Bump, Loaded
  <2>4. QED
    BY <2>1, <2>2, <2>3
<1>6. ASSUME NEW f
      PROVE  Sightings(r, f)' = Sightings(r, f) + (IF x.fp = f THEN 1 ELSE 0)
  <2>1. Cardinality(Counted(Append(done[r], x), f)) =
          Cardinality(Counted(done[r], f)) + (IF x.fp = f THEN 1 ELSE 0)
    BY <1>1, SightingsAppend
  <2>2. QED
    BY <1>3, <2>1, SightingsOf
<1>7. QED
  BY <1>1, <1>2, <1>3, <1>4, <1>5, <1>6, NoneIsNoObject

\* The pending change is written.
LEMMA Flushed ==
  ASSUME TypeOK, NewIsUnwritten, NEW r \in Runs, FlushInsert(r) \/ FlushUpdate(r)
  PROVE  LET o == obj[r] IN
         /\ o # None /\ o.dirty /\ o.fp \in Fps
         /\ own'[r][o.fp] # None /\ own'[r][o.fp].n = o.n
         /\ \A f \in Fps : f # o.fp => own'[r][f] = own[r][f]
         /\ done'[r] = done[r] /\ phase'[r] = phase[r] /\ UNCHANGED <<rows, seen, met>>
         /\ o.new => obj'[r] = None
         /\ ~o.new => /\ obj'[r] # None /\ obj'[r].fp = o.fp /\ obj'[r].n = o.n
                      /\ ~obj'[r].new /\ ~obj'[r].dirty
<1> DEFINE o == obj[r]
<1>1. o # None /\ o.dirty /\ o \in Obj /\ o.fp \in Fps /\ o.n \in Nat \ {0}
  BY ObjType DEF FlushInsert, FlushUpdate, Dirty
<1>2. CASE FlushInsert(r)
  <2>1. o.new /\ obj' = [obj EXCEPT ![r] = None] /\ UNCHANGED <<rows, phase, done, seen, met>>
    BY <1>2 DEF FlushInsert
  <2>2. own' = [own EXCEPT ![r][o.fp] = [n |-> o.n, conf |-> o.conf]]
    BY <1>2 DEF FlushInsert
  <2>3. [n |-> o.n, conf |-> o.conf] \in Row
    BY <1>1 DEF Row, Obj
  <2> HIDE DEF o
  <2>4. own'[r][o.fp] = [n |-> o.n, conf |-> o.conf] /\ own'[r][o.fp] # None
    BY <1>1, <2>2, <2>3, NoneIsNoObject DEF TypeOK
  <2>5. \A f \in Fps : f # o.fp => own'[r][f] = own[r][f]
    BY <2>2 DEF TypeOK
  <2>6. QED
    BY <1>1, <2>1, <2>4, <2>5 DEF TypeOK, o
<1>3. CASE FlushUpdate(r)
  <2>1. /\ ~o.new /\ UNCHANGED <<rows, phase, done, seen, met>>
        /\ own' = [own EXCEPT ![r][o.fp] = UpdatedRow(r)]
        /\ obj' = [obj EXCEPT ![r] = [o EXCEPT !.dirty = FALSE, !.base = o.conf]]
    BY <1>3 DEF FlushUpdate, UpdatedRow
  <2>2. UpdatedRow(r) \in Row /\ UpdatedRow(r).n = o.n
    BY <1>3, UpdatedRowType DEF UpdatedRow
  <2> HIDE DEF o
  <2>3. own'[r][o.fp] = UpdatedRow(r) /\ own'[r][o.fp] # None
    BY <1>1, <2>1, <2>2, NoneIsNoObject DEF TypeOK
  <2>4. \A f \in Fps : f # o.fp => own'[r][f] = own[r][f]
    BY <2>1 DEF TypeOK
  <2>5. obj'[r] = [o EXCEPT !.dirty = FALSE, !.base = o.conf]
    BY <2>1 DEF TypeOK
  <2>8. obj'[r] \in Obj
    BY <1>3, <2>5, UpdatedRowType DEF o
  <2>6. obj'[r].fp = o.fp /\ obj'[r].n = o.n /\ obj'[r].new = o.new /\ obj'[r].dirty = FALSE
    BY <1>1, <2>5 DEF Obj
  <2>7. QED
    BY <1>1, <2>1, <2>2, <2>3, <2>4, <2>6, <2>8, NoneIsNoObject DEF TypeOK, o
<1>4. QED
  BY <1>2, <1>3

LEMMA Committed ==
  ASSUME TypeOK, NEW r \in Runs, Commit(r)
  PROVE  /\ phase[r] = "saving" /\ ~Dirty(r)
         /\ phase'[r] = "stored" /\ obj'[r] = None /\ own'[r] = Nothing /\ done'[r] = done[r]
         /\ UNCHANGED met
         /\ \A f \in Fps : /\ rows'[f] = Visible(r, f) /\ seen'[f] = seen[f] + Sightings(r, f)
                           /\ Sightings(r, f) \in Nat
<1>1. \A f \in Fps : Sightings(r, f) \in Nat
  BY SightingsOf, SightingsType DEF TypeOK
<1>2. QED
  BY <1>1 DEF Commit, TypeOK

LEMMA Started ==
  ASSUME TypeOK, NEW r \in Runs, Start(r)
  PROVE  /\ phase[r] = "before" /\ phase'[r] = "saving"
         /\ obj'[r] = obj[r] /\ own'[r] = own[r] /\ done'[r] = done[r] /\ UNCHANGED <<rows, seen>>
         /\ met'[r] = Saving
         /\ \A q \in Runs : q # r => met'[q] = IF q \in Saving THEN met[q] \cup {r} ELSE met[q]
  BY DEF Start, TypeOK

LEMMA StepCases ==
  ASSUME NEW r \in Runs, RunStep(r)
  PROVE  Start(r) \/ GivesUp(r) \/ FlushInsert(r) \/ FlushUpdate(r) \/ Select(r) \/ Commit(r)
  BY DEF RunStep, SaveStep, GivesUp

\* Whom a run has met it has met for good.
LEMMA MetGrows ==
  ASSUME TypeOK, NewIsUnwritten, NEW r \in Runs, RunStep(r), NEW q \in Runs, q # r \/ ~Start(r)
  PROVE  met[q] \subseteq met'[q]
<1>1. CASE Start(r)
  <2>1. q # r /\ met'[q] = IF q \in Saving THEN met[q] \cup {r} ELSE met[q]
    BY <1>1, Started
  <2>2. QED
    BY <2>1
<1>2. CASE UNCHANGED met
  BY <1>2
<1>3. QED
  BY <1>1, <1>2, GivenUp, Flushed, Committed, StepCases DEF Select

-----------------------------------------------------------------------------
LEMMA StepOnlySavingWrites ==
  ASSUME TypeOK, NewIsUnwritten, OnlySavingWrites, NEW r \in Runs, RunStep(r)
  PROVE  OnlySavingWrites'
<1>1. phase'[r] # "saving" => obj'[r] = None /\ own'[r] = Nothing
  <2>1. CASE Start(r) \/ GivesUp(r) \/ Commit(r)
    BY <2>1, Started, GivenUp, Committed
  <2>2. CASE FlushInsert(r) \/ FlushUpdate(r)
    BY <2>2, Flushed DEF OnlySavingWrites
  <2>3. CASE Select(r)
    BY <2>3, Selected
  <2>4. QED
    BY <2>1, <2>2, <2>3, StepCases
<1>2. QED
  BY <1>1, OthersKeep DEF OnlySavingWrites

LEMMA StepBeginsEmpty ==
  ASSUME TypeOK, NewIsUnwritten, OnlySavingWrites, BeginsEmpty, NEW r \in Runs, RunStep(r)
  PROVE  BeginsEmpty'
<1>1. phase'[r] # "before"
  <2>1. CASE Start(r) \/ GivesUp(r) \/ Commit(r)
    BY <2>1, Started, GivenUp, Committed
  <2>2. CASE FlushInsert(r) \/ FlushUpdate(r)
    BY <2>2, Flushed DEF OnlySavingWrites
  <2>3. CASE Select(r)
    BY <2>3, Selected
  <2>4. QED
    BY <2>1, <2>2, <2>3, StepCases
<1>2. QED
  BY <1>1, OthersKeep DEF BeginsEmpty

LEMMA StepNewIsUnwritten ==
  ASSUME TypeOK, NewIsUnwritten, OnlySavingWrites, NEW r \in Runs, RunStep(r)
  PROVE  NewIsUnwritten'
<1> DEFINE Fine(q) ==
      obj[q] # None =>
        IF obj[q].new THEN obj[q].dirty /\ own[q][obj[q].fp] = None ELSE Stored(q, obj[q].fp)
<1>1. ASSUME NEW q \in Runs, q # r PROVE Fine(q)'
  BY <1>1, OthersKeep, TableGrows, ObjType DEF NewIsUnwritten, Stored
<1>2. Fine(r)'
  <2>1. CASE Start(r)
    BY <2>1, Started DEF OnlySavingWrites
  <2>2. CASE GivesUp(r) \/ Commit(r)
    BY <2>2, GivenUp, Committed
  <2>3. CASE FlushInsert(r) \/ FlushUpdate(r)
    BY <2>3, Flushed DEF Stored
  <2>4. CASE Select(r)
    <3>1. PICK x \in Finding :
            /\ obj'[r] = IF Visible(r, x.fp) # None THEN Bump(Loaded(r, x.fp), x.conf)
                         ELSE Fresh(x.fp, x.conf)
            /\ obj'[r] # None /\ obj'[r].fp = x.fp /\ obj'[r].dirty
            /\ own'[r] = own[r] /\ x.fp \in Fps
      BY <2>4, Selected
    <3>2. UNCHANGED rows /\ ~Dirty(r)
      BY <2>4 DEF Select
    <3>3. CASE Visible(r, x.fp) = None
      <4>1. obj'[r].new /\ own[r][x.fp] = None
        BY <3>1, <3>3 DEF Fresh, Visible
      <4>2. QED
        BY <3>1, <4>1
    <3>4. CASE Visible(r, x.fp) # None
      <4>1. Stored(r, x.fp)'
        BY <3>1, <3>2, <3>4 DEF Stored, Visible
      <4>2. ~obj'[r].new
        <5>1. CASE obj[r] # None /\ obj[r].fp = x.fp
          BY <3>1, <3>2, <3>4, <5>1, ObjType DEF NewIsUnwritten, Dirty, Bump, Loaded, Obj
        <5>2. CASE ~(obj[r] # None /\ obj[r].fp = x.fp)
          BY <3>1, <3>4, <5>2 DEF Bump, Loaded
        <5>3. QED
          BY <5>1, <5>2
      <4>3. QED
        BY <3>1, <4>1, <4>2
    <3>5. QED
      BY <3>3, <3>4
  <2>5. QED
    BY <2>1, <2>2, <2>3, <2>4, StepCases
<1>3. QED
  BY <1>1, <1>2 DEF NewIsUnwritten

LEMMA StepHandledIsWritten ==
  ASSUME TypeOK, NewIsUnwritten, BeginsEmpty, HandledIsWritten, NEW r \in Runs, RunStep(r)
  PROVE  HandledIsWritten'
<1>1. ASSUME NEW q \in Runs, q # r, NEW f \in Fps, (phase[q] = "saving" /\ Sightings(q, f) > 0)'
      PROVE  (own[q][f] # None \/ Pending(q, f))'
  BY <1>1, OthersKeep DEF HandledIsWritten, Pending, Dirty
<1>2. ASSUME NEW f \in Fps, (phase[r] = "saving" /\ Sightings(r, f) > 0)'
      PROVE  (own[r][f] # None \/ Pending(r, f))'
  <2>1. CASE Start(r)
    <3>1. done'[r] = << >>
      BY <2>1, Started DEF BeginsEmpty
    <3>2. Sightings(r, f)' = 0
      BY <3>1, SightingsOf, NoSightings
    <3>3. QED
      BY <1>2, <3>2
  <2>2. CASE GivesUp(r) \/ Commit(r)
    BY <1>2, <2>2, GivenUp, Committed
  <2>3. CASE FlushInsert(r) \/ FlushUpdate(r)
    <3>1. Sightings(r, f) > 0 /\ phase[r] = "saving"
      BY <1>2, <2>3, Flushed, SightingsOf
    <3>2. QED
      BY <2>3, <3>1, Flushed DEF HandledIsWritten, Pending
  <2>4. CASE Select(r)
    <3>1. PICK x \in Finding :
            /\ obj'[r] # None /\ obj'[r].fp = x.fp /\ obj'[r].dirty
            /\ Sightings(r, f)' = Sightings(r, f) + (IF x.fp = f THEN 1 ELSE 0)
            /\ own'[r] = own[r] /\ phase[r] = "saving"
      BY <2>4, Selected
    <3>2. CASE x.fp = f
      BY <3>1, <3>2 DEF Pending, Dirty
    <3>3. CASE x.fp # f
      <4>1. Sightings(r, f) > 0 /\ ~Dirty(r)
        BY <1>2, <2>4, <3>1, <3>3, SightingsOf, SightingsType DEF TypeOK, Select
      <4>2. QED
        BY <3>1, <4>1 DEF HandledIsWritten, Pending
    <3>4. QED
      BY <3>2, <3>3
  <2>5. QED
    BY <2>1, <2>2, <2>3, <2>4, StepCases
<1>3. QED
  BY <1>1, <1>2 DEF HandledIsWritten

-----------------------------------------------------------------------------
VersionOf(q, f) == own[q][f] # None => own[q][f].n <= seen[f] + Sightings(q, f)

ObjectOf(q) == obj[q] # None => obj[q].n <= seen[obj[q].fp] + Sightings(q, obj[q].fp)

LEMMA NumbersOf ==
  ASSUME TypeOK, NEW q \in Runs, NEW f \in Fps
  PROVE  /\ seen[f] \in Nat /\ Sightings(q, f) \in Nat
         /\ own[q][f] # None => own[q][f].n \in Nat
         /\ rows[f] # None => rows[f].n \in Nat
         /\ Visible(q, f) # None => Visible(q, f).n \in Nat
<1>1. seen[f] \in Nat /\ Sightings(q, f) \in Nat
  BY SightingsOf, SightingsType DEF TypeOK
<1>2. \A row \in Row : row.n \in Nat
  BY DEF Row
<1>3. QED
  BY <1>1, <1>2, VisibleType

LEMMA StepVersionsBounded ==
  ASSUME TypeOK, TypeOK', NewIsUnwritten, OnlySavingWrites, VersionsBounded, CountNotOverstated,
         NEW r \in Runs, RunStep(r)
  PROVE  VersionsBounded'
<1>1. ASSUME NEW q \in Runs, q # r, NEW f \in Fps PROVE VersionOf(q, f)'
  BY <1>1, OthersKeep, TableGrows, NumbersOf DEF VersionsBounded, VersionOf
<1>2. ASSUME NEW q \in Runs, q # r PROVE ObjectOf(q)'
  <2>1. obj[q] # None => obj[q].n \in Nat /\ obj[q].fp \in Fps
    BY ObjType
  <2>2. QED
    BY <1>2, <2>1, OthersKeep, TableGrows, NumbersOf DEF VersionsBounded, ObjectOf
<1>3. ObjectOf(r)' /\ \A f \in Fps : VersionOf(r, f)'
  <2>1. CASE Start(r)
    BY <2>1, Started DEF OnlySavingWrites, Nothing, ObjectOf, VersionOf
  <2>2. CASE GivesUp(r) \/ Commit(r)
    BY <2>2, GivenUp, Committed DEF Nothing, ObjectOf, VersionOf
  <2>3. CASE FlushInsert(r) \/ FlushUpdate(r)
    <3>1. ObjectOf(r)'
      BY <2>3, Flushed, SightingsOf DEF VersionsBounded, ObjectOf
    <3>2. ASSUME NEW f \in Fps PROVE VersionOf(r, f)'
      <4>1. CASE f = obj[r].fp
        BY <2>3, <4>1, Flushed, SightingsOf DEF VersionsBounded, VersionOf
      <4>2. CASE f # obj[r].fp
        BY <2>3, <4>2, Flushed, SightingsOf DEF VersionsBounded, VersionOf
      <4>3. QED
        BY <4>1, <4>2
    <3>3. QED
      BY <3>1, <3>2
  <2>4. CASE Select(r)
    <3>1. PICK x \in Finding :
            /\ obj'[r] = IF Visible(r, x.fp) # None THEN Bump(Loaded(r, x.fp), x.conf)
                         ELSE Fresh(x.fp, x.conf)
            /\ obj'[r] # None /\ obj'[r].fp = x.fp
            /\ \A f : Sightings(r, f)' = Sightings(r, f) + (IF x.fp = f THEN 1 ELSE 0)
            /\ own'[r] = own[r] /\ x.fp \in Fps
      BY <2>4, Selected
    <3>2. UNCHANGED <<rows, seen>>
      BY <2>4 DEF Select
    <3>3. \A f \in Fps : VersionOf(r, f)'
      BY <3>1, <3>2, NumbersOf DEF VersionsBounded, VersionOf
    <3>4. obj'[r].n <= seen[x.fp] + Sightings(r, x.fp) + 1
      <4>1. CASE Visible(r, x.fp) = None
        <5>1. obj'[r].n = 1
          BY <3>1, <4>1 DEF Fresh
        <5>2. QED
          BY <3>1, <5>1, NumbersOf
      <4>2. CASE Visible(r, x.fp) # None /\ obj[r] # None /\ obj[r].fp = x.fp
        <5>1. obj'[r].n = obj[r].n + 1 /\ obj[r].n \in Nat
          BY <3>1, <4>2, ObjType DEF Bump, Loaded, Obj
        <5>2. QED
          BY <3>1, <4>2, <5>1, NumbersOf DEF VersionsBounded
      <4>3. CASE Visible(r, x.fp) # None /\ ~(obj[r] # None /\ obj[r].fp = x.fp)
        <5>1. obj'[r].n = Visible(r, x.fp).n + 1
          BY <3>1, <4>3 DEF Bump, Loaded
        <5>2. Visible(r, x.fp).n <= seen[x.fp] + Sightings(r, x.fp)
          BY <3>1, <4>3, NumbersOf DEF VersionsBounded, CountNotOverstated, Visible
        <5>3. QED
          BY <3>1, <4>3, <5>1, <5>2, NumbersOf
      <4>4. QED
        BY <4>1, <4>2, <4>3
    <3>5. QED
      BY <3>1, <3>2, <3>3, <3>4, NumbersOf DEF ObjectOf
  <2>5. QED
    BY <2>1, <2>2, <2>3, <2>4, StepCases
<1>4. QED
  BY <1>1, <1>2, <1>3 DEF VersionsBounded, VersionOf, ObjectOf

LEMMA StepCountNotOverstated ==
  ASSUME TypeOK, HandledIsWritten, VersionsBounded, CountNotOverstated, NEW r \in Runs, RunStep(r)
  PROVE  CountNotOverstated'
<1>1. CASE UNCHANGED <<rows, seen>>
  BY <1>1 DEF CountNotOverstated
<1>2. CASE Commit(r)
  <2>1. ASSUME NEW f \in Fps
        PROVE  IF Visible(r, f) = None THEN seen[f] + Sightings(r, f) = 0
               ELSE Visible(r, f).n <= seen[f] + Sightings(r, f)
    <3>1. CASE own[r][f] # None
      BY <3>1 DEF Visible, VersionsBounded
    <3>2. CASE own[r][f] = None
      <4>1. Sightings(r, f) = 0
        BY <1>2, <3>2, Committed, NumbersOf DEF HandledIsWritten, Pending
      <4>2. QED
        BY <3>2, <4>1, NumbersOf DEF Visible, CountNotOverstated
    <3>3. QED
      BY <3>1, <3>2
  <2>2. QED
    BY <1>2, <2>1, Committed DEF CountNotOverstated
<1>3. QED
  BY <1>1, <1>2, TableChanges

LEMMA StepMetWhenBothSave ==
  ASSUME TypeOK, OnlySavingWrites, NewIsUnwritten, MetWhenBothSave, NEW r \in Runs, RunStep(r)
  PROVE  MetWhenBothSave'
<1>1. CASE Start(r)
  <2>1. \A q \in Runs : q # r => (phase'[q] = "saving" <=> q \in Saving)
    BY OthersKeep DEF Saving
  <2>2. ASSUME NEW q \in Runs, NEW p \in Runs, (phase[q] = "saving" /\ phase[p] = "saving")', q # p
        PROVE  q \in met'[p]
    <3>1. CASE p = r
      BY <1>1, <2>1, <2>2, <3>1, Started
    <3>2. CASE p # r
      <4>1. met'[p] = met[p] \cup {r}
        BY <1>1, <2>1, <2>2, <3>2, Started
      <4>2. q # r => q \in met[p]
        BY <2>1, <2>2, <3>2 DEF MetWhenBothSave, Saving
      <4>3. QED
        BY <4>1, <4>2
    <3>3. QED
      BY <3>1, <3>2
  <2>3. QED
    BY <2>2 DEF MetWhenBothSave
<1>2. CASE GivesUp(r)
  BY <1>2, OthersKeep, GivenUp DEF MetWhenBothSave
<1>3. CASE FlushInsert(r) \/ FlushUpdate(r)
  BY <1>3, OthersKeep, Flushed DEF MetWhenBothSave
<1>4. CASE Select(r)
  <2>1. UNCHANGED <<phase, met>>
    BY <1>4 DEF Select
  <2>2. QED
    BY <2>1 DEF MetWhenBothSave
<1>5. CASE Commit(r)
  BY <1>5, OthersKeep, Committed DEF MetWhenBothSave
<1>6. QED
  BY <1>1, <1>2, <1>3, <1>4, <1>5, StepCases

\* While a run saves and has met nobody, nobody else does anything but start.
LEMMA AloneIsAlone ==
  ASSUME TypeOK, OnlySavingWrites, MetWhenBothSave,
         NEW q \in Runs, phase[q] = "saving", met[q] = {},
         NEW r \in Runs, RunStep(r), r # q
  PROVE  Start(r) /\ met'[q] # {}
<1>1. phase[r] # "saving" /\ ~Dirty(r)
  BY DEF MetWhenBothSave, OnlySavingWrites, Dirty
<1>2. Start(r)
  BY <1>1, GivenUp, StepCases DEF FlushInsert, FlushUpdate, Select, Commit
<1>3. QED
  BY <1>2, Started DEF Saving

LEMMA StepExactAlone ==
  ASSUME TypeOK, TypeOK', NewIsUnwritten, OnlySavingWrites, BeginsEmpty, HandledIsWritten,
         MetWhenBothSave, ExactAlone, NEW r \in Runs, RunStep(r)
  PROVE  ExactAlone'
<1> DEFINE Exact(q) ==
      /\ \A f \in Fps : own[q][f] # None /\ ~Pending(q, f) =>
           own[q][f].n = Base(f) + Sightings(q, f)
      /\ obj[q] # None =>
           /\ obj[q].n = Base(obj[q].fp) + Sightings(q, obj[q].fp)
           /\ obj[q].new => rows[obj[q].fp] = None
<1>1. ASSUME NEW q \in Runs, q # r, (phase[q] = "saving" /\ met[q] = {})' PROVE Exact(q)'
  <2>1. phase[q] = "saving" /\ met[q] = {}
    BY <1>1, OthersKeep, MetGrows
  <2>2. QED
    BY <1>1, <2>1, AloneIsAlone
<1>2. ASSUME (phase[r] = "saving" /\ met[r] = {})' PROVE Exact(r)'
  <2>1. CASE Start(r)
    BY <2>1, Started DEF OnlySavingWrites, Nothing
  <2>2. CASE GivesUp(r) \/ Commit(r)
    BY <1>2, <2>2, GivenUp, Committed
  <2>3. CASE FlushInsert(r) \/ FlushUpdate(r)
    <3> DEFINE o == obj[r]
    <3>1. /\ phase[r] = "saving" /\ met[r] = {} /\ UNCHANGED rows
          /\ \A f : Sightings(r, f)' = Sightings(r, f)
      BY <1>2, <2>3, Flushed, SightingsOf
    <3>2. Exact(r)
      BY <3>1 DEF ExactAlone
    <3>3. \A f \in Fps : Base(f)' = Base(f)
      BY <3>1 DEF Base
    <3>4. ASSUME NEW f \in Fps, own'[r][f] # None
          PROVE  own'[r][f].n = Base(f) + Sightings(r, f)
      <4>1. CASE f = o.fp
        BY <2>3, <3>2, <4>1, Flushed
      <4>2. CASE f # o.fp
        BY <2>3, <3>2, <3>4, <4>2, Flushed DEF Pending
      <4>3. QED
        BY <4>1, <4>2
    <3>5. obj'[r] # None => ~o.new /\ ~obj'[r].new /\ obj'[r].fp = o.fp /\ obj'[r].n = o.n
      BY <2>3, Flushed
    <3>6. o # None /\ o.fp \in Fps /\ o.n = Base(o.fp) + Sightings(r, o.fp)
      BY <2>3, <3>2, Flushed
    <3>7. QED
      BY <3>1, <3>3, <3>4, <3>5, <3>6
  <2>4. CASE Select(r)
    <3>1. PICK x \in Finding :
            /\ obj'[r] = IF Visible(r, x.fp) # None THEN Bump(Loaded(r, x.fp), x.conf)
                         ELSE Fresh(x.fp, x.conf)
            /\ obj'[r] # None /\ obj'[r].fp = x.fp /\ obj'[r].dirty
            /\ \A f : Sightings(r, f)' = Sightings(r, f) + (IF x.fp = f THEN 1 ELSE 0)
            /\ own'[r] = own[r] /\ x.fp \in Fps /\ phase[r] = "saving"
      BY <2>4, Selected
    <3>2. UNCHANGED <<rows, met>> /\ ~Dirty(r) /\ met[r] = {}
      BY <1>2, <2>4 DEF Select
    <3>3. Exact(r)
      BY <3>1, <3>2 DEF ExactAlone
    <3>4. \A f : ~Pending(r, f)
      BY <3>2 DEF Pending
    <3>5. \A f \in Fps : Base(f)' = Base(f) /\ Base(f) \in Nat
      BY <3>2, NumbersOf DEF Base
    <3>6. ASSUME NEW f \in Fps, own'[r][f] # None, ~Pending(r, f)'
          PROVE  own'[r][f].n = Base(f)' + Sightings(r, f)'
      <4>1. f # x.fp
        BY <3>1, <3>6 DEF Pending, Dirty
      <4>2. Sightings(r, f)' = Sightings(r, f)
        BY <3>1, <4>1, NumbersOf
      <4>3. QED
        BY <3>1, <3>3, <3>4, <3>5, <3>6, <4>2
    <3>7. own[r][x.fp] = None => Sightings(r, x.fp) = 0
      BY <3>1, <3>4, NumbersOf DEF HandledIsWritten
    <3>8. /\ obj'[r].n = Base(x.fp) + Sightings(r, x.fp) + 1
          /\ obj'[r].new => rows[x.fp] = None
      <4>1. CASE Visible(r, x.fp) = None
        <5>1. own[r][x.fp] = None /\ rows[x.fp] = None /\ obj'[r].n = 1
          BY <3>1, <4>1 DEF Fresh, Visible
        <5>2. QED
          BY <3>7, <5>1 DEF Base
      <4>2. CASE Visible(r, x.fp) # None /\ obj[r] # None /\ obj[r].fp = x.fp
        <5>1. /\ obj'[r].n = obj[r].n + 1 /\ obj[r].n \in Nat
              /\ obj'[r].new = obj[r].new
          BY <3>1, <4>2, ObjType DEF Bump, Loaded, Obj
        <5>2. QED
          BY <3>1, <3>3, <4>2, <5>1
      <4>3. CASE Visible(r, x.fp) # None /\ ~(obj[r] # None /\ obj[r].fp = x.fp)
        <5>1. obj'[r].n = Visible(r, x.fp).n + 1 /\ ~obj'[r].new
          BY <3>1, <4>3 DEF Bump, Loaded
        <5>2. Visible(r, x.fp).n = Base(x.fp) + Sightings(r, x.fp)
          <6>1. CASE own[r][x.fp] # None
            BY <3>1, <3>3, <3>4, <6>1 DEF Visible
          <6>2. CASE own[r][x.fp] = None
            BY <3>1, <3>7, <4>3, <6>2, NumbersOf DEF Visible, Base
          <6>3. QED
            BY <6>1, <6>2
        <5>3. QED
          BY <5>1, <5>2
      <4>4. QED
        BY <4>1, <4>2, <4>3
    <3>9. QED
      BY <3>1, <3>2, <3>5, <3>6, <3>8, NumbersOf
  <2>5. QED
    BY <2>1, <2>2, <2>3, <2>4, StepCases
<1>3. QED
  BY <1>1, <1>2 DEF ExactAlone

LEMMA StepLostOnlyWhenMet ==
  ASSUME TypeOK, OnlySavingWrites, NewIsUnwritten, MetWhenBothSave, ExactAlone, LostOnlyWhenMet,
         NEW r \in Runs, RunStep(r)
  PROVE  LostOnlyWhenMet'
<1>1. ASSUME NEW q \in Runs, met[q] # {}, q # r \/ ~Start(r) PROVE met'[q] # {}
  BY <1>1, MetGrows
<1>2. ASSUME NEW q \in Runs, q # r, phase'[q] = "lost" PROVE met'[q] # {}
  BY <1>1, <1>2, OthersKeep DEF LostOnlyWhenMet
<1>3. ASSUME phase'[r] = "lost" PROVE met'[r] # {}
  <2>1. CASE Start(r) \/ Commit(r)
    BY <1>3, <2>1, Started, Committed
  <2>2. CASE FlushInsert(r) \/ FlushUpdate(r) \/ Select(r)
    <3>1. phase[r] = "lost" /\ ~Start(r)
      BY <1>3, <2>2, Flushed, Selected, Started
    <3>2. QED
      BY <1>1, <3>1 DEF LostOnlyWhenMet
  <2>3. CASE Fail(r)
    BY <1>3, <2>3 DEF Fail, RollBack, TypeOK
  <2>4. CASE FlushCollides(r)
    <3>1. obj[r] # None /\ obj[r].new /\ Stored(r, obj[r].fp) /\ UNCHANGED met
      BY <2>4 DEF FlushCollides, Dirty, RollBack
    <3>2. rows[obj[r].fp] # None /\ phase[r] = "saving"
      BY <3>1 DEF NewIsUnwritten, OnlySavingWrites, Stored
    <3>3. QED
      BY <3>1, <3>2 DEF ExactAlone
  <2>5. CASE DeadlockVictim(r)
    <3>1. PICK q \in Runs : WaitsFor(r, q)
      BY <2>5 DEF DeadlockVictim
    <3>2. q # r /\ phase[r] = "saving" /\ obj[r] # None /\ own[q][obj[r].fp] # None
      BY <3>1 DEF WaitsFor, Dirty, OnlySavingWrites
    <3>3. phase[q] = "saving"
      BY <3>2, ObjType DEF OnlySavingWrites, Nothing
    <3>4. QED
      BY <2>5, <3>2, <3>3 DEF MetWhenBothSave, DeadlockVictim, RollBack
  <2>6. QED
    BY <2>1, <2>2, <2>3, <2>4, <2>5, StepCases DEF GivesUp
<1>4. QED
  BY <1>2, <1>3 DEF LostOnlyWhenMet

-----------------------------------------------------------------------------
LEMMA InitIInv == Init => IInv
<1> SUFFICES ASSUME Init PROVE IInv
  OBVIOUS
<1>1. /\ \A r \in Runs : /\ obj[r] = None /\ own[r] = Nothing /\ done[r] = << >>
                         /\ phase[r] = "before"
      /\ \A f \in Fps : rows[f] # None => rows[f].n = 1 /\ seen[f] = 1
      /\ \A f \in Fps : rows[f] = None => seen[f] = 0
  BY DEF Init
<1>2. QED
  BY <1>1 DEF IInv, OnlySavingWrites, BeginsEmpty, NewIsUnwritten, HandledIsWritten,
              VersionsBounded, CountNotOverstated, MetWhenBothSave, ExactAlone, LostOnlyWhenMet,
              Nothing

LEMMA StepIInv == TypeOK /\ IInv /\ [Next]_vars => TypeOK' /\ IInv'
<1> SUFFICES ASSUME TypeOK, IInv, [Next]_vars PROVE TypeOK' /\ IInv'
  OBVIOUS
<1>1. TypeOK'
  BY StepTypeOK DEF IInv
<1>2. ASSUME NEW r \in Runs, RunStep(r) PROVE IInv'
  BY <1>1, <1>2, StepOnlySavingWrites, StepBeginsEmpty, StepNewIsUnwritten,
     StepHandledIsWritten, StepVersionsBounded, StepCountNotOverstated, StepMetWhenBothSave,
     StepExactAlone, StepLostOnlyWhenMet DEF IInv
<1>3. CASE UNCHANGED vars
  <2>1. \A r \in Runs : \A f : Sightings(r, f)' = Sightings(r, f)
    BY <1>3, SightingsOf DEF vars
  <2>2. /\ OnlySavingWrites' /\ BeginsEmpty' /\ NewIsUnwritten' /\ CountNotOverstated'
        /\ MetWhenBothSave' /\ LostOnlyWhenMet'
    BY <1>3
    DEF vars, IInv, OnlySavingWrites, BeginsEmpty, NewIsUnwritten, CountNotOverstated,
        MetWhenBothSave, LostOnlyWhenMet, Stored
  <2>3. HandledIsWritten'
    BY <1>3, <2>1 DEF vars, IInv, HandledIsWritten, Pending, Dirty
  <2>4. VersionsBounded'
    BY <1>3, <2>1 DEF vars, IInv, VersionsBounded
  <2>5. ExactAlone'
    <3>1. \A f \in Fps : Base(f)' = Base(f)
      BY <1>3 DEF vars, Base
    <3>2. \A r \in Runs, f \in Fps : Pending(r, f)' <=> Pending(r, f)
      BY <1>3 DEF vars, Pending, Dirty
    <3>3. ASSUME NEW r \in Runs, (phase[r] = "saving" /\ met[r] = {})', obj'[r] # None
          PROVE  /\ obj'[r].n = Base(obj[r].fp)' + Sightings(r, obj[r].fp)'
                 /\ obj'[r].new => rows'[obj[r].fp] = None
      <4>1. /\ obj[r].n = Base(obj[r].fp) + Sightings(r, obj[r].fp)
            /\ obj[r].new => rows[obj[r].fp] = None
        BY <1>3, <3>3 DEF vars, IInv, ExactAlone
      <4>2. QED
        BY <1>3, <2>1, <3>1, <3>3, <4>1, ObjType DEF vars
    <3>4. ASSUME NEW r \in Runs, (phase[r] = "saving" /\ met[r] = {})', NEW f \in Fps,
                 (own[r][f] # None /\ ~Pending(r, f))'
          PROVE  own'[r][f].n = Base(f)' + Sightings(r, f)'
      <4>1. own[r][f].n = Base(f) + Sightings(r, f)
        BY <1>3, <3>2, <3>4 DEF vars, IInv, ExactAlone
      <4>2. QED
        BY <1>3, <2>1, <3>1, <4>1 DEF vars
    <3>5. obj' = obj
      BY <1>3 DEF vars
    <3>6. QED
      BY <3>3, <3>4, <3>5 DEF ExactAlone
  <2>6. QED
    BY <1>1, <2>2, <2>3, <2>4, <2>5 DEF IInv
<1>4. QED
  BY <1>1, <1>2, <1>3 DEF Next, RunStep

\* The store and the sessions are well typed in every reachable state.
THEOREM TypeCorrect == Spec => []TypeOK
<1>1. Init => TypeOK /\ IInv
  BY InitTypeOK, InitIInv
<1>2. QED
  BY <1>1, StepIInv, PTL DEF Spec

\* The inductive invariant of overlapping saves.
THEOREM Invariance == Spec => [](TypeOK /\ IInv)
<1>1. Init => TypeOK /\ IInv
  BY InitTypeOK, InitIInv
<1>2. QED
  BY <1>1, StepIInv, PTL DEF Spec

\* A counter is never ahead of the sightings that were committed, and a clause
\* that was committed is not lost, however saves overlap and fail.
THEOREM CountsAreHonest == Spec => []CountNotOverstated
<1>1. IInv => CountNotOverstated
  BY DEF IInv
<1>2. QED
  BY <1>1, Invariance, PTL

\* A run gives up its batch for another run, and not for its own data.
THEOREM LossNeedsAnother == Spec => []LostOnlyWhenMet
<1>1. IInv => LostOnlyWhenMet
  BY DEF IInv
<1>2. QED
  BY <1>1, Invariance, PTL

\* A run that met no other has counted each finding of its batch once, also
\* those that name a clause again.
THEOREM AloneIsExact == Spec => CountExactWhenAlone
<1>1. ASSUME TypeOK, IInv, [Next]_vars, NEW r \in Runs,
             phase'[r] = "stored", phase[r] = "saving", met[r] = {},
             NEW f \in Fps, Sightings(r, f) > 0
      PROVE  rows'[f].n = Sightings(r, f) + (IF rows[f] = None THEN 0 ELSE rows[f].n)
  <2>1. PICK q \in Runs : RunStep(q)
    BY <1>1 DEF Next, RunStep, vars
  <2>2. q = r
    BY <1>1, <2>1, OthersKeep
  <2>3. Commit(r)
    BY <1>1, <2>1, <2>2, Started, GivenUp, Flushed, Selected, StepCases DEF IInv
  <2>4. ~Pending(r, f) /\ own[r][f] # None
    BY <1>1, <2>3, Committed DEF IInv, HandledIsWritten, Pending
  <2>5. rows'[f] = own[r][f] /\ own[r][f].n = Base(f) + Sightings(r, f)
    BY <1>1, <2>3, <2>4, Committed DEF IInv, ExactAlone, Visible
  <2>6. QED
    BY <1>1, <2>5, NumbersOf DEF Base
<1>2. TypeOK /\ IInv /\ [Next]_vars =>
        [\A r \in Runs : phase'[r] = "stored" /\ phase[r] = "saving" /\ met[r] = {} =>
           \A f \in Fps : Sightings(r, f) > 0 =>
             rows'[f].n = Sightings(r, f) + (IF rows[f] = None THEN 0 ELSE rows[f].n)]_vars
  BY <1>1
<1>3. QED
  BY <1>2, Invariance, PTL DEF Spec, CountExactWhenAlone
=============================================================================
