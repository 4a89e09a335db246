---------------------------- MODULE PatternReads ----------------------------
(***************************************************************************)
(* get_active_patterns (services/skill_store.py): what the risk agent is   *)
(* shown of the pattern store, over every table that seeding, saving and   *)
(* migration 0005, up and down, can build.  Saves are atomic here;         *)
(* PatternWrites takes them apart.                                         *)
(***************************************************************************)
EXTENDS Findings

CONSTANTS
  Owners,     \* real owner ids, of security.new_owner_id
  Global,     \* GLOBAL_OWNER
  Legacy,     \* LEGACY_OWNER
  NoOwner,    \* a caller without an owner id
  Fps,        \* fingerprints
  Replies,    \* replies of the risk agent, as Findings has them
  Files,      \* contents of the dataset over the deployments
  Limit,      \* the cap on patterns in a prompt
  MaxCount,   \* bound on times_matched
  MaxTime     \* bound on transactions

\* An entry of a reply: a clause, the raw confidence, and which texts are there.
Confidence ==
  [form : {"number", "text", "percent", "huge", "other"}, value : Int \cup {NaN}]

Entry == [fp : Fps, conf : Confidence, quote : BOOLEAN, note : BOOLEAN]

Reply == [list : BOOLEAN, items : Seq(Entry \cup {NotAnObject})]

\* A record of the dataset; the category is the label of one without findings.
Record ==
  [snippet : BOOLEAN, findings : Seq(Fps \cup {NotAnObject}), category : Fps]

File == [list : BOOLEAN, records : Seq(Record)]

ASSUME ReadsAssumption ==
  /\ {Global, Legacy, NoOwner} \cap Owners = {}
  /\ Global # Legacy /\ Global # NoOwner /\ Legacy # NoOwner
  /\ IsFiniteSet(Fps)
  /\ NaN \notin Int /\ NotAnObject \notin Entry
  /\ Replies \subseteq Reply /\ Files \subseteq File
  /\ Limit \in Nat \ {0} /\ MaxCount \in Nat \ {0} /\ MaxTime \in Nat

VARIABLES
  table,   \* clause_patterns: rows [owner, fp, n, born, by]
  time,    \* created_at of the next row: now() of its transaction
  scoped   \* whether the table has its owner_id: migration 0005 is applied

vars == <<table, time, scoped>>

-----------------------------------------------------------------------------
Reserved == {Global, Legacy}

\* `by` is no column: who brought the row in, Legacy being anybody.  Without
\* owner_id the owner is NoOwner.
RowType ==
  [owner : Owners \cup Reserved \cup {NoOwner}, fp : Fps, n : 0 .. MaxCount,
   born : 0 .. MaxTime, by : Owners \cup Reserved]

\* The unique constraint on (owner_id, fingerprint), or on the fingerprint,
\* included.
TypeOK ==
  /\ table \subseteq RowType
  /\ \A a, b \in table : a.owner = b.owner /\ a.fp = b.fp => a = b
  /\ \A row \in table : scoped <=> row.owner # NoOwner
  /\ time \in 1 .. MaxTime + 1

\* Before ownership: seeded rows count nothing, learned ones at least one.
Init ==
  /\ \E learned \in SUBSET Fps :
       table = {[owner |-> NoOwner, fp |-> f, n |-> IF f \in learned THEN 1 ELSE 0,
                 born |-> 0, by |-> IF f \in learned THEN Legacy ELSE Global] : f \in Fps}
  /\ time = 1
  /\ scoped = FALSE

-----------------------------------------------------------------------------
(***************************************************************************)
(* Migration 0005.                                                         *)
(***************************************************************************)

\* Faulty variant: a clause that was met once still counts as curated.
OwnerByFewCounts(row) == IF row.n <= 1 THEN Global ELSE Legacy

\* CLASSIFY_EXISTING
OwnerByCount(row) == IF row.n = 0 THEN Global ELSE Legacy

\* One row per fingerprint is left, of those counted most; confidence and id
\* decide among them.
Deduped(rows) ==
  {kept \in SUBSET rows :
     \A f \in {row.fp : row \in rows} :
       \E row \in kept : /\ row.fp = f
                         /\ \A other \in kept : other.fp = f => other = row
                         /\ \A other \in rows : other.fp = f => other.n <= row.n}

\* The unique constraint of before leaves the DEDUPE nothing to delete.
Upgrade ==
  /\ ~scoped
  /\ table' = {[row EXCEPT !.owner = OwnerByCount(row)] : row \in table}
  /\ scoped' = TRUE
  /\ UNCHANGED time

\* The rows of all owners are collapsed, and whose they were is dropped.
Downgrade ==
  /\ scoped
  /\ \E kept \in Deduped(table) : table' = {[row EXCEPT !.owner = NoOwner] : row \in kept}
  /\ scoped' = FALSE
  /\ UNCHANGED time

-----------------------------------------------------------------------------
RowsOf(o) == {row \in table : row.owner = o}

FpsOf(o) == {row.fp : row \in RowsOf(o)}

\* seed_clause_patterns: whatever the global bucket lacks of the dataset, which
\* a later deployment may have changed.
Seed(dataset) ==
  /\ scoped
  /\ time <= MaxTime
  /\ dataset \ FpsOf(Global) # {}
  /\ table' = table \cup
       {[owner |-> Global, fp |-> f, n |-> 0, born |-> time, by |-> Global] :
          f \in dataset \ FpsOf(Global)}
  /\ time' = time + 1
  /\ UNCHANGED scoped

\* The rows a save finds.
Bumped(o, found) == {row \in RowsOf(o) : row.fp \in DOMAIN found}

\* save_new_patterns: the owner's known rows are bumped, new ones added.  A
\* caller without a real owner id stores nothing.
Learn(o, found) ==
  /\ scoped
  /\ o \in Owners
  /\ time <= MaxTime
  /\ \A f \in DOMAIN found : found[f] <= MaxCount
  /\ \A row \in Bumped(o, found) : row.n + found[row.fp] <= MaxCount
  /\ table' = (table \ Bumped(o, found))
       \cup {[row EXCEPT !.n = @ + found[row.fp]] : row \in Bumped(o, found)}
       \cup {[owner |-> o, fp |-> f, n |-> found[f], born |-> time, by |-> o] :
               f \in DOMAIN found \ FpsOf(o)}
  /\ time' = time + 1
  /\ UNCHANGED scoped

\* What replies and files come to.
Lessons ==
  {[found |-> Learned(reply), lost |-> Overflows(reply),
    sure |-> SureClauses(reply), odd |-> OddClauses(reply)] : reply \in Replies}

Datasets == {ClausePatterns(file) : file \in Files}

Next ==
  \/ Upgrade \/ Downgrade
  \/ \E dataset \in Datasets : Seed(dataset)
  \/ \E o \in Owners, found \in {lesson.found : lesson \in Lessons} : Learn(o, found)

Spec == Init /\ [][Next]_vars

-----------------------------------------------------------------------------
Callers == Owners \cup Reserved \cup {NoOwner}

\* Faulty variant: the store before ownership, shared by all.
ReadableByAll(o) == {Global} \cup Owners

\* readable_owners
Readable(o) == {Global} \cup ({o} \cap Owners)

Visible(o) == {row \in table : row.owner \in Readable(o)}

\* Rows of one owner and transaction come in any order; `rank` stands for it.
Ranks == {rank \in [Fps -> 1 .. Cardinality(Fps)] :
            \A f, g \in Fps : rank[f] = rank[g] => f = g}

\* Faulty variant: the newest row comes first.
BeforeNewestFirst(rank, a, b) ==
  \/ a.born > b.born
  \/ a.born = b.born /\ a.owner # Global /\ b.owner = Global
  \/ a.born = b.born /\ a.owner = b.owner /\ rank[a.fp] < rank[b.fp]

\* ORDER BY times_matched DESC, (owner_id = 'global') ASC, created_at DESC.
Before(rank, a, b) ==
  \/ a.n > b.n
  \/ a.n = b.n /\ a.owner # Global /\ b.owner = Global
  \/ a.n = b.n /\ a.owner = b.owner /\ a.born > b.born
  \/ a.n = b.n /\ a.owner = b.owner /\ a.born = b.born /\ rank[a.fp] < rank[b.fp]

Sorted(rows, rank) ==
  [i \in 1 .. Cardinality(rows) |->
     CHOOSE row \in rows : Cardinality({a \in rows : Before(rank, a, row)}) = i - 1]

Take(seq, n) == SubSeq(seq, 1, IF Len(seq) < n THEN Len(seq) ELSE n)

\* Faulty variant: no more rows are fetched than are wanted.
FetchedExactly(o, rank) == Take(Sorted(Visible(o), rank), Limit)

\* LIMIT twice the cap.
Fetched(o, rank) == Take(Sorted(Visible(o), rank), 2 * Limit)

ShownFps(patterns) == {patterns[i].fp : i \in 1 .. Len(patterns)}

\* The loop over the fetched rows: skip what was seen, stop at the cap.
Gathered(rows) ==
  LET patterns[i \in 0 .. Len(rows)] ==
        IF i = 0 THEN << >>
        ELSE LET sofar == patterns[i - 1]
             IN  IF Len(sofar) = Limit \/ rows[i].fp \in ShownFps(sofar) THEN sofar
                 ELSE Append(sofar, rows[i])
  IN  patterns[Len(rows)]

Patterns(o, rank) == Gathered(Fetched(o, rank))

-----------------------------------------------------------------------------
(***************************************************************************)
(* Properties.                                                             *)
(***************************************************************************)

\* The best row of each clause the caller may read, best first, up to the cap:
\* fetching twice the cap is enough, since a clause has at most two rows, and
\* the dedupe cannot shrink the result (skill_store.py:102-104).
Reference(o, rank) ==
  LET best == {row \in Visible(o) :
                 \A other \in Visible(o) : other.fp = row.fp => ~Before(rank, other, row)}
  IN  Take(Sorted(best, rank), Limit)

PatternsAreTheBest ==
  \A o \in Callers, rank \in Ranks : Patterns(o, rank) = Reference(o, rank)

\* An owner's own sighting of a clause hides the curated row of it, because
\* nothing at runtime counts sightings on curated rows.
OwnRowIsShown ==
  \A o \in Owners, rank \in Ranks :
    \A row \in ToSet(Patterns(o, rank)) : row.fp \in FpsOf(o) => row.owner = o

\* What an owner is shown changes only when that owner learns or the curated
\* rows do: no upload reaches the prompts of another owner.
PromptsAreApart ==
  [][\A o \in Owners, rank \in Ranks :
       RowsOf(o)' = RowsOf(o) /\ RowsOf(Global)' = RowsOf(Global) =>
         Patterns(o, rank)' = Patterns(o, rank)]_vars

\* 0005:7-20: what was learned from one owner's contracts is in nobody else's
\* prompts, and what nobody owns is in none, also when the owners were dropped
\* by a downgrade and the rows were classified anew.
ShownIsOwnOrCurated ==
  \A o \in Callers : \A row \in Visible(o) : row.by \in {o, Global}

\* findings.py:6-7: a malformed entry costs its reply nothing but itself.  What
\* an owner's store gains is every quoted clause the model was sure of, and no
\* other but one whose confidence is more than certain or is NaN, which the
\* coercion takes for certainty (against findings.py:47-48).  The entry that does
\* cost its reply everything is one with a huge integer (findings.py:53).
LearnsWhatIsSure ==
  [][\A o \in Owners, lesson \in Lessons :
       Learn(o, lesson.found) =>
         IF lesson.lost THEN FpsOf(o)' = FpsOf(o)
         ELSE /\ FpsOf(o) \cup lesson.sure \subseteq FpsOf(o)'
              /\ FpsOf(o)' \subseteq FpsOf(o) \cup lesson.sure \cup lesson.odd]_vars
=============================================================================
