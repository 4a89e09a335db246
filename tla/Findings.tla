------------------------------ MODULE Findings ------------------------------
(***************************************************************************)
(* What a reply of the risk agent and the dataset of the curated patterns  *)
(* bring to the skill store (services/findings.py, seed_loader.py): the    *)
(* coercion of the model's findings and the threshold at which the store   *)
(* takes one.  Numbers are in hundredths.                                  *)
(***************************************************************************)
EXTENDS Integers, FiniteSets, SequencesExt

CONSTANTS
  NaN,          \* the float that is not a number; JSON and float() know it
  NotAnObject   \* an entry of another JSON type

One == 100

CONFIDENCE_THRESHOLD == 75

-----------------------------------------------------------------------------
(***************************************************************************)
(* The reply.  A raw confidence has a form: a number, a text that float()  *)
(* takes, such a text with a percent sign, an integer beyond the range of  *)
(* a double, or anything else.                                             *)
(***************************************************************************)

\* What the number of a text is divided by.
Signed(raw) == IF raw.form = "percent" THEN 100 ELSE 1

\* Of num / per: between 1 and 100 a number is a percentage, beyond it is
\* certainty.  Only what is below a hundredth is dropped.
Share(num, per) ==
  IF num <= One * per THEN IF num < 0 THEN 0 ELSE num \div per
  ELSE IF num <= 100 * One * per THEN num \div (100 * per) ELSE One

\* max(0.0, min(1.0, nan)) is 1.0: no comparison with NaN moves the bounds.
NormalizeConfidence(raw) ==
  IF raw.form = "other" THEN 0
  ELSE IF raw.value = NaN THEN One
  ELSE Share(raw.value, Signed(raw))

\* A finding without any text is dropped.  `quote` is original_text and `note`
\* stands for explanation and recommendation.
Usable(item) == item # NotAnObject /\ (item.quote \/ item.note)

Normalized(item) == [item EXCEPT !.conf = NormalizeConfidence(@)]

\* Faulty variant: the first malformed entry ends the loop.
UpToMalformed(items) ==
  LET bad == {i \in 1 .. Len(items) : ~Usable(items[i])}
  IN  SubSeq(items, 1, IF bad = {} THEN Len(items)
                       ELSE (CHOOSE i \in bad : \A j \in bad : i <= j) - 1)

\* normalize_findings: malformed entries are left out one by one.
WellFormed(items) ==
  LET cleaned[i \in 0 .. Len(items)] ==
        IF i = 0 THEN << >>
        ELSE IF Usable(items[i]) THEN Append(cleaned[i - 1], items[i])
        ELSE cleaned[i - 1]
  IN  cleaned[Len(items)]

\* float() raises on a huge integer, whatever else its entry says.
Overflows(reply) ==
  reply.list /\ \E item \in ToSet(reply.items) : item # NotAnObject /\ item.conf.form = "huge"

\* `findings` may be no list at all.  An OverflowError leaves the loop and the
\* function: the agent has failed, with all its findings.
NormalizeFindings(reply) ==
  IF ~reply.list \/ Overflows(reply) THEN << >>
  ELSE LET items == WellFormed(reply.items)
       IN  [i \in 1 .. Len(items) |-> Normalized(items[i])]

\* save_new_patterns takes a finding that is sure enough and quotes the contract.
Storable(finding) == finding.conf >= CONFIDENCE_THRESHOLD /\ finding.quote

\* How often the store meets each clause of a reply of the risk agent.
Learned(reply) ==
  LET findings == NormalizeFindings(reply)
      stored == {i \in 1 .. Len(findings) : Storable(findings[i])}
  IN  [f \in {findings[i].fp : i \in stored} |->
         Cardinality({i \in stored : findings[i].fp = f})]

\* The reading of findings.py:45-48: 0.9, "0.9", "90%" and 90 are the same, and
\* sure is what reaches the threshold.
Sure(raw) ==
  \/ raw.form \in {"number", "text"} /\ raw.value \in 75 .. 100 \cup 7500 .. 10000
  \/ raw.form = "percent" /\ raw.value \in 7500 .. 10000

\* More than certain, for which findings.py:66 has a clamp; and NaN.
Odd(raw) ==
  \/ raw.form \in {"number", "text", "percent"} /\ raw.value = NaN
  \/ raw.form \in {"number", "text", "percent"} /\ raw.value # NaN /\ raw.value > 10000

Quoted(reply) ==
  IF ~reply.list THEN {}
  ELSE {item \in ToSet(reply.items) : item # NotAnObject /\ item.quote}

\* The clauses a reply quotes and is sure of, entry by entry.
SureClauses(reply) == {item.fp : item \in {q \in Quoted(reply) : Sure(q.conf)}}

\* The clauses it quotes with a confidence that is none.
OddClauses(reply) == {item.fp : item \in {q \in Quoted(reply) : Odd(q.conf)}}

-----------------------------------------------------------------------------
(***************************************************************************)
(* The dataset of the curated patterns (services/seed_loader.py).  A       *)
(* record has a snippet or none, findings or none, and a category; what is *)
(* no object is skipped, and a file that is no list of records is empty.   *)
(***************************************************************************)
Labels(record) ==
  IF record.findings = << >> THEN {record.category}
  ELSE ToSet(record.findings) \ {NotAnObject}

ClausePatterns(file) ==
  IF ~file.list THEN {}
  ELSE UNION {Labels(record) : record \in {r \in ToSet(file.records) : r.snippet}}
=============================================================================
