----------------------------- MODULE MCPatterns -----------------------------
(***************************************************************************)
(* Replies and datasets for the model checking of PatternReads.            *)
(***************************************************************************)
EXTENDS PatternReads, TLC

Raw(form, value) == [form |-> form, value |-> value]

\* 0.9, "0.9", 90 and "90%", and what is near them without being sure.
SureOnes == {Raw("number", 90), Raw("text", 75), Raw("number", 9000), Raw("percent", 9000)}

DoubtfulOnes ==
  {Raw("number", 74), Raw("number", -900), Raw("number", 150), Raw("text", 7400),
   Raw("percent", 100), Raw("percent", 10050), Raw("percent", 15000), Raw("other", 0)}

OddOnes ==
  {Raw("number", 20000), Raw("text", 20000), Raw("percent", 800000), Raw("number", NaN),
   Raw("text", NaN), Raw("percent", NaN)}

Huge == Raw("huge", 0)

Item(f, conf, quote, note) == [fp |-> f, conf |-> conf, quote |-> quote, note |-> note]

Fine(f) == Item(f, Raw("number", 90), TRUE, TRUE)

Entries ==
  {NotAnObject}
  \cup {Item(f, conf, TRUE, TRUE) : f \in Fps, conf \in SureOnes \cup DoubtfulOnes \cup OddOnes}
  \cup {Item(f, Huge, quote, quote) : f \in Fps, quote \in BOOLEAN}
  \cup {Item(f, Raw("number", 90), FALSE, note) : f \in Fps, note \in BOOLEAN}

List(items) == [list |-> TRUE, items |-> items]

Speaks(entry, f) == entry # NotAnObject /\ entry.fp = f

\* A good finding and an entry of any kind before or behind it.  PatternWrites
\* has the replies that name a clause twice.
Pairs == {<<entry, f>> \in Entries \X Fps : ~Speaks(entry, f)}

MCReplies ==
  {[list |-> FALSE, items |-> << >>], List(<< >>), List(SetToSeq({Fine(f) : f \in Fps}))}
  \cup {List(<<pair[1], Fine(pair[2])>>) : pair \in Pairs}
  \cup {List(<<Fine(pair[2]), pair[1]>>) : pair \in Pairs}

Labelled(snippet, findings, category) ==
  [snippet |-> snippet, findings |-> findings, category |-> category]

MCFiles ==
  {[list |-> FALSE, records |-> << >>]}
  \cup {[list |-> TRUE, records |-> <<Labelled(TRUE, << >>, f), Labelled(FALSE, <<g>>, g)>>] :
          f, g \in Fps}
  \cup {[list |-> TRUE, records |-> <<Labelled(TRUE, <<f, NotAnObject, g>>, f)>>] : f, g \in Fps}

MCSymmetry == Permutations(Owners) \cup Permutations(Fps)
=============================================================================
