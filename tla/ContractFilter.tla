--------------------------- MODULE ContractFilter ---------------------------
(***************************************************************************)
(* The gate before the agents (services/contract_filter.py): is a document *)
(* a contract?  A text is a sequence of words, of which "line" is a line   *)
(* break, "item" the number of a clause ("1."), "n" any other number and   *)
(* "date" a date.  Scores are in thousandths.                              *)
(***************************************************************************)
EXTENDS Integers, FiniteSets, SequencesExt, Functions

CONSTANTS
  Terms, Phrases, Negative,  \* the lexicon: weights of n-grams
  Markers,                   \* weights of structure markers, n-grams too
  MinTokens,                 \* contract_filter_min_tokens
  MinScore                   \* contract_filter_min_score

\* A lexicon of finitely many n-grams of a word or more.
Lexicon(weights) ==
  /\ IsFiniteSet(DOMAIN weights)
  /\ \A ngram \in DOMAIN weights :
       ngram \in Seq(STRING) /\ ngram # <<>> /\ weights[ngram] \in Nat

ASSUME FilterAssumption ==
  /\ Lexicon(Terms) /\ Lexicon(Phrases) /\ Lexicon(Negative) /\ Lexicon(Markers)
  /\ MinTokens \in Nat /\ MinScore \in Int

\* The places where an n-gram begins.
Occurrences(ngram, text) ==
  Cardinality({i \in 1 .. Len(text) - Len(ngram) + 1 :
                 SubSeq(text, i, i + Len(ngram) - 1) = ngram})

Has(text, ngram) == Occurrences(ngram, text) > 0

\* A substitution by nothing: one pass that leaves something out.
Without(seq, dropped) ==
  LET kept[i \in 0 .. Len(seq)] ==
        IF i = 0 THEN <<>>
        ELSE IF seq[i] \in dropped THEN kept[i - 1] ELSE Append(kept[i - 1], seq[i])
  IN  kept[Len(seq)]

\* White space is collapsed, line breaks among it.
NormalizeText(text) == Without(text, {"line"})

\* 1 - exp(-n/d), by the first terms of the series of exp(n/d).
Saturated(n, d) == (1000 * (2 * n * d + n * n)) \div (2 * d * d + 2 * n * d + n * n)

Least(a, b) == IF a < b THEN a ELSE b

-----------------------------------------------------------------------------
\* Faulty variant: every occurrence counts.
Uncapped(count) == count

\* At most three occurrences of an n-gram count.
Capped(count) == Least(3, count)

Contribution(words, lexicon) ==
  SumFunction([ngram \in DOMAIN lexicon |->
                 Capped(Occurrences(ngram, words)) * lexicon[ngram]])

\* A term that is a phrase too counts once, with the weight of the term.
Positives ==
  [ngram \in DOMAIN Terms \cup DOMAIN Phrases |->
     IF ngram \in DOMAIN Terms THEN Terms[ngram] ELSE Phrases[ngram]]

LexiconScore(words) == Saturated(12 * Contribution(words, Positives), Len(words))

Penalty(words) == Least(400, (2000 * Contribution(words, Negative)) \div Len(words))

\* "1." at the beginning of a line, with white space behind it.
NumberedLines(words) ==
  Cardinality({i \in 1 .. Len(words) - 1 :
                 words[i] = "item" /\ (i = 1 \/ words[i - 1] = "line")})

\* What counts for the layout, whatever the lexicon says.
StructureWeight(words) ==
  LET bonus(holds, weight) == IF holds THEN weight ELSE 0
  IN SumFunction([marker \in DOMAIN Markers |-> bonus(Has(words, marker), Markers[marker])])
     + bonus(NumberedLines(words) >= 3, 3)
     + bonus(Has(words, <<"antara">>) /\ Has(words, <<"dengan">>), 3)
     + bonus(Has(words, <<"date">>), 2)
     + bonus(Has(words, <<"nomor", "n">>), 2)

StructureScore(words) == Saturated(StructureWeight(words), 20)

Score(words) ==
  LET score == (6 * LexiconScore(words) + 4 * StructureScore(words)) \div 10 - Penalty(words)
  IN IF score < 0 THEN 0 ELSE Least(1000, score)

\* assess_contract; without a lexicon every document that is long enough will do.
AssessContract(text, lexicon) ==
  LET words == NormalizeText(text)
  IN CASE Len(words) = 0 -> "empty"
       [] Len(words) \in 1 .. MinTokens - 1 -> "too_short"
       [] Len(words) >= MinTokens /\ ~lexicon -> "lexicon_unavailable"
       [] OTHER -> IF Score(words) >= MinScore THEN "accepted" ELSE "low_score"

IsContract(reason) == reason \in {"accepted", "lexicon_unavailable"}

-----------------------------------------------------------------------------
\* The n-grams that count whatever the lexicon says.
Structural == {<<"antara">>, <<"dengan">>, <<"date">>, <<"nomor", "n">>}

NGrams == DOMAIN Positives \cup DOMAIN Negative \cup DOMAIN Markers \cup Structural

\* The last word is one too many: whatever it completes is there three times
\* already.  A word that completes nothing, a filler, is one such.
Stuffed(text) ==
  LET words == NormalizeText(text)
      before == Front(words)
  IN /\ before # <<>> /\ Len(before) >= MinTokens
     /\ \A ngram \in NGrams :
          Occurrences(ngram, words) > Occurrences(ngram, before)
            => Occurrences(ngram, before) >= 3
=============================================================================
