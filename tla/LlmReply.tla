------------------------------ MODULE LlmReply ------------------------------
(***************************************************************************)
(* From a model's reply to a JSON object: extract_json_object and          *)
(* _outermost_object (services/llm_client.py).                             *)
(*                                                                         *)
(* A reply is a sequence of characters of which the scanner and JSON tell  *)
(* apart                                                                   *)
(*   { } [ ]   brackets                                                    *)
(*   q         a quotation mark                                            *)
(*   b         a backslash                                                 *)
(*   f         a fence of three backticks, with or without `json`          *)
(*   x         any other: in a string a letter, outside a number           *)
(* White space, commas, colons and what distinguishes a key from another   *)
(* string are left out: neither the scanner nor the nesting depends on     *)
(* them.                                                                   *)
(***************************************************************************)
EXTENDS Integers, Sequences, SequencesExt

Chars == {"{", "}", "[", "]", "q", "b", "f", "x"}

-----------------------------------------------------------------------------
(***************************************************************************)
(* json.loads, as a reader with a stack of the brackets it must still see. *)
(***************************************************************************)
Closer == [c \in {"{", "["} |-> IF c = "{" THEN "}" ELSE "]"]

Reading == [ok |-> TRUE, values |-> 0, open |-> <<>>, str |-> FALSE, esc |-> FALSE]

\* A value begins: at the top there may be only one.
BeginValue(st) ==
  IF st.open = <<>> THEN [st EXCEPT !.values = @ + 1, !.ok = st.values = 0] ELSE st

ReadInString(st, c) ==
  CASE st.esc               -> [st EXCEPT !.esc = FALSE, !.ok = c \in {"q", "b", "x"}]
    [] ~st.esc /\ c = "b"   -> [st EXCEPT !.esc = TRUE]
    [] ~st.esc /\ c = "q"   -> [st EXCEPT !.str = FALSE]
    [] OTHER                -> st

ReadOutside(st, c) ==
  CASE c \in DOMAIN Closer  -> [BeginValue(st) EXCEPT !.open = <<Closer[c]>> \o @]
    [] c \in {"}", "]"}     -> IF st.open # <<>> /\ Head(st.open) = c
                               THEN [st EXCEPT !.open = Tail(@)]
                               ELSE [st EXCEPT !.ok = FALSE]
    [] c = "q"              -> [BeginValue(st) EXCEPT !.str = TRUE]
    [] c = "x"              -> BeginValue(st)
    [] c \in {"b", "f"}     -> [st EXCEPT !.ok = FALSE]

ReadChar(st, c) ==
  IF ~st.ok THEN st ELSE IF st.str THEN ReadInString(st, c) ELSE ReadOutside(st, c)

Reader(text) ==
  LET read[i \in 0 .. Len(text)] ==
        IF i = 0 THEN Reading ELSE ReadChar(read[i - 1], text[i])
  IN  read

Read(text) == Reader(text)[Len(text)]

IsJson(text) ==
  LET end == Read(text)
  IN  end.ok /\ end.values = 1 /\ end.open = <<>> /\ ~end.str

IsObject(text) == IsJson(text) /\ Head(text) = "{"

\* The beginning of an object that was cut off.
IsCutObject(text) ==
  LET end == Read(text)
  IN  end.ok /\ text # <<>> /\ Head(text) = "{" /\ (end.open # <<>> \/ end.str)

-----------------------------------------------------------------------------
(***************************************************************************)
(* The code.                                                               *)
(***************************************************************************)

\* No object: None, or LLMJSONError.
Nothing == <<>>

Positions(text, c) == {i \in 1 .. Len(text) : text[i] = c}

\* Faulty variant: the last brace, text.rfind("{").
LastBrace(text) == Max(Positions(text, "{"))

\* text.find("{")
FirstBrace(text) == Min(Positions(text, "{"))

\* Faulty variant: a quotation mark ends a string even when it is escaped.
ScanNoEscape(st, c) ==
  CASE c = "q"               -> [st EXCEPT !.str = ~@]
    [] c = "{" /\ ~st.str    -> [st EXCEPT !.depth = @ + 1]
    [] c = "}" /\ ~st.str    -> [st EXCEPT !.depth = @ - 1]
    [] OTHER                 -> st

\* One character of the loop of _outermost_object.
ScanChar(st, c) ==
  CASE st.esc                            -> [st EXCEPT !.esc = FALSE]
    [] ~st.esc /\ c = "b"                -> [st EXCEPT !.esc = TRUE]
    [] ~st.esc /\ c = "q"                -> [st EXCEPT !.str = ~@]
    [] ~st.esc /\ c = "{" /\ ~st.str     -> [st EXCEPT !.depth = @ + 1]
    [] ~st.esc /\ c = "}" /\ ~st.str     -> [st EXCEPT !.depth = @ - 1]
    [] OTHER                             -> st

ScanFrom(text, start) ==
  LET scan[i \in start - 1 .. Len(text)] ==
        IF i < start THEN [depth |-> 0, str |-> FALSE, esc |-> FALSE]
        ELSE ScanChar(scan[i - 1], text[i])
  IN  scan

\* Faulty variant: a greedy match, up to the last closing brace.
ToLastBrace(text) ==
  IF Positions(text, "{") = {} \/ Positions(text, "}") = {} THEN Nothing
  ELSE SubSeq(text, FirstBrace(text), Max(Positions(text, "}")))

\* _outermost_object: from the first brace to where the depth returns to zero.
OutermostObject(text) ==
  IF Positions(text, "{") = {} THEN Nothing
  ELSE LET start == FirstBrace(text)
           scan  == ScanFrom(text, start)
           ends  == {i \in Positions(text, "}") :
                       i > start /\ scan[i].depth = 0 /\ scan[i - 1].depth = 1}
       IN  IF ends = {} THEN Nothing ELSE SubSeq(text, start, Min(ends))

\* The first fenced block: up to the next fence, with something in between.
FenceEnds(text) ==
  {j \in Positions(text, "f") : Min(Positions(text, "f")) + 2 <= j}

Fenced(text) == SubSeq(text, Min(Positions(text, "f")) + 1, Min(FenceEnds(text)) - 1)

Candidates(text) ==
  IF FenceEnds(text) = {} THEN <<text>> ELSE <<Fenced(text), text>>

\* A candidate ends the search: it holds an object, or JSON that is none.
Settles(c) == IsJson(c) \/ IsJson(OutermostObject(c))

ObjectIn(c) ==
  IF IsJson(c) THEN IF IsObject(c) THEN c ELSE Nothing ELSE OutermostObject(c)

\* extract_json_object
ExtractJsonObject(text) ==
  LET candidates == Candidates(text)
      settled    == {k \in DOMAIN candidates : Settles(candidates[k])}
  IN  IF settled = {} THEN Nothing ELSE ObjectIn(candidates[Min(settled)])

-----------------------------------------------------------------------------
(***************************************************************************)
(* What the scanner is to find, without a loop.                            *)
(***************************************************************************)

\* A character behind an odd number of backslashes.
Escaped(text, start, i) ==
  \E j \in start .. i :
    /\ (i - j) % 2 = 1
    /\ \A m \in j .. i - 1 : text[m] = "b"
    /\ j = start \/ text[j - 1] # "b"

InString(text, start, i) ==
  Cardinality({j \in start .. i - 1 : text[j] = "q" /\ ~Escaped(text, start, j)}) % 2 = 1

\* The braces of structure among the characters from start to i.
Braces(text, start, i, c) ==
  {j \in start .. i : text[j] = c /\ ~Escaped(text, start, j) /\ ~InString(text, start, j)}

BalancedAt(text, start, i) ==
  /\ i \in Braces(text, start, i, "}")
  /\ Cardinality(Braces(text, start, i, "{")) = Cardinality(Braces(text, start, i, "}"))

FirstBalanced(text) ==
  LET start == Min(Positions(text, "{"))
      ends  == {j \in Positions(text, "}") : start < j /\ BalancedAt(text, start, j)}
  IN  IF Positions(text, "{") = {} \/ ends = {} THEN Nothing
      ELSE SubSeq(text, start, Min(ends))
=============================================================================
