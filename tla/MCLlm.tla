------------------------------- MODULE MCLlm -------------------------------
(***************************************************************************)
(* Replies for the model checking of LlmClient.                            *)
(***************************************************************************)
EXTENDS LlmClient

\* Every reply of at most three characters.
ShortReplies == SeqOf(Chars, 3)

Objects(inner) == {doc \in {<<"{">> \o s \o <<"}">> : s \in inner} : IsObject(doc)}

Before == {<<>>, <<"x">>, <<"q">>, <<"}">>, <<"f">>, <<"{">>, <<"{", "f">>}
After == {<<>>, <<"x">>, <<"}">>, <<"f">>}

\* Objects that hold anything short, or a string with escapes and braces.
Docs ==
  Objects(SeqOf(Chars, 3) \cup {<<"q">> \o s \o <<"q">> : s \in SeqOf({"b", "q", "}"}, 3)})

\* Prose, quotation marks, braces and fences around them.
Wrapped == {pre \o doc \o post : pre \in Before, post \in After, doc \in Docs}

\* Objects cut off.
Cut == UNION {Prefixes(doc) : doc \in Objects(SeqOf(Chars, 4))}

\* Objects with a fence in their string.
FenceInString ==
  Objects({<<"q">> \o s \o <<"q">> : s \in SeqOf({"{", "}", "f", "x"}, 4)})

MCReplies == ShortReplies \cup Wrapped \cup Cut \cup FenceInString
=============================================================================
