----------------------------- MODULE LlmClient -----------------------------
(***************************************************************************)
(* One agent's call of the model (services/llm_client.py):                 *)
(* chat_completion_json, which asks for JSON mode, falls back to a plain   *)
(* request when the provider rejects that, and asks again after a reply    *)
(* without a JSON object.  Below it the OpenAI SDK sends each request      *)
(* again after a timeout, a lost connection, a 429 or a 5xx.               *)
(*                                                                         *)
(* The three agents of a run call in two phases (agents A and B together,  *)
(* then C), each as here.  Time is counted in LLM timeouts: what a         *)
(* provider answers costs nothing, what it leaves unanswered costs one.    *)
(***************************************************************************)
EXTENDS LlmReply, FiniteSets

CONSTANTS
  Replies,      \* what a provider may answer, cut off or not
  MaxRetries,   \* llm_max_retries, of the SDK
  JsonRetries,  \* llm_json_retries
  JobTimeout    \* JOB_TIMEOUT, in LLM timeouts

\* Agents A and B wait together, C after them.
Phases == 2

\* The waits of a job for a provider that hangs end before the job does.
ASSUME ClientAssumption ==
  /\ Replies \subseteq Seq(Chars)
  /\ MaxRetries \in Nat /\ JsonRetries \in Int /\ JobTimeout \in Nat
  /\ Phases * (MaxRetries + 1) < JobTimeout

VARIABLES
  pc,        \* "ask", "parse", "done", "failed"
  attempt,   \* of chat_completion_json
  plain,     \* the request goes without response_format
  tries,     \* what the SDK has sent again of this request
  raw,       \* the reply being parsed
  found,     \* what extract_json_object makes of it
  spent,     \* LLM timeouts waited for a provider that has not answered yet
  answered   \* whether the provider has answered anything

vars == <<pc, attempt, plain, tries, raw, found, spent, answered>>

\* attempts = max(1, llm_json_retries + 1)
Attempts == Max({1, JsonRetries + 1})

TypeOK ==
  /\ pc \in {"ask", "parse", "done", "failed"}
  /\ attempt \in 1 .. Attempts
  /\ plain \in BOOLEAN /\ answered \in BOOLEAN
  /\ tries \in 0 .. MaxRetries
  /\ raw \in Seq(Chars) /\ found \in Seq(Chars)
  /\ spent \in 0 .. Attempts * 2 * (MaxRetries + 1)

Init ==
  /\ pc = "ask" /\ attempt = 1 /\ plain = FALSE /\ tries = 0
  /\ raw = Nothing /\ found = Nothing
  /\ spent = 0 /\ answered = FALSE

-----------------------------------------------------------------------------
\* A new request, in JSON mode or plain.
Ask(n, mode) ==
  /\ pc' = "ask" /\ attempt' = n /\ plain' = mode /\ tries' = 0
  /\ raw' = Nothing /\ found' = Nothing

Fail ==
  /\ pc' = "failed"
  /\ raw' = Nothing /\ found' = Nothing
  /\ UNCHANGED <<attempt, plain, tries>>

\* Faulty variant: any exception costs an attempt instead of ending the call.
RaiseAndRetry(named) ==
  \/ ~plain /\ named /\ Ask(attempt, TRUE)
  \/ (plain \/ ~named) /\ attempt < Attempts /\ Ask(attempt + 1, FALSE)
  \/ (plain \/ ~named) /\ attempt = Attempts /\ Fail

\* Faulty variant: the plain request falls back as well.
RaiseForever(named) == (named /\ Ask(attempt, TRUE)) \/ (~named /\ Fail)

\* chat_completion raises.  An error that names response_format or json_object
\* is taken for a rejection of JSON mode; from a plain request it goes up.
Raise(named) ==
  \/ ~plain /\ named /\ Ask(attempt, TRUE)
  \/ (plain \/ ~named) /\ Fail

\* The SDK sends the request again or gives up.
SdkRetry(named) ==
  \/ /\ tries < MaxRetries
     /\ tries' = tries + 1
     /\ UNCHANGED <<pc, attempt, plain, raw, found>>
  \/ tries = MaxRetries /\ Raise(named)

\* The provider does not answer in time: APITimeoutError.
Hang ==
  /\ pc = "ask"
  /\ SdkRetry(FALSE)
  /\ spent' = IF answered THEN 0 ELSE spent + 1
  /\ UNCHANGED answered

Answered == answered' = TRUE /\ spent' = 0

\* It answers with an error the SDK retries, or with one it does not.
Refuse(named) ==
  /\ pc = "ask"
  /\ SdkRetry(named) \/ Raise(named)
  /\ Answered

Reply(text) ==
  /\ pc = "ask"
  /\ pc' = "parse"
  /\ raw' = text
  /\ found' = ExtractJsonObject(text)
  /\ Answered
  /\ UNCHANGED <<attempt, plain, tries>>

\* The reply holds an object: it is returned.
Accept ==
  /\ pc = "parse" /\ found # Nothing
  /\ pc' = "done"
  /\ raw' = Nothing
  /\ UNCHANGED <<attempt, plain, tries, found, spent, answered>>

\* LLMJSONError: the model is asked again, in JSON mode, or the call gives up.
Reject ==
  /\ pc = "parse" /\ found = Nothing
  /\ \/ attempt < Attempts /\ Ask(attempt + 1, FALSE)
     \/ attempt = Attempts /\ Fail
  /\ UNCHANGED <<spent, answered>>

Next ==
  \/ Hang
  \/ \E named \in BOOLEAN : Refuse(named)
  \/ \E text \in Replies : Reply(text)
  \/ Accept \/ Reject

\* The SDK's timeout ends every wait, so that the call always goes on.
Spec == Init /\ [][Next]_vars /\ WF_vars(Next)

-----------------------------------------------------------------------------
(***************************************************************************)
(* Properties.                                                             *)
(***************************************************************************)

Ended == pc \in {"done", "failed"}

\* However the provider mixes silence, errors, rejections of JSON mode and
\* useless replies, the call ends.
CallEnds == <>Ended

\* config.py:20: a provider that hangs surfaces as failed agents and not as a
\* job cut off by RQ: the waits of both phases together stay below JOB_TIMEOUT.
HangingSurfaces == ~answered => Phases * spent < JobTimeout

\* The brace counter finds the first object that is balanced outside of
\* strings, whatever quotation marks, escapes and braces are around it.
ScannerFindsFirst == pc = "parse" => OutermostObject(raw) = FirstBalanced(raw)

NoFence == Positions(raw, "f") = {}

\* An object among prose without braces, or alone between two fences.
Stands(i, j) ==
  \/ NoFence /\ (\A k \in 1 .. i - 1 : raw[k] # "{") /\ ~IsJson(raw)
  \/ Positions(raw, "f") = {i - 1, j + 1}

\* extract_json_object's three failure modes: fences, a preamble, trailing
\* commentary.  The object in them is what is returned.
ProseIsStripped ==
  pc = "parse" =>
    \A i, j \in 1 .. Len(raw) :
      i <= j /\ IsObject(SubSeq(raw, i, j)) /\ Stands(i, j)
        => found = SubSeq(raw, i, j)

\* A reply cut off at max_tokens is not taken for a smaller one, not even when
\* it holds whole objects (without fences, that is).
CutNeverAccepted ==
  pc = "parse" /\ NoFence /\ IsCutObject(raw) => found = Nothing

-----------------------------------------------------------------------------
(***************************************************************************)
(* What the repository says of the client and the code does not keep.      *)
(***************************************************************************)

\* llm_client.py:93: LLMJSONError is raised "if nothing parseable is found".  A
\* reply that is a JSON object is refused when one of its strings holds a
\* fenced block of other JSON, and an object fenced in a string replaces it.
ObjectReplyAccepted ==
  pc = "parse" /\ IsObject(raw) => found = raw
=============================================================================
