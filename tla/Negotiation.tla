---------------------------- MODULE Negotiation ----------------------------
(***************************************************************************)
(* Sending the counter-draft: POST /contracts/{id}/send                    *)
(* (api/routes_negotiate.py) and the delivery by SMTP                      *)
(* (services/mailer.py), for the requests about one contract.              *)
(*                                                                         *)
(* A request reads the contract and the draft in one transaction (READ     *)
(* COMMITTED: each statement sees what is committed by then), delivers in  *)
(* a thread, and commits a row of negotiation_sends.  Meanwhile other      *)
(* requests do the same, and the contract is analysed, perhaps several     *)
(* times, as ContractPromise allows.                                       *)
(***************************************************************************)
EXTENDS Naturals, FiniteSets

CONSTANTS
  Agents, Payload, Error, NoRow,  \* of ContractPromise; "counter" is agent C
  NoDraft,      \* the empty text: no row, an error, or no text in the row
  Requests,     \* POST requests, a double click among them
  MaxAnalyses,  \* bound on the runs of the contract
  Faults        \* what may fail: the database, the mail server, the process, the network

VARIABLES
  status, results, running, stored,  \* of the contract, see ContractPromise
  analyses,   \* runs begun
  smtp,       \* whether SMTP_HOST is set
  recipient,  \* the address of a request: see Recipients
  pc,         \* the statement at which a request stands
  text,       \* counter_draft_text of a request
  outcome,    \* outcome["status"] of a request
  mailed,     \* mails of a request that the SMTP server accepted
  row,        \* the row of a request in negotiation_sends: its status
  answer,     \* the HTTP status of a request
  seen        \* the run whose contract the request found `done`

Contract == INSTANCE ContractPromise

ASSUME NegotiationAssumption ==
  /\ Contract!RowsDiffer
  /\ "counter" \in Agents /\ NoDraft \in Payload["counter"]
  /\ MaxAnalyses \in Nat \ {0}
  /\ Faults \subseteq {"db", "smtp", "crash", "net"}

config == <<smtp, recipient>>
contractVars == <<status, results, running, stored, analyses>>
requestVars == <<pc, text, outcome, mailed, row, answer, seen>>
vars == <<config, contractVars, requestVars>>

\* The text of a row of agent C; the payloads of its rows are their texts.
TextOf(r) == IF r \in {NoRow, Error} THEN NoDraft ELSE r

Draft == TextOf(results["counter"])

\* An address is longer than the column when it is refused for its length, and
\* also when the mailer strips its leading blanks and the row keeps them.
Recipients == {"valid", "padded", "invalid", "oversized"}

Valid == {"valid", "padded"}

TooLong == {"padded", "oversized"}

Outcomes == {"stub", "sent", "failed"}

TypeOK ==
  /\ smtp \in BOOLEAN /\ recipient \in [Requests -> Recipients]
  /\ Contract!TypeOK
  /\ analyses \in 0 .. MaxAnalyses
  /\ pc \in [Requests -> {"load", "read", "send", "transmit", "quit", "record", "refresh",
                          "answer", "end"}]
  /\ text \in [Requests -> Payload["counter"]]
  /\ outcome \in [Requests -> Outcomes \cup {"none"}]
  /\ mailed \in [Requests -> 0 .. 1]
  /\ row \in [Requests -> Outcomes \cup {"none"}]
  /\ answer \in [Requests -> {0, 200, 404, 409, 500, 502}]
  /\ seen \in [Requests -> 0 .. MaxAnalyses]

Init ==
  /\ smtp \in BOOLEAN /\ recipient \in [Requests -> Recipients]
  /\ Contract!Init /\ analyses = 0
  /\ pc = [r \in Requests |-> "load"]
  /\ text = [r \in Requests |-> NoDraft]
  /\ outcome = [r \in Requests |-> "none"]
  /\ mailed = [r \in Requests |-> 0]
  /\ row = outcome
  /\ answer = mailed /\ seen = mailed

-----------------------------------------------------------------------------
\* A run takes the contract.
Begin ==
  /\ analyses < MaxAnalyses
  /\ Contract!Claim
  /\ analyses' = analyses + 1
  /\ UNCHANGED <<config, requestVars>>

\* Whatever else the pipeline does to it.
Proceed ==
  /\ \/ Contract!Create
     \/ \E a \in Agents : Contract!Store(a)
     \/ Contract!Finish
     \/ Contract!CutOff
     \/ Contract!Overwrite
  /\ UNCHANGED <<config, analyses, requestVars>>

-----------------------------------------------------------------------------
(***************************************************************************)
(* The request.                                                            *)
(***************************************************************************)
Goto(r, label) == pc' = [pc EXCEPT ![r] = label]

\* The handler ends with an answer.
Respond(r, code) ==
  /\ Goto(r, "end")
  /\ answer' = [answer EXCEPT ![r] = code]

Unsent == <<outcome, mailed, row>>

\* Faulty variant: a run that has stored its draft is as good as done.
LooksDone == status = "done" \/ Draft # NoDraft

\* contract.status.value == "done"
IsDone == status = "done"

\* load_owned_contract and the check of the status, without an await between.
Load(r) ==
  /\ pc[r] = "load" /\ status # "none"
  /\ seen' = [seen EXCEPT ![r] = analyses]
  /\ \/ IsDone /\ Goto(r, "read") /\ UNCHANGED answer
     \/ ~IsDone /\ Respond(r, 409)
  /\ UNCHANGED <<config, contractVars, text, Unsent>>

\* Whatever goes wrong in the lookup is answered as an unknown contract.
LoadFails(r) ==
  /\ pc[r] = "load" /\ "db" \in Faults
  /\ Respond(r, 404)
  /\ UNCHANGED <<config, contractVars, text, Unsent, seen>>

ReadDraft(r) ==
  /\ pc[r] = "read"
  /\ text' = [text EXCEPT ![r] = Draft]
  /\ Goto(r, "send")
  /\ UNCHANGED <<config, contractVars, Unsent, answer, seen>>

ReadFails(r) ==
  /\ pc[r] = "read" /\ "db" \in Faults
  /\ Respond(r, 500)
  /\ UNCHANGED <<config, contractVars, text, Unsent, seen>>

\* send_counter_draft returns before there is a connection.
SendNothing(r) ==
  /\ pc[r] = "send"
  /\ \/ ~smtp /\ outcome' = [outcome EXCEPT ![r] = "stub"]
     \/ /\ smtp
        /\ recipient[r] \notin Valid \/ "smtp" \in Faults
        /\ outcome' = [outcome EXCEPT ![r] = "failed"]
  /\ Goto(r, "record")
  /\ UNCHANGED <<config, contractVars, text, mailed, row, answer, seen>>

\* A session with the server: connection, STARTTLS, login.
Connect(r) ==
  /\ pc[r] = "send" /\ smtp /\ recipient[r] \in Valid
  /\ Goto(r, "transmit")
  /\ UNCHANGED <<config, contractVars, text, Unsent, answer, seen>>

\* client.send_message.  When it raises, the server may have taken the mail.
Transmit(r) ==
  /\ pc[r] = "transmit"
  /\ \/ /\ mailed' = [mailed EXCEPT ![r] = @ + 1]
        /\ outcome' = [outcome EXCEPT ![r] = "sent"]
     \/ /\ "smtp" \in Faults
        /\ outcome' = [outcome EXCEPT ![r] = "failed"]
        /\ mailed' \in {mailed, [mailed EXCEPT ![r] = @ + 1]}
  /\ Goto(r, "quit")
  /\ UNCHANGED <<config, contractVars, text, row, answer, seen>>

\* Faulty variant: the exception of send_message is lost in the finally clause.
QuitReturns(r) ==
  /\ pc[r] = "quit"
  /\ outcome' = [outcome EXCEPT ![r] = "sent"]
  /\ Goto(r, "record")
  /\ UNCHANGED <<config, contractVars, text, mailed, row, answer, seen>>

\* Faulty variant: a failed delivery is answered before it is recorded.
QuitRaises(r) ==
  /\ pc[r] = "quit"
  /\ Goto(r, IF outcome[r] = "failed" THEN "answer" ELSE "record")
  /\ UNCHANGED <<config, contractVars, text, Unsent, answer, seen>>

\* client.quit, or close when it fails: no matter for the outcome.
Quit(r) ==
  /\ pc[r] = "quit"
  /\ Goto(r, "record")
  /\ UNCHANGED <<config, contractVars, text, Unsent, answer, seen>>

\* The row is inserted and committed, whatever the outcome.
Record(r) ==
  /\ pc[r] = "record" /\ recipient[r] \notin TooLong
  /\ row' = [row EXCEPT ![r] = outcome[r]]
  /\ Goto(r, "refresh")
  /\ UNCHANGED <<config, contractVars, text, outcome, mailed, answer, seen>>

\* The insert is refused, or the commit raises, having reached the database or not.
RecordFails(r) ==
  /\ pc[r] = "record"
  /\ \/ (recipient[r] \in TooLong \/ "db" \in Faults) /\ UNCHANGED row
     \/ /\ recipient[r] \notin TooLong /\ "db" \in Faults
        /\ row' = [row EXCEPT ![r] = outcome[r]]
  /\ Respond(r, 500)
  /\ UNCHANGED <<config, contractVars, text, outcome, mailed, seen>>

\* The row is read back in a new transaction.
Refresh(r) ==
  /\ pc[r] = "refresh"
  /\ \/ Goto(r, "answer") /\ UNCHANGED answer
     \/ "db" \in Faults /\ Respond(r, 500)
  /\ UNCHANGED <<config, contractVars, text, Unsent, seen>>

Finish(r) ==
  /\ pc[r] = "answer"
  /\ Respond(r, IF outcome[r] = "failed" THEN 502 ELSE 200)
  /\ UNCHANGED <<config, contractVars, text, Unsent, seen>>

\* The API process dies: what was under way is never answered.
Crash ==
  /\ "crash" \in Faults
  /\ pc' = [r \in Requests |-> IF pc[r] = "load" THEN "load" ELSE "end"]
  /\ UNCHANGED <<config, contractVars, text, Unsent, answer, seen>>

Step(r) ==
  \/ Load(r) \/ LoadFails(r) \/ ReadDraft(r) \/ ReadFails(r)
  \/ SendNothing(r) \/ Connect(r) \/ Transmit(r) \/ Quit(r)
  \/ Record(r) \/ RecordFails(r) \/ Refresh(r) \/ Finish(r)

Next == Begin \/ Proceed \/ Crash \/ \E r \in Requests : Step(r)

Spec == Init /\ [][Next]_vars

-----------------------------------------------------------------------------
(***************************************************************************)
(* Properties.                                                             *)
(***************************************************************************)

\* The trail never claims a mail that did not leave: a row `sent` has its mail,
\* through whatever QUIT and the commit go wrong afterwards.
SentIsDelivered == \A r \in Requests : row[r] = "sent" => mailed[r] = 1

\* What the caller is told agrees with what is recorded and what was sent: a
\* refusal (404, 409) stands for nothing at all, 502 and 200 for a row of theirs.
AnswerIsTrue ==
  \A r \in Requests :
    /\ answer[r] \in {404, 409} => row[r] = "none" /\ mailed[r] = 0
    /\ answer[r] = 502 => row[r] = "failed"
    /\ answer[r] = 200 => row[r] \in {"sent", "stub"}

\* Unless the contract is being analysed again, the mail holds the draft that
\* stands in it: no half-finished run is sent.
MailIsTheDraft ==
  \A r \in Requests : mailed[r] = 1 /\ seen[r] = analyses => text[r] = Draft

-----------------------------------------------------------------------------
(***************************************************************************)
(* What the repository says of the route and the code does not keep.       *)
(***************************************************************************)

\* README.md:262: the record is always written, whether the delivery succeeds
\* or fails.  The column takes 256 characters and gets the address as it came:
\* of a longer one no record remains, whether the mailer has refused it or has
\* stripped it and delivered the mail.
AttemptIsRecorded ==
  \A r \in Requests : pc[r] = "end" /\ outcome[r] # "none" => row[r] # "none"
=============================================================================
