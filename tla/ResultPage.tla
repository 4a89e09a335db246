----------------------------- MODULE ResultPage -----------------------------
(***************************************************************************)
(* The result page of a contract in one browser tab                        *)
(* (templates/result.html, static/app.js), the partials it polls           *)
(* (api/routes_pages.py), and the button that sends the draft, beside the  *)
(* contract as ContractPromise lets it change.                             *)
(*                                                                         *)
(* The result partial reads the contract, then its rows, in two statements *)
(* of READ COMMITTED, and its answer is swapped in later still.  The first *)
(* terminal status that the result area shows takes the timers off the     *)
(* page; a request under way is not taken back, and what is left of the    *)
(* trigger is htmx's default, a click.                                     *)
(***************************************************************************)
EXTENDS Negotiation

VARIABLES
  shown,    \* the view that #result-inner shows
  stopped,  \* _stopped of resultApp
  poll,     \* the request of #result-inner: the statements read and its view
  offered   \* what the page showed when the button of a request was pressed

pageVars == <<shown, stopped, poll, offered>>

NoRows == [a \in Agents |-> NoRow]

\* What the partial is rendered from, and the run to which its status belongs.
Blank == [status |-> "none", rows |-> NoRows, run |-> 0]

NoOffer == [status |-> "none", run |-> 0, draft |-> NoDraft]

NoPoll == [reads |-> 0, view |-> Blank]

PageInit ==
  /\ Init
  /\ shown = Blank /\ stopped = FALSE
  /\ poll = NoPoll
  /\ offered = [r \in Requests |-> NoOffer]

-----------------------------------------------------------------------------
Verdict == {"done", "failed"}

\* Faulty variant: any answer will do, as when the word "selesai" was looked for.
CheckProse(view) == stopped' = TRUE

\* checkTerminal, after a swap: it looks at the marker of the result area.
CheckTerminal(view) == stopped' = (stopped \/ view.status \in Verdict)

\* Faulty variant: the rows are read first.
RowsFirst == <<"rows", "contract">>

\* The statements of the handler of GET /partials/{id}/result.
PartialResult == <<"contract", "rows">>

Read(view, statement) ==
  CASE statement = "contract" -> [view EXCEPT !.status = status, !.run = analyses]
    [] statement = "rows" -> [view EXCEPT !.rows = results]

\* By the timer or by a click.
AskResult ==
  /\ poll.reads = 0 /\ status # "none"
  /\ poll' = [reads |-> 1, view |-> Read(Blank, PartialResult[1])]
  /\ UNCHANGED <<vars, shown, stopped, offered>>

ReadRest ==
  /\ poll.reads = 1
  /\ poll' = [reads |-> 2, view |-> Read(poll.view, PartialResult[2])]
  /\ UNCHANGED <<vars, shown, stopped, offered>>

\* Faulty variant: cards on the page are left as they are.
CardsPreserved(view) ==
  IF view.status = "failed" THEN [view EXCEPT !.rows = NoRows]
  ELSE IF shown.rows = NoRows THEN view ELSE [view EXCEPT !.rows = shown.rows]

\* A contract that failed shows no cards.
Rendered(view) == IF view.status = "failed" THEN [view EXCEPT !.rows = NoRows] ELSE view

SwapResult ==
  /\ poll.reads = 2
  /\ shown' = Rendered(poll.view)
  /\ poll' = NoPoll
  /\ CheckTerminal(shown')
  /\ UNCHANGED <<vars, offered>>

\* An answer is lost, or is an error, which htmx does not swap.
LosePoll ==
  /\ "net" \in Faults
  /\ poll # NoPoll
  /\ poll' = NoPoll
  /\ UNCHANGED <<vars, shown, stopped, offered>>

\* The button is on the card of a draft, which is shown as soon as its row is
\* there, done or not.
Press(r) ==
  /\ offered[r] = NoOffer
  /\ shown.rows["counter"] \notin {NoRow, Error}
  /\ offered' = [offered EXCEPT ![r] = [status |-> shown.status, run |-> shown.run,
                                       draft |-> TextOf(shown.rows["counter"])]]
  /\ UNCHANGED <<vars, shown, stopped, poll>>

PageNext ==
  \/ Begin /\ UNCHANGED pageVars
  \/ Proceed /\ UNCHANGED pageVars
  \/ Crash /\ UNCHANGED pageVars
  \/ \E r \in Requests :
       \/ Press(r)
       \/ offered[r] # NoOffer /\ Step(r) /\ UNCHANGED pageVars
  \/ AskResult \/ ReadRest \/ SwapResult
  \/ LosePoll

PageSpec == PageInit /\ [][PageNext]_<<vars, pageVars>>

(***************************************************************************)
(* Until it is stopped the result area asks every three seconds; the       *)
(* server answers, and the network does not lose every answer.             *)
(***************************************************************************)
Polling ==
  /\ WF_<<vars, pageVars>>(~stopped /\ AskResult)
  /\ SF_<<vars, pageVars>>(ReadRest)
  /\ SF_<<vars, pageVars>>(SwapResult)

FairPageSpec == PageSpec /\ Polling

-----------------------------------------------------------------------------
\* A page that shows a contract as done shows a row of every agent, whatever
\* becomes of the contract between the two statements: the branch "Menyusun
\* hasil" of the template is never taken.  Until a further run begins these are
\* the rows that stand, a result among them.
DonePageIsComplete ==
  shown.status = "done" =>
    /\ \A a \in Agents : shown.rows[a] # NoRow
    /\ shown.run = analyses => shown.rows = results /\ Contract!Useful

\* Who presses the button on a page that shows the contract as done sends the
\* text that the page shows, unless it is analysed again.
MailIsWhatWasShown ==
  \A r \in Requests :
    mailed[r] = 1 /\ offered[r].status = "done" /\ offered[r].run = analyses =>
      text[r] = offered[r].draft

\* The page does not stop before it has shown the verdict: app.js:104-108.
PageShowsVerdict == <>[](status \in Verdict) => <>(shown.status \in Verdict)
=============================================================================
