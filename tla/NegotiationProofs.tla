------------------------- MODULE NegotiationProofs -------------------------
(***************************************************************************)
(* Proofs about Negotiation, about the promise it is built on, and about   *)
(* the ResultPage whose button makes its requests: for any numbers of      *)
(* agents, requests, drafts and runs.                                      *)
(***************************************************************************)
EXTENDS ResultPage, TLAPS

-----------------------------------------------------------------------------
\* What a run has stored is there.
StoredRows == \A a \in stored : results[a] # NoRow

ContractInv == Contract!TypeOK /\ Contract!DoneIsFinal /\ StoredRows

LEMMA InitContract ==
  ASSUME Contract!Init
  PROVE  ContractInv
<1>1. \A a \in Agents : NoRow \in Contract!Rows(a)
  BY DEF Contract!Rows
<1>2. \A a \in Agents : results[a] \in Contract!Rows(a)
  BY <1>1 DEF Contract!Init
<1>3. results \in [Agents -> UNION {Contract!Rows(a) : a \in Agents}]
  BY <1>1 DEF Contract!Init
<1>4. QED
  BY <1>2, <1>3
  DEF Contract!Init, ContractInv, Contract!TypeOK, Contract!DoneIsFinal, StoredRows

\* The promise keeps its invariant.
LEMMA StepContract ==
  ASSUME ContractInv, Contract!Next
  PROVE  ContractInv'
<1> USE NegotiationAssumption
    DEF ContractInv, Contract!TypeOK, Contract!DoneIsFinal, Contract!Useful, StoredRows,
        Contract!RowsDiffer
<1>1. CASE Contract!Create
  BY <1>1 DEF Contract!Create
<1>2. CASE Contract!Claim
  BY <1>2 DEF Contract!Claim
<1>3. ASSUME NEW a \in Agents, Contract!Store(a) PROVE ContractInv'
  <2>1. PICK r \in Payload[a] \cup {Error} : results' = [results EXCEPT ![a] = r]
    BY <1>3 DEF Contract!Store
  <2>2. r \in Contract!Rows(a) /\ r # NoRow
    BY <2>1 DEF Contract!Rows
  <2>3. results' \in [Agents -> UNION {Contract!Rows(b) : b \in Agents}]
    BY <2>1, <2>2
  <2>4. \A b \in Agents : results'[b] = IF b = a THEN r ELSE results[b]
    BY <2>1
  <2>5. UNCHANGED status /\ status # "done" /\ running' \in BOOLEAN
    BY <1>3 DEF Contract!Store
  <2>6. stored' \subseteq stored \cup {a}
    BY <1>3 DEF Contract!Store
  <2>7. QED
    BY <2>2, <2>3, <2>4, <2>5, <2>6
<1>4. CASE Contract!Finish
  BY <1>4 DEF Contract!Finish
<1>5. CASE Contract!CutOff
  BY <1>5 DEF Contract!CutOff
<1>6. CASE Contract!Overwrite
  BY <1>6 DEF Contract!Overwrite
<1>7. QED
  BY <1>1, <1>2, <1>3, <1>4, <1>5, <1>6 DEF Contract!Next

LEMMA FrameContract ==
  ASSUME ContractInv, UNCHANGED <<status, results, running, stored>>
  PROVE  ContractInv'
  BY DEF ContractInv, Contract!TypeOK, Contract!DoneIsFinal, Contract!Useful, StoredRows

-----------------------------------------------------------------------------
\* What a request has done by the statement at which it stands.
Trail(r) ==
  /\ pc[r] \in {"load", "read", "send", "transmit"} =>
       outcome[r] = "none" /\ mailed[r] = 0 /\ row[r] = "none"
  /\ pc[r] \in {"quit", "record"} => outcome[r] # "none" /\ row[r] = "none"
  /\ pc[r] \in {"refresh", "answer"} => row[r] # "none"
  /\ row[r] # "none" => row[r] = outcome[r]
  /\ outcome[r] = "sent" => mailed[r] = 1
  /\ pc[r] # "end" => answer[r] = 0
  /\ answer[r] \in {404, 409} => row[r] = "none" /\ mailed[r] = 0
  /\ answer[r] = 502 => row[r] = "failed"
  /\ answer[r] = 200 => row[r] \in {"sent", "stub"}

\* While no further run has begun, the contract is as the request found it.
Fresh(r) ==
  /\ seen[r] <= analyses
  /\ seen[r] = analyses =>
       /\ pc[r] \notin {"load", "end"} => ~running
       /\ pc[r] \notin {"load", "read", "end"} => text[r] = Draft
       /\ mailed[r] = 1 => ~running /\ text[r] = Draft

RequestTypes ==
  /\ smtp \in BOOLEAN /\ recipient \in [Requests -> Recipients]
  /\ analyses \in 0 .. MaxAnalyses
  /\ pc \in [Requests -> {"load", "read", "send", "transmit", "quit", "record", "refresh",
                          "answer", "end"}]
  /\ text \in [Requests -> Payload["counter"]]
  /\ outcome \in [Requests -> Outcomes \cup {"none"}]
  /\ mailed \in [Requests -> 0 .. 1]
  /\ row \in [Requests -> Outcomes \cup {"none"}]
  /\ answer \in [Requests -> {0, 200, 404, 409, 500, 502}]
  /\ seen \in [Requests -> 0 .. MaxAnalyses]

IInv == ContractInv /\ RequestTypes /\ \A r \in Requests : Trail(r) /\ Fresh(r)

LEMMA DraftType ==
  ASSUME ContractInv
  PROVE  Draft \in Payload["counter"]
  BY NegotiationAssumption
  DEF ContractInv, Contract!TypeOK, Contract!Rows, Draft, TextOf

LEMMA TypesAreTypes == IInv => TypeOK
  BY DEF IInv, RequestTypes, ContractInv, TypeOK

-----------------------------------------------------------------------------
LEMMA InitIInv == Init => IInv
<1> SUFFICES ASSUME Init PROVE IInv
  OBVIOUS
<1>1. ContractInv
  BY InitContract DEF Init
<1>2. RequestTypes /\ \A r \in Requests : Trail(r) /\ Fresh(r)
  BY NegotiationAssumption DEF Init, RequestTypes, Trail, Fresh, Recipients, Outcomes
<1>3. QED
  BY <1>1, <1>2 DEF IInv

\* A step of one request leaves the others where they are.
LEMMA StepRequest ==
  ASSUME IInv, NEW r \in Requests, Step(r)
  PROVE  IInv'
<1>1. UNCHANGED contractVars
  BY DEF Step, Load, LoadFails, ReadDraft, ReadFails, SendNothing, Connect, Transmit, Quit,
         Record, RecordFails, Refresh, Finish, config
<1>2. ContractInv' /\ UNCHANGED <<running, Draft>>
  BY <1>1, FrameContract DEF IInv, contractVars, Draft
<1>3. Draft \in Payload["counter"] /\ (status = "done" => ~running)
  BY DraftType DEF IInv, ContractInv, Contract!DoneIsFinal
<1>4. RequestTypes' /\ \A q \in Requests : (Trail(q) /\ Fresh(q))'
  <2>0. /\ RequestTypes /\ \A q \in Requests : Trail(q) /\ Fresh(q)
        /\ UNCHANGED <<analyses, running>> /\ Draft' = Draft
    BY <1>1, <1>2 DEF IInv, contractVars
  <2> HIDE DEF Draft
  <2> USE <1>3, <2>0 DEF RequestTypes, Trail, Fresh, Outcomes, Goto, Respond, Unsent, config
  <2>1. CASE Load(r)
    BY <2>1 DEF Load, IsDone
  <2>2. CASE LoadFails(r)
    BY <2>2 DEF LoadFails
  <2>3. CASE ReadDraft(r)
    BY <2>3 DEF ReadDraft
  <2>4. CASE ReadFails(r)
    BY <2>4 DEF ReadFails
  <2>5. CASE SendNothing(r)
    BY <2>5 DEF SendNothing
  <2>6. CASE Connect(r)
    BY <2>6 DEF Connect
  <2>7. CASE Transmit(r)
    BY <2>7 DEF Transmit
  <2>8. CASE Quit(r)
    BY <2>8 DEF Quit
  <2>9. CASE Record(r)
    BY <2>9 DEF Record
  <2>10. CASE RecordFails(r)
    BY <2>10 DEF RecordFails
  <2>11. CASE Refresh(r)
    BY <2>11 DEF Refresh
  <2>12. CASE Finish(r)
    BY <2>12 DEF Finish
  <2>13. QED
    BY <2>1, <2>2, <2>3, <2>4, <2>5, <2>6, <2>7, <2>8, <2>9, <2>10, <2>11, <2>12 DEF Step
<1>5. QED
  BY <1>2, <1>4 DEF IInv

\* A step of the contract leaves the requests alone.
LEMMA StepPromise ==
  ASSUME IInv, Begin \/ Proceed
  PROVE  IInv'
<1>1. Contract!Next /\ UNCHANGED <<config, requestVars>>
  BY DEF Begin, Proceed, Contract!Next
<1>2. ContractInv'
  BY <1>1, StepContract DEF IInv
<1>3. \/ analyses' = analyses + 1 /\ analyses < MaxAnalyses
      \/ analyses' = analyses /\ (~running => ~(running') /\ Draft' = Draft)
  <2>1. CASE Begin
    BY <2>1 DEF Begin
  <2>2. CASE Proceed
    <3>1. analyses' = analyses
      BY <2>2 DEF Proceed
    <3>2. ~running => ~(running') /\ results' = results
      BY <2>2
      DEF Proceed, Contract!Create, Contract!Store, Contract!Finish, Contract!CutOff,
          Contract!Overwrite
    <3>3. QED
      BY <3>1, <3>2 DEF Draft
  <2>3. QED
    BY <2>1, <2>2
<1>4. RequestTypes' /\ \A r \in Requests : Trail(r)'
  BY <1>1, <1>3, NegotiationAssumption DEF IInv, RequestTypes, Trail, config, requestVars
<1>5. \A r \in Requests : Fresh(r)'
  BY <1>1, <1>3, NegotiationAssumption DEF IInv, RequestTypes, Fresh, requestVars
<1>6. QED
  BY <1>2, <1>4, <1>5 DEF IInv

LEMMA NextIInv ==
  ASSUME IInv, [Next]_vars
  PROVE  IInv'
<1>1. CASE Crash
  <2>1. UNCHANGED contractVars /\ UNCHANGED Draft /\ ContractInv'
    BY <1>1, FrameContract DEF Crash, contractVars, Draft, IInv
  <2>2. RequestTypes' /\ \A r \in Requests : (Trail(r) /\ Fresh(r))'
    BY <1>1, <2>1 DEF Crash, IInv, RequestTypes, Trail, Fresh, Unsent, config, contractVars
  <2>3. QED
    BY <2>1, <2>2 DEF IInv
<1>2. CASE UNCHANGED vars
  <2>1. UNCHANGED contractVars /\ UNCHANGED Draft /\ ContractInv'
    BY <1>2, FrameContract DEF vars, contractVars, Draft, IInv
  <2>2. RequestTypes' /\ \A r \in Requests : (Trail(r) /\ Fresh(r))'
    BY <1>2, <2>1 DEF vars, IInv, RequestTypes, Trail, Fresh, config, contractVars, requestVars
  <2>3. QED
    BY <2>1, <2>2 DEF IInv
<1>3. QED
  BY <1>1, <1>2, StepRequest, StepPromise DEF Next

THEOREM Invariance == Spec => []IInv
<1>1. Init => IInv
  BY InitIInv
<1>2. IInv /\ [Next]_vars => IInv'
  BY NextIInv
<1>3. QED
  BY <1>1, <1>2, PTL DEF Spec

\* Nobody sends a mail twice for one request, among other types.
THEOREM TypeCorrect == Spec => []TypeOK
<1>1. IInv => TypeOK
  BY TypesAreTypes
<1>2. QED
  BY <1>1, Invariance, PTL

\* A row `sent` has its mail.
THEOREM RowsAreTrue == Spec => []SentIsDelivered
<1>1. IInv => SentIsDelivered
  BY DEF IInv, Trail, SentIsDelivered
<1>2. QED
  BY <1>1, Invariance, PTL

\* The caller is told what is recorded.
THEOREM AnswersAreTrue == Spec => []AnswerIsTrue
<1>1. IInv => AnswerIsTrue
  BY DEF IInv, Trail, AnswerIsTrue
<1>2. QED
  BY <1>1, Invariance, PTL

\* What was mailed is the draft that stands, until a further run begins.
THEOREM MailsAreFinal == Spec => []MailIsTheDraft
<1>1. IInv => MailIsTheDraft
  BY DEF IInv, Fresh, MailIsTheDraft
<1>2. QED
  BY <1>1, Invariance, PTL

-----------------------------------------------------------------------------
(***************************************************************************)
(* The result page.                                                        *)
(***************************************************************************)

\* The requests of the page are requests of Negotiation.
LEMMA PageStepIsStep == [PageNext]_<<vars, pageVars>> => [Next]_vars
  BY DEF PageNext, Next, Press, AskResult, ReadRest, SwapResult, LosePoll

\* What is proved of Negotiation holds beside a page.
THEOREM PageRefinesNegotiation == PageSpec => Spec
<1>1. PageInit => Init
  BY DEF PageInit
<1>2. QED
  BY <1>1, PageStepIsStep, PTL DEF PageSpec, Spec

-----------------------------------------------------------------------------
AnyRow == UNION {Contract!Rows(a) : a \in Agents}

Views == [status : {"none", "uploaded", "processing", "done", "failed"},
          rows : [Agents -> AnyRow],
          run : 0 .. MaxAnalyses]

Offers == [status : {"none", "uploaded", "processing", "done", "failed"},
           run : 0 .. MaxAnalyses,
           draft : AnyRow \cup {NoDraft}]

PageTypes ==
  /\ shown \in Views
  /\ poll \in [reads : 0 .. 2, view : Views]
  /\ offered \in [Requests -> Offers]

\* A run that was seen to be done has left its rows, and until a further run
\* begins they stand.
Vouched(view) ==
  view.status = "done" =>
    /\ view.run <= analyses
    /\ \A a \in Agents : results[a] # NoRow
    /\ view.run = analyses => ~running /\ Contract!Useful

\* The rows were read behind the status.
RowsVouched(view) ==
  view.status = "done" =>
    /\ \A a \in Agents : view.rows[a] # NoRow
    /\ view.run = analyses => view.rows = results

\* A request has been pressed for before it begins; the draft of the page is the
\* one it reads.
OfferHolds(r) ==
  /\ offered[r] = NoOffer => pc[r] = "load"
  /\ offered[r].status = "done" =>
       /\ offered[r].run <= analyses
       /\ offered[r].run = analyses =>
            /\ ~running /\ offered[r].draft = Draft
            /\ pc[r] \notin {"load", "read", "end"} => text[r] = Draft
            /\ mailed[r] = 1 => text[r] = Draft

PageInv ==
  /\ IInv /\ PageTypes
  /\ Vouched(shown) /\ RowsVouched(shown)
  /\ Vouched(poll.view)
  /\ poll.reads = 2 => RowsVouched(poll.view)
  /\ \A r \in Requests : OfferHolds(r)

-----------------------------------------------------------------------------
LEMMA BlankType == Blank \in Views
<1>1. \A a \in Agents : NoRow \in AnyRow
  BY DEF AnyRow, Contract!Rows
<1>2. NoRows \in [Agents -> AnyRow]
  BY <1>1 DEF NoRows
<1>3. QED
  BY <1>2, NegotiationAssumption DEF Blank, Views

LEMMA InitPageInv == PageInit => PageInv
<1> SUFFICES ASSUME PageInit PROVE PageInv
  OBVIOUS
<1>1. IInv
  BY InitIInv DEF PageInit
<1>2. NoOffer \in Offers
  BY NegotiationAssumption DEF NoOffer, Offers
<1>3. PageTypes
  BY <1>2, BlankType DEF PageInit, PageTypes, NoPoll
<1>4. shown.status = "none" /\ poll.view.status = "none" /\ poll.reads = 0
  BY DEF PageInit, NoPoll, Blank
<1>5. \A r \in Requests : offered[r].status = "none" /\ pc[r] = "load"
  BY DEF PageInit, Init, NoOffer
<1>6. QED
  BY <1>1, <1>3, <1>4, <1>5 DEF PageInv, Vouched, RowsVouched, OfferHolds

\* How far the contract can get away from what was seen.
LEMMA ContractMoves ==
  ASSUME IInv, [Next]_vars
  PROVE  /\ \A a \in Agents : results[a] # NoRow => results'[a] # NoRow
         /\ \/ analyses' = analyses + 1
            \/ analyses' = analyses /\ (~running => ~(running') /\ results' = results)
<1> USE NegotiationAssumption DEF Contract!RowsDiffer
<1>1. CASE Begin
  BY <1>1 DEF Begin, Contract!Claim
<1>2. CASE Proceed
  <2>1. analyses' = analyses
    BY <1>2 DEF Proceed
  <2>2. ASSUME NEW a \in Agents, Contract!Store(a)
        PROVE  running /\ \A b \in Agents : results[b] # NoRow => results'[b] # NoRow
    <3>1. PICK r \in Payload[a] \cup {Error} : results' = [results EXCEPT ![a] = r]
      BY <2>2 DEF Contract!Store
    <3>2. r # NoRow
      BY <3>1
    <3>3. results \in [Agents -> AnyRow]
      BY DEF IInv, ContractInv, Contract!TypeOK, AnyRow
    <3>4. QED
      BY <2>2, <3>1, <3>2, <3>3 DEF Contract!Store
  <2>3. CASE Contract!Create \/ Contract!Finish \/ Contract!CutOff \/ Contract!Overwrite
    BY <2>1, <2>3
    DEF Contract!Create, Contract!Finish, Contract!CutOff, Contract!Overwrite
  <2>4. QED
    BY <1>2, <2>1, <2>2, <2>3 DEF Proceed
<1>3. CASE Crash \/ UNCHANGED vars
  BY <1>3 DEF Crash, vars, contractVars
<1>4. ASSUME NEW r \in Requests, Step(r) PROVE UNCHANGED contractVars
  BY <1>4 DEF Step, Load, LoadFails, ReadDraft, ReadFails, SendNothing, Connect, Transmit,
              Quit, Record, RecordFails, Refresh, Finish, config
<1>5. QED
  BY <1>1, <1>2, <1>3, <1>4 DEF Next, contractVars

\* What is vouched for once stays so.
LEMMA StaysVouched ==
  ASSUME IInv, [Next]_vars, NEW view \in Views
  PROVE  /\ Vouched(view) =>
              (view.status = "done" =>
                 /\ view.run <= analyses'
                 /\ \A a \in Agents : results'[a] # NoRow
                 /\ view.run = analyses' => ~(running') /\ Contract!Useful')
         /\ Vouched(view) /\ RowsVouched(view) =>
              (view.status = "done" =>
                 /\ \A a \in Agents : view.rows[a] # NoRow
                 /\ view.run = analyses' => view.rows = results')
<1>1. view.run \in Nat /\ analyses \in Nat
  BY NegotiationAssumption DEF Views, IInv, RequestTypes
<1>2. QED
  BY <1>1, ContractMoves DEF Vouched, RowsVouched, Contract!Useful

\* The status and the rows of this moment vouch for themselves.
LEMMA ReadNow ==
  ASSUME PageInv
  PROVE  /\ Read(Blank, "contract") \in Views /\ Vouched(Read(Blank, "contract"))
         /\ Read(poll.view, "rows") \in Views
         /\ Vouched(Read(poll.view, "rows")) /\ RowsVouched(Read(poll.view, "rows"))
<1>1. /\ status \in {"none", "uploaded", "processing", "done", "failed"}
      /\ results \in [Agents -> AnyRow] /\ analyses \in 0 .. MaxAnalyses
      /\ Contract!DoneIsFinal
  BY DEF PageInv, IInv, ContractInv, Contract!TypeOK, AnyRow, RequestTypes
<1>2. Blank \in Views /\ poll.view \in Views
  BY BlankType DEF PageInv, PageTypes
<1>3. Read(Blank, "contract") = [status |-> status, rows |-> NoRows, run |-> analyses]
  BY DEF Read, Blank
<1>4. Read(poll.view, "rows") = [status |-> poll.view.status, rows |-> results,
                                 run |-> poll.view.run]
  BY <1>2 DEF Read, Views
<1>5. NoRows \in [Agents -> AnyRow]
  BY <1>2 DEF Blank, Views
<1>6. Read(Blank, "contract") \in Views
  BY <1>1, <1>3, <1>5 DEF Views
<1>7. Vouched(Read(Blank, "contract"))
  <2>1. analyses \in Nat
    BY <1>1, NegotiationAssumption
  <2>2. QED
    BY <1>1, <1>3, <2>1 DEF Vouched, Contract!DoneIsFinal
<1>8. Read(poll.view, "rows") \in Views
  BY <1>1, <1>2, <1>4 DEF Views
<1>9. Vouched(Read(poll.view, "rows")) /\ RowsVouched(Read(poll.view, "rows"))
  <2>1. Vouched(poll.view)
    BY DEF PageInv
  <2>2. QED
    BY <1>4, <2>1 DEF Vouched, RowsVouched
<1>10. QED
  BY <1>6, <1>7, <1>8, <1>9

LEMMA RenderedView ==
  ASSUME NEW view \in Views, Vouched(view), RowsVouched(view)
  PROVE  Rendered(view) \in Views /\ Vouched(Rendered(view)) /\ RowsVouched(Rendered(view))
<1>1. NoRows \in [Agents -> AnyRow]
  BY BlankType DEF Blank, Views
<1>2. CASE view.status = "failed"
  <2>1. Rendered(view) = [view EXCEPT !.rows = NoRows]
    BY <1>2 DEF Rendered
  <2>2. Rendered(view) \in Views /\ Rendered(view).status = "failed"
    BY <1>1, <1>2, <2>1 DEF Views
  <2>3. QED
    BY <2>2 DEF Vouched, RowsVouched
<1>3. CASE view.status # "failed"
  BY <1>3 DEF Rendered
<1>4. QED
  BY <1>2, <1>3
-----------------------------------------------------------------------------
\* The request of the page is one of Negotiation and begins after the click.
LEMMA StepOffer ==
  ASSUME PageInv, PageNext, NEW r \in Requests, UNCHANGED offered
  PROVE  OfferHolds(r)'
<1> USE DEF PageInv
<1>1. [Next]_vars
  BY PageStepIsStep
<1>2. /\ offered[r].run \in Nat /\ analyses \in Nat
      /\ pc \in [Requests -> {"load", "read", "send", "transmit", "quit", "record", "refresh",
                             "answer", "end"}]
      /\ mailed[r] \in 0 .. 1
  <2>1. offered[r] \in Offers
    BY DEF PageTypes
  <2>2. offered[r].run \in 0 .. MaxAnalyses
    BY <2>1 DEF Offers
  <2>3. QED
    BY <2>2, NegotiationAssumption DEF IInv, RequestTypes
<1>3. \/ analyses' = analyses + 1
      \/ analyses' = analyses /\ (~running => ~(running') /\ Draft' = Draft)
  BY <1>1, ContractMoves DEF Draft
<1>4. OfferHolds(r) /\ Trail(r)
  BY DEF IInv
<1>5. CASE UNCHANGED <<pc[r], text[r], mailed[r]>>
  BY <1>2, <1>3, <1>4, <1>5 DEF OfferHolds
<1>6. CASE Crash
  <2>1. UNCHANGED <<text, mailed, analyses, running>> /\ Draft' = Draft
    BY <1>6 DEF Crash, Unsent, contractVars, Draft
  <2>2. pc'[r] = IF pc[r] = "load" THEN "load" ELSE "end"
    BY <1>6 DEF Crash
  <2>3. QED
    BY <1>4, <2>1, <2>2 DEF OfferHolds
<1>7. CASE offered[r] # NoOffer /\ Step(r)
  <2>1. UNCHANGED <<analyses, running>> /\ Draft' = Draft
    BY <1>7 DEF Step, Load, LoadFails, ReadDraft, ReadFails, SendNothing, Connect, Transmit,
                Quit, Record, RecordFails, Refresh, Finish, contractVars, Draft
  <2>2. /\ pc'[r] \notin {"load", "read", "end"} /\ pc[r] \in {"load", "read", "end"} =>
             pc[r] = "read" /\ text'[r] = Draft
        /\ pc[r] # "read" => text'[r] = text[r]
        /\ mailed'[r] # mailed[r] => pc[r] \notin {"load", "read", "end"}
        /\ pc[r] = "read" => mailed'[r] = 0
    <3>0. /\ text \in [Requests -> Payload["counter"]] /\ mailed \in [Requests -> 0 .. 1]
          /\ pc[r] \in {"load", "read"} => mailed[r] = 0
      BY <1>4 DEF IInv, RequestTypes, Trail
    <3> HIDE DEF PageInv
    <3> USE <1>2, <3>0 DEF Goto, Respond, Unsent
    <3>1. CASE Load(r)
      BY <3>1 DEF Load
    <3>2. CASE LoadFails(r)
      BY <3>2 DEF LoadFails
    <3>3. CASE ReadDraft(r)
      BY <3>3 DEF ReadDraft
    <3>4. CASE ReadFails(r)
      BY <3>4 DEF ReadFails
    <3>5. CASE SendNothing(r)
      BY <3>5 DEF SendNothing
    <3>6. CASE Connect(r)
      BY <3>6 DEF Connect
    <3>7. CASE Transmit(r)
      BY <3>7 DEF Transmit
    <3>8. CASE Quit(r)
      BY <3>8 DEF Quit
    <3>9. CASE Record(r)
      BY <3>9 DEF Record
    <3>10. CASE RecordFails(r)
      BY <3>10 DEF RecordFails
    <3>11. CASE Refresh(r)
      BY <3>11 DEF Refresh
    <3>12. CASE Finish(r)
      BY <3>12 DEF Finish
    <3>13. QED
      BY <1>7, <3>1, <3>2, <3>3, <3>4, <3>5, <3>6, <3>7, <3>8, <3>9, <3>10, <3>11, <3>12
      DEF Step
  <2>3. QED
    BY <1>4, <1>7, <2>1, <2>2 DEF OfferHolds
<1>8. \/ UNCHANGED <<pc[r], text[r], mailed[r]>>
      \/ Crash
      \/ offered[r] # NoOffer /\ Step(r)
  <2>1. ASSUME NEW q \in Requests, q # r, Step(q)
        PROVE  UNCHANGED <<pc[r], text[r], mailed[r]>>
    <3>0. /\ text \in [Requests -> Payload["counter"]] /\ mailed \in [Requests -> 0 .. 1]
      BY DEF IInv, RequestTypes
    <3> HIDE DEF PageInv
    <3> USE <1>2, <2>1, <3>0 DEF Goto, Respond, Unsent
    <3>1. CASE Load(q) \/ LoadFails(q) \/ ReadDraft(q) \/ ReadFails(q)
      BY <3>1 DEF Load, LoadFails, ReadDraft, ReadFails
    <3>2. CASE SendNothing(q) \/ Connect(q)
      BY <3>2 DEF SendNothing, Connect
    <3>3. CASE Transmit(q)
      BY <3>3 DEF Transmit
    <3>4. CASE Quit(q) \/ Record(q) \/ RecordFails(q) \/ Refresh(q) \/ Finish(q)
      BY <3>4 DEF Quit, Record, RecordFails, Refresh, Finish
    <3>5. QED
      BY <2>1, <3>1, <3>2, <3>3, <3>4 DEF Step
  <2>2. CASE Begin \/ Proceed
    BY <2>2 DEF Begin, Proceed, requestVars
  <2>3. CASE UNCHANGED vars
    BY <2>3 DEF vars, requestVars
  <2>4. QED
    BY <2>1, <2>2, <2>3
    DEF PageNext, Press, AskResult, ReadRest, SwapResult, LosePoll
<1>9. QED
  BY <1>5, <1>6, <1>7, <1>8
\* The page keeps what it shows and reads, while the contract moves on.
LEMMA StepKeepsViews ==
  ASSUME PageInv, [PageNext]_<<vars, pageVars>>, NEW view \in Views, Vouched(view)
  PROVE  /\ view.status = "done" =>
              /\ view.run <= analyses'
              /\ \A a \in Agents : results'[a] # NoRow
              /\ view.run = analyses' => ~(running') /\ Contract!Useful'
         /\ RowsVouched(view) /\ view.status = "done" =>
              /\ \A a \in Agents : view.rows[a] # NoRow
              /\ view.run = analyses' => view.rows = results'
  BY PageStepIsStep, StaysVouched DEF PageInv

LEMMA FrameInv ==
  ASSUME PageInv, [PageNext]_<<vars, pageVars>>, UNCHANGED pageVars
  PROVE  PageTypes' /\ Vouched(shown)' /\ RowsVouched(shown)' /\ Vouched(poll.view)'
         /\ (poll.reads = 2 => RowsVouched(poll.view))'
<1>1. /\ shown \in Views /\ poll.view \in Views
      /\ UNCHANGED <<shown, poll, offered>> /\ PageTypes
  BY DEF PageInv, PageTypes, pageVars
<1>2. PageTypes'
  BY <1>1 DEF PageTypes
<1>3. Vouched(shown)' /\ RowsVouched(shown)'
  BY <1>1, StepKeepsViews DEF PageInv, Vouched, RowsVouched
<1>4. Vouched(poll.view)'
  BY <1>1, StepKeepsViews DEF PageInv, Vouched
<1>5. (poll.reads = 2 => RowsVouched(poll.view))'
  BY <1>1, StepKeepsViews DEF PageInv, RowsVouched
<1>6. QED
  BY <1>2, <1>3, <1>4, <1>5

\* The click takes the draft of the page along.
LEMMA StepPress ==
  ASSUME PageInv, NEW r \in Requests, Press(r)
  PROVE  PageInv'
<1>1. /\ UNCHANGED <<vars, shown, stopped, poll>> /\ PageTypes /\ IInv
      /\ analyses \in Nat /\ shown.run \in Nat
  <2>1. shown.run \in 0 .. MaxAnalyses
    BY DEF PageInv, PageTypes, Views
  <2>2. QED
    BY <2>1, NegotiationAssumption DEF Press, PageInv, IInv, RequestTypes
<1>2. IInv'
  BY <1>1, NextIInv
<1>3. /\ UNCHANGED <<status, results, running, analyses, pc, text, mailed>> /\ Draft' = Draft
      /\ Contract!Useful' = Contract!Useful
  BY <1>1 DEF vars, contractVars, requestVars, Draft, Contract!Useful
<1>4. DEFINE offer == [status |-> shown.status, run |-> shown.run,
                       draft |-> TextOf(shown.rows["counter"])]
<1>5. offered' = [offered EXCEPT ![r] = offer] /\ offered[r] = NoOffer
  BY DEF Press
<1>6. offer \in Offers
  <2>1. shown.rows["counter"] \in AnyRow
    BY NegotiationAssumption DEF PageInv, PageTypes, Views
  <2>2. /\ shown.status \in {"none", "uploaded", "processing", "done", "failed"}
        /\ shown.run \in 0 .. MaxAnalyses
    BY DEF PageInv, PageTypes, Views
  <2>3. QED
    BY <2>1, <2>2 DEF Offers, TextOf
<1>7. PageTypes'
  BY <1>1, <1>5, <1>6 DEF PageTypes
<1>8. /\ Vouched(shown)' /\ RowsVouched(shown)' /\ Vouched(poll.view)'
      /\ (poll.reads = 2 => RowsVouched(poll.view))'
  BY <1>1, <1>3 DEF PageInv, Vouched, RowsVouched
<1>9. ASSUME NEW q \in Requests PROVE OfferHolds(q)'
  <2>1. CASE q # r
    <3>1. offered'[q] = offered[q] /\ OfferHolds(q)
      BY <1>1, <1>5, <2>1 DEF PageInv, PageTypes
    <3>2. QED
      BY <1>3, <3>1 DEF OfferHolds
  <2>2. CASE q = r
    <3>1. offered'[r] = offer
      BY <1>1, <1>5 DEF PageTypes
    <3>2. pc[r] = "load" /\ mailed[r] = 0
      BY <1>1, <1>5 DEF PageInv, OfferHolds, IInv, Trail
    <3>3. shown.status = "done" =>
            /\ shown.run <= analyses
            /\ shown.run = analyses => ~running /\ shown.rows = results
      BY DEF PageInv, Vouched, RowsVouched
    <3>4. offered'[r].status = shown.status /\ offered'[r].run = shown.run
          /\ offered'[r].draft = TextOf(shown.rows["counter"])
      BY <3>1
    <3>5. QED
      BY <1>3, <2>2, <3>2, <3>3, <3>4 DEF OfferHolds, Draft
  <2>3. QED
    BY <2>1, <2>2
<1>10. QED
  BY <1>2, <1>7, <1>8, <1>9 DEF PageInv

\* A statement of the partial, or its answer.
LEMMA StepPoll ==
  ASSUME PageInv, AskResult \/ ReadRest \/ SwapResult \/ LosePoll
  PROVE  PageInv'
<1>1. UNCHANGED <<vars, offered>>
  BY DEF AskResult, ReadRest, SwapResult, LosePoll
<1>2. IInv'
  BY <1>1, NextIInv DEF PageInv
<1>3. \A r \in Requests : OfferHolds(r)'
  <2>1. UNCHANGED <<running, analyses, pc, text, mailed, offered>> /\ Draft' = Draft
    BY <1>1 DEF vars, contractVars, requestVars, Draft
  <2>2. QED
    BY <2>1 DEF PageInv, OfferHolds
<1>4. UNCHANGED <<results, running, analyses>> /\ Contract!Useful' = Contract!Useful
  BY <1>1 DEF vars, contractVars, Contract!Useful
<1>5. /\ shown \in Views /\ poll \in [reads : 0 .. 2, view : Views]
      /\ offered \in [Requests -> Offers]
      /\ Vouched(shown) /\ RowsVouched(shown) /\ Vouched(poll.view)
  BY DEF PageInv, PageTypes
<1>6. /\ NoPoll \in [reads : 0 .. 2, view : Views] /\ NoPoll.reads = 0
      /\ NoPoll.view.status = "none"
  BY BlankType DEF NoPoll, Blank
<1>7. ASSUME shown' \in Views, poll' \in [reads : 0 .. 2, view : Views],
             Vouched(shown'), RowsVouched(shown'), Vouched(poll'.view),
             poll'.reads = 2 => RowsVouched(poll'.view)
      PROVE  PageInv'
  BY <1>1, <1>2, <1>3, <1>4, <1>5, <1>7 DEF PageInv, PageTypes, Vouched, RowsVouched
<1>8. CASE AskResult
  <2>1. UNCHANGED shown /\ poll' = [reads |-> 1, view |-> Read(Blank, "contract")]
    BY <1>8 DEF AskResult, PartialResult
  <2>2. poll'.reads = 1 /\ poll'.view = Read(Blank, "contract")
    BY <2>1
  <2>3. Read(Blank, "contract") \in Views /\ Vouched(Read(Blank, "contract"))
    BY ReadNow
  <2>4. poll' \in [reads : 0 .. 2, view : Views]
    BY <2>1, <2>3
  <2>5. Vouched(poll'.view)
    BY <2>2, <2>3
  <2>6. QED
    BY <1>5, <1>7, <2>1, <2>2, <2>4, <2>5
<1>9. CASE ReadRest
  <2>1. UNCHANGED shown /\ poll' = [reads |-> 2, view |-> Read(poll.view, "rows")]
    BY <1>9 DEF ReadRest, PartialResult
  <2>2. poll'.reads = 2 /\ poll'.view = Read(poll.view, "rows")
    BY <2>1
  <2>3. /\ Read(poll.view, "rows") \in Views
        /\ Vouched(Read(poll.view, "rows")) /\ RowsVouched(Read(poll.view, "rows"))
    BY ReadNow
  <2>4. poll' \in [reads : 0 .. 2, view : Views]
    BY <2>1, <2>3
  <2>5. Vouched(poll'.view) /\ RowsVouched(poll'.view)
    BY <2>2, <2>3
  <2>6. QED
    BY <1>5, <1>7, <2>1, <2>2, <2>4, <2>5
<1>10. CASE SwapResult
  <2>1. shown' = Rendered(poll.view) /\ poll' = NoPoll
    BY <1>10 DEF SwapResult
  <2>2. poll.view \in Views /\ Vouched(poll.view) /\ RowsVouched(poll.view)
    BY <1>5, <1>10 DEF SwapResult, PageInv
  <2>3. /\ Rendered(poll.view) \in Views
        /\ Vouched(Rendered(poll.view)) /\ RowsVouched(Rendered(poll.view))
    BY <2>2, RenderedView
  <2>4. shown' \in Views /\ Vouched(shown') /\ RowsVouched(shown')
    BY <2>1, <2>3
  <2>5. Vouched(poll'.view) /\ poll'.reads = 0 /\ poll' \in [reads : 0 .. 2, view : Views]
    BY <1>6, <2>1 DEF Vouched
  <2>6. QED
    BY <1>7, <2>4, <2>5
<1>11. CASE LosePoll
  <2>1. poll' = NoPoll /\ UNCHANGED shown
    BY <1>11 DEF LosePoll
  <2>2. Vouched(poll'.view) /\ poll'.reads = 0 /\ poll' \in [reads : 0 .. 2, view : Views]
    BY <1>6, <2>1 DEF Vouched
  <2>3. QED
    BY <1>5, <1>7, <2>1, <2>2
<1>12. QED
  BY <1>8, <1>9, <1>10, <1>11

LEMMA NextPageInv ==
  ASSUME PageInv, [PageNext]_<<vars, pageVars>>
  PROVE  PageInv'
<1>1. ASSUME PageNext, UNCHANGED pageVars PROVE PageInv'
  <2>1. IInv'
    BY <1>1, PageStepIsStep, NextIInv DEF PageInv
  <2>2. \A r \in Requests : OfferHolds(r)'
    BY <1>1, StepOffer DEF pageVars
  <2>3. QED
    BY <1>1, <2>1, <2>2, FrameInv DEF PageInv
<1>2. CASE UNCHANGED <<vars, pageVars>>
  <2>1. IInv'
    BY <1>2, NextIInv DEF PageInv
  <2>2. UNCHANGED <<running, analyses, pc, text, mailed, offered>> /\ Draft' = Draft
    BY <1>2 DEF vars, contractVars, requestVars, pageVars, Draft
  <2>3. \A r \in Requests : OfferHolds(r)'
    BY <2>2 DEF PageInv, OfferHolds
  <2>4. QED
    BY <1>2, <2>1, <2>3, FrameInv DEF PageInv
<1>3. QED
  BY <1>1, <1>2, StepPress, StepPoll DEF PageNext

-----------------------------------------------------------------------------
\* The strengthening holds in every reachable state.
THEOREM PageInvariance == PageSpec => []PageInv
<1>1. PageInit => PageInv
  BY InitPageInv
<1>2. PageInv /\ [PageNext]_<<vars, pageVars>> => PageInv'
  BY NextPageInv
<1>3. QED
  BY <1>1, <1>2, PTL DEF PageSpec

\* A page that shows a contract as done shows a row of every agent, and until a
\* further run begins these are the rows that stand.
THEOREM DonePagesAreComplete == PageSpec => []DonePageIsComplete
<1>1. PageInv => DonePageIsComplete
  BY DEF PageInv, Vouched, RowsVouched, DonePageIsComplete
<1>2. QED
  BY <1>1, PageInvariance, PTL

\* The button of a page that shows the contract as done mails the text of that
\* page, unless the contract is analysed again.
THEOREM MailsAreWhatWasShown == PageSpec => []MailIsWhatWasShown
<1>1. PageInv => MailIsWhatWasShown
  BY DEF PageInv, OfferHolds, MailIsWhatWasShown
<1>2. QED
  BY <1>1, PageInvariance, PTL
=============================================================================
