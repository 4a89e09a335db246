------------------------- MODULE ContractLifecycle -------------------------
(***************************************************************************)
(* The life of an uploaded contract: the upload route, the Redis queue,    *)
(* the RQ workers that run the orchestrator, the WhatsApp notification at  *)
(* the end of a run, and the reaper that fails whatever got stuck.         *)
(*                                                                         *)
(* Every action is one transaction, one Redis call or one provider call of *)
(* the code, so the actors interleave exactly where the program lets go of *)
(* the database.  The LLM agents, the PDF text and the wording of errors   *)
(* are abstracted to their outcome.  Time is a discrete clock: Tick lets   *)
(* one unit pass for every row's `updated_at`, every transaction of an     *)
(* upload handler and every running job.                                   *)
(***************************************************************************)
EXTENDS Naturals, Sequences

CONSTANTS
  Contracts,      \* uploads the run may make, one contract row each
  Workers,        \* RQ worker processes
  NoContract,     \* job of an idle worker
  NotifyOptIn,    \* contracts uploaded with the WhatsApp box ticked
  JobTimeout,     \* from here on RQ's SIGALRM may strike a job (queue.JOB_TIMEOUT)
  HardLimit,      \* here RQ's parent process has killed the work horse
  StuckTimeout,   \* settings.stuck_contract_timeout_seconds
  MaxRequeues,    \* how often an operator requeues one failed job
  Faults          \* the faults the environment may inject

(***************************************************************************)
(* The order of the three limits is the one the code relies on: 600 s for  *)
(* the alarm, 60 s and a monitoring interval more for the kill, 900 s for  *)
(* the reaper (services/queue.py:22, config.py:113-118).                   *)
(***************************************************************************)
ASSUME LimitsAssumption ==
  /\ JobTimeout \in Nat /\ HardLimit \in Nat /\ StuckTimeout \in Nat
  /\ 0 < JobTimeout /\ JobTimeout <= HardLimit /\ HardLimit < StuckTimeout

ASSUME ConstantsAssumption ==
  /\ NoContract \notin Contracts
  /\ NotifyOptIn \subseteq Contracts
  /\ MaxRequeues \in Nat

FaultKinds == {"redisDown", "ackLost", "flush", "db", "crash"}

ASSUME FaultsAssumption == Faults \subseteq FaultKinds

VARIABLES
  \* the contracts table
  status,      \* contracts.status, "none" before the row exists
  error,       \* contracts.error
  age,         \* time since contracts.updated_at while the row is stuck, up to AgeCap
  \* the analysis_results and whatsapp_sends tables
  results,     \* outcome stored for each contract and agent
  sentRows,    \* number of whatsapp_sends rows with status 'sent'
  \* upload handlers, Redis and RQ
  upload,      \* where the upload handler of the contract stands
  opened,      \* how long its second transaction has been, or was, open, up to AgeCap
  queue,       \* RQ's list of waiting jobs, a job being named by its contract
  failedJobs,  \* RQ's registry of jobs that did not return
  requeues,    \* how often the operator requeued the contract's job
  \* worker processes
  pc,          \* next statement of run_analysis
  job,         \* the contract the worker analyses
  clock,       \* time since the job started
  got,         \* outcomes of the agents in this run
  \* the WhatsApp provider
  delivered    \* messages the provider accepted for the contract

table == <<status, error, age>>
httpVars == <<upload, opened, queue, failedJobs, requeues>>
runVars == <<pc, job, clock, got>>
notifyVars == <<sentRows, delivered>>
vars == <<table, results, httpVars, runVars, notifyVars>>

-----------------------------------------------------------------------------
Agents == {"risk", "tax", "counter"}

\* Faulty variant: the reaper only knows rows that a worker had claimed.
StuckProcessingOnly == {"processing"}

Stuck == {"uploaded", "processing"}

Terminal == {"done", "failed"}

AgeCap == StuckTimeout + 1

NoOutcome == [a \in Agents |-> "none"]

\* Statements of run_analysis behind the commit of status `processing`.
AfterClaim == {"agents", "saveRisk", "saveTax", "counter", "saveCounter", "final"}

\* Statements of _maybe_send_whatsapp.
Notifying == {"notify", "send", "audit"}

Statuses == {"none", "uploaded", "processing", "done", "failed"}

Errors == {"none", "enqueue", "reaped"}

Outcomes == {"none", "ok", "error"}

UploadStates == {"idle", "enqueue", "accepted", "refused", "over"}

\* The handler holds its second transaction.
InTransaction == {"enqueue", "accepted", "refused"}

Labels == {"idle", "claim", "fatal", "leave"} \cup AfterClaim \cup Notifying

Ages == 0 .. AgeCap

Clocks == 0 .. HardLimit

RowTypes ==
  /\ status \in [Contracts -> Statuses]
  /\ error \in [Contracts -> Errors]
  /\ age \in [Contracts -> Ages]

StoreTypes ==
  /\ results \in [Contracts -> [Agents -> Outcomes]]
  /\ sentRows \in [Contracts -> Nat]
  /\ delivered \in [Contracts -> Nat]

HttpTypes ==
  /\ upload \in [Contracts -> UploadStates]
  /\ opened \in [Contracts -> Ages]
  /\ queue \in Seq(Contracts)
  /\ failedJobs \subseteq Contracts
  /\ requeues \in [Contracts -> Nat]

RunTypes ==
  /\ pc \in [Workers -> Labels]
  /\ job \in [Workers -> Contracts \cup {NoContract}]
  /\ \A w \in Workers : pc[w] = "idle" <=> job[w] = NoContract
  /\ clock \in [Workers -> Clocks]
  /\ got \in [Workers -> [Agents -> Outcomes]]

TypeOK == RowTypes /\ StoreTypes /\ HttpTypes /\ RunTypes

Init ==
  /\ status = [c \in Contracts |-> "none"]
  /\ error = [c \in Contracts |-> "none"]
  /\ age = [c \in Contracts |-> 0]
  /\ results = [c \in Contracts |-> NoOutcome]
  /\ sentRows = [c \in Contracts |-> 0]
  /\ upload = [c \in Contracts |-> "idle"]
  /\ opened = age
  /\ queue = <<>>
  /\ failedJobs = {}
  /\ requeues = [c \in Contracts |-> 0]
  /\ pc = [w \in Workers |-> "idle"]
  /\ job = [w \in Workers |-> NoContract]
  /\ clock = [w \in Workers |-> 0]
  /\ got = [w \in Workers |-> NoOutcome]
  /\ delivered = [c \in Contracts |-> 0]

-----------------------------------------------------------------------------
(***************************************************************************)
(* The upload route (api/routes_upload.py).  Validation has no effect on   *)
(* shared state; the handler starts here with an accepted contract.        *)
(***************************************************************************)

\* The row is committed as `uploaded` before anything is queued, and read back
\* in a second transaction, which stays open until the handler commits again.
Upload(c) ==
  /\ upload[c] = "idle"
  /\ upload' = [upload EXCEPT ![c] = "enqueue"]
  /\ status' = [status EXCEPT ![c] = "uploaded"]
  /\ age' = [age EXCEPT ![c] = 0]
  /\ UNCHANGED <<error, opened, results, queue, failedJobs, requeues, runVars, notifyVars>>

\* Redis takes the job and says so.
EnqueueAccepted(c) ==
  /\ upload[c] = "enqueue"
  /\ upload' = [upload EXCEPT ![c] = "accepted"]
  /\ queue' = Append(queue, c)
  /\ UNCHANGED <<table, opened, results, failedJobs, requeues, runVars, notifyVars>>

\* Redis cannot be reached: EnqueueError, and no job exists.
EnqueueRefused(c) ==
  /\ upload[c] = "enqueue"
  /\ "redisDown" \in Faults
  /\ upload' = [upload EXCEPT ![c] = "refused"]
  /\ UNCHANGED <<table, opened, results, queue, failedJobs, requeues, runVars, notifyVars>>

\* Faulty variant: the handler enqueues again when the answer is lost.
EnqueueTwice(c) ==
  /\ upload[c] = "enqueue"
  /\ "ackLost" \in Faults
  /\ upload' = [upload EXCEPT ![c] = "accepted"]
  /\ queue' = Append(Append(queue, c), c)
  /\ UNCHANGED <<table, opened, results, failedJobs, requeues, runVars, notifyVars>>

\* Redis takes the job, but its answer is lost in the 5 s socket timeout: the
\* handler sees the same EnqueueError.
EnqueueAckLost(c) ==
  /\ upload[c] = "enqueue"
  /\ "ackLost" \in Faults
  /\ upload' = [upload EXCEPT ![c] = "refused"]
  /\ queue' = Append(queue, c)
  /\ UNCHANGED <<table, opened, results, failedJobs, requeues, runVars, notifyVars>>

\* The last commit of a good upload stores the job id, and with it updated_at
\* becomes now(): in PostgreSQL the time at which the transaction began, which
\* was before the enqueue and so before any claim.
CommitJobId(c) ==
  /\ upload[c] = "accepted"
  /\ upload' = [upload EXCEPT ![c] = "over"]
  /\ age' = [age EXCEPT ![c] = opened[c]]
  /\ UNCHANGED <<status, error, opened, results, queue, failedJobs, requeues, runVars, notifyVars>>

\* After an EnqueueError the handler fails the row whatever its status is now.
CommitEnqueueFailed(c) ==
  /\ upload[c] = "refused"
  /\ upload' = [upload EXCEPT ![c] = "over"]
  /\ status' = [status EXCEPT ![c] = "failed"]
  /\ error' = [error EXCEPT ![c] = "enqueue"]
  /\ age' = [age EXCEPT ![c] = opened[c]]
  /\ UNCHANGED <<opened, results, queue, failedJobs, requeues, runVars, notifyVars>>

\* The API process dies, or the database refuses the second commit.
UploadAborts(c) ==
  /\ upload[c] \in {"enqueue", "accepted", "refused"}
  /\ "crash" \in Faults
  /\ upload' = [upload EXCEPT ![c] = "over"]
  /\ UNCHANGED <<table, opened, results, queue, failedJobs, requeues, runVars, notifyVars>>

-----------------------------------------------------------------------------
(***************************************************************************)
(* RQ and Redis, as the code uses them.                                    *)
(***************************************************************************)

\* An idle worker takes the oldest job and starts _run_analysis_sync.
Dequeue(w) ==
  /\ pc[w] = "idle"
  /\ queue # <<>>
  /\ queue' = Tail(queue)
  /\ pc' = [pc EXCEPT ![w] = "claim"]
  /\ job' = [job EXCEPT ![w] = Head(queue)]
  /\ clock' = [clock EXCEPT ![w] = 0]
  /\ got' = [got EXCEPT ![w] = NoOutcome]
  /\ UNCHANGED <<table, results, upload, opened, failedJobs, requeues, notifyVars>>

\* The worker is idle again.
Rest(w) ==
  /\ pc' = [pc EXCEPT ![w] = "idle"]
  /\ job' = [job EXCEPT ![w] = NoContract]
  /\ clock' = [clock EXCEPT ![w] = 0]
  /\ got' = [got EXCEPT ![w] = NoOutcome]

\* Faulty variant: RQ is told to retry a job that did not return.
AbandonAndRetry(w) ==
  /\ Rest(w)
  /\ queue' = Append(queue, job[w])
  /\ UNCHANGED <<table, results, upload, opened, failedJobs, requeues, notifyVars>>

\* The run stops between two statements and RQ files the job as failed.
Abandon(w) ==
  /\ Rest(w)
  /\ failedJobs' = failedJobs \cup {job[w]}
  /\ UNCHANGED <<table, results, upload, opened, queue, requeues, notifyVars>>

\* Out of memory, a container restart, a lost host.
Crash(w) ==
  /\ pc[w] # "idle"
  /\ "crash" \in Faults
  /\ Abandon(w)

\* The alarm strikes outside every task and ends the event loop itself.
TimeoutEscapes(w) ==
  /\ pc[w] # "idle"
  /\ clock[w] >= JobTimeout
  /\ Abandon(w)

\* The parent process kills a work horse that outlived its timeout.
KillHorse(w) ==
  /\ pc[w] # "idle"
  /\ clock[w] = HardLimit
  /\ Abandon(w)

\* Redis restarts without its data: the waiting jobs are gone.
Flush ==
  /\ "flush" \in Faults
  /\ queue # <<>>
  /\ queue' = <<>>
  /\ UNCHANGED <<table, results, upload, opened, failedJobs, requeues, runVars, notifyVars>>

\* An operator puts a failed job back.
Requeue(c) ==
  /\ c \in failedJobs
  /\ requeues[c] < MaxRequeues
  /\ requeues' = [requeues EXCEPT ![c] = @ + 1]
  /\ failedJobs' = failedJobs \ {c}
  /\ queue' = Append(queue, c)
  /\ UNCHANGED <<table, results, upload, opened, runVars, notifyVars>>

-----------------------------------------------------------------------------
(***************************************************************************)
(* The orchestrator (agents/orchestrator.py).  A database statement may    *)
(* raise when the database fails or, past JobTimeout, when the alarm's     *)
(* exception strikes there; what it wrote may or may not be committed.     *)
(***************************************************************************)

MayRaise(w) == "db" \in Faults \/ clock[w] >= JobTimeout

Goto(w, label) ==
  /\ pc' = [pc EXCEPT ![w] = label]
  /\ UNCHANGED <<job, clock>>

\* Faulty variant: a status change that leaves updated_at as it was.
SetStatusKeepingAge(c, s) ==
  /\ status' = [status EXCEPT ![c] = s]
  /\ UNCHANGED <<error, age>>

\* _set_status: unconditional, and silent about contracts.error.
SetStatus(c, s) ==
  /\ status' = [status EXCEPT ![c] = s]
  /\ age' = [age EXCEPT ![c] = 0]
  /\ UNCHANGED error

\* _save_result: the upsert on (contract, agent).
SaveResult(c, a, outcome) ==
  results' = [results EXCEPT ![c][a] = outcome]

\* A transaction of run_analysis: it commits and the run goes on, or it raises
\* and the run ends in the outer `except Exception`.
Transaction(w, write, skip, next) ==
  \/ write /\ Goto(w, next)
  \/ MayRaise(w) /\ (write \/ skip) /\ Goto(w, "fatal")

\* Faulty variant: a finished contract is analysed again without a new claim.
ClaimUnlessDone(w) ==
  /\ pc[w] = "claim"
  /\ status[job[w]] # "done" => SetStatus(job[w], "processing")
  /\ status[job[w]] = "done" => UNCHANGED table
  /\ Goto(w, "agents")
  /\ UNCHANGED <<results, httpVars, got, notifyVars>>

\* Status `processing`, whatever the status was, then the contract is read.
Claim(w) ==
  /\ pc[w] = "claim"
  /\ Transaction(w, SetStatus(job[w], "processing"), UNCHANGED table, "agents")
  /\ UNCHANGED <<results, httpVars, got, notifyVars>>

\* Agents A and B return, in parallel and each on its own; an agent the alarm
\* strikes counts as failed.
RunAgentsAB(w) ==
  /\ pc[w] = "agents"
  /\ \E r, t \in {"ok", "error"} :
       got' = [got EXCEPT ![w]["risk"] = r, ![w]["tax"] = t]
  /\ Goto(w, "saveRisk")
  /\ UNCHANGED <<table, results, httpVars, notifyVars>>

\* _persist_agent for one agent; its failure is stored like its success.
Persist(w, a, here, next) ==
  /\ pc[w] = here
  /\ Transaction(w, SaveResult(job[w], a, got[w][a]), UNCHANGED results, next)
  /\ UNCHANGED <<table, httpVars, got, notifyVars>>

SaveRisk(w) == Persist(w, "risk", "saveRisk", "saveTax")

SaveTax(w) == Persist(w, "tax", "saveTax", "counter")

\* Agent C always runs, with empty findings for an agent that failed.
RunCounter(w) ==
  /\ pc[w] = "counter"
  /\ \E o \in {"ok", "error"} : got' = [got EXCEPT ![w]["counter"] = o]
  /\ Goto(w, "saveCounter")
  /\ UNCHANGED <<table, results, httpVars, notifyVars>>

SaveCounter(w) == Persist(w, "counter", "saveCounter", "final")

\* Faulty variant: every stored row counts, the failed ones too.
ProducedAnyRow(w) == \E a \in Agents : got[w][a] # "none"

ProducedAnything(w) == \E a \in Agents : got[w][a] = "ok"

FinishDone(w) ==
  /\ pc[w] = "final"
  /\ ProducedAnything(w)
  /\ Transaction(w, SetStatus(job[w], "done"), UNCHANGED table, "notify")
  /\ UNCHANGED <<results, httpVars, got, notifyVars>>

\* run_analysis returns; the job goes on until the engine is disposed of.
Return(w) ==
  /\ Goto(w, "leave")
  /\ got' = [got EXCEPT ![w] = NoOutcome]
  /\ UNCHANGED httpVars

\* Faulty variant: a run that failed is announced as well.
FinishFailedAloud(w) ==
  /\ pc[w] = "final"
  /\ ~ProducedAnything(w)
  /\ Transaction(w, SetStatus(job[w], "failed"), UNCHANGED table, "notify")
  /\ UNCHANGED <<results, httpVars, got, notifyVars>>

FinishFailed(w) ==
  /\ pc[w] = "final"
  /\ ~ProducedAnything(w)
  /\ \/ SetStatus(job[w], "failed") /\ Return(w)
     \/ /\ MayRaise(w)
        /\ SetStatus(job[w], "failed") \/ UNCHANGED table
        /\ Goto(w, "fatal")
        /\ UNCHANGED <<httpVars, got>>
  /\ UNCHANGED <<results, notifyVars>>

\* The outer handler: one attempt to write `failed`, else the row is left to
\* the reaper.
Fatal(w) ==
  /\ pc[w] = "fatal"
  /\ \/ SetStatus(job[w], "failed")
     \/ MayRaise(w) /\ UNCHANGED table
  /\ Return(w)
  /\ UNCHANGED <<results, notifyVars>>

-----------------------------------------------------------------------------
(***************************************************************************)
(* _maybe_send_whatsapp: check, send, then record, in three transactions;  *)
(* run_analysis swallows what it raises.                                   *)
(***************************************************************************)

\* Faulty variant: the audit table is not asked.
OptedIn(c) == c \in NotifyOptIn

MustNotify(c) == c \in NotifyOptIn /\ sentRows[c] = 0

CheckNotify(w) ==
  /\ pc[w] = "notify"
  /\ MustNotify(job[w])
  /\ Goto(w, "send")
  /\ UNCHANGED <<table, results, httpVars, got, notifyVars>>

\* Nothing to send, or the check itself raised.
SkipNotify(w) ==
  /\ pc[w] = "notify"
  /\ ~MustNotify(job[w]) \/ MayRaise(w)
  /\ Return(w)
  /\ UNCHANGED <<table, results, notifyVars>>

\* The provider accepted the message and the code knows it.
SendOk(w) ==
  /\ pc[w] = "send"
  /\ delivered' = [delivered EXCEPT ![job[w]] = @ + 1]
  /\ Goto(w, "audit")
  /\ UNCHANGED <<table, results, httpVars, got, sentRows>>

\* Faulty variant: a failed call is retried on the spot.
SendRetried(w) ==
  /\ pc[w] = "send"
  /\ \/ UNCHANGED delivered
     \/ delivered' = [delivered EXCEPT ![job[w]] = @ + 1]
  /\ Goto(w, "send")
  /\ UNCHANGED <<table, results, httpVars, got, sentRows>>

\* The outcome is `failed` or `stub`; a request that timed out may still have
\* been accepted.  The audit row it leaves is one nobody reads.
SendFailed(w) ==
  /\ pc[w] = "send"
  /\ \/ UNCHANGED delivered
     \/ delivered' = [delivered EXCEPT ![job[w]] = @ + 1]
  /\ Return(w)
  /\ UNCHANGED <<table, results, sentRows>>

\* The 'sent' row that makes the next run skip.
Audit(w) ==
  /\ pc[w] = "audit"
  /\ \/ sentRows' = [sentRows EXCEPT ![job[w]] = @ + 1]
     \/ MayRaise(w) /\ UNCHANGED sentRows
  /\ Return(w)
  /\ UNCHANGED <<table, results, delivered>>

\* The job is over and RQ forgets it.
Leave(w) ==
  /\ pc[w] = "leave"
  /\ Rest(w)
  /\ UNCHANGED <<table, results, httpVars, notifyVars>>

-----------------------------------------------------------------------------
(***************************************************************************)
(* The reaper (services/reaper.py): a single UPDATE over the whole table.  *)
(***************************************************************************)

Reapable(c) == status[c] \in Stuck /\ age[c] > StuckTimeout

Reap ==
  /\ \E c \in Contracts : Reapable(c)
  /\ status' = [c \in Contracts |-> IF Reapable(c) THEN "failed" ELSE status[c]]
  /\ error' = [c \in Contracts |-> IF Reapable(c) THEN "reaped" ELSE error[c]]
  /\ age' = [c \in Contracts |-> IF Reapable(c) THEN 0 ELSE age[c]]
  /\ UNCHANGED <<results, httpVars, runVars, notifyVars>>

\* RQ's parent process lets no job live past HardLimit.
WithinLimit(w) == pc[w] # "idle" => clock[w] < HardLimit

\* One unit of time.
Tick ==
  /\ \A w \in Workers : WithinLimit(w)
  /\ age' = [c \in Contracts |->
               IF status[c] \in Stuck /\ age[c] < AgeCap THEN age[c] + 1 ELSE age[c]]
  /\ opened' = [c \in Contracts |->
                  IF upload[c] \in InTransaction /\ opened[c] < AgeCap
                  THEN opened[c] + 1 ELSE opened[c]]
  /\ clock' = [w \in Workers |-> IF pc[w] = "idle" THEN 0 ELSE clock[w] + 1]
  /\ UNCHANGED <<status, error, results, upload, queue, failedJobs, requeues,
                 pc, job, got, notifyVars>>

-----------------------------------------------------------------------------
UploadStep(c) ==
  \/ Upload(c) \/ EnqueueAccepted(c) \/ EnqueueRefused(c) \/ EnqueueAckLost(c)
  \/ CommitJobId(c) \/ CommitEnqueueFailed(c) \/ UploadAborts(c)

RunStep(w) ==
  \/ Claim(w) \/ RunAgentsAB(w) \/ SaveRisk(w) \/ SaveTax(w)
  \/ RunCounter(w) \/ SaveCounter(w)
  \/ FinishDone(w) \/ FinishFailed(w) \/ Fatal(w)
  \/ CheckNotify(w) \/ SkipNotify(w) \/ SendOk(w) \/ SendFailed(w) \/ Audit(w)
  \/ Leave(w)

WorkerStep(w) ==
  \/ Dequeue(w) \/ RunStep(w)
  \/ Crash(w) \/ TimeoutEscapes(w) \/ KillHorse(w)

Next ==
  \/ \E c \in Contracts : UploadStep(c) \/ Requeue(c)
  \/ \E w \in Workers : WorkerStep(w)
  \/ Flush
  \/ Reap
  \/ Tick

Spec == Init /\ [][Next]_vars

(***************************************************************************)
(* Fairness: time passes, RQ kills a horse at its limit, and some reaper   *)
(* thread keeps sweeping (a failed sweep is retried after the interval).   *)
(* Nothing is assumed of the upload handlers, of Redis, of the workers'    *)
(* progress or of the operator.                                            *)
(***************************************************************************)
Fairness ==
  /\ WF_vars(Tick)
  /\ WF_vars(Reap)
  /\ \A w \in Workers : WF_vars(KillHorse(w))

FairSpec == Spec /\ Fairness

-----------------------------------------------------------------------------
(***************************************************************************)
(* Safety.                                                                 *)
(***************************************************************************)

Running(c) == \E w \in Workers : job[w] = c

Queued(c) == \E i \in 1 .. Len(queue) : queue[i] = c

HasResult(c) == \E a \in Agents : results[c][a] = "ok"

\* What the three limits leave for a handler between its two commits: 900 s
\* less 600 s and the 60 s and more until the kill.
Margin == StuckTimeout - HardLimit

\* The reaper is conservative (reaper.py:12-14): once a run has claimed its
\* contract, no sweep can fail that contract until the run lets go of it, unless
\* the upload handler held its transaction for longer than the margin.  Then the
\* commit of the job id puts updated_at back behind the claim by too much.
ClaimedJobNotReapable ==
  \A w \in Workers :
    pc[w] \in AfterClaim /\ Reapable(job[w]) => opened[job[w]] > Margin

\* No contract is analysed by two workers at once, or while it waits in the
\* queue: the unconditional writes of _set_status and _save_result rely on it.
OneRunAtATime ==
  \A v, w \in Workers :
    job[w] # NoContract => ~Queued(job[w]) /\ (job[v] = job[w] => v = w)

\* A page that sees `done` finds the row of every agent and at least one
\* useful result (orchestrator.py:192-194, partials/result.html).
DoneIsComplete ==
  \A c \in Contracts : status[c] = "done" =>
    /\ HasResult(c)
    /\ \A a \in Agents : results[c][a] # "none"

\* The rows of a contract do not change under a page that shows it as done:
\* a run that writes them has taken the status away first.
FrozenWhenDone ==
  [][\A c \in Contracts : status[c] = "done" => results'[c] = results[c]]_vars

\* Three things can take `done` away: the upload handler that believes its
\* enqueue failed, a run in its outer exception handler, and the claim of a
\* job that was put back; never the reaper, and never a first run.
DoneRevokedOnlyBy ==
  [][\A c \in Contracts :
       status[c] = "done" /\ status'[c] # "done" =>
         \/ upload[c] = "refused"
         \/ \E w \in Workers : job[w] = c /\ pc[w] = "fatal"
         \/ requeues[c] > 0 /\ \E w \in Workers : job[w] = c /\ pc[w] = "claim"]_vars

\* The check before sending keeps the 'sent' row unique, which
\* scalar_one_or_none in the same check needs (orchestrator.py:228-238).
OneSentRow == \A c \in Contracts : sentRows[c] <= 1

\* One run sends at most one message, whatever fails around the send.
OneMessagePerRun == \A c \in Contracts : delivered[c] <= 1 + requeues[c]

\* A message is about a contract that has a result to show, as long as the
\* job was not put back.
MessageHasResult ==
  \A c \in Contracts : delivered[c] > 0 /\ requeues[c] = 0 => HasResult(c)

-----------------------------------------------------------------------------
(***************************************************************************)
(* The inductive invariant behind the safety properties.                   *)
(***************************************************************************)

\* No job waits twice.
Distinct == \A i, j \in 1 .. Len(queue) : queue[i] = queue[j] => i = j

\* A contract has one job at most, and it is in one place: not yet queued,
\* waiting, run by one worker, or filed as failed.
OneJob ==
  /\ \A v, w \in Workers : job[w] # NoContract /\ job[v] = job[w] => v = w
  /\ \A w \in Workers :
       job[w] # NoContract => ~Queued(job[w]) /\ job[w] \notin failedJobs
  /\ Distinct
  /\ \A c \in failedJobs : ~Queued(c)
  /\ \A c \in Contracts : upload[c] \in {"idle", "enqueue"} =>
       ~Queued(c) /\ ~Running(c) /\ c \notin failedJobs

\* The row a run has claimed is no older than the run, or than the transaction
\* of its upload handler and the run together.
YoungClaim ==
  \A w \in Workers : pc[w] \in AfterClaim => age[job[w]] <= clock[w] + opened[job[w]]

\* Nobody marks a contract as done behind the back of its run.
ClaimTakesDone ==
  \A w \in Workers : pc[w] \in AfterClaim => status[job[w]] # "done"

\* The statements behind the commit of an agent's row.
PastRisk == {"saveTax", "counter", "saveCounter", "final"}
PastTax == {"counter", "saveCounter", "final"}

\* What the run holds in memory is what it has stored so far.
MemoryIsStored ==
  \A w \in Workers :
    /\ pc[w] \in PastRisk \cup {"saveRisk"} =>
         got[w]["risk"] # "none" /\ got[w]["tax"] # "none"
    /\ pc[w] \in {"saveCounter", "final"} => got[w]["counter"] # "none"
    /\ pc[w] \in PastRisk => results[job[w]]["risk"] = got[w]["risk"]
    /\ pc[w] \in PastTax => results[job[w]]["tax"] = got[w]["tax"]
    /\ pc[w] = "final" => results[job[w]]["counter"] = got[w]["counter"]

\* No run of the contract has been claimed yet.
NotStarted(c) ==
  \/ upload[c] \in {"idle", "enqueue"}
  \/ Queued(c)
  \/ \E w \in Workers : job[w] = c /\ pc[w] = "claim"

\* Before its first run is claimed a contract is new or failed, and nothing
\* can be put back before it was queued.
FirstRun ==
  \A c \in Contracts :
    /\ requeues[c] = 0 /\ NotStarted(c) => status[c] \notin {"processing", "done"}
    /\ upload[c] \in {"idle", "enqueue"} => requeues[c] = 0

\* A run that still may send a message.
MaySend(c) ==
  \/ NotStarted(c)
  \/ \E w \in Workers : job[w] = c /\ pc[w] \in AfterClaim \cup {"notify", "send"}

\* A run that may still send has not spent its message.
MessageBudget ==
  \A c \in Contracts :
    /\ delivered[c] <= 1 + requeues[c]
    /\ MaySend(c) => delivered[c] <= requeues[c]

\* A run that passed the check has seen no 'sent' row.
UnsentWhileSending ==
  \A w \in Workers : pc[w] \in {"send", "audit"} => sentRows[job[w]] = 0

\* A run that notifies has a result to show.
NotifyHasResult ==
  \A w \in Workers : pc[w] \in Notifying => HasResult(job[w])

IInv ==
  /\ TypeOK
  /\ OneJob
  /\ YoungClaim
  /\ ClaimTakesDone
  /\ MemoryIsStored
  /\ DoneIsComplete
  /\ FirstRun
  /\ MessageBudget
  /\ UnsentWhileSending
  /\ OneSentRow
  /\ NotifyHasResult
  /\ MessageHasResult

-----------------------------------------------------------------------------
(***************************************************************************)
(* What a reader of the database may rely on: ContractPromise, with a run  *)
(* and the rows it has stored read off the statement of its worker.        *)
(***************************************************************************)
Claimed(c) == \E w \in Workers : job[w] = c /\ pc[w] \in AfterClaim

\* The agents whose rows a run has committed when it stands at a statement.
RowsBefore(label) ==
  {a \in Agents : \/ a = "risk" /\ label \in PastRisk
                  \/ a = "tax" /\ label \in PastTax
                  \/ a = "counter" /\ label = "final"}

StoredFor(c) == UNION {RowsBefore(pc[w]) : w \in {v \in Workers : job[v] = c}}

Promise(c) == INSTANCE ContractPromise WITH
  Payload <- [a \in Agents |-> {"ok"}],
  Error <- "error",
  NoRow <- "none",
  status <- status[c],
  results <- results[c],
  running <- Claimed(c),
  stored <- StoredFor(c)

\* Every step of the pipeline is, for each contract, a step of the promise or
\* none: a reader can go by ContractPromise and forget workers and queues.
ImplementsPromise ==
  /\ \A c \in Contracts : Promise(c)!Init
  /\ [][\A c \in Contracts : Promise(c)!Next \/ UNCHANGED Promise(c)!vars]_vars

-----------------------------------------------------------------------------
(***************************************************************************)
(* Liveness.                                                               *)
(***************************************************************************)

\* Whatever is lost or crashes, an uploaded contract ends in `done` or
\* `failed` and stays terminal: the front-end does not poll forever
\* (reaper.py:11).
SettlesForGood ==
  \A c \in Contracts : <>[](status[c] \in Terminal \cup {"none"})

-----------------------------------------------------------------------------
(***************************************************************************)
(* What the repository says of the program and the code does not keep.     *)
(***************************************************************************)

Reaped(c) == status[c] \in Stuck /\ status'[c] = "failed" /\ error'[c] = "reaped"

\* reaper.py:12-14: "a slow but healthy job is never reaped".  A job that
\* waits in the queue because every worker is busy is healthy.
HealthyJobNeverReaped ==
  [][\A c \in Contracts :
       Reaped(c) /\ (\A w \in Workers : pc[w] # "idle") => ~Queued(c)]_vars
=============================================================================
