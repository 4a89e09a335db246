---------------------- MODULE ContractLifecycleProofs ----------------------
(***************************************************************************)
(* Theorems about ContractLifecycle for every number of contracts and      *)
(* workers, every choice of the three limits and every set of faults.      *)
(***************************************************************************)
EXTENDS ContractLifecycle, TLAPS

-----------------------------------------------------------------------------
(***************************************************************************)
(* Type correctness.                                                       *)
(***************************************************************************)

\* The values the actions assign, by the type they belong to.  The proofs
\* below leave the types themselves folded.
LEMMA TypeFacts ==
  /\ {"none", "uploaded", "processing", "done", "failed"} \subseteq Statuses
  /\ {"none", "enqueue", "reaped"} \subseteq Errors
  /\ {"none", "ok", "error"} \subseteq Outcomes
  /\ {"idle", "enqueue", "accepted", "refused", "over"} \subseteq UploadStates
  /\ {"idle", "claim", "fatal", "leave"} \cup AfterClaim \cup Notifying \subseteq Labels
  /\ "idle" \notin AfterClaim \cup Notifying
  /\ 0 \in Ages /\ 0 \in Clocks
  /\ \A a \in Ages : a < AgeCap => a + 1 \in Ages
  /\ \A k \in Clocks : k < HardLimit => k + 1 \in Clocks
  /\ NoOutcome \in [Agents -> Outcomes]
  BY LimitsAssumption
  DEF Statuses, Errors, Outcomes, UploadStates, Labels, Ages, Clocks, AgeCap, NoOutcome,
      AfterClaim, Notifying

\* A worker that rests is well typed: idle, and without a job.
LEMMA RestTypes ==
  ASSUME RunTypes, NEW w \in Workers, Rest(w)
  PROVE  RunTypes'
  BY TypeFacts, ConstantsAssumption DEF RunTypes, Rest

\* A worker that goes to the next statement of its run stays well typed.
LEMMA GotoTypes ==
  ASSUME RunTypes, NEW w \in Workers, pc[w] # "idle",
         NEW label \in Labels, label # "idle", Goto(w, label),
         got' \in [Workers -> [Agents -> Outcomes]]
  PROVE  RunTypes'
  BY DEF RunTypes, Goto

\* So does a worker whose run returns.
LEMMA ReturnTypes ==
  ASSUME RunTypes, NEW w \in Workers, pc[w] # "idle", Return(w)
  PROVE  RunTypes' /\ UNCHANGED httpVars
<1>1. got' \in [Workers -> [Agents -> Outcomes]]
  BY TypeFacts DEF RunTypes, Return
<1>2. "leave" \in Labels /\ Goto(w, "leave") /\ UNCHANGED httpVars
  BY TypeFacts DEF Return
<1>3. QED
  BY <1>1, <1>2, GotoTypes

\* _set_status writes a well typed row.
LEMMA SetStatusTypes ==
  ASSUME RowTypes, NEW c \in Contracts, NEW s \in Statuses, SetStatus(c, s)
  PROVE  RowTypes'
  BY TypeFacts DEF RowTypes, SetStatus

\* _save_result writes a well typed row.
LEMMA SaveResultTypes ==
  ASSUME StoreTypes, NEW c \in Contracts, NEW a \in Agents, NEW o \in Outcomes,
         SaveResult(c, a, o), UNCHANGED notifyVars
  PROVE  StoreTypes'
  BY DEF StoreTypes, SaveResult, notifyVars

\* The worker of a run has a contract.
LEMMA RunHasContract ==
  ASSUME TypeOK, NEW w \in Workers, pc[w] # "idle"
  PROVE  job[w] \in Contracts
  BY DEF TypeOK, RunTypes

\* What an action leaves alone keeps its type.
LEMMA FrameTypes ==
  ASSUME TypeOK
  PROVE  /\ UNCHANGED table => RowTypes'
         /\ UNCHANGED <<results, notifyVars>> => StoreTypes'
         /\ UNCHANGED httpVars => HttpTypes'
         /\ UNCHANGED runVars => RunTypes'
  BY DEF TypeOK, RowTypes, StoreTypes, HttpTypes, RunTypes,
         table, notifyVars, httpVars, runVars

\* Every variable starts in its type.
LEMMA InitTypeOK == Init => TypeOK
  BY TypeFacts DEF Init, TypeOK, RowTypes, StoreTypes, HttpTypes, RunTypes

\* The upload route keeps the types.
LEMMA UploadTypeOK ==
  ASSUME TypeOK, NEW c \in Contracts, UploadStep(c)
  PROVE  TypeOK'
<1>1. RunTypes' /\ StoreTypes'
  BY FrameTypes
  DEF UploadStep, Upload, EnqueueAccepted, EnqueueRefused, EnqueueAckLost, CommitJobId,
      CommitEnqueueFailed, UploadAborts, runVars, notifyVars
<1>2. HttpTypes'
  <2>1. upload' \in [Contracts -> UploadStates] /\ UNCHANGED <<opened, failedJobs, requeues>>
    BY TypeFacts
    DEF UploadStep, Upload, EnqueueAccepted, EnqueueRefused, EnqueueAckLost, CommitJobId,
        CommitEnqueueFailed, UploadAborts, TypeOK, HttpTypes
  <2>2. queue' = queue \/ queue' = Append(queue, c)
    BY DEF UploadStep, Upload, EnqueueAccepted, EnqueueRefused, EnqueueAckLost,
           CommitJobId, CommitEnqueueFailed, UploadAborts
  <2>3. Append(queue, c) \in Seq(Contracts)
    BY DEF TypeOK, HttpTypes
  <2>4. QED
    BY <2>1, <2>2, <2>3 DEF TypeOK, HttpTypes
<1>3. RowTypes'
  <2>1. opened[c] \in Ages
    BY DEF TypeOK, HttpTypes
  <2>2. QED
    BY <2>1, TypeFacts
    DEF UploadStep, Upload, EnqueueAccepted, EnqueueRefused, EnqueueAckLost, CommitJobId,
        CommitEnqueueFailed, UploadAborts, TypeOK, RowTypes, table
<1>4. QED
  BY <1>1, <1>2, <1>3 DEF TypeOK

\* What a statement of a run does to the worker, to the rows and to the queue.
LEMMA RunStepTypeOK ==
  ASSUME TypeOK, NEW w \in Workers, RunStep(w)
  PROVE  TypeOK'
<1> DEFINE c == job[w]
<1>1. pc[w] # "idle" /\ c \in Contracts
  BY RunHasContract
  DEF RunStep, Claim, RunAgentsAB, SaveRisk, SaveTax, RunCounter, SaveCounter, Persist,
      FinishDone, FinishFailed, Fatal, CheckNotify, SkipNotify, SendOk, SendFailed, Audit, Leave
<1>2. RunTypes /\ RowTypes /\ StoreTypes /\ HttpTypes
  BY DEF TypeOK
<1>3. ASSUME UNCHANGED got, NEW label \in Labels, label # "idle", Goto(w, label)
      PROVE  RunTypes'
  BY <1>1, <1>2, <1>3, GotoTypes DEF RunTypes
<1> HIDE DEF c
<1> USE TypeFacts, FrameTypes, <1>1, <1>2 DEF AfterClaim, Notifying, Agents
<1>4. CASE Claim(w) \/ FinishDone(w)
  <2>1. RowTypes'
    BY <1>4, SetStatusTypes DEF Claim, FinishDone, Transaction, c
  <2>2. RunTypes'
    BY <1>4, <1>3 DEF Claim, FinishDone, Transaction
  <2>3. QED
    BY <1>4, <2>1, <2>2 DEF Claim, FinishDone, TypeOK
<1>5. CASE RunAgentsAB(w) \/ RunCounter(w)
  <2>1. got' \in [Workers -> [Agents -> Outcomes]]
    BY <1>5 DEF RunAgentsAB, RunCounter, RunTypes
  <2>2. RunTypes'
    BY <1>5, <2>1, GotoTypes DEF RunAgentsAB, RunCounter
  <2>3. QED
    BY <1>5, <2>2 DEF RunAgentsAB, RunCounter, TypeOK
<1>6. CASE SaveRisk(w) \/ SaveTax(w) \/ SaveCounter(w)
  <2>1. \A a \in Agents : got[w][a] \in Outcomes
    BY DEF RunTypes
  <2>2. StoreTypes'
    BY <1>6, <2>1, SaveResultTypes
    DEF SaveRisk, SaveTax, SaveCounter, Persist, Transaction, c
  <2>3. RunTypes'
    BY <1>6, <1>3 DEF SaveRisk, SaveTax, SaveCounter, Persist, Transaction
  <2>4. QED
    BY <1>6, <2>2, <2>3 DEF SaveRisk, SaveTax, SaveCounter, Persist, TypeOK
<1>7. CASE FinishFailed(w) \/ Fatal(w)
  <2>1. RowTypes'
    BY <1>7, SetStatusTypes DEF FinishFailed, Fatal, c
  <2>2. RunTypes' /\ HttpTypes'
    BY <1>7, <1>3, ReturnTypes DEF FinishFailed, Fatal
  <2>3. QED
    BY <1>7, <2>1, <2>2 DEF FinishFailed, Fatal, TypeOK
<1>8. CASE CheckNotify(w) \/ SkipNotify(w)
  <2>1. RunTypes' /\ HttpTypes'
    BY <1>8, <1>3, ReturnTypes DEF CheckNotify, SkipNotify
  <2>2. QED
    BY <1>8, <2>1 DEF CheckNotify, SkipNotify, TypeOK
<1>9. CASE SendOk(w) \/ SendFailed(w) \/ Audit(w)
  <2>1. RunTypes' /\ HttpTypes'
    BY <1>9, <1>3, ReturnTypes DEF SendOk, SendFailed, Audit
  <2>2. StoreTypes'
    BY <1>9 DEF SendOk, SendFailed, Audit, StoreTypes, c
  <2>3. QED
    BY <1>9, <2>1, <2>2 DEF SendOk, SendFailed, Audit, TypeOK
<1>10. CASE Leave(w)
  BY <1>10, RestTypes DEF Leave, TypeOK
<1>11. QED
  BY <1>4, <1>5, <1>6, <1>7, <1>8, <1>9, <1>10 DEF RunStep

\* Every step keeps every variable in its type.
LEMMA StepTypeOK == TypeOK /\ [Next]_vars => TypeOK'
<1> SUFFICES ASSUME TypeOK, [Next]_vars PROVE TypeOK'
  OBVIOUS
<1>1. CASE UNCHANGED vars
  BY <1>1, FrameTypes DEF vars, TypeOK
<1>2. ASSUME NEW c \in Contracts, UploadStep(c) PROVE TypeOK'
  BY <1>2, UploadTypeOK
<1>3. ASSUME NEW c \in Contracts, Requeue(c) PROVE TypeOK'
  <2>1. HttpTypes'
    BY <1>3 DEF Requeue, TypeOK, HttpTypes
  <2>2. QED
    BY <1>3, <2>1, FrameTypes DEF Requeue, TypeOK
<1>4. ASSUME NEW w \in Workers, RunStep(w) PROVE TypeOK'
  BY <1>4, RunStepTypeOK
<1>5. ASSUME NEW w \in Workers, Dequeue(w) PROVE TypeOK'
  <2>1. HttpTypes' /\ Head(queue) \in Contracts
    BY <1>5 DEF Dequeue, TypeOK, HttpTypes
  <2>2. RunTypes'
    BY <1>5, <2>1, TypeFacts, ConstantsAssumption DEF Dequeue, TypeOK, RunTypes
  <2>3. QED
    BY <1>5, <2>1, <2>2, FrameTypes DEF Dequeue, TypeOK
<1>6. ASSUME NEW w \in Workers, Crash(w) \/ TimeoutEscapes(w) \/ KillHorse(w)
      PROVE  TypeOK'
  <2>1. Abandon(w) /\ job[w] \in Contracts
    BY <1>6, RunHasContract DEF Crash, TimeoutEscapes, KillHorse
  <2>2. RunTypes' /\ HttpTypes'
    BY <2>1, RestTypes DEF Abandon, TypeOK, HttpTypes
  <2>3. QED
    BY <2>1, <2>2, FrameTypes DEF Abandon, TypeOK
<1>7. CASE Flush
  <2>1. HttpTypes'
    BY <1>7 DEF Flush, TypeOK, HttpTypes
  <2>2. QED
    BY <1>7, <2>1, FrameTypes DEF Flush, TypeOK
<1>8. CASE Reap
  <2>1. RowTypes'
    BY <1>8, TypeFacts DEF Reap, TypeOK, RowTypes
  <2>2. QED
    BY <1>8, <2>1, FrameTypes DEF Reap, TypeOK
<1>9. CASE Tick
  <2>1. RowTypes' /\ HttpTypes'
    BY <1>9, TypeFacts DEF Tick, TypeOK, RowTypes, HttpTypes
  <2>2. RunTypes'
    BY <1>9, TypeFacts DEF Tick, WithinLimit, TypeOK, RunTypes
  <2>3. QED
    BY <1>9, <2>1, <2>2, FrameTypes DEF Tick, TypeOK
<1>10. QED
  BY <1>1, <1>2, <1>3, <1>4, <1>5, <1>6, <1>7, <1>8, <1>9 DEF Next, WorkerStep

\* TypeOK is an invariant.
THEOREM TypeCorrect == Spec => []TypeOK
<1>1. QED
  BY InitTypeOK, StepTypeOK, PTL DEF Spec

-----------------------------------------------------------------------------
(***************************************************************************)
(* One job per contract.                                                   *)
(***************************************************************************)

\* Appending a job that does not wait keeps the queue distinct.
LEMMA AppendQueue ==
  ASSUME queue \in Seq(Contracts), NEW c \in Contracts, queue' = Append(queue, c)
  PROVE  /\ \A d : Queued(d)' <=> Queued(d) \/ d = c
         /\ Distinct /\ ~Queued(c) => Distinct'
<1>1. Len(queue') = Len(queue) + 1 /\ Len(queue) \in Nat
  OBVIOUS
<1>2. \A i \in 1 .. Len(queue') : queue'[i] = IF i <= Len(queue) THEN queue[i] ELSE c
  BY <1>1
<1>3. \A d : Queued(d)' <=> Queued(d) \/ d = c
  <2>1. \A d : Queued(d)' => Queued(d) \/ d = c
    BY <1>1, <1>2 DEF Queued
  <2>2. \A d : Queued(d) => Queued(d)'
    BY <1>1, <1>2 DEF Queued
  <2>3. Queued(c)'
    BY <1>1, <1>2 DEF Queued
  <2>4. QED
    BY <2>1, <2>2, <2>3
<1>4. ASSUME Distinct, ~Queued(c) PROVE Distinct'
  BY <1>1, <1>2, <1>4 DEF Distinct, Queued
<1>5. QED
  BY <1>3, <1>4

\* Taking the head of a distinct queue takes that job out of it.
LEMMA TailQueue ==
  ASSUME queue \in Seq(Contracts), queue # <<>>, queue' = Tail(queue)
  PROVE  /\ \A d : Queued(d)' => Queued(d)
         /\ Queued(Head(queue)) /\ Head(queue) \in Contracts
         /\ Distinct => Distinct' /\ \A d : d = Head(queue) => ~Queued(d)'
<1>1. Len(queue') = Len(queue) - 1 /\ Len(queue) \in Nat \ {0}
  OBVIOUS
<1>2. \A i \in 1 .. Len(queue') : queue'[i] = queue[i + 1]
  BY <1>1
<1>3. Head(queue) = queue[1] /\ Head(queue) \in Contracts
  OBVIOUS
<1>4. \A d : Queued(d)' => Queued(d)
  BY <1>1, <1>2 DEF Queued
<1>5. Queued(queue[1])
  BY <1>1 DEF Queued
<1>6. ASSUME Distinct PROVE Distinct' /\ \A d : d = queue[1] => ~Queued(d)'
  <2>1. Distinct'
    BY <1>1, <1>2, <1>6 DEF Distinct
  <2>2. \A i \in 1 .. Len(queue') : queue'[i] # queue[1]
    BY <1>1, <1>2, <1>6 DEF Distinct
  <2>3. QED
    BY <2>1, <2>2 DEF Queued
<1>7. QED
  BY <1>3, <1>4, <1>5, <1>6

\* A statement of a run keeps the job or gives it up, and leaves Redis alone.
LEMMA RunStepFrame ==
  ASSUME NEW w \in Workers, RunStep(w)
  PROVE  /\ pc[w] # "idle"
         /\ UNCHANGED httpVars
         /\ Rest(w) \/ UNCHANGED <<job, clock>>
  BY DEF RunStep, Claim, RunAgentsAB, SaveRisk, SaveTax, RunCounter, SaveCounter, Persist,
         FinishDone, FinishFailed, Fatal, CheckNotify, SkipNotify, SendOk, SendFailed,
         Audit, Leave, Transaction, Goto, Return

\* The ways a run is cut off.
LEMMA CutIsAbandon ==
  ASSUME NEW w \in Workers, Crash(w) \/ TimeoutEscapes(w) \/ KillHorse(w)
  PROVE  Abandon(w) /\ pc[w] # "idle"
  BY DEF Crash, TimeoutEscapes, KillHorse

\* Every step keeps each contract's job in one place.
LEMMA StepOneJob ==
  ASSUME TypeOK, OneJob, [Next]_vars
  PROVE  OneJob'
<1> USE DEF TypeOK, HttpTypes, RunTypes
<1>1. ASSUME UNCHANGED <<upload, queue, failedJobs, job>> PROVE OneJob'
  BY <1>1 DEF OneJob, Queued, Running, Distinct
<1>2. ASSUME NEW c \in Contracts, EnqueueAccepted(c) \/ EnqueueAckLost(c) PROVE OneJob'
  <2>1. /\ queue' = Append(queue, c)
        /\ upload[c] = "enqueue" /\ UNCHANGED <<failedJobs, job>>
        /\ upload' \in [Contracts -> UploadStates] /\ upload'[c] \in {"accepted", "refused"}
        /\ \A d \in Contracts : d # c => upload'[d] = upload[d]
    BY <1>2, TypeFacts DEF EnqueueAccepted, EnqueueAckLost, runVars
  <2>2. ~Queued(c) /\ ~Running(c) /\ c \notin failedJobs
    BY <2>1 DEF OneJob
  <2>3. (\A d : Queued(d)' <=> Queued(d) \/ d = c) /\ Distinct'
    BY <2>1, <2>2, AppendQueue DEF OneJob
  <2>4. QED
    BY <2>1, <2>2, <2>3 DEF OneJob, Running
<1>3. ASSUME NEW c \in Contracts,
             \/ Upload(c) \/ EnqueueRefused(c) \/ CommitJobId(c)
             \/ CommitEnqueueFailed(c) \/ UploadAborts(c)
      PROVE  OneJob'
  <2>1. UNCHANGED <<queue, failedJobs, job>>
    BY <1>3 DEF Upload, EnqueueRefused, CommitJobId, CommitEnqueueFailed, UploadAborts, runVars
  <2>2. \A d \in Contracts : upload'[d] \in {"idle", "enqueue"} => upload[d] \in {"idle", "enqueue"}
    BY <1>3 DEF Upload, EnqueueRefused, CommitJobId, CommitEnqueueFailed, UploadAborts
  <2>3. QED
    BY <2>1, <2>2 DEF OneJob, Queued, Running, Distinct
<1>4. ASSUME NEW c \in Contracts, Requeue(c) PROVE OneJob'
  <2>1. /\ queue' = Append(queue, c) /\ c \in failedJobs
        /\ failedJobs' = failedJobs \ {c} /\ UNCHANGED <<upload, job>>
    BY <1>4 DEF Requeue, runVars
  <2>2. ~Queued(c) /\ ~Running(c) /\ upload[c] \notin {"idle", "enqueue"}
    BY <2>1, ConstantsAssumption DEF OneJob, Running
  <2>3. (\A d : Queued(d)' <=> Queued(d) \/ d = c) /\ Distinct'
    BY <2>1, <2>2, AppendQueue DEF OneJob
  <2>4. QED
    BY <2>1, <2>2, <2>3 DEF OneJob, Running
<1>5. ASSUME NEW w \in Workers, Dequeue(w) PROVE OneJob'
  <2> DEFINE h == Head(queue)
  <2>1. /\ queue # <<>> /\ queue' = Tail(queue)
        /\ job' = [job EXCEPT ![w] = h] /\ UNCHANGED <<upload, failedJobs>>
    BY <1>5 DEF Dequeue
  <2>2. /\ \A d : Queued(d)' => Queued(d)
        /\ Queued(h) /\ h \in Contracts /\ Distinct'
        /\ \A d : d = h => ~Queued(d)'
    BY <2>1, TailQueue DEF OneJob
  <2>3. ~Running(h) /\ h \notin failedJobs /\ upload[h] \notin {"idle", "enqueue"}
    BY <2>2, ConstantsAssumption DEF OneJob, Running
  <2> HIDE DEF h
  <2>4. QED
    BY <2>1, <2>2, <2>3 DEF OneJob, Running
<1>6. ASSUME NEW w \in Workers, pc[w] # "idle", Rest(w), UNCHANGED <<upload, queue>>,
             failedJobs' \in {failedJobs, failedJobs \cup {job[w]}}
      PROVE  OneJob'
  <2>1. job' = [job EXCEPT ![w] = NoContract] /\ job[w] \in Contracts
    BY <1>6, RunHasContract DEF Rest
  <2>2. ~Queued(job[w]) /\ upload[job[w]] \notin {"idle", "enqueue"}
    BY <1>6, <2>1, ConstantsAssumption DEF OneJob, Running
  <2>3. QED
    BY <1>6, <2>1, <2>2, ConstantsAssumption DEF OneJob, Running, Queued, Distinct
<1>7. ASSUME NEW w \in Workers, RunStep(w) PROVE OneJob'
  BY <1>1, <1>6, <1>7, RunStepFrame DEF httpVars
<1>8. ASSUME NEW w \in Workers, Crash(w) \/ TimeoutEscapes(w) \/ KillHorse(w)
      PROVE  OneJob'
  BY <1>6, <1>8, CutIsAbandon DEF Abandon
<1>9. CASE Flush
  BY <1>9 DEF Flush, OneJob, Queued, Running, Distinct, runVars
<1>10. CASE Reap \/ Tick \/ UNCHANGED vars
  BY <1>1, <1>10 DEF Reap, Tick, vars, httpVars, runVars
<1>11. QED
  BY <1>2, <1>3, <1>4, <1>5, <1>7, <1>8, <1>9, <1>10
  DEF Next, UploadStep, WorkerStep

-----------------------------------------------------------------------------
(***************************************************************************)
(* What a step does to one worker and to the contracts table.              *)
(***************************************************************************)

\* The order of the statements of a run, and what each writes to the row.
LEMMA RunStepOrder ==
  ASSUME TypeOK, NEW w \in Workers, RunStep(w)
  PROVE  /\ \E label : pc' = [pc EXCEPT ![w] = label]
         /\ pc'[w] \in AfterClaim => pc[w] \in AfterClaim \cup {"claim"}
         /\ pc'[w] # "claim"
         /\ \/ (UNCHANGED table /\ pc'[w] # "agents")
            \/ /\ pc[w] = "claim" /\ pc'[w] \in {"agents", "fatal"}
               /\ SetStatus(job[w], "processing")
            \/ /\ pc[w] = "final" /\ pc'[w] \in {"notify", "fatal"}
               /\ ProducedAnything(w) /\ SetStatus(job[w], "done")
            \/ /\ pc[w] \in {"final", "fatal"} /\ pc'[w] \in {"leave", "fatal"}
               /\ SetStatus(job[w], "failed")
         /\ pc[w] = "claim" => pc'[w] \in {"agents", "fatal"}
<1> USE DEF TypeOK, RunTypes, AfterClaim, Rest, Return, Goto, Transaction
<1>1. CASE Claim(w)
  BY <1>1 DEF Claim
<1>2. CASE RunAgentsAB(w) \/ RunCounter(w)
  BY <1>2 DEF RunAgentsAB, RunCounter
<1>3. CASE SaveRisk(w) \/ SaveTax(w) \/ SaveCounter(w)
  BY <1>3 DEF SaveRisk, SaveTax, SaveCounter, Persist
<1>4. CASE FinishDone(w)
  BY <1>4 DEF FinishDone
<1>5. CASE FinishFailed(w)
  BY <1>5 DEF FinishFailed
<1>6. CASE Fatal(w)
  BY <1>6 DEF Fatal
<1>7. CASE CheckNotify(w) \/ SkipNotify(w) \/ SendOk(w) \/ SendFailed(w) \/ Audit(w)
  BY <1>7 DEF CheckNotify, SkipNotify, SendOk, SendFailed, Audit
<1>8. CASE Leave(w)
  BY <1>8 DEF Leave
<1>9. QED
  BY <1>1, <1>2, <1>3, <1>4, <1>5, <1>6, <1>7, <1>8 DEF RunStep

\* A step of one run leaves the other workers where they are.
LEMMA RunStepOthers ==
  ASSUME TypeOK, NEW w \in Workers, RunStep(w), NEW v \in Workers, v # w
  PROVE  pc'[v] = pc[v] /\ job'[v] = job[v] /\ clock'[v] = clock[v]
<1>1. pc'[v] = pc[v]
  <2>1. PICK label : pc' = [pc EXCEPT ![w] = label]
    BY RunStepOrder
  <2>2. QED
    BY <2>1 DEF TypeOK, RunTypes
<1>2. CASE Rest(w)
  BY <1>1, <1>2 DEF Rest, TypeOK, RunTypes
<1>3. CASE UNCHANGED <<job, clock>>
  BY <1>1, <1>3
<1>4. QED
  BY <1>2, <1>3, RunStepFrame

\* Outside the runs a row is created, failed, or only touched.
LEMMA OtherRowSteps ==
  ASSUME TypeOK, NEW c \in Contracts, UploadStep(c)
  PROVE  /\ UNCHANGED <<opened, results, requeues, runVars, notifyVars>>
         /\ status' \in [Contracts -> Statuses] /\ age' \in [Contracts -> Ages]
         /\ \A d \in Contracts :
              /\ \/ status'[d] = status[d]
                 \/ (upload[d] = "idle" /\ status'[d] = "uploaded")
                 \/ (upload[d] = "refused" /\ status'[d] = "failed")
              /\ age'[d] \in {age[d], 0, opened[d]}
<1>1. RowTypes'
  BY UploadTypeOK DEF TypeOK
<1>2. UNCHANGED <<opened, results, requeues, runVars, notifyVars>>
  BY DEF UploadStep, Upload, EnqueueAccepted, EnqueueRefused, EnqueueAckLost, CommitJobId,
         CommitEnqueueFailed, UploadAborts
<1> DEFINE Touched(d) ==
      /\ \/ status'[d] = status[d]
         \/ (upload[d] = "idle" /\ status'[d] = "uploaded")
         \/ (upload[d] = "refused" /\ status'[d] = "failed")
      /\ age'[d] \in {age[d], 0, opened[d]}
<1>3. ASSUME NEW d \in Contracts PROVE Touched(d)
  <2> USE DEF TypeOK, RowTypes
  <2>1. CASE Upload(c)
    BY <2>1 DEF Upload
  <2>2. CASE CommitJobId(c)
    BY <2>2 DEF CommitJobId
  <2>3. CASE CommitEnqueueFailed(c)
    BY <2>3 DEF CommitEnqueueFailed
  <2>4. CASE UNCHANGED table
    BY <2>4 DEF table
  <2>5. QED
    BY <2>1, <2>2, <2>3, <2>4
    DEF UploadStep, EnqueueAccepted, EnqueueRefused, EnqueueAckLost, UploadAborts
<1>4. QED
  BY <1>1, <1>2, <1>3 DEF RowTypes

\* The reaper fails stuck rows and touches no other.
LEMMA ReapRows ==
  ASSUME Reap
  PROVE  /\ UNCHANGED <<results, httpVars, runVars, notifyVars>>
         /\ \A c \in Contracts :
              /\ status'[c] = status[c] \/ (status[c] \in Stuck /\ status'[c] = "failed")
              /\ age'[c] \in {age[c], 0}
  BY DEF Reap, Reapable

-----------------------------------------------------------------------------
(***************************************************************************)
(* The row of a claimed contract is younger than its run.                  *)
(***************************************************************************)

\* Every step keeps YoungClaim: what sets age sets it to 0 or, when an upload
\* handler commits, to what its transaction has lasted, and Tick adds one to the
\* age and to the clock of the run.
LEMMA StepYoungClaim ==
  ASSUME TypeOK, TypeOK', YoungClaim, [Next]_vars
  PROVE  YoungClaim'
<1> USE DEF TypeOK, RowTypes, RunTypes, HttpTypes
<1>1. \A c \in Contracts : age[c] \in Nat /\ age'[c] \in Nat
  BY LimitsAssumption DEF Ages, AgeCap
<1>2. \A w \in Workers : clock[w] \in Nat /\ clock'[w] \in Nat
  BY LimitsAssumption DEF Clocks
<1>3. \A w \in Workers : pc'[w] \in AfterClaim => job'[w] \in Contracts
  BY DEF AfterClaim
<1>4. \A c \in Contracts : opened[c] \in Nat /\ opened'[c] \in Nat
  BY LimitsAssumption DEF Ages, AgeCap
<1>5. ASSUME \A w \in Workers : pc'[w] \in AfterClaim =>
               /\ job'[w] = job[w] /\ clock'[w] = clock[w]
               /\ pc[w] \in AfterClaim \/ age'[job[w]] = 0,
             \A c \in Contracts : age'[c] \in {age[c], 0, opened[c]},
             UNCHANGED opened
      PROVE  YoungClaim'
  <2>1. SUFFICES ASSUME NEW w \in Workers, pc'[w] \in AfterClaim
                 PROVE  age'[job[w]] <= clock[w] + opened[job[w]]
    BY <1>5 DEF YoungClaim
  <2>2. job[w] \in Contracts /\ opened[job[w]] \in Nat /\ clock[w] \in Nat
    BY <1>2, <1>3, <1>4, <1>5, <2>1
  <2>3. CASE age'[job[w]] = age[job[w]] /\ pc[w] \in AfterClaim
    BY <2>3 DEF YoungClaim
  <2>4. CASE age'[job[w]] \in {0, opened[job[w]]}
    BY <2>2, <2>4
  <2>5. QED
    BY <1>5, <2>1, <2>2, <2>3, <2>4
<1>6. ASSUME NEW c \in Contracts, UploadStep(c) PROVE YoungClaim'
  BY <1>5, <1>6, OtherRowSteps DEF runVars
<1>7. ASSUME NEW c \in Contracts, Requeue(c) PROVE YoungClaim'
  BY <1>5, <1>7 DEF Requeue, runVars, table
<1>8. ASSUME NEW w \in Workers, Dequeue(w) PROVE YoungClaim'
  BY <1>5, <1>8 DEF Dequeue, table, AfterClaim
<1>9. ASSUME NEW w \in Workers, RunStep(w) PROVE YoungClaim'
  <2>1. pc[w] # "idle" /\ job[w] \in Contracts
    BY <1>9, RunStepFrame
  <2>2. UNCHANGED opened /\ \A c \in Contracts : age'[c] \in {age[c], 0}
    BY <1>9, <2>1, RunStepOrder, RunStepFrame DEF table, SetStatus, httpVars
  <2>3. pc'[w] \in AfterClaim => UNCHANGED <<job, clock>>
    BY <1>9, RunStepFrame DEF Rest, AfterClaim
  <2>4. \A v \in Workers : v # w =>
          pc'[v] = pc[v] /\ job'[v] = job[v] /\ clock'[v] = clock[v]
    BY <1>9, RunStepOthers
  <2>5. pc'[w] \in AfterClaim => pc[w] \in AfterClaim \/ age'[job[w]] = 0
    BY <1>9, <2>1, RunStepOrder DEF SetStatus, AfterClaim
  <2>6. QED
    BY <1>5, <2>2, <2>3, <2>4, <2>5
<1>10. ASSUME NEW w \in Workers, Abandon(w) PROVE YoungClaim'
  BY <1>5, <1>10 DEF Abandon, Rest, table, AfterClaim
<1>11. CASE Flush \/ UNCHANGED vars
  BY <1>5, <1>11 DEF Flush, vars, table, runVars, httpVars
<1>12. CASE Reap
  BY <1>5, <1>12, ReapRows DEF runVars, httpVars
<1>13. CASE Tick
  <2>1. \A c \in Contracts : age'[c] <= age[c] + 1
    BY <1>1, <1>13 DEF Tick
  <2>2. \A w \in Workers : pc'[w] \in AfterClaim =>
          pc[w] \in AfterClaim /\ job'[w] = job[w] /\ clock'[w] = clock[w] + 1
    BY <1>13 DEF Tick, AfterClaim
  <2>3. \A c \in Contracts : opened[c] <= opened'[c]
    BY <1>4, <1>13 DEF Tick
  <2>4. QED
    BY <1>1, <1>2, <1>3, <1>4, <2>1, <2>2, <2>3 DEF YoungClaim
<1>14. QED
  BY <1>6, <1>7, <1>8, <1>9, <1>10, <1>11, <1>12, <1>13, CutIsAbandon DEF Next, WorkerStep

-----------------------------------------------------------------------------
(***************************************************************************)
(* What a run holds in memory is what it has stored, and `done` is written *)
(* over complete results.                                                  *)
(***************************************************************************)

\* A run shares its contract with no other worker.
LEMMA OwnContract ==
  ASSUME TypeOK, OneJob, NEW v \in Workers, NEW w \in Workers, v # w, pc[w] # "idle"
  PROVE  job[v] # job[w] /\ job[w] \in Contracts
  BY RunHasContract, ConstantsAssumption DEF OneJob

\* Only a run writes results, and only those of its own contract.
LEMMA RunStepResults ==
  ASSUME TypeOK, NEW w \in Workers, RunStep(w)
  PROVE  \/ UNCHANGED results
         \/ /\ pc[w] \in AfterClaim
            /\ \A c \in Contracts : c # job[w] => results'[c] = results[c]
  BY DEF RunStep, Claim, RunAgentsAB, SaveRisk, SaveTax, RunCounter, SaveCounter, Persist,
         FinishDone, FinishFailed, Fatal, CheckNotify, SkipNotify, SendOk, SendFailed,
         Audit, Leave, Transaction, SaveResult, AfterClaim, TypeOK, StoreTypes

\* Every step keeps ClaimTakesDone.
LEMMA StepClaimTakesDone ==
  ASSUME TypeOK, TypeOK', OneJob, ClaimTakesDone, [Next]_vars
  PROVE  ClaimTakesDone'
<1> USE DEF TypeOK, RowTypes, RunTypes
<1>1. ASSUME \A w \in Workers : pc'[w] \in AfterClaim =>
               pc[w] \in AfterClaim /\ job'[w] = job[w],
             \A c \in Contracts : status'[c] = "done" => status[c] = "done"
      PROVE  ClaimTakesDone'
  BY <1>1 DEF ClaimTakesDone, AfterClaim
<1>2. ASSUME NEW c \in Contracts, UploadStep(c) PROVE ClaimTakesDone'
  BY <1>1, <1>2, OtherRowSteps DEF runVars
<1>3. ASSUME NEW c \in Contracts, Requeue(c) PROVE ClaimTakesDone'
  BY <1>1, <1>3 DEF Requeue, runVars, table
<1>4. ASSUME NEW w \in Workers, Dequeue(w) PROVE ClaimTakesDone'
  BY <1>1, <1>4 DEF Dequeue, table, AfterClaim
<1>5. ASSUME NEW w \in Workers, RunStep(w) PROVE ClaimTakesDone'
  <2>1. pc[w] # "idle" /\ job[w] \in Contracts
    BY <1>5, RunStepFrame
  <2>2. ASSUME NEW v \in Workers, v # w, pc'[v] \in AfterClaim
        PROVE  status'[job'[v]] # "done"
    <3>1. pc[v] \in AfterClaim /\ job'[v] = job[v]
      BY <1>5, <2>2, RunStepOthers
    <3>2. job[v] # job[w] /\ job[v] \in Contracts
      BY <3>1, <2>1, <2>2, OwnContract DEF AfterClaim
    <3>3. status'[job[v]] = status[job[v]]
      BY <1>5, <3>2, <2>1, RunStepOrder DEF SetStatus, table
    <3>4. QED
      BY <3>1, <3>3 DEF ClaimTakesDone
  <2>3. ASSUME pc'[w] \in AfterClaim PROVE status'[job'[w]] # "done"
    <3>1. UNCHANGED job
      BY <1>5, <2>3, RunStepFrame DEF Rest, AfterClaim
    <3>2. CASE UNCHANGED table /\ pc'[w] # "agents"
      <4>1. pc[w] \in AfterClaim
        BY <1>5, <2>3, <3>2, RunStepOrder DEF AfterClaim
      <4>2. QED
        BY <3>1, <3>2, <4>1 DEF ClaimTakesDone, table
    <3>3. CASE ~(UNCHANGED table /\ pc'[w] # "agents")
      <4>1. SetStatus(job[w], "processing")
        BY <1>5, <2>3, <3>3, RunStepOrder DEF AfterClaim
      <4>2. QED
        BY <2>1, <3>1, <4>1 DEF SetStatus
    <3>4. QED
      BY <3>2, <3>3
  <2>4. QED
    BY <2>2, <2>3 DEF ClaimTakesDone
<1>6. ASSUME NEW w \in Workers, Abandon(w) PROVE ClaimTakesDone'
  BY <1>1, <1>6 DEF Abandon, Rest, table, AfterClaim
<1>7. CASE Flush \/ Tick \/ UNCHANGED vars
  BY <1>1, <1>7 DEF Flush, Tick, vars, table, runVars
<1>8. CASE Reap
  BY <1>1, <1>8, ReapRows DEF runVars
<1>9. QED
  BY <1>2, <1>3, <1>4, <1>5, <1>6, <1>7, <1>8, CutIsAbandon DEF Next, WorkerStep

\* The memory of one run agrees with what is stored.
Agrees(w) ==
  /\ pc[w] \in PastRisk \cup {"saveRisk"} =>
       got[w]["risk"] # "none" /\ got[w]["tax"] # "none"
  /\ pc[w] \in {"saveCounter", "final"} => got[w]["counter"] # "none"
  /\ pc[w] \in PastRisk => results[job[w]]["risk"] = got[w]["risk"]
  /\ pc[w] \in PastTax => results[job[w]]["tax"] = got[w]["tax"]
  /\ pc[w] = "final" => results[job[w]]["counter"] = got[w]["counter"]

\* Every step keeps MemoryIsStored.
LEMMA StepMemoryIsStored ==
  ASSUME TypeOK, OneJob, MemoryIsStored, [Next]_vars
  PROVE  MemoryIsStored'
<1> USE DEF PastRisk, PastTax
<1>1. MemoryIsStored <=> \A w \in Workers : Agrees(w)
  BY DEF MemoryIsStored, Agrees
<1>2. SUFFICES ASSUME NEW v \in Workers PROVE Agrees(v)'
  BY DEF MemoryIsStored, Agrees
<1>3. Agrees(v)
  BY <1>1
<1>4. ASSUME pc'[v] = pc[v], job'[v] = job[v], got'[v] = got[v],
             results'[job[v]] = results[job[v]]
      PROVE  Agrees(v)'
  BY <1>3, <1>4 DEF Agrees
<1>5. ASSUME pc'[v] \notin PastRisk \cup {"saveRisk"} PROVE Agrees(v)'
  BY <1>5 DEF Agrees
<1>6. ASSUME NEW c \in Contracts, UploadStep(c) \/ Requeue(c) PROVE Agrees(v)'
  BY <1>4, <1>6, OtherRowSteps DEF Requeue, runVars
<1>7. ASSUME NEW w \in Workers, Dequeue(w) PROVE Agrees(v)'
  <2>1. CASE v = w
    BY <1>5, <1>7, <2>1 DEF Dequeue, TypeOK, RunTypes
  <2>2. CASE v # w
    BY <1>4, <1>7, <2>2 DEF Dequeue, TypeOK, RunTypes
  <2>3. QED
    BY <2>1, <2>2
<1>8. ASSUME NEW w \in Workers, w # v, RunStep(w) PROVE Agrees(v)'
  <2>1. pc'[v] = pc[v] /\ job'[v] = job[v] /\ job[v] # job[w]
    BY <1>8, RunStepOthers, RunStepFrame, OwnContract DEF TypeOK, RunTypes
  <2>2. got'[v] = got[v]
    BY <1>8
    DEF RunStep, Claim, RunAgentsAB, SaveRisk, SaveTax, RunCounter, SaveCounter, Persist,
        FinishDone, FinishFailed, Fatal, CheckNotify, SkipNotify, SendOk, SendFailed,
        Audit, Leave, Return, Rest, TypeOK, RunTypes
  <2>3. CASE job[v] \in Contracts
    BY <1>4, <1>8, <2>1, <2>2, <2>3, RunStepResults
  <2>4. CASE job[v] \notin Contracts
    BY <1>5, <2>1, <2>4 DEF TypeOK, RunTypes
  <2>5. QED
    BY <2>3, <2>4
<1>9. CASE RunStep(v)
  <2>1. pc[v] # "idle" /\ job[v] \in Contracts
    BY <1>9, RunStepFrame, RunHasContract
  <2> USE <1>3, <2>1 DEF TypeOK, RunTypes, StoreTypes, Agents
  <2>2. CASE Claim(v) \/ FinishDone(v) \/ FinishFailed(v) \/ Fatal(v)
    BY <1>5, <2>2 DEF Claim, FinishDone, FinishFailed, Fatal, Transaction, Goto, Return, Rest
  <2>3. CASE CheckNotify(v) \/ SkipNotify(v) \/ SendOk(v) \/ SendFailed(v)
         \/ Audit(v) \/ Leave(v)
    BY <1>5, <2>3
    DEF CheckNotify, SkipNotify, SendOk, SendFailed, Audit, Leave, Goto, Return, Rest
  <2>4. CASE RunAgentsAB(v)
    BY <2>4 DEF RunAgentsAB, Goto, Agrees
  <2>5. CASE RunCounter(v)
    BY <2>5 DEF RunCounter, Goto, Agrees
  <2>6. CASE SaveRisk(v)
    BY <2>6 DEF SaveRisk, Persist, Transaction, SaveResult, Goto, Agrees
  <2>7. CASE SaveTax(v)
    BY <2>7 DEF SaveTax, Persist, Transaction, SaveResult, Goto, Agrees
  <2>8. CASE SaveCounter(v)
    BY <2>8 DEF SaveCounter, Persist, Transaction, SaveResult, Goto, Agrees
  <2>9. QED
    BY <1>9, <2>2, <2>3, <2>4, <2>5, <2>6, <2>7, <2>8 DEF RunStep
<1>10. ASSUME NEW w \in Workers, Abandon(w) PROVE Agrees(v)'
  <2>1. CASE v = w
    BY <1>5, <1>10, <2>1 DEF Abandon, Rest, TypeOK, RunTypes
  <2>2. CASE v # w
    BY <1>4, <1>10, <2>2 DEF Abandon, Rest, TypeOK, RunTypes
  <2>3. QED
    BY <2>1, <2>2
<1>11. CASE Flush \/ Reap \/ Tick \/ UNCHANGED vars
  BY <1>4, <1>11 DEF Flush, Reap, Tick, vars, runVars
<1>12. QED
  BY <1>6, <1>7, <1>8, <1>9, <1>10, <1>11, CutIsAbandon DEF Next, WorkerStep

\* What DoneIsComplete says of one contract.
Complete(c) == HasResult(c) /\ \A a \in Agents : results[c][a] # "none"

\* A run about to finish with something produced has stored a complete set.
LEMMA FinalIsComplete ==
  ASSUME MemoryIsStored, NEW w \in Workers, pc[w] = "final", ProducedAnything(w)
  PROVE  Complete(job[w])
  BY DEF MemoryIsStored, ProducedAnything, Complete, HasResult, Agents, PastRisk, PastTax

\* While a contract is done nobody writes its results.
LEMMA DoneKeepsResults ==
  ASSUME TypeOK, OneJob, ClaimTakesDone, [Next]_vars,
         NEW c \in Contracts, status[c] = "done"
  PROVE  results'[c] = results[c]
<1>1. ASSUME NEW d \in Contracts, UploadStep(d) \/ Requeue(d) PROVE UNCHANGED results
  BY <1>1, OtherRowSteps DEF Requeue
<1>2. ASSUME NEW w \in Workers, RunStep(w) PROVE results'[c] = results[c]
  BY <1>2, RunStepResults DEF ClaimTakesDone
<1>3. ASSUME NEW w \in Workers, Dequeue(w) \/ Abandon(w) PROVE UNCHANGED results
  BY <1>3 DEF Dequeue, Abandon
<1>4. CASE Flush \/ Reap \/ Tick \/ UNCHANGED vars
  BY <1>4 DEF Flush, Reap, Tick, vars
<1>5. QED
  BY <1>1, <1>2, <1>3, <1>4, CutIsAbandon DEF Next, WorkerStep

\* Only a run that produced something makes a contract done.
LEMMA WhoWritesDone ==
  ASSUME TypeOK, [Next]_vars, NEW c \in Contracts, status[c] # "done", status'[c] = "done"
  PROVE  /\ UNCHANGED results
         /\ \E w \in Workers : pc[w] = "final" /\ ProducedAnything(w) /\ job[w] = c
<1>1. ASSUME NEW d \in Contracts, UploadStep(d) \/ Requeue(d) PROVE FALSE
  BY <1>1, OtherRowSteps DEF Requeue, table
<1>2. ASSUME NEW w \in Workers, Dequeue(w) \/ Abandon(w) PROVE FALSE
  BY <1>2 DEF Dequeue, Abandon, table
<1>3. CASE Flush \/ Reap \/ Tick \/ UNCHANGED vars
  BY <1>3, ReapRows DEF Flush, Tick, vars, table
<1>4. ASSUME NEW w \in Workers, RunStep(w)
      PROVE  UNCHANGED results /\ pc[w] = "final" /\ ProducedAnything(w) /\ job[w] = c
  <2>1. job[w] \in Contracts /\ status \in [Contracts -> Statuses]
    BY <1>4, RunStepFrame, RunHasContract DEF TypeOK, RowTypes
  <2>2. pc[w] = "final" /\ ProducedAnything(w) /\ job[w] = c
    BY <1>4, <2>1, RunStepOrder DEF SetStatus, table
  <2>3. UNCHANGED results
    BY <1>4, <2>2
    DEF RunStep, Claim, RunAgentsAB, SaveRisk, SaveTax, RunCounter, SaveCounter, Persist,
        FinishDone, FinishFailed, Fatal, CheckNotify, SkipNotify, SendOk, SendFailed, Audit, Leave
  <2>4. QED
    BY <2>2, <2>3
<1>5. QED
  BY <1>1, <1>2, <1>3, <1>4, CutIsAbandon DEF Next, WorkerStep

\* Every step keeps DoneIsComplete.
LEMMA StepDoneIsComplete ==
  ASSUME TypeOK, OneJob, ClaimTakesDone, MemoryIsStored, DoneIsComplete, [Next]_vars
  PROVE  DoneIsComplete'
<1>1. SUFFICES ASSUME NEW c \in Contracts, status'[c] = "done" PROVE Complete(c)'
  BY DEF DoneIsComplete, Complete
<1>2. CASE status[c] = "done"
  BY <1>2, DoneKeepsResults DEF DoneIsComplete, Complete, HasResult
<1>3. CASE status[c] # "done"
  <2>1. UNCHANGED results /\ Complete(c)
    BY <1>1, <1>3, WhoWritesDone, FinalIsComplete
  <2>2. QED
    BY <2>1 DEF Complete, HasResult
<1>4. QED
  BY <1>2, <1>3

-----------------------------------------------------------------------------
(***************************************************************************)
(* First runs, and what a run may still send.                              *)
(***************************************************************************)

\* How a step may make a contract's next run pending: by putting it back.
LEMMA StepNotStarted ==
  ASSUME TypeOK, OneJob, [Next]_vars, NEW c \in Contracts, NotStarted(c)'
  PROVE  NotStarted(c) \/ (c \in failedJobs /\ requeues'[c] = requeues[c] + 1)
<1> USE DEF TypeOK, HttpTypes, RunTypes
<1>1. ASSUME UNCHANGED <<upload, queue>>,
             \A w \in Workers : job'[w] = c /\ pc'[w] = "claim" => job[w] = c /\ pc[w] = "claim"
      PROVE  NotStarted(c)
  BY <1>1 DEF NotStarted, Queued
<1>2. ASSUME NEW d \in Contracts, EnqueueAccepted(d) \/ EnqueueAckLost(d) PROVE NotStarted(c)
  <2>1. queue' = Append(queue, d) /\ upload[d] = "enqueue"
    BY <1>2 DEF EnqueueAccepted, EnqueueAckLost
  <2>2. Queued(c)' => Queued(c) \/ c = d
    BY <2>1, AppendQueue
  <2>3. QED
    BY <1>2, <2>1, <2>2 DEF NotStarted, EnqueueAccepted, EnqueueAckLost, runVars
<1>3. ASSUME NEW d \in Contracts,
             \/ Upload(d) \/ EnqueueRefused(d) \/ CommitJobId(d)
             \/ CommitEnqueueFailed(d) \/ UploadAborts(d)
      PROVE  NotStarted(c)
  <2>1. upload'[c] \in {"idle", "enqueue"} => upload[c] \in {"idle", "enqueue"}
    BY <1>3 DEF Upload, EnqueueRefused, CommitJobId, CommitEnqueueFailed, UploadAborts
  <2>2. UNCHANGED <<queue, pc, job>>
    BY <1>3 DEF Upload, EnqueueRefused, CommitJobId, CommitEnqueueFailed, UploadAborts, runVars
  <2>3. QED
    BY <2>1, <2>2 DEF NotStarted, Queued
<1>4. ASSUME NEW d \in Contracts, Requeue(d)
      PROVE  NotStarted(c) \/ (c \in failedJobs /\ requeues'[c] = requeues[c] + 1)
  <2>1. queue' = Append(queue, d) /\ UNCHANGED <<upload, pc, job>>
    BY <1>4 DEF Requeue, runVars
  <2>2. Queued(c)' => Queued(c) \/ c = d
    BY <2>1, AppendQueue
  <2>3. QED
    BY <1>4, <2>1, <2>2 DEF NotStarted, Requeue
<1>5. ASSUME NEW w \in Workers, Dequeue(w) PROVE NotStarted(c)
  <2>1. /\ queue # <<>> /\ queue' = Tail(queue) /\ UNCHANGED upload
        /\ pc' = [pc EXCEPT ![w] = "claim"] /\ job' = [job EXCEPT ![w] = Head(queue)]
    BY <1>5 DEF Dequeue
  <2>2. (Queued(c)' => Queued(c)) /\ Queued(Head(queue))
    BY <2>1, TailQueue
  <2>3. QED
    BY <2>1, <2>2 DEF NotStarted
<1>6. ASSUME NEW w \in Workers, RunStep(w) PROVE NotStarted(c)
  BY <1>1, <1>6, RunStepOrder, RunStepFrame DEF httpVars, Rest
<1>7. ASSUME NEW w \in Workers, Abandon(w) PROVE NotStarted(c)
  BY <1>1, <1>7 DEF Abandon, Rest
<1>8. CASE Flush
  BY <1>8 DEF Flush, NotStarted, Queued, runVars
<1>9. CASE Reap \/ Tick \/ UNCHANGED vars
  BY <1>1, <1>9 DEF Reap, Tick, vars, httpVars, runVars
<1>10. QED
  BY <1>2, <1>3, <1>4, <1>5, <1>6, <1>7, <1>8, <1>9, CutIsAbandon
  DEF Next, UploadStep, WorkerStep

\* Only the claim of a run makes a contract `processing`.
LEMMA WhoWritesProcessing ==
  ASSUME TypeOK, [Next]_vars, NEW c \in Contracts,
         status[c] # "processing", status'[c] = "processing"
  PROVE  \E w \in Workers : pc[w] = "claim" /\ job[w] = c /\ RunStep(w)
<1>1. ASSUME NEW d \in Contracts, UploadStep(d) \/ Requeue(d) PROVE FALSE
  BY <1>1, OtherRowSteps DEF Requeue, table
<1>2. ASSUME NEW w \in Workers, Dequeue(w) \/ Abandon(w) PROVE FALSE
  BY <1>2 DEF Dequeue, Abandon, table
<1>3. CASE Flush \/ Reap \/ Tick \/ UNCHANGED vars
  BY <1>3, ReapRows DEF Flush, Tick, vars, table
<1>4. ASSUME NEW w \in Workers, RunStep(w)
      PROVE  pc[w] = "claim" /\ job[w] = c /\ RunStep(w)
  <2>1. job[w] \in Contracts /\ status \in [Contracts -> Statuses]
    BY <1>4, RunStepFrame, RunHasContract DEF TypeOK, RowTypes
  <2>2. QED
    BY <1>4, <2>1, RunStepOrder DEF SetStatus, table
<1>5. QED
  BY <1>1, <1>2, <1>3, <1>4, CutIsAbandon DEF Next, WorkerStep

\* The operator's requeue is what moves the requeue counter, upwards.
LEMMA RequeuesGrow ==
  ASSUME TypeOK, [Next]_vars, NEW c \in Contracts
  PROVE  requeues[c] \in Nat /\ requeues'[c] \in {requeues[c], requeues[c] + 1}
<1> USE DEF TypeOK, HttpTypes
<1>1. ASSUME NEW d \in Contracts, UploadStep(d) PROVE UNCHANGED requeues
  BY <1>1, OtherRowSteps
<1>2. ASSUME NEW d \in Contracts, Requeue(d)
      PROVE  requeues'[c] \in {requeues[c], requeues[c] + 1}
  BY <1>2 DEF Requeue
<1>3. ASSUME NEW w \in Workers, RunStep(w) PROVE UNCHANGED requeues
  BY <1>3, RunStepFrame DEF httpVars
<1>4. ASSUME NEW w \in Workers, Dequeue(w) \/ Abandon(w) PROVE UNCHANGED requeues
  BY <1>4 DEF Dequeue, Abandon
<1>5. CASE Flush \/ Reap \/ Tick \/ UNCHANGED vars
  BY <1>5 DEF Flush, Reap, Tick, vars, httpVars
<1>6. QED
  BY <1>1, <1>2, <1>3, <1>4, <1>5, CutIsAbandon DEF Next, WorkerStep

\* Until its upload handler has called Redis nothing is put back.
LEMMA StepUploading ==
  ASSUME TypeOK, OneJob, [Next]_vars, NEW c \in Contracts, upload'[c] \in {"idle", "enqueue"}
  PROVE  upload[c] \in {"idle", "enqueue"} /\ UNCHANGED requeues[c]
<1> USE DEF TypeOK, HttpTypes
<1>1. ASSUME NEW d \in Contracts, UploadStep(d)
      PROVE  upload[c] \in {"idle", "enqueue"} /\ UNCHANGED requeues
  BY <1>1, OtherRowSteps
  DEF UploadStep, Upload, EnqueueAccepted, EnqueueRefused, EnqueueAckLost, CommitJobId,
      CommitEnqueueFailed, UploadAborts
<1>2. ASSUME NEW d \in Contracts, Requeue(d)
      PROVE  upload[c] \in {"idle", "enqueue"} /\ UNCHANGED requeues[c]
  BY <1>2 DEF Requeue, OneJob
<1>3. ASSUME NEW w \in Workers, RunStep(w) PROVE UNCHANGED <<upload, requeues>>
  BY <1>3, RunStepFrame DEF httpVars
<1>4. ASSUME NEW w \in Workers, Dequeue(w) \/ Abandon(w) PROVE UNCHANGED <<upload, requeues>>
  BY <1>4 DEF Dequeue, Abandon
<1>5. CASE Flush \/ Reap \/ Tick \/ UNCHANGED vars
  BY <1>5 DEF Flush, Reap, Tick, vars, httpVars
<1>6. QED
  BY <1>1, <1>2, <1>3, <1>4, <1>5, CutIsAbandon DEF Next, WorkerStep

\* A worker past `claim` is the contract's only business.
LEMMA StartedAlone ==
  ASSUME TypeOK, OneJob, NEW w \in Workers, pc[w] # "idle", pc[w] # "claim"
  PROVE  ~NotStarted(job[w])
  BY OwnContract, RunHasContract, ConstantsAssumption DEF OneJob, NotStarted, Running

\* Every step keeps FirstRun.
LEMMA StepFirstRun ==
  ASSUME TypeOK, OneJob, FirstRun, [Next]_vars
  PROVE  FirstRun'
<1>0. ASSUME NEW c \in Contracts, upload'[c] \in {"idle", "enqueue"} PROVE requeues'[c] = 0
  BY <1>0, StepUploading DEF FirstRun
<1>1. SUFFICES ASSUME NEW c \in Contracts, requeues'[c] = 0, NotStarted(c)'
               PROVE  status'[c] \notin {"processing", "done"}
  BY <1>0 DEF FirstRun
<1>2. requeues[c] = 0 /\ NotStarted(c)
  BY <1>1, RequeuesGrow, StepNotStarted
<1>3. status[c] \notin {"processing", "done"}
  BY <1>2 DEF FirstRun
<1>4. status'[c] # "done"
  BY <1>2, <1>3, WhoWritesDone, StartedAlone
<1>5. ASSUME status'[c] = "processing" PROVE FALSE
  <2>1. PICK w \in Workers : pc[w] = "claim" /\ job[w] = c /\ RunStep(w)
    BY <1>3, <1>5, WhoWritesProcessing
  <2>2. upload[c] \notin {"idle", "enqueue"} /\ ~Queued(c)
    BY <2>1, ConstantsAssumption DEF OneJob, Running
  <2>3. UNCHANGED <<upload, queue>> /\ pc'[w] # "claim"
    BY <2>1, RunStepFrame, RunStepOrder DEF httpVars
  <2>4. \A v \in Workers : v # w => job'[v] # c
    BY <2>1, OwnContract, RunStepFrame DEF Rest, TypeOK, RunTypes
  <2>5. QED
    BY <1>1, <2>2, <2>3, <2>4 DEF NotStarted, Queued
<1>6. QED
  BY <1>4, <1>5

\* Only the statement `send` delivers, one message, and then it is behind the run.
LEMMA RunStepSends ==
  ASSUME TypeOK, NEW w \in Workers, RunStep(w)
  PROVE  /\ \/ UNCHANGED delivered
            \/ /\ pc[w] = "send" /\ pc'[w] \in {"audit", "leave"}
               /\ delivered' = [delivered EXCEPT ![job[w]] = @ + 1]
               /\ UNCHANGED results
         /\ pc'[w] \in AfterClaim \cup {"notify", "send"} =>
               pc[w] \in AfterClaim \cup {"claim", "notify"}
<1> USE DEF TypeOK, RunTypes, AfterClaim, Rest, Return, Goto, Transaction
<1>1. CASE Claim(w) \/ RunAgentsAB(w) \/ RunCounter(w)
  BY <1>1 DEF Claim, RunAgentsAB, RunCounter, notifyVars
<1>2. CASE SaveRisk(w) \/ SaveTax(w) \/ SaveCounter(w)
  BY <1>2 DEF SaveRisk, SaveTax, SaveCounter, Persist, notifyVars
<1>3. CASE FinishDone(w) \/ FinishFailed(w) \/ Fatal(w)
  BY <1>3 DEF FinishDone, FinishFailed, Fatal, notifyVars
<1>4. CASE CheckNotify(w) \/ SkipNotify(w) \/ Audit(w)
  BY <1>4 DEF CheckNotify, SkipNotify, Audit, notifyVars
<1>5. CASE SendOk(w) \/ SendFailed(w)
  BY <1>5 DEF SendOk, SendFailed
<1>6. CASE Leave(w)
  BY <1>6 DEF Leave, notifyVars
<1>7. QED
  BY <1>1, <1>2, <1>3, <1>4, <1>5, <1>6 DEF RunStep

\* A contract may send again only when it is put back.
LEMMA StepMaySend ==
  ASSUME TypeOK, OneJob, [Next]_vars, NEW c \in Contracts, MaySend(c)'
  PROVE  MaySend(c) \/ requeues'[c] = requeues[c] + 1
<1>1. CASE NotStarted(c)'
  BY <1>1, StepNotStarted DEF MaySend
<1>2. CASE \E v \in Workers : job'[v] = c /\ pc'[v] \in AfterClaim \cup {"notify", "send"}
  <2>1. PICK v \in Workers : job'[v] = c /\ pc'[v] \in AfterClaim \cup {"notify", "send"}
    BY <1>2
  <2>2. job[v] = c /\ pc[v] \in AfterClaim \cup {"claim", "notify", "send"} => MaySend(c)
    BY DEF MaySend, NotStarted
  <2>3. ASSUME NEW d \in Contracts, UploadStep(d) \/ Requeue(d) PROVE MaySend(c)
    BY <2>1, <2>2, <2>3, OtherRowSteps DEF Requeue, runVars
  <2>4. ASSUME NEW w \in Workers, RunStep(w) PROVE MaySend(c)
    <3>1. CASE v = w
      BY <2>1, <2>2, <2>4, <3>1, RunStepSends, RunStepFrame DEF Rest, TypeOK, RunTypes, AfterClaim
    <3>2. CASE v # w
      BY <2>1, <2>2, <2>4, <3>2, RunStepOrder, RunStepFrame DEF Rest, TypeOK, RunTypes
    <3>3. QED
      BY <3>1, <3>2
  <2>5. ASSUME NEW w \in Workers, Dequeue(w) \/ Abandon(w) PROVE MaySend(c)
    BY <2>1, <2>2, <2>5 DEF Dequeue, Abandon, Rest, TypeOK, RunTypes, AfterClaim
  <2>6. CASE Flush \/ Reap \/ Tick \/ UNCHANGED vars
    BY <2>1, <2>2, <2>6 DEF Flush, Reap, Tick, vars, runVars
  <2>7. QED
    BY <2>3, <2>4, <2>5, <2>6, CutIsAbandon DEF Next, WorkerStep
<1>3. QED
  BY <1>1, <1>2 DEF MaySend

\* A step that delivers is the send statement of a run.
LEMMA WhoSends ==
  ASSUME TypeOK, [Next]_vars, delivered' # delivered
  PROVE  \E w \in Workers :
           /\ RunStep(w) /\ pc[w] = "send" /\ pc'[w] \in {"audit", "leave"}
           /\ delivered' = [delivered EXCEPT ![job[w]] = @ + 1]
           /\ UNCHANGED results
<1>1. ASSUME NEW d \in Contracts, UploadStep(d) \/ Requeue(d) PROVE FALSE
  BY <1>1, OtherRowSteps DEF Requeue, notifyVars
<1>2. ASSUME NEW w \in Workers, Dequeue(w) \/ Abandon(w) PROVE FALSE
  BY <1>2 DEF Dequeue, Abandon, notifyVars
<1>3. CASE Flush \/ Reap \/ Tick \/ UNCHANGED vars
  BY <1>3 DEF Flush, Reap, Tick, vars, notifyVars
<1>4. QED
  BY <1>1, <1>2, <1>3, RunStepSends, CutIsAbandon DEF Next, WorkerStep

\* A run that just sent was the contract's only business and will not send again.
LEMMA SentOnce ==
  ASSUME TypeOK, OneJob, NEW w \in Workers, NEW c \in Contracts, job[w] = c,
         RunStep(w), pc[w] = "send", pc'[w] \in {"audit", "leave"}
  PROVE  ~MaySend(c)'
<1>1. UNCHANGED <<upload, queue>> /\ ~NotStarted(c)
  BY RunStepFrame, StartedAlone DEF httpVars
<1>2. upload[c] \notin {"idle", "enqueue"} /\ ~Queued(c)
  BY <1>1 DEF NotStarted
<1>3. ASSUME NEW v \in Workers, job'[v] = c
      PROVE  pc'[v] \notin AfterClaim \cup {"claim", "notify", "send"}
  <2>1. CASE v = w
    BY <2>1 DEF AfterClaim
  <2>2. CASE v # w
    BY <1>3, <2>2, OwnContract, RunStepFrame, ConstantsAssumption DEF Rest, TypeOK, RunTypes
  <2>3. QED
    BY <2>1, <2>2
<1>4. QED
  BY <1>1, <1>2, <1>3 DEF MaySend, NotStarted, Queued

\* Every step keeps MessageBudget.
LEMMA StepMessageBudget ==
  ASSUME TypeOK, OneJob, MessageBudget, [Next]_vars
  PROVE  MessageBudget'
<1>1. SUFFICES ASSUME NEW c \in Contracts
               PROVE  /\ delivered'[c] <= 1 + requeues'[c]
                      /\ MaySend(c)' => delivered'[c] <= requeues'[c]
  BY DEF MessageBudget
<1>2. /\ delivered[c] \in Nat /\ requeues[c] \in Nat
      /\ delivered[c] <= 1 + requeues[c]
      /\ MaySend(c) => delivered[c] <= requeues[c]
  BY DEF MessageBudget, TypeOK, StoreTypes, HttpTypes
<1>3. requeues'[c] \in {requeues[c], requeues[c] + 1}
  BY RequeuesGrow
<1>4. MaySend(c)' => MaySend(c) \/ requeues'[c] = requeues[c] + 1
  BY StepMaySend
<1>5. CASE delivered'[c] = delivered[c]
  BY <1>2, <1>3, <1>4, <1>5
<1>6. CASE delivered'[c] # delivered[c]
  <2>1. PICK w \in Workers :
           /\ RunStep(w) /\ pc[w] = "send" /\ pc'[w] \in {"audit", "leave"}
           /\ delivered' = [delivered EXCEPT ![job[w]] = @ + 1]
    BY <1>6, WhoSends
  <2>2. job[w] = c /\ delivered'[c] = delivered[c] + 1
    BY <1>6, <2>1 DEF TypeOK, StoreTypes
  <2>3. MaySend(c)
    BY <2>1, <2>2 DEF MaySend
  <2>4. ~MaySend(c)'
    BY <2>1, <2>2, SentOnce
  <2>5. QED
    BY <1>2, <1>3, <2>2, <2>3, <2>4
<1>7. QED
  BY <1>5, <1>6

-----------------------------------------------------------------------------
(***************************************************************************)
(* The audit row and what a message is about.                              *)
(***************************************************************************)

\* Which statement of a notification leads to which.
LEMMA RunStepNotifies ==
  ASSUME TypeOK, NEW w \in Workers, RunStep(w)
  PROVE  /\ pc'[w] = "notify" => pc[w] = "final" /\ ProducedAnything(w)
         /\ pc'[w] = "send" => pc[w] = "notify" /\ sentRows[job[w]] = 0
         /\ pc'[w] = "audit" => pc[w] = "send"
         /\ pc'[w] \in Notifying => UNCHANGED <<job, sentRows, results>>
         /\ \/ UNCHANGED sentRows
            \/ /\ pc[w] = "audit"
               /\ sentRows' = [sentRows EXCEPT ![job[w]] = @ + 1]
<1> USE DEF TypeOK, RunTypes, AfterClaim, Notifying, Rest, Return, Goto, Transaction
<1>1. CASE Claim(w) \/ RunAgentsAB(w) \/ RunCounter(w)
  BY <1>1 DEF Claim, RunAgentsAB, RunCounter, notifyVars
<1>2. CASE SaveRisk(w) \/ SaveTax(w) \/ SaveCounter(w)
  BY <1>2 DEF SaveRisk, SaveTax, SaveCounter, Persist, notifyVars
<1>3. CASE FinishDone(w) \/ FinishFailed(w) \/ Fatal(w)
  BY <1>3 DEF FinishDone, FinishFailed, Fatal, notifyVars
<1>4. CASE CheckNotify(w) \/ SkipNotify(w) \/ Audit(w)
  BY <1>4 DEF CheckNotify, SkipNotify, Audit, notifyVars, MustNotify
<1>5. CASE SendOk(w) \/ SendFailed(w)
  BY <1>5 DEF SendOk, SendFailed
<1>6. CASE Leave(w)
  BY <1>6 DEF Leave, notifyVars
<1>7. QED
  BY <1>1, <1>2, <1>3, <1>4, <1>5, <1>6 DEF RunStep

\* A worker that notifies after a step did so before, or its run just began to.
LEMMA WhoNotifies ==
  ASSUME TypeOK, OneJob, [Next]_vars, NEW v \in Workers, pc'[v] \in Notifying
  PROVE  \/ RunStep(v)
         \/ /\ pc[v] = pc'[v] /\ job'[v] = job[v]
            /\ results'[job[v]] = results[job[v]] /\ sentRows'[job[v]] = sentRows[job[v]]
<1> USE DEF TypeOK, RunTypes, Notifying
<1>1. ASSUME NEW d \in Contracts, UploadStep(d) \/ Requeue(d)
      PROVE  UNCHANGED <<pc, job, results, sentRows>>
  BY <1>1, OtherRowSteps DEF Requeue, runVars, notifyVars
<1>2. ASSUME NEW w \in Workers, Dequeue(w) \/ Abandon(w)
      PROVE  pc[v] = pc'[v] /\ job'[v] = job[v] /\ UNCHANGED <<results, sentRows>>
  BY <1>2 DEF Dequeue, Abandon, Rest, notifyVars
<1>3. CASE Flush \/ Reap \/ Tick \/ UNCHANGED vars
  BY <1>3 DEF Flush, Reap, Tick, vars, runVars, notifyVars
<1>4. ASSUME NEW w \in Workers, v # w, RunStep(w)
      PROVE  /\ pc[v] = pc'[v] /\ job'[v] = job[v]
             /\ results'[job[v]] = results[job[v]] /\ sentRows'[job[v]] = sentRows[job[v]]
  <2>1. pc[v] = pc'[v] /\ job'[v] = job[v]
    BY <1>4, RunStepOthers
  <2>2. job[v] # job[w] /\ job[v] \in Contracts
    BY <1>4, <2>1, OwnContract
  <2>3. QED
    BY <1>4, <2>1, <2>2, RunStepResults, RunStepNotifies DEF StoreTypes
<1>5. QED
  BY <1>1, <1>2, <1>3, <1>4, CutIsAbandon DEF Next, WorkerStep

\* Every step keeps UnsentWhileSending.
LEMMA StepUnsentWhileSending ==
  ASSUME TypeOK, OneJob, UnsentWhileSending, [Next]_vars
  PROVE  UnsentWhileSending'
<1>1. SUFFICES ASSUME NEW v \in Workers, pc'[v] \in {"send", "audit"}
               PROVE  sentRows'[job'[v]] = 0
  BY DEF UnsentWhileSending
<1>2. CASE RunStep(v)
  BY <1>1, <1>2, RunStepNotifies DEF UnsentWhileSending, Notifying
<1>3. CASE ~RunStep(v)
  BY <1>1, <1>3, WhoNotifies DEF UnsentWhileSending, Notifying
<1>4. QED
  BY <1>2, <1>3

\* Every step keeps OneSentRow.
LEMMA StepOneSentRow ==
  ASSUME TypeOK, UnsentWhileSending, OneSentRow, [Next]_vars
  PROVE  OneSentRow'
<1>1. ASSUME UNCHANGED sentRows PROVE OneSentRow'
  BY <1>1 DEF OneSentRow
<1>2. ASSUME NEW d \in Contracts, UploadStep(d) \/ Requeue(d) PROVE OneSentRow'
  BY <1>1, <1>2, OtherRowSteps DEF Requeue, notifyVars
<1>3. ASSUME NEW w \in Workers, Dequeue(w) \/ Abandon(w) PROVE OneSentRow'
  BY <1>1, <1>3 DEF Dequeue, Abandon, notifyVars
<1>4. CASE Flush \/ Reap \/ Tick \/ UNCHANGED vars
  BY <1>1, <1>4 DEF Flush, Reap, Tick, vars, notifyVars
<1>5. ASSUME NEW w \in Workers, RunStep(w) PROVE OneSentRow'
  <2>1. CASE UNCHANGED sentRows
    BY <1>1, <2>1
  <2>2. CASE pc[w] = "audit" /\ sentRows' = [sentRows EXCEPT ![job[w]] = @ + 1]
    <3>1. sentRows[job[w]] = 0
      BY <2>2 DEF UnsentWhileSending
    <3>2. QED
      BY <2>2, <3>1 DEF OneSentRow, TypeOK, StoreTypes
  <2>3. QED
    BY <1>5, <2>1, <2>2, RunStepNotifies
<1>6. QED
  BY <1>2, <1>3, <1>4, <1>5, CutIsAbandon DEF Next, WorkerStep

\* Every step keeps NotifyHasResult.
LEMMA StepNotifyHasResult ==
  ASSUME TypeOK, OneJob, MemoryIsStored, NotifyHasResult, [Next]_vars
  PROVE  NotifyHasResult'
<1>1. SUFFICES ASSUME NEW v \in Workers, pc'[v] \in Notifying
               PROVE  \E a \in Agents : results'[job'[v]][a] = "ok"
  BY DEF NotifyHasResult, HasResult
<1>2. CASE RunStep(v)
  <2>1. UNCHANGED <<job, results>>
    BY <1>1, <1>2, RunStepNotifies
  <2>2. HasResult(job[v])
    BY <1>1, <1>2, RunStepNotifies, FinalIsComplete DEF NotifyHasResult, Complete, Notifying
  <2>3. QED
    BY <2>1, <2>2 DEF HasResult
<1>3. CASE ~RunStep(v)
  BY <1>1, <1>3, WhoNotifies DEF NotifyHasResult, HasResult
<1>4. QED
  BY <1>2, <1>3

\* Only a run behind its claim writes results, and it still may send.
LEMMA WhoWritesResults ==
  ASSUME TypeOK, [Next]_vars, NEW c \in Contracts, results'[c] # results[c]
  PROVE  MaySend(c)
<1>1. ASSUME NEW d \in Contracts, UploadStep(d) \/ Requeue(d) PROVE FALSE
  BY <1>1, OtherRowSteps DEF Requeue
<1>2. ASSUME NEW w \in Workers, Dequeue(w) \/ Abandon(w) PROVE FALSE
  BY <1>2 DEF Dequeue, Abandon
<1>3. CASE Flush \/ Reap \/ Tick \/ UNCHANGED vars
  BY <1>3 DEF Flush, Reap, Tick, vars
<1>4. ASSUME NEW w \in Workers, RunStep(w) PROVE MaySend(c)
  BY <1>4, RunStepResults DEF MaySend
<1>5. QED
  BY <1>1, <1>2, <1>3, <1>4, CutIsAbandon DEF Next, WorkerStep

\* Every step keeps MessageHasResult.
LEMMA StepMessageHasResult ==
  ASSUME TypeOK, MessageBudget, NotifyHasResult, MessageHasResult, [Next]_vars
  PROVE  MessageHasResult'
<1>1. SUFFICES ASSUME NEW c \in Contracts, delivered'[c] > 0, requeues'[c] = 0
               PROVE  \E a \in Agents : results'[c][a] = "ok"
  BY DEF MessageHasResult, HasResult
<1>2. requeues[c] = 0 /\ delivered[c] \in Nat
  BY <1>1, RequeuesGrow DEF TypeOK, StoreTypes
<1>3. CASE delivered'[c] = delivered[c]
  <2>1. ~MaySend(c) /\ HasResult(c)
    BY <1>1, <1>2, <1>3 DEF MessageBudget, MessageHasResult
  <2>2. QED
    BY <2>1, WhoWritesResults DEF HasResult
<1>4. CASE delivered'[c] # delivered[c]
  <2>1. PICK w \in Workers :
           /\ pc[w] = "send" /\ UNCHANGED results
           /\ delivered' = [delivered EXCEPT ![job[w]] = @ + 1]
    BY <1>4, WhoSends
  <2>2. job[w] = c
    BY <1>4, <2>1 DEF TypeOK, StoreTypes
  <2>3. QED
    BY <2>1, <2>2 DEF NotifyHasResult, Notifying, HasResult
<1>5. QED
  BY <1>3, <1>4

-----------------------------------------------------------------------------
(***************************************************************************)
(* The inductive invariant, and what follows from it.                      *)
(***************************************************************************)

\* A fresh system satisfies the invariant.
LEMMA InitIInv == Init => IInv
<1> SUFFICES ASSUME Init PROVE IInv
  OBVIOUS
<1>1. TypeOK
  BY InitTypeOK
<1>2. ~(\E c : Queued(c)) /\ Distinct
  BY DEF Init, Queued, Distinct
<1>3. OneJob
  BY <1>2, ConstantsAssumption DEF Init, OneJob, Running
<1>4. /\ YoungClaim /\ ClaimTakesDone /\ MemoryIsStored /\ UnsentWhileSending
      /\ NotifyHasResult
  BY DEF Init, YoungClaim, ClaimTakesDone, MemoryIsStored, UnsentWhileSending,
         NotifyHasResult, AfterClaim, Notifying, PastRisk, PastTax
<1>5. DoneIsComplete /\ FirstRun /\ MessageBudget /\ OneSentRow /\ MessageHasResult
  BY DEF Init, DoneIsComplete, FirstRun, MessageBudget, OneSentRow, MessageHasResult
<1>6. QED
  BY <1>1, <1>3, <1>4, <1>5 DEF IInv

\* Every step keeps the invariant; the conjuncts lean on each other.
LEMMA StepIInv == IInv /\ [Next]_vars => IInv'
<1> SUFFICES ASSUME IInv, [Next]_vars PROVE IInv'
  OBVIOUS
<1>1. TypeOK' /\ OneJob'
  BY StepTypeOK, StepOneJob DEF IInv
<1>2. YoungClaim' /\ ClaimTakesDone'
  BY <1>1, StepYoungClaim, StepClaimTakesDone DEF IInv
<1>3. MemoryIsStored' /\ DoneIsComplete' /\ FirstRun'
  BY StepMemoryIsStored, StepDoneIsComplete, StepFirstRun DEF IInv
<1>4. MessageBudget' /\ UnsentWhileSending' /\ OneSentRow'
  BY StepMessageBudget, StepUnsentWhileSending, StepOneSentRow DEF IInv
<1>5. NotifyHasResult' /\ MessageHasResult'
  BY StepNotifyHasResult, StepMessageHasResult DEF IInv
<1>6. QED
  BY <1>1, <1>2, <1>3, <1>4, <1>5 DEF IInv

\* The conjunction of the safety invariants is inductive.
THEOREM Invariance == Spec => []IInv
  BY InitIInv, StepIInv, PTL DEF Spec

\* A run that has claimed its contract is safe from every sweep of the reaper,
\* unless its upload handler held its transaction for longer than the limits
\* leave: its row is no older than the two together, and RQ kills the run in
\* time.
THEOREM ReaperIsConservative == Spec => []ClaimedJobNotReapable
<1>1. ASSUME IInv PROVE ClaimedJobNotReapable
  <2>1. SUFFICES ASSUME NEW w \in Workers, pc[w] \in AfterClaim, age[job[w]] > StuckTimeout
                 PROVE  opened[job[w]] > Margin
    BY DEF ClaimedJobNotReapable, Reapable
  <2>2. age[job[w]] <= clock[w] + opened[job[w]] /\ clock[w] \in Clocks
    BY <1>1, <2>1 DEF IInv, YoungClaim, TypeOK, RunTypes
  <2>3. job[w] \in Contracts
    BY <1>1, <2>1, RunHasContract DEF IInv, AfterClaim
  <2>4. age[job[w]] \in Nat /\ opened[job[w]] \in Nat
    BY <1>1, <2>3, LimitsAssumption DEF IInv, TypeOK, RowTypes, HttpTypes, Ages, AgeCap
  <2>5. QED
    BY <2>1, <2>2, <2>4, LimitsAssumption DEF Clocks, Margin
<1>2. QED
  BY <1>1, Invariance, PTL

\* A contract is analysed by one worker at a time, however often its job is
\* cut off and put back.
THEOREM RunsDoNotOverlap == Spec => []OneRunAtATime
<1>1. ASSUME IInv PROVE OneRunAtATime
  BY <1>1 DEF IInv, OneJob, OneRunAtATime
<1>2. QED
  BY <1>1, Invariance, PTL

\* A contract shown as done has the row of every agent and a useful result.
THEOREM DoneMeansComplete == Spec => []DoneIsComplete
<1>1. IInv => DoneIsComplete
  BY DEF IInv
<1>2. QED
  BY <1>1, Invariance, PTL

\* The audit table never holds two 'sent' rows of a contract.
THEOREM SentRowIsUnique == Spec => []OneSentRow
<1>1. IInv => OneSentRow
  BY DEF IInv
<1>2. QED
  BY <1>1, Invariance, PTL

\* The provider accepts at most one message for each run of a contract.
THEOREM RunSendsOnce == Spec => []OneMessagePerRun
<1>1. IInv => OneMessagePerRun
  BY DEF IInv, MessageBudget, OneMessagePerRun
<1>2. QED
  BY <1>1, Invariance, PTL

\* The message of a first run is about a contract with a result to show.
THEOREM MessageIsTrue == Spec => []MessageHasResult
<1>1. IInv => MessageHasResult
  BY DEF IInv
<1>2. QED
  BY <1>1, Invariance, PTL

\* The rows of a contract do not change while it is shown as done.
THEOREM DoneIsFrozen == Spec => FrozenWhenDone
<1>1. IInv /\ [Next]_vars =>
        [\A c \in Contracts : status[c] = "done" => results'[c] = results[c]]_vars
  BY DoneKeepsResults DEF IInv
<1>2. QED
  BY <1>1, Invariance, PTL DEF Spec, FrozenWhenDone

\* What DoneRevokedOnlyBy allows to take `done` from a contract.
Revocation(c) ==
  \/ upload[c] = "refused"
  \/ \E w \in Workers : job[w] = c /\ pc[w] = "fatal"
  \/ requeues[c] > 0 /\ \E w \in Workers : job[w] = c /\ pc[w] = "claim"

LEMMA WhoRevokesDone ==
  ASSUME IInv, [Next]_vars, NEW c \in Contracts, status[c] = "done", status'[c] # "done"
  PROVE  Revocation(c)
<1>0. TypeOK /\ requeues[c] \in Nat /\ (NotStarted(c) => requeues[c] # 0)
  BY DEF IInv, FirstRun, TypeOK, HttpTypes
<1>1. ASSUME NEW d \in Contracts, UploadStep(d) PROVE Revocation(c)
  <2>1. upload[c] # "idle"
    BY <1>0 DEF IInv, FirstRun, NotStarted
  <2>2. QED
    BY <1>0, <1>1, <2>1, OtherRowSteps DEF Revocation
<1>2. ASSUME NEW d \in Contracts, Requeue(d) PROVE FALSE
  BY <1>2 DEF Requeue, table
<1>3. ASSUME NEW w \in Workers, Dequeue(w) \/ Abandon(w) PROVE FALSE
  BY <1>3 DEF Dequeue, Abandon, table
<1>4. CASE Flush \/ Reap \/ Tick \/ UNCHANGED vars
  BY <1>4, ReapRows DEF Flush, Tick, vars, table, Stuck
<1>5. ASSUME NEW w \in Workers, RunStep(w) PROVE Revocation(c)
  <2>1. status \in [Contracts -> Statuses] /\ status'[c] # status[c]
    BY <1>0 DEF TypeOK, RowTypes
  <2>2. job[w] = c /\ pc[w] \in {"claim", "final", "fatal"}
    BY <1>0, <1>5, <2>1, RunStepOrder DEF SetStatus, table
  <2>3. pc[w] # "final"
    BY <2>2 DEF IInv, ClaimTakesDone, AfterClaim
  <2>4. CASE pc[w] = "claim"
    <3>1. requeues[c] > 0
      BY <1>0, <2>2, <2>4 DEF NotStarted
    <3>2. QED
      BY <2>2, <2>4, <3>1 DEF Revocation
  <2>5. QED
    BY <2>2, <2>3, <2>4 DEF Revocation
<1>6. QED
  BY <1>1, <1>2, <1>3, <1>4, <1>5, CutIsAbandon DEF Next, WorkerStep

\* Neither the reaper nor a first run ever takes `done` from a contract.
THEOREM DoneRevocation == Spec => DoneRevokedOnlyBy
<1>1. IInv /\ [Next]_vars =>
        [\A c \in Contracts : status[c] = "done" /\ status'[c] # "done" => Revocation(c)]_vars
  BY WhoRevokesDone
<1>2. QED
  BY <1>1, Invariance, PTL DEF Spec, DoneRevokedOnlyBy, Revocation

-----------------------------------------------------------------------------
(***************************************************************************)
(* ContractLifecycle implements ContractPromise: for every number of       *)
(* contracts and workers, whatever fails.                                  *)
(***************************************************************************)

\* The mapped variables follow the workers of the contract.
LEMMA SameRun ==
  ASSUME NEW c \in Contracts,
         \A w \in Workers : job'[w] = job[w] /\ pc'[w] = pc[w]
  PROVE  Claimed(c)' = Claimed(c) /\ StoredFor(c)' = StoredFor(c)
  BY DEF Claimed, StoredFor

LEMMA InitPromise ==
  ASSUME Init, NEW c \in Contracts
  PROVE  Promise(c)!Init
<1>1. ~Claimed(c)
  BY ConstantsAssumption DEF Init, Claimed
<1>2. StoredFor(c) = {}
  BY ConstantsAssumption DEF Init, StoredFor
<1>3. QED
  BY <1>1, <1>2 DEF Promise!Init, Init, NoOutcome

-----------------------------------------------------------------------------
\* A contract has no row exactly as long as its upload has not begun.
NewIsIdle == \A c \in Contracts : upload[c] = "idle" <=> status[c] = "none"

LEMMA StepNewIsIdle ==
  ASSUME TypeOK, TypeOK', OneJob, NewIsIdle, [Next]_vars
  PROVE  NewIsIdle'
<1> USE DEF TypeOK, RowTypes, HttpTypes
<1>1. ASSUME NEW c \in Contracts, UploadStep(c) PROVE NewIsIdle'
  <2>1. \A d \in Contracts : d # c => upload'[d] = upload[d] /\ status'[d] = status[d]
    BY <1>1
    DEF UploadStep, Upload, EnqueueAccepted, EnqueueRefused, EnqueueAckLost, CommitJobId,
        CommitEnqueueFailed, UploadAborts, table
  <2>2. upload'[c] # "idle" /\ status'[c] # "none"
    BY <1>1
    DEF UploadStep, Upload, EnqueueAccepted, EnqueueRefused, EnqueueAckLost, CommitJobId,
        CommitEnqueueFailed, UploadAborts, table, NewIsIdle
  <2>3. QED
    BY <2>1, <2>2 DEF NewIsIdle
<1>2. ASSUME NEW c \in Contracts, Requeue(c) PROVE NewIsIdle'
  BY <1>2 DEF Requeue, table, NewIsIdle
<1>3. ASSUME NEW w \in Workers, Dequeue(w) \/ Abandon(w) PROVE NewIsIdle'
  BY <1>3 DEF Dequeue, Abandon, table, NewIsIdle
<1>4. ASSUME NEW w \in Workers, RunStep(w) PROVE NewIsIdle'
  <2>1. UNCHANGED upload /\ job[w] \in Contracts
    BY <1>4, RunStepFrame, RunHasContract DEF httpVars
  <2>2. upload[job[w]] # "idle"
    BY <2>1, <1>4, RunStepFrame DEF OneJob, Running
  <2>3. \/ UNCHANGED status
        \/ \E s \in {"processing", "done", "failed"} : status' = [status EXCEPT ![job[w]] = s]
    BY <1>4, RunStepOrder DEF table, SetStatus
  <2>4. QED
    BY <2>1, <2>2, <2>3 DEF NewIsIdle
<1>5. CASE Flush \/ Tick \/ UNCHANGED vars
  BY <1>5 DEF Flush, Tick, vars, table, httpVars, NewIsIdle
<1>6. CASE Reap
  BY <1>6, ReapRows DEF httpVars, Stuck, NewIsIdle
<1>7. QED
  BY <1>1, <1>2, <1>3, <1>4, <1>5, <1>6, CutIsAbandon DEF Next, WorkerStep

-----------------------------------------------------------------------------
\* What a step means for one contract.
Kept(c) == Promise(c)!Next \/ UNCHANGED Promise(c)!vars

\* A step that moves no worker and no results, and at most fails the row.
LEMMA RowStepKept ==
  ASSUME NEW c \in Contracts, UNCHANGED <<results, pc, job>>,
         \/ status'[c] = status[c]
         \/ status[c] = "none" /\ status'[c] = "uploaded"
         \/ status[c] # "none" /\ status'[c] = "failed"
  PROVE  Kept(c)
<1>1. Claimed(c)' = Claimed(c) /\ StoredFor(c)' = StoredFor(c)
  BY SameRun
<1>2. QED
  BY <1>1 DEF Kept, Promise!Next, Promise!Create, Promise!Overwrite, Promise!vars

\* The contract of one worker only sees what that worker does.
LEMMA OwnRun ==
  ASSUME TypeOK, OneJob, NEW w \in Workers, pc[w] # "idle"
  PROVE  /\ Claimed(job[w]) <=> pc[w] \in AfterClaim
         /\ StoredFor(job[w]) = RowsBefore(pc[w])
  BY OwnContract DEF Claimed, StoredFor

\* A worker that goes on, or rests, says nothing about the runs of others.
LEMMA OtherRun ==
  ASSUME TypeOK, OneJob, NEW w \in Workers, pc[w] # "idle",
         NEW c \in Contracts, c # job[w],
         \A v \in Workers : v # w => job'[v] = job[v] /\ pc'[v] = pc[v],
         job'[w] \in {job[w], NoContract}
  PROVE  Claimed(c)' = Claimed(c) /\ StoredFor(c)' = StoredFor(c)
  BY ConstantsAssumption DEF Claimed, StoredFor

\* Where its worker goes is where the run of the contract is.
LEMMA OwnStep ==
  ASSUME TypeOK, OneJob, NEW w \in Workers, pc[w] # "idle", NEW c, c = job[w],
         NEW label, UNCHANGED job, pc' = [pc EXCEPT ![w] = label]
  PROVE  /\ Claimed(c)' <=> label \in AfterClaim
         /\ StoredFor(c)' = RowsBefore(label)
<1>1. pc'[w] = label /\ \A v \in Workers : job[v] = c => v = w
  BY OwnContract DEF TypeOK, RunTypes
<1>2. QED
  BY <1>1 DEF Claimed, StoredFor

\* One statement of a run, seen from its contract.
LEMMA RunStepKept ==
  ASSUME IInv, NewIsIdle, NEW w \in Workers, RunStep(w), NEW c \in Contracts, c = job[w]
  PROVE  Kept(c)
<1>1. TypeOK /\ OneJob /\ pc[w] # "idle"
  BY RunStepFrame DEF IInv
<1>2. /\ Claimed(c) <=> pc[w] \in AfterClaim
      /\ StoredFor(c) = RowsBefore(pc[w])
  BY <1>1, OwnRun
<1>3. status[c] # "none"
  BY <1>1 DEF NewIsIdle, OneJob, Running
<1>4. ASSUME NEW label, Goto(w, label)
      PROVE  /\ Claimed(c)' <=> label \in AfterClaim
             /\ StoredFor(c)' = RowsBefore(label)
  BY <1>1, <1>4, OwnStep DEF Goto
<1>5. c \in Contracts /\ status \in [Contracts -> Statuses]
      /\ results \in [Contracts -> [Agents -> Outcomes]]
      /\ got[w] \in [Agents -> Outcomes]
  BY <1>1 DEF TypeOK, RowTypes, StoreTypes, RunTypes
<1> USE DEF Kept, Promise!Next
<1>6. ASSUME NEW label, Goto(w, label), UNCHANGED <<status, results>>,
             RowsBefore(label) = RowsBefore(pc[w]) \/ label \notin AfterClaim,
             label \in AfterClaim => pc[w] \in AfterClaim
      PROVE  Kept(c)
  <2>1. label \notin AfterClaim => RowsBefore(label) = {}
    BY DEF RowsBefore, AfterClaim, PastRisk, PastTax
  <2>2. pc[w] \notin AfterClaim => RowsBefore(pc[w]) = {}
    BY DEF RowsBefore, AfterClaim, PastRisk, PastTax
  <2>3. CASE pc[w] \in AfterClaim /\ label \notin AfterClaim
    <3>1. Claimed(c) /\ Claimed(c)' = FALSE /\ StoredFor(c)' = {}
      BY <1>2, <1>4, <1>6, <2>1, <2>3 DEF Claimed
    <3>2. Promise(c)!CutOff
      BY <1>6, <3>1 DEF Promise!CutOff
    <3>3. QED
      BY <3>2
  <2>4. CASE ~(pc[w] \in AfterClaim /\ label \notin AfterClaim)
    <3>1. Claimed(c)' = Claimed(c)
      BY <1>2, <1>4, <1>6, <2>4 DEF Claimed
    <3>2. StoredFor(c)' = StoredFor(c)
      BY <1>2, <1>4, <1>6, <2>1, <2>2, <2>4
    <3>3. status'[c] = status[c] /\ results'[c] = results[c]
      BY <1>6
    <3>4. UNCHANGED Promise(c)!vars
      BY <3>1, <3>2, <3>3 DEF Promise!vars
    <3>5. QED
      BY <3>4
  <2>5. QED
    BY <2>3, <2>4
<1>7. CASE Claim(w)
  <2>1. PICK label \in {"agents", "fatal"} :
           /\ Goto(w, label)
           /\ SetStatus(c, "processing") \/ (UNCHANGED table /\ label = "fatal")
    BY <1>7 DEF Claim, Transaction
  <2>2. UNCHANGED results
    BY <1>7 DEF Claim
  <2>3. CASE UNCHANGED table /\ label = "fatal"
    BY <1>6, <1>7, <2>1, <2>2, <2>3 DEF Claim, table, AfterClaim
  <2>4. CASE SetStatus(c, "processing")
    <3>1. status'[c] = "processing"
      BY <1>5, <2>4 DEF SetStatus
    <3>2. ~Claimed(c) /\ Claimed(c)' \in BOOLEAN /\ StoredFor(c)' = {}
      BY <1>2, <1>4, <1>7, <2>1
      DEF Claim, AfterClaim, RowsBefore, PastRisk, PastTax, Claimed
    <3>3. Promise(c)!Claim
      BY <1>3, <2>2, <3>1, <3>2 DEF Promise!Claim
    <3>4. QED
      BY <3>3
  <2>5. QED
    BY <2>1, <2>3, <2>4
<1>8. ASSUME NEW a \in Agents, NEW here \in AfterClaim, NEW next \in AfterClaim,
             Persist(w, a, here, next), got[w][a] # "none",
             a \notin RowsBefore(here), RowsBefore(next) = RowsBefore(here) \cup {a}
      PROVE  Kept(c)
  <2>1. PICK label \in {next, "fatal"} :
           /\ Goto(w, label)
           /\ SaveResult(c, a, got[w][a]) \/ (UNCHANGED results /\ label = "fatal")
    BY <1>8 DEF Persist, Transaction
  <2>2. UNCHANGED status
    BY <1>8 DEF Persist, table
  <2>3. CASE UNCHANGED results /\ label = "fatal"
    BY <1>6, <2>1, <2>2, <2>3 DEF AfterClaim
  <2>4. CASE SaveResult(c, a, got[w][a])
    <3>1. got[w][a] \in {"ok", "error"}
      BY <1>5, <1>8 DEF Outcomes
    <3>2. results'[c] = [results[c] EXCEPT ![a] = got[w][a]]
      BY <1>1, <1>5, <2>4 DEF SaveResult
    <3>3. Claimed(c) /\ a \notin StoredFor(c)
      BY <1>2, <1>8 DEF Persist
    <3>4. \/ Claimed(c)' = TRUE /\ StoredFor(c)' = StoredFor(c) \cup {a}
          \/ Claimed(c)' = FALSE /\ StoredFor(c)' = {}
      <4>1. CASE label = next
        BY <1>2, <1>4, <1>8, <2>1, <4>1 DEF Persist, Claimed
      <4>2. CASE label = "fatal"
        BY <1>4, <2>1, <4>2 DEF Claimed, AfterClaim, RowsBefore, PastRisk, PastTax
      <4>3. QED
        BY <4>1, <4>2
    <3>5. Promise(c)!Store(a)
      BY <2>2, <3>1, <3>2, <3>3, <3>4 DEF Promise!Store
    <3>6. QED
      BY <1>8, <3>5
  <2>5. QED
    BY <2>1, <2>3, <2>4
<1>9. CASE SaveRisk(w) \/ SaveTax(w) \/ SaveCounter(w)
  <2> USE DEF Agents, AfterClaim, RowsBefore, PastRisk, PastTax
  <2>1. CASE SaveRisk(w)
    <3>1. pc[w] = "saveRisk" /\ Persist(w, "risk", "saveRisk", "saveTax")
      BY <2>1 DEF SaveRisk, Persist
    <3>2. got[w]["risk"] # "none"
      BY <3>1 DEF IInv, MemoryIsStored
    <3>3. RowsBefore("saveTax") = RowsBefore("saveRisk") \cup {"risk"}
      OBVIOUS
    <3>4. QED
      BY <3>1, <3>2, <3>3, <1>8
  <2>2. CASE SaveTax(w)
    <3>1. pc[w] = "saveTax" /\ Persist(w, "tax", "saveTax", "counter")
      BY <2>2 DEF SaveTax, Persist
    <3>2. got[w]["tax"] # "none"
      BY <3>1 DEF IInv, MemoryIsStored
    <3>3. RowsBefore("counter") = RowsBefore("saveTax") \cup {"tax"}
      OBVIOUS
    <3>4. QED
      BY <3>1, <3>2, <3>3, <1>8
  <2>3. CASE SaveCounter(w)
    <3>1. pc[w] = "saveCounter" /\ Persist(w, "counter", "saveCounter", "final")
      BY <2>3 DEF SaveCounter, Persist
    <3>2. got[w]["counter"] # "none"
      BY <3>1 DEF IInv, MemoryIsStored
    <3>3. RowsBefore("final") = RowsBefore("saveCounter") \cup {"counter"}
      OBVIOUS
    <3>4. QED
      BY <3>1, <3>2, <3>3, <1>8
  <2>4. QED
    BY <1>9, <2>1, <2>2, <2>3
<1>10. CASE RunAgentsAB(w) \/ RunCounter(w)
  <2>1. CASE RunAgentsAB(w)
    BY <1>6, <2>1
    DEF RunAgentsAB, table, AfterClaim, RowsBefore, PastRisk, PastTax
  <2>2. CASE RunCounter(w)
    BY <1>6, <2>2
    DEF RunCounter, table, AfterClaim, RowsBefore, PastRisk, PastTax
  <2>3. QED
    BY <1>10, <2>1, <2>2
\* The verdict, by a run that has stored all rows.
<1>11. ASSUME pc[w] = "final", NEW label, label \notin AfterClaim, Goto(w, label),
              UNCHANGED results,
              status'[c] = IF ProducedAnything(w) THEN "done" ELSE "failed"
       PROVE  Kept(c)
  <2>1. Claimed(c) /\ StoredFor(c) = Agents
    BY <1>2, <1>11 DEF AfterClaim, RowsBefore, PastRisk, PastTax, Agents
  <2>2. Claimed(c)' = FALSE /\ StoredFor(c)' = {}
    BY <1>4, <1>11 DEF Claimed, AfterClaim, RowsBefore, PastRisk, PastTax
  <2>3. ProducedAnything(w) <=> \E a \in Agents : results[c][a] = "ok"
    BY <1>11 DEF IInv, MemoryIsStored, ProducedAnything, PastRisk, PastTax, Agents
  <2>4. ProducedAnything(w) <=> Promise(c)!Useful
    BY <2>3 DEF Promise!Useful
  <2>5. Promise(c)!Finish
    BY <1>11, <2>1, <2>2, <2>4 DEF Promise!Finish
  <2>6. QED
    BY <2>5
<1>12. CASE FinishDone(w)
  <2>1. PICK label \in {"notify", "fatal"} :
           /\ Goto(w, label)
           /\ SetStatus(c, "done") \/ (UNCHANGED table /\ label = "fatal")
    BY <1>12 DEF FinishDone, Transaction
  <2>2. CASE SetStatus(c, "done")
    BY <1>5, <1>11, <1>12, <2>1, <2>2 DEF FinishDone, SetStatus, AfterClaim
  <2>3. CASE UNCHANGED table /\ label = "fatal"
    BY <1>6, <1>12, <2>1, <2>3 DEF FinishDone, table, AfterClaim
  <2>4. QED
    BY <2>1, <2>2, <2>3
<1>13. CASE FinishFailed(w)
  <2>1. PICK label \in {"leave", "fatal"} :
           /\ Goto(w, label)
           /\ SetStatus(c, "failed") \/ UNCHANGED table
    BY <1>13 DEF FinishFailed, Return
  <2>2. pc[w] = "final" /\ ~ProducedAnything(w) /\ UNCHANGED results
    BY <1>13 DEF FinishFailed
  <2>3. CASE SetStatus(c, "failed")
    BY <1>5, <1>11, <2>1, <2>2, <2>3 DEF SetStatus, AfterClaim
  <2>4. CASE UNCHANGED table
    BY <1>6, <2>1, <2>2, <2>4 DEF table, AfterClaim
  <2>5. QED
    BY <2>1, <2>3, <2>4
<1>14. CASE Fatal(w)
  <2>1. Goto(w, "leave") /\ UNCHANGED results /\ pc[w] = "fatal"
    BY <1>14 DEF Fatal, Return
  <2>2. CASE UNCHANGED table
    BY <1>6, <2>1, <2>2 DEF table, AfterClaim, RowsBefore, PastRisk, PastTax
  <2>3. CASE SetStatus(c, "failed")
    <3>1. Claimed(c)' = Claimed(c)
      BY <1>2, <1>4, <2>1 DEF Claimed, AfterClaim
    <3>2. StoredFor(c)' = StoredFor(c)
      BY <1>2, <1>4, <2>1 DEF RowsBefore, PastRisk, PastTax
    <3>3. status'[c] = "failed" /\ results'[c] = results[c]
      BY <1>5, <2>1, <2>3 DEF SetStatus
    <3>4. Promise(c)!Overwrite
      BY <1>3, <3>1, <3>2, <3>3 DEF Promise!Overwrite
    <3>5. QED
      BY <3>4
  <2>4. QED
    BY <1>14, <2>2, <2>3 DEF Fatal
<1>15. CASE CheckNotify(w) \/ SkipNotify(w) \/ SendOk(w) \/ SendFailed(w) \/ Audit(w)
  <2>1. PICK label \in {"send", "audit", "leave"} : Goto(w, label)
    BY <1>15 DEF CheckNotify, SkipNotify, SendOk, SendFailed, Audit, Return
  <2>2. UNCHANGED <<status, results>>
    BY <1>15 DEF CheckNotify, SkipNotify, SendOk, SendFailed, Audit, table
  <2>3. label \notin AfterClaim
    BY DEF AfterClaim
  <2>4. QED
    BY <1>6, <2>1, <2>2, <2>3
<1>16. CASE Leave(w)
  <2>1. UNCHANGED <<status, results>> /\ pc[w] = "leave" /\ Rest(w)
    BY <1>16 DEF Leave, table
  <2>2. ~Claimed(c) /\ StoredFor(c) = {}
    BY <1>2, <2>1 DEF AfterClaim, RowsBefore, PastRisk, PastTax
  <2>3. \A v \in Workers : job'[v] # c
    BY <1>1, <2>1, OwnContract, ConstantsAssumption DEF Rest, TypeOK, RunTypes
  <2>4. ~(Claimed(c)') /\ StoredFor(c)' = {}
    BY <2>3 DEF Claimed, StoredFor
  <2>5. Claimed(c)' = Claimed(c)
    BY <2>2, <2>4 DEF Claimed
  <2>6. status'[c] = status[c] /\ results'[c] = results[c] /\ StoredFor(c)' = StoredFor(c)
    BY <2>1, <2>2, <2>4
  <2>7. UNCHANGED Promise(c)!vars
    BY <2>5, <2>6 DEF Promise!vars
  <2>8. QED
    BY <2>7
<1>17. QED
  BY <1>7, <1>9, <1>10, <1>12, <1>13, <1>14, <1>15, <1>16 DEF RunStep

\* A worker that is cut off, seen from its contract.
LEMMA AbandonKept ==
  ASSUME IInv, NEW w \in Workers, Abandon(w), pc[w] # "idle",
         NEW c \in Contracts, c = job[w]
  PROVE  Kept(c)
<1>1. TypeOK /\ OneJob
  BY DEF IInv
<1>2. UNCHANGED <<status, results>> /\ Rest(w)
  BY DEF Abandon, table
<1>3. \A v \in Workers : job'[v] # c
  BY <1>1, <1>2, OwnContract, ConstantsAssumption DEF Rest, TypeOK, RunTypes
<1>4. Claimed(c)' = FALSE /\ StoredFor(c)' = {}
  BY <1>3 DEF Claimed, StoredFor
<1>5. CASE pc[w] \in AfterClaim
  <2>1. Claimed(c)
    BY <1>1, <1>5, OwnRun
  <2>2. Promise(c)!CutOff
    BY <1>2, <1>4, <2>1 DEF Promise!CutOff
  <2>3. QED
    BY <2>2 DEF Kept, Promise!Next
<1>6. CASE pc[w] \notin AfterClaim
  <2>1. Claimed(c) = FALSE
    BY <1>1, <1>6, OwnRun DEF Claimed
  <2>2. StoredFor(c) = {}
    BY <1>1, <1>6, OwnRun DEF AfterClaim, RowsBefore, PastRisk, PastTax
  <2>3. UNCHANGED Promise(c)!vars
    BY <1>2, <1>4, <2>1, <2>2 DEF Promise!vars
  <2>4. QED
    BY <2>3 DEF Kept
<1>7. QED
  BY <1>5, <1>6

\* A worker's step, seen from a contract that is not its own.
LEMMA OtherKept ==
  ASSUME IInv, NEW w \in Workers, pc[w] # "idle", RunStep(w) \/ Abandon(w),
         NEW c \in Contracts, c # job[w]
  PROVE  Kept(c)
<1>1. TypeOK /\ OneJob /\ job[w] \in Contracts
  BY RunHasContract DEF IInv
<1>2. \A v \in Workers : v # w => job'[v] = job[v] /\ pc'[v] = pc[v]
  BY <1>1, RunStepOrder, RunStepFrame DEF Abandon, Rest, TypeOK, RunTypes
<1>3. job'[w] \in {job[w], NoContract}
  BY <1>1, RunStepFrame DEF Abandon, Rest, TypeOK, RunTypes
<1>4. Claimed(c)' = Claimed(c) /\ StoredFor(c)' = StoredFor(c)
  BY <1>1, <1>2, <1>3, OtherRun
<1>5. status'[c] = status[c]
  BY <1>1, RunStepOrder DEF Abandon, table, SetStatus, TypeOK, RowTypes
<1>6. results'[c] = results[c]
  BY <1>1, RunStepResults DEF Abandon
<1>7. UNCHANGED Promise(c)!vars
  BY <1>4, <1>5, <1>6 DEF Promise!vars
<1>8. QED
  BY <1>7 DEF Kept

\* A worker takes a job: its run has not been claimed.
LEMMA DequeueKept ==
  ASSUME IInv, NEW w \in Workers, Dequeue(w), NEW c \in Contracts
  PROVE  Kept(c)
<1>1. /\ pc[w] = "idle" /\ pc'[w] = "claim"
      /\ \A v \in Workers : v # w => job'[v] = job[v] /\ pc'[v] = pc[v]
      /\ UNCHANGED <<status, results>>
  BY DEF Dequeue, table, IInv, TypeOK, RunTypes
<1>2. Claimed(c)' = Claimed(c)
  BY <1>1 DEF Claimed, AfterClaim
<1>3. RowsBefore(pc[w]) = {} /\ RowsBefore(pc'[w]) = {}
  BY <1>1 DEF RowsBefore, PastRisk, PastTax
<1>4. StoredFor(c)' = StoredFor(c)
  BY <1>1, <1>3 DEF StoredFor
<1>5. UNCHANGED Promise(c)!vars
  BY <1>1, <1>2, <1>4 DEF Promise!vars
<1>6. QED
  BY <1>5 DEF Kept

\* Every step of the pipeline is a step of the promise, or none.
LEMMA StepKept ==
  ASSUME IInv, NewIsIdle, [Next]_vars, NEW c \in Contracts
  PROVE  Kept(c)
<1>1. ASSUME NEW d \in Contracts, UploadStep(d) PROVE Kept(c)
  <2>1. UNCHANGED <<results, pc, job>>
    BY <1>1, OtherRowSteps DEF IInv, runVars
  <2>2. \/ status'[c] = status[c]
        \/ status[c] = "none" /\ status'[c] = "uploaded"
        \/ status[c] # "none" /\ status'[c] = "failed"
    BY <1>1, OtherRowSteps DEF IInv, NewIsIdle
  <2>3. QED
    BY <2>1, <2>2, RowStepKept
<1>2. ASSUME NEW d \in Contracts, Requeue(d) PROVE Kept(c)
  BY <1>2, RowStepKept DEF Requeue, table, runVars
<1>3. CASE Flush \/ Tick \/ UNCHANGED vars
  BY <1>3, RowStepKept DEF Flush, Tick, vars, table, runVars
<1>4. CASE Reap
  BY <1>4, ReapRows, RowStepKept DEF Stuck, runVars
<1>5. ASSUME NEW w \in Workers, Dequeue(w) PROVE Kept(c)
  BY <1>5, DequeueKept
<1>6. ASSUME NEW w \in Workers, RunStep(w) PROVE Kept(c)
  BY <1>6, RunStepFrame, RunStepKept, OtherKept
<1>7. ASSUME NEW w \in Workers, Abandon(w), pc[w] # "idle" PROVE Kept(c)
  BY <1>7, AbandonKept, OtherKept
<1>8. QED
  BY <1>1, <1>2, <1>3, <1>4, <1>5, <1>6, <1>7, CutIsAbandon DEF Next, WorkerStep

-----------------------------------------------------------------------------
\* Whoever reads the database may go by ContractPromise: the pipeline, with all
\* its workers, crashes and lost answers, does nothing else to a contract.
THEOREM PromiseKept == Spec => ImplementsPromise
<1>1. Init => \A c \in Contracts : Promise(c)!Init
  BY InitPromise
<1>2. Init => NewIsIdle
  BY DEF Init, NewIsIdle
<1>3. IInv /\ IInv' /\ NewIsIdle /\ [Next]_vars => NewIsIdle'
  BY StepNewIsIdle DEF IInv
<1>4. IInv /\ NewIsIdle /\ [Next]_vars
        => [\A c \in Contracts : Promise(c)!Next \/ UNCHANGED Promise(c)!vars]_vars
  BY StepKept DEF Kept
<1>5. QED
  BY <1>1, <1>2, <1>3, <1>4, Invariance, PTL DEF Spec, ImplementsPromise
=============================================================================
