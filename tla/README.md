# LegalShield: a TLA+ verification of the contract pipeline

LegalShield takes a contract as a PDF, lets three LLM agents analyse it in a background
job, shows the result on a page that polls, and sends the counter-draft on request. This directory models the parts of
`src/backend/app` where several processes meet in PostgreSQL, Redis and the outside world,
checks them with TLC on small instances, and proves the central ones with TLAPS.

    tlc -config Lifecycle_faults.cfg MCLifecycle.tla     # one run
    tlapm ContractLifecycleProofs.tla                    # the proofs

## 1. The system

| Part | State it keeps | Operations | Talks to |
|---|---|---|---|
| Upload route (`api/routes_upload.py`) | row of `contracts` | `upload_contract` | queue (call), database |
| Queue (`services/queue.py`, RQ) | list of jobs in Redis, registry of failed jobs, cached connection | `enqueue_analysis`, dequeue, timeout, requeue | workers |
| Worker (`worker.py`) | the job it runs, its clock | run a job, host the reaper thread | queue, orchestrator |
| Orchestrator (`agents/orchestrator.py`) | statuses, `analysis_results` | `run_analysis` and its transactions | agents, skill store, WhatsApp |
| WhatsApp (`services/whatsapp.py`) | `whatsapp_sends` | check, send, audit | Fonnte (HTTP) |
| Reaper (`services/reaper.py`) | none | `reap_stuck_contracts` every 300 s, one thread per worker | `contracts` |
| Rate limiter (`services/rate_limit.py`) | counters in Redis, `_local` per process | `check` | every request, every upload |
| Skill store (`services/skill_store.py`) | `clause_patterns` | `save_new_patterns`, `get_active_patterns` | risk agent, orchestrator |
| Seeding (`services/seed_loader.py`, `seed.py`) | curated rows of `clause_patterns` | `seed_clause_patterns` | deployment |
| LLM client (`services/llm_client.py`) | none | `chat_completion_json`, `extract_json_object` | LLM provider, through the SDK |
| Agents, findings (`services/findings.py`) | none | three agents, normalisation of findings | LLM client, skill store |
| Pages and front-end (`routes_pages.py`, `app.js`, templates) | open pages, `_stopped` | two pollers, stop on a terminal state | `contracts`, `analysis_results` |
| Negotiation, mailer (`routes_negotiate.py`, `mailer.py`) | `negotiation_sends` | `send_negotiation` | `contracts`, `analysis_results`, SMTP |
| Middleware, owner identity (`middleware.py`, `security.py`, `api/deps.py`) | two cookies in the browser, ephemeral key | limit, gate, owner, ownership of a read | every request |
| Sessions (`db/session.py`) | engines per event loop | get, dispose | all of the above |
| Validation, contract filter (`upload_validation.py`, `contract_filter.py`) | the buffer of an upload | header, bounded read, payload, score | upload route |
| Migrations (`alembic/`) | the schema | up, down | `clause_patterns`, `analysis_results` |

What is hard in it, and what makes each part correct:

* **Nobody owns a contract.** The upload handler, the run, and the reaper all write
  `contracts.status` unconditionally, each in a transaction of its own. Correct: a claimed
  contract is not reaped, runs of a contract do not overlap, `done` is complete and stable,
  and every contract settles.
* **The queue and the table are two systems.** An enqueue can be refused, or taken with the
  answer lost; Redis keeps nothing on disk (`docker-compose.yml`); a worker dies anywhere.
* **Timeouts are exceptions.** RQ raises in the work horse at 600 s from a signal handler, so
  any statement may fail, including the one that records a failure; RQ's parent kills the
  horse a minute later.
* **A message cannot be taken back.** The WhatsApp check, the send and the audit row are
  three steps. Correct: no run sends twice, and no message is about nothing.
* **The limiter has two memories.** A hit may be counted by Redis, by the process, or both.
  Correct: neither memory lets more than the limit
  into a window for each life of its counter, and nobody is refused early.
* **The skill store is shared by overlapping runs** of an owner, under READ COMMITTED with
  row locks held for a whole batch, and it must keep owners apart.
* **A provider may do anything**: hang, refuse JSON mode, answer with prose, fences or half an
  object. Correct: the call ends, a provider that hangs surfaces before the job's time is up,
  and the object that was meant is the one that is found.
* **A mail leaves before it is recorded**, and the draft is read in a second statement after
  the status. Correct: row, mail and answer agree, and what is mailed is a finished draft.
* **A page reads twice and late.** The result partial reads the contract, then its rows, and
  its answer is swapped in later, while runs begin and end. Correct: a page that says `done`
  is complete, it does not stop before the verdict, and its button sends the text it shows.
* **An identity is a cookie**, minted by whichever request comes first, signed with a key that
  may die with its process, and set by answers that may be overtaken or lost. Correct: nobody
  reads another's contract, and only a browser that lost its identity loses its contracts.
* **Ownership came later.** Migration 0005 classifies old rows by their counts and forgets the
  owners on the way down. Correct: what one owner taught is in nobody else's prompts.
* **Anyone may upload anything.** Correct: the buffer of an upload is bounded, repeating a word
  buys no more than it dilutes the penalty, and a number that is accepted is the number that is used.

`PROJECT.json` lists every component with its status and every hazard at its line.

## 2. Modules

    ContractPromise             one contract, as whoever reads the database may rely on it
    ContractLifecycle           upload, queue, workers, orchestrator, WhatsApp, reaper;
                                  implements ContractPromise
      MCLifecycle                 instances, symmetry, a deployment in good health
      ContractLifecycleProofs     type invariant, inductive invariant, eight properties, and
                                    the refinement
    Negotiation                 POST /contracts/{id}/send and the SMTP session, over a
                                  contract of ContractPromise
      MCNegotiation               agents and their rows
      NegotiationProofs           type invariant, inductive invariant, three properties; then
                                    the same of ResultPage, two more
    ResultPage                  a tab on that contract, whose button makes the requests of
                                  Negotiation
      MCResultPage                agents and their rows
    Findings                    from a reply or a dataset to what the store is given (operators)
    PatternReads                seeding, learning, migration 0005 and get_active_patterns
                                  against a reference (uses Findings)
      MCPatterns                  replies and datasets
      ReadsProofs                 type invariant, five properties
    PatternWrites               save_new_patterns, statement by statement
      WritesProofs                type invariant, inductive invariant, three properties
    RateLimit                   both counters of the limiter
      MCRateLimit                 instances
      RateProofs                  type invariant, inductive invariants, four properties
    LlmReply                    from a reply to a JSON object: the code and references
    LlmClient                   one call of the model: retries, fallback, time (uses LlmReply)
      MCLlm                       the replies
      LlmProofs                   type invariant, inductive invariant, four properties
    OwnerIdentity               the middlewares, the two cookies, the ownership of reads
      MCOwner                     tokens, symmetry
      OwnerProofs                 type invariant, inductive invariant, four theorems
    ContractFilter              the score of a document (operators)
    Intake                      an upload up to its acceptance (uses ContractFilter)
      MCIntake                    a lexicon
      IntakeProofs                inductive invariant, three properties

`ContractPromise` is the joint between the two halves. Below it, `ContractLifecycle` has every
statement of the writers and is shown to do nothing else to a contract; above it, the route that
sends the draft and the result page are checked and proved beside a contract that may do all
it allows, so that what holds for them holds beside the real pipeline.

A definition whose comment begins with *Faulty variant* is the definition below it with a
plausible bug (a dropped guard, a missing reset, a second attempt). No run uses it;
substituted for the definition below it, it breaks the property it was written for, which
shows that the property depends on that line of the code.

### ContractLifecycle

| Variables | Code |
|---|---|
| `status`, `error`, `age` | columns `status`, `error`, and the time since `updated_at`, of `contracts` |
| `results` | `analysis_results`: no row, a payload (`ok`), or an error, for each agent |
| `sentRows`, `delivered` | rows `sent` of `whatsapp_sends`; messages Fonnte accepted |
| `upload`, `opened` | the `await` at which the handler of a contract stands; how long its second transaction has been open |
| `queue`, `failedJobs`, `requeues` | RQ's list, its `FailedJobRegistry`, operator requeues |
| `pc`, `job`, `clock`, `got` | statement, argument, age and local results of each run |

An action is one transaction, one Redis call or one provider call, so actors interleave
exactly where the code lets go. `Transaction` gives every transaction of a run three
outcomes: it commits and the run goes on; it commits and the run learns of an error; it does
not commit and the run learns of one. Errors come from the database (`"db" \in Faults`) or,
from `JobTimeout` on, from RQ's alarm. `Crash`, `TimeoutEscapes` and `KillHorse` end a run
between any two statements; what they leave in `failedJobs` an operator may put back.
After `run_analysis` has returned the job still disposes of its engine before it reports to RQ
(`Leave`): a run cut off there is filed as failed although its message is out, and when the job
is put back only the check for a `sent` row keeps it from sending a second one.
A horse that died in the middle of a transaction has either committed it or not, and both are
states between two statements.

Abstracted: the agents to success or failure, texts and times to nothing, the ids of jobs to
their contract. `run_analysis`' early returns for a missing row or empty text are left out:
no route deletes a contract, and the upload refuses empty text. Time is discrete; a Tick ages
every stuck row and every running job by one. `age` counts only in `uploaded` and
`processing`, the statuses the reaper asks for, and only up to one past the timeout, since
older rows are treated alike. The orchestrator's clock and the database's are one.

`updated_at` is `now()`, in PostgreSQL the time at which a transaction began. The short
transactions of a run begin and commit in one step, but the upload handler reads its row back
before the enqueue (`routes_upload.py:135`) and commits behind it (`:148`): `CommitJobId` and
`CommitEnqueueFailed` set `age` to `opened`, which can put a claimed row back behind its claim.
So `ClaimedJobNotReapable` excuses a contract whose handler held that transaction for longer than
`Margin`, what the stuck timeout leaves beyond the kill: 900 - 600 - 60 s, some 240 s less a
monitoring interval. The enqueue in between is synchronous with timeouts of 5 s each, but an event loop that
other handlers block gives no hard bound; beyond the margin `reaper.py:12-14` does not hold.

The refinement (`Promise(c)`, an INSTANCE of `ContractPromise` for each contract) maps `status`
and `results` to themselves, `running` to whether a run has claimed the contract and not yet
given its verdict (`Claimed`), and `stored` to the agents whose rows that run has written
(`StoredFor`). Waiting, sending and reporting are stutters. The operator's requeue after `done`
is a `Claim`; the refused upload handler, the outer exception handler and the reaper are
`Overwrite`; crash, alarm and kill are `CutOff`.

### RateLimit

`redis` holds a count and an expiry for each key and window, `local` the dictionary of each
process, `call` the check a process is in. `now` is read in `Begin`; Redis counts at another
tick, at most `MaxWait` later. `HitRedis` and `HitLocal` are the two ends of a check, the
latter with a hit that Redis may have counted all the same. The clock has ticks of a fraction
of a second, because `now` does and `Retry-After` does not. `hits`, `attempts`, `byRedis` and
`byLocal` only record what happened; `Tick` forgets the latter three for windows no call can reach.
`FallbackAdmitsLimit` speaks of the keys whose window divides every other (`Shortest`): the minute of
`req:` divides the hour of `upload:`, and a sweep by an hour key never takes a minute that is still
open. The hour keys themselves lose the bound, as `ratelimit_eviction` shows.

### PatternWrites, PatternReads

`PatternWrites` takes a save apart into the statements the session sends: a SELECT per
finding, the pending change of the previous finding flushed before it, and a commit. `own` is
what the transaction has written and locked, `obj` the object the session still holds, with
the confidence it believes to be stored, because SQLAlchemy writes a column only if it
changed. A write waits for the row another transaction has written (`WaitsFor`); a duplicate
raises; PostgreSQL ends one transaction of a circle. A failed save is swallowed by
`_persist_agent`, and with it the whole batch.

`PatternReads` puts atomic saves, seedings and migration 0005 together into tables, and in each
of them compares the query, the over-fetch and the dedupe loop with a reference: the best row
of each clause the caller may read. `rank` ranges over every order of the rows that ORDER BY
leaves equal. `scoped` tells whether the table has its `owner_id`; only then the program
serves, since deployments migrate first. A row's `by` is no column: it remembers who brought it
in, through a downgrade that forgets. Before ownership a clause has one row, because migration
0002 made the fingerprint unique. What a save is given comes out of `Findings`, from replies
with entries that are no objects, have no text, or have a confidence that is a number, a
text, a percentage, something else, absurd, NaN, or an integer on which `float()` raises: that one costs the
whole reply (`Overflows`). The reference reads a confidence as `findings.py:45-48` says (`Sure`); what
is beyond certainty or NaN is named apart (`Odd`), and the property says that it may be learned, not that
it is sure.

### LlmReply, LlmClient

`LlmReply` has no state. A reply is a sequence of the characters that the scanner and JSON
tell apart: brackets, quotation mark, backslash, fence, anything else. `Read` is `json.loads`
(external) as a reader with a stack; white space, commas, colons and keys are left out, so
that a text is JSON when its brackets and strings nest and it is one value.
`ExtractJsonObject` and `OutermostObject` are the code, the latter with the loop as a
recursive function over the positions, as the reader is one. `FirstBalanced` is the reference: the braces outside
of strings, and a character is escaped behind an odd number of backslashes.

| `LlmClient` | Code |
|---|---|
| `pc`, `attempt`, `plain` | the loop of `chat_completion_json`, and whether the request goes without `response_format` |
| `tries` | what the OpenAI SDK has sent again of this request (`max_retries`) |
| `raw`, `found` | the reply and the object in it |
| `spent`, `answered` | LLM timeouts waited for a provider that has not answered yet (history) |

`Hang` is `APITimeoutError`, `Refuse` an error answer that the SDK tries again or not, and
whose text may name `response_format`. Other errors than those of the provider (a lost
connection) are `Refuse(FALSE)`. The SDK's pauses between its tries, some 1.5 s in all for a
request, are left out of `spent`, and an answer takes no time. The three agents call as one
each; A and B wait side by side, C after them, hence `Phases`.

### Negotiation

| Variables | Code |
|---|---|
| `smtp`, `recipient` | `SMTP_HOST` is set; the address in the request's body |
| `status`, `results`, `running`, `stored` | the contract of `ContractPromise`; the row of agent C holds the draft |
| `analyses` | runs begun (history, and the bound) |
| `pc`, `text`, `outcome` | the `await` or SMTP command of a request, and its local variables |
| `mailed`, `row`, `answer` | mails the server took, the row in `negotiation_sends`, the HTTP status |
| `seen` | the run whose contract the request found `done` (history) |

The contract changes as `ContractPromise` lets it (`Begin` is its `Claim`, counted; `Proceed` all
the rest), which is what `ContractLifecycle` implements. `Load` is one action because the status was read by the lookup; the draft is a
statement of its own that sees a later commit. `Transmit` may raise although the server took
the mail. `RecordFails` is a commit that raises, with the row there or not, or an insert that
PostgreSQL refuses. A recipient is valid or not for the mailer, which strips it first, and too long or not
for the column, which gets it as it came (`Recipients`). The text of the mail, and which of the SMTP exceptions occurs, are left out.

### ResultPage

`poll` is the request of the result area, at most one at a time as htmx queues a second; `shown` is what
the area shows, `stopped` the flag of `checkTerminal`, `offered` what the page showed when the
button was pressed. `PartialResult` lists the two statements of the handler in their order, and
the contract may change between them and before the swap. A click on the area asks again after
the page has stopped, because htmx's default trigger is what is left of the element. The status
area asks likewise, but what it shows decides nothing. The runs a page has seen are told apart
by number (`run`), which the code does not have; only properties look at it.

### OwnerIdentity

| Variables | Code |
|---|---|
| `secretKey`, `boots`, `token` | whether `SECRET_KEY` is set; each replica's process, whose ephemeral key is `<<replica, boots>>`; its `ACCESS_TOKEN` |
| `contracts` | `owner_id` of a contract, which is named after the request that stored it |
| `jar`, `msg` | a browser's cookies now, and as the request took them along |
| `pc`, `cookies`, `answer` | a request under way, what its answer will set, its status |
| `excused` | browsers that cleared their cookies or sent a second request before the first had brought one (history) |

A request is served in one step, since what the layers read is fixed for the life of a process
and the route touches `contracts` once; it is sent, served and answered at different times. The
order limit, gate, owner is that of `main.py:54-56`; `TooMany` and `Refuse` do not reach the owner layer,
`Raise` passes by both. A token that is not ASCII makes `hmac.compare_digest` raise, a 500 of the gate. The
route's own refusals, its hourly 429 among them (`routes_upload.py:52-59`), are made inside of all layers and
carry an owner cookie like any answer; `RefusedLeavesNothing` tells the two kinds of 429 apart
(`TurnedAway`). `Deliver` forgets the failures that no property looks at. The HMAC is an unforgeable pair of id and key.

### Intake, ContractFilter

`Intake` follows `upload_contract` check by check, with the body read chunk by chunk; the
document is chosen at the start, its text at `Extract`, its phone number at `CheckPhone`; `enabled` is
`contract_filter_enabled`, without which the score is taken and not asked. `buf` is `read_limited`'s own
bytearray: the framework has spooled the whole body before the handler runs, and `bytes(buf)` copies it.
`ContractFilter` scores a text of words: n-grams of the lexicon capped at three occurrences,
phrases over terms, markers on the text whose line breaks are gone, penalty and threshold, in
thousandths. `Saturated` puts a rational function with the first terms of the exponential series
in place of `1 - exp(-x)`: like it, it is 0 at 0, grows, and stays below 1. Scores are therefore
not the code's to the digit; what a further word can do to them (`Stuffed`) is what the run asks.

## 3. Runs

| Run | Question | Result |
|---|---|---|
| `lifecycle_faults` | Does one contract survive every fault, twice requeued, settle, and keep to `ContractPromise`? | holds |
| `lifecycle_backlog` | `reaper.py:12-14`: is a healthy job never reaped? | violated |
| `page_send` | Do row, mail, answer, draft and page agree under every fault? | holds |
| `negotiation_trail` | `README.md:262`: is every attempt recorded? | violated |
| `visit` | Who reads what, and who keeps an identity? | holds |
| `intake` | Is an upload bounded, its score honest and its number stable? | holds |
| `ratelimit_shared` | Are both counters sound with lost answers, slow calls and a restart? | holds |
| `ratelimit_eviction` | `rate_limit.py:55`: are only closed windows evicted? | violated |
| `patterns_overlap` | What can overlapping saves lose, and do they end? | holds |
| `patterns_tables` | Does the reader show the best rows, and only the caller's, whatever was seeded, learned and migrated? | holds |
| `llm_call` | Does a call end, in time, with the object that was meant? | holds |
| `llm_fence` | `llm_client.py:93`: refused only if nothing is parseable? | violated |

What the four violations show:

* **A waiting job is reaped** (`lifecycle_backlog`). The stuck timeout is longer than a job
  may *run*, and the sweep also takes `uploaded` rows whose job *waits*. The run is free of
  faults, and no time passes while a worker could have taken or claimed a job. The job is
  not cancelled, so its contract later goes from `failed` to `done`.
* **An open hour window evicted** (`ratelimit_eviction`). The sweep compares every key with
  the window of the key at hand, and minutes start later than hours.
* **An object refused for a fence in its string** (`llm_fence`). The fence is searched for
  anywhere, and what is in it is tried before the reply as a whole. When it is JSON other than
  an object, the reply is refused; when it is an object, it replaces the reply.
* **An attempt without a record** (`negotiation_trail`). No length is checked before the
  insert, and the mailer hands every address back. Beyond 256 characters PostgreSQL refuses
  the row, the handler raises, and the answer is 500. An address padded in front beyond the column is valid for
  the mailer, so here the mail is out as well.

Disagreements that are in the models, or next to them, without a run of their own:

* `orchestrator.py:115-116` has `failed` only if every agent failed; an exception behind the
  first stored result makes it `failed` too (`Overwrite` of `ContractPromise`).
* `orchestrator.py:227` has no second message; a run that dies between send and audit row and
  is put back sends again. What holds is one message per run (`OneMessagePerRun`).
* `rate_limit.py:9` has the limit hold across replicas. A counter outlives its window by one second
  (`:73`), a call may block for ten (`queue.py:39-40`); a call that began in the window and
  is counted after that second finds a new counter, which admits the limit once more
  (`Lifetimes`; with the code's numbers it is 2). A bound of once per restart is violated
  whenever `MaxWait > Second`.
* `config.py:42-43` has 0 lift the caps of an upload; for the size it makes the limit zero bytes.
* `findings.py:47-48` has everything uninterpretable become 0.0; NaN becomes 1.0 (`NormalizeConfidence`,
  `Odd`), and so does `20000%`, while `7500%` is read as 0.75.
* `findings.py:6-7` has no single malformed entry break a reply; an integer confidence of more than
  308 digits raises OverflowError at `:53`, and the agent has failed with all its findings (`Overflows`).
* `contract_filter.py:20-21` has the cap of three stop a repeated word from gaming the score, and
  `README.md:58-60` has CVs, invoices and recipes stay below 0.35. The penalty is over the length of the document
  (`:249`), so repeating a capped word, or any filler, dilutes it: 60 tokens with contributions of 30 and 12
  score 0.20 and are refused; with 120 times `pihak` behind them they score 0.39 and are
  accepted. `StuffingBuysOnlyRelief` bounds the gain by the relief, 0.4 in all; the instance of `intake`
  has documents that cross the threshold so.
* `reaper.py:12-14` holds for a claimed job only within `Margin` (see ContractLifecycle).
* `rate_limit.py:16` has the fallback bound a process; for `upload:` keys the sweep of `req:` hits breaks that too
  (`ratelimit_eviction`).
* `contract_filter.py:178` looks for numbered lines in a text without line breaks
  (`NumberedLines` of the normalised words is at most one, where three are asked for).

What the properties of the newer runs say. `DonePageIsComplete` depends on the order of the two
statements: contract first, rows second, so that rows are never older than the status that
vouches for them. `Reachable` says that, with a `SECRET_KEY`, a browser that was told of
its contract holds a cookie that reaches it over every restart, unless it cleared its cookies or
sent two first requests side by side; without a key, or in those cases, it may not.
`ShownIsOwnOrCurated` survives the downgrade, although that forgets the owners, because only
rows that count nothing come back as curated and a learned row always counts.

**Bounds.** `lifecycle_faults` has one contract, since no action reads two (the sweep treats
each on its own, and the queue only delays; the theorems below cover any number), two workers
and two requeues, so that three runs follow each other, each cut off anywhere; its alarm, kill
and stuck timeout differ (1, 2, 3). `ratelimit_shared` has windows of two and four ticks, a clock that
gets to the third of the short ones, and calls that may block for three ticks where a second has two: a counter can then
expire and be new again while a call of its window is still under way. It has two keys, one with a window
of one second and one of two, and the fallback is always over its bound, so that every hit sweeps
what is there of the other. Four hits against a limit of one let every counter pass it; two processes share Redis. `patterns_overlap` has two runs of two findings over two clauses:
enough for a lost update, a collision and a circle of waits, and for a clause that is twice
in one batch. `patterns_tables` has two owners, three clauses, a prompt of two and counts up
to two; a clause has at most two visible rows, and three of them make the over-fetch and the
cap matter. `llm_call` has the configured numbers: two SDK retries, one JSON retry, a job of
ten LLM timeouts. Its replies are all of at most three characters, objects with up to three
characters or a string of up to three between prose, quotation marks, braces and fences, their
cut beginnings, and objects whose string holds a fenced block: an escape behind a quotation
mark, a brace in a string and a brace before the object all occur. `page_send` has one request, two drafts,
one of them empty, a contract that is analysed twice, so that the second run comes between any
two steps of the page and of the request, and agent C alone: with one agent the rows are all or
nothing, and the theorems about `Negotiation` cover any agents. `visit` has one replica that
restarts, which to a cookie is what a second replica is, with two tokens; three requests make
two strangers of one browser and a read of what they stored. `intake` has limits of a few
units, sizes around each of them, texts of up to six words (the fourth occurrence of a word is
where the cap works, and from the sixth word on one negative word's penalty is diluted) and numbers around both limits of their length. `patterns_tables` reads
replies of two entries, one good and one of any kind, in either order. Every bound on a counter (`MaxRequeues`, `MaxHits`, `MaxRestarts`, `MaxClock`,
`MaxBatch`, `MaxCount`, `MaxTime`, `MaxAnalyses`,
`MaxBoots`, `MaxToken`, `MaxSize`, `MaxWords`, `MaxPhone`) is a CONSTANT and a guard; the proofs assume nothing of
`MaxRequeues` but that it is a number.

Deadlock is checked in `patterns_tables`, which can always migrate. All other runs stop when the
uploads, requeues, restarts, time, requests or attempts they may make are used up.

**Fairness.** `SettlesForGood` assumes that time passes, that RQ's parent process kills a
horse that reached its limit (`rq` does so on its own timer), and that a sweep is tried again
and again: `run_reaper_forever` catches everything, sleeps and repeats. Nothing is assumed of
the upload handlers, the workers, Redis or the operator; a run that hangs, a queue that
nobody serves and a lost answer are all behaviours. It says that a contract ends up in
`done` or `failed` for ever, because there are finitely many requeues. `SaveEnds` assumes
that a worker goes on with its save and that PostgreSQL breaks circles. `CallEnds` assumes
that a call always goes on, because the SDK's timeout ends every wait; the provider may choose
the worst answer every time. `PageShowsVerdict` assumes `Polling`: the timer of an area that is not
stopped fires (weak fairness, htmx's `every 3s`), and a request that is asked again and again
is answered and swapped some time (strong fairness, since any single answer may be lost). It asks
nothing of the pipeline: if the contract settles, the page shows a verdict.

## 4. Proofs

`ContractLifecycleProofs` proves for any number of contracts and workers, any set of faults
and any timeouts with `0 < JobTimeout <= HardLimit < StuckTimeout` (`LimitsAssumption`; the
code has 600, about 690 and 900 seconds, `queue.py:22`, `config.py:113-118`):

| Theorem | States |
|---|---|
| `TypeCorrect` | `TypeOK` |
| `Invariance` | `IInv`, the inductive invariant |
| `ReaperIsConservative` | `ClaimedJobNotReapable` |
| `RunsDoNotOverlap` | `OneRunAtATime` |
| `DoneMeansComplete` | `DoneIsComplete` |
| `SentRowIsUnique` | `OneSentRow` |
| `RunSendsOnce` | `OneMessagePerRun` |
| `MessageIsTrue` | `MessageHasResult` |
| `DoneIsFrozen` | `FrozenWhenDone` |
| `DoneRevocation` | `DoneRevokedOnlyBy` |

None of these properties is inductive. The argument:

* Everything rests on **OneJob**: a contract has at most one job, and it is in one place, not
  yet queued, waiting, running or failed. The code enforces this nowhere; it follows from one
  enqueue per upload (a lost answer is not tried again), from RQ handing a job to one worker,
  and from requeues taking it out of the registry. `Distinct` and the lemmas about `Append`
  and `Tail` carry it through the queue.
* **YoungClaim** (a claimed row is no older than its run and its upload transaction together) holds because
  the claim refreshes `updated_at`, row and run age together, and the one commit that sets the row back sets it
  to the beginning of that transaction. With the limit on the run's age in `TypeOK` it gives
  `ClaimedJobNotReapable`, with its excuse of a transaction longer than the margin.
* **MemoryIsStored** (what the run holds in memory is what its rows say) needs `OneJob`, for
  another run would overwrite the rows. With it the commit of `done` establishes
  **DoneIsComplete**, and **ClaimTakesDone** keeps it: a run that writes rows has taken
  `done` away at its claim.
* **MessageBudget** (a run that may still send has not spent its message), with
  **UnsentWhileSending**, bounds messages and `sent` rows; **NotifyHasResult** and
  **FirstRun** make the message true.

It also proves `PromiseKept`: `Spec => ImplementsPromise`, for every contract and under the
same assumptions. Every action of the lifecycle has a step that names the action of the promise
it is, or that it leaves the mapped variables alone, by the statement at which the run stands.
It rests on `IInv`: `OneJob` makes the run that holds a contract unique, so that `running` and
`stored` are functions of the state, and `MemoryIsStored` makes the verdict from memory the one
the rows give. `WhoRevokesDone` and the rest of the lifecycle's theorems are not implied by it.

`DoneKeepsResults` and `WhoRevokesDone` are the step lemmas of the two action properties.
The step of the invariant has one lemma per conjunct, with one case per action that can
disturb it.

`NegotiationProofs` proves for any requests, drafts, faults and number of runs:

| Theorem | States |
|---|---|
| `Invariance` | `IInv` |
| `TypeCorrect` | `TypeOK` |
| `RowsAreTrue` | `SentIsDelivered` |
| `AnswersAreTrue` | `AnswerIsTrue` |
| `MailsAreFinal` | `MailIsTheDraft` |

A row is `sent` because the outcome was, and the outcome because the mail left: what a request
has done by each statement (**Trail**) connects them, and with it no answer contradicts the
row. `MailIsTheDraft` needs **DoneIsLast** (a contract is `done` only when its run has ended)
and **Fresh**: from the check of the status on, no run is under way and the draft stays the
same until another run claims the contract, even if the status does not.

`TypeCorrect`, `Invariance` (of each module) and `DoneIsFrozen` need no run: they are type correctness, the
strengthening and a step property that `DoneMeansComplete` rests on.

About `ResultPage`, which stands on `Negotiation`, it proves for any agents, requests, drafts, faults and number of runs:

| Theorem | States |
|---|---|
| `PageRefinesNegotiation` | `PageSpec => Spec`: the theorems about `Negotiation` hold beside a page |
| `PageInvariance` | `PageInv` |
| `DonePagesAreComplete` | `DonePageIsComplete` |
| `MailsAreWhatWasShown` | `MailIsWhatWasShown` |

A view whose status is `done` is **Vouched** for: by `DoneIsFinal` its run has left a row of every
agent, rows are never taken back, and only a further run changes them. Rows that are read behind
such a status are therefore **RowsVouched**, whatever the contract does between the statements,
before the swap and before the click; were they read first, this step would fail. With the
draft of the page fixed so, **OfferHolds** follows the request from the click to the mail.

`OwnerProofs` proves for any browsers, replicas, requests, credentials, restarts and tokens, with and
without a `SECRET_KEY`:

| Theorem | States |
|---|---|
| `TypeCorrect` | `TypeOK` |
| `Invariance` | `IInv` |
| `ReadersAreOwners` | `ReadsStayApart` |
| `RefusalsAreClean` | `RefusedLeavesNothing` |
| `LinksWork` | `LinkWorks` |
| `ContractsStayInReach` | `Reachable` |

An id is named after the request for which it was minted, so that a name says whose it is.
**JarsOwn**, **RequestsOwn** and **ContractsOwn** say that every id in a jar, in a request or its
answer, and on a contract is named after a request of that browser; ids of different browsers
then differ, and a contract is read only by the browser that stored it. `Reachable` needs more:
with a `SECRET_KEY` there is one key, so a restart changes nothing, and a browser that is not
excused has at most one request under way as a stranger and otherwise one identity
(**OneIdentity**); what it was told of is then under that identity (**TellsTruth**). `RefusalsAreClean` needs
**Uncirculated**: the id a request would mint is met nowhere before the request is served inside the gate, and who is
turned away never is. What is
assumed of the constants (`OwnerAssumption`) is only that names differ.

`RateProofs` proves for any keys, limits, windows and delays and any finite set of processes:

| Theorem | States |
|---|---|
| `TypeCorrect` | `TypeOK` |
| `RedisInvariance` | `RedisInv` |
| `RedisBoundsAll` | `RedisAdmitsLimit` |
| `RefusalsAreDue` | `RefusedOnlyOverLimit` |
| `RetryIsInTime` | `RetryReachesNextWindow` |
| `FallbackBoundsProcess` | `FallbackAdmitsLimit` |

`RedisInv` (**LivesCounted**) bounds what a window has admitted by the lives its counter has had: a
life admits at most the limit, and since each hit renews the expiry, a counter that is gone had its
last hit a window and a second ago. Hits of a window fall between its start and the last call
that began in it, so that there is room for `Lifetimes` of them, and one more per restart.
`RefusalsAreDue` needs **Counted**: no counter, in Redis or in a process, exceeds the hits that were
attempted and are not under way (for which the processes must be finite in number).
`FallbackBoundsProcess` needs **Remembered**: what a process has admitted of a window of a `Shortest` key that
may still be hit is in its memory. A sweep takes what began before the window of the key at hand; such a window begins
at a multiple of the shorter one's, so no later than the shorter key's own window of that time
(`ShortestBeginsLast`). For the longer keys the sweep breaks it, which is what `ratelimit_eviction` shows.

`WritesProofs` proves for any runs, clauses, confidences and lengths of a batch, and any failures:

| Theorem | States |
|---|---|
| `TypeCorrect` | `TypeOK` |
| `Invariance` | `IInv` |
| `CountsAreHonest` | `CountNotOverstated` |
| `LossNeedsAnother` | `LostOnlyWhenMet` |
| `AloneIsExact` | `CountExactWhenAlone` |

A version of a row that a transaction has written but not committed counts at most what was
committed and what this run has seen (**VersionsBounded**); the lock is what lets the commit turn
that into `CountNotOverstated`, for a row that is locked is committed by nobody else. That a finding
is not forgotten between the SELECT and the flush is **HandledIsWritten**. Whoever collides or is
picked as a victim of a deadlock has met another (**MetWhenBothSave**): an object the session
added has no row of its own in the transaction (**NewIsUnwritten**), so a duplicate key comes from
someone else, and who has met nobody (**ExactAlone**) has seen exactly the table as it is.

`ReadsProofs` proves for any owners, clauses, caps, replies and datasets:

| Theorem | States |
|---|---|
| `TypeCorrect` | `TypeOK` and **Classified** |
| `OthersStayHidden` | `ShownIsOwnOrCurated` |
| `SureIsLearned` | `LearnsWhatIsSure` |
| `PromptsStayApart` | `PromptsAreApart` |
| `PromptsAreTheBest` | `PatternsAreTheBest` |
| `OwnRowsAreShown` | `OwnRowIsShown` |

**Classified** ties the owner of a row to who brought it in, by its count: what is curated counts
nothing, what was learned counts something, also where a downgrade has dropped the owner. It is
inductive over deployments, saves and both directions of the migration.
`PatternsAreTheBest` is an argument about a list: `Before` orders the visible rows totally, so
that a row has a place; a clause has at most two visible rows, so twice the cap of rows always
holds the cap of clauses; and the dedupe loop keeps the first row of each clause, which is its
best. `SureIsLearned` goes through `normalize_findings` entry by entry, with the reply that overflows apart, and the two
readings of a percentage (`7500%` becomes 75 and then, as a number beyond 1, 0.75) are arithmetic
(`ShareOfPercent`, `ShareOfNumber`).

`IntakeProofs` proves for any limits, lexicons and sizes:

| Theorem | States |
|---|---|
| `Invariance` | `IInv` |
| `MemoryIsBounded` | `BufferBounded` |
| `NumbersStay` | `PhoneRevalidates` |
| `StuffingBuysRelief` | `StuffingBuysOnlyRelief` |

`BufferBounded` needs **ReadsOnWithin**: the loop goes on only while the buffer is within the limit.
`NumbersStay` follows the substitutions of `normalize_phone` on numbers of any length: what is
stored begins with `62` and has nothing left to strip. `StuffingBuysRelief` compares a text with the text
without its last word: when every n-gram the word completes is there three times, no capped count changes, so no
sum over a lexicon and no marker does; what changes is the length, in two denominators. The saturation falls with it
(`SaturatedFalls`), the penalty falls with it (`PenaltyFalls`), and the score, cut off at 0 and 1, rises by no
more than the latter (`ScoreGrows`). What is assumed of a lexicon (`FilterAssumption`: finite, weights
that are no less than 0, no empty n-gram) holds of the one the repository ships, whose weights are 2 and more.

`LlmProofs` proves for any provider, numbers of retries and replies of any length:

| Theorem | States |
|---|---|
| `TypeCorrect` | `TypeOK` |
| `Invariance` | `IInv` |
| `HangsSurface` | `HangingSurfaces` |
| `ScannerIsExact` | `ScannerFindsFirst` |
| `ProseFallsOff` | `ProseIsStripped` |
| `CutIsRefused` | `CutNeverAccepted` |

Before the first answer there is one request and its repetitions (**Unanswered**), so a provider that
hangs costs a job `Phases * (MaxRetries + 1)` timeouts at most; that this is less than the job has is
an assumption on the configuration (`ClientAssumption`: 2 * 3 * 60 s of 600 s,
`config.py:18-25`, `queue.py:22`).

The other three are about texts. `ScannerIsExact` gives the scanner's loop a closed form
(`Knows`): behind each position the depth is the difference of two sets of braces, the
string flag the parity of the quotation marks and the escape flag the parity of the backslashes,
all without a loop; `ScanStep` shows that one round of the loop goes from one to the next.
`ProseFallsOff` and `CutIsRefused` let the scanner run beside the JSON reader (`Agree`): as long as
the reader finds no fault, both are in a string or both are not, and the scanner is as deep as
the reader has objects open. Behind the last brace of an object nothing more can follow
without a fault; hence the depth is zero at the end of an object, and there only
(`DepthThroughout`), and never zero in an object that was cut off.

**Loops.** `Without`, `ScanFrom`, `Reader`, `WellFormed` and `Gathered` are recursive functions
over positions. The induction principles of the library take an operator, which the provers
cannot instantiate; so an induction is done by its least counterexample instead (`LeastNumber`, from the
well-foundedness of `<`, then `Counting`), and that the function exists at all is `Looping`. The
models say such loops as functions and not as folds or `SelectSeq` for this reason.

Only model-checked: `SettlesForGood`, `SaveEnds`, `CallEnds` and `PageShowsVerdict`, which are
liveness, and the four findings. Every invariant and action property that a passing run checks is a theorem.

## 5. Not modelled

* **Prompts.** The templates, the fence around known patterns and the replacement of
  placeholders one after the other are text; no state hangs on them.
* **Counter-draft and tax findings.** Their normalisation cuts and defaults fields that no
  property tells apart; the lifecycle takes the agents' outcome as a choice.
* **The status area, the upload page and the JSON routes** show what one statement reads.
* **Sessions.** The registry of engines keyed by `id()` of the event loop, and the pool that
  five slow mail sessions exhaust, would need a module with the pool as a counter shared by all
  routes; no property of the modules here depends on them except through a statement that fails.
* **Migrations other than 0005.** 0002 backfills fingerprints in SQL once; the others add
  columns and tables.
* **Health probe, lexicon builder and check scripts** read or run before the program does.

A lost update of `times_matched` or `confidence` and the unbounded growth of `_local` can be
seen in the models; they are listed as hazards, since no document denies the first and the
second needs no interleaving.

## 6. Plan

1. *Done.* `ContractLifecycle` and `Negotiation` with their proofs; `RateLimit`,
   `PatternWrites`, `PatternReads`, `LlmReply` and `LlmClient`.
2. *Done.* `ContractPromise`, the refinement and its proof; `Negotiation` and `ResultPage` over it;
   `OwnerIdentity`, `Intake`, `ContractFilter`, `Findings`; migration 0005 in `PatternReads`.
3. *Done.* `OwnerProofs`, `RateProofs` and the proofs about `ResultPage`; slow calls in `RateLimit`.
4. *Done.* `WritesProofs`, `ReadsProofs`, `IntakeProofs` and `LlmProofs`.
5. What the proofs need and TLC alone vouches for: the parts of liveness that are safety (a variant
   that each step of a save or a call decreases).
6. `EngineRegistry`: loops whose id is reused and pools that are exhausted.
