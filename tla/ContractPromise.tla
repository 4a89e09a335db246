-------------------------- MODULE ContractPromise --------------------------
(***************************************************************************)
(* What the pipeline promises of one contract to whoever reads the         *)
(* database: the pages, the JSON routes and the route that sends the       *)
(* draft.  ContractLifecycle implements it for each of its contracts;      *)
(* Negotiation and ResultPage are built on it and know no more.            *)
(*                                                                         *)
(* A run claims the contract, stores one row per agent, and gives its      *)
(* verdict last.  It may be cut off anywhere, also by the very transaction *)
(* that stored something; and `failed` may be written over everything at   *)
(* any time, by the upload handler, by a run's exception handler or by the *)
(* reaper.                                                                 *)
(***************************************************************************)
CONSTANTS
  Agents,   \* the agents whose rows the page shows
  Payload,  \* for each agent, the results it may return
  Error,    \* the row of an agent that failed
  NoRow     \* no row yet

\* What the modules that give the constants their values have to keep.
RowsDiffer ==
  /\ Error # NoRow
  /\ \A a \in Agents : Error \notin Payload[a] /\ NoRow \notin Payload[a]

VARIABLES
  status,   \* contracts.status, "none" before the row exists
  results,  \* the row of each agent in analysis_results
  running,  \* whether a run has claimed the contract and not let go of it
  stored    \* the agents whose rows that run has stored

vars == <<status, results, running, stored>>

Rows(a) == Payload[a] \cup {Error, NoRow}

TypeOK ==
  /\ status \in {"none", "uploaded", "processing", "done", "failed"}
  /\ results \in [Agents -> UNION {Rows(a) : a \in Agents}]
  /\ \A a \in Agents : results[a] \in Rows(a)
  /\ running \in BOOLEAN
  /\ stored \subseteq Agents

Init ==
  /\ status = "none"
  /\ results = [a \in Agents |-> NoRow]
  /\ running = FALSE
  /\ stored = {}

-----------------------------------------------------------------------------
Create ==
  /\ status = "none"
  /\ status' = "uploaded"
  /\ UNCHANGED <<results, running, stored>>

\* A run takes the contract, whatever its status is; its first transaction may
\* be its last.
Claim ==
  /\ status # "none"
  /\ ~running
  /\ status' = "processing"
  /\ running' \in BOOLEAN
  /\ stored' = {}
  /\ UNCHANGED results

\* The outcome of one agent is stored over its row, once in a run.
Store(a) ==
  /\ running
  /\ a \notin stored
  /\ \E row \in Payload[a] \cup {Error} : results' = [results EXCEPT ![a] = row]
  /\ \/ running' = TRUE /\ stored' = stored \cup {a}
     \/ running' = FALSE /\ stored' = {}
  /\ UNCHANGED status

Useful == \E a \in Agents : results[a] \in Payload[a]

\* The verdict, when every row of the run is stored.
Finish ==
  /\ running
  /\ stored = Agents
  /\ status' = IF Useful THEN "done" ELSE "failed"
  /\ running' = FALSE /\ stored' = {}
  /\ UNCHANGED results

CutOff ==
  /\ running
  /\ running' = FALSE /\ stored' = {}
  /\ UNCHANGED <<status, results>>

\* `failed` over whatever is there.
Overwrite ==
  /\ status # "none"
  /\ status' = "failed"
  /\ UNCHANGED <<results, running, stored>>

Next == Create \/ Claim \/ (\E a \in Agents : Store(a)) \/ Finish \/ CutOff \/ Overwrite

Spec == Init /\ [][Next]_vars

-----------------------------------------------------------------------------
(***************************************************************************)
(* What follows for every reader.                                          *)
(***************************************************************************)

\* A contract that is done is at rest, has the row of every agent, and at least
\* one of them is a result.
DoneIsFinal ==
  status = "done" => ~running /\ Useful /\ \A a \in Agents : results[a] # NoRow
=============================================================================
