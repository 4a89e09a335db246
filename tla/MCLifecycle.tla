---------------------------- MODULE MCLifecycle ----------------------------
(***************************************************************************)
(* Model checking of ContractLifecycle on small instances.                 *)
(***************************************************************************)
EXTENDS ContractLifecycle, TLC

\* Sound for the runs without liveness: contracts (all opted in or none) and
\* workers are interchangeable.
Symmetry == Permutations(Contracts) \cup Permutations(Workers)

(***************************************************************************)
(* A deployment in good health: no time passes while a worker that could   *)
(* take or claim a job has not done so, nor while an upload handler is     *)
(* between its commits.  Jobs wait only because all workers are busy.      *)
(***************************************************************************)
Prompt ==
  /\ \A w \in Workers : pc[w] # "claim" /\ (pc[w] = "idle" => queue = <<>>)
  /\ \A c \in Contracts : upload[c] \in {"idle", "over"}

PromptSpec == Init /\ [][Next /\ (Tick => Prompt)]_vars
=============================================================================
