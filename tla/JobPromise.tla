----------------------------- MODULE JobPromise -----------------------------
(***************************************************************************)
(* What the job queue promises the code that queues a job, without         *)
(* batches, workers, retries or crashes: a job that was queued stays       *)
(* pending until it is settled; it settles as done only after its handler  *)
(* returned or after it was put on the dead-letter queue; and a settled    *)
(* job is never handled or dead-lettered again.                            *)
(*                                                                         *)
(* JobQueue implements this specification; see JobQueue!Promise.           *)
(***************************************************************************)
CONSTANT Jobs

VARIABLES
  phase,      \* [Jobs -> Phases]
  handled,    \* the jobs whose handler has returned at least once
  dead        \* the jobs sent to the dead-letter queue at least once

Phases == {"absent", "pending", "done", "failed"}

promiseVars == <<phase, handled, dead>>

PromiseInit ==
  /\ phase = [j \in Jobs |-> "absent"]
  /\ handled = {}
  /\ dead = {}

Accept(j) ==
  /\ phase[j] = "absent"
  /\ phase' = [phase EXCEPT ![j] = "pending"]
  /\ UNCHANGED <<handled, dead>>

Handle(j) ==
  /\ phase[j] = "pending"
  /\ handled' = handled \cup {j}
  /\ UNCHANGED <<phase, dead>>

DeadLetter(j) ==
  /\ phase[j] = "pending"
  /\ dead' = dead \cup {j}
  /\ UNCHANGED <<phase, handled>>

Settle(S, outcome) ==
  /\ \A j \in S : phase[j] = "pending"
  /\ phase' = [j \in Jobs |-> IF j \in S THEN outcome ELSE phase[j]]
  /\ UNCHANGED <<handled, dead>>

\* A group of jobs completes together; each one was handled or dead-lettered.
Finish(S) == S \subseteq handled \cup dead /\ Settle(S, "done")

\* A group of jobs is given up together.
GiveUp(S) == Settle(S, "failed")

PromiseNext ==
  \/ \E j \in Jobs : Accept(j) \/ Handle(j) \/ DeadLetter(j)
  \/ \E S \in SUBSET Jobs : Finish(S) \/ GiveUp(S)

PromiseSpec == PromiseInit /\ [][PromiseNext]_promiseVars
=============================================================================
