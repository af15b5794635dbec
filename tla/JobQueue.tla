------------------------------ MODULE JobQueue ------------------------------
(***************************************************************************)
(* One outgoing WhatsApp queue of QueueService: jobs are fetched in        *)
(* batches by the worker that registerHandler starts, each job of a batch  *)
(* is run by the queue's handler of QueueProcessors, and failures are      *)
(* classified, sent to the dead-letter queue or rethrown for pg-boss to    *)
(* retry.  The five handlers differ in the parts of the job's data they    *)
(* insist on and in the size of their batches; the rest is the same code   *)
(* five times, modelled once from the handler of texts.                    *)
(*                                                                         *)
(* Every `await` of the code is a separate action, so the process may      *)
(* crash and abandoned API calls may be answered between any two of them.  *)
(* pg-boss itself (fetch, complete, fail, expire) is a library: it is      *)
(* modelled from the options and comments with which the code uses it.     *)
(* Jobs of a batch are taken in any order (priority and creation time are  *)
(* not modelled), a retry is ready at any time after its delay.            *)
(***************************************************************************)
EXTENDS Naturals, FiniteSets

CONSTANTS
  Queue,        \* the queue: the handler that runs its jobs
  Jobs,         \* the jobs the application may queue
  BadPhone,     \* jobs whose phone number validatePhoneNo refuses
  Missing,      \* Missing[j]: the parts that are blank or absent in j's data
  BatchSize,    \* a batch holds at most so many jobs
  RetryLimit,   \* option retryLimit of addJob
  MaxFaults,    \* bound: crashes, failed status writes, failed DLQ sends
  NoJob         \* "no job": the worker runs none

\* The parts each handler insists on, and the batches it is registered for.
TextHandler     == [needs |-> {"text"}, batchSize |-> 5]
ButtonsHandler  == [needs |-> {"body", "buttons"}, batchSize |-> 3]
ListHandler     == [needs |-> {"body", "buttonText", "sections"}, batchSize |-> 3]
ImageHandler    == [needs |-> {"imageUrl"}, batchSize |-> 2]
DocumentHandler == [needs |-> {"documentUrl", "fileName"}, batchSize |-> 2]

Handler == CASE Queue = "whatsapp-text"     -> TextHandler
             [] Queue = "whatsapp-buttons"  -> ButtonsHandler
             [] Queue = "whatsapp-list"     -> ListHandler
             [] Queue = "whatsapp-image"    -> ImageHandler
             [] Queue = "whatsapp-document" -> DocumentHandler

ASSUME JobQueueAssumption ==
  /\ Queue \in {"whatsapp-text", "whatsapp-buttons", "whatsapp-list",
                "whatsapp-image", "whatsapp-document"}
  /\ IsFiniteSet(Jobs)
  /\ BadPhone \subseteq Jobs
  /\ \A j \in Jobs : IsFiniteSet(Missing[j])
  /\ BatchSize \in 1..Handler.batchSize
  /\ RetryLimit \in Nat
  /\ MaxFaults \in Nat
  /\ NoJob \notin Jobs

VARIABLES
  state,      \* pg-boss: state of each job
  retries,    \* pg-boss: retry_count of each job
  pc,         \* where the worker's callback is
  batch,      \* jobs the callback was called with
  todo,       \* jobs of the batch its loop has not reached
  job,        \* the job it runs now
  cause,      \* what the handler of that job threw
  open,       \* API calls given up on after a timeout, still unanswered
  accepted,   \* how often WhatsApp accepted the message of the job
  status,     \* Message.systemStatus of the message of the job
  handled,    \* jobs whose handler has returned normally
  dlq,        \* how often the job was sent to the dead-letter queue
  faults      \* faults so far (bound)

bossVars   == <<state, retries>>
workerVars == <<pc, batch, todo, job, cause>>
apiVars    == <<open, accepted>>
logVars    == <<status, handled, dlq>>
vars == <<bossVars, workerVars, apiVars, logVars, faults>>

States  == {"absent", "created", "active", "retry", "completed", "failed"}
Places  == {"idle", "next", "calling", "answered", "threw", "deadletter",
            "return", "rethrow"}
Causes  == {"none", "invalid_phone", "empty_content", "timeout"}
Replies == {"accepted", "http_4xx", "http_429", "http_5xx"}

TypeOK ==
  /\ state \in [Jobs -> States]
  /\ retries \in [Jobs -> 0..RetryLimit]
  /\ pc \in Places
  /\ batch \in SUBSET Jobs
  /\ todo \in SUBSET batch
  /\ job \in Jobs \cup {NoJob}
  /\ cause \in Causes
  /\ open \in [Jobs -> Nat]
  /\ accepted \in [Jobs -> Nat]
  /\ status \in [Jobs -> {"SENT", "DELIVERED", "FAILED"}]
  /\ handled \in SUBSET Jobs
  /\ dlq \in [Jobs -> Nat]
  /\ faults \in 0..MaxFaults

Init ==
  /\ state = [j \in Jobs |-> "absent"]
  /\ retries = [j \in Jobs |-> 0]
  /\ pc = "idle" /\ batch = {} /\ todo = {} /\ job = NoJob /\ cause = "none"
  /\ open = [j \in Jobs |-> 0]
  /\ accepted = [j \in Jobs |-> 0]
  /\ status = [j \in Jobs |-> "SENT"]
  /\ handled = {}
  /\ dlq = [j \in Jobs |-> 0]
  /\ faults = 0

-----------------------------------------------------------------------------
(* pg-boss *)

Ready == {j \in Jobs : state[j] \in {"created", "retry"}}

\* addJob: BotService or CustomerService queues the message of a job.
AddJob(j) ==
  /\ state[j] = "absent"
  /\ state' = [state EXCEPT ![j] = "created"]
  /\ UNCHANGED <<retries, workerVars, apiVars, logVars, faults>>

\* The idle worker polls and gets up to BatchSize ready jobs; a job that comes
\* back from a retry has its retry count incremented.
Fetch(S) ==
  /\ pc = "idle"
  /\ S # {} /\ S \subseteq Ready /\ Cardinality(S) <= BatchSize
  /\ state' = [j \in Jobs |-> IF j \in S THEN "active" ELSE state[j]]
  /\ retries' = [j \in Jobs |-> IF j \in S /\ state[j] = "retry"
                                THEN retries[j] + 1 ELSE retries[j]]
  /\ pc' = "next" /\ batch' = S /\ todo' = S
  /\ UNCHANGED <<job, cause, apiVars, logVars, faults>>

\* What pg-boss makes of a job that failed.
AfterFailure(j) == IF retries[j] < RetryLimit THEN "retry" ELSE "failed"

\* The worker is ready for its next batch.
WorkerDone ==
  pc' = "idle" /\ batch' = {} /\ todo' = {} /\ job' = NoJob /\ cause' = "none"

\* The callback resolved: pg-boss completes every job of the batch.
BatchCompletes ==
  /\ \/ pc = "next" /\ todo = {}
     \/ pc = "return"
  /\ state' = [j \in Jobs |-> IF j \in batch THEN "completed" ELSE state[j]]
  /\ WorkerDone
  /\ UNCHANGED <<retries, apiVars, logVars, faults>>

\* The callback threw: pg-boss fails every job of the batch.
BatchFails ==
  /\ pc = "rethrow"
  /\ state' = [j \in Jobs |-> IF j \in batch THEN AfterFailure(j) ELSE state[j]]
  /\ WorkerDone
  /\ UNCHANGED <<retries, apiVars, logVars, faults>>

\* expireInSeconds: an active job no running callback works on is failed. (A
\* live batch of at most five 30 s calls ends long before its one hour.)
Expire(j) ==
  /\ state[j] = "active" /\ j \notin batch
  /\ state' = [state EXCEPT ![j] = AfterFailure(j)]
  /\ UNCHANGED <<retries, workerVars, apiVars, logVars, faults>>

-----------------------------------------------------------------------------
(* registerHandler's loop and the handlers of QueueProcessors *)

\* Mutant: blank content is taken for bad data.
ClassifyErrorMutant(c) == IF c = "timeout" THEN "RETRYABLE" ELSE "NON_RETRYABLE"

\* classifyError. No HTTP status ever reaches it: see ApiAnswers.
ClassifyError(c) == IF c = "invalid_phone" THEN "NON_RETRYABLE" ELSE "RETRYABLE"

\* The metadata the worker sees of a job.  It reads `retrycount` and `retrylimit`;
\* pg-boss names them retryCount and retryLimit, so it is always the defaults.
SeenRetryCount(j) == 0
SeenRetryLimit == 3
\* Mutant: the test below with the job's own metadata, as the code means it.
RetriesExceededMutant(j) == retries[j] + 1 >= RetryLimit
\* `retryCount >= maxRetries - 1`
RetriesExceeded(j) == SeenRetryCount(j) + 1 >= SeenRetryLimit

\* The handler finds a part of the message blank or absent.
EmptyBody == {j \in Jobs : Missing[j] \cap Handler.needs # {}}

\* The loop takes the next job and the handler validates its data.
StartJob(j) ==
  /\ pc = "next" /\ j \in todo
  /\ todo' = todo \ {j} /\ job' = j
  /\ cause' = CASE j \in BadPhone                -> "invalid_phone"
                [] j \in EmptyBody \ BadPhone    -> "empty_content"
                [] OTHER                         -> "none"
  /\ pc' = IF j \in BadPhone \cup EmptyBody THEN "threw" ELSE "calling"
  /\ UNCHANGED <<bossVars, batch, apiVars, logVars, faults>>

Count(reply) == IF reply = "accepted" THEN 1 ELSE 0

\* The API answers in time. sendWhatsAppRequest catches every HTTP error and
\* returns, so the handler goes on in the same way whatever the answer is.
ApiAnswers(reply) ==
  /\ pc = "calling"
  /\ accepted' = [accepted EXCEPT ![job] = @ + Count(reply)]
  /\ pc' = "answered"
  /\ UNCHANGED <<bossVars, batch, todo, job, cause, open, logVars, faults>>

\* Mutants: no timeout; the handler sends again itself.
ApiTimesOutNever == FALSE /\ UNCHANGED vars
ApiTimesOutResends ==
  /\ pc = "calling" /\ open[job] < 3
  /\ open' = [open EXCEPT ![job] = @ + 1]
  /\ UNCHANGED <<bossVars, workerVars, accepted, logVars, faults>>

\* withTimeout rejects after 30 s; the request itself is not cancelled.
ApiTimesOut ==
  /\ pc = "calling"
  /\ open' = [open EXCEPT ![job] = @ + 1]
  /\ cause' = "timeout" /\ pc' = "threw"
  /\ UNCHANGED <<bossVars, batch, todo, job, accepted, logVars, faults>>

\* An abandoned request is answered after all; nobody looks at the answer.
LateAnswer(j, reply) ==
  /\ open[j] > 0
  /\ open' = [open EXCEPT ![j] = @ - 1]
  /\ accepted' = [accepted EXCEPT ![j] = @ + Count(reply)]
  /\ UNCHANGED <<bossVars, workerVars, logVars, faults>>

\* updateMessageStatus: a failed write is logged and ignored.
WriteStatus(s) ==
  \/ status' = [status EXCEPT ![job] = s] /\ UNCHANGED faults
  \/ UNCHANGED status /\ faults < MaxFaults /\ faults' = faults + 1

\* Mutant: stores DELIVERED only over SENT.
MarkDeliveredMutant ==
  /\ pc = "answered"
  /\ IF status[job] = "SENT" THEN WriteStatus("DELIVERED") ELSE UNCHANGED <<status, faults>>
  /\ handled' = handled \cup {job}
  /\ pc' = "next" /\ job' = NoJob
  /\ UNCHANGED <<bossVars, batch, todo, cause, apiVars, dlq>>

\* The handler stores DELIVERED and returns; the loop goes on.
MarkDelivered ==
  /\ pc = "answered"
  /\ WriteStatus("DELIVERED")
  /\ handled' = handled \cup {job}
  /\ pc' = "next" /\ job' = NoJob
  /\ UNCHANGED <<bossVars, batch, todo, cause, apiVars, dlq>>

\* Mutants: stores the class of the error as the status; no rethrow after the catch.
MarkFailedWithClass ==
  /\ pc = "threw"
  /\ WriteStatus(ClassifyError(cause))
  /\ pc' = "rethrow"
  /\ UNCHANGED <<bossVars, batch, todo, job, cause, apiVars, handled, dlq>>
MarkFailedMutant ==
  /\ pc = "threw"
  /\ WriteStatus("FAILED")
  /\ pc' = IF RetriesExceeded(job) THEN "deadletter" ELSE "return"
  /\ UNCHANGED <<bossVars, batch, todo, job, cause, apiVars, handled, dlq>>

\* The catch of the loop: what becomes of a job whose handler threw.
OnError == IF ClassifyError(cause) = "NON_RETRYABLE" \/ RetriesExceeded(job)
           THEN "deadletter" ELSE "rethrow"

\* The handler stores FAILED and throws into the loop's catch.
MarkFailed ==
  /\ pc = "threw"
  /\ WriteStatus("FAILED")
  /\ pc' = OnError
  /\ UNCHANGED <<bossVars, batch, todo, job, cause, apiVars, handled, dlq>>

\* sendToDeadLetterQueue, then `return` for an error that must not be retried
\* and `throw` for the others.
SendToDeadLetterQueue ==
  /\ pc = "deadletter"
  /\ dlq' = [dlq EXCEPT ![job] = @ + 1]
  /\ pc' = IF ClassifyError(cause) = "NON_RETRYABLE" THEN "return" ELSE "rethrow"
  /\ UNCHANGED <<bossVars, batch, todo, job, cause, apiVars, status, handled, faults>>

\* boss.send to the dead-letter queue itself throws, out of the catch block.
DeadLetterSendFails ==
  /\ pc = "deadletter" /\ faults < MaxFaults
  /\ faults' = faults + 1
  /\ pc' = "rethrow"
  /\ UNCHANGED <<bossVars, batch, todo, job, cause, apiVars, logVars>>

\* The process dies and is started again: the callback is gone, its jobs stay
\* active until they expire, a request on its way may still arrive.
Crash ==
  /\ pc # "idle" /\ faults < MaxFaults
  /\ faults' = faults + 1
  /\ open' = IF pc = "calling" THEN [open EXCEPT ![job] = @ + 1] ELSE open
  /\ WorkerDone
  /\ UNCHANGED <<bossVars, accepted, logVars>>

-----------------------------------------------------------------------------
Worker ==
  \/ \E j \in Jobs : StartJob(j)
  \/ MarkDelivered \/ MarkFailed \/ SendToDeadLetterQueue
  \/ BatchCompletes \/ BatchFails

Next ==
  \/ \E j \in Jobs : AddJob(j) \/ Expire(j)
  \/ \E S \in SUBSET Jobs : Fetch(S)
  \/ \E reply \in Replies : ApiAnswers(reply)
  \/ \E j \in Jobs, reply \in Replies : LateAnswer(j, reply)
  \/ ApiTimesOut
  \/ Worker
  \/ DeadLetterSendFails
  \/ Crash

Spec == Init /\ [][Next]_vars

\* The event loop runs what it awaited, the timer of withTimeout fires, pg-boss
\* polls and expires. Nothing is assumed of WhatsApp or of whoever adds jobs.
Fairness ==
  /\ WF_vars(Worker)
  /\ WF_vars(ApiTimesOut)
  /\ WF_vars(\E S \in SUBSET Jobs : Fetch(S))
  /\ \A j \in Jobs : WF_vars(Expire(j))

FairSpec == Spec /\ Fairness

-----------------------------------------------------------------------------
(* Properties *)

Settled(j) == state[j] \in {"completed", "failed"}

\* However timeouts, late answers, retries of whole batches and crashes
\* interleave, the customer gets a message at most RetryLimit + 1 times: each
\* attempt pg-boss counts makes at most one request.
DuplicatesBounded ==
  \A j \in Jobs : accepted[j] + open[j] <= RetryLimit + 1

\* Completed for pg-boss, though its handler never returned and it is on no
\* dead-letter queue.
Dropped(j) == state[j] = "completed" /\ j \notin handled /\ dlq[j] = 0

\* There is one way to drop a job: at the very step that completes it, it is a job of
\* the batch that the loop of registerHandler has not reached, because the job the
\* callback is at, another one of this batch, has a bad phone number and has just been
\* dead-lettered (the `return` inside the loop).
DroppedOnlyBehindBadPhone ==
  [][\A j \in Jobs : ~Dropped(j) /\ Dropped(j)' =>
       /\ pc = "return" /\ j \in todo
       /\ job \in batch \ todo /\ job \in BadPhone /\ dlq[job] > 0]_vars

\* Without failed writes a completed job shows DELIVERED, also when earlier
\* attempts of it, or of its batch, had stored FAILED, unless a bad phone number
\* has made the callback return early.
CompletedShowsDelivered ==
  faults = 0 =>
    \A j \in Jobs : state[j] = "completed" =>
      status[j] = "DELIVERED" \/ \E k \in BadPhone : dlq[k] > 0

\* What is on the dead-letter queue is settled business: the message was never
\* requested of WhatsApp, and is not later, so that whoever works the queue off may
\* send it; and the job is there once, and once more only for each crash between the
\* dead letter and the completion of its batch.
DeadLettersAreFinal ==
  \A j \in Jobs : dlq[j] > 0 => accepted[j] + open[j] = 0 /\ dlq[j] <= 1 + faults

\* A job given up by pg-boss has been sent to the dead-letter queue: "Dead Letter
\* Queue name for failed jobs", pg-boss.provider.ts.  It has not: see RetriesExceeded.
FailedWasDeadLettered ==
  faults = 0 => \A j \in Jobs : state[j] = "failed" => dlq[j] > 0

\* Every queued job settles: retries end, a hanging API call is cut by
\* withTimeout, a crashed batch expires.
QueuedSettles == \A j \in Jobs : (state[j] = "created") ~> Settled(j)

\* JobPromise, with what pg-boss knows of a job as its phase.
Promise == INSTANCE JobPromise WITH
  phase <- [j \in Jobs |-> CASE state[j] = "absent"    -> "absent"
                             [] state[j] = "completed" -> "done"
                             [] state[j] = "failed"    -> "failed"
                             [] OTHER                  -> "pending"],
  dead <- {j \in Jobs : dlq[j] > 0}

\* As long as no phone number is bad, or in batches of one, the queue implements
\* JobPromise: nothing is done unhandled, nothing happens to a settled job.
KeepsPromise == Promise!PromiseSpec

\* "Complete the job (don't rethrow) to prevent retries": only the job that was
\* sent to the dead-letter queue is completed unhandled.
OnlyHandledJobsComplete == \A j \in Jobs : ~Dropped(j)
=============================================================================
