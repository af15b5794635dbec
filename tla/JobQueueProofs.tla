--------------------------- MODULE JobQueueProofs ---------------------------
(***************************************************************************)
(* Proofs about JobQueue, for each of the five queues, every set of jobs,  *)
(* batch size, retry limit and bound on the faults.                        *)
(***************************************************************************)
EXTENDS JobQueue, FiniteSetTheorems, TLAPS

-----------------------------------------------------------------------------
(* The inductive invariant *)

\* The job the worker runs is one of its batch that the loop has passed.
WorkerInv ==
  /\ pc = "idle" => batch = {}
  /\ pc \in {"idle", "next"} => job = NoJob
  /\ pc \notin {"idle", "next"} => job \in batch \ todo
  /\ pc \in {"idle", "next", "calling", "answered"} => cause = "none"
  /\ cause = "invalid_phone" => job \in BadPhone
  /\ \A j \in batch : state[j] = "active"

\* Requests are paid for with attempts: one per attempt, none before the first,
\* and a job still ahead of the worker has not spent the one of this attempt.
RequestOK(j) ==
  /\ state[j] = "retry" => retries[j] < RetryLimit
  /\ state[j] \in {"absent", "created"} => accepted[j] + open[j] = 0
  /\ accepted[j] + open[j] <= retries[j] + 1
  /\ j \in todo \/ (j = job /\ pc = "calling") => accepted[j] + open[j] <= retries[j]
RequestInv == \A j \in Jobs : RequestOK(j)

\* The loop passes a job only once its handler returned; it leaves early only
\* after a job with a bad phone number was dead-lettered.
LoopInv ==
  /\ \A j \in batch \ todo : j # job => j \in handled
  /\ pc = "return" => job \in BadPhone /\ dlq[job] > 0

IInv == TypeOK /\ WorkerInv /\ RequestInv /\ LoopInv

-----------------------------------------------------------------------------
USE JobQueueAssumption DEF JobQueueAssumption

LEMMA InitIInv == Init => IInv
  BY DEF Init, IInv, TypeOK, WorkerInv, RequestInv, RequestOK, LoopInv, States, Places, Causes

LEMMA TypeStep == IInv /\ [Next]_vars => TypeOK'
<1> SUFFICES ASSUME IInv, [Next]_vars PROVE TypeOK'
  OBVIOUS
<1> USE DEF IInv, TypeOK, States, Places, Causes, bossVars, workerVars, apiVars, logVars
<1>1. ASSUME NEW j \in Jobs, AddJob(j) \/ Expire(j) PROVE TypeOK'
  BY <1>1 DEF AddJob, Expire, AfterFailure
<1>2. ASSUME NEW S \in SUBSET Jobs, Fetch(S) PROVE TypeOK'
  <2>1. \A j \in Jobs : state[j] = "retry" => retries[j] + 1 \in 0..RetryLimit
    BY DEF RequestInv, RequestOK
  <2>2. retries' \in [Jobs -> 0..RetryLimit]
    BY <1>2, <2>1 DEF Fetch
  <2>. QED
    BY <1>2, <2>2 DEF Fetch
<1>3. ASSUME NEW reply \in Replies, ApiAnswers(reply) PROVE TypeOK'
  BY <1>3 DEF ApiAnswers, Count, WorkerInv
<1>4. ASSUME NEW j \in Jobs, NEW reply \in Replies, LateAnswer(j, reply) PROVE TypeOK'
  BY <1>4 DEF LateAnswer, Count
<1>5. CASE ApiTimesOut
  BY <1>5 DEF ApiTimesOut, WorkerInv
<1>6. ASSUME NEW j \in Jobs, StartJob(j) PROVE TypeOK'
  BY <1>6 DEF StartJob
<1>7. CASE MarkDelivered
  BY <1>7 DEF MarkDelivered, WriteStatus, WorkerInv
<1>8. CASE MarkFailed
  BY <1>8 DEF MarkFailed, WriteStatus, OnError
<1>9. CASE SendToDeadLetterQueue
  BY <1>9 DEF SendToDeadLetterQueue, WorkerInv
<1>10. CASE BatchCompletes \/ BatchFails
  BY <1>10 DEF BatchCompletes, BatchFails, WorkerDone, AfterFailure
<1>11. CASE DeadLetterSendFails \/ Crash
  BY <1>11 DEF DeadLetterSendFails, Crash, WorkerDone
<1>12. CASE UNCHANGED vars
  BY <1>12 DEF vars
<1>. QED
  BY <1>1, <1>2, <1>3, <1>4, <1>5, <1>6, <1>7, <1>8, <1>9, <1>10, <1>11, <1>12
  DEF Next, Worker

LEMMA WorkerStep == IInv /\ [Next]_vars => WorkerInv'
<1> SUFFICES ASSUME IInv, [Next]_vars PROVE WorkerInv'
  OBVIOUS
<1> USE DEF IInv, TypeOK, WorkerInv, States, Places, Causes,
            bossVars, workerVars, apiVars, logVars
<1>1. ASSUME NEW j \in Jobs, AddJob(j) \/ Expire(j) PROVE WorkerInv'
  BY <1>1 DEF AddJob, Expire
<1>2. ASSUME NEW S \in SUBSET Jobs, Fetch(S) PROVE WorkerInv'
  BY <1>2 DEF Fetch
<1>3. ASSUME NEW reply \in Replies, ApiAnswers(reply) PROVE WorkerInv'
  BY <1>3 DEF ApiAnswers
<1>4. ASSUME NEW j \in Jobs, NEW reply \in Replies, LateAnswer(j, reply) PROVE WorkerInv'
  BY <1>4 DEF LateAnswer
<1>5. CASE ApiTimesOut
  BY <1>5 DEF ApiTimesOut
<1>6. ASSUME NEW j \in Jobs, StartJob(j) PROVE WorkerInv'
  BY <1>6 DEF StartJob
<1>7. CASE MarkDelivered
  BY <1>7 DEF MarkDelivered
<1>8. CASE MarkFailed
  BY <1>8 DEF MarkFailed, OnError
<1>9. CASE SendToDeadLetterQueue
  BY <1>9 DEF SendToDeadLetterQueue
<1>10. CASE BatchCompletes \/ BatchFails
  BY <1>10 DEF BatchCompletes, BatchFails, WorkerDone
<1>11. CASE DeadLetterSendFails \/ Crash
  BY <1>11 DEF DeadLetterSendFails, Crash, WorkerDone
<1>12. CASE UNCHANGED vars
  BY <1>12 DEF vars
<1>. QED
  BY <1>1, <1>2, <1>3, <1>4, <1>5, <1>6, <1>7, <1>8, <1>9, <1>10, <1>11, <1>12
  DEF Next, Worker

LEMMA RequestStep == IInv /\ [Next]_vars => RequestInv'
<1> SUFFICES ASSUME IInv, [Next]_vars PROVE RequestInv'
  OBVIOUS
<1> USE DEF IInv, TypeOK, WorkerInv, RequestInv, RequestOK, States, Places, Causes,
            bossVars, workerVars, apiVars, logVars
<1>1. ASSUME NEW j \in Jobs, AddJob(j) \/ Expire(j) PROVE RequestInv'
  BY <1>1 DEF AddJob, Expire, AfterFailure
<1>2. ASSUME NEW S \in SUBSET Jobs, Fetch(S) PROVE RequestInv'
  \* A retried job starts with one more attempt than requests made so far.
  BY <1>2 DEF Fetch, Ready
<1>3. ASSUME NEW reply \in Replies, ApiAnswers(reply) PROVE RequestInv'
  <2> SUFFICES ASSUME NEW k \in Jobs PROVE RequestOK(k)'
    OBVIOUS
  <2>1. Count(reply) \in 0..1 /\ job \in batch \ todo /\ state[job] = "active"
    BY <1>3 DEF ApiAnswers, Count
  <2>2. CASE k = job
    \* The request of this attempt is spent on the answer.
    <3>1. accepted'[k] = accepted[k] + Count(reply) /\ open' = open
      BY <1>3, <2>2 DEF ApiAnswers
    <3>2. accepted[k] + open[k] <= retries[k]
      BY <1>3, <2>2 DEF ApiAnswers
    <3>. QED
      BY <1>3, <2>1, <2>2, <3>1, <3>2 DEF ApiAnswers
  <2>3. CASE k # job
    BY <1>3, <2>3 DEF ApiAnswers
  <2>. QED
    BY <2>2, <2>3
<1>4. ASSUME NEW j \in Jobs, NEW reply \in Replies, LateAnswer(j, reply) PROVE RequestInv'
  BY <1>4 DEF LateAnswer, Count
<1>5. CASE ApiTimesOut
  <2> SUFFICES ASSUME NEW k \in Jobs PROVE RequestOK(k)'
    OBVIOUS
  <2>1. job \in batch \ todo /\ state[job] = "active"
    BY <1>5 DEF ApiTimesOut
  <2>2. CASE k = job
    \* The request of this attempt stays open.
    <3>1. open'[k] = open[k] + 1 /\ accepted' = accepted
      BY <1>5, <2>2 DEF ApiTimesOut
    <3>2. accepted[k] + open[k] <= retries[k]
      BY <1>5, <2>2 DEF ApiTimesOut
    <3>. QED
      BY <1>5, <2>1, <2>2, <3>1, <3>2 DEF ApiTimesOut
  <2>3. CASE k # job
    BY <1>5, <2>3 DEF ApiTimesOut
  <2>. QED
    BY <2>2, <2>3
<1>6. ASSUME NEW j \in Jobs, StartJob(j) PROVE RequestInv'
  BY <1>6 DEF StartJob
<1>7. CASE MarkDelivered
  BY <1>7 DEF MarkDelivered
<1>8. CASE MarkFailed
  BY <1>8 DEF MarkFailed, OnError
<1>9. CASE SendToDeadLetterQueue
  BY <1>9 DEF SendToDeadLetterQueue
<1>10. CASE BatchCompletes \/ BatchFails
  BY <1>10 DEF BatchCompletes, BatchFails, WorkerDone, AfterFailure
<1>11. CASE DeadLetterSendFails \/ Crash
  BY <1>11 DEF DeadLetterSendFails, Crash, WorkerDone
<1>12. CASE UNCHANGED vars
  BY <1>12 DEF vars
<1>. QED
  BY <1>1, <1>2, <1>3, <1>4, <1>5, <1>6, <1>7, <1>8, <1>9, <1>10, <1>11, <1>12
  DEF Next, Worker

\* Once dead-lettered a job stays so, and no handler that returned is forgotten.
LEMMA LogGrows ==
  ASSUME TypeOK, [Next]_vars
  PROVE  handled \subseteq handled' /\ \A k \in Jobs : dlq[k] > 0 => dlq'[k] > 0
  BY DEF TypeOK, Next, Worker, vars, bossVars, workerVars, apiVars, logVars,
         AddJob, Expire, Fetch, ApiAnswers, LateAnswer, ApiTimesOut, StartJob,
         MarkDelivered, MarkFailed, SendToDeadLetterQueue, BatchCompletes,
         BatchFails, DeadLetterSendFails, Crash

LEMMA LoopStep == IInv /\ [Next]_vars => LoopInv'
<1> SUFFICES ASSUME IInv, [Next]_vars PROVE LoopInv'
  OBVIOUS
<1> USE DEF IInv, TypeOK, WorkerInv, LoopInv, States, Places, Causes,
            bossVars, workerVars, apiVars, logVars
<1>1. ASSUME NEW j \in Jobs, AddJob(j) \/ Expire(j) PROVE LoopInv'
  BY <1>1 DEF AddJob, Expire
<1>2. ASSUME NEW S \in SUBSET Jobs, Fetch(S) PROVE LoopInv'
  BY <1>2 DEF Fetch
<1>3. ASSUME NEW reply \in Replies, ApiAnswers(reply) PROVE LoopInv'
  BY <1>3 DEF ApiAnswers
<1>4. ASSUME NEW j \in Jobs, NEW reply \in Replies, LateAnswer(j, reply) PROVE LoopInv'
  BY <1>4 DEF LateAnswer
<1>5. CASE ApiTimesOut
  BY <1>5 DEF ApiTimesOut
<1>6. ASSUME NEW j \in Jobs, StartJob(j) PROVE LoopInv'
  BY <1>6 DEF StartJob
<1>7. CASE MarkDelivered
  BY <1>7 DEF MarkDelivered
<1>8. CASE MarkFailed
  BY <1>8 DEF MarkFailed, OnError
<1>9. CASE SendToDeadLetterQueue
  BY <1>9 DEF SendToDeadLetterQueue, ClassifyError
<1>10. CASE BatchCompletes \/ BatchFails
  BY <1>10 DEF BatchCompletes, BatchFails, WorkerDone
<1>11. CASE DeadLetterSendFails \/ Crash
  BY <1>11 DEF DeadLetterSendFails, Crash, WorkerDone
<1>12. CASE UNCHANGED vars
  BY <1>12 DEF vars
<1>. QED
  BY <1>1, <1>2, <1>3, <1>4, <1>5, <1>6, <1>7, <1>8, <1>9, <1>10, <1>11, <1>12
  DEF Next, Worker

-----------------------------------------------------------------------------
LEMMA Inductive == Spec => []IInv
<1>1. IInv /\ [Next]_vars => IInv'
  BY TypeStep, WorkerStep, RequestStep, LoopStep DEF IInv
<1>. QED
  BY InitIInv, <1>1, PTL DEF Spec

\* Every variable of the queue keeps its type; in particular pg-boss never counts
\* more retries than the limit.
THEOREM TypeCorrect == Spec => []TypeOK
<1>1. IInv => TypeOK
  BY DEF IInv
<1>. QED
  BY Inductive, <1>1, PTL

\* A customer gets the message of a job at most RetryLimit + 1 times, whatever the
\* batches, timeouts, late answers and crashes.
THEOREM DuplicatesAreBounded == Spec => []DuplicatesBounded
<1>1. IInv => DuplicatesBounded
  BY DEF IInv, RequestInv, RequestOK, TypeOK, DuplicatesBounded
<1>. QED
  BY Inductive, <1>1, PTL

\* A job is dropped in one way only, at the step that completes its batch: the loop
\* has not reached it, and left because another job of this very batch has a bad
\* phone number and was just dead-lettered.
THEOREM DroppedJobs == Spec => DroppedOnlyBehindBadPhone
<1> DEFINE Drop == \A j \in Jobs : ~Dropped(j) /\ Dropped(j)' =>
                     /\ pc = "return" /\ j \in todo
                     /\ job \in batch \ todo /\ job \in BadPhone /\ dlq[job] > 0
<1>1. IInv /\ [Next]_vars => Drop
  <2> SUFFICES ASSUME IInv, [Next]_vars, NEW j \in Jobs, ~Dropped(j), Dropped(j)'
               PROVE  /\ pc = "return" /\ j \in todo
                      /\ job \in batch \ todo /\ job \in BadPhone /\ dlq[job] > 0
    OBVIOUS
  <2>1. j \notin handled /\ dlq[j] = 0 /\ state[j] # "completed"
    BY LogGrows DEF Dropped, IInv, TypeOK
  <2>2. BatchCompletes /\ j \in batch
    \* No other action completes a job.
    BY <2>1 DEF Dropped, IInv, TypeOK, Next, Worker, vars, bossVars, workerVars,
       apiVars, logVars, AddJob, Expire, AfterFailure, Fetch, ApiAnswers, LateAnswer,
       ApiTimesOut, StartJob, MarkDelivered, MarkFailed, SendToDeadLetterQueue,
       BatchCompletes, BatchFails, DeadLetterSendFails, Crash, WorkerDone
  <2>3. pc = "return"
    \* At the regular end of the loop every job of the batch was handled.
    BY <2>1, <2>2 DEF BatchCompletes, IInv, TypeOK, WorkerInv, LoopInv
  <2>4. job \in BadPhone /\ dlq[job] > 0 /\ job \in batch \ todo
    BY <2>3 DEF IInv, LoopInv, WorkerInv
  <2>5. j # job /\ j \in todo
    \* The job the callback is at is dead-lettered, those before it were handled.
    BY <2>1, <2>2, <2>4 DEF IInv, LoopInv
  <2>. QED
    BY <2>3, <2>4, <2>5
<1>. QED
  BY Inductive, <1>1, PTL DEF Spec, DroppedOnlyBehindBadPhone

-----------------------------------------------------------------------------
(* Dead letters *)

\* Only bad phone numbers are dead-lettered, since the worker never recognises a last
\* attempt; they are never requested of WhatsApp; and a job is on the dead-letter
\* queue once for each crash, and once more when its batch is or will be completed.
DeadInv ==
  /\ pc \in {"calling", "answered"} => job \notin BadPhone
  /\ pc = "deadletter" => cause = "invalid_phone"
  /\ \A j \in BadPhone : accepted[j] + open[j] = 0
  /\ \A j \in Jobs : dlq[j] > 0 => j \in BadPhone
  /\ \A j \in Jobs : dlq[j] <= faults + 1
  /\ \A j \in Jobs : state[j] # "completed" /\ (pc = "return" => job # j) => dlq[j] <= faults

LEMMA NeverExceeded == \A j : RetriesExceeded(j) = FALSE
  BY DEF RetriesExceeded, SeenRetryCount, SeenRetryLimit

LEMMA DeadStep ==
  ASSUME IInv, DeadInv, [Next]_vars
  PROVE  DeadInv'
<1> USE DEF IInv, TypeOK, WorkerInv, DeadInv, States, Places, Causes,
            bossVars, workerVars, apiVars, logVars
<1>1. ASSUME NEW j \in Jobs, AddJob(j) \/ Expire(j) PROVE DeadInv'
  BY <1>1 DEF AddJob, Expire, AfterFailure
<1>2. ASSUME NEW S \in SUBSET Jobs, Fetch(S) PROVE DeadInv'
  BY <1>2 DEF Fetch, Ready
<1>3. ASSUME NEW reply \in Replies, ApiAnswers(reply) PROVE DeadInv'
  BY <1>3 DEF ApiAnswers, Count
<1>4. ASSUME NEW j \in Jobs, NEW reply \in Replies, LateAnswer(j, reply) PROVE DeadInv'
  \* A job with a bad phone number has no open request.
  BY <1>4 DEF LateAnswer, Count
<1>5. CASE ApiTimesOut
  BY <1>5 DEF ApiTimesOut
<1>6. ASSUME NEW j \in Jobs, StartJob(j) PROVE DeadInv'
  BY <1>6 DEF StartJob
<1>7. CASE MarkDelivered
  BY <1>7 DEF MarkDelivered, WriteStatus
<1>8. CASE MarkFailed
  BY <1>8, NeverExceeded DEF MarkFailed, OnError, WriteStatus, ClassifyError
<1>9. CASE SendToDeadLetterQueue
  \* It was dead-lettered once for each crash so far; this is the one more.
  <2>1. /\ job \in BadPhone /\ pc' = "return" /\ job' = job /\ cause' = cause
        /\ accepted' = accepted /\ open' = open /\ state' = state /\ faults' = faults
    BY <1>9 DEF SendToDeadLetterQueue, ClassifyError
  <2>2. \A j \in Jobs : dlq'[j] = IF j = job THEN dlq[j] + 1 ELSE dlq[j]
    BY <1>9, <2>1 DEF SendToDeadLetterQueue
  <2>3. dlq[job] <= faults /\ dlq[job] \in Nat /\ faults \in Nat
    BY <1>9, <2>1 DEF SendToDeadLetterQueue
  <2>4. ASSUME NEW j \in Jobs
        PROVE  /\ dlq'[j] > 0 => j \in BadPhone
               /\ dlq'[j] <= faults' + 1
               /\ state'[j] # "completed" /\ (pc' = "return" => job' # j) => dlq'[j] <= faults'
    BY <1>9, <2>1, <2>2, <2>3 DEF SendToDeadLetterQueue
  <2>5. \A j \in BadPhone : accepted'[j] + open'[j] = 0
    BY <2>1
  <2>. QED
    BY ONLY <2>1, <2>4, <2>5 DEF DeadInv
<1>10. CASE BatchCompletes \/ BatchFails
  BY <1>10 DEF BatchCompletes, BatchFails, WorkerDone, AfterFailure
<1>11. CASE DeadLetterSendFails \/ Crash
  BY <1>11 DEF DeadLetterSendFails, Crash, WorkerDone
<1>12. CASE UNCHANGED vars
  BY <1>12 DEF vars
<1>. QED
  BY <1>1, <1>2, <1>3, <1>4, <1>5, <1>6, <1>7, <1>8, <1>9, <1>10, <1>11, <1>12
  DEF Next, Worker

\* A message on the dead-letter queue was not and will not be requested of WhatsApp,
\* and is there once, or once more for each crash (queue.service 346-363).
THEOREM DeadLettersStayFinal == Spec => []DeadLettersAreFinal
<1>1. Init => DeadInv
  BY DEF Init, DeadInv
<1>2. IInv /\ DeadInv /\ [Next]_vars => DeadInv'
  BY DeadStep
<1>3. IInv /\ DeadInv => DeadLettersAreFinal
  BY DEF IInv, TypeOK, DeadInv, DeadLettersAreFinal
<1>. QED
  BY Inductive, <1>1, <1>2, <1>3, PTL DEF Spec

-----------------------------------------------------------------------------
(* What a queue without faults shows *)

\* A job that the loop has passed shows DELIVERED, whatever it showed before.
ShownInv == faults = 0 => \A j \in batch \ todo : j # job => status[j] = "DELIVERED"

LEMMA ShownStep ==
  ASSUME IInv, ShownInv, [Next]_vars
  PROVE  ShownInv'
<1> USE DEF IInv, TypeOK, WorkerInv, ShownInv, States, Places,
            bossVars, workerVars, apiVars, logVars
<1>1. ASSUME NEW j \in Jobs, AddJob(j) \/ Expire(j) PROVE ShownInv'
  BY <1>1 DEF AddJob, Expire
<1>2. ASSUME NEW S \in SUBSET Jobs, Fetch(S) PROVE ShownInv'
  BY <1>2 DEF Fetch
<1>3. ASSUME NEW reply \in Replies, ApiAnswers(reply) PROVE ShownInv'
  BY <1>3 DEF ApiAnswers
<1>4. ASSUME NEW j \in Jobs, NEW reply \in Replies, LateAnswer(j, reply) PROVE ShownInv'
  BY <1>4 DEF LateAnswer
<1>5. CASE ApiTimesOut
  BY <1>5 DEF ApiTimesOut
<1>6. ASSUME NEW j \in Jobs, StartJob(j) PROVE ShownInv'
  BY <1>6 DEF StartJob
<1>7. CASE MarkDelivered
  BY <1>7 DEF MarkDelivered, WriteStatus
<1>8. CASE MarkFailed
  BY <1>8 DEF MarkFailed, WriteStatus, OnError
<1>9. CASE SendToDeadLetterQueue
  BY <1>9 DEF SendToDeadLetterQueue
<1>10. CASE BatchCompletes \/ BatchFails
  BY <1>10 DEF BatchCompletes, BatchFails, WorkerDone
<1>11. CASE DeadLetterSendFails \/ Crash
  BY <1>11 DEF DeadLetterSendFails, Crash, WorkerDone
<1>12. CASE UNCHANGED vars
  BY <1>12 DEF vars
<1>. QED
  BY <1>1, <1>2, <1>3, <1>4, <1>5, <1>6, <1>7, <1>8, <1>9, <1>10, <1>11, <1>12
  DEF Next, Worker

\* Which action completes a job, and which changes the status of its message.
LEMMA WhoCompletes ==
  ASSUME IInv, [Next]_vars, NEW j \in Jobs, state'[j] = "completed", state[j] # "completed"
  PROVE  BatchCompletes /\ j \in batch
  BY DEF IInv, TypeOK, Next, Worker, vars, bossVars, workerVars,
     apiVars, logVars, AddJob, Expire, AfterFailure, Fetch, ApiAnswers, LateAnswer,
     ApiTimesOut, StartJob, MarkDelivered, MarkFailed, SendToDeadLetterQueue,
     BatchCompletes, BatchFails, DeadLetterSendFails, Crash, WorkerDone

LEMMA WhoseStatus ==
  ASSUME IInv, [Next]_vars, NEW j \in Jobs, status'[j] # status[j]
  PROVE  j = job /\ j \in batch /\ state' = state
  BY DEF IInv, TypeOK, WorkerInv, Next, Worker, vars, bossVars, workerVars,
     apiVars, logVars, AddJob, Expire, Fetch, ApiAnswers, LateAnswer, WriteStatus,
     ApiTimesOut, StartJob, MarkDelivered, MarkFailed, SendToDeadLetterQueue,
     BatchCompletes, BatchFails, DeadLetterSendFails, Crash

LEMMA FaultsGrow ==
  ASSUME IInv, [Next]_vars
  PROVE  faults \in Nat /\ faults' >= faults
  BY DEF IInv, TypeOK, Next, Worker, vars, bossVars, workerVars,
     apiVars, logVars, AddJob, Expire, Fetch, ApiAnswers, LateAnswer, WriteStatus,
     ApiTimesOut, StartJob, MarkDelivered, MarkFailed, SendToDeadLetterQueue,
     BatchCompletes, BatchFails, DeadLetterSendFails, Crash

LEMMA CompletedStep ==
  ASSUME IInv, ShownInv, CompletedShowsDelivered, [Next]_vars
  PROVE  CompletedShowsDelivered'
<1> SUFFICES ASSUME faults' = 0, NEW j \in Jobs, state'[j] = "completed"
             PROVE  status'[j] = "DELIVERED" \/ \E k \in BadPhone : dlq'[k] > 0
  BY DEF CompletedShowsDelivered
<1>0. faults = 0
  BY FaultsGrow
<1>1. CASE state[j] = "completed"
  <2>1. status[j] = "DELIVERED" \/ \E k \in BadPhone : dlq[k] > 0
    BY <1>0, <1>1 DEF CompletedShowsDelivered
  <2>2. status'[j] = status[j]
    BY <1>1, WhoseStatus DEF IInv, WorkerInv
  <2>. QED
    BY <2>1, <2>2, LogGrows DEF IInv
<1>2. CASE state[j] # "completed"
  <2>1. BatchCompletes /\ j \in batch
    BY <1>2, WhoCompletes
  <2>2. CASE pc = "return"
    BY <2>1, <2>2 DEF BatchCompletes, logVars, IInv, LoopInv
  <2>3. CASE pc # "return"
    \* The loop is done: it has passed every job.
    <3>1. j \in batch \ todo /\ job = NoJob /\ j # job /\ status' = status
      BY <2>1, <2>3 DEF BatchCompletes, logVars, IInv, WorkerInv
    <3>. QED
      BY <1>0, <3>1 DEF ShownInv
  <2>. QED
    BY <2>2, <2>3
<1>. QED
  BY <1>1, <1>2

\* If no status write fails, a completed job shows DELIVERED, unless a bad phone
\* number made the callback return early: for every batch size, every number of
\* timeouts and retries (queue.processors 33-214, queue.service 489-556).
THEOREM CompletedJobsShowIt == Spec => []CompletedShowsDelivered
<1>1. Init => ShownInv /\ CompletedShowsDelivered
  BY DEF Init, ShownInv, CompletedShowsDelivered
<1>2. IInv /\ ShownInv /\ CompletedShowsDelivered /\ [Next]_vars => ShownInv' /\ CompletedShowsDelivered'
  BY ShownStep, CompletedStep
<1>. QED
  BY Inductive, <1>1, <1>2, PTL DEF Spec

-----------------------------------------------------------------------------
(* Batches of one *)

\* The callback has one job at most.
SoleInv == \A j, k \in batch : j = k

LEMMA SoleStep ==
  ASSUME BatchSize = 1, IInv, SoleInv, [Next]_vars
  PROVE  SoleInv'
<1>1. ASSUME NEW S \in SUBSET Jobs, Fetch(S) PROVE SoleInv'
  <2>1. IsFiniteSet(S) /\ Cardinality(S) \in Nat /\ Cardinality(S) <= 1 /\ S # {}
    BY <1>1, FS_Subset, FS_CardinalityType DEF Fetch
  <2>2. Cardinality(S) = 1
    BY <2>1, FS_EmptySet
  <2>3. \E x : S = {x}
    BY <2>1, <2>2, FS_Singleton
  <2>. QED
    BY <1>1, <2>3 DEF Fetch, SoleInv
<1>2. CASE \A S \in SUBSET Jobs : ~Fetch(S)
  <2>1. batch' \subseteq batch
    BY <1>2 DEF Next, Worker, vars, workerVars, AddJob, Expire, ApiAnswers, LateAnswer, ApiTimesOut,
       StartJob, MarkDelivered, MarkFailed, SendToDeadLetterQueue, BatchCompletes, BatchFails,
       DeadLetterSendFails, Crash, WorkerDone
  <2>. QED
    BY <2>1 DEF SoleInv
<1>. QED
  BY <1>1, <1>2

\* A batch is settled only when each of its jobs was handled or dead-lettered.
LEMMA BatchIsPaid ==
  ASSUME BadPhone = {} \/ SoleInv, IInv, BatchCompletes
  PROVE  \A j \in batch : j \in handled \/ dlq[j] > 0
<1>1. CASE pc = "return"
  BY <1>1 DEF IInv, TypeOK, WorkerInv, LoopInv, SoleInv
<1>2. CASE pc # "return"
  BY <1>2 DEF BatchCompletes, IInv, TypeOK, WorkerInv, LoopInv
<1>. QED
  BY <1>1, <1>2

\* As long as no phone number is bad, or in batches of one, nothing is completed that
\* was neither handled nor dead-lettered.
THEOREM HandledJobsComplete ==
  ASSUME BatchSize = 1 \/ BadPhone = {}
  PROVE  Spec => []OnlyHandledJobsComplete
<1> DEFINE Sole == BadPhone = {} \/ SoleInv
<1>1. Init => Sole /\ OnlyHandledJobsComplete
  BY DEF Init, SoleInv, OnlyHandledJobsComplete, Dropped
<1>2. IInv /\ Sole /\ OnlyHandledJobsComplete /\ [Next]_vars => Sole' /\ OnlyHandledJobsComplete'
  <2> SUFFICES ASSUME IInv, Sole, OnlyHandledJobsComplete, [Next]_vars
               PROVE  Sole' /\ OnlyHandledJobsComplete'
    OBVIOUS
  <2>1. Sole'
    BY SoleStep
  <2>2. ASSUME NEW j \in Jobs, Dropped(j)' PROVE FALSE
    <3>1. ~Dropped(j)
      BY DEF OnlyHandledJobsComplete
    <3>2. j \notin handled /\ dlq[j] = 0 /\ state[j] # "completed"
      BY <2>2, <3>1, LogGrows DEF Dropped, IInv, TypeOK
    <3>3. BatchCompletes /\ j \in batch
      BY <2>2, <3>2, WhoCompletes DEF Dropped
    <3>. QED
      BY <3>2, <3>3, BatchIsPaid
  <2>. QED
    BY <2>1, <2>2 DEF OnlyHandledJobsComplete
<1>. QED
  BY Inductive, <1>1, <1>2, PTL DEF Spec

-----------------------------------------------------------------------------
(* The queue implements JobPromise *)

\* What pg-boss knows of a job, as JobPromise sees it; the dead-lettered jobs.
PhaseOf(j) == CASE state[j] = "absent"    -> "absent"
                [] state[j] = "completed" -> "done"
                [] state[j] = "failed"    -> "failed"
                [] OTHER                  -> "pending"
Phase == [j \in Jobs |-> PhaseOf(j)]
Dead == {j \in Jobs : dlq[j] > 0}

LEMMA InitPromise == Init => Promise!PromiseInit
  BY DEF Init, Promise!PromiseInit

\* A job that keeps its state, or is active, ready or waiting for a retry before and
\* after a step, keeps its phase.
LEMMA PhaseKept ==
  ASSUME IInv, [Next]_vars,
         \A j \in Jobs : \/ state'[j] = state[j]
                        \/ /\ state[j] \in {"created", "active", "retry"}
                           /\ state'[j] \in {"created", "active", "retry"}
  PROVE  Phase' = Phase
<1> SUFFICES ASSUME NEW j \in Jobs PROVE PhaseOf(j)' = PhaseOf(j)
  BY DEF Phase
<1>. QED
  BY DEF PhaseOf

LEMMA DeadKept == ASSUME dlq' = dlq PROVE Dead' = Dead
  BY DEF Dead

LEMMA PromiseStep ==
  ASSUME BadPhone = {} \/ SoleInv, IInv, [Next]_vars
  PROVE  [Promise!PromiseNext]_(Promise!promiseVars)
<1> DEFINE Step == \/ \E j \in Jobs : Promise!Accept(j) \/ Promise!Handle(j) \/ Promise!DeadLetter(j)
                   \/ \E S \in SUBSET Jobs : Promise!Finish(S) \/ Promise!GiveUp(S)
                   \/ Phase' = Phase /\ handled' = handled /\ Dead' = Dead
<1> SUFFICES Step
  BY DEF Promise!PromiseNext, Promise!promiseVars, Phase, PhaseOf, Dead
<1> USE DEF IInv, TypeOK, WorkerInv, States, Places, bossVars, workerVars, apiVars, logVars
<1>1. ASSUME NEW j \in Jobs, AddJob(j) PROVE Promise!Accept(j)
  BY <1>1 DEF AddJob, Promise!Accept
<1>2. ASSUME NEW j \in Jobs, Expire(j) PROVE Step
  <2>1. CASE retries[j] < RetryLimit
    <3>1. state' = [state EXCEPT ![j] = "retry"] /\ handled' = handled /\ dlq' = dlq
      BY <1>2, <2>1 DEF Expire, AfterFailure
    <3>2. Phase' = Phase
      BY <1>2, <3>1, PhaseKept DEF Expire
    <3>. QED
      BY <3>1, <3>2, DeadKept
  <2>2. CASE ~(retries[j] < RetryLimit)
    <3>1. Promise!GiveUp({j})
      BY <1>2, <2>2 DEF Expire, AfterFailure, Promise!GiveUp, Promise!Settle
    <3>. QED
      BY <3>1
  <2>. QED
    BY <2>1, <2>2
<1>3. ASSUME NEW S \in SUBSET Jobs, Fetch(S) PROVE Step
  <2>1. Phase' = Phase
    BY <1>3, PhaseKept DEF Fetch, Ready
  <2>. QED
    BY <1>3, <2>1, DeadKept DEF Fetch
<1>4. CASE MarkDelivered
  <2>1. job \in Jobs /\ state[job] = "active"
    BY <1>4 DEF MarkDelivered
  <2>2. Promise!Handle(job)
    BY <1>4, <2>1 DEF MarkDelivered, Promise!Handle
  <2>. QED
    BY <2>1, <2>2
<1>5. CASE SendToDeadLetterQueue
  <2>1. job \in Jobs /\ state[job] = "active"
    BY <1>5 DEF SendToDeadLetterQueue
  <2>2. state' = state /\ handled' = handled /\ dlq' = [dlq EXCEPT ![job] = dlq[job] + 1]
    BY <1>5 DEF SendToDeadLetterQueue
  <2>3. Dead' = Dead \cup {job}
    <3>1. \A j \in Jobs : dlq'[j] = IF j = job THEN dlq[j] + 1 ELSE dlq[j]
      BY <2>1, <2>2
    <3>2. \A j \in Jobs : dlq[j] \in Nat
      OBVIOUS
    <3>. QED
      BY <2>1, <3>1, <3>2 DEF Dead
  <2>4. Phase' = Phase /\ Phase[job] = "pending"
    BY <2>1, <2>2 DEF Phase, PhaseOf
  <2>5. PICK j \in Jobs : j = job
    BY <2>1
  <2>6. Promise!DeadLetter(j)
    BY <2>2, <2>3, <2>4, <2>5 DEF Promise!DeadLetter, Phase, PhaseOf, Dead
  <2>. QED
    BY <2>6
<1>6. CASE BatchCompletes
  <2>1. \A j \in batch : j \in handled \/ dlq[j] > 0
    BY <1>6, BatchIsPaid
  <2>2. /\ state' = [j \in Jobs |-> IF j \in batch THEN "completed" ELSE state[j]]
        /\ handled' = handled /\ Dead' = Dead
    BY <1>6, DeadKept DEF BatchCompletes
  <2>3. batch \subseteq handled \cup Dead
    BY <2>1 DEF Dead
  <2>4. \A j \in batch : Phase[j] = "pending"
    BY DEF Phase, PhaseOf
  <2>5. Phase' = [j \in Jobs |-> IF j \in batch THEN "done" ELSE Phase[j]]
    BY <2>2 DEF Phase, PhaseOf
  <2>6. PICK S \in SUBSET Jobs : S = batch
    OBVIOUS
  <2>7. Promise!Finish(S)
    BY <2>2, <2>3, <2>4, <2>5, <2>6 DEF Promise!Finish, Promise!Settle, Phase, PhaseOf, Dead
  <2>. QED
    BY <2>7
<1>7. CASE BatchFails
  <2> DEFINE Given == {j \in batch : ~(retries[j] < RetryLimit)}
  <2>1. /\ state' = [j \in Jobs |-> IF j \in batch THEN AfterFailure(j) ELSE state[j]]
        /\ handled' = handled /\ Dead' = Dead
    BY <1>7, DeadKept DEF BatchFails
  <2>2. \A j \in Given : Phase[j] = "pending"
    BY DEF Phase, PhaseOf
  <2>3. Phase' = [j \in Jobs |-> IF j \in Given THEN "failed" ELSE Phase[j]]
    BY <2>1 DEF Phase, PhaseOf, AfterFailure
  <2>4. PICK S \in SUBSET Jobs : S = Given
    OBVIOUS
  <2>5. Promise!GiveUp(S)
    BY <2>1, <2>2, <2>3, <2>4 DEF Promise!GiveUp, Promise!Settle, Phase, PhaseOf, Dead
  <2>. QED
    BY <2>5
<1>8. CASE UNCHANGED <<state, handled, dlq>>
  <2>1. Phase' = Phase
    BY <1>8, PhaseKept
  <2>. QED
    BY <1>8, <2>1, DeadKept
<1>9. \/ \E j \in Jobs : AddJob(j) \/ Expire(j)
      \/ \E S \in SUBSET Jobs : Fetch(S)
      \/ MarkDelivered \/ SendToDeadLetterQueue \/ BatchCompletes \/ BatchFails
      \/ UNCHANGED <<state, handled, dlq>>
  BY DEF Next, Worker, vars, ApiAnswers, LateAnswer, ApiTimesOut, StartJob, MarkFailed,
     DeadLetterSendFails, Crash
<1>. QED
  BY <1>1, <1>2, <1>3, <1>4, <1>5, <1>6, <1>7, <1>8, <1>9

\* As long as no phone number is bad, or in batches of one, the queue implements
\* JobPromise, for every number of jobs, retries, timeouts and crashes.
THEOREM QueueKeepsPromise ==
  ASSUME BatchSize = 1 \/ BadPhone = {}
  PROVE  Spec => KeepsPromise
<1> DEFINE Sole == BadPhone = {} \/ SoleInv
<1>1. Init => Sole
  BY DEF Init, SoleInv
<1>2. IInv /\ Sole /\ [Next]_vars => Sole'
  BY SoleStep
<1>3. IInv /\ Sole /\ [Next]_vars => [Promise!PromiseNext]_(Promise!promiseVars)
  BY PromiseStep
<1>. QED
  BY Inductive, InitPromise, <1>1, <1>2, <1>3, PTL DEF Spec, KeepsPromise, Promise!PromiseSpec
=============================================================================
