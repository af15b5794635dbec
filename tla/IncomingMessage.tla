-------------------------- MODULE IncomingMessage --------------------------
(***************************************************************************)
(* A customer's messages on their way from the WhatsApp webhook over the   *)
(* incoming queue into the database and to the bot, for one customer whose *)
(* case exists: CustomerService.processIncomingMessage queues a message,   *)
(* the worker runs processIncomingMessageFromQueue under withTimeout.      *)
(*                                                                         *)
(* A run is one execution of processIncomingMessageFromQueue. A run that   *)
(* timed out goes on beside the runs that follow it, as does the run the   *)
(* webhook makes itself when it cannot queue; agents act between any two   *)
(* steps. A run keeps the node it read (seen) and acts on that.            *)
(*                                                                         *)
(* The queue is abstracted from JobQueue: a job is attempted at most       *)
(* RetryLimit + 1 times; a job whose run ended well may be repeated all    *)
(* the same, because another job of its batch failed. Issues, whether they *)
(* are linked, and the status of the case are CaseIssue's: here any case   *)
(* may turn out to be without issue, SOLVED or with its timer run out, and *)
(* with the bot or with an agent. Not modelled: the first contact of a     *)
(* customer, and batches that outlast their five minutes. A rating is one  *)
(* of the replies that reset the node.                                     *)
(***************************************************************************)
EXTENDS Naturals, FiniteSets

CONSTANTS
  Messages,      \* WhatsApp messages of the customer
  Media,         \* those that carry a picture, a video or a document
  Deliveries,    \* bound: webhook calls
  RetryLimit,    \* option retryLimit of queueIncomingMessage
  SingletonKey,  \* does pg-boss refuse a job whose key is still pending?
  MaxFaults,     \* bound: failed database calls, failed sends, crashes, and
                 \* runs that go on with nobody waiting for them
  NoMessage, NoRun

ASSUME IncomingAssumption ==
  /\ Media \subseteq Messages
  /\ Deliveries \in Nat
  /\ RetryLimit \in Nat
  /\ SingletonKey \in BOOLEAN
  /\ MaxFaults \in Nat
  /\ NoMessage \notin Messages

Jobs == 1..Deliveries
\* Runs of a job: its attempts 0..RetryLimit, and the one of the webhook.
BySelf == RetryLimit + 1
Runs == Jobs \X (0..BySelf)

ASSUME NoRunAssumption == NoRun \notin Runs

VARIABLES
  message,   \* what each job carries
  job,       \* pg-boss: state of each job
  retries,   \* pg-boss: retry count of each job
  worker,    \* the run the worker waits for
  at,        \* where each run is
  seen,      \* lastBotNodeId as a run has read it
  node,      \* Case.lastBotNodeId: none, asked (a node that was sent) or stop
  awaiting,  \* has a node been sent since the last reply to a node was taken?
  stored,    \* rows of Message for each message
  apart,     \* how many runs have gone on with nobody waiting for them
  faults     \* other faults so far

queueVars == <<message, job, retries, worker>>
caseVars  == <<node, awaiting>>
runVars   == <<at, seen>>
vars == <<queueVars, runVars, caseVars, stored, apart, faults>>

JobStates == {"absent", "ready", "active", "handled", "completed", "failed", "refused"}
Places == {"idle", "manage", "hi", "reread", "find", "create", "respond",
           "bare", "stop", "greet", "reset", "next", "reply"}
Nodes == {"none", "asked", "stop"}

TypeOK ==
  /\ message \in [Jobs -> Messages \cup {NoMessage}]
  /\ job \in [Jobs -> JobStates]
  /\ \A j \in Jobs : job[j] = "absent" \/ message[j] \in Messages
  /\ retries \in [Jobs -> 0..RetryLimit]
  /\ worker \in Runs \cup {NoRun}
  /\ at \in [Runs -> Places]
  /\ seen \in [Runs -> Nodes]
  /\ node \in Nodes /\ awaiting \in BOOLEAN
  /\ stored \in [Messages -> Nat]
  /\ apart \in Nat /\ faults \in Nat /\ apart + faults <= MaxFaults

Init ==
  /\ message = [j \in Jobs |-> NoMessage]
  /\ job = [j \in Jobs |-> "absent"]
  /\ retries = [j \in Jobs |-> 0]
  /\ worker = NoRun
  /\ at = [r \in Runs |-> "idle"]
  /\ seen = [r \in Runs |-> "none"]
  /\ node = "none" /\ awaiting = FALSE
  /\ stored = [m \in Messages |-> 0]
  /\ apart = 0 /\ faults = 0

-----------------------------------------------------------------------------
(* The webhook and the queue *)

Run(j) == <<j, retries[j]>>
Message(r) == message[r[1]]

\* A run goes on at a place. Once it has responded it needs no more what it saw.
Go(r, place) ==
  /\ at' = [at EXCEPT ![r] = place]
  /\ seen' = IF place \in {"create", "respond", "bare"} THEN seen ELSE [seen EXCEPT ![r] = "none"]

\* Is a job with the key of message m still pending?
Pending(m) ==
  \E j \in Jobs : message[j] = m /\ job[j] \in {"ready", "active", "handled"}

\* Mutant: a webhook call without a message is queued all the same.
DeliverMutant(j, m) ==
  /\ job[j] = "absent" /\ \A i \in Jobs : i < j => job[i] # "absent"
  /\ message' = [message EXCEPT ![j] = NoMessage]
  /\ job' = [job EXCEPT ![j] = "ready"]
  /\ UNCHANGED <<retries, worker, runVars, caseVars, stored, apart, faults>>

\* A webhook call: the message becomes a job, unless pg-boss refuses its key.
Deliver(j, m) ==
  /\ job[j] = "absent" /\ \A i \in Jobs : i < j => job[i] # "absent"
  /\ message' = [message EXCEPT ![j] = m]
  /\ job' = [job EXCEPT ![j] = IF SingletonKey /\ Pending(m) THEN "refused" ELSE "ready"]
  /\ UNCHANGED <<retries, worker, runVars, caseVars, stored, apart, faults>>

\* boss.send throws, the job stored or not: the webhook processes the message.
DeliverItself(j, m) ==
  /\ job[j] = "absent" /\ \A i \in Jobs : i < j => job[i] # "absent"
  /\ apart + faults < MaxFaults /\ apart' = apart + 1
  /\ message' = [message EXCEPT ![j] = m]
  /\ \E s \in {"ready", "refused"} : job' = [job EXCEPT ![j] = s]
  /\ Go(<<j, BySelf>>, "manage")
  /\ UNCHANGED <<retries, worker, caseVars, stored, faults>>

\* The worker's loop takes the next job.
Start(j) ==
  /\ worker = NoRun /\ job[j] = "ready"
  /\ job' = [job EXCEPT ![j] = "active"]
  /\ worker' = Run(j)
  /\ Go(Run(j), "manage")
  /\ UNCHANGED <<message, retries, caseVars, stored, apart, faults>>

\* A failed attempt of job j.
Failed(j) ==
  IF retries[j] < RetryLimit
  THEN /\ job' = [job EXCEPT ![j] = "ready"]
       /\ retries' = [retries EXCEPT ![j] = @ + 1]
  ELSE job' = [job EXCEPT ![j] = "failed"] /\ UNCHANGED retries

\* The batch of a handled job ends well, or another job of its batch fails it,
\* after its turn or before.
BatchCompletes(j) ==
  /\ job[j] = "handled"
  /\ job' = [job EXCEPT ![j] = "completed"]
  /\ UNCHANGED <<message, retries, worker, runVars, caseVars, stored, apart, faults>>
BatchFails(j) ==
  /\ job[j] \in {"handled", "ready"}
  /\ Failed(j)
  /\ UNCHANGED <<message, worker, runVars, caseVars, stored, apart, faults>>

\* A job the crashed process was working on expires.
Expire(j) ==
  /\ job[j] = "active" /\ worker # Run(j)
  /\ Failed(j)
  /\ UNCHANGED <<message, worker, runVars, caseVars, stored, apart, faults>>

\* Run r returns, or throws: the worker notices if it still waits for r.
Returns(r) ==
  IF worker = r
  THEN worker' = NoRun /\ job' = [job EXCEPT ![r[1]] = "handled"] /\ UNCHANGED retries
  ELSE UNCHANGED <<job, retries, worker>>
Throws(r) ==
  /\ Go(r, "idle")
  /\ IF worker = r
     THEN worker' = NoRun /\ Failed(r[1])
     ELSE UNCHANGED <<job, retries, worker>>

\* withTimeout rejects after 60 s; the run goes on, or hangs for ever.
TimesOut(r) ==
  /\ worker = r /\ worker' = NoRun
  /\ Failed(r[1])
  /\ \/ apart + faults < MaxFaults /\ apart' = apart + 1 /\ UNCHANGED runVars
     \/ Go(r, "idle") /\ UNCHANGED apart
  /\ UNCHANGED <<message, caseVars, stored, faults>>

\* The process dies with all its runs.
Crash ==
  /\ \E r \in Runs : at[r] # "idle"
  /\ apart + faults < MaxFaults /\ faults' = faults + 1
  /\ worker' = NoRun
  /\ at' = [r \in Runs |-> "idle"] /\ seen' = [r \in Runs |-> "none"]
  /\ UNCHANGED <<message, job, retries, caseVars, stored, apart>>

\* A database call of run r throws. botSendByNodeId swallows the error, and the
\* run returns; the refund steps let it through.
Fault(r) ==
  /\ at[r] # "idle" /\ apart + faults < MaxFaults /\ faults' = faults + 1
  /\ \/ Throws(r)
     \/ at[r] = "reply" /\ Go(r, "idle") /\ Returns(r)
  /\ UNCHANGED <<message, caseVars, stored, apart>>

-----------------------------------------------------------------------------
(* processIncomingMessageFromQueue: the case *)

OnlyRun == UNCHANGED <<queueVars, apart, faults>>

\* handleCaseManagement looks up the case. One that is SOLVED or whose timer has
\* run out is reopened and the customer welcomed.
Manage(r) ==
  /\ at[r] = "manage"
  /\ \E place \in {"hi", "reread"} : Go(r, place)
  /\ OnlyRun /\ UNCHANGED <<caseVars, stored>>

\* sendWelcomeMsg stores and queues its message and sets the node. A run that
\* greets at its end returns.
Hi(r) ==
  /\ node' = "asked" /\ awaiting' = TRUE
  /\ \/ at[r] = "hi" /\ Go(r, "reread") /\ UNCHANGED <<job, retries, worker>>
     \/ at[r] = "greet" /\ Go(r, "idle") /\ Returns(r)
  /\ UNCHANGED <<message, apart, faults, stored>>

\* The case is read again: the rest of the run decides on this.
Reread(r) ==
  /\ at[r] = "reread"
  /\ at' = [at EXCEPT ![r] = "find"]
  /\ seen' = [seen EXCEPT ![r] = node]
  /\ OnlyRun /\ UNCHANGED <<caseVars, stored>>

-----------------------------------------------------------------------------
(* storeIncomingMessage, and whether the run stops, lets the bot reply, or ends *)

\* Where a run goes that saw node n and carries message m. At night the off-time
\* reply comes first, whoever has the case. To a case with an agent the bot says
\* nothing more. A text or tap that is no reply to a node may name one, or greet;
\* what a node does not expect gets the fallback.
Responses(n, m) ==
  IF n = "stop" THEN {"stop"}
  ELSE {"idle"} \cup (IF n = "asked" THEN {"reply", "reset"} ELSE {})
                \cup (IF m \notin Media THEN {"reply", "greet"} ELSE {})

\* Mutant: media is not looked up.
FindMediaMutant(r) ==
  /\ at[r] = "find"
  /\ Go(r, "create")
  /\ OnlyRun /\ UNCHANGED <<caseVars, stored>>

\* Media that is stored already is not stored again: the run goes on bare,
\* without a row of its message.
FindMedia(r) ==
  /\ at[r] = "find"
  /\ Go(r, IF Message(r) \in Media /\ stored[Message(r)] > 0 THEN "bare" ELSE "create")
  /\ OnlyRun /\ UNCHANGED <<caseVars, stored>>

\* Mutant: a failed message.create is not noticed.
CreateRowMutant(r) ==
  /\ at[r] = "create"
  /\ stored' \in {stored, [stored EXCEPT ![Message(r)] = @ + 1]}
  /\ Go(r, "respond")
  /\ OnlyRun /\ UNCHANGED caseVars

\* message.create, with the downloaded media.
CreateRow(r) ==
  /\ at[r] = "create"
  /\ stored' = [stored EXCEPT ![Message(r)] = @ + 1]
  /\ Go(r, "respond")
  /\ OnlyRun /\ UNCHANGED caseVars

\* Before the reset a reply to a node is noted in the row of the message: a bare
\* run throws.
Respond(r) ==
  /\ at[r] \in {"respond", "bare"}
  /\ \E place \in Responses(seen[r], Message(r)) :
       IF place = "reset" /\ at[r] = "bare" THEN Throws(r)
       ELSE /\ Go(r, place)
            /\ IF place = "idle" THEN Returns(r) ELSE UNCHANGED <<job, retries, worker>>
  /\ UNCHANGED <<message, apart, faults, caseVars, stored>>

\* The bot has stopped: the case goes to the agents. The update of the issue
\* throws if the case has none (any more).
Stop(r) ==
  /\ at[r] = "stop"
  /\ node' = "none"
  /\ \/ Go(r, "idle") /\ Returns(r)
     \/ Throws(r)
  /\ UNCHANGED <<message, apart, faults, awaiting, stored>>

\* Mutant: lastBotNodeId is not reset.
ResetMutant(r) ==
  /\ at[r] = "reset"
  /\ awaiting' = FALSE
  /\ Go(r, "next")
  /\ OnlyRun /\ UNCHANGED <<node, stored>>

\* "Reset lastBotNodeId once reply is received".
Reset(r) ==
  /\ at[r] = "reset"
  /\ node' = "none" /\ awaiting' = FALSE
  /\ Go(r, "next")
  /\ OnlyRun /\ UNCHANGED stored

\* What follows depends on the node: nothing, another node, or an agent is
\* called (triggerStatusUpdateBot(INITIATED, USER)). A picture at some nodes has
\* the node reset a second time.
Proceed(r) ==
  /\ at[r] = "next"
  /\ \/ Go(r, "idle") /\ Returns(r)
     \/ Go(r, "reply") /\ UNCHANGED <<job, retries, worker>>
  /\ node' \in {node, "none"}
  /\ UNCHANGED <<message, apart, faults, awaiting, stored>>

\* botSendByNodeId stores and queues a message and sets the node (or, for one
\* node, calls an agent, or leaves both). The off-time reply and the steps that
\* follow a refund screenshot are such replies.
Reply(r) ==
  /\ at[r] = "reply"
  /\ \/ node' = "asked" /\ awaiting' = TRUE
     \/ node' = "stop" /\ UNCHANGED awaiting
     \/ UNCHANGED <<node, awaiting>>
  /\ Go(r, "idle") /\ Returns(r)
  /\ UNCHANGED <<message, apart, faults, stored>>

-----------------------------------------------------------------------------
(* Agents *)

\* An agent sends a list ('agent-interactive').
SendList ==
  /\ node' = "asked" /\ awaiting' = TRUE
  /\ UNCHANGED <<queueVars, runVars, stored, apart, faults>>

\* An agent solves the case: lastBotNodeId is reset.
Solve ==
  /\ node' = "none"
  /\ UNCHANGED <<queueVars, runVars, awaiting, stored, apart, faults>>

-----------------------------------------------------------------------------
Process(r) ==
  Manage(r) \/ Hi(r) \/ Reread(r) \/ FindMedia(r) \/ CreateRow(r)
    \/ Respond(r) \/ Stop(r) \/ Reset(r) \/ Proceed(r) \/ Reply(r)

Next ==
  \/ \E j \in Jobs, m \in Messages : Deliver(j, m) \/ DeliverItself(j, m)
  \/ \E j \in Jobs : Start(j) \/ BatchCompletes(j) \/ BatchFails(j) \/ Expire(j)
  \/ \E r \in Runs : TimesOut(r) \/ Process(r) \/ Fault(r)
  \/ Crash \/ SendList \/ Solve

Spec == Init /\ [][Next]_vars

-----------------------------------------------------------------------------
(* Properties *)

\* As long as somebody waits for every run, media is stored once, whatever is
\* delivered twice, retried, crashes or repeats with its batch: the look-up and
\* the insertion are two calls, and only runs side by side fall between them.
MediaStoredOnce == apart = 0 => \A m \in Media : stored[m] <= 1

\* A job is not completed before its message is in the database, also if the run
\* that stored it is not the one that returned.
CompletedWasStored ==
  \A j \in Jobs : job[j] \in {"handled", "completed"} => stored[message[j]] > 0

\* As long as somebody waits for every run, no node of the bot takes two
\* replies ("Reset lastBotNodeId once reply is received"): between two of them
\* the bot has sent a node, also if a run is repeated or an agent closes the case.
RepliesTakenOnce ==
  apart = 0 => \A r \in Runs : at[r] = "reset" => awaiting

\* "Extract message ID for singleton key to prevent duplicate processing"
\* (queueIncomingMessage): no message is stored twice.
StoredOnce == \A m \in Messages : stored[m] <= 1
=============================================================================
