# GoCare: models, checks and proofs

GoCare is the customer-support backend of GoGrab: a NestJS service that receives
WhatsApp messages of customers through a webhook, lets a bot or a human agent answer
them over a web socket, and keeps customers, cases, issues and messages in PostgreSQL
(Prisma). Messages in both directions go through job queues of pg-boss, in the same
database. This directory holds TLA+ models of the parts of it that run concurrently
and keep state, the TLC configurations that check them, and proofs that TLAPS checks.

All source paths below are relative to `src/`, the code of the service.

## 1. The system

### Components, state and operations

| component | state it keeps | operations |
|---|---|---|
| outgoing queue (`queue/queue.service.ts`, `queue/queue.processors.ts`) | pg-boss jobs with retry counts; `Message.systemStatus`; the dead-letter queue | `addJob`; `registerHandler`'s loop over a batch; five WhatsApp handlers with `withTimeout`; `classifyError`; `sendToDeadLetterQueue` |
| incoming messages (`customer/customer.service.ts`, incoming handler of `queue.processors.ts`) | incoming jobs; rows of `Message` and `Media` | webhook `processIncomingMessage`; `queueIncomingMessage`; `processIncomingMessageFromQueue` with `handleCaseManagement`, `storeIncomingMessage`, routing to the bot |
| case and issue lifecycle (`chat/chat.gateway.ts`, `chat/chat.service.ts`, `customer.service.ts`, `cases/cases.service.ts`) | `Case.currentIssueId`, `Case.status`, `IssueEvent`, `StatusEvent` | socket events new-message, quick-msg-gtw, send-t, update-contact-status, updateIssue; `createMessage`; `triggerStatusUpdateBot`; `updateCaseStatus` |
| bot flow (`bot/bot.service.ts`) | `Case.lastBotNodeId`, table of nodes | `botSendByNodeId`, `sendWelcomeMsg`, off-time and fallback messages |
| handover of a case | `Case.assignedTo`: BOT or USER | agents take a case by talking; the bot calls an agent; reopening gives it back |
| refund screenshots (`customer.service.ts`, `bot.service.ts`) | `Case.meta`: tries and activity | `handleRefundRetry`, `handleRefundScreenshot`, escalation |
| refund job (`queue.processors.ts`) | `IssueEvent.refundAmountMinor` | process-refund |
| rate limiter (`queue.service.ts` `checkRateLimit`) | count and start of a window | called before each outgoing job |
| unread counter (`chat.gateway.ts` `handleUnreadCount`) | `Case.unread` | started by every stored message of a customer or agent, awaited by none |
| socket rooms (`chat.gateway.ts`) | `activeRooms`, in memory, read by nothing | join, leave, disconnect, sweep |
| first contact (`customer.service.ts` `handleCustomerProfile`, `handleCaseManagement`) | the rows of a customer, its case, its first issue | find, else create and welcome |
| agent rating (`customer.service.ts` `handleAgentRating`) | `IssueEvent.agentRating`, `Case.lastBotNodeId` | a quick message asks with a list, a reply rates |
| chat list (`chat.gateway.ts`, `chat.service.ts`) | none of its own | `chatList`: count, page, count again |
| cron jobs (`cron/cron.service.ts`) | `DailyUserMessageSummary`, `ExpiredEvent` | hourly summaries and fallback counts, expired chats every ten minutes |
| authentication and password reset (`auth/auth.service.ts`) | `User.passwordResetOtp` and its expiry; sessions | `forgotPassword`, `resetPassword`; sign-in |
| analytics (`analytics/analytics.service.ts`) | `HourlyAnalytics`, `TagAnalytics`, daily and overall rows | hourly job, backfill, charts |
| machine backend client, cloud storage, OCR, mail, metrics, controllers | none, or a cached token | I/O and queries |

### How they interact

The webhook queues a message, or processes it itself if queueing throws. A worker
fetches batches of incoming jobs and awaits one message after the other, each at most
60 s. Processing reads and writes the case and its issue, stores the message, and may
have the bot answer: `createMessage` stores the answer and `addJob` queues it for an
outgoing worker, which calls the WhatsApp API and stores DELIVERED or FAILED. Agents do
the same from sockets. All share one case row per customer; some of them use a
Serializable transaction, most read a column, await something and write later. Nothing
in the process excludes two handlers from running between each other's awaits.

### What is hard here, and what correct means

* **A batch is the unit of failure for pg-boss, a job for the code.** Whatever the
  callback does for one job (return, throw) settles all of its batch. Correct: a job is
  settled as done only when it was handled, or dead-lettered for a reason of its own; a
  customer gets a bounded number of copies; what is given up is dead-lettered.
* **A timeout abandons, it does not cancel.** A late API answer, or the rest of a slow
  incoming message, runs beside the retry. Correct: media stored once, no job completed
  before its message is stored.
* **Stale reads.** Handlers act on a `currentIssueId`, status, node or assignee read
  before several awaits. Correct: the case points at an open issue, no issue is left
  open and forgotten, the status log agrees with the status.
* **Crash and partial failure** between two writes that belong together.
* **Look up, then create.** First contact, expired events, codes, the rate limiter: each
  decides on what it read and writes later. Correct: what comes twice is bounded by what
  ran beside it, and nothing that ran alone comes twice.
* **Windows of time.** Business days, calendar days of India, hours and pages have
  boundaries: nothing is counted on both sides of one.

The hazards, each at its line, are in `PROJECT.json`.

## 2. Modules

| module | what it is |
|---|---|
| `JobPromise` | abstract specification: what queueing a job promises |
| `JobQueue` | one outgoing queue, its worker, the API, retries, dead letters; implements `JobPromise` for batches of one |
| `MCQueue` | the jobs of `JobQueue` for TLC: one with a bad number, one that lacks a part, a sound one |
| `JobQueueProofs` | proofs about `JobQueue` |
| `CaseIssue` | the case of one customer and its issues under concurrent handlers |
| `MCCaseIssue` | settings of `CaseIssue` for TLC |
| `CaseIssueProofs` | proofs about `CaseIssue` |
| `IncomingMessage` | messages from the webhook through the incoming queue into the database and to the bot |
| `IncomingMessageProofs` | proofs about `IncomingMessage` |
| `RefundFlow` | the refund screenshots of one case: tries in `Case.meta`, refusals, thrown examinations, giving up |
| `RefundFlowProofs` | proofs about `RefundFlow` |
| `Conversation` | one chat: rows, sends, unread counter, bot or agent |
| `ConversationProofs` | proofs about `Conversation` |
| `FirstContact` | the first messages of a customer |
| `FirstContactProofs` | proofs about `FirstContact` |
| `Rating` | the agent's rating |
| `MCDesk` | the chat, the first contact and the rating in one run |
| `DeskProofs` | proofs about `Rating`, and the types of all three |
| `DayCron` | the jobs that run by the clock |
| `RateLimit` | the limiter of the outgoing queues |
| `ChatPages` | a client that reads the chat list page by page |
| `PasswordReset` | the code for a new password |
| `Analytics` | tables by the hour and the charts over them |
| `MCServices` | the five above in one run |
| `ServicesProofs` | proofs about the five |

### JobQueue

One worker of `registerHandler` and the jobs of its queue. `state` and `retries` are
pg-boss's columns; `pc`, `batch`, `todo`, `job`, `cause` are the program counter and
locals of the callback; `open` and `accepted` count requests that were given up on and
copies WhatsApp accepted; `status` is `Message.systemStatus`; `handled` and `dlq` record
which handlers returned and which dead letters were sent.

| action | code |
|---|---|
| `AddJob` | `addJob`, queue.service 213-252 |
| `Fetch`, `BatchCompletes`, `BatchFails`, `Expire` | pg-boss (external), from the options the code passes |
| `StartJob` | the five handlers up to their API call: phone and content checks; `TextHandler` to `DocumentHandler` say which parts of the data each insists on and for which batches it is registered |
| `ApiAnswers`, `ApiTimesOut`, `LateAnswer` | `sendWhatsAppRequest` under `withTimeout`; a request given up on may still be answered |
| `MarkDelivered`, `MarkFailed` | the handler's end and its catch, then the loop's catch: `updateMessageStatus`, `classifyError`, retries exceeded |
| `SendToDeadLetterQueue`, `DeadLetterSendFails` | dead letter, then `return` out of the *whole* callback or rethrow |
| `Crash` | the process ends; the batch expires later |

`Queue` says which of the five queues it is, and `Missing[j]` which parts of the data of a
job are blank: what the handler of the queue insists on decides whether it throws. Each
queue run is of another queue.

Three points of the code shape the model. `sendWhatsAppRequest` catches every HTTP error and returns,
so no status ever reaches `classifyError`: a refused message is stored as DELIVERED. The `return`
for errors that must not be retried is inside the loop over the batch. The worker reads
`retrycount` and `retrylimit`; pg-boss 12 calls them `retryCount` and `retryLimit`, so what it
sees are always the defaults, no retry of three (`SeenRetryCount`, `SeenRetryLimit`), and its
last attempt is never recognised (`RetriesExceeded`).

### CaseIssue

Rows of `IssueEvent` are the ids 1..`created`, with sets `closed` and `active`; `current`
is `Case.currentIssueId`; `status` and `logged` are `Case.status` and the last
`StatusEvent`. A process is a socket handler, REST request, bot call or incoming worker;
it has a place `pc` and what it read before: `issue`, `from`, `to`. Every awaited database
call is one action, a `$transaction` is one action. `Roles` is a set of settings, each
saying which processes may run which handlers, so that one run can look both at
everything interleaving and at the restricted settings in which stronger properties hold.

| actions | code |
|---|---|
| `NewMessage`, `CreateIssue`, `LinkIssue`, `SendMessage` | `handleNewMessage` (chat.gateway 397-537): read, create, link, `createMessage` |
| `QuickMessage`, `SendQuickMessage` | `handleQuickMessage` and `sendQuickMessage`: read, `createMessage` (links), then `assignCaseToUser` with the id read before |
| `TemplateMessage` | `handleTemplateMessage` |
| `UserStatus`, `BotStatus`, `TouchIssue`, `SetStatus`, `RecordStatusChange` | `updateContactStatus`, agent and bot path, `recordStatusChange` |
| `UpdateIssue`, `CloseIssue`, `RereadCase` | updateIssue: read, transaction, read again, record |
| `Inbound`, `EnsureThenReopen`, `Reopen`, `Welcome` | `handleCaseManagement` for an existing case |
| `CreateMessage`, `UpdateCaseStatus` | `createMessage` on its own; `updateCaseStatus` |
| `Fault` | one database call throws; some handlers swallow that and go on (`AfterFault`) |

### IncomingMessage

A *run* is one execution of `processIncomingMessageFromQueue`: an attempt of a job, or
the one the webhook makes itself. A run that timed out goes on beside later runs, or
hangs for ever. `node` is `Case.lastBotNodeId`, reduced to none, asked (a node that was sent)
and stop; `seen` is what a run has read of it; `awaiting` records whether a node was
sent since the last reply was taken; `stored` counts rows of each message. The queue is
abstracted from `JobQueue`: a job gets at most `RetryLimit + 1` attempts, and a job whose
run ended well may be repeated because of another of its batch.

| actions | code |
|---|---|
| `Deliver`, `DeliverItself` | `processIncomingMessage`: queue, or process in place when that throws |
| `Start`, `TimesOut`, `BatchCompletes`, `BatchFails`, `Expire`, `Crash` | incoming handler, `withTimeout`, pg-boss |
| `Manage`, `Hi`, `Reread` | `handleCaseManagement`: look up, perhaps reopen and welcome, read again |
| `FindMedia`, `CreateRow` | `storeIncomingMessage`: media already stored returns early, without a row |
| `Respond`, `Stop`, `Reset`, `Proceed`, `Reply` | the routing at customer.service 518-768 and `botSendByNodeId` |
| `SendList`, `Solve` | agents set and reset the node |

What a run answers depends on texts, node ids, the time of day and who has the case;
`Responses` keeps only which of the outcomes are possible after what it saw.

### RefundFlow

`node`, `active`, `tries`, `handler` are columns of the case (`Case.meta` for two of
them); `at` and `mine` are the place and the locals of each run of
`processIncomingMessageFromQueue` that reached the flow; `template` is what an agent's
send-t holds of `Case.meta`. Four more variables record, since `Case.meta` was last reset, how
often `handleRefundRetry` began to refuse (`refused`) and how often an examination threw
(`thrown`), who has a copy of `Case.meta` from before the reset (`behind`), and whether such
a copy was written back (`stale`).

| actions | code |
|---|---|
| `Take`, `HandOver`, `Reset`, `Start`, `Clear` | entry, stopped bot, reset and start of the flow (customer.service 518-717) |
| `Examine`, `OwnPayment`, `ClearMeta`, `Lookup`, `Canceled`, `Orderless`, `Overwrite`, `Status`, `Report` | `handleRefundScreenshot` (778-904); OCR, `bankTxn` and `refundStatus` are choices of their outcome |
| `Retry`, `Send`, `GiveUp`, `Count` | `handleRefundRetry` (135-183) |
| `Fault`, `Mute`, `Catch`, `Caught` | a call fails: the catch blocks of both, and `botSendByNodeId`, which swallows it |
| `Ask`, `Solve`, `AgentTakes`, `Reopen`, `ReadMeta`, `WriteMeta` | what the bot and agents do to the same case meanwhile |

### Conversation, FirstContact, Rating

In `Conversation` a row of the chat is also the execution of the handler that writes it;
`note` is how far the `handleUnreadCount` it started is. Rows are kept in the order of
`Message.timestamp`: a customer's row has its place before it is stored, since its
timestamp is WhatsApp's, an agent's or the bot's gets it when it is stored. The reply to two
of the bot's questions hands the case over: one handler ends there, the other
(main_question-FyKfq) goes on in phase "handed" and has the bot send its buttons.

| actions | code |
|---|---|
| `CustomerWrites`, `ReadCase`, `StoreMessage`, `OffTime`, `StoppedBot`, `BotAnswers`, `NoAnswer`, `NoteReply`, `HandOver` | `processIncomingMessageFromQueue` from the case read to who answers |
| `BotNode`, `BotCreate`, `BotQueue` | `botSendByNodeId` and its senders |
| `NewMessage`, `QuickOrTemplate`, `AgentCreate`, `NotifyClients`, `SendAgain`, `MarkDelivered`, `AssignCaseToUser` | new-message, quick-msg-gtw, send-t; the order of steps after the row differs by kind |
| `Refused`, `Fails` | an API error, which `sendWhatsAppRequest` swallows; a call that throws |
| `AssignCase`, `ChangeStatus`, `AssignAgent`, `WriteStatus`, `RecordSolved`, `StatusFails` | update-contact-assigned, update-contact-status, `updateIssue` as far as they write the handler of the case, the bot's node or the counter; one change of status at a time |
| `ReadUnread`, `WriteUnread` | `handleUnreadCount` |

`FirstContact` has one action per awaited call of `handleCustomerProfile` and
`handleCaseManagement`; the phone number of a customer is unique in the database, the
customer of a case is not. `Rating` keeps the issues of the case, the node, and for each
reply the issue it is going to rate.

### The services

`DayCron` counts time in ticks; `Day`, `Offset` and `Four` stand for 24 h, 5:30 h and 4 h,
and the windows are computed as the code does, while `BusinessDay` says independently what
a business day is. `RateLimit` is `checkRateLimit` up to its await and after it; the times of the jobs that
passed, and of those that had waited, are recorded as sequences.
`ChatPages` is one client and the queries of each of its requests, while rows leave,
enter or move to the front of the list; the same code is in the gateway and in
`chat.service.ts`. Each query may give the rows in any order that puts later times first and
null before all (`Orders`): `lastMessageAt` is nullable and nothing breaks a tie. `PasswordReset` has the database calls of both
operations, with the slow hashing between them. In `Analytics` each instance computes
windows (hours, or days in a backfill) one after the other; `TagAnalytics.date` is a DATE in
the schema, so an hour's tag rows are those of its day (`KeyDate`).

`follows`, in `MCDesk` and `MCServices`, is chosen at the start: a behaviour moves one of
the components, which share no state here. It only saves TLC runs and their start; the state
spaces add up and are not multiplied.

## 3. Runs

| run | bounds | what it shows |
|---|---|---|
| `queue_batch` | 3 jobs of the document queue (bad phone, no file name, sound), batches of 2, 2 retries, 1 fault | no more than RetryLimit + 1 copies reach a customer (`DuplicatesBounded`); the step that drops a job completes a batch that its callback left at another job of it, one with a bad phone number and dead-lettered (`DroppedOnlyBehindBadPhone`); as long as no status write failed and no bad number was dead-lettered, a completed job shows DELIVERED (`CompletedShowsDelivered`); a dead-lettered message is never requested of WhatsApp, and is dead-lettered again only for a crash (`DeadLettersAreFinal`) |
| `queue_single` | such jobs of the list queue, batches of 1, 1 fault | the queue implements `JobPromise` (`KeepsPromise`), every queued job settles (`QueuedSettles`), only handled or dead-lettered jobs complete (`OnlyHandledJobsComplete`) |
| `issue_settings` | 2 processes in 4 settings, 3 issues, 1 failed call | under everything the case never points at a closed issue (`CurrentIssueIsOpen`); with one request at a time, or transactions only, no issue is left open and unlinked beyond failures (`OrphansBounded`); with one writer of the status the log agrees (`StatusLogAgrees`); with one closer no closed issue is active (`ActiveIsOpen`) |
| `incoming` | 2 deliveries of a text or a picture, 1 retry, 1 fault or run left alone | while somebody waits for each run, media is stored once (`MediaStoredOnce`) and a node takes one reply (`RepliesTakenOnce`); always, a completed job was stored (`CompletedWasStored`) |
| `refund` | 2 runs, 4 messages, 1 interference, 1 fault | whatever interleaves, a case counts no more tries than refusals and thrown examinations since the last reset, as long as no copy from before it is written back (`TriesAreExplained`), and if the run that gives up holds no such copy either, the flow gives up only after three of them; alone and without a fault two of these are refusals (`EscalationsAreEarned`). Alone, at most two refusals and one for each fault are behind a flow at rest (`ThirdRefusalEndsFlow`), and without a fault tries are counted only in an active flow (`TriesOnlyWhileActive`) |
| `desk` | a chat of 3 rows, 1 overlap, 2 failed calls; 3 first messages, 1 retry; 3 replies to 2 lists, 3 issues | unread agrees with who spoke last, and with closing the case, if handlers do not overlap (`UnreadShowsWaiting`); what the bot says or an agent types is sent once, quick messages and templates twice (`CustomerGets`); the bot talks into an agent's case only with answers whose handlers had begun before the hand-over, or make it themselves (`BotTalksOver`); cases, issues and orphans of a first contact (`CasesNeedOverlap`, `StoredUnderIssue`, `OneOrphanPerCase`); no rating of an issue older than the list, one per list (`RatedSinceList`, `OneRatingPerList`) |
| `services` | 2 instances, 2 cases, 2 messages, 6 ticks with days of 3; 3 workers, limit 2; 4 chats with 2 times or none, in pages of 2, 2 moves; 2 codes, 2 resets; 3 hours in days of 2, 1 backfill | no message in two business days, none before the last run missing (`SummariesFit`); counts that add up (`FallbackCountsFit`); one expired event a day and one marker per expiry (`ExpiredOncePerDay`, `OneMarkerPerExpiry`); the limit, with what shared resets add (`LimitKept`); what a reading client can miss or see twice of the chats that have a `lastMessageAt` of their own (`PagesFit`); codes set one password and stay good (`CodesHold`); no case twice in a chart (`CountedOnce`) |
| `queue_dropped`, `queue_exhausted`, `issue_recheck`, `issue_quick`, `incoming_twice` | smallest instance that shows it | disagreements between code and comments, see below |

Why the bounds are enough to be of interest: a batch of two with three jobs has a job before and
behind the bad one and one in another batch; two retries separate the last attempt, the
one before it and the first; two processes are what each race of `CaseIssue` takes, and
three issues let a stale one, a current one and one being linked exist together; two jobs
with two attempts and one run of the webhook let up to three runs of a message overlap
and one delivery repeat another. One fault is enough to separate any two steps; two
independent faults are explored in `desk` only (the proofs allow any number). Four messages are
a full round of refusals and the first of the next. Three rows let a handler begin
before, during or after another, with the bot's answer as the third; four rows take TLC too
long. Two times and null let two of four chats tie, on one page or across two, beside chats
that do not. Days of three ticks with an offset of one have both boundaries on different
ticks and fall on two days within six ticks.

Many of these properties bound what goes wrong by what ran beside it: `overlaps`, `crowd`,
`together`, `beside`, `woken` count that, at the step that begins beside another. Such a
bound says more than the property of a run that is alone, which it contains (the counter is
zero).

Deadlock is not checked: all jobs may have settled, all issues may have been used, and
then nothing is left to do.

### Fairness

Only `queue_single` assumes any: that the event loop goes on with what it awaited
(`Worker`), that the timer of `withTimeout` fires, that pg-boss polls and expires batches.
Each of these is a promise of Node.js or pg-boss. Nothing is assumed of WhatsApp, which
may never answer, of whoever adds jobs, or of faults, of which there are `MaxFaults` at
most: with crashes for ever nothing can settle.

### Findings

1. **`queue_dropped`**: "Complete the job (don't rethrow)" (queue.service 349) completes
   the whole batch; jobs behind a bad phone number are never attempted.
2. **`queue_exhausted`**: "Max retries exceeded, sent to DLQ" (362) never happens with the
   names of pg-boss 12's metadata.
3. **`issue_recheck`**: "Re-check inside transaction to prevent race condition"
   (customer.service 990) does not help against new-message, which links without a transaction.
4. **`issue_quick`**: `assignCaseToUser` "creates a new issue event if none exists"
   (chat.gateway 1837), yet one quick message on a case without issue opens two.
5. **`incoming_twice`**: the "singleton key to prevent duplicate processing"
   (queue.service 439) does not: a text whose run timed out is stored a second time.

Seen while reading, without a run:

* API errors are swallowed and shown as DELIVERED; a template that was delivered is marked
  FAILED if notifying the clients throws (chat.service 1344, 1386).
* "Escalated to human agent" (customer.service 159) is logged where `assignedTo` is set to
  BOT (154); "refundScreenshot flow reset" (904) is logged without a reset.
* `CustomerGets` holds with two sends of a quick message and of a template: `notifyClients`
  (chat.service 1006) sends a row of an agent, and so does the caller of `createMessage`.
* "Refund Screenshot failed ${maxTries} times." (customer.service 159, with `maxTries = 3`) may be
  logged after two refusals: a screenshot whose examination throws is counted by the catch
  block (908-914), and again by `handleRefundRetry` (917). `EscalationsAreEarned` therefore
  says two, not three.
* "Screenshot flow reset." (159) does not last: if the third screenshot is one without an order,
  the caller writes its older copy over the reset (877), the flow is active again with its
  tries, and the bot asks for one more screenshot. In `RefundFlow` the row is then `stale`,
  and `TriesAreExplained` and `EscalationsAreEarned` say nothing until the next reset.
* "WhatsApp API rate limit: ~80 messages/second, we'll be conservative" (queue.service 21): the
  counter begins anew each second (132-135), so up to 2 x 50 jobs pass in a second that lies
  across two of them, and more when workers wake in it. `LimitKept` is the bound that holds;
  how fast the requests behind the limiter go out is not modelled.
* The reply to main_question-FyKfq hands the case to an agent (customer.service 652), and
  the same handler then sends the bot's main_buttons-JYKle into it (740).
* The chat list is ordered by `lastMessageAt` alone (chat.gateway 265), which is nullable and
  not unique: chats with one time, or none, may be on two pages or on none with nothing moved.
* The off-time notice is sent also when an agent has the case (customer.service 535).
* A welcome message opens an issue, then another one is created and linked over it
  (customer.service 1030, 1037): every customer begins with an open issue that is nobody's.
* "the current IST business day" (cron.service 460) is looked up by a window from midnight, not
  from four.
* `TagAnalytics.date` is a DATE (schema.prisma 443), while the hourly job deletes and creates
  rows "for the hour" (analytics.service 207-228): of each day the last hour's tags stay.
  `missedChats` compares the number of messages of a list of at most one with 10.
* Two routes of `chat.controller.ts` are `@Get('join/:caseId')` (51, 62); the first, marked
  "@deprecated", is the one that is reached.

## 4. Proofs

Every safety property that a passing run checks is also a theorem `Spec => []...` about its
module, and so is the refinement of `JobPromise`. A theorem assumes what its module's named
ASSUME says of the constants, no more; where one has a further hypothesis it is named below,
with the run that shows it is needed. Each rests on an invariant that is inductive where the
property is not; those invariants are described here, since they are the reason why the code
is right. The settings some properties speak of (one request at a time, no call failed) are
parts of the properties, as the runs check them.

`JobQueueProofs`, from `JobQueueAssumption` only (a finite set of jobs, any batch size, retry
limit and number of faults):

* `TypeCorrect`, `DuplicatesAreBounded`: `Spec => []` of `TypeOK` and `DuplicatesBounded`.
  `DroppedJobs`: every step drops jobs only as `DroppedOnlyBehindBadPhone` says, from `IInv`.
* The invariant `IInv` strengthens them with three facts. `WorkerInv`: what the callback holds
  fits its place (a job is run only while active and in the batch, what the loop has not
  reached is in the batch). `RequestInv`: the requests made for a job are at most its retry
  count, plus one if its current attempt has made one; this is what makes the bound on copies
  inductive, since a late answer only moves a request from `open` to `accepted`. `LoopInv`:
  the loop passes a job only once its handler returned, and leaves early only behind a
  dead-lettered bad phone number. One lemma per part shows that every action keeps it.
* `CompletedJobsShowIt` (`CompletedShowsDelivered`): without a fault, every job the
  loop has passed shows `DELIVERED` (`ShownInv`), so the rows are right before pg-boss
  completes the batch.
* `HandledJobsComplete` (`OnlyHandledJobsComplete`) and `QueueKeepsPromise` (`KeepsPromise`)
  assume `BatchSize = 1 \/ BadPhone = {}`. With batches of one the job that ends the loop
  early is the only one of its callback (`SoleInv`), so nothing is completed behind it. The
  refinement is proved as a simulation: each action is a step of `JobPromise` (`Accept`,
  `Handle`, `DeadLetter`, `Finish`, `GiveUp`) or leaves its variables alone. `queue_dropped`
  shows that the hypothesis is needed.
* `DeadLettersStayFinal` (`DeadLettersAreFinal`): only a bad number is ever dead-lettered, since
  the last attempt is not recognised, and a bad number is never requested; a dead letter that
  is repeated was sent, not completed, and lost its callback to a crash (`DeadInv`).

`CaseIssueProofs`, for any set of processes, any settings, any number of issues and faults:

* `TypeCorrect` and `CurrentIssueStaysOpen`.
* `CurrentIssueIsOpen` is not inductive: `LinkIssue` writes an id created some steps ago.
  `LinkInv` says why that is safe: between creation and link the issue is open, is not
  current, and no other process has read its id, so no stale `updateIssue` can have closed it.
  `PlaceInv` says that a process at a place that uses an issue id has one.
* The other three are about settings that keep some handlers apart, so they need to know which
  handler a process at a place runs (`ReqInv`): then two processes at places of the same kind
  are one.
* `LogShowsStatus` (`StatusLogAgrees`): the one process that changes the status keeps its
  `from` and `to` true until the event is recorded (`LogInv`), and between changes the last
  event shows the status.
* `ActiveIssuesAreOpen` (`ActiveIsOpen`): a process about to mark an issue active holds one
  that is open (`ActiveInv`), which is false once a second process may close it in between.
* `OrphansArePaidFor` (`OrphansBounded`): the open issues that are neither current nor about
  to be linked are no more than the failed calls (`OrphanInv`). A creation begins only in a
  case without a current issue and a close only with the current one, so only a call that
  fails between two writes leaves an orphan.

`IncomingMessageProofs`, from `IncomingAssumption` and `NoRunAssumption` (any messages, any
number of deliveries, retries and faults, with and without the singleton key):

* `TypeCorrect`, `CompletedJobsAreStored`, `MediaIsStoredOnce`, `RepliesAreTakenOnce`: all
  that `incoming` checks.
* `CompletedWasStored` needs `StoredInv`: a run past `storeIncomingMessage` has its message in
  the database, so a run that returns had it stored, even when it was left alone.
* The other two hold only until a run is left alone, because of `SoleInv`: until then, the run
  the worker waits for is the only one. Hence nobody inserts the media a run has just looked
  up in vain (`CreateInv`), and nobody takes the reply that a run has seen its node wait for
  (`AskedInv`). `WaitInv` and `IdleInv` keep the worker on a run that is going and runs on
  jobs that exist.
* Lemmas `RunKeeps` and `StillKeeps` say once what a step of one run, and a step of no run,
  has to respect; each action then only shows that it does.

`RefundFlowProofs`, from `RefundAssumption` (any number of runs, overlaps and failures):

* `RefundTypes`, `CountedTriesWereRefused`, `GivingUpIsEarned`, `ThreeRefusalsEndIt`,
  `TriesAreOfAnActiveFlow`: all that `refund` checks.
* `TriesAreExplained` holds with any overlap. `ExplainedInv` says it of each copy of the
  tries, the row's, a run's and the template's, unless the copy is from before the last reset
  (`behind`): what it holds is at most what was refused and thrown since. A lost update loses
  tries but never makes one up; a reset begins anew and puts every copy behind it, and one of
  those, written back, makes the row `stale`, of which nothing is claimed.
* `EscalationsAreEarned` follows for the three tries from `ExplainedInv`. That two of them are
  refusals needs that a run alone is at most one throw ahead (`TwiceInv`): the tries are at
  most twice the refusals, and one more between a throw that was counted and the refusal of
  the same screenshot.
* `ThirdRefusalEndsFlow` is about runs that have the case to themselves (`AloneInv`).
  `SoloInv` says that the refusals since the reset are at most the tries, capped at one before
  the last, plus the failures; `RunOK` says the same for a run between its refusal and its
  last write, where the row is behind.
* `TriesOnlyWhileActive` needs to know what the template and the runs read of the flag
  (`FlowInv`).

`ConversationProofs`, from `ConversationAssumption` (any number of rows and failures, any
handlers beside each other):

* `ConversationTypes`, `SentAsOften`, `TalkingOverIsBounded`, `CounterShowsWaiting`.
* `CustomerGets` needs what a row has been sent by the place of its handler (`SentInv`,
  `Due`): at most so often, and exactly so often while no call failed; a quick or template
  message is due twice, as the code sends it.
* `BotTalksOver`: while an agent has the case, what the bot said over him plus the answers
  still under way is at most what was under way when he got it (`TalkInv`). Every step of the
  bot that begins an answer reads the handler of the case first. The handler that hands the
  case over itself, and then sends its buttons, is among those under way (`Begun`): the
  theorem bounds what it says and does not rule it out.
* `UnreadShowsWaiting` holds while one handler runs at a time. `ShapeInv` relates the place of
  each row to what was stored and counted; `Calm`, kept while nothing overlaps (`UnreadInv`),
  says that at most one row is not done, that the counter shows the last speaker of the
  others, and what the one under way has read of the counter.

`DeskProofs`, from `RatingAssumption` and the assumptions of `MCDesk`'s parts:

* `OnlyListedAreRated` (`RatedSinceList`): the linked issue is the last (`IssueInv`), so a
  reply that was taken goes on with an issue no older than some list (`SinceInv`).
* `ListsAreRatedOnce` (`OneRatingPerList`): replies taken are at most the lists and the
  replies taken beside another; and while the node still asks and no reply is processed, one
  list is spare (`SpareInv`), which pays for the next reply.
* `DeskTypes`: the types of `desk`'s three modules together.

`ServicesProofs`, from the assumptions of the five services, each in its own section:

* `ResetCodesHold`: a call that goes on with a code counts as one of its uses (`UsesInv`), and
  a code not used, replaced, run out or crossed is the stored one (`GoodInv`).
* `LimitIsKept`: for every time t, the jobs that passed in the window from t, plus those the
  counter still admits, stay within the limit once, once more if the clock has reset the
  counter since t, and once more for each worker that woke since t (`WindowInv`).
* `SummariesAreRight`, `FallbackIsCounted`: what a run holds or wrote lies between the
  messages from before it was begun and those of its window (`SummaryInv`, `CountsInv`). That
  the windows are business days (04:00 to 04:00 in India), each message in exactly one, is
  proved of `GetIST4amWindow` for every length of the day and every offset; that takes a few
  lemmas about `%` (`BusinessWindow`).
* `OneMarkerEach`, `ExpiredOnceADay`: a timer that an event shows or that a run has read is
  over, and those before the present one are no more than the times it ran out (`SeenInv`);
  the events of a case today, with the runs that may still create one (`Pending`), are at most
  one and the runs begun beside another (`DaysInv`). A run that goes over midnight is why
  `Pending` has a day.
* `PagesAreRead`: of a row with a time of its own, the number of rows before it is the same in
  every order a query may choose (`Place`), so a page that was read has it or not by its place
  alone. It is missed only if one before it left, and read twice only if one came in or moved
  to the front (`PageInv`, of `Missed` and `Again`). Each such move changes every place by at
  most one, and one place has one row, so it adds at most one row to either set.
* `ChartsCountOnce`: every count, in a row of the table, in a job, or in a chart being read,
  is at most the cases of the hours it stands for (`Fair`); for solved cases the writes of
  `solvedIn`, whose hours a witness w remembers, stand for the cases (`ChartInv`). A count of
  the hour that goes on is only in a row if a backfill noted it. The charts add their rows up
  with `SumFunction`: `SumFits` bounds such a sum by the cardinality of the set it partitions,
  by well-founded induction over its subsets.
* `ServicesTypes`: the types of the five together.

`FirstContactProofs`, from `FirstContactAssumption` (a finite set of first messages, any
number of failed calls):

* `FirstContactTypes`, `MessagesHaveAnIssue`, `OneOrphan`, `CasesTakeOverlap`: the types and
  all that `desk` checks of `FirstContact`.
* `PlaceInv` says how many issues the case of a run has at each place of the run; it is kept
  because of `SoleInv` (the run that created a case is alone in welcoming its customer, a run
  that is tried again never takes that up) and `CaseInv` (a case has no current issue only as
  long as none was opened in it, so two runs never open the first issue twice).
* `CasesNeedOverlap` needs a count: the cases together with the runs that found none are at
  most one more than the runs that began beside another (`CountInv`).

Model-checked only: `QueuedSettles`, that a queued job is settled in the end. It rests on
fairness, and liveness and ENABLED are out of reach of the prover here. The runs that expect a
violation have no theorem either: their counterexamples are TLC's.

## 5. Not modelled

* Controllers, mail, users, uploads, `MetricService`: I/O, queries and single writes, on
  which no two steps race.
* Socket rooms: `activeRooms` is written and never read, so nothing it holds can go wrong
  for anyone.
* The refund, template and notification queues, bulk and scheduled jobs: they have handlers
  or methods, but no caller.
* Sign-up, sign-in and sessions; the daily and overall tables and the clean-up of
  analytics; the product, machine and unread jobs of `cron.service.ts`.
* Within the modelled parts: priorities and the length of delays, several workers on one
  outgoing queue, attributes of an issue that no step depends on, status webhooks, locations
  and reactions, attachments, a batch of incoming messages that outlives its five minutes,
  the un-awaited next node of the bot.

## 6. Plan

Left, the most consequential first:

1. `IncomingMessage` composed with `CaseIssue`, to see under which issue a message is
   stored; the product is too large for TLC as it stands.
2. The order of the bot's rows when the next node is not awaited.
