---------------------------- MODULE Conversation ----------------------------
(***************************************************************************)
(* What an agent sees of one case and what its customer gets: the rows of   *)
(* the chat, who may send each of them to WhatsApp, the unread counter, and *)
(* whether the bot or an agent has the case.                                *)
(*                                                                          *)
(* A row of the chat is also the execution of the handler that writes it.   *)
(* notifyClients ends by starting handleUnreadCount, which nobody awaits:   *)
(* its read and its write happen some time beside everything else.  Opening *)
(* and closing issues is left to CaseIssue, retries to JobQueue and         *)
(* IncomingMessage, with the welcome message of a reopened case.            *)
(***************************************************************************)
EXTENDS Integers, Sequences, SequencesExt, FiniteSets

CONSTANTS
  MaxRows,      \* bounds the rows of the chat
  MaxOverlaps,  \* bounds the handlers that begin beside one that is not done
  MaxFailures   \* bounds the calls that fail

ASSUME ConversationAssumption ==
  MaxRows \in Nat /\ MaxOverlaps \in Nat /\ MaxFailures \in Nat

Unset == -1     \* Case.unread is null

VARIABLES
  rows,      \* the chat, in the order of Message.timestamp
  unread,    \* Case.unread
  desk,      \* Case.assignedTo
  node,      \* Case.lastBotNodeId: "stop", "question" (a node of offTimeNodeIds) or another
  clerk,     \* where the handler is that changes Case.status
  overlaps, failures,
  \* recorded for the properties:
  talkedIn,  \* answers of the bot written while an agent had the case
  underWay,  \* the bot's answers that were begun when an agent got the case
  solved     \* the case was closed, and the customer has not written since

convVars == <<rows, unread, desk, node, clerk, overlaps, failures, talkedIn, underWay, solved>>

AgentKinds == {"text", "quick", "template"}
BotKinds   == {"bot", "notice"}
Kinds      == AgentKinds \cup BotKinds \cup {"customer"}
\* note: how far the handleUnreadCount of a row is
Notes      == {"none", "begun", "reset", "first", "another", "over"}
Row        ==
  [kind : Kinds, note : Notes, answers : {"none", "bot", "stop"}, asked : BOOLEAN,
   phase : {"coming", "managed", "stored", "node", "handed", "create", "notify", "send", "sent", "queue", "assign", "done"},
   status : {"none", "SENT", "DELIVERED", "FAILED"}, sends : Nat]

ConversationTypeOK ==
  /\ rows \in Seq(Row) /\ Len(rows) <= MaxRows
  /\ unread \in Nat \cup {Unset} /\ desk \in {"BOT", "USER"} /\ node \in {"plain", "question", "stop"}
  /\ clerk \in {"none", "agentRead", "assigned", "botRead", "record"}
  /\ overlaps \in 0..MaxOverlaps /\ failures \in 0..MaxFailures
  /\ talkedIn \in Nat /\ underWay \in Nat /\ solved \in BOOLEAN

ConversationInit ==
  /\ rows = <<>> /\ unread = Unset /\ desk = "BOT" /\ node = "plain"
  /\ clerk = "none" /\ overlaps = 0 /\ failures = 0 /\ talkedIn = 0 /\ underWay = 0 /\ solved = FALSE

Working(r) == r.phase # "done" \/ r.note \notin {"none", "over"}
QuietDesk == clerk = "none" /\ \A i \in DOMAIN rows : ~Working(rows[i])
Stored(r) == r.status # "none"

NewRow(kind, phase) ==
  [kind |-> kind, phase |-> phase, note |-> "none", answers |-> "none", asked |-> FALSE,
   status |-> "none", sends |-> 0]

\* A handler begins, beside others or alone.
Begins ==
  /\ IF QuietDesk THEN UNCHANGED overlaps
     ELSE overlaps < MaxOverlaps /\ overlaps' = overlaps + 1
  /\ UNCHANGED failures
Opens(kind, phase) ==
  /\ Begins
  /\ Len(rows) < MaxRows
  /\ rows' = Append(rows, NewRow(kind, phase))
  /\ UNCHANGED clerk

\* The handler of row i goes on, and the row becomes r.
Goes(i, kinds, from, to, r) ==
  /\ rows[i].kind \in kinds /\ rows[i].phase = from
  /\ rows' = [rows EXCEPT ![i] = [r EXCEPT !.phase = to]]
  /\ UNCHANGED <<overlaps, failures, clerk>>
Done(r) == [r EXCEPT !.answers = "none", !.asked = FALSE]

\* createMessage takes the time of the row and stores it.
Stores(i, kinds, from, to) ==
  /\ rows[i].kind \in kinds /\ rows[i].phase = from
  /\ rows' = Append(RemoveAt(rows, i), [rows[i] EXCEPT !.phase = to, !.status = "SENT"])
  /\ UNCHANGED <<overlaps, failures, clerk>>

\* Answers of the bot that are begun: decided on, or on their way.
Begun ==
  {i \in DOMAIN rows : \/ /\ rows[i].kind = "customer" /\ rows[i].answers = "bot"
                          /\ rows[i].phase \in {"managed", "stored", "node", "handed"}
                       \/ rows[i].kind = "bot" /\ rows[i].phase \in {"node", "create"}}
\* The case goes to an agent, or stays with one.
ToAgent ==
  /\ desk' = "USER"
  /\ underWay' = IF desk = "USER" THEN underWay ELSE underWay + Cardinality(Begun)

-----------------------------------------------------------------------------
(* The customer's messages *)

\* Message.timestamp is the second in which the customer wrote, so the row has its
\* place in the chat before it is stored.
CustomerWrites ==
  /\ Opens("customer", "coming")
  /\ UNCHANGED <<unread, desk, node, talkedIn, underWay, solved>>

\* A bug: the bot answers whoever has the case.
AnswersMutant == IF node = "stop" THEN "stop" ELSE "bot"
Answers == IF node = "stop" THEN "stop" ELSE IF desk' = "BOT" THEN "bot" ELSE "none"

\* The case is read, after it went back to the bot if its issue was closed.
ReadCase(i) ==
  /\ desk' \in {desk, "BOT"}
  /\ Goes(i, {"customer"}, "coming", "managed", [rows[i] EXCEPT !.answers = Answers, !.asked = node = "question"])
  /\ UNCHANGED <<unread, node, talkedIn, underWay, solved>>

\* A bug: the agents are not told of the message.
StoreMessageMutant(i) ==
  /\ Goes(i, {"customer"}, "managed", "stored", [rows[i] EXCEPT !.status = "SENT"])
  /\ UNCHANGED <<unread, desk, node, talkedIn, underWay, solved>>
StoreMessage(i) ==
  /\ Goes(i, {"customer"}, "managed", "stored", [rows[i] EXCEPT !.status = "SENT", !.note = "begun"])
  /\ solved' = FALSE
  /\ UNCHANGED <<unread, desk, node, talkedIn, underWay>>

\* A row of the bot takes over what is left of the customer's handler.
Continues(i, from, kind, phase) ==
  /\ rows[i].kind = "customer" /\ rows[i].phase \in from /\ Len(rows) < MaxRows
  /\ rows' = Append([rows EXCEPT ![i] = [Done(@) EXCEPT !.phase = "done"]], NewRow(kind, phase))
  /\ UNCHANGED <<overlaps, failures, clerk>>

\* At night the questions of the bot are answered by a notice, whoever has the case.
OffTime(i) ==
  /\ rows[i].asked
  /\ Continues(i, {"stored"}, "notice", "create")
  /\ UNCHANGED <<unread, desk, node, talkedIn, underWay, solved>>

\* The bot was stopped: an agent gets the case.
StoppedBot(i) ==
  /\ rows[i].answers = "stop"
  /\ Goes(i, {"customer"}, "stored", "done", Done(rows[i]))
  /\ node' = "plain" /\ unread' = 1 /\ ToAgent
  /\ UNCHANGED <<talkedIn, solved>>

\* The bot answers if it had the case when the case was read, be it an agent's by now.
BotAnswers(i) ==
  /\ rows[i].answers = "bot"
  /\ Continues(i, {"stored", "node", "handed"}, "bot", "node")
  /\ UNCHANGED <<unread, desk, node, talkedIn, underWay, solved>>
\* A reply to the bot's last question is noted.  After some questions that is all; after
\* the others the case is handed over, the bot answers, or both.
NoteReply(i) ==
  /\ rows[i].answers = "bot"
  /\ \/ Goes(i, {"customer"}, "stored", "done", Done(rows[i]))
     \/ Goes(i, {"customer"}, "stored", "node", Done(rows[i]))
     \/ Goes(i, {"customer"}, "stored", "node", [rows[i] EXCEPT !.asked = FALSE])
  /\ node' = "plain"
  /\ UNCHANGED <<unread, desk, talkedIn, underWay, solved>>
\* The reply to two of the questions hands the case to an agent.  One of the two handlers
\* ends with that; the other goes on and sends the bot's buttons into the agent's case.
HandOver(i) ==
  /\ Goes(i, {"customer"}, "node", IF rows[i].answers = "bot" THEN "handed" ELSE "done", rows[i])
  /\ ToAgent
  /\ UNCHANGED <<unread, node, talkedIn, solved>>
NoAnswer(i) ==
  /\ rows[i].answers # "stop"
  /\ Goes(i, {"customer"}, "stored", "done", Done(rows[i]))
  /\ UNCHANGED <<unread, desk, node, talkedIn, underWay, solved>>

-----------------------------------------------------------------------------
(* The bot's messages: a row first, then a job of the queue, which sends it *)

\* One node hands the case to an agent before it says so.
BotNode(i) ==
  /\ Goes(i, {"bot"}, "node", "create", rows[i])
  /\ \/ node' \in {node, "plain", "question", "stop"} /\ UNCHANGED <<desk, underWay>>
     \/ ToAgent /\ UNCHANGED node
  /\ UNCHANGED <<unread, talkedIn, solved>>

BotCreate(i) ==
  /\ Stores(i, BotKinds, "create", "queue")
  /\ talkedIn' = IF desk = "USER" /\ rows[i].kind = "bot" THEN talkedIn + 1 ELSE talkedIn
  /\ UNCHANGED <<unread, desk, node, underWay, solved>>

\* A bug: the row is written and not queued.
BotQueueMutant(i) ==
  /\ Goes(i, BotKinds, "queue", "done", rows[i])
  /\ UNCHANGED <<unread, desk, node, talkedIn, underWay, solved>>
BotQueue(i) ==
  /\ Goes(i, BotKinds, "queue", "done", [rows[i] EXCEPT !.sends = @ + 1])
  /\ UNCHANGED <<unread, desk, node, talkedIn, underWay, solved>>

-----------------------------------------------------------------------------
(* The agents' messages *)

\* new-message takes the case and clears the counter before it writes.
NewMessage ==
  /\ Opens("text", "create")
  /\ unread' = 0 /\ ToAgent
  /\ UNCHANGED <<node, talkedIn, solved>>
\* quick-msg-gtw and send-t write first.
QuickOrTemplate ==
  /\ \/ Opens("quick", "create")
     \/ Opens("template", "create")
  /\ UNCHANGED <<unread, desk, node, talkedIn, underWay, solved>>

\* createMessage stores and notifies; sendTemplateMessage stores, sends and then notifies.
AgentCreate(i) ==
  /\ Stores(i, AgentKinds, "create", IF rows[i].kind = "template" THEN "send" ELSE "notify")
  /\ UNCHANGED <<unread, desk, node, talkedIn, underWay, solved>>

\* What comes after notifyClients.
AfterNotify(kind) == CASE kind = "text" -> "done" [] kind = "quick" -> "send" [] kind = "template" -> "assign"

\* notifyClients sends the row without awaiting it; its switch falls through to the
\* handler of customers' messages, which starts handleUnreadCount.
NotifyClients(i) ==
  /\ Goes(i, AgentKinds, "notify", AfterNotify(rows[i].kind), [rows[i] EXCEPT !.sends = @ + 1, !.note = "begun"])
  /\ UNCHANGED <<unread, desk, node, talkedIn, underWay, solved>>

\* sendWhatsAppRequest swallows what WhatsApp refuses: the row goes on as sent.
Refused(i) ==
  /\ failures < MaxFailures /\ failures' = failures + 1
  /\ \/ /\ rows[i].kind \in AgentKinds /\ rows[i].phase = "notify"
        /\ rows' = [rows EXCEPT ![i] = [@ EXCEPT !.phase = AfterNotify(rows[i].kind), !.note = "begun"]]
     \/ /\ rows[i].kind \in {"quick", "template"} /\ rows[i].phase = "send"
        /\ rows' = [rows EXCEPT ![i] = [@ EXCEPT !.phase = "sent"]]
  /\ UNCHANGED <<overlaps, clerk, unread, desk, node, talkedIn, underWay, solved>>

\* The awaited request of a quick message or of a template.
SendAgain(i) ==
  /\ Goes(i, {"quick", "template"}, "send", "sent", [rows[i] EXCEPT !.sends = @ + 1])
  /\ UNCHANGED <<unread, desk, node, talkedIn, underWay, solved>>
MarkDelivered(i) ==
  /\ Goes(i, {"quick", "template"}, "sent", IF rows[i].kind = "quick" THEN "assign" ELSE "notify",
          [rows[i] EXCEPT !.status = "DELIVERED"])
  /\ UNCHANGED <<unread, desk, node, talkedIn, underWay, solved>>
AssignCaseToUser(i) ==
  /\ Goes(i, {"quick", "template"}, "assign", "done", rows[i])
  /\ ToAgent
  /\ UNCHANGED <<unread, node, talkedIn, solved>>

\* A call fails. sendQuickMessage logs it and the agent gets the case; a template is
\* marked FAILED, whether or not WhatsApp has it; the others end where they are.
Fails(i) ==
  /\ failures < MaxFailures /\ failures' = failures + 1
  /\ \/ /\ rows[i].kind = "quick" /\ rows[i].phase \in {"create", "notify", "sent"}
        /\ rows' = [rows EXCEPT ![i] = [@ EXCEPT !.phase = "assign"]]
     \/ /\ rows[i].kind = "template" /\ rows[i].phase \in {"send", "sent", "notify"}
        /\ rows' = [rows EXCEPT ![i] = [@ EXCEPT !.phase = "done", !.status = "FAILED"]]
     \/ /\ \/ rows[i].kind = "text" /\ rows[i].phase \in {"create", "notify"}
           \/ rows[i].kind = "template" /\ rows[i].phase = "create"
           \/ rows[i].kind \in BotKinds /\ rows[i].phase \in {"node", "create", "queue"}
        /\ rows' = [rows EXCEPT ![i] = [@ EXCEPT !.phase = "done"]]
  /\ UNCHANGED <<overlaps, clerk, unread, desk, node, talkedIn, underWay, solved>>

-----------------------------------------------------------------------------
(* Handing over and closing the case, one such handler at a time *)

\* update-contact-assigned: a client gives the case to the bot or to an agent.
AssignCase ==
  /\ Begins
  /\ ToAgent \/ (desk' = "BOT" /\ UNCHANGED underWay)
  /\ UNCHANGED <<rows, clerk, unread, node, talkedIn, solved>>

\* update-contact-status with a user or without one; updateIssue has closed the issue.
ChangeStatus ==
  /\ clerk = "none" /\ Begins
  /\ clerk' \in {"agentRead", "botRead", "record"}
  /\ UNCHANGED <<rows, unread, desk, node, talkedIn, underWay, solved>>
AssignAgent ==
  /\ clerk = "agentRead" /\ clerk' = "assigned"
  /\ ToAgent
  /\ UNCHANGED <<rows, unread, node, overlaps, failures, talkedIn, solved>>
\* The status is written with the handler of the case; SOLVED also clears lastBotNodeId,
\* and is recorded unless the case was SOLVED before.
WriteStatus ==
  /\ \/ clerk = "assigned" /\ ToAgent
     \/ clerk = "botRead" /\ (ToAgent \/ (desk' \in {desk, "BOT"} /\ UNCHANGED underWay))
  /\ \/ clerk' = "none" /\ node' \in {node, "plain"}
     \/ clerk' = "record" /\ node' = "plain"
  /\ UNCHANGED <<rows, unread, overlaps, failures, talkedIn, solved>>
\* A bug: the counter stays as it is when the case is closed.
RecordSolvedMutant ==
  /\ clerk = "record" /\ clerk' = "none"
  /\ node' = "plain" /\ solved' = TRUE
  /\ UNCHANGED <<rows, unread, desk, overlaps, failures, talkedIn, underWay>>
\* recordStatusChange of a SOLVED case.
RecordSolved ==
  /\ clerk = "record" /\ clerk' = "none"
  /\ unread' = 0 /\ node' = "plain" /\ solved' = TRUE
  /\ UNCHANGED <<rows, desk, overlaps, failures, talkedIn, underWay>>
\* A call fails: update-contact-status tells its client, recordStatusChange logs it.
StatusFails ==
  /\ clerk # "none" /\ clerk' = "none"
  /\ failures < MaxFailures /\ failures' = failures + 1
  /\ UNCHANGED <<rows, unread, desk, node, overlaps, talkedIn, underWay, solved>>

-----------------------------------------------------------------------------
(* handleUnreadCount, which nobody awaits *)

LastKind ==
  LET stored == {i \in DOMAIN rows : Stored(rows[i])}
  IN  IF stored = {} THEN "none" ELSE rows[CHOOSE i \in stored : \A j \in stored : j <= i].kind

Decided ==
  CASE LastKind \in AgentKinds -> IF unread \in {0, Unset} THEN "over" ELSE "reset"
    [] LastKind = "customer"   -> IF unread = Unset THEN "first" ELSE "another"
    [] OTHER                   -> "over"

ReadUnread(i) ==
  /\ rows[i].note = "begun"
  /\ rows' = [rows EXCEPT ![i] = [@ EXCEPT !.note = Decided]]
  /\ UNCHANGED <<unread, desk, node, overlaps, failures, clerk, talkedIn, underWay, solved>>

WriteUnread(i) ==
  /\ rows[i].note \in {"reset", "first", "another"}
  /\ unread' = CASE rows[i].note = "reset" -> 0 [] rows[i].note = "first" -> 1 [] OTHER -> unread + 1
  /\ rows' = [rows EXCEPT ![i] = [@ EXCEPT !.note = "over"]]
  /\ UNCHANGED <<desk, node, overlaps, failures, clerk, talkedIn, underWay, solved>>

ConversationNext ==
  \/ CustomerWrites \/ NewMessage \/ QuickOrTemplate
  \/ AssignCase \/ ChangeStatus \/ AssignAgent \/ WriteStatus \/ RecordSolved \/ StatusFails
  \/ \E i \in DOMAIN rows :
       \/ ReadCase(i) \/ StoreMessage(i) \/ OffTime(i) \/ StoppedBot(i) \/ BotAnswers(i) \/ NoAnswer(i)
       \/ NoteReply(i) \/ HandOver(i)
       \/ BotNode(i) \/ BotCreate(i) \/ BotQueue(i)
       \/ AgentCreate(i) \/ NotifyClients(i) \/ Refused(i) \/ SendAgain(i) \/ MarkDelivered(i)
       \/ AssignCaseToUser(i) \/ Fails(i)
       \/ ReadUnread(i) \/ WriteUnread(i)

-----------------------------------------------------------------------------
(* Properties *)

\* As long as one handler runs at a time, counts included, the counter tells an agent
\* whether the customer spoke last: handleUnreadCount and the handlers that set
\* Case.unread themselves agree.  A case that was closed, and whose customer has not
\* written since, shows none.  What the bot said last may hide that the customer waits,
\* and so does a new-message that fails: it clears the counter before it stores its row.
LostText == \E i \in DOMAIN rows : rows[i].kind = "text" /\ rows[i].phase = "done" /\ ~Stored(rows[i])
UnreadShowsWaiting ==
  (QuietDesk /\ overlaps = 0) =>
    /\ (LastKind = "customer" /\ ~LostText /\ ~solved) => unread > 0
    /\ solved => unread = 0
    /\ (LastKind \in AgentKinds /\ failures = 0) => unread \in {0, Unset}

\* What the customer gets, if every call succeeds: what the bot says or an agent types
\* once, a quick message and a template twice (notifyClients sends them beside the
\* caller of createMessage).  If a call fails a row can be marked DELIVERED that was not
\* sent, but none that is SENT or DELIVERED is sent more often.
Times(r) == IF r.kind \in {"quick", "template"} THEN 2 ELSE 1
CustomerGets ==
  \A i \in DOMAIN rows : rows[i].kind # "customer" =>
    /\ rows[i].sends <= Times(rows[i])
    /\ (QuietDesk /\ failures = 0) => rows[i].sends = Times(rows[i])

\* The bot speaks while an agent has the case only with answers that were begun before
\* the agent got it, because the incoming worker reads Case.assignedTo before it answers:
\* at most one for each customer's message whose handler had read a case of the bot's.
\* The handler that hands the case over itself and then sends its buttons is one of them.
BotTalksOver == talkedIn <= underWay
=============================================================================
