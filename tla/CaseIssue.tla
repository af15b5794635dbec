----------------------------- MODULE CaseIssue -----------------------------
(***************************************************************************)
(* The support case of one customer and its issues. Case.currentIssueId    *)
(* names the issue being worked on; the handlers of ChatGateway,           *)
(* ChatService.createMessage and CustomerService.handleCaseManagement      *)
(* open, link, touch, close and unlink issues and change Case.status.      *)
(*                                                                         *)
(* Each `await` of a handler is an action, so handlers of other sockets,   *)
(* of the incoming-message worker and of the bot run between any two of    *)
(* them; a prisma.$transaction is one action. A handler keeps what it read *)
(* in `issue` (currentIssueId) and `from` (status) and acts on that later. *)
(*                                                                         *)
(* Not modelled here: the attributes of an issue no step depends on        *)
(* (userId, agentCalledAt, agentLinkedAt, refund fields), assignedTo,      *)
(* unread, tags, and the creation of the case itself.                      *)
(***************************************************************************)
EXTENDS Naturals, FiniteSets

CONSTANTS
  Procs,      \* what may run at the same time: sockets, workers, requests
  Roles,      \* which of them runs which handlers: the settings to look at
  Asked,      \* the statuses a client or the bot asks for
  MaxIssues,  \* bound: issues created
  MaxFaults   \* bound: failed database calls

Handlers == {"inbound", "bot_message", "new_message", "quick_msg", "send_t",
             "user_status", "bot_status", "updateIssue", "case_status"}
Statuses == {"INITIATED", "PROCESSING", "SOLVED", "UNSOLVED"}

ASSUME CaseIssueAssumption ==
  /\ Roles \subseteq [Procs -> SUBSET Handlers]
  /\ Asked \in SUBSET Statuses
  /\ MaxIssues \in Nat
  /\ MaxFaults \in Nat

VARIABLES
  role,     \* the setting: chosen at the start, the same ever after
  created,  \* IssueEvent: the ids 1..created exist
  closed,   \* those with status CLOSED (the others are OPEN)
  active,   \* those with isActive
  current,  \* Case.currentIssueId
  status,   \* Case.status
  logged,   \* newStatus of the last StatusEvent
  pc,       \* where each process is in its handler
  req,      \* the handler it runs
  issue,    \* currentIssueId as it read it, or the issue it created
  from,     \* the status it read ("previousStatus")
  to,       \* the status it was asked for, or read again
  faults    \* failed database calls so far (bound)

dbVars    == <<created, closed, active, current, status, logged>>
localVars == <<req, issue, from, to>>
vars == <<role, dbVars, pc, localVars, faults>>

NoIssue == 0    \* null: the ids start at 1
Issues == 1..created

Places == {"idle", "ensure", "reopen", "send", "create", "link", "touch",
           "message", "set", "close", "reread", "record", "welcome"}

TypeOK ==
  /\ role \in Roles
  /\ created \in 0..MaxIssues
  /\ closed \in SUBSET Issues
  /\ active \in SUBSET Issues
  /\ current \in Issues \cup {NoIssue}
  /\ status \in Statuses
  /\ logged \in Statuses
  /\ pc \in [Procs -> Places]
  /\ req \in [Procs -> Handlers \cup {"none"}]
  /\ issue \in [Procs -> Issues \cup {NoIssue}]
  /\ from \in [Procs -> Statuses]
  /\ to \in [Procs -> Statuses]
  /\ faults \in 0..MaxFaults

Init ==
  /\ role \in Roles
  /\ created = 0 /\ closed = {} /\ active = {} /\ current = NoIssue
  /\ status = "INITIATED" /\ logged = "INITIATED"
  /\ pc = [p \in Procs |-> "idle"]
  /\ req = [p \in Procs |-> "none"]
  /\ issue = [p \in Procs |-> NoIssue]
  /\ from = [p \in Procs |-> "INITIATED"]
  /\ to = [p \in Procs |-> "INITIATED"]
  /\ faults = 0

-----------------------------------------------------------------------------
(* Steps all handlers are made of *)

\* Handler h starts and reads the case.
Begin(p, h, s, place) ==
  /\ pc[p] = "idle" /\ h \in role[p]
  /\ pc' = [pc EXCEPT ![p] = place]
  /\ req' = [req EXCEPT ![p] = h]
  /\ issue' = [issue EXCEPT ![p] = current]
  /\ from' = [from EXCEPT ![p] = status]
  /\ to' = [to EXCEPT ![p] = s]

\* The handler goes on at a place, or ends and forgets what it read.
GoOn(p, place) ==
  /\ pc' = [pc EXCEPT ![p] = place]
  /\ IF place = "idle"
     THEN /\ req' = [req EXCEPT ![p] = "none"]
          /\ issue' = [issue EXCEPT ![p] = NoIssue]
          /\ from' = [from EXCEPT ![p] = "INITIATED"]
          /\ to' = [to EXCEPT ![p] = "INITIATED"]
     ELSE UNCHANGED localVars

\* IssueEvent.create: status OPEN, isActive true, the next id.
OpenIssue ==
  /\ created < MaxIssues
  /\ created' = created + 1
  /\ active' = active \cup {created + 1}

\* Mutant: does not look at the current issue inside the transaction.
EnsureIssueMutant == OpenIssue /\ current' = created + 1

\* In one transaction: open and link an issue if the case has none.
EnsureIssue ==
  IF current = NoIssue
  THEN OpenIssue /\ current' = created + 1
  ELSE UNCHANGED <<created, active, current>>

\* What follows once the handler has an issue.
WithIssue == [h \in Handlers |->
  CASE h = "new_message"                              -> "message"
    [] h \in {"inbound", "user_status", "bot_status"} -> "set"
    [] OTHER                                          -> "idle"]

\* `if (!currentIssueId)`, on the id the handler has read.
NeedsIssue(p) == IF issue[p] = NoIssue THEN "create" ELSE WithIssue[req[p]]

\* After a status change: an incoming message goes on with the welcome message.
Ended(p) == IF req[p] = "inbound" THEN "welcome" ELSE "idle"

-----------------------------------------------------------------------------
(* Opening and linking *)

\* handleNewMessage, assignCaseToUser and the bot path create an issue ...
CreateIssue(p) ==
  /\ pc[p] = "create"
  /\ OpenIssue
  /\ issue' = [issue EXCEPT ![p] = created + 1]
  /\ pc' = [pc EXCEPT ![p] = "link"]
  /\ UNCHANGED <<closed, current, status, logged, req, from, to, faults>>

\* ... and link it with a second call, whatever the case has become meanwhile.
LinkIssue(p) ==
  /\ pc[p] = "link"
  /\ current' = issue[p]
  /\ GoOn(p, WithIssue[req[p]])
  /\ UNCHANGED <<created, closed, active, status, logged, faults>>

\* createMessage on its own: the bot, the off-time reply, REST.
CreateMessage(p) ==
  /\ pc[p] = "idle" /\ "bot_message" \in role[p]
  /\ EnsureIssue
  /\ UNCHANGED <<closed, status, logged, pc, localVars, faults>>

\* new-message: takes the case for the agent and reads its current issue.
NewMessage(p) ==
  /\ Begin(p, "new_message", status,
           IF current = NoIssue THEN "create" ELSE "message")
  /\ UNCHANGED <<dbVars, faults>>

\* createMessage at the end of new-message.
SendMessage(p) ==
  /\ pc[p] = "message"
  /\ EnsureIssue
  /\ GoOn(p, "idle")
  /\ UNCHANGED <<closed, status, logged, faults>>

\* quick-msg-gtw reads the current issue before it sends the quick message ...
QuickMessage(p) ==
  /\ Begin(p, "quick_msg", status, "send")
  /\ UNCHANGED <<dbVars, faults>>

\* ... whose createMessage may link one, then calls assignCaseToUser.
SendQuickMessage(p) ==
  /\ pc[p] = "send"
  /\ EnsureIssue
  /\ GoOn(p, NeedsIssue(p))
  /\ UNCHANGED <<closed, status, logged, faults>>

\* send-t stores and sends the template without an issue, reads the case and
\* calls assignCaseToUser; with a current issue nothing modelled here changes.
TemplateMessage(p) ==
  /\ current = NoIssue
  /\ Begin(p, "send_t", status, "create")
  /\ UNCHANGED <<dbVars, faults>>

-----------------------------------------------------------------------------
(* Status changes *)

\* update-contact-status of an agent: reads the case, then assignCaseToUser.
UserStatus(p, s) ==
  /\ s \in Asked
  /\ Begin(p, "user_status", s, IF current = NoIssue THEN "create" ELSE "set")
  /\ UNCHANGED <<dbVars, faults>>

\* Where the bot path goes after its read: only INITIATED and PROCESSING ensure
\* an issue.
BotPlace(s) ==
  IF s \notin {"INITIATED", "PROCESSING"} THEN "set"
  ELSE IF current = NoIssue THEN "create" ELSE "touch"

\* update-contact-status without a user (triggerStatusUpdateBot).
BotStatus(p, s) ==
  /\ s \in Asked
  /\ Begin(p, "bot_status", s, BotPlace(s))
  /\ UNCHANGED <<dbVars, faults>>

\* The bot path marks the issue it read as active.
TouchIssue(p) ==
  /\ pc[p] = "touch"
  /\ active' = active \cup {issue[p]}
  /\ GoOn(p, "set")
  /\ UNCHANGED <<created, closed, current, status, logged, faults>>

\* Mutant: the status is taken for unchanged when it differs.
SetStatusMutant(p) ==
  /\ pc[p] = "set"
  /\ status' = to[p]
  /\ GoOn(p, IF from[p] = to[p] THEN "record" ELSE Ended(p))
  /\ UNCHANGED <<created, closed, active, current, logged, faults>>

\* The status is stored; it is recorded if it differs from the one read before.
SetStatus(p) ==
  /\ pc[p] = "set"
  /\ status' = to[p]
  /\ GoOn(p, IF from[p] # to[p] THEN "record" ELSE Ended(p))
  /\ UNCHANGED <<created, closed, active, current, logged, faults>>

\* recordStatusChange creates a StatusEvent.
RecordStatusChange(p) ==
  /\ pc[p] = "record"
  /\ logged' = to[p]
  /\ GoOn(p, Ended(p))
  /\ UNCHANGED <<created, closed, active, current, status, faults>>

\* CasesService.updateCaseStatus stores a status and records nothing.
UpdateCaseStatus(p, s) ==
  /\ pc[p] = "idle" /\ "case_status" \in role[p] /\ s \in Asked
  /\ status' = s
  /\ UNCHANGED <<created, closed, active, current, logged, pc, localVars, faults>>

-----------------------------------------------------------------------------
(* updateIssue: an agent closes the current issue *)

\* Mutant: does not notice that there is no issue to close.
UpdateIssueMutant(p, s) ==
  /\ s \in Asked
  /\ Begin(p, "updateIssue", s, "close")
  /\ UNCHANGED <<dbVars, faults>>

\* Without a current issue the update of issue `null` throws.
UpdateIssue(p, s) ==
  /\ s \in Asked /\ current # NoIssue
  /\ Begin(p, "updateIssue", s, "close")
  /\ UNCHANGED <<dbVars, faults>>

\* Mutants: the issue stays linked; it stays active.
CloseIssueStaysLinked(p) ==
  /\ pc[p] = "close"
  /\ closed' = closed \cup {issue[p]}
  /\ active' = active \ {issue[p]}
  /\ status' = to[p]
  /\ GoOn(p, "reread")
  /\ UNCHANGED <<created, current, logged, faults>>
CloseIssueStaysActive(p) ==
  /\ pc[p] = "close"
  /\ closed' = closed \cup {issue[p]}
  /\ current' = NoIssue
  /\ status' = to[p]
  /\ GoOn(p, "reread")
  /\ UNCHANGED <<created, active, logged, faults>>

\* The transaction closes the issue read before and unlinks whatever issue the
\* case has now.
CloseIssue(p) ==
  /\ pc[p] = "close"
  /\ closed' = closed \cup {issue[p]}
  /\ active' = active \ {issue[p]}
  /\ current' = NoIssue
  /\ status' = to[p]
  /\ GoOn(p, "reread")
  /\ UNCHANGED <<created, logged, faults>>

\* The case is read again; its status then is recorded, changed or not.
RereadCase(p) ==
  /\ pc[p] = "reread"
  /\ to' = [to EXCEPT ![p] = status]
  /\ pc' = [pc EXCEPT ![p] = "record"]
  /\ UNCHANGED <<dbVars, req, issue, from, faults>>

-----------------------------------------------------------------------------
(* handleCaseManagement: a customer's message arrives *)

\* It reads the case. A case without issue gets one; a case that is SOLVED or
\* whose 24-hour timer has run out (at any time) is set to INITIATED by the bot
\* path and the customer welcomed; for any other nothing happens here.
Inbound(p) ==
  /\ \E expired \in BOOLEAN :
       LET reopens == expired \/ status = "SOLVED" IN
       /\ reopens \/ current = NoIssue
       /\ Begin(p, "inbound", IF reopens THEN "INITIATED" ELSE status,
                IF current = NoIssue
                THEN IF reopens THEN "ensure" ELSE "welcome"
                ELSE "reopen")
  /\ UNCHANGED <<dbVars, faults>>

\* The Serializable transaction reads currentIssueId again.
EnsureThenReopen(p) ==
  /\ pc[p] = "ensure"
  /\ EnsureIssue
  /\ GoOn(p, "reopen")
  /\ UNCHANGED <<closed, status, logged, faults>>

\* update-contact-status, called by triggerStatusUpdateBot, reads the case.
Reopen(p) ==
  /\ pc[p] = "reopen"
  /\ pc' = [pc EXCEPT ![p] = BotPlace("INITIATED")]
  /\ issue' = [issue EXCEPT ![p] = current]
  /\ from' = [from EXCEPT ![p] = status]
  /\ to' = [to EXCEPT ![p] = "INITIATED"]
  /\ UNCHANGED <<dbVars, req, faults>>

\* The transaction of an incoming message that does not reopen the case, and
\* the createMessage of sendWelcomeMsg, ensure an issue and end the handler.
Welcome(p) ==
  /\ pc[p] = "welcome"
  /\ EnsureIssue
  /\ GoOn(p, "idle")
  /\ UNCHANGED <<closed, status, logged, faults>>

-----------------------------------------------------------------------------
(* A database call fails. sendQuickMessage, updateContactStatus and            *)
(* recordStatusChange swallow the error and their caller goes on; in the other *)
(* handlers it ends the request.                                               *)
AfterFault(p) ==
  IF pc[p] = "send" THEN NeedsIssue(p)
  ELSE IF pc[p] \in {"ensure", "welcome"} THEN "idle"
  ELSE Ended(p)

Fault(p) ==
  /\ pc[p] # "idle" /\ faults < MaxFaults
  /\ faults' = faults + 1
  /\ GoOn(p, AfterFault(p))
  /\ UNCHANGED dbVars

-----------------------------------------------------------------------------
Linking(p) ==
  CreateIssue(p) \/ LinkIssue(p) \/ CreateMessage(p) \/ NewMessage(p)
    \/ SendMessage(p) \/ QuickMessage(p) \/ SendQuickMessage(p)
    \/ TemplateMessage(p)

StatusChange(p) ==
  \/ \E s \in Asked : UserStatus(p, s) \/ BotStatus(p, s) \/ UpdateCaseStatus(p, s)
  \/ TouchIssue(p) \/ SetStatus(p) \/ RecordStatusChange(p)

Closing(p) ==
  (\E s \in Asked : UpdateIssue(p, s)) \/ CloseIssue(p) \/ RereadCase(p)

Incoming(p) ==
  Inbound(p) \/ EnsureThenReopen(p) \/ Reopen(p) \/ Welcome(p)

Next ==
  /\ \E p \in Procs :
       Linking(p) \/ StatusChange(p) \/ Closing(p) \/ Incoming(p) \/ Fault(p)
  /\ UNCHANGED role

Spec == Init /\ [][Next]_vars

-----------------------------------------------------------------------------
(* Properties *)

Open == Issues \ closed
Quiet == \A p \in Procs : pc[p] = "idle"
BeingLinked == {issue[p] : p \in {q \in Procs : pc[q] = "link"}}

\* Settings: at most one process runs any of the handlers H; none runs any.
AtMostOne(H) ==
  \A p, q \in Procs : role[p] \cap H # {} /\ role[q] \cap H # {} => p = q
Nobody(H) == \A p \in Procs : role[p] \cap H = {}

\* Requests run one at a time, and none is a quick message.
OneAtATime == AtMostOne(Handlers) /\ Nobody({"quick_msg"})
\* All who open issues do it in a transaction, and one agent closes them.
Transactional ==
  /\ AtMostOne({"updateIssue"})
  /\ Nobody(Handlers \ {"updateIssue", "bot_message", "case_status"})

\* However requests interleave and fail, the case never points at a closed
\* issue: a link made from a stale read links an issue nobody else knows, and
\* closing unlinks in the same transaction.
CurrentIssueIsOpen == current \notin closed

\* With one request at a time, or with transactions only, an open issue that is
\* not the current one is left behind only by a request that failed between
\* creating and linking it.
OrphansBounded ==
  OneAtATime \/ Transactional =>
    Cardinality(Open \ (BeingLinked \cup {current})) <= faults

\* If one process changes the status (while others open issues and talk), the
\* last StatusEvent shows the status of the case whenever nothing runs and
\* nothing failed.
StatusLogAgrees ==
  /\ AtMostOne({"inbound", "user_status", "bot_status", "updateIssue"})
  /\ Nobody({"case_status"})
  => (Quiet /\ faults = 0 => logged = status)

\* If issues are closed by the process that also runs the bot path, a closed
\* issue is not marked active again.
ActiveIsOpen ==
  AtMostOne({"inbound", "bot_status", "updateIssue"}) => active \cap closed = {}

\* "Re-check inside transaction to prevent race condition" (handleCaseManagement):
\* when nothing runs and nothing failed, no open issue is left unlinked.
QuietOpenIsCurrent == Quiet /\ faults = 0 => Open \subseteq {current}

\* "Creates a new issue event if none exists" (assignCaseToUser): an issue is
\* opened only for a case that has none.
OpensOnlyIfNone == [][created' # created => current = NoIssue]_vars
=============================================================================
