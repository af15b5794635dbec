----------------------------- MODULE RefundFlow -----------------------------
(***************************************************************************)
(* The refund screenshot flow of one case.  The bot asks for a screenshot   *)
(* (node main_question-fXmet); what the customer sends is read by OCR,      *)
(* looked up at the payment backend, and answered or asked for again.       *)
(* Case.meta counts the tries, and the third one ends the flow.             *)
(*                                                                          *)
(* A run is one execution of processIncomingMessageFromQueue that reached   *)
(* the flow: two workers, or one and a run that has timed out, may have     *)
(* runs of one case.  Every awaited database call is an action; what the    *)
(* bot says is reduced to the node it leaves behind, and the rows written   *)
(* about the order (utr, orderTime, CustomerOrderDetails) are left out.     *)
(***************************************************************************)
EXTENDS Integers, TLC

CONSTANTS
  Runs,         \* the runs that may be going at a time
  Agent,        \* the agent who sends a template
  MaxMessages,  \* bounds the customer's messages that reach the flow
  MaxApart,     \* bounds what happens to the case beside a run
  MaxFaults     \* bounds the database and queue calls that fail

ASSUME RefundAssumption ==
  /\ MaxMessages \in Nat /\ MaxApart \in Nat /\ MaxFaults \in Nat
  /\ Agent \notin Runs

MaxTries == 3

VARIABLES
  node,      \* Case.lastBotNodeId: none, shot (main_question-fXmet), stop, other
  active,    \* Case.meta.refundScreenshotActive
  tries,     \* Case.meta.refundScreenshotTries
  handler,   \* Case.assignedTo
  at,        \* where each run is
  mine,      \* what each run holds of Case.meta, and the rest of its locals
  template,  \* what an agent sending a template holds of Case.meta, if one is
  messages, faults,
  \* recorded for the properties, the first four since Case.meta was last reset:
  refused,   \* how often handleRefundRetry began to refuse a message
  thrown,    \* how many examinations of a screenshot threw
  behind,    \* whose copy of Case.meta, if it has one, is older than the reset
  stale,     \* such a copy was written into the case
  apart      \* how often something happened to the case beside a run

caseVars == <<node, active, tries, handler>>
history  == <<refused, thrown, behind, stale>>
vars == <<caseVars, at, mine, template, messages, faults, history, apart>>

Nodes    == {"none", "shot", "stop", "other"}
Handlers == {"BOT", "USER"}
Replies  == {"screenshot1", "screenshot4", "screenshot5"}
Places   == {"idle", "reset", "start", "clear", "examine", "own", "clearMeta", "lookup",
             "canceled", "orderless", "status", "report", "retry", "send", "count",
             "giveUp", "overwrite", "catch", "caught", "handOver"}
Locals   == [active : BOOLEAN, tries : Nat, image : BOOLEAN, inTry : BOOLEAN,
             reply : Replies, again : Nat]
NoLocals == [active |-> FALSE, tries |-> 0, image |-> FALSE, inTry |-> FALSE,
             reply |-> "screenshot1", again |-> 0]
Writers == Runs \cup {Agent}
NoTemplate == [going |-> FALSE, active |-> FALSE, tries |-> 0]

TypeOK ==
  /\ node \in Nodes /\ active \in BOOLEAN /\ tries \in Nat /\ handler \in Handlers
  /\ at \in [Runs -> Places] /\ mine \in [Runs -> Locals]
  /\ template \in [going : BOOLEAN, active : BOOLEAN, tries : Nat]
  /\ messages \in 0..MaxMessages /\ faults \in 0..MaxFaults
  /\ refused \in Nat /\ thrown \in Nat /\ behind \subseteq Writers /\ stale \in BOOLEAN
  /\ apart \in 0..MaxApart

Init ==
  /\ node = "none" /\ active = FALSE /\ tries = 0 /\ handler = "BOT"
  /\ at = [r \in Runs |-> "idle"] /\ mine = [r \in Runs |-> NoLocals]
  /\ template = NoTemplate
  /\ messages = 0 /\ faults = 0
  /\ refused = 0 /\ thrown = 0 /\ behind = {} /\ stale = FALSE /\ apart = 0

Busy == template.going \/ \E r \in Runs : at[r] # "idle"

\* Something happens that runs may not expect while they are busy.
Beside(busy) ==
  IF busy THEN apart < MaxApart /\ apart' = apart + 1 ELSE UNCHANGED apart

-----------------------------------------------------------------------------
(* Steps of a run *)

\* A run goes from one place to another; ending, it forgets its locals.
Go(r, from, to) ==
  /\ at[r] = from
  /\ at' = [at EXCEPT ![r] = to]
  /\ UNCHANGED <<template, messages, faults, apart>>
Ends(r) == mine' = [mine EXCEPT ![r] = NoLocals]
Keeps(r) == UNCHANGED mine

\* What becomes of Case.meta, and of what is recorded about it.
KeepMeta == UNCHANGED <<active, tries>>
ResetMeta == active' = FALSE /\ tries' = 0
NewRow == refused' = 0 /\ thrown' = 0 /\ behind' = Writers /\ stale' = FALSE
Written(w) == stale' = (stale \/ w \in behind) /\ UNCHANGED <<refused, thrown, behind>>
NotRecorded == UNCHANGED history

\* A message comes while the bot waits for a screenshot, or has stopped.
Take(r, image) ==
  /\ at[r] = "idle" /\ messages < MaxMessages
  /\ \/ node = "shot" /\ handler = "BOT" /\ at' = [at EXCEPT ![r] = "reset"]
     \/ node = "stop" /\ at' = [at EXCEPT ![r] = "handOver"]
  /\ mine' = [mine EXCEPT ![r] = [NoLocals EXCEPT !.active = active, !.tries = tries,
                                                  !.image = image]]
  /\ messages' = messages + 1
  /\ Beside(Busy)
  /\ UNCHANGED <<caseVars, template, faults, history>>

\* Behind a stopped bot there is an agent.
HandOver(r) ==
  /\ Go(r, "handOver", "idle") /\ Ends(r)
  /\ node' = "none" /\ handler' = "USER"
  /\ KeepMeta /\ NotRecorded

\* "Reset lastBotNodeId once reply is received"
Reset(r) ==
  /\ Go(r, "reset", "start") /\ Keeps(r)
  /\ node' = "none"
  /\ KeepMeta /\ NotRecorded /\ UNCHANGED handler

\* The flow starts if it was not active when the run read the case.  Anything but
\* an image is refused.
Start(r) ==
  /\ Go(r, "start", IF mine[r].image THEN "clear" ELSE "retry")
  /\ IF mine[r].active
     THEN KeepMeta /\ NotRecorded
     ELSE active' = TRUE /\ tries' = 0 /\ NewRow
  /\ Ends(r)
  /\ UNCHANGED <<node, handler>>

\* "Received correct refund screenshot": the node is reset once more.
Clear(r) ==
  /\ Go(r, "clear", "examine")
  /\ mine' = [mine EXCEPT ![r].inTry = TRUE]
  /\ node' = "none"
  /\ KeepMeta /\ NotRecorded /\ UNCHANGED handler

\* What OCR finds: a payment to Go-Grab itself, a transaction id, or neither.
Recognised == {"own", "utr", "nothing"}

\* Nothing is said if the flow is no longer active.
Examine(r) ==
  /\ \E seen \in Recognised :
       \/ seen = "own" /\ Go(r, "examine", "own") /\ Keeps(r)
       \/ seen = "utr" /\ Go(r, "examine", "lookup") /\ Keeps(r)
       \/ seen = "nothing" /\ active /\ Go(r, "examine", "retry") /\ Keeps(r)
       \/ seen = "nothing" /\ ~active /\ Go(r, "examine", "idle") /\ Ends(r)
  /\ KeepMeta /\ NotRecorded /\ UNCHANGED <<node, handler>>

\* A bug: the node keeps the name it was sent under.
OwnPaymentMutant(r) ==
  /\ Go(r, "own", "clearMeta") /\ Keeps(r)
  /\ node' = "screenshot2"
  /\ KeepMeta /\ NotRecorded /\ UNCHANGED handler
\* screenshot2 stops the bot, and the tries are reset.
OwnPayment(r) ==
  /\ Go(r, "own", "clearMeta") /\ Keeps(r)
  /\ node' = "stop"
  /\ KeepMeta /\ NotRecorded /\ UNCHANGED handler
ClearMeta(r) ==
  /\ Go(r, "clearMeta", "idle") /\ Ends(r)
  /\ ResetMeta /\ NewRow
  /\ UNCHANGED <<node, handler>>

\* bankTxn turns every error into "not found"; an order may be missing, or canceled
\* (errorCode 10002).
BankTxn == [found : BOOLEAN, order : BOOLEAN, canceled : BOOLEAN]
\* getVendDetails turns every error, also one vend it cannot fetch, into no items; a
\* product that is not in the local table is null.
VendDetails == {"none", "unknownProduct", "known"}

\* createCustomerDetails reads the id of every product, null or not.
Lookup(r) ==
  /\ \E txn \in BankTxn, vends \in VendDetails :
       \/ ~txn.found /\ Go(r, "lookup", "idle") /\ Ends(r) /\ node' = "other"   \* screenshot9
       \/ /\ txn.found /\ txn.order
          /\ \/ vends = "none" /\ Go(r, "lookup", "idle") /\ Ends(r) /\ node' = "stop"
             \/ vends = "unknownProduct" /\ Go(r, "lookup", "catch") /\ Keeps(r) /\ UNCHANGED node
       \/ /\ txn.found /\ (txn.order => vends = "known") /\ Keeps(r)
          /\ \/ txn.canceled /\ Go(r, "lookup", "canceled") /\ node' = "other"
             \/ ~txn.canceled /\ Go(r, "lookup", IF txn.order THEN "status" ELSE "orderless")
                /\ UNCHANGED node
  /\ KeepMeta /\ NotRecorded /\ UNCHANGED handler

Canceled(r) ==
  /\ Go(r, "canceled", "idle") /\ Ends(r)
  /\ ResetMeta /\ NewRow /\ node' = "none"
  /\ UNCHANGED handler

\* The try is counted in a copy before handleRefundRetry counts it in the case,
\* and the copy is written afterwards.
Orderless(r) ==
  /\ \/ /\ active /\ Go(r, "orderless", "retry")
        /\ mine' = [mine EXCEPT ![r].reply = "screenshot5", ![r].again = tries + 1]
        /\ behind' = behind \ {r}
     \/ ~active /\ Go(r, "orderless", "idle") /\ Ends(r) /\ UNCHANGED behind
  /\ KeepMeta /\ UNCHANGED <<node, handler, refused, thrown, stale>>
\* A bug: the copy is counted once more when it is written.
OverwriteMutant(r) ==
  /\ Go(r, "overwrite", "idle") /\ Ends(r)
  /\ active' = TRUE /\ tries' = mine[r].again + 1 /\ node' = "shot"
  /\ Written(r) /\ UNCHANGED handler
Overwrite(r) ==
  /\ Go(r, "overwrite", "idle") /\ Ends(r)
  /\ active' = TRUE /\ tries' = mine[r].again /\ node' = "shot"
  /\ Written(r) /\ UNCHANGED handler

\* refundStatus of the backend knows a refund, or does not; an error counts as no refund.
RefundStatus == {"refunded", "none"}

\* A refund is reported and the node las sent; without one the vends are, and the
\* bot stops - unless the flow is no longer active: then nothing is said.
Status(r) ==
  /\ \E refund \in RefundStatus :
       \/ refund = "refunded" /\ Go(r, "status", "idle") /\ Ends(r) /\ node' = "other"
       \/ refund = "none" /\ active /\ Go(r, "status", "report") /\ Keeps(r) /\ UNCHANGED node
       \/ refund = "none" /\ ~active /\ Go(r, "status", "idle") /\ Ends(r) /\ UNCHANGED node
  /\ KeepMeta /\ NotRecorded /\ UNCHANGED handler
\* A bug: only the flag is reset.
ReportMutant(r) ==
  /\ Go(r, "report", "idle") /\ Ends(r)
  /\ active' = FALSE /\ UNCHANGED tries /\ NewRow /\ node' = "stop"
  /\ UNCHANGED handler
Report(r) ==
  /\ Go(r, "report", "idle") /\ Ends(r)
  /\ ResetMeta /\ NewRow /\ node' = "stop"
  /\ UNCHANGED handler

-----------------------------------------------------------------------------
(* handleRefundRetry *)

\* The case is read again, and the try counted in a copy.
Retry(r) ==
  /\ Go(r, "retry", "send")
  /\ mine' = [mine EXCEPT ![r].active = active, ![r].tries = tries + 1]
  /\ refused' = refused + 1
  /\ behind' = IF mine[r].again = 0 THEN behind \ {r} ELSE behind
  /\ KeepMeta /\ UNCHANGED <<node, handler, thrown, stale>>

\* Bugs: one try too few, one too many.
GivesUpEarlyMutant(r) == mine[r].tries >= MaxTries - 1
GivesUpLateMutant(r) == mine[r].tries > MaxTries
GivesUp(r) == mine[r].tries >= MaxTries

\* The bot says screenshot4, or asks for another screenshot.
Send(r) ==
  /\ Go(r, "send", IF GivesUp(r) THEN "giveUp" ELSE "count") /\ Keeps(r)
  /\ node' = IF ~GivesUp(r) /\ mine[r].reply = "screenshot1" THEN "shot" ELSE "other"
  /\ KeepMeta /\ NotRecorded /\ UNCHANGED handler

\* Where handleRefundRetry returns to.
Returns(r, from) ==
  \/ mine[r].again = 0 /\ Go(r, from, "idle") /\ Ends(r)
  \/ mine[r].again > 0 /\ Go(r, from, "overwrite") /\ Keeps(r)

GiveUp(r) ==
  /\ Returns(r, "giveUp")
  /\ ResetMeta /\ NewRow /\ node' = "none" /\ handler' = "BOT"

Count(r) ==
  /\ Returns(r, "count")
  /\ active' = mine[r].active /\ tries' = mine[r].tries /\ node' = "shot"
  /\ Written(r) /\ UNCHANGED handler

-----------------------------------------------------------------------------
(* Failures *)

\* A call fails: within handleRefundScreenshot its catch block takes over, outside
\* it the run ends, and pg-boss will try the message again.
Fault(r) ==
  /\ at[r] # "idle" /\ faults < MaxFaults
  /\ faults' = faults + 1
  /\ IF mine[r].inTry
     THEN at' = [at EXCEPT ![r] = "catch"] /\ Keeps(r)
     ELSE at' = [at EXCEPT ![r] = "idle"] /\ Ends(r)
  /\ UNCHANGED <<caseVars, template, messages, history, apart>>

\* botSendByNodeId swallows its own failures: the node stays, the run goes on.
Mute(r) ==
  /\ faults < MaxFaults /\ faults' = faults + 1
  /\ \/ at[r] = "own" /\ at' = [at EXCEPT ![r] = "clearMeta"] /\ Keeps(r)
     \/ at[r] = "send" /\ Keeps(r)
        /\ at' = [at EXCEPT ![r] = IF GivesUp(r) THEN "giveUp" ELSE "count"]
     \/ at[r] = "lookup" /\ at' = [at EXCEPT ![r] = "canceled"] /\ Keeps(r)
     \/ at[r] \in {"lookup", "status"} /\ at' = [at EXCEPT ![r] = "idle"] /\ Ends(r)
  /\ UNCHANGED <<caseVars, template, messages, history, apart>>

\* The catch block counts the try in the case, then has handleRefundRetry count it.
Catch(r) ==
  /\ Go(r, "catch", "caught")
  /\ mine' = [mine EXCEPT ![r].active = active, ![r].tries = tries + 1,
                          ![r].inTry = FALSE, ![r].again = 0]
  /\ thrown' = thrown + 1 /\ behind' = behind \ {r}
  /\ KeepMeta /\ UNCHANGED <<node, handler, refused, stale>>
Caught(r) ==
  /\ Go(r, "caught", "retry")
  /\ mine' = [mine EXCEPT ![r].reply = IF GivesUp(r) THEN "screenshot4" ELSE "screenshot5"]
  /\ active' = mine[r].active /\ tries' = mine[r].tries
  /\ Written(r)
  /\ UNCHANGED <<node, handler>>

-----------------------------------------------------------------------------
(* Beside the runs *)

\* A button leads to the question for a screenshot.
Ask ==
  /\ handler = "BOT" /\ node \in {"none", "other"}
  /\ node' = "shot"
  /\ UNCHANGED <<active, tries, handler, at, mine, template, messages, faults, history, apart>>

\* The case is solved: recordStatusChange resets node and meta.
Solve ==
  /\ node' = "none" /\ ResetMeta /\ NewRow
  /\ Beside(Busy)
  /\ UNCHANGED <<handler, at, mine, template, messages, faults>>

\* An agent talks into the case; after it was closed the next message reopens it.
AgentTakes ==
  /\ handler = "BOT" /\ handler' = "USER"
  /\ UNCHANGED <<node, active, tries, at, mine, template, messages, faults, history, apart>>
Reopen ==
  /\ handler = "USER" /\ handler' = "BOT"
  /\ UNCHANGED <<node, active, tries, at, mine, template, messages, faults, history, apart>>

\* send-t reads Case.meta, and writes all of it back with its own fields added.
ReadMeta ==
  /\ ~template.going
  /\ template' = [going |-> TRUE, active |-> active, tries |-> tries]
  /\ behind' = behind \ {Agent}
  /\ Beside(Busy)
  /\ UNCHANGED <<caseVars, at, mine, messages, faults, refused, thrown, stale>>
WriteMeta ==
  /\ template.going
  /\ active' = template.active /\ tries' = template.tries
  /\ template' = NoTemplate
  /\ Written(Agent)
  /\ Beside(\E r \in Runs : at[r] # "idle")
  /\ UNCHANGED <<node, handler, at, mine, messages, faults>>

-----------------------------------------------------------------------------
Run(r) ==
  \/ \E image \in BOOLEAN : Take(r, image)
  \/ HandOver(r) \/ Reset(r) \/ Start(r) \/ Clear(r) \/ Examine(r)
  \/ OwnPayment(r) \/ ClearMeta(r) \/ Lookup(r) \/ Canceled(r)
  \/ Orderless(r) \/ Overwrite(r) \/ Status(r) \/ Report(r)
  \/ Retry(r) \/ Send(r) \/ GiveUp(r) \/ Count(r)
  \/ Fault(r) \/ Mute(r) \/ Catch(r) \/ Caught(r)

Next ==
  \/ \E r \in Runs : Run(r)
  \/ Ask \/ Solve \/ AgentTakes \/ Reopen \/ ReadMeta \/ WriteMeta

Spec == Init /\ [][Next]_vars

-----------------------------------------------------------------------------

Symmetry == Permutations(Runs)

(* Properties *)

\* Whatever runs beside what, the case counts no more tries than handleRefundRetry
\* refused messages and examinations threw since Case.meta was last reset: runs that
\* count at the same time may lose tries, never invent them.  A copy older than the
\* reset, once it is written, voids this until the next reset.
TriesAreExplained == ~stale => tries <= refused + thrown

\* The flow gives up only after three such tries since the reset, unless a copy older
\* than the reset was used or written.  A screenshot whose examination throws is two of
\* them, so these are not the "failed 3 times" of the log; but as long as runs are alone and
\* no call fails, the bot has refused at least twice.
EscalationsAreEarned ==
  \A r \in Runs : at[r] = "giveUp" /\ r \notin behind /\ ~stale =>
    /\ refused + thrown >= MaxTries
    /\ apart = 0 /\ faults = 0 => refused >= 2

\* The third refusal since the reset ends the flow, unless a failure lost the count: no
\* customer is asked for ever.  A screenshot without an order whose refusal was the
\* third puts the ended flow back; refusals are counted anew from the reset all the same.
ThirdRefusalEndsFlow == apart = 0 /\ ~Busy => refused <= 2 + faults

\* Tries are only counted in a flow that is active: a try that is not would be
\* forgotten by the next message.
TriesOnlyWhileActive == apart = 0 /\ faults = 0 => (tries > 0 => active)
=============================================================================
