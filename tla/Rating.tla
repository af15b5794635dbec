------------------------------- MODULE Rating -------------------------------
(***************************************************************************)
(* The agent's rating: a quick message with a list asks for it, the         *)
(* customer's choice from the list gives it.  Case.lastBotNodeId tells that *)
(* a list was asked; the issue that is rated is looked up when the reply    *)
(* comes.  The customer may choose from a list it has more than once.       *)
(***************************************************************************)
EXTENDS Naturals, Sequences, FiniteSets, FiniteSetsExt

CONSTANTS
  Replies,      \* the choices the customer makes
  MaxIssues,    \* bounds the issues of the case
  MaxLists      \* bounds the lists agents send

ASSUME RatingAssumption == IsFiniteSet(Replies) /\ MaxIssues \in Nat /\ MaxLists \in Nat

VARIABLES
  issues,      \* the issues of the case: open, listed (a list was sent in it), rated
  linked,      \* Case.currentIssueId, 0 if none
  asking,      \* Case.lastBotNodeId = 'agent-interactive'
  sending,     \* the agent's handler has set the node and not yet written the list
  reply,       \* where each reply is, and the issue it rates
  asks, taken, beside   \* recorded: lists begun, replies taken, replies that overlap

ratingVars == <<issues, linked, asking, sending, reply, asks, taken, beside>>

RatingTypeOK ==
  /\ issues \in Seq([open : BOOLEAN, listed : BOOLEAN, rated : BOOLEAN]) /\ Len(issues) <= MaxIssues
  /\ linked \in 0..Len(issues) /\ asking \in BOOLEAN /\ sending \in BOOLEAN
  /\ reply \in [Replies -> [at : {"idle", "choose", "rate", "clear", "done"}, issue : 0..Len(issues)]]
  /\ asks \in 0..MaxLists /\ taken \in Nat /\ beside \in Nat

RatingInit ==
  /\ issues = <<>> /\ linked = 0 /\ asking = FALSE /\ sending = FALSE
  /\ reply = [r \in Replies |-> [at |-> "idle", issue |-> 0]]
  /\ asks = 0 /\ taken = 0 /\ beside = 0

Fresh == [open |-> TRUE, listed |-> FALSE, rated |-> FALSE]
\* A bug: the case is linked to an issue that was not created.
WithOpenMutant == [issues |-> issues, linked |-> IF linked # 0 THEN linked ELSE Len(issues) + 1]
\* The issues and the link of the case after an issue was opened if there was none.
WithOpen ==
  IF linked # 0 THEN [issues |-> issues, linked |-> linked]
  ELSE [issues |-> Append(issues, Fresh), linked |-> Len(issues) + 1]

\* sendQuickMessage sets the node, then writes the list with createMessage.
AskNode ==
  /\ ~sending /\ sending' = TRUE
  /\ asks < MaxLists /\ asks' = asks + 1
  /\ asking' = TRUE
  /\ UNCHANGED <<issues, linked, reply, taken, beside>>
AskList ==
  /\ sending /\ sending' = FALSE
  /\ \/ UNCHANGED <<issues, linked>>     \* createMessage fails: the node stays
     \/ /\ Len(WithOpen.issues) <= MaxIssues
        /\ linked' = WithOpen.linked
        /\ issues' = [WithOpen.issues EXCEPT ![linked'] = [@ EXCEPT !.listed = TRUE]]
  /\ UNCHANGED <<asking, reply, asks, taken, beside>>

\* Another message of the customer: without an issue it opens one; what the bot says
\* next, if it has the case, is another node.
OtherMessage ==
  /\ Len(WithOpen.issues) <= MaxIssues
  /\ linked' = WithOpen.linked /\ issues' = WithOpen.issues
  /\ asking' \in {asking, FALSE}
  /\ UNCHANGED <<sending, reply, asks, taken, beside>>

\* The agent closes the issue.
CloseRated ==
  /\ linked # 0 /\ linked' = 0
  /\ issues' = [issues EXCEPT ![linked] = [@ EXCEPT !.open = FALSE]]
  /\ UNCHANGED <<asking, sending, reply, asks, taken, beside>>
\* The case is solved: the node is forgotten, and with it the list.
ForgetList ==
  /\ asking /\ asking' = FALSE
  /\ UNCHANGED <<issues, linked, sending, reply, asks, taken, beside>>

Replying(r) == reply[r].at \in {"choose", "rate", "clear"}

\* A reply to a list is a rating if the node says that one was asked; it neither
\* reopens the case nor opens an issue.
TakeReply(r) ==
  /\ \E i \in DOMAIN issues : issues[i].listed
  /\ reply[r].at = "idle"
  /\ reply' = [reply EXCEPT ![r].at = IF asking THEN "choose" ELSE "done"]
  /\ taken' = IF asking THEN taken + 1 ELSE taken
  /\ beside' = IF asking /\ \E q \in Replies : Replying(q) THEN beside + 1 ELSE beside
  /\ UNCHANGED <<issues, linked, asking, sending, asks>>

\* A bug: the fallback takes the first issue that was closed.
IssueToRateMutant ==
  LET closed == {i \in DOMAIN issues : ~issues[i].open}
  IN  IF linked # 0 THEN linked ELSE IF closed = {} THEN 0 ELSE Min(closed)
\* The current issue, or the last that was closed.
IssueToRate ==
  LET closed == {i \in DOMAIN issues : ~issues[i].open}
  IN  IF linked # 0 THEN linked ELSE IF closed = {} THEN 0 ELSE Max(closed)
ChooseIssue(r) ==
  /\ reply[r].at = "choose"
  /\ reply' = [reply EXCEPT ![r] = [at |-> IF IssueToRate = 0 THEN "clear" ELSE "rate", issue |-> IssueToRate]]
  /\ UNCHANGED <<issues, linked, asking, sending, asks, taken, beside>>
Rate(r) ==
  /\ reply[r].at = "rate"
  /\ issues' = [issues EXCEPT ![reply[r].issue] = [@ EXCEPT !.rated = TRUE]]
  /\ reply' = [reply EXCEPT ![r].at = "clear"]
  /\ UNCHANGED <<linked, asking, sending, asks, taken, beside>>
\* A bug: the node stays, and every further choice rates again.
ClearNodeMutant(r) ==
  /\ reply[r].at = "clear"
  /\ reply' = [reply EXCEPT ![r] = [at |-> "done", issue |-> 0]]
  /\ UNCHANGED <<issues, linked, asking, sending, asks, taken, beside>>
ClearNode(r) ==
  /\ reply[r].at = "clear"
  /\ reply' = [reply EXCEPT ![r] = [at |-> "done", issue |-> 0]]
  /\ asking' = FALSE
  /\ UNCHANGED <<issues, linked, sending, asks, taken, beside>>

RatingNext ==
  \/ AskNode \/ AskList \/ OtherMessage \/ CloseRated \/ ForgetList
  \/ \E r \in Replies : TakeReply(r) \/ ChooseIssue(r) \/ Rate(r) \/ ClearNode(r)

-----------------------------------------------------------------------------
\* The issue that is rated is one a list was sent in, or a later one: a message between
\* the closing of the issue and the reply opens an issue that gets its rating.  No issue
\* from before the first list is ever rated.
RatedSinceList ==
  \A i \in DOMAIN issues : issues[i].rated => \E j \in 1..i : issues[j].listed

\* A list gives one rating: the node is cleared by the reply.  Only replies that are
\* processed beside each other are taken for the same list.
OneRatingPerList == taken <= asks + beside
=============================================================================
