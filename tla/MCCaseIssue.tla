---------------------------- MODULE MCCaseIssue ----------------------------
(***************************************************************************)
(* Instances of CaseIssue: which handlers run at the same time.            *)
(***************************************************************************)
EXTENDS CaseIssue, TLC

TwoProcs == {"p", "q"}

\* Both processes may run every handler.
Everything == [x \in TwoProcs |-> Handlers]

\* One request at a time, of any handler but quick-msg-gtw.
OneRequest == "p" :> Handlers \ {"quick_msg", "case_status"} @@ "q" :> {}

\* One process changes the status, the other only talks.
OneWriter ==
  "p" :> {"user_status", "bot_status", "updateIssue", "inbound"} @@
  "q" :> {"bot_message", "new_message", "quick_msg", "send_t"}

\* Issues are opened by createMessage only, and closed by one agent.
Transactions ==
  "p" :> {"updateIssue", "bot_message"} @@ "q" :> {"case_status", "bot_message"}

Settings == {Everything, OneRequest, OneWriter, Transactions}

\* A customer's message and an agent's message.
Recheck == {"p" :> {"inbound"} @@ "q" :> {"new_message"}}

\* One agent, who sends quick messages.
QuickMessages == {"p" :> {"quick_msg"} @@ "q" :> {}}
=============================================================================
