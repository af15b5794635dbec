-------------------------- MODULE CaseIssueProofs --------------------------
(***************************************************************************)
(* For any number of concurrent requests, any assignment of handlers to    *)
(* them, any number of issues and of failed database calls: types, and     *)
(* Case.currentIssueId never names a closed issue.                         *)
(*                                                                         *)
(* That invariant speaks of an issue between its creation and its link: it *)
(* is open, not current, and no other request has read its id, so no stale *)
(* updateIssue can close it before it is linked.                           *)
(*                                                                         *)
(* Then, for the settings that keep the handlers concerned apart: the log  *)
(* shows the status, closed issues are not active, and orphans are paid    *)
(* for by faults.                                                          *)
(***************************************************************************)
EXTENDS CaseIssue, FiniteSetTheorems, TLAPS

\* A handler that touches, closes or links an issue has one.
PlaceOK(p) ==
  /\ pc[p] # "idle" => req[p] \in Handlers
  /\ pc[p] \in {"touch", "close", "link"} => issue[p] \in Issues

\* Nobody but its creator knows an issue that is not linked yet.
LinkOK(p) ==
  pc[p] = "link" =>
    /\ issue[p] \notin closed
    /\ issue[p] # current
    /\ \A q \in Procs : q # p => issue[q] # issue[p]

PlaceInv == \A p \in Procs : PlaceOK(p)
LinkInv == \A p \in Procs : LinkOK(p)

IInv == TypeOK /\ PlaceInv /\ LinkInv /\ CurrentIssueIsOpen

USE CaseIssueAssumption DEF CaseIssueAssumption

-----------------------------------------------------------------------------
LEMMA InitIInv == Init => IInv
  BY DEF Init, IInv, TypeOK, PlaceInv, PlaceOK, LinkInv, LinkOK,
         CurrentIssueIsOpen, Issues, NoIssue, Statuses, Places

\* What WithIssue, NeedsIssue, Ended and AfterFault lead to.
LEMMA WherePlaces ==
  ASSUME TypeOK, PlaceInv, NEW p \in Procs, pc[p] # "idle"
  PROVE  /\ WithIssue[req[p]] \in {"message", "set", "idle"}
         /\ NeedsIssue(p) \in {"create", "message", "set", "idle"}
         /\ Ended(p) \in {"welcome", "idle"}
         /\ AfterFault(p) \in {"create", "message", "set", "welcome", "idle"}
  <1>1. req[p] \in Handlers
    BY DEF PlaceInv, PlaceOK
  <1>2. WithIssue[req[p]] \in {"message", "set", "idle"}
    BY <1>1 DEF WithIssue
  <1>3. NeedsIssue(p) \in {"create", "message", "set", "idle"}
    BY <1>2 DEF NeedsIssue
  <1>4. Ended(p) \in {"welcome", "idle"}
    BY DEF Ended
  <1> QED
    BY <1>2, <1>3, <1>4 DEF AfterFault

\* GoOn keeps the locals of the other handlers and forgets or keeps its own.
LEMMA GoOnStep ==
  ASSUME TypeOK, PlaceInv, NEW p \in Procs, pc[p] # "idle",
         NEW place \in Places \ {"touch", "close", "link"}, GoOn(p, place)
  PROVE  /\ pc' \in [Procs -> Places]
         /\ req' \in [Procs -> Handlers \cup {"none"}]
         /\ issue' \in [Procs -> Issues \cup {NoIssue}]
         /\ from' \in [Procs -> Statuses]
         /\ to' \in [Procs -> Statuses]
         /\ \A q \in Procs : pc'[q] # "idle" => req'[q] \in Handlers
         /\ \A q \in Procs :
              /\ issue'[q] \in {issue[q], NoIssue}
              /\ pc'[q] \in {"touch", "close", "link"} =>
                   pc'[q] = pc[q] /\ issue'[q] = issue[q]
  <1>1. CASE place = "idle"
    BY <1>1 DEF GoOn, TypeOK, PlaceInv, PlaceOK, NoIssue, Statuses, Places
  <1>2. CASE place # "idle"
    BY <1>2 DEF GoOn, TypeOK, PlaceInv, PlaceOK, localVars, Places
  <1> QED
    BY <1>1, <1>2

\* Begin reads current into `issue` of one handler.
LEMMA BeginStep ==
  ASSUME TypeOK, PlaceInv, UNCHANGED role, NEW p \in Procs, NEW h \in Handlers,
         NEW s \in Statuses, NEW place \in Places \ {"link"},
         place \in {"touch", "close"} => current # NoIssue,
         Begin(p, h, s, place), UNCHANGED dbVars
  PROVE  /\ faults' \in 0..MaxFaults => TypeOK'
         /\ PlaceInv'
         /\ \A q \in Procs :
              /\ issue'[q] \in {issue[q], current}
              /\ pc'[q] = "link" => pc[q] = "link" /\ issue'[q] = issue[q]
  <1>1. /\ pc' \in [Procs -> Places]
        /\ req' \in [Procs -> Handlers \cup {"none"}]
        /\ issue' \in [Procs -> Issues \cup {NoIssue}]
        /\ from' \in [Procs -> Statuses]
        /\ to' \in [Procs -> Statuses]
    BY DEF Begin, TypeOK
  <1>2. faults' \in 0..MaxFaults => TypeOK'
    BY <1>1 DEF TypeOK, dbVars, Issues
  <1>3. PlaceInv'
    <2> SUFFICES ASSUME NEW q \in Procs PROVE PlaceOK(q)'
      BY DEF PlaceInv
    <2>1. CASE q = p
      BY <2>1 DEF Begin, TypeOK, PlaceOK, dbVars, Issues, NoIssue
    <2>2. CASE q # p
      BY <2>2 DEF Begin, TypeOK, PlaceInv, PlaceOK, dbVars, Issues
    <2> QED
      BY <2>1, <2>2
  <1>4. ASSUME NEW q \in Procs
        PROVE  /\ issue'[q] \in {issue[q], current}
               /\ pc'[q] = "link" => pc[q] = "link" /\ issue'[q] = issue[q]
    BY DEF Begin, TypeOK
  <1> QED
    BY <1>2, <1>3, <1>4

\* A step that only reads preserves what links rely on.
LEMMA BeginKeeps ==
  ASSUME IInv, UNCHANGED role, NEW p \in Procs, NEW h \in Handlers,
         NEW s \in Statuses, NEW place \in Places \ {"link"},
         place \in {"touch", "close"} => current # NoIssue,
         Begin(p, h, s, place), UNCHANGED <<dbVars, faults>>
  PROVE  IInv'
  <1>1. /\ faults' \in 0..MaxFaults => TypeOK'
        /\ PlaceInv'
        /\ \A q \in Procs :
             /\ issue'[q] \in {issue[q], current}
             /\ pc'[q] = "link" => pc[q] = "link" /\ issue'[q] = issue[q]
    BY BeginStep DEF IInv
  <1>2. TypeOK'
    BY <1>1 DEF IInv, TypeOK
  <1>3. LinkInv'
    <2> SUFFICES ASSUME NEW q \in Procs, pc'[q] = "link" PROVE LinkOK(q)'
      BY DEF LinkInv, LinkOK
    <2>1. LinkOK(q) /\ pc[q] = "link" /\ issue'[q] = issue[q]
      BY <1>1 DEF IInv, LinkInv
    <2> QED
      BY <1>1, <2>1 DEF LinkOK, dbVars
  <1>4. CurrentIssueIsOpen'
    BY DEF IInv, CurrentIssueIsOpen, dbVars
  <1> QED
    BY <1>1, <1>2, <1>3, <1>4 DEF IInv

\* The transaction that opens and links an issue links a fresh one.
LEMMA EnsureStep ==
  ASSUME IInv, EnsureIssue
  PROVE  /\ created' \in 0..MaxIssues /\ created' >= created
         /\ Issues \subseteq Issues'
         /\ active' \subseteq Issues'
         /\ current' \in Issues' \cup {NoIssue}
         /\ current' = current \/ current' \notin Issues
         /\ current' \notin closed
         /\ closed \subseteq Issues'
  <1> USE DEF Issues, NoIssue
  <1>1. /\ created \in 0..MaxIssues /\ MaxIssues \in Nat
        /\ current \in 0..created
        /\ active \subseteq 1..created /\ closed \subseteq 1..created
        /\ current \notin closed
    BY DEF IInv, TypeOK, CurrentIssueIsOpen
  <1>2. CASE current = NoIssue
    <2>1. /\ created < MaxIssues /\ created' = created + 1
          /\ active' = active \cup {created + 1} /\ current' = created + 1
      BY <1>2 DEF EnsureIssue, OpenIssue
    <2>2. created' \in 0..MaxIssues /\ created' >= created
      BY <1>1, <2>1
    <2>3. Issues \subseteq 1..(created + 1) /\ created + 1 \in 1..(created + 1)
      BY <1>1
    <2>4. created + 1 \notin Issues
      BY <1>1
    <2> QED
      BY <1>1, <2>1, <2>2, <2>3, <2>4
  <1>3. CASE current # NoIssue
    <2>1. created' = created /\ active' = active /\ current' = current
      BY <1>3 DEF EnsureIssue
    <2> QED
      BY <1>1, <2>1
  <1> QED
    BY <1>2, <1>3

\* A handler goes on after a transaction that may have opened an issue.
LEMMA EnsureKeeps ==
  ASSUME IInv, UNCHANGED role, EnsureIssue, UNCHANGED <<closed, status, logged>>,
         faults' \in 0..MaxFaults, NEW p \in Procs, pc[p] # "idle",
         NEW place \in Places \ {"touch", "close", "link"}, GoOn(p, place)
  PROVE  IInv'
  <1>1. /\ pc' \in [Procs -> Places]
        /\ req' \in [Procs -> Handlers \cup {"none"}]
        /\ issue' \in [Procs -> Issues \cup {NoIssue}]
        /\ from' \in [Procs -> Statuses]
        /\ to' \in [Procs -> Statuses]
        /\ \A q \in Procs : pc'[q] # "idle" => req'[q] \in Handlers
        /\ \A q \in Procs :
             /\ issue'[q] \in {issue[q], NoIssue}
             /\ pc'[q] \in {"touch", "close", "link"} =>
                  pc'[q] = pc[q] /\ issue'[q] = issue[q]
    BY GoOnStep DEF IInv
  <1>2. /\ created' \in 0..MaxIssues
        /\ Issues \subseteq Issues'
        /\ active' \subseteq Issues'
        /\ current' \in Issues' \cup {NoIssue}
        /\ current' = current \/ current' \notin Issues
        /\ current' \notin closed
        /\ closed \subseteq Issues'
    BY EnsureStep
  <1>3. TypeOK'
    BY <1>1, <1>2 DEF IInv, TypeOK, NoIssue
  <1>4. PlaceInv'
    <2> SUFFICES ASSUME NEW q \in Procs PROVE PlaceOK(q)'
      BY DEF PlaceInv
    <2> QED
      BY <1>1, <1>2 DEF IInv, PlaceInv, PlaceOK
  <1>5. LinkInv'
    <2> SUFFICES ASSUME NEW q \in Procs, pc'[q] = "link" PROVE LinkOK(q)'
      BY DEF LinkInv, LinkOK
    <2>1. pc[q] = "link" /\ issue'[q] = issue[q] /\ LinkOK(q)
      BY <1>1 DEF IInv, LinkInv
    <2>2. issue[q] \in Issues /\ issue[q] # NoIssue
      BY <2>1 DEF IInv, PlaceInv, PlaceOK, Issues, NoIssue
    <2>3. issue'[q] # current'
      BY <2>1, <2>2, <1>2 DEF LinkOK
    <2>4. ASSUME NEW r \in Procs, r # q PROVE issue'[r] # issue'[q]
      BY <2>1, <2>2, <2>4, <1>1 DEF LinkOK
    <2> QED
      BY <2>1, <2>3, <2>4 DEF LinkOK
  <1>6. CurrentIssueIsOpen'
    BY <1>2 DEF CurrentIssueIsOpen
  <1> QED
    BY <1>3, <1>4, <1>5, <1>6 DEF IInv

\* A handler goes on and neither an issue nor a link changes.
LEMMA PlainKeeps ==
  ASSUME IInv, UNCHANGED role, UNCHANGED <<created, closed, current>>,
         active' \subseteq Issues, status' \in Statuses, logged' \in Statuses,
         faults' \in 0..MaxFaults, NEW p \in Procs, pc[p] # "idle",
         NEW place \in Places \ {"touch", "close", "link"}, GoOn(p, place)
  PROVE  IInv'
  <1>1. /\ pc' \in [Procs -> Places]
        /\ req' \in [Procs -> Handlers \cup {"none"}]
        /\ issue' \in [Procs -> Issues \cup {NoIssue}]
        /\ from' \in [Procs -> Statuses]
        /\ to' \in [Procs -> Statuses]
        /\ \A q \in Procs : pc'[q] # "idle" => req'[q] \in Handlers
        /\ \A q \in Procs :
             /\ issue'[q] \in {issue[q], NoIssue}
             /\ pc'[q] \in {"touch", "close", "link"} =>
                  pc'[q] = pc[q] /\ issue'[q] = issue[q]
    BY GoOnStep DEF IInv
  <1>2. Issues' = Issues
    BY DEF Issues
  <1>3. TypeOK'
    BY <1>1, <1>2 DEF IInv, TypeOK
  <1>4. PlaceInv'
    BY <1>1, <1>2 DEF IInv, PlaceInv, PlaceOK
  <1>5. LinkInv'
    <2> SUFFICES ASSUME NEW q \in Procs, pc'[q] = "link" PROVE LinkOK(q)'
      BY DEF LinkInv, LinkOK
    <2>1. pc[q] = "link" /\ issue'[q] = issue[q] /\ LinkOK(q)
      BY <1>1 DEF IInv, LinkInv
    <2>2. issue[q] # NoIssue
      BY <2>1 DEF IInv, TypeOK, PlaceInv, PlaceOK, Issues, NoIssue
    <2> QED
      BY <1>1, <2>1, <2>2 DEF LinkOK
  <1>6. CurrentIssueIsOpen'
    BY DEF IInv, CurrentIssueIsOpen
  <1> QED
    BY <1>3, <1>4, <1>5, <1>6 DEF IInv

\* The created issue is new, so nobody knows it.
LEMMA CreateStep ==
  ASSUME IInv, UNCHANGED role, NEW p \in Procs, CreateIssue(p)
  PROVE  IInv'
  <1>1. /\ created \in 0..MaxIssues /\ created < MaxIssues
        /\ created' = created + 1 /\ active' = active \cup {created + 1}
        /\ UNCHANGED <<closed, current, status, logged, req, from, to, faults>>
    BY DEF CreateIssue, OpenIssue, IInv, TypeOK
  <1>2. Issues \subseteq Issues' /\ created + 1 \in Issues'
        /\ created + 1 \notin Issues /\ created + 1 # NoIssue
    BY <1>1 DEF Issues, NoIssue
  <1>3. /\ pc' \in [Procs -> Places] /\ pc'[p] = "link" /\ pc[p] = "create"
        /\ issue' \in [Procs -> Issues' \cup {NoIssue}] /\ issue'[p] = created + 1
        /\ \A q \in Procs : q # p => pc'[q] = pc[q] /\ issue'[q] = issue[q]
    BY <1>2 DEF CreateIssue, IInv, TypeOK, Places
  <1>4. TypeOK'
    <2>1. created' \in 0..MaxIssues
      BY <1>1
    <2> QED
      BY <1>1, <1>2, <1>3, <2>1 DEF IInv, TypeOK
  <1>5. PlaceInv'
    <2> SUFFICES ASSUME NEW q \in Procs PROVE PlaceOK(q)'
      BY DEF PlaceInv
    <2>1. PlaceOK(q) /\ PlaceOK(p)
      BY DEF IInv, PlaceInv
    <2> QED
      BY <1>1, <1>2, <1>3, <2>1 DEF PlaceOK
  <1>6. LinkInv'
    <2> SUFFICES ASSUME NEW q \in Procs, pc'[q] = "link" PROVE LinkOK(q)'
      BY DEF LinkInv, LinkOK
    <2>0. \A r \in Procs : issue[r] # created + 1
      BY <1>2 DEF IInv, TypeOK
    <2>1. CASE q = p
      <3>1. created + 1 \notin closed /\ created + 1 # current
        BY <1>2 DEF IInv, TypeOK
      <3> QED
        BY <1>1, <1>3, <2>0, <2>1, <3>1 DEF LinkOK
    <2>2. CASE q # p
      <3>1. LinkOK(q) /\ pc[q] = "link" /\ issue'[q] = issue[q]
        BY <1>3, <2>2 DEF IInv, LinkInv
      <3> QED
        BY <1>1, <1>3, <2>0, <3>1 DEF LinkOK
    <2> QED
      BY <2>1, <2>2
  <1>7. CurrentIssueIsOpen'
    BY <1>1 DEF IInv, CurrentIssueIsOpen
  <1> QED
    BY <1>4, <1>5, <1>6, <1>7 DEF IInv

\* The linked issue is open, whatever closed the issue the case had before.
LEMMA LinkStep ==
  ASSUME IInv, UNCHANGED role, NEW p \in Procs, LinkIssue(p)
  PROVE  IInv'
  <1> DEFINE place == WithIssue[req[p]]
  <1>1. /\ pc[p] = "link" /\ current' = issue[p] /\ GoOn(p, place)
        /\ UNCHANGED <<created, closed, active, status, logged, faults>>
    BY DEF LinkIssue
  <1>2. place \in Places \ {"touch", "close", "link"}
    BY <1>1, WherePlaces DEF IInv, Places
  <1>3. /\ pc' \in [Procs -> Places]
        /\ req' \in [Procs -> Handlers \cup {"none"}]
        /\ issue' \in [Procs -> Issues \cup {NoIssue}]
        /\ from' \in [Procs -> Statuses]
        /\ to' \in [Procs -> Statuses]
        /\ \A q \in Procs : pc'[q] # "idle" => req'[q] \in Handlers
        /\ \A q \in Procs :
             /\ issue'[q] \in {issue[q], NoIssue}
             /\ pc'[q] \in {"touch", "close", "link"} =>
                  pc'[q] = pc[q] /\ issue'[q] = issue[q]
    BY <1>1, <1>2, GoOnStep DEF IInv
  <1>4. Issues' = Issues
    BY <1>1 DEF Issues
  <1>5. issue[p] \in Issues /\ LinkOK(p)
    BY <1>1 DEF IInv, PlaceInv, PlaceOK, LinkInv
  <1>6. TypeOK'
    BY <1>1, <1>3, <1>4, <1>5 DEF IInv, TypeOK
  <1>7. PlaceInv'
    BY <1>1, <1>3, <1>4 DEF IInv, PlaceInv, PlaceOK
  <1>8. LinkInv'
    <2> SUFFICES ASSUME NEW q \in Procs, pc'[q] = "link" PROVE LinkOK(q)'
      BY DEF LinkInv, LinkOK
    <2>1. pc[q] = "link" /\ issue'[q] = issue[q] /\ LinkOK(q)
      BY <1>3 DEF IInv, LinkInv
    <2>2. issue[q] # NoIssue
      BY <2>1 DEF IInv, TypeOK, PlaceInv, PlaceOK, Issues, NoIssue
    <2>3. q # p
      <3>1. pc'[p] # "link"
        BY <1>1, <1>2 DEF GoOn, IInv, TypeOK
      <3> QED
        BY <3>1
    <2>4. issue[q] # issue[p]
      BY <2>1, <2>3 DEF LinkOK
    <2> QED
      BY <1>1, <1>3, <2>1, <2>2, <2>4 DEF LinkOK
  <1>9. CurrentIssueIsOpen'
    BY <1>1, <1>5 DEF LinkOK, CurrentIssueIsOpen
  <1> QED
    BY <1>6, <1>7, <1>8, <1>9 DEF IInv

\* Closing cannot hit an issue that is being linked, and unlinks.
LEMMA CloseStep ==
  ASSUME IInv, UNCHANGED role, NEW p \in Procs, CloseIssue(p)
  PROVE  IInv'
  <1>1. /\ pc[p] = "close" /\ current' = NoIssue /\ GoOn(p, "reread")
        /\ closed' = closed \cup {issue[p]} /\ active' = active \ {issue[p]}
        /\ status' = to[p] /\ UNCHANGED <<created, logged, faults>>
    BY DEF CloseIssue
  <1>2. /\ pc' \in [Procs -> Places]
        /\ req' \in [Procs -> Handlers \cup {"none"}]
        /\ issue' \in [Procs -> Issues \cup {NoIssue}]
        /\ from' \in [Procs -> Statuses]
        /\ to' \in [Procs -> Statuses]
        /\ \A q \in Procs : pc'[q] # "idle" => req'[q] \in Handlers
        /\ \A q \in Procs :
             /\ issue'[q] \in {issue[q], NoIssue}
             /\ pc'[q] \in {"touch", "close", "link"} =>
                  pc'[q] = pc[q] /\ issue'[q] = issue[q]
    <2>1. "reread" \in Places \ {"touch", "close", "link"}
      BY DEF Places
    <2> QED
      BY <1>1, <2>1, GoOnStep DEF IInv
  <1>3. Issues' = Issues /\ issue[p] \in Issues
    BY <1>1 DEF Issues, IInv, PlaceInv, PlaceOK
  <1>4. TypeOK'
    BY <1>1, <1>2, <1>3 DEF IInv, TypeOK
  <1>5. PlaceInv'
    BY <1>1, <1>2, <1>3 DEF IInv, PlaceInv, PlaceOK
  <1>6. LinkInv'
    <2> SUFFICES ASSUME NEW q \in Procs, pc'[q] = "link" PROVE LinkOK(q)'
      BY DEF LinkInv, LinkOK
    <2>1. pc[q] = "link" /\ issue'[q] = issue[q] /\ LinkOK(q)
      BY <1>2 DEF IInv, LinkInv
    <2>2. issue[q] # NoIssue
      BY <2>1 DEF IInv, TypeOK, PlaceInv, PlaceOK, Issues, NoIssue
    <2>3. issue[q] # issue[p]
      BY <1>1, <2>1 DEF LinkOK
    <2> QED
      BY <1>1, <1>2, <2>1, <2>2, <2>3 DEF LinkOK
  <1>7. CurrentIssueIsOpen'
    <2>1. NoIssue \notin Issues
      BY DEF NoIssue, Issues, IInv, TypeOK
    <2> QED
      BY <1>1, <1>3, <2>1 DEF IInv, TypeOK, CurrentIssueIsOpen
  <1> QED
    BY <1>4, <1>5, <1>6, <1>7 DEF IInv

\* Only the status a request will record is read again.
LEMMA RereadStep ==
  ASSUME IInv, UNCHANGED role, NEW p \in Procs, RereadCase(p)
  PROVE  IInv'
  <1>1. Issues' = Issues
    BY DEF RereadCase, dbVars, Issues
  <1>2. TypeOK'
    BY <1>1 DEF RereadCase, dbVars, IInv, TypeOK, Places
  <1>3. PlaceInv'
    BY <1>1 DEF RereadCase, dbVars, IInv, TypeOK, PlaceInv, PlaceOK
  <1>4. LinkInv'
    BY DEF RereadCase, dbVars, IInv, TypeOK, LinkInv, LinkOK
  <1>5. CurrentIssueIsOpen'
    BY DEF RereadCase, dbVars, IInv, CurrentIssueIsOpen
  <1> QED
    BY <1>2, <1>3, <1>4, <1>5 DEF IInv

\* BotPlace touches an issue only if the case has one.
LEMMA BotPlaces ==
  ASSUME NEW s
  PROVE  /\ BotPlace(s) \in Places \ {"link"}
         /\ BotPlace(s) \in {"touch", "close"} => current # NoIssue
  BY DEF BotPlace, Places

\* Reopening reads the case a second time.
LEMMA ReopenStep ==
  ASSUME IInv, UNCHANGED role, NEW p \in Procs, Reopen(p)
  PROVE  IInv'
  <1> DEFINE place == BotPlace("INITIATED")
  <1>1. /\ place \in Places \ {"link"}
        /\ place \in {"touch", "close"} => current # NoIssue
    BY BotPlaces
  <1>2. /\ pc[p] = "reopen" /\ pc' = [pc EXCEPT ![p] = place]
        /\ issue' = [issue EXCEPT ![p] = current]
        /\ from' = [from EXCEPT ![p] = status]
        /\ to' = [to EXCEPT ![p] = "INITIATED"]
        /\ UNCHANGED <<created, closed, active, current, status, logged, req, faults>>
    BY DEF Reopen, dbVars
  <1> HIDE DEF place
  <1>3. Issues' = Issues
    BY <1>2 DEF Issues
  <1>4. TypeOK'
    BY <1>1, <1>2, <1>3 DEF IInv, TypeOK, Statuses
  <1>5. PlaceInv'
    BY <1>1, <1>2, <1>3 DEF IInv, TypeOK, PlaceInv, PlaceOK
  <1>6. LinkInv'
    BY <1>1, <1>2 DEF IInv, TypeOK, LinkInv, LinkOK
  <1>7. CurrentIssueIsOpen'
    BY <1>2 DEF IInv, CurrentIssueIsOpen
  <1> QED
    BY <1>4, <1>5, <1>6, <1>7 DEF IInv

\* A lone createMessage leaves every handler where it is.
LEMMA CreateMessageStep ==
  ASSUME IInv, UNCHANGED role, NEW p \in Procs, CreateMessage(p)
  PROVE  IInv'
  <1>1. EnsureIssue /\ UNCHANGED <<closed, status, logged, pc, req, issue, from, to, faults>>
    BY DEF CreateMessage, localVars
  <1>2. /\ created' \in 0..MaxIssues
        /\ Issues \subseteq Issues'
        /\ active' \subseteq Issues'
        /\ current' \in Issues' \cup {NoIssue}
        /\ current' = current \/ current' \notin Issues
        /\ current' \notin closed
        /\ closed \subseteq Issues'
    BY <1>1, EnsureStep
  <1>3. TypeOK'
    BY <1>1, <1>2 DEF IInv, TypeOK
  <1>4. PlaceInv'
    BY <1>1, <1>2 DEF IInv, PlaceInv, PlaceOK
  <1>5. LinkInv'
    <2> SUFFICES ASSUME NEW q \in Procs, pc[q] = "link" PROVE LinkOK(q)'
      BY <1>1 DEF LinkInv, LinkOK
    <2>1. issue[q] \in Issues /\ LinkOK(q)
      BY DEF IInv, LinkInv, PlaceInv, PlaceOK
    <2> QED
      BY <1>1, <1>2, <2>1 DEF LinkOK
  <1>6. CurrentIssueIsOpen'
    BY <1>1, <1>2 DEF CurrentIssueIsOpen
  <1> QED
    BY <1>3, <1>4, <1>5, <1>6 DEF IInv

\* UpdateCaseStatus changes nothing links rely on; neither does a stutter.
LEMMA StatusOnlyStep ==
  ASSUME IInv, UNCHANGED role, UNCHANGED <<created, closed, active, current, logged, pc, localVars, faults>>,
         status' \in Statuses
  PROVE  IInv'
  BY DEF IInv, TypeOK, PlaceInv, PlaceOK, LinkInv, LinkOK, CurrentIssueIsOpen,
         Issues, localVars

-----------------------------------------------------------------------------
LEMMA LinkingStep ==
  ASSUME IInv, UNCHANGED role, NEW p \in Procs, Linking(p)
  PROVE  IInv'
  <1>0. status \in Statuses /\ faults \in 0..MaxFaults
    BY DEF IInv, TypeOK
  <1>1. CASE CreateIssue(p)
    BY <1>1, CreateStep
  <1>2. CASE LinkIssue(p)
    BY <1>2, LinkStep
  <1>3. CASE CreateMessage(p)
    BY <1>3, CreateMessageStep
  <1>4. CASE NewMessage(p)
    <2>1. "new_message" \in Handlers
      BY DEF Handlers
    <2>2. CASE current = NoIssue
      BY <1>0, <1>4, <2>1, <2>2, BeginKeeps DEF NewMessage, Places
    <2>3. CASE current # NoIssue
      BY <1>0, <1>4, <2>1, <2>3, BeginKeeps DEF NewMessage, Places
    <2> QED
      BY <2>2, <2>3
  <1>5. CASE SendMessage(p)
    BY <1>0, <1>5, EnsureKeeps DEF SendMessage, Places
  <1>6. CASE QuickMessage(p)
    BY <1>0, <1>6, BeginKeeps DEF QuickMessage, Places, Handlers
  <1>7. CASE SendQuickMessage(p)
    <2>1. pc[p] # "idle" /\ NeedsIssue(p) \in Places \ {"touch", "close", "link"}
      BY <1>7, WherePlaces DEF SendQuickMessage, Places, IInv
    <2> QED
      BY <1>0, <1>7, <2>1, EnsureKeeps DEF SendQuickMessage
  <1>8. CASE TemplateMessage(p)
    BY <1>0, <1>8, BeginKeeps DEF TemplateMessage, Places, Handlers
  <1> QED
    BY <1>1, <1>2, <1>3, <1>4, <1>5, <1>6, <1>7, <1>8 DEF Linking

LEMMA StatusChangeStep ==
  ASSUME IInv, UNCHANGED role, NEW p \in Procs, StatusChange(p)
  PROVE  IInv'
  <1>0. /\ status \in Statuses /\ logged \in Statuses /\ to[p] \in Statuses
        /\ faults \in 0..MaxFaults /\ active \subseteq Issues
        /\ Asked \subseteq Statuses
    BY DEF IInv, TypeOK
  <1>1. ASSUME NEW s \in Asked, UserStatus(p, s) PROVE IInv'
    <2>1. "user_status" \in Handlers
      BY DEF Handlers
    <2>2. CASE current = NoIssue
      BY <1>0, <1>1, <2>1, <2>2, BeginKeeps DEF UserStatus, Places
    <2>3. CASE current # NoIssue
      BY <1>0, <1>1, <2>1, <2>3, BeginKeeps DEF UserStatus, Places
    <2> QED
      BY <2>2, <2>3
  <1>2. ASSUME NEW s \in Asked, BotStatus(p, s) PROVE IInv'
    <2>1. "bot_status" \in Handlers
      BY DEF Handlers
    <2> QED
      BY <1>0, <1>2, <2>1, BotPlaces, BeginKeeps DEF BotStatus
  <1>3. ASSUME NEW s \in Asked, UpdateCaseStatus(p, s) PROVE IInv'
    BY <1>0, <1>3, StatusOnlyStep DEF UpdateCaseStatus
  <1>4. CASE TouchIssue(p)
    <2>1. issue[p] \in Issues
      BY <1>4 DEF TouchIssue, IInv, PlaceInv, PlaceOK
    <2> QED
      BY <1>0, <1>4, <2>1, PlainKeeps DEF TouchIssue, Places
  <1>5. CASE SetStatus(p)
    <2> DEFINE place == IF from[p] # to[p] THEN "record" ELSE Ended(p)
    <2>1. place \in Places \ {"touch", "close", "link"}
      BY <1>5, WherePlaces DEF SetStatus, Places, IInv
    <2> QED
      BY <1>0, <1>5, <2>1, PlainKeeps DEF SetStatus
  <1>6. CASE RecordStatusChange(p)
    <2>1. Ended(p) \in Places \ {"touch", "close", "link"}
      BY <1>6, WherePlaces DEF RecordStatusChange, Places, IInv
    <2> QED
      BY <1>0, <1>6, <2>1, PlainKeeps DEF RecordStatusChange
  <1> QED
    BY <1>1, <1>2, <1>3, <1>4, <1>5, <1>6 DEF StatusChange

LEMMA ClosingStep ==
  ASSUME IInv, UNCHANGED role, NEW p \in Procs, Closing(p)
  PROVE  IInv'
  <1>1. ASSUME NEW s \in Asked, UpdateIssue(p, s) PROVE IInv'
    <2>1. s \in Statuses /\ "updateIssue" \in Handlers
      BY DEF Handlers
    <2> QED
      BY <1>1, <2>1, BeginKeeps DEF UpdateIssue, Places
  <1> QED
    BY <1>1, CloseStep, RereadStep DEF Closing

LEMMA IncomingStep ==
  ASSUME IInv, UNCHANGED role, NEW p \in Procs, Incoming(p)
  PROVE  IInv'
  <1>0. status \in Statuses /\ faults \in 0..MaxFaults /\ "INITIATED" \in Statuses
    BY DEF IInv, TypeOK, Statuses
  <1>1. CASE Inbound(p)
    <2>1. PICK s \in Statuses, place \in {"ensure", "welcome", "reopen"} :
            Begin(p, "inbound", s, place)
      BY <1>0, <1>1 DEF Inbound
    <2> QED
      BY <1>1, <2>1, BeginKeeps DEF Inbound, Places, Handlers
  <1>2. CASE EnsureThenReopen(p)
    BY <1>0, <1>2, EnsureKeeps DEF EnsureThenReopen, Places
  <1>3. CASE Reopen(p)
    BY <1>3, ReopenStep
  <1>4. CASE Welcome(p)
    BY <1>0, <1>4, EnsureKeeps DEF Welcome, Places
  <1> QED
    BY <1>1, <1>2, <1>3, <1>4 DEF Incoming

LEMMA FaultStep ==
  ASSUME IInv, UNCHANGED role, NEW p \in Procs, Fault(p)
  PROVE  IInv'
  <1>1. faults' \in 0..MaxFaults
    BY DEF Fault, IInv, TypeOK
  <1>2. AfterFault(p) \in Places \ {"touch", "close", "link"}
    BY WherePlaces DEF Fault, Places, IInv
  <1>3. active \subseteq Issues /\ status \in Statuses /\ logged \in Statuses
    BY DEF IInv, TypeOK
  <1> QED
    BY <1>1, <1>2, <1>3, PlainKeeps DEF Fault, dbVars

LEMMA Inductive == IInv /\ [Next]_vars => IInv'
  <1> SUFFICES ASSUME IInv, [Next]_vars PROVE IInv'
    OBVIOUS
  <1>1. ASSUME NEW p \in Procs, UNCHANGED role,
               Linking(p) \/ StatusChange(p) \/ Closing(p) \/ Incoming(p) \/ Fault(p)
        PROVE  IInv'
    BY <1>1, LinkingStep, StatusChangeStep, ClosingStep, IncomingStep, FaultStep
  <1>2. CASE UNCHANGED vars
    <2>1. status \in Statuses
      BY DEF IInv, TypeOK
    <2> QED
      BY <1>2, <2>1, StatusOnlyStep DEF vars, dbVars
  <1> QED
    BY <1>1, <1>2 DEF Next

-----------------------------------------------------------------------------
\* Every variable keeps its type: ids are ids of existing issues, whatever
\* handlers run at the same time and whichever of their calls fail.
THEOREM TypeCorrect == Spec => []TypeOK
  <1>1. IInv => TypeOK
    BY DEF IInv
  <1> QED
    BY <1>1, InitIInv, Inductive, PTL DEF Spec

\* However many requests interleave and fail, Case.currentIssueId never names
\* an issue that is closed.
THEOREM CurrentIssueStaysOpen == Spec => []CurrentIssueIsOpen
  <1>1. IInv => CurrentIssueIsOpen
    BY DEF IInv
  <1> QED
    BY <1>1, InitIInv, Inductive, PTL DEF Spec

-----------------------------------------------------------------------------
(* Which handler is where, and what a step of it leaves to the others: what *)
(* the invariants of particular settings rest on.                           *)

Writers == {"inbound", "user_status", "bot_status", "updateIssue"}

\* The handlers that reach a place.
Fits(place, h) ==
  /\ h \notin {"bot_message", "case_status"}
  /\ place \in {"create", "link"} => h # "updateIssue"
  /\ place \in {"ensure", "reopen", "welcome"} => h = "inbound"
  /\ place = "send" => h = "quick_msg"
  /\ place = "message" => h = "new_message"
  /\ place = "touch" => h \in {"inbound", "bot_status"}
  /\ place = "set" => h \in {"inbound", "user_status", "bot_status"}
  /\ place \in {"close", "reread"} => h = "updateIssue"
  /\ place = "record" => h \in Writers
ReqInv == \A p \in Procs : pc[p] # "idle" => req[p] \in role[p] /\ Fits(pc[p], req[p])

Same(q) ==
  /\ pc'[q] = pc[q] /\ req'[q] = req[q] /\ issue'[q] = issue[q]
  /\ from'[q] = from[q] /\ to'[q] = to[q]
Alone(p) == \A q \in Procs \ {p} : Same(q)
Kept(p) == req'[p] = req[p] /\ issue'[p] = issue[p] /\ from'[p] = from[p] /\ to'[p] = to[p]

LEMMA BeginMoves ==
  ASSUME TypeOK, NEW p \in Procs, NEW h, NEW s, NEW place, Begin(p, h, s, place)
  PROVE  /\ pc[p] = "idle" /\ h \in role[p] /\ Alone(p)
         /\ pc'[p] = place /\ req'[p] = h /\ issue'[p] = current
         /\ from'[p] = status /\ to'[p] = s
  BY DEF Begin, TypeOK, Alone, Same

LEMMA GoOnMoves ==
  ASSUME TypeOK, NEW p \in Procs, NEW place, GoOn(p, place)
  PROVE  pc'[p] = place /\ Alone(p) /\ (place # "idle" => Kept(p))
  <1>1. CASE place = "idle"
    BY <1>1 DEF GoOn, TypeOK, Alone, Same
  <1>2. CASE place # "idle"
    BY <1>2 DEF GoOn, TypeOK, Alone, Same, Kept, localVars
  <1> QED
    BY <1>1, <1>2

\* The steps that read the case and change nothing of it.
Reads(p) ==
  \/ NewMessage(p) \/ QuickMessage(p) \/ TemplateMessage(p) \/ Inbound(p) \/ Reopen(p)
  \/ \E s \in Asked : UserStatus(p, s) \/ BotStatus(p, s) \/ UpdateIssue(p, s)
\* The transactions that open an issue for a case without one.
Ensures(p) ==
  CreateMessage(p) \/ SendMessage(p) \/ SendQuickMessage(p) \/ EnsureThenReopen(p) \/ Welcome(p)

LEMMA ReadMoves ==
  ASSUME TypeOK, ReqInv, NEW p \in Procs, Reads(p)
  PROVE  /\ Alone(p) /\ UNCHANGED <<created, closed, active, current, status, logged, faults>>
         /\ pc[p] \in {"idle", "reopen"}
         /\ pc'[p] \in {"create", "message", "send", "set", "touch", "close", "ensure", "welcome", "reopen"}
         /\ req'[p] \in role[p] /\ Fits(pc'[p], req'[p])
         /\ pc'[p] = "create" => current = NoIssue
         /\ pc'[p] \in {"touch", "close"} => current # NoIssue
         /\ issue'[p] = current /\ from'[p] = status
  <1>1. CASE NewMessage(p)
    BY <1>1, BeginMoves DEF NewMessage, dbVars, Fits
  <1>2. CASE QuickMessage(p)
    BY <1>2, BeginMoves DEF QuickMessage, dbVars, Fits
  <1>3. CASE TemplateMessage(p)
    BY <1>3, BeginMoves DEF TemplateMessage, dbVars, Fits
  <1>4. CASE Inbound(p)
    <2>0. status \in Statuses /\ "INITIATED" \in Statuses
      BY DEF TypeOK, Statuses
    <2>1. PICK s \in Statuses, place \in {"ensure", "welcome", "reopen"} : Begin(p, "inbound", s, place)
      BY <1>4, <2>0 DEF Inbound
    <2>2. UNCHANGED <<dbVars, faults>>
      BY <1>4 DEF Inbound
    <2> QED
      BY <2>1, <2>2, BeginMoves DEF dbVars, Fits
  <1>5. CASE Reopen(p)
    <2>1. /\ pc[p] = "reopen" /\ req' = req /\ pc' = [pc EXCEPT ![p] = BotPlace("INITIATED")]
          /\ issue' = [issue EXCEPT ![p] = current] /\ from' = [from EXCEPT ![p] = status]
          /\ to' = [to EXCEPT ![p] = "INITIATED"] /\ UNCHANGED <<dbVars, faults>>
      BY <1>5 DEF Reopen
    <2>2. req[p] = "inbound" /\ req[p] \in role[p]
      BY <2>1 DEF ReqInv, Fits
    <2>3. BotPlace("INITIATED") = IF current = NoIssue THEN "create" ELSE "touch"
      BY DEF BotPlace
    <2> QED
      BY <2>1, <2>2, <2>3 DEF TypeOK, Alone, Same, Fits, dbVars
  <1>6. CASE \E s \in Asked : UserStatus(p, s)
    <2>1. PICK s \in Asked : UserStatus(p, s)
      BY <1>6
    <2>2. CASE current = NoIssue
      BY <2>1, <2>2, BeginMoves DEF UserStatus, dbVars, Fits
    <2>3. CASE current # NoIssue
      BY <2>1, <2>3, BeginMoves DEF UserStatus, dbVars, Fits
    <2> QED
      BY <2>2, <2>3
  <1>7. CASE \E s \in Asked : BotStatus(p, s)
    <2>1. PICK s \in Asked : BotStatus(p, s)
      BY <1>7
    <2>2. /\ BotPlace(s) \in {"set", "create", "touch"}
          /\ BotPlace(s) = "create" => current = NoIssue
          /\ BotPlace(s) = "touch" => current # NoIssue
      BY DEF BotPlace
    <2> QED
      BY <2>1, <2>2, BeginMoves DEF BotStatus, dbVars, Fits
  <1>8. CASE \E s \in Asked : UpdateIssue(p, s)
    BY <1>8, BeginMoves DEF UpdateIssue, dbVars, Fits
  <1> QED
    BY <1>1, <1>2, <1>3, <1>4, <1>5, <1>6, <1>7, <1>8 DEF Reads

LEMMA EnsureMoves ==
  ASSUME TypeOK, PlaceInv, ReqInv, NEW p \in Procs, Ensures(p)
  PROVE  /\ Alone(p) /\ EnsureIssue /\ UNCHANGED <<closed, status, logged, faults>>
         /\ \/ /\ pc[p] = "idle" /\ pc'[p] = "idle" /\ "bot_message" \in role[p]
            \/ /\ pc[p] \in {"message", "ensure", "welcome"} /\ pc'[p] \in {"idle", "reopen"}
               /\ req'[p] = req[p] \/ pc'[p] = "idle"
               /\ pc'[p] = "reopen" => req[p] = "inbound"
            \/ /\ pc[p] = "send" /\ req[p] = "quick_msg" /\ pc'[p] \in {"idle", "create"}
               /\ req'[p] = req[p] \/ pc'[p] = "idle"
  <1>1. CASE CreateMessage(p)
    BY <1>1 DEF CreateMessage, localVars, Alone, Same
  <1>2. CASE SendMessage(p)
    BY <1>2, GoOnMoves DEF SendMessage
  <1>3. CASE SendQuickMessage(p)
    <2>1. req[p] = "quick_msg" /\ "quick_msg" \in Handlers
      BY <1>3 DEF SendQuickMessage, ReqInv, Fits, Handlers
    <2>2. NeedsIssue(p) \in {"idle", "create"}
      BY <2>1 DEF NeedsIssue, WithIssue
    <2> QED
      BY <1>3, <2>1, <2>2, GoOnMoves DEF SendQuickMessage, Kept
  <1>4. CASE EnsureThenReopen(p)
    BY <1>4, GoOnMoves DEF EnsureThenReopen, Kept, ReqInv, Fits
  <1>5. CASE Welcome(p)
    BY <1>5, GoOnMoves DEF Welcome
  <1> QED
    BY <1>1, <1>2, <1>3, <1>4, <1>5 DEF Ensures

LEMMA LinkMoves ==
  ASSUME TypeOK, PlaceInv, ReqInv, NEW p \in Procs, LinkIssue(p)
  PROVE  /\ Alone(p) /\ pc[p] = "link" /\ current' = issue[p]
         /\ pc'[p] \in {"message", "set", "idle"} /\ (pc'[p] # "idle" => Kept(p))
         /\ pc'[p] # "idle" => Fits(pc'[p], req[p])
         /\ UNCHANGED <<created, closed, active, status, logged, faults>>
  <1>1. pc[p] = "link" /\ req[p] \in Handlers
    BY DEF LinkIssue, PlaceInv, PlaceOK
  <1>2. /\ WithIssue[req[p]] \in {"message", "set", "idle"}
        /\ WithIssue[req[p]] # "idle" => Fits(WithIssue[req[p]], req[p])
    BY <1>1 DEF WithIssue, Fits, ReqInv
  <1> QED
    BY <1>1, <1>2, GoOnMoves DEF LinkIssue

LEMMA CreateMoves ==
  ASSUME TypeOK, NEW p \in Procs, CreateIssue(p)
  PROVE  /\ Alone(p) /\ OpenIssue /\ pc[p] = "create" /\ pc'[p] = "link" /\ issue'[p] = created + 1
         /\ UNCHANGED <<closed, current, status, logged, req, from, to, faults>>
  BY DEF CreateIssue, TypeOK, Alone, Same

LEMMA SetMoves ==
  ASSUME TypeOK, ReqInv, NEW p \in Procs, SetStatus(p)
  PROVE  /\ Alone(p) /\ pc[p] = "set" /\ status' = to[p]
         /\ UNCHANGED <<created, closed, active, current, logged, faults>>
         /\ \/ from[p] # to[p] /\ pc'[p] = "record" /\ Kept(p)
            \/ from[p] = to[p] /\ pc'[p] = "idle"
            \/ from[p] = to[p] /\ pc'[p] = "welcome" /\ Kept(p) /\ req[p] = "inbound"
  BY GoOnMoves DEF SetStatus, Ended

LEMMA RecordMoves ==
  ASSUME TypeOK, NEW p \in Procs, RecordStatusChange(p)
  PROVE  /\ Alone(p) /\ pc[p] = "record" /\ logged' = to[p]
         /\ UNCHANGED <<created, closed, active, current, status, faults>>
         /\ \/ pc'[p] = "idle"
            \/ pc'[p] = "welcome" /\ Kept(p) /\ req[p] = "inbound"
  BY GoOnMoves DEF RecordStatusChange, Ended

LEMMA TouchMoves ==
  ASSUME TypeOK, ReqInv, NEW p \in Procs, TouchIssue(p)
  PROVE  /\ Alone(p) /\ pc[p] = "touch" /\ pc'[p] = "set" /\ Kept(p)
         /\ active' = active \cup {issue[p]} /\ req[p] \in {"inbound", "bot_status"}
         /\ UNCHANGED <<created, closed, current, status, logged, faults>>
  BY GoOnMoves DEF TouchIssue, ReqInv, Fits

LEMMA CloseMoves ==
  ASSUME TypeOK, ReqInv, NEW p \in Procs, CloseIssue(p)
  PROVE  /\ Alone(p) /\ pc[p] = "close" /\ pc'[p] = "reread" /\ Kept(p) /\ req[p] = "updateIssue"
         /\ closed' = closed \cup {issue[p]} /\ active' = active \ {issue[p]}
         /\ current' = NoIssue /\ status' = to[p] /\ UNCHANGED <<created, logged, faults>>
  BY GoOnMoves DEF CloseIssue, ReqInv, Fits

LEMMA RereadMoves ==
  ASSUME TypeOK, NEW p \in Procs, RereadCase(p)
  PROVE  /\ Alone(p) /\ pc[p] = "reread" /\ pc'[p] = "record" /\ to'[p] = status
         /\ UNCHANGED <<created, closed, active, current, status, logged, req, issue, from, faults>>
  BY DEF RereadCase, dbVars, TypeOK, Alone, Same

LEMMA FaultMoves ==
  ASSUME TypeOK, PlaceInv, ReqInv, NEW p \in Procs, Fault(p)
  PROVE  /\ Alone(p) /\ pc[p] # "idle" /\ faults' = faults + 1
         /\ UNCHANGED <<created, closed, active, current, status, logged>>
         /\ \/ pc'[p] = "idle"
            \/ pc'[p] = "create" /\ pc[p] = "send" /\ Kept(p)
            \/ pc'[p] = "welcome" /\ Kept(p) /\ req[p] = "inbound"
  <1>1. AfterFault(p) \in {"idle", "create", "welcome"}
    <2>1. CASE pc[p] = "send"
      <3>1. req[p] = "quick_msg" /\ "quick_msg" \in Handlers
        BY <2>1 DEF ReqInv, Fits, Handlers
      <3> QED
        BY <2>1, <3>1 DEF AfterFault, NeedsIssue, WithIssue
    <2>2. CASE pc[p] # "send"
      BY <2>2 DEF AfterFault, Ended
    <2> QED
      BY <2>1, <2>2
  <1>2. /\ AfterFault(p) = "create" => pc[p] = "send"
        /\ AfterFault(p) = "welcome" /\ pc[p] # "send" => req[p] = "inbound"
    BY DEF AfterFault, Ended
  <1>3. AfterFault(p) = "welcome" => pc[p] # "send"
    <2> SUFFICES ASSUME pc[p] = "send" PROVE AfterFault(p) # "welcome"
      OBVIOUS
    <2>1. req[p] = "quick_msg" /\ "quick_msg" \in Handlers
      BY DEF ReqInv, Fits, Handlers
    <2> QED
      BY <2>1 DEF AfterFault, NeedsIssue, WithIssue
  <1> QED
    BY <1>1, <1>2, <1>3, GoOnMoves DEF Fault, dbVars

LEMMA NextCases ==
  ASSUME Next
  PROVE  /\ UNCHANGED role
         /\ \E p \in Procs :
              \/ Reads(p) \/ Ensures(p) \/ CreateIssue(p) \/ LinkIssue(p)
              \/ SetStatus(p) \/ RecordStatusChange(p) \/ TouchIssue(p)
              \/ (\E s \in Asked : UpdateCaseStatus(p, s))
              \/ CloseIssue(p) \/ RereadCase(p) \/ Fault(p)
  BY DEF Next, Linking, StatusChange, Closing, Incoming, Reads, Ensures

LEMMA ReqStep ==
  ASSUME TypeOK, PlaceInv, ReqInv, [Next]_vars
  PROVE  ReqInv'
  <1>1. CASE UNCHANGED vars
    BY <1>1 DEF vars, localVars, ReqInv
  <1>2. CASE Next
    <2>1. PICK p \in Procs :
            \/ Reads(p) \/ Ensures(p) \/ CreateIssue(p) \/ LinkIssue(p)
            \/ SetStatus(p) \/ RecordStatusChange(p) \/ TouchIssue(p)
            \/ (\E s \in Asked : UpdateCaseStatus(p, s))
            \/ CloseIssue(p) \/ RereadCase(p) \/ Fault(p)
      BY <1>2, NextCases
    <2>2. role' = role
      BY <1>2, NextCases
    <2>3. Alone(p) /\ (pc'[p] # "idle" => req'[p] \in role[p] /\ Fits(pc'[p], req'[p]))
      <3>1. pc[p] # "idle" => req[p] \in role[p] /\ Fits(pc[p], req[p])
        BY DEF ReqInv
      <3>2. CASE Reads(p)
        BY <3>2, ReadMoves
      <3>3. CASE Ensures(p)
        BY <3>1, <3>3, EnsureMoves DEF Fits
      <3>4. CASE CreateIssue(p)
        BY <3>1, <3>4, CreateMoves DEF Fits
      <3>5. CASE LinkIssue(p)
        BY <3>1, <3>5, LinkMoves DEF Kept
      <3>6. CASE SetStatus(p)
        BY <3>1, <3>6, SetMoves DEF Kept, Fits, Writers
      <3>7. CASE RecordStatusChange(p)
        BY <3>1, <3>7, RecordMoves DEF Kept, Fits
      <3>8. CASE TouchIssue(p)
        BY <3>1, <3>8, TouchMoves DEF Kept, Fits
      <3>9. CASE \E s \in Asked : UpdateCaseStatus(p, s)
        BY <3>1, <3>9 DEF UpdateCaseStatus, localVars, Alone, Same
      <3>10. CASE CloseIssue(p)
        BY <3>1, <3>10, CloseMoves DEF Kept, Fits
      <3>11. CASE RereadCase(p)
        BY <3>1, <3>11, RereadMoves DEF Fits, Writers
      <3>12. CASE Fault(p)
        BY <3>1, <3>12, FaultMoves DEF Kept, Fits
      <3> QED
        BY <2>1, <3>2, <3>3, <3>4, <3>5, <3>6, <3>7, <3>8, <3>9, <3>10, <3>11, <3>12
    <2> QED
      BY <2>2, <2>3 DEF ReqInv, Alone, Same
  <1> QED
    BY <1>1, <1>2

LEMMA InitReq == Init => ReqInv
  BY DEF Init, ReqInv

LEMMA HandlersKnown == Spec => [](IInv /\ ReqInv)
  <1>1. IInv => TypeOK /\ PlaceInv
    BY DEF IInv
  <1> QED
    BY <1>1, InitIInv, Inductive, InitReq, ReqStep, PTL DEF Spec

-----------------------------------------------------------------------------
(* The log of the statuses *)

LogSetting == AtMostOne(Writers) /\ Nobody({"case_status"})

\* While nothing failed: what is about to be recorded is the status, a handler on its
\* way to a status change has read the present one, and if nothing is about to be
\* recorded the log is right.
LogInv ==
  LogSetting /\ faults = 0 =>
    /\ \A p \in Procs : pc[p] = "record" => to[p] = status
    /\ \A p \in Procs : pc[p] \in {"create", "link", "touch", "set"} /\ req[p] \in Writers => from[p] = status
    /\ (\A p \in Procs : pc[p] \notin {"reread", "record"}) => logged = status

\* Two handlers of a kind at most one process runs are one.
LEMMA OneRuns ==
  ASSUME NEW H, AtMostOne(H), ReqInv, NEW p \in Procs, NEW q \in Procs,
         pc[p] # "idle", pc[q] # "idle", req[p] \in H, req[q] \in H
  PROVE  p = q
  BY DEF AtMostOne, ReqInv

LEMMA LogStep ==
  ASSUME IInv, ReqInv, LogInv, [Next]_vars
  PROVE  LogInv'
  <1>0. TypeOK /\ PlaceInv
    BY DEF IInv
  <1>1. CASE UNCHANGED vars
    BY <1>1 DEF vars, dbVars, localVars, LogInv, LogSetting, AtMostOne, Nobody
  <1>2. CASE Next
    <2>1. PICK p \in Procs :
            \/ Reads(p) \/ Ensures(p) \/ CreateIssue(p) \/ LinkIssue(p)
            \/ SetStatus(p) \/ RecordStatusChange(p) \/ TouchIssue(p)
            \/ (\E s \in Asked : UpdateCaseStatus(p, s))
            \/ CloseIssue(p) \/ RereadCase(p) \/ Fault(p)
      BY <1>2, NextCases
    <2>2. role' = role
      BY <1>2, NextCases
    <2>3. SUFFICES ASSUME LogSetting, faults' = 0
                   PROVE  /\ \A q \in Procs : pc'[q] = "record" => to'[q] = status'
                          /\ \A q \in Procs : pc'[q] \in {"create", "link", "touch", "set"} /\ req'[q] \in Writers
                                             => from'[q] = status'
                          /\ (\A q \in Procs : pc'[q] \notin {"reread", "record"}) => logged' = status'
      BY <2>2 DEF LogInv, LogSetting, AtMostOne, Nobody
    <2>4. ~Fault(p)
      <3>1. faults \in Nat
        BY <1>0 DEF TypeOK
      <3> QED
        BY <2>3, <3>1 DEF Fault
    <2>5. faults = 0
      <3>1. CASE Reads(p)
        BY <1>0, <2>3, <3>1, ReadMoves
      <3>2. CASE Ensures(p)
        BY <1>0, <2>3, <3>2, EnsureMoves
      <3> QED
        BY <2>1, <2>3, <2>4, <3>1, <3>2 DEF CreateIssue, LinkIssue, SetStatus, RecordStatusChange,
           TouchIssue, UpdateCaseStatus, CloseIssue, RereadCase
    <2>6. /\ \A q \in Procs : pc[q] = "record" => to[q] = status
          /\ \A q \in Procs : pc[q] \in {"create", "link", "touch", "set"} /\ req[q] \in Writers => from[q] = status
          /\ (\A q \in Procs : pc[q] \notin {"reread", "record"}) => logged = status
      BY <2>3, <2>5 DEF LogInv
    <2>7. \A q \in Procs : pc[q] \in {"touch", "set", "close", "reread", "record"} => req[q] \in Writers
      BY DEF ReqInv, Fits, Writers
    <2>8. ASSUME pc[p] \in {"set", "close", "reread", "record"}, NEW q \in Procs, q # p
          PROVE  pc[q] = "idle" \/ req[q] \notin Writers
      BY <2>3, <2>7, <2>8, OneRuns DEF LogSetting
    \* A step that neither changes nor records a status.
    <2>9. ASSUME Alone(p), status' = status, logged' = logged,
                 pc[p] \notin {"reread", "record"}, pc'[p] \notin {"reread", "record"},
                 pc'[p] \in {"create", "link", "touch", "set"} /\ req'[p] \in Writers => from'[p] = status
          PROVE  /\ \A q \in Procs : pc'[q] = "record" => to'[q] = status'
                 /\ \A q \in Procs : pc'[q] \in {"create", "link", "touch", "set"} /\ req'[q] \in Writers
                                    => from'[q] = status'
                 /\ (\A q \in Procs : pc'[q] \notin {"reread", "record"}) => logged' = status'
      BY <2>6, <2>9 DEF Alone, Same
    <2>10. CASE Reads(p)
      BY <1>0, <2>9, <2>10, ReadMoves
    <2>11. CASE Ensures(p)
      BY <1>0, <2>9, <2>11, EnsureMoves DEF Writers
    <2>12. CASE CreateIssue(p)
      BY <1>0, <2>6, <2>9, <2>12, CreateMoves
    <2>13. CASE LinkIssue(p)
      BY <1>0, <2>6, <2>9, <2>13, LinkMoves DEF Kept
    <2>14. CASE TouchIssue(p)
      BY <1>0, <2>6, <2>9, <2>14, TouchMoves DEF Kept
    <2>15. CASE SetStatus(p)
      <3>1. /\ Alone(p) /\ pc[p] = "set" /\ status' = to[p] /\ logged' = logged
            /\ \/ from[p] # to[p] /\ pc'[p] = "record" /\ Kept(p)
               \/ from[p] = to[p] /\ pc'[p] \in {"idle", "welcome"}
        BY <1>0, <2>15, SetMoves
      <3>2. \A q \in Procs : q # p => pc[q] \notin {"touch", "set", "close", "reread", "record"}
        BY <2>7, <2>8, <3>1
      <3>3. from[p] = status
        BY <2>6, <2>7, <3>1
      <3>4. \A q \in Procs : q # p => ~(pc[q] \in {"create", "link", "touch", "set"} /\ req[q] \in Writers)
        BY <2>8, <3>1
      <3>5. logged = status
        BY <2>6, <3>1, <3>2
      <3> QED
        BY <3>1, <3>2, <3>3, <3>4, <3>5 DEF Alone, Same, Kept
    <2>16. CASE RecordStatusChange(p)
      <3>1. /\ Alone(p) /\ pc[p] = "record" /\ logged' = to[p] /\ status' = status
            /\ pc'[p] \in {"idle", "welcome"}
        BY <1>0, <2>16, RecordMoves
      <3>2. to[p] = status
        BY <2>6, <3>1
      <3> QED
        BY <2>6, <3>1, <3>2 DEF Alone, Same
    <2>17. CASE \E s \in Asked : UpdateCaseStatus(p, s)
      BY <2>3, <2>17 DEF UpdateCaseStatus, LogSetting, Nobody
    <2>18. CASE CloseIssue(p)
      <3>1. /\ Alone(p) /\ pc[p] = "close" /\ pc'[p] = "reread" /\ status' = to[p] /\ logged' = logged
        BY <1>0, <2>18, CloseMoves
      <3>2. \A q \in Procs : q # p => pc[q] \notin {"touch", "set", "close", "reread", "record"}
        BY <2>7, <2>8, <3>1
      <3>3. \A q \in Procs : q # p => ~(pc[q] \in {"create", "link", "touch", "set"} /\ req[q] \in Writers)
        BY <2>8, <3>1
      <3> QED
        BY <3>1, <3>2, <3>3 DEF Alone, Same
    <2>19. CASE RereadCase(p)
      <3>1. /\ Alone(p) /\ pc[p] = "reread" /\ pc'[p] = "record" /\ to'[p] = status
            /\ UNCHANGED <<status, logged>>
        BY <1>0, <2>19, RereadMoves
      <3> QED
        BY <2>6, <3>1 DEF Alone, Same
    <2> QED
      BY <2>1, <2>4, <2>10, <2>11, <2>12, <2>13, <2>14, <2>15, <2>16, <2>17, <2>18, <2>19
  <1> QED
    BY <1>1, <1>2

\* As long as one process changes the status and nothing failed, the last StatusEvent
\* shows the status of the case whenever nothing runs, whatever the others do.
THEOREM LogShowsStatus == Spec => []StatusLogAgrees
  <1>1. Init => LogInv
    BY DEF Init, LogInv
  <1>2. LogInv => StatusLogAgrees
    BY DEF LogInv, LogSetting, Writers, StatusLogAgrees, Quiet
  <1> QED
    BY <1>1, <1>2, HandlersKnown, LogStep, PTL DEF Spec

-----------------------------------------------------------------------------
(* Closed issues are not active *)

Closers == {"inbound", "bot_status", "updateIssue"}

\* The bot path marks an issue it read while it was open: only the process that runs
\* the bot path closes issues.
ActiveInv ==
  AtMostOne(Closers) =>
    /\ active \cap closed = {}
    /\ \A p \in Procs : pc[p] = "touch" => issue[p] \notin closed

LEMMA ActiveStep ==
  ASSUME IInv, ReqInv, ActiveInv, [Next]_vars
  PROVE  ActiveInv'
  <1>0. TypeOK /\ PlaceInv
    BY DEF IInv
  <1>1. CASE UNCHANGED vars
    BY <1>1 DEF vars, dbVars, localVars, ActiveInv, AtMostOne
  <1>2. CASE Next
    <2>1. PICK p \in Procs :
            \/ Reads(p) \/ Ensures(p) \/ CreateIssue(p) \/ LinkIssue(p)
            \/ SetStatus(p) \/ RecordStatusChange(p) \/ TouchIssue(p)
            \/ (\E s \in Asked : UpdateCaseStatus(p, s))
            \/ CloseIssue(p) \/ RereadCase(p) \/ Fault(p)
      BY <1>2, NextCases
    <2>2. role' = role
      BY <1>2, NextCases
    <2>3. SUFFICES ASSUME AtMostOne(Closers)
                   PROVE  /\ active' \cap closed' = {}
                          /\ \A q \in Procs : pc'[q] = "touch" => issue'[q] \notin closed'
      BY <2>2 DEF ActiveInv, AtMostOne
    <2>4. active \cap closed = {} /\ \A q \in Procs : pc[q] = "touch" => issue[q] \notin closed
      BY <2>3 DEF ActiveInv
    <2>5. created + 1 \notin closed
      <3>1. created \in Nat /\ closed \subseteq 1..created
        BY <1>0 DEF TypeOK, Issues
      <3> QED
        BY <3>1
    \* A step that closes nothing.
    <2>6. ASSUME Alone(p), closed' = closed, active' \cap closed = {},
                 pc'[p] = "touch" => issue'[p] \notin closed
          PROVE  /\ active' \cap closed' = {}
                 /\ \A q \in Procs : pc'[q] = "touch" => issue'[q] \notin closed'
      BY <2>4, <2>6 DEF Alone, Same
    <2>7. EnsureIssue => active' \cap closed = {}
      BY <2>4, <2>5 DEF EnsureIssue, OpenIssue
    <2>8. CASE Reads(p)
      BY <1>0, <2>4, <2>6, <2>8, ReadMoves DEF IInv, CurrentIssueIsOpen
    <2>9. CASE Ensures(p)
      <3>1. pc'[p] \in {"idle", "reopen", "create"} /\ Alone(p) /\ closed' = closed /\ EnsureIssue
        BY <1>0, <2>9, EnsureMoves
      <3> QED
        BY <2>6, <2>7, <3>1
    <2>10. CASE CreateIssue(p)
      BY <1>0, <2>4, <2>5, <2>6, <2>10, CreateMoves DEF OpenIssue
    <2>11. CASE LinkIssue(p)
      BY <1>0, <2>4, <2>6, <2>11, LinkMoves
    <2>12. CASE SetStatus(p)
      BY <1>0, <2>4, <2>6, <2>12, SetMoves
    <2>13. CASE RecordStatusChange(p)
      BY <1>0, <2>4, <2>6, <2>13, RecordMoves
    <2>14. CASE TouchIssue(p)
      BY <1>0, <2>4, <2>6, <2>14, TouchMoves
    <2>15. CASE \E s \in Asked : UpdateCaseStatus(p, s)
      BY <2>4, <2>15 DEF UpdateCaseStatus, localVars
    <2>16. CASE CloseIssue(p)
      <3>1. /\ Alone(p) /\ pc[p] = "close" /\ pc'[p] = "reread" /\ req[p] = "updateIssue"
            /\ closed' = closed \cup {issue[p]} /\ active' = active \ {issue[p]}
        BY <1>0, <2>16, CloseMoves
      <3>2. \A q \in Procs : pc[q] # "touch"
        <4>1. ASSUME NEW q \in Procs, pc[q] = "touch" PROVE q = p
          <5>1. req[q] \in Closers /\ req[p] \in Closers
            BY <3>1, <4>1 DEF ReqInv, Fits, Closers
          <5> QED
            BY <2>3, <3>1, <4>1, <5>1, OneRuns
        <4> QED
          BY <3>1, <4>1
      <3> QED
        BY <2>4, <3>1, <3>2 DEF Alone, Same
    <2>17. CASE RereadCase(p)
      BY <1>0, <2>4, <2>6, <2>17, RereadMoves
    <2>18. CASE Fault(p)
      BY <1>0, <2>4, <2>6, <2>18, FaultMoves
    <2> QED
      BY <2>1, <2>8, <2>9, <2>10, <2>11, <2>12, <2>13, <2>14, <2>15, <2>16, <2>17, <2>18
  <1> QED
    BY <1>1, <1>2

\* If issues are closed by the process that also runs the bot path, no closed issue is
\* marked active again, whatever else runs and fails.
THEOREM ActiveIssuesAreOpen == Spec => []ActiveIsOpen
  <1>1. Init => ActiveInv
    BY DEF Init, ActiveInv
  <1>2. ActiveInv => ActiveIsOpen
    BY DEF ActiveInv, Closers, ActiveIsOpen
  <1> QED
    BY <1>1, <1>2, HandlersKnown, ActiveStep, PTL DEF Spec

-----------------------------------------------------------------------------
(* Orphans *)

Orphans == Open \ (BeingLinked \cup {current})
Setting == OneAtATime \/ Transactional

\* Nothing comes between the read of the current issue and what is done on it, and
\* every issue that is neither current nor about to be has been paid for by a fault.
OrphanInv ==
  Setting =>
    /\ \A p \in Procs : pc[p] \in {"create", "link"} => current = NoIssue
    /\ \A p \in Procs : pc[p] = "close" => issue[p] = current
    /\ Cardinality(Orphans) <= faults

\* In these settings at most one handler is under way, and nothing happens beside it but
\* for transactions beside an updateIssue.
LEMMA OneUnderWay ==
  ASSUME Setting, TypeOK, ReqInv, PlaceInv, NEW p \in Procs, pc[p] # "idle"
  PROVE  /\ pc[p] # "send"
         /\ \A q \in Procs : pc[q] # "idle" => q = p
         /\ \A q \in Procs : pc[q] = "idle" /\ role[q] # {} => req[p] = "updateIssue"
  <1>1. /\ \A q \in Procs : role[q] \subseteq Handlers
        /\ \A q \in Procs : pc[q] # "idle" => req[q] \in role[q] /\ Fits(pc[q], req[q])
    BY DEF ReqInv, TypeOK
  <1>2. CASE OneAtATime
    <2>1. \A q, r \in Procs : role[q] # {} /\ role[r] # {} => q = r
      BY <1>1, <1>2 DEF OneAtATime, AtMostOne
    <2>2. pc[p] # "send"
      BY <1>1, <1>2 DEF OneAtATime, Nobody, Fits
    <2> QED
      BY <1>1, <2>1, <2>2
  <1>3. CASE Transactional
    <2>1. \A q \in Procs : pc[q] # "idle" => req[q] = "updateIssue"
      BY <1>1, <1>3 DEF Transactional, Nobody, Fits
    <2>2. \A q \in Procs : pc[q] # "idle" => q = p
      BY <1>3, <2>1, OneRuns DEF Transactional
    <2> QED
      BY <1>1, <2>1, <2>2 DEF Fits
  <1> QED
    BY <1>2, <1>3 DEF Setting

LEMMA LinkedIssues == ASSUME NEW x PROVE x \in BeingLinked <=> \E q \in Procs : pc[q] = "link" /\ issue[q] = x
  BY DEF BeingLinked

\* Fewer orphans, or one more.
LEMMA OrphanCount ==
  ASSUME TypeOK, TypeOK'
  PROVE  /\ Cardinality(Orphans) \in Nat /\ Cardinality(Orphans') \in Nat
         /\ Orphans' \subseteq Orphans => Cardinality(Orphans') <= Cardinality(Orphans)
         /\ \A x : Orphans' \subseteq Orphans \cup {x} => Cardinality(Orphans') <= Cardinality(Orphans) + 1
  <1>1. IsFiniteSet(Orphans) /\ IsFiniteSet(Orphans')
    <2>1. created \in Nat /\ created' \in Nat
      BY DEF TypeOK
    <2>2. IsFiniteSet(1..created) /\ IsFiniteSet(1..created')
      BY <2>1, FS_Interval
    <2>3. Orphans \subseteq 1..created /\ Orphans' \subseteq 1..created'
      BY DEF Orphans, Open, Issues
    <2> QED
      BY <2>2, <2>3, FS_Subset
  <1>2. Cardinality(Orphans) \in Nat /\ Cardinality(Orphans') \in Nat
    BY <1>1, FS_CardinalityType
  <1>3. Orphans' \subseteq Orphans => Cardinality(Orphans') <= Cardinality(Orphans)
    BY <1>1, FS_Subset
  <1>4. ASSUME NEW x, Orphans' \subseteq Orphans \cup {x}
        PROVE  Cardinality(Orphans') <= Cardinality(Orphans) + 1
    <2>1. /\ IsFiniteSet(Orphans \cup {x})
          /\ Cardinality(Orphans \cup {x}) = Cardinality(Orphans) \/ Cardinality(Orphans \cup {x}) = Cardinality(Orphans) + 1
      BY <1>1, FS_AddElement
    <2>2. Cardinality(Orphans') <= Cardinality(Orphans \cup {x})
      BY <1>4, <2>1, FS_Subset
    <2> QED
      BY <1>2, <2>1, <2>2
  <1> QED
    BY <1>2, <1>3, <1>4

LEMMA OrphanStep ==
  ASSUME IInv, IInv', ReqInv, OrphanInv, [Next]_vars
  PROVE  OrphanInv'
  <1>0. TypeOK /\ PlaceInv /\ TypeOK'
    BY DEF IInv
  <1>1. CASE UNCHANGED vars
    BY <1>1 DEF vars, dbVars, localVars, OrphanInv, Setting, OneAtATime, Transactional,
                AtMostOne, Nobody, Orphans, Open, Issues, BeingLinked
  <1>2. CASE Next
    <2>1. PICK p \in Procs :
            \/ Reads(p) \/ Ensures(p) \/ CreateIssue(p) \/ LinkIssue(p)
            \/ SetStatus(p) \/ RecordStatusChange(p) \/ TouchIssue(p)
            \/ (\E s \in Asked : UpdateCaseStatus(p, s))
            \/ CloseIssue(p) \/ RereadCase(p) \/ Fault(p)
      BY <1>2, NextCases
    <2>2. role' = role
      BY <1>2, NextCases
    <2> DEFINE Goal == /\ \A q \in Procs : pc'[q] \in {"create", "link"} => current' = NoIssue
                       /\ \A q \in Procs : pc'[q] = "close" => issue'[q] = current'
                       /\ Cardinality(Orphans') <= faults'
    <2>3. SUFFICES ASSUME Setting PROVE Goal
      BY <2>2 DEF OrphanInv, Setting, OneAtATime, Transactional, AtMostOne, Nobody
    <2>4. /\ \A q \in Procs : pc[q] \in {"create", "link"} => current = NoIssue
          /\ \A q \in Procs : pc[q] = "close" => issue[q] = current
          /\ Cardinality(Orphans) <= faults
      BY <2>3 DEF OrphanInv
    <2>5. pc[p] # "idle" => pc[p] # "send" /\ \A q \in Procs : pc[q] # "idle" => q = p
      BY <1>0, <2>3, OneUnderWay
    <2>6. faults \in Nat /\ faults' \in Nat /\ created \in Nat /\ NoIssue \notin Issues
      BY <1>0 DEF TypeOK, NoIssue, Issues
    \* A step that leaves issues and links alone.
    <2>7. ASSUME Alone(p), UNCHANGED <<created, closed, current, faults>>, pc[p] # "link",
                 pc'[p] \in {"create", "link"} => current = NoIssue,
                 pc'[p] = "close" => issue'[p] = current
          PROVE  Goal
      <3>1. /\ \A q \in Procs : pc'[q] \in {"create", "link"} => current' = NoIssue
            /\ \A q \in Procs : pc'[q] = "close" => issue'[q] = current'
        BY <2>4, <2>7 DEF Alone, Same
      <3>2. \A q \in Procs : pc[q] = "link" => pc'[q] = "link" /\ issue'[q] = issue[q]
        BY <2>7 DEF Alone, Same
      <3>3. Orphans' \subseteq Orphans
        BY <2>7, <3>2, LinkedIssues DEF Orphans, Open, Issues, BeingLinked
      <3>4. Cardinality(Orphans') <= faults'
        BY <1>0, <2>4, <2>6, <2>7, <3>3, OrphanCount
      <3> QED
        BY <3>1, <3>4
    <2>8. CASE Reads(p)
      BY <1>0, <2>7, <2>8, ReadMoves
    <2>9. CASE Ensures(p)
      <3>1. /\ Alone(p) /\ EnsureIssue /\ UNCHANGED <<closed, faults>>
            /\ pc[p] \notin {"create", "link"} /\ pc'[p] \notin {"create", "link", "close"}
            /\ pc[p] = "idle" => role[p] # {}
        BY <1>0, <2>5, <2>9, EnsureMoves
      <3>2. CASE current # NoIssue
        BY <2>7, <3>1, <3>2 DEF EnsureIssue
      <3>3. CASE current = NoIssue
        <4>1. created' = created + 1 /\ current' = created + 1
          BY <3>1, <3>3 DEF EnsureIssue, OpenIssue
        <4>2. \A q \in Procs : pc'[q] \notin {"create", "link", "close"}
          <5>1. ASSUME NEW q \in Procs, q # p, pc[q] \in {"create", "link", "close"} PROVE FALSE
            <6>1. pc[p] = "idle" /\ pc[q] # "idle"
              BY <2>5, <5>1
            <6>2. req[q] = "updateIssue"
              BY <1>0, <2>3, <3>1, <6>1, OneUnderWay
            <6>3. pc[q] = "close"
              BY <5>1, <6>2 DEF ReqInv, Fits
            <6> QED
              BY <1>0, <2>4, <2>6, <3>3, <6>3 DEF PlaceInv, PlaceOK
          <5> QED
            BY <3>1, <5>1 DEF Alone, Same
        <4>3. BeingLinked \subseteq BeingLinked'
          <5>1. \A q \in Procs : pc[q] = "link" => pc'[q] = "link" /\ issue'[q] = issue[q]
            BY <3>1 DEF Alone, Same
          <5> QED
            BY <5>1 DEF BeingLinked
        <4>4. Issues' \subseteq Issues \cup {created + 1}
          BY <2>6, <4>1 DEF Issues
        <4>5. Orphans' \subseteq Orphans
          BY <2>6, <3>1, <3>3, <4>1, <4>3, <4>4 DEF Orphans, Open
        <4>6. Cardinality(Orphans') <= faults'
          BY <1>0, <2>4, <2>6, <3>1, <4>5, OrphanCount
        <4> QED
          BY <4>2, <4>6
      <3> QED
        BY <3>2, <3>3
    <2>10. CASE CreateIssue(p)
      <3>1. /\ Alone(p) /\ pc[p] = "create" /\ pc'[p] = "link" /\ issue'[p] = created + 1
            /\ created' = created + 1 /\ UNCHANGED <<closed, current, faults>>
        BY <1>0, <2>10, CreateMoves DEF OpenIssue
      <3>2. current = NoIssue
        BY <2>4, <3>1
      <3>3. \A q \in Procs : pc[q] = "link" => pc'[q] = "link" /\ issue'[q] = issue[q]
        BY <3>1 DEF Alone, Same
      <3>4. BeingLinked \cup {created + 1} \subseteq BeingLinked'
        BY <3>1, <3>3 DEF BeingLinked
      <3>5. Issues' \subseteq Issues \cup {created + 1}
        BY <2>6, <3>1 DEF Issues
      <3>6. Orphans' \subseteq Orphans
        BY <3>1, <3>4, <3>5 DEF Orphans, Open
      <3>7. Cardinality(Orphans') <= faults'
        BY <1>0, <2>4, <2>6, <3>1, <3>6, OrphanCount
      <3> QED
        BY <2>4, <3>1, <3>2, <3>7 DEF Alone, Same
    <2>11. CASE LinkIssue(p)
      <3>1. /\ Alone(p) /\ pc[p] = "link" /\ pc'[p] \in {"message", "set", "idle"} /\ current' = issue[p]
            /\ UNCHANGED <<created, closed, faults>>
        BY <1>0, <2>11, LinkMoves
      <3>2. \A q \in Procs : q # p => pc[q] = "idle" /\ pc'[q] = "idle"
        BY <2>5, <3>1 DEF Alone, Same
      <3>3. BeingLinked \subseteq {current'}
        BY <3>1, <3>2 DEF BeingLinked
      <3>4. current = NoIssue
        BY <2>4, <3>1
      <3>5. Orphans' \subseteq Orphans
        BY <2>6, <3>1, <3>3, <3>4 DEF Orphans, Open, Issues
      <3>6. Cardinality(Orphans') <= faults'
        BY <1>0, <2>4, <2>6, <3>1, <3>5, OrphanCount
      <3> QED
        BY <3>1, <3>2, <3>6
    <2>12. CASE SetStatus(p)
      BY <1>0, <2>7, <2>12, SetMoves
    <2>13. CASE RecordStatusChange(p)
      BY <1>0, <2>7, <2>13, RecordMoves
    <2>14. CASE TouchIssue(p)
      BY <1>0, <2>7, <2>14, TouchMoves
    <2>15. CASE \E s \in Asked : UpdateCaseStatus(p, s)
      <3>1. /\ Alone(p) /\ UNCHANGED <<created, closed, current, faults>> /\ pc[p] = "idle" /\ pc'[p] = "idle"
        BY <2>15 DEF UpdateCaseStatus, localVars, Alone, Same
      <3> QED
        BY <2>7, <3>1
    <2>16. CASE CloseIssue(p)
      <3>1. /\ Alone(p) /\ pc[p] = "close" /\ pc'[p] = "reread" /\ closed' = closed \cup {issue[p]}
            /\ current' = NoIssue /\ UNCHANGED <<created, faults>>
        BY <1>0, <2>16, CloseMoves
      <3>2. \A q \in Procs : q # p => pc[q] = "idle" /\ pc'[q] = "idle"
        BY <2>5, <3>1 DEF Alone, Same
      <3>3. issue[p] = current /\ BeingLinked = {}
        BY <2>4, <3>1, <3>2 DEF BeingLinked
      <3>4. Orphans' \subseteq Orphans
        BY <3>1, <3>3 DEF Orphans, Open, Issues
      <3>5. Cardinality(Orphans') <= faults'
        BY <1>0, <2>4, <2>6, <3>1, <3>4, OrphanCount
      <3> QED
        BY <3>1, <3>2, <3>5
    <2>17. CASE RereadCase(p)
      BY <1>0, <2>7, <2>17, RereadMoves
    <2>18. CASE Fault(p)
      <3>1. /\ Alone(p) /\ pc'[p] \in {"idle", "welcome"} /\ faults' = faults + 1
            /\ UNCHANGED <<created, closed, current>>
        BY <1>0, <2>5, <2>18, FaultMoves
      <3>2. \A q \in Procs : q # p /\ pc[q] = "link" => pc'[q] = "link" /\ issue'[q] = issue[q]
        BY <3>1 DEF Alone, Same
      <3>3. BeingLinked \subseteq BeingLinked' \cup {issue[p]}
        BY <3>2 DEF BeingLinked
      <3>4. Orphans' \subseteq Orphans \cup {issue[p]}
        BY <3>1, <3>3 DEF Orphans, Open, Issues
      <3>5. Cardinality(Orphans') <= Cardinality(Orphans) + 1
        BY <1>0, <3>4, OrphanCount
      <3>6. Cardinality(Orphans') <= faults'
        BY <1>0, <2>4, <2>6, <3>1, <3>5, OrphanCount
      <3> QED
        BY <2>4, <3>1, <3>6 DEF Alone, Same
    <2> QED
      BY <2>1, <2>8, <2>9, <2>10, <2>11, <2>12, <2>13, <2>14, <2>15, <2>16, <2>17, <2>18
  <1> QED
    BY <1>1, <1>2

\* With one request at a time and no quick message, or with transactions only, the open
\* issues that no request is about to link and that are not current are at most as many
\* as the calls that failed.
THEOREM OrphansArePaidFor == Spec => []OrphansBounded
  <1>1. Init => OrphanInv
    <2> SUFFICES ASSUME Init PROVE OrphanInv
      OBVIOUS
    <2>1. Orphans = {}
      BY DEF Init, Orphans, Open, Issues
    <2>2. Cardinality(Orphans) = 0
      BY <2>1, FS_EmptySet
    <2> QED
      BY <2>2 DEF Init, OrphanInv
  <1>2. OrphanInv => OrphansBounded
    BY DEF OrphanInv, OrphansBounded, Setting, Orphans
  <1> QED
    BY <1>1, <1>2, HandlersKnown, OrphanStep, PTL DEF Spec
=============================================================================
