---------------------------- MODULE FirstContact ----------------------------
(***************************************************************************)
(* The first messages of a customer, each in a run of the incoming worker:   *)
(* handleCustomerProfile finds or creates the customer, handleCaseManagement *)
(* finds or creates the case.  The phone number of a customer is unique in   *)
(* the database, the customer of a case is not.  A run that fails is tried   *)
(* again from the start.                                                     *)
(***************************************************************************)
EXTENDS Naturals, Sequences, FiniteSets

CONSTANTS
  Firsts,         \* the messages
  MaxRetried      \* bounds the calls that fail

ASSUME FirstContactAssumption == IsFiniteSet(Firsts) /\ MaxRetried \in Nat

VARIABLES
  known,      \* the customer has a row
  cases,      \* the customer's cases: issues opened in it so far, and currentIssueId (0: none)
  at,         \* where each run is
  mine,       \* the case of each run
  retried,
  together    \* recorded: runs that began beside another

firstVars == <<known, cases, at, mine, retried, together>>

FirstContactTypeOK ==
  /\ known \in BOOLEAN
  /\ cases \in Seq([issues : Nat, current : Nat])
  /\ at \in [Firsts -> {"waits", "customer", "newCustomer", "case", "ensure", "newCase", "welcome", "issue", "link", "stored"}]
  /\ mine \in [Firsts -> 0..Len(cases)]
  /\ retried \in 0..MaxRetried /\ together \in Nat

FirstContactInit ==
  /\ known = FALSE /\ cases = <<>>
  /\ at = [r \in Firsts |-> "waits"] /\ mine = [r \in Firsts |-> 0]
  /\ retried = 0 /\ together = 0

Turn(r, from, to) == at[r] = from /\ at' = [at EXCEPT ![r] = to]
\* An issue is created and linked.
LinkNew(c) == cases' = [cases EXCEPT ![c] = [issues |-> @.issues + 1, current |-> @.issues + 1]]

BeginContact(r) ==
  /\ Turn(r, "waits", "customer")
  /\ together' = IF \A q \in Firsts : at[q] \in {"waits", "stored"} THEN together ELSE together + 1
  /\ UNCHANGED <<known, cases, mine, retried>>
FindCustomer(r) ==
  /\ Turn(r, "customer", IF known THEN "case" ELSE "newCustomer")
  /\ UNCHANGED <<known, cases, mine, retried, together>>
\* The second of two that create the same customer fails and is tried again.
CreateCustomer(r) ==
  /\ Turn(r, "newCustomer", IF known THEN "waits" ELSE "case")
  /\ known' = TRUE
  /\ UNCHANGED <<cases, mine, retried, together>>

\* A bug: the case is looked up among those that have an issue.
FindCaseMutant(r) ==
  /\ \/ /\ \A c \in DOMAIN cases : cases[c].current = 0
        /\ Turn(r, "case", "newCase") /\ UNCHANGED mine
     \/ \E c \in DOMAIN cases :
          /\ cases[c].current # 0 /\ Turn(r, "case", "stored") /\ mine' = [mine EXCEPT ![r] = c]
  /\ UNCHANGED <<known, cases, retried, together>>
\* The first case found, in no stated order.
FindCase(r) ==
  /\ \/ /\ cases = <<>>
        /\ Turn(r, "case", "newCase") /\ UNCHANGED mine
     \/ \E c \in DOMAIN cases :
          /\ Turn(r, "case", IF cases[c].current = 0 THEN "ensure" ELSE "stored")
          /\ mine' = [mine EXCEPT ![r] = c]
  /\ UNCHANGED <<known, cases, retried, together>>

\* A bug: the transaction checks, and leaves the case without an issue.
EnsureFirstIssueMutant(r) ==
  /\ Turn(r, "ensure", "stored")
  /\ UNCHANGED <<known, cases, mine, retried, together>>
\* One transaction that checks again.
EnsureFirstIssue(r) ==
  /\ Turn(r, "ensure", "stored")
  /\ IF cases[mine[r]].current = 0 THEN LinkNew(mine[r]) ELSE UNCHANGED cases
  /\ UNCHANGED <<known, mine, retried, together>>

CreateCase(r) ==
  /\ Turn(r, "newCase", "welcome")
  /\ cases' = Append(cases, [issues |-> 0, current |-> 0])
  /\ mine' = [mine EXCEPT ![r] = Len(cases')]
  /\ UNCHANGED <<known, retried, together>>
\* A bug: createMessage opens an issue whether or not there is one.
WelcomeMsgMutant(r) ==
  /\ Turn(r, "welcome", "issue")
  /\ LinkNew(mine[r])
  /\ UNCHANGED <<known, mine, retried, together>>
\* The welcome message is stored by createMessage, which opens an issue if there is none.
WelcomeMsg(r) ==
  /\ Turn(r, "welcome", "issue")
  /\ IF cases[mine[r]].current = 0 THEN LinkNew(mine[r]) ELSE UNCHANGED cases
  /\ UNCHANGED <<known, mine, retried, together>>
\* Then an issue is created all the same, and linked over that one.
CreateFirstIssue(r) ==
  /\ Turn(r, "issue", "link")
  /\ cases' = [cases EXCEPT ![mine[r]] = [issues |-> @.issues + 1, current |-> @.current]]
  /\ UNCHANGED <<known, mine, retried, together>>
LinkFirstIssue(r) ==
  /\ Turn(r, "link", "stored")
  /\ cases' = [cases EXCEPT ![mine[r]] = [issues |-> @.issues, current |-> @.issues]]
  /\ UNCHANGED <<known, mine, retried, together>>

\* A call fails: the run is tried again.
ContactFails(r) ==
  /\ retried < MaxRetried /\ retried' = retried + 1
  /\ at[r] \notin {"waits", "stored"} /\ at' = [at EXCEPT ![r] = "waits"]
  /\ UNCHANGED <<known, cases, mine, together>>

FirstContactNext ==
  \E r \in Firsts :
    \/ BeginContact(r) \/ FindCustomer(r) \/ CreateCustomer(r) \/ FindCase(r) \/ EnsureFirstIssue(r)
    \/ CreateCase(r) \/ WelcomeMsg(r) \/ CreateFirstIssue(r) \/ LinkFirstIssue(r) \/ ContactFails(r)

FirstContactSpec == FirstContactInit /\ [][FirstContactNext]_firstVars

-----------------------------------------------------------------------------
\* Only first messages that are processed beside each other give a customer more than
\* one case, one for each; a run that failed and is tried again finds what it left.
CasesNeedOverlap == Len(cases) <= 1 + together

\* Wherever a run failed and whatever ran beside it, a message is stored in a case that
\* has an issue (storeIncomingMessage connects the message to currentIssueId).
StoredUnderIssue == \A r \in Firsts : at[r] = "stored" => cases[mine[r]].current # 0

\* A first contact leaves one open issue that no case points to (the welcome message's),
\* and never more: retries and messages beside it open none over it.
OneOrphanPerCase == \A c \in DOMAIN cases : cases[c].issues <= 2
=============================================================================
