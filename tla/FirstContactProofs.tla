-------------------------- MODULE FirstContactProofs --------------------------
(***************************************************************************)
(* Proofs about FirstContact, for any finite set of first messages and any   *)
(* number of failed calls.                                                  *)
(***************************************************************************)
EXTENDS FirstContact, FiniteSetTheorems, SequenceTheorems, TLAPS

-----------------------------------------------------------------------------
(* The inductive invariant *)

Creating == {"welcome", "issue", "link"}
Holding  == Creating \cup {"ensure", "stored"}

\* A case is without a current issue only as long as none was opened in it.
CaseInv ==
  \A c \in DOMAIN cases : cases[c].issues <= 2 /\ (cases[c].current = 0 <=> cases[c].issues = 0)

\* How many issues the case of a run has, by the place of the run.
PlaceInv ==
  \A r \in Firsts :
    /\ at[r] \in Holding => mine[r] \in DOMAIN cases
    /\ at[r] = "welcome" => cases[mine[r]].issues <= 1
    /\ at[r] = "issue" => cases[mine[r]].issues = 1
    /\ at[r] = "link" => cases[mine[r]].issues = 2
    /\ at[r] = "stored" => cases[mine[r]].current # 0

\* The run that created a case is alone in welcoming its customer.
SoleInv ==
  \A q, r \in Firsts : at[q] \in Creating /\ at[r] \in Creating /\ mine[q] = mine[r] => q = r

\* Runs that are going, and those of them that found no case.
Going   == {r \in Firsts : at[r] \notin {"waits", "stored"}}
Pending == {r \in Firsts : at[r] = "newCase"}
CountInv ==
  /\ Cardinality(Going) <= 1 + together
  /\ Len(cases) + Cardinality(Pending) <= 1 + together

IInv == FirstContactTypeOK /\ CaseInv /\ PlaceInv /\ SoleInv

USE FirstContactAssumption DEF FirstContactAssumption

LEMMA InitIInv == FirstContactInit => IInv
<1> SUFFICES ASSUME FirstContactInit PROVE IInv
  OBVIOUS
<1>1. cases \in Seq([issues : Nat, current : Nat]) /\ Len(cases) = 0 /\ DOMAIN cases = {}
  BY DEF FirstContactInit
<1>2. FirstContactTypeOK
  <2>1. at \in [Firsts -> {"waits", "customer", "newCustomer", "case", "ensure", "newCase", "welcome", "issue", "link", "stored"}]
    BY DEF FirstContactInit
  <2>2. mine \in [Firsts -> 0..Len(cases)]
    BY <1>1 DEF FirstContactInit
  <2>3. retried = 0 /\ together = 0
    BY DEF FirstContactInit
  <2>4. retried \in 0..MaxRetried /\ together \in Nat
    BY <2>3
  <2>5. known \in BOOLEAN
    BY DEF FirstContactInit
  <2>. QED BY <1>1, <2>1, <2>2, <2>4, <2>5 DEF FirstContactTypeOK
<1>3. CaseInv
  BY <1>1 DEF CaseInv
<1>4. PlaceInv /\ SoleInv
  BY DEF FirstContactInit, PlaceInv, SoleInv, Creating, Holding
<1>. QED BY <1>2, <1>3, <1>4 DEF IInv

\* What a step that writes the record of one case does to the cases.
Writes(c, i, k) ==
  /\ cases' \in Seq([issues : Nat, current : Nat])
  /\ Len(cases') = Len(cases) /\ DOMAIN cases' = DOMAIN cases
  /\ cases'[c].issues = i /\ cases'[c].current = k
  /\ \A d \in DOMAIN cases : d # c => cases'[d] = cases[d]

LEMMA WriteCase ==
  ASSUME cases \in Seq([issues : Nat, current : Nat]), NEW c \in DOMAIN cases, NEW i \in Nat, NEW k \in Nat,
         cases' = [cases EXCEPT ![c] = [issues |-> i, current |-> k]]
  PROVE  Writes(c, i, k)
<1> DEFINE rec == [issues |-> i, current |-> k]
<1>1. rec \in [issues : Nat, current : Nat] /\ rec.issues = i /\ rec.current = k
  OBVIOUS
<1> HIDE DEF rec
<1>2. cases' = [cases EXCEPT ![c] = rec]
  BY DEF rec
<1>3. cases' \in Seq([issues : Nat, current : Nat]) /\ Len(cases') = Len(cases)
  BY <1>1, <1>2
<1>4. DOMAIN cases' = DOMAIN cases /\ cases'[c] = rec /\ \A d \in DOMAIN cases : d # c => cases'[d] = cases[d]
  BY <1>2
<1>. QED BY <1>1, <1>3, <1>4 DEF Writes

LEMMA CaseFields ==
  ASSUME FirstContactTypeOK, NEW c \in DOMAIN cases
  PROVE  cases[c].issues \in Nat /\ cases[c].current \in Nat
<1>1. cases \in Seq([issues : Nat, current : Nat])
  BY DEF FirstContactTypeOK
<1>2. cases[c] \in [issues : Nat, current : Nat]
  BY <1>1, ElementOfSeq, LenProperties
<1>. QED BY <1>2

\* The four steps that write a case, each in the terms of what it was.
LEMMA Written ==
  ASSUME FirstContactTypeOK, PlaceInv, NEW r \in Firsts
  PROVE  /\ EnsureFirstIssue(r) \/ WelcomeMsg(r) =>
              \/ cases[mine[r]].current = 0 /\ Writes(mine[r], cases[mine[r]].issues + 1, cases[mine[r]].issues + 1)
              \/ cases[mine[r]].current # 0 /\ UNCHANGED cases
         /\ CreateFirstIssue(r) => Writes(mine[r], cases[mine[r]].issues + 1, cases[mine[r]].current)
         /\ LinkFirstIssue(r) => Writes(mine[r], cases[mine[r]].issues, cases[mine[r]].issues)
         /\ EnsureFirstIssue(r) \/ WelcomeMsg(r) \/ CreateFirstIssue(r) \/ LinkFirstIssue(r) => mine[r] \in DOMAIN cases
<1>1. at[r] \in {"ensure", "welcome", "issue", "link"} => mine[r] \in DOMAIN cases
  BY DEF PlaceInv, Holding, Creating
<1>2. mine[r] \in DOMAIN cases => cases[mine[r]].issues \in Nat /\ cases[mine[r]].current \in Nat /\ cases[mine[r]].issues + 1 \in Nat
  BY CaseFields
<1>3. cases \in Seq([issues : Nat, current : Nat])
  BY DEF FirstContactTypeOK
<1>4. ASSUME EnsureFirstIssue(r) \/ WelcomeMsg(r)
      PROVE  /\ mine[r] \in DOMAIN cases
             /\ \/ cases[mine[r]].current = 0 /\ Writes(mine[r], cases[mine[r]].issues + 1, cases[mine[r]].issues + 1)
                \/ cases[mine[r]].current # 0 /\ UNCHANGED cases
  <2>1. mine[r] \in DOMAIN cases
    BY <1>1, <1>4 DEF EnsureFirstIssue, WelcomeMsg, Turn
  <2>2. CASE cases[mine[r]].current = 0
    <3>1. cases' = [cases EXCEPT ![mine[r]] = [issues |-> cases[mine[r]].issues + 1, current |-> cases[mine[r]].issues + 1]]
      BY <1>4, <2>2 DEF EnsureFirstIssue, WelcomeMsg, LinkNew
    <3>. QED BY <1>2, <1>3, <2>1, <2>2, <3>1, WriteCase
  <2>3. CASE cases[mine[r]].current # 0
    BY <1>4, <2>1, <2>3 DEF EnsureFirstIssue, WelcomeMsg
  <2>. QED BY <2>2, <2>3
<1>5. ASSUME CreateFirstIssue(r)
      PROVE  mine[r] \in DOMAIN cases /\ Writes(mine[r], cases[mine[r]].issues + 1, cases[mine[r]].current)
  <2>1. mine[r] \in DOMAIN cases
    BY <1>1, <1>5 DEF CreateFirstIssue, Turn
  <2>2. cases' = [cases EXCEPT ![mine[r]] = [issues |-> cases[mine[r]].issues + 1, current |-> cases[mine[r]].current]]
    BY <1>5 DEF CreateFirstIssue
  <2>. QED BY <1>2, <1>3, <2>1, <2>2, WriteCase
<1>6. ASSUME LinkFirstIssue(r)
      PROVE  mine[r] \in DOMAIN cases /\ Writes(mine[r], cases[mine[r]].issues, cases[mine[r]].issues)
  <2>1. mine[r] \in DOMAIN cases
    BY <1>1, <1>6 DEF LinkFirstIssue, Turn
  <2>2. cases' = [cases EXCEPT ![mine[r]] = [issues |-> cases[mine[r]].issues, current |-> cases[mine[r]].issues]]
    BY <1>6 DEF LinkFirstIssue
  <2>. QED BY <1>2, <1>3, <2>1, <2>2, WriteCase
<1>. QED BY <1>4, <1>5, <1>6

-----------------------------------------------------------------------------
(* Steps *)

LEMMA TypeStep ==
  ASSUME FirstContactTypeOK, PlaceInv, [FirstContactNext]_firstVars
  PROVE  FirstContactTypeOK'
<1>1. CASE UNCHANGED firstVars
  BY <1>1 DEF firstVars, FirstContactTypeOK
<1>2. ASSUME NEW r \in Firsts, BeginContact(r)
      PROVE  FirstContactTypeOK'
  BY <1>2 DEF FirstContactTypeOK, BeginContact, Turn
<1>3. ASSUME NEW r \in Firsts, FindCustomer(r) \/ CreateCustomer(r)
      PROVE  FirstContactTypeOK'
  BY <1>3 DEF FirstContactTypeOK, FindCustomer, CreateCustomer, Turn
<1>4. ASSUME NEW r \in Firsts, FindCase(r)
      PROVE  FirstContactTypeOK'
  <2>1. DOMAIN cases \subseteq 0..Len(cases)
    BY DEF FirstContactTypeOK
  <2>2. mine' \in [Firsts -> 0..Len(cases)]
    BY <1>4, <2>1 DEF FindCase, FirstContactTypeOK
  <2>3. at' \in [Firsts -> {"waits", "customer", "newCustomer", "case", "ensure", "newCase", "welcome", "issue", "link", "stored"}]
    BY <1>4 DEF FindCase, Turn, FirstContactTypeOK
  <2>. QED BY <1>4, <2>2, <2>3 DEF FindCase, FirstContactTypeOK
<1>5. ASSUME NEW r \in Firsts, ContactFails(r)
      PROVE  FirstContactTypeOK'
  BY <1>5 DEF FirstContactTypeOK, ContactFails
<1>6. ASSUME NEW r \in Firsts, CreateCase(r)
      PROVE  FirstContactTypeOK'
  BY <1>6 DEF FirstContactTypeOK, CreateCase, Turn
<1>7. ASSUME NEW r \in Firsts, EnsureFirstIssue(r) \/ WelcomeMsg(r) \/ CreateFirstIssue(r) \/ LinkFirstIssue(r)
      PROVE  FirstContactTypeOK'
  <2>1. cases' \in Seq([issues : Nat, current : Nat]) /\ Len(cases') = Len(cases)
    BY <1>7, Written DEF Writes, FirstContactTypeOK
  <2>2. at' \in [Firsts -> {"waits", "customer", "newCustomer", "case", "ensure", "newCase", "welcome", "issue", "link", "stored"}]
    BY <1>7 DEF EnsureFirstIssue, WelcomeMsg, CreateFirstIssue, LinkFirstIssue, Turn, FirstContactTypeOK
  <2>3. UNCHANGED <<known, mine, retried, together>>
    BY <1>7 DEF EnsureFirstIssue, WelcomeMsg, CreateFirstIssue, LinkFirstIssue
  <2>. QED BY <2>1, <2>2, <2>3 DEF FirstContactTypeOK
<1>. QED BY <1>1, <1>2, <1>3, <1>4, <1>5, <1>6, <1>7 DEF FirstContactNext

\* A step of one run that leaves the cases alone, and holds none that is not right.
LEMMA QuietStep ==
  ASSUME IInv, NEW r \in Firsts,
         BeginContact(r) \/ FindCustomer(r) \/ CreateCustomer(r) \/ FindCase(r) \/ ContactFails(r)
  PROVE  CaseInv' /\ PlaceInv' /\ SoleInv'
<1> USE DEF IInv, FirstContactTypeOK, Creating, Holding
<1>1. UNCHANGED cases
  BY DEF BeginContact, FindCustomer, CreateCustomer, FindCase, ContactFails
<1>2. CaseInv'
  BY <1>1 DEF CaseInv
<1>3. PlaceInv'
  BY <1>1 DEF PlaceInv, BeginContact, FindCustomer, CreateCustomer, FindCase, ContactFails, Turn
<1>4. SoleInv'
  BY DEF SoleInv, BeginContact, FindCustomer, CreateCustomer, FindCase, ContactFails, Turn
<1>. QED BY <1>2, <1>3, <1>4

\* A case is appended that no run holds yet.
LEMMA CreateStep ==
  ASSUME IInv, NEW r \in Firsts, CreateCase(r)
  PROVE  CaseInv' /\ PlaceInv' /\ SoleInv'
<1> USE DEF IInv, FirstContactTypeOK, CreateCase, Turn, Creating, Holding
<1>0. /\ DOMAIN cases' = DOMAIN cases \cup {Len(cases) + 1} /\ Len(cases') = Len(cases) + 1
      /\ cases'[Len(cases) + 1].issues = 0 /\ cases'[Len(cases) + 1].current = 0
      /\ \A c \in DOMAIN cases : cases'[c] = cases[c]
  <2> DEFINE rec == [issues |-> 0, current |-> 0]
  <2>1. rec \in [issues : Nat, current : Nat] /\ rec.issues = 0 /\ rec.current = 0
    OBVIOUS
  <2>2. cases' = Append(cases, rec)
    OBVIOUS
  <2> HIDE DEF rec
  <2>3. /\ Len(cases') = Len(cases) + 1 /\ cases'[Len(cases) + 1] = rec
        /\ \A c \in 1..Len(cases) : cases'[c] = cases[c]
        /\ DOMAIN cases' = 1..(Len(cases) + 1) /\ DOMAIN cases = 1..Len(cases) /\ Len(cases) \in Nat
    BY <2>1, <2>2
  <2>. QED BY <2>1, <2>3
<1>1. CaseInv'
  BY <1>0 DEF CaseInv
<1>2. PlaceInv'
  <2>1. mine' = [mine EXCEPT ![r] = Len(cases) + 1] /\ at' = [at EXCEPT ![r] = "welcome"]
    BY <1>0
  <2>. QED BY <1>0, <2>1 DEF PlaceInv
<1>3. SoleInv'
  BY DEF SoleInv, PlaceInv
<1>. QED BY <1>1, <1>2, <1>3

\* An issue is opened in a case that has none; the run goes on.
LEMMA OpenStep ==
  ASSUME IInv, NEW r \in Firsts, EnsureFirstIssue(r) \/ WelcomeMsg(r)
  PROVE  CaseInv' /\ PlaceInv' /\ SoleInv'
<1>1. /\ mine[r] \in DOMAIN cases
      /\ \/ cases[mine[r]].current = 0 /\ Writes(mine[r], cases[mine[r]].issues + 1, cases[mine[r]].issues + 1)
         \/ cases[mine[r]].current # 0 /\ UNCHANGED cases
  BY Written DEF IInv
<1>2. UNCHANGED mine /\ at[r] \in {"ensure", "welcome"}
      /\ \E to \in {"stored", "issue"} : at' = [at EXCEPT ![r] = to] /\ (at[r] = "ensure" <=> to = "stored")
  BY DEF EnsureFirstIssue, WelcomeMsg, Turn
<1>3. at \in [Firsts -> {"waits", "customer", "newCustomer", "case", "ensure", "newCase", "welcome", "issue", "link", "stored"}]
  BY DEF IInv, FirstContactTypeOK
<1>4. CASE cases[mine[r]].current = 0
  <2>1. cases[mine[r]].issues = 0
    BY <1>1, <1>4 DEF IInv, CaseInv
  <2>2. Writes(mine[r], 1, 1)
    BY <1>1, <1>4, <2>1
  <2>3. \A q \in Firsts : at[q] \in {"issue", "link", "stored"} => mine[q] # mine[r]
    BY <1>4, <2>1 DEF IInv, PlaceInv
  <2>4. CaseInv'
    BY <1>1, <2>2 DEF IInv, CaseInv, Writes
  <2>5. PlaceInv'
    BY <1>1, <1>2, <1>3, <2>2, <2>3 DEF IInv, PlaceInv, Writes, Holding, Creating
  <2>. QED BY <1>2, <1>3, <2>4, <2>5 DEF IInv, SoleInv, Creating
<1>5. CASE cases[mine[r]].current # 0
  <2>1. UNCHANGED cases /\ cases[mine[r]].issues # 0
    BY <1>1, <1>5 DEF IInv, CaseInv
  <2>2. at[r] = "welcome" => cases[mine[r]].issues = 1
    <3>1. cases[mine[r]].issues \in Nat
      BY <1>1, CaseFields DEF IInv
    <3>. QED BY <2>1, <3>1 DEF IInv, PlaceInv
  <2>3. PlaceInv'
    BY <1>1, <1>2, <1>3, <1>5, <2>1, <2>2 DEF IInv, PlaceInv, Holding, Creating
  <2>. QED BY <1>2, <1>3, <2>1, <2>3 DEF IInv, CaseInv, SoleInv, Creating
<1>. QED BY <1>4, <1>5

\* The creator of a case opens the second issue, and links it.
LEMMA SecondStep ==
  ASSUME IInv, NEW r \in Firsts, CreateFirstIssue(r) \/ LinkFirstIssue(r)
  PROVE  CaseInv' /\ PlaceInv' /\ SoleInv'
<1> DEFINE to == IF at[r] = "issue" THEN "link" ELSE "stored"
<1>1. UNCHANGED mine /\ at[r] \in {"issue", "link"} /\ at' = [at EXCEPT ![r] = to]
  BY DEF CreateFirstIssue, LinkFirstIssue, Turn
<1>2. mine[r] \in DOMAIN cases /\ cases[mine[r]].issues \in {1, 2} /\ cases[mine[r]].current # 0
  BY <1>1 DEF IInv, PlaceInv, CaseInv, Holding, Creating
<1>3. \E k : Writes(mine[r], 2, k) /\ k # 0
  <2>1. CASE CreateFirstIssue(r)
    <3>1. cases[mine[r]].issues = 1
      BY <2>1 DEF IInv, PlaceInv, CreateFirstIssue, Turn
    <3>2. Writes(mine[r], cases[mine[r]].issues + 1, cases[mine[r]].current)
      BY <2>1, Written DEF IInv
    <3>3. Writes(mine[r], 2, cases[mine[r]].current)
      BY <3>1, <3>2
    <3>. QED BY <1>2, <3>3
  <2>2. CASE LinkFirstIssue(r)
    <3>1. cases[mine[r]].issues = 2
      BY <2>2 DEF IInv, PlaceInv, LinkFirstIssue, Turn
    <3>. QED BY <2>2, <3>1, Written DEF IInv
  <2>. QED BY <2>1, <2>2
<1>4. at \in [Firsts -> {"waits", "customer", "newCustomer", "case", "ensure", "newCase", "welcome", "issue", "link", "stored"}]
  BY DEF IInv, FirstContactTypeOK
<1>5. CaseInv'
  BY <1>2, <1>3 DEF IInv, CaseInv, Writes
<1>6. \A q \in Firsts : q # r /\ at[q] \in Creating => mine[q] # mine[r]
  BY <1>1 DEF IInv, SoleInv, Creating
<1>7. PlaceInv'
  BY <1>1, <1>2, <1>3, <1>4, <1>6 DEF IInv, PlaceInv, Writes, Holding, Creating
<1>8. SoleInv'
  BY <1>1, <1>4 DEF IInv, SoleInv, Creating
<1>. QED BY <1>5, <1>7, <1>8

LEMMA StepIInv == IInv /\ [FirstContactNext]_firstVars => IInv'
<1> SUFFICES ASSUME IInv, [FirstContactNext]_firstVars PROVE IInv'
  OBVIOUS
<1>1. FirstContactTypeOK'
  BY TypeStep DEF IInv
<1>2. CaseInv' /\ PlaceInv' /\ SoleInv'
  <2>1. CASE UNCHANGED firstVars
    BY <2>1 DEF IInv, firstVars, CaseInv, PlaceInv, SoleInv
  <2>2. CASE FirstContactNext
    BY <2>2, QuietStep, CreateStep, OpenStep, SecondStep DEF FirstContactNext
  <2>. QED BY <2>1, <2>2
<1>. QED BY <1>1, <1>2 DEF IInv

-----------------------------------------------------------------------------
(* Counting *)

\* No step adds more to the runs that are going, or to those that found no case and
\* the cases, than it counts as begun beside another.
LEMMA CountStep ==
  ASSUME FirstContactTypeOK, PlaceInv, CountInv, [FirstContactNext]_firstVars
  PROVE  CountInv'
<1> DEFINE Size(S) == Cardinality(S)
<1>0. /\ IsFiniteSet(Going) /\ IsFiniteSet(Pending) /\ Size(Pending) <= Size(Going)
      /\ Size(Going) \in Nat /\ Size(Pending) \in Nat /\ Len(cases) \in Nat /\ together \in Nat
  <2>1. Going \in SUBSET Firsts /\ Pending \in SUBSET Going
    BY DEF Going, Pending
  <2>2. IsFiniteSet(Going)
    BY <2>1, FS_Subset
  <2>3. IsFiniteSet(Pending) /\ Size(Pending) <= Size(Going)
    BY <2>1, <2>2, FS_Subset
  <2>. QED BY <2>2, <2>3, FS_CardinalityType DEF FirstContactTypeOK
<1>1. CASE UNCHANGED firstVars
  BY <1>1 DEF firstVars, CountInv, Going, Pending
<1>2. ASSUME NEW r \in Firsts, BeginContact(r)
      PROVE  CountInv'
  <2>1. Going' = Going \cup {r} /\ Pending' = Pending /\ r \notin Going /\ UNCHANGED cases
    BY <1>2 DEF BeginContact, Turn, Going, Pending, FirstContactTypeOK
  <2>2. Size(Going \cup {r}) = Size(Going) + 1
    BY <1>0, <2>1, FS_AddElement
  <2>3. CASE Going = {}
    <3>1. Size(Going) = 0
      BY <2>3, FS_EmptySet
    <3>2. together' = together
      BY <1>2, <2>3 DEF BeginContact, Going
    <3>. QED BY <1>0, <2>1, <2>2, <3>1, <3>2 DEF CountInv
  <2>4. CASE Going # {}
    <3>1. together' = together + 1
      BY <1>2, <2>4 DEF BeginContact, Going
    <3>. QED BY <1>0, <2>1, <2>2, <3>1 DEF CountInv
  <2>. QED BY <2>3, <2>4
<1>3. ASSUME NEW r \in Firsts, FindCase(r), cases = <<>>, at'[r] = "newCase"
      PROVE  CountInv'
  <2>1. Going' = Going /\ Pending' \in SUBSET Going /\ UNCHANGED <<cases, together>>
    BY <1>3 DEF FindCase, Turn, Going, Pending, FirstContactTypeOK
  <2>2. Size(Pending') <= Size(Going)
    BY <1>0, <2>1, FS_Subset
  <2>3. Size(Pending') \in Nat /\ Len(cases) = 0
    BY <1>0, <1>3, <2>1, FS_Subset, FS_CardinalityType
  <2>. QED BY <1>0, <2>1, <2>2, <2>3 DEF CountInv
<1>4. ASSUME NEW r \in Firsts, CreateCase(r)
      PROVE  CountInv'
  <2>1. Going' = Going /\ Pending' = Pending \ {r} /\ r \in Pending /\ UNCHANGED together
    BY <1>4 DEF CreateCase, Turn, Going, Pending, FirstContactTypeOK
  <2>2. Size(Pending \ {r}) = Size(Pending) - 1
    BY <1>0, <2>1, FS_RemoveElement
  <2>3. Len(cases') = Len(cases) + 1
    BY <1>4 DEF CreateCase, FirstContactTypeOK
  <2>. QED BY <1>0, <2>1, <2>2, <2>3 DEF CountInv
<1>5. ASSUME NEW r \in Firsts,
             \/ FindCustomer(r) \/ CreateCustomer(r) \/ EnsureFirstIssue(r) \/ WelcomeMsg(r)
             \/ CreateFirstIssue(r) \/ LinkFirstIssue(r) \/ ContactFails(r)
             \/ FindCase(r) /\ at'[r] # "newCase"
      PROVE  CountInv'
  <2>1. Going' \in SUBSET Going /\ Pending' \in SUBSET Pending /\ UNCHANGED together
    BY <1>5 DEF FindCustomer, CreateCustomer, FindCase, EnsureFirstIssue, WelcomeMsg, CreateFirstIssue,
                LinkFirstIssue, ContactFails, Turn, Going, Pending, FirstContactTypeOK
  <2>2. Len(cases') = Len(cases)
    BY <1>5, Written DEF FindCustomer, CreateCustomer, FindCase, ContactFails, Writes
  <2>3. Size(Going') <= Size(Going) /\ Size(Pending') <= Size(Pending)
    BY <1>0, <2>1, FS_Subset
  <2>4. Size(Going') \in Nat /\ Size(Pending') \in Nat
    BY <1>0, <2>1, FS_Subset, FS_CardinalityType
  <2>. QED BY <1>0, <2>1, <2>2, <2>3, <2>4 DEF CountInv
<1>6. ASSUME NEW r \in Firsts, FindCase(r), cases # <<>> \/ at'[r] # "newCase"
      PROVE  FindCase(r) /\ at'[r] # "newCase"
  BY <1>6 DEF FindCase, Turn, FirstContactTypeOK
<1>7. CASE FirstContactNext
  <2>1. PICK r \in Firsts :
          \/ BeginContact(r) \/ FindCustomer(r) \/ CreateCustomer(r) \/ FindCase(r) \/ EnsureFirstIssue(r)
          \/ CreateCase(r) \/ WelcomeMsg(r) \/ CreateFirstIssue(r) \/ LinkFirstIssue(r) \/ ContactFails(r)
    BY <1>7 DEF FirstContactNext
  <2>2. CASE BeginContact(r)
    BY <1>2, <2>2
  <2>3. CASE CreateCase(r)
    BY <1>4, <2>3
  <2>4. CASE FindCase(r)
    BY <1>3, <1>5, <1>6, <2>4
  <2>5. CASE FindCustomer(r) \/ CreateCustomer(r) \/ EnsureFirstIssue(r) \/ WelcomeMsg(r)
    BY <1>5, <2>5
  <2>6. CASE CreateFirstIssue(r) \/ LinkFirstIssue(r) \/ ContactFails(r)
    BY <1>5, <2>6
  <2>. QED BY <2>1, <2>2, <2>3, <2>4, <2>5, <2>6
<1>. QED BY <1>1, <1>7

LEMMA InitCount == FirstContactInit => CountInv
<1> SUFFICES ASSUME FirstContactInit PROVE CountInv
  OBVIOUS
<1>1. Going = {} /\ Pending = {}
  BY DEF FirstContactInit, Going, Pending
<1>2. Cardinality(Going) = 0 /\ Cardinality(Pending) = 0
  BY <1>1, FS_EmptySet
<1>. QED BY <1>2 DEF FirstContactInit, CountInv

-----------------------------------------------------------------------------
(* The theorems *)

\* The state of a first contact keeps its types (customer.service 926-1056).
THEOREM FirstContactTypes == FirstContactSpec => []FirstContactTypeOK
<1>1. IInv => FirstContactTypeOK
  BY DEF IInv
<1>. QED BY <1>1, InitIInv, StepIInv, PTL DEF FirstContactSpec

\* Whatever fails and whatever runs beside it, a message is stored in a case that has an
\* issue: handleCaseManagement returns no other.
THEOREM MessagesHaveAnIssue == FirstContactSpec => []StoredUnderIssue
<1>1. IInv => StoredUnderIssue
  BY DEF IInv, PlaceInv, StoredUnderIssue
<1>. QED BY <1>1, InitIInv, StepIInv, PTL DEF FirstContactSpec

\* The issue the welcome message opens is the only one that is left over in a case.
THEOREM OneOrphan == FirstContactSpec => []OneOrphanPerCase
<1>1. IInv => OneOrphanPerCase
  BY DEF IInv, CaseInv, OneOrphanPerCase
<1>. QED BY <1>1, InitIInv, StepIInv, PTL DEF FirstContactSpec

\* A customer has one case, and one more at most for each run that began beside another.
THEOREM CasesTakeOverlap == FirstContactSpec => []CasesNeedOverlap
<1> DEFINE Both == IInv /\ CountInv
<1>1. FirstContactInit => Both
  BY InitIInv, InitCount
<1>2. Both /\ [FirstContactNext]_firstVars => Both'
  BY StepIInv, CountStep DEF IInv
<1>3. Both => CasesNeedOverlap
  <2> SUFFICES ASSUME Both PROVE CasesNeedOverlap
    OBVIOUS
  <2>1. IsFiniteSet(Pending)
    BY FS_Subset DEF Pending
  <2>2. Cardinality(Pending) \in Nat
    BY <2>1, FS_CardinalityType
  <2>. QED BY <2>2 DEF CountInv, CasesNeedOverlap, IInv, FirstContactTypeOK
<1>. QED BY <1>1, <1>2, <1>3, PTL DEF FirstContactSpec
=============================================================================
