------------------------------ MODULE DeskProofs ------------------------------
(***************************************************************************)
(* Proofs about the three parts of MCDesk: the rating of an issue here, the  *)
(* chat and the first contact from the modules of their own proofs.         *)
(***************************************************************************)
EXTENDS MCDesk, FirstContactProofs, ConversationProofs

\* A behaviour of the three parts is one of each of them.
LEMMA RatingPart == Spec => RatingInit /\ [][RatingNext]_ratingVars
<1>1. Init => RatingInit
  BY DEF Init
<1>2. [Next]_vars => [RatingNext]_ratingVars
  BY DEF Next, vars, ratingVars
<1>. QED
  BY <1>1, <1>2, PTL DEF Spec

LEMMA FirstContactPart == Spec => FirstContactSpec
<1>1. Init => FirstContactInit
  BY DEF Init
<1>2. [Next]_vars => [FirstContactNext]_firstVars
  BY DEF Next, vars, firstVars
<1>. QED
  BY <1>1, <1>2, PTL DEF Spec, FirstContactSpec

LEMMA ConversationPart == Spec => ConversationSpec
<1>1. Init => ConversationInit
  BY DEF Init
<1>2. [Next]_vars => [ConversationNext]_convVars
  BY DEF Next, vars, convVars
<1>. QED
  BY <1>1, <1>2, PTL DEF Spec, ConversationSpec

-----------------------------------------------------------------------------
(* The issues of a case *)

Issue       == [open : BOOLEAN, listed : BOOLEAN, rated : BOOLEAN]
OpenOf(s)   == {i \in 1..Len(s) : s[i].open}
ListedOf(s) == {i \in 1..Len(s) : s[i].listed}
RatedOf(s)  == {i \in 1..Len(s) : s[i].rated}

LEMMA Replaced ==
  ASSUME NEW s \in Seq(Issue), NEW i \in 1..Len(s), NEW m \in Issue
  PROVE  LET t == [s EXCEPT ![i] = m]
         IN  /\ t \in Seq(Issue) /\ Len(t) = Len(s)
             /\ t[i] = m
             /\ \A j \in 1..Len(s) : j # i => t[j] = s[j]
OBVIOUS

LEMMA ListOne ==
  ASSUME NEW s \in Seq(Issue), NEW i \in 1..Len(s)
  PROVE  LET t == [s EXCEPT ![i] = [@ EXCEPT !.listed = TRUE]]
         IN  /\ t \in Seq(Issue) /\ Len(t) = Len(s)
             /\ OpenOf(t) = OpenOf(s) /\ ListedOf(t) = ListedOf(s) \cup {i} /\ RatedOf(t) = RatedOf(s)
<1> DEFINE m == [s[i] EXCEPT !.listed = TRUE]
           t == [s EXCEPT ![i] = m]
<1>1. s[i] \in Issue
  BY ElementOfSeq
<1>2. m \in Issue /\ m.open = s[i].open /\ m.listed = TRUE /\ m.rated = s[i].rated
  BY <1>1 DEF Issue
<1> HIDE DEF m
<1>3. /\ t \in Seq(Issue) /\ Len(t) = Len(s) /\ t[i] = m
      /\ \A j \in 1..Len(s) : j # i => t[j] = s[j]
  BY <1>2, Replaced
<1> HIDE DEF t
<1>4. OpenOf(t) = OpenOf(s) /\ ListedOf(t) = ListedOf(s) \cup {i} /\ RatedOf(t) = RatedOf(s)
  BY <1>2, <1>3 DEF OpenOf, ListedOf, RatedOf
<1>. QED
  BY <1>3, <1>4 DEF t, m

LEMMA CloseOne ==
  ASSUME NEW s \in Seq(Issue), NEW i \in 1..Len(s)
  PROVE  LET t == [s EXCEPT ![i] = [@ EXCEPT !.open = FALSE]]
         IN  /\ t \in Seq(Issue) /\ Len(t) = Len(s)
             /\ OpenOf(t) = OpenOf(s) \ {i} /\ ListedOf(t) = ListedOf(s) /\ RatedOf(t) = RatedOf(s)
<1> DEFINE m == [s[i] EXCEPT !.open = FALSE]
           t == [s EXCEPT ![i] = m]
<1>1. s[i] \in Issue
  BY ElementOfSeq
<1>2. m \in Issue /\ m.open = FALSE /\ m.listed = s[i].listed /\ m.rated = s[i].rated
  BY <1>1 DEF Issue
<1> HIDE DEF m
<1>3. /\ t \in Seq(Issue) /\ Len(t) = Len(s) /\ t[i] = m
      /\ \A j \in 1..Len(s) : j # i => t[j] = s[j]
  BY <1>2, Replaced
<1> HIDE DEF t
<1>4. OpenOf(t) = OpenOf(s) \ {i} /\ ListedOf(t) = ListedOf(s) /\ RatedOf(t) = RatedOf(s)
  BY <1>2, <1>3 DEF OpenOf, ListedOf, RatedOf
<1>. QED
  BY <1>3, <1>4 DEF t, m

LEMMA RateOne ==
  ASSUME NEW s \in Seq(Issue), NEW i \in 1..Len(s)
  PROVE  LET t == [s EXCEPT ![i] = [@ EXCEPT !.rated = TRUE]]
         IN  /\ t \in Seq(Issue) /\ Len(t) = Len(s)
             /\ OpenOf(t) = OpenOf(s) /\ ListedOf(t) = ListedOf(s) /\ RatedOf(t) = RatedOf(s) \cup {i}
<1> DEFINE m == [s[i] EXCEPT !.rated = TRUE]
           t == [s EXCEPT ![i] = m]
<1>1. s[i] \in Issue
  BY ElementOfSeq
<1>2. m \in Issue /\ m.open = s[i].open /\ m.listed = s[i].listed /\ m.rated = TRUE
  BY <1>1 DEF Issue
<1> HIDE DEF m
<1>3. /\ t \in Seq(Issue) /\ Len(t) = Len(s) /\ t[i] = m
      /\ \A j \in 1..Len(s) : j # i => t[j] = s[j]
  BY <1>2, Replaced
<1> HIDE DEF t
<1>4. OpenOf(t) = OpenOf(s) /\ ListedOf(t) = ListedOf(s) /\ RatedOf(t) = RatedOf(s) \cup {i}
  BY <1>2, <1>3 DEF OpenOf, ListedOf, RatedOf
<1>. QED
  BY <1>3, <1>4 DEF t, m

LEMMA OpenOne ==
  ASSUME NEW s \in Seq(Issue)
  PROVE  /\ Append(s, Fresh) \in Seq(Issue) /\ Len(Append(s, Fresh)) = Len(s) + 1
         /\ OpenOf(Append(s, Fresh)) = OpenOf(s) \cup {Len(s) + 1}
         /\ ListedOf(Append(s, Fresh)) = ListedOf(s) /\ RatedOf(Append(s, Fresh)) = RatedOf(s)
<1> DEFINE m == Fresh
           t == Append(s, m)
<1>1. m \in Issue /\ m.open = TRUE /\ m.listed = FALSE /\ m.rated = FALSE
  BY DEF Issue, Fresh
<1> HIDE DEF m
<1>2. /\ t \in Seq(Issue) /\ Len(t) = Len(s) + 1 /\ t[Len(s) + 1] = m
      /\ \A j \in 1..Len(s) : t[j] = s[j]
  BY <1>1
<1>3. Len(s) \in Nat
  OBVIOUS
<1> HIDE DEF t
<1>4. OpenOf(t) = OpenOf(s) \cup {Len(s) + 1}
  BY <1>1, <1>2, <1>3 DEF OpenOf
<1>5. ListedOf(t) = ListedOf(s)
  BY <1>1, <1>2, <1>3 DEF ListedOf
<1>6. RatedOf(t) = RatedOf(s)
  BY <1>1, <1>2, <1>3 DEF RatedOf
<1>. QED
  BY <1>2, <1>4, <1>5, <1>6 DEF t, m

-----------------------------------------------------------------------------
(* Where the replies are *)

ReplyPlaces == {"idle", "choose", "rate", "clear", "done"}
Place(n)    == [at : ReplyPlaces, issue : 0..n]

\* The issue is linked, or it is closed; those before it are closed.
IssueInv ==
  /\ issues \in Seq(Issue) /\ Len(issues) <= MaxIssues
  /\ linked \in {0, Len(issues)} /\ OpenOf(issues) \subseteq {linked}

ReplyInv == reply \in [Replies -> Place(Len(issues))]

\* A reply that is taken has a list before it, and goes on with an issue since that list.
SinceInv ==
  /\ \A i \in RatedOf(issues) : \E j \in ListedOf(issues) : j <= i
  /\ \A r \in Replies : reply[r].at \in {"choose", "rate"} => ListedOf(issues) # {}
  /\ \A r \in Replies : reply[r].at = "rate" =>
       reply[r].issue # 0 /\ \E j \in ListedOf(issues) : j <= reply[r].issue

USE RatingAssumption DEF RatingAssumption

LEMMA ChosenIssue == IssueInv => IssueToRate = Len(issues)
<1> SUFFICES ASSUME IssueInv PROVE IssueToRate = Len(issues)
  OBVIOUS
<1> USE DEF IssueInv
<1>0. Len(issues) \in Nat /\ DOMAIN issues = 1..Len(issues)
  BY LenProperties
<1> DEFINE closed == {i \in DOMAIN issues : ~issues[i].open}
<1>1. CASE linked # 0
  BY <1>1 DEF IssueToRate
<1>2. CASE linked = 0
  <2>1. closed = 1..Len(issues)
    BY <1>0, <1>2 DEF OpenOf
  <2>2. CASE Len(issues) = 0
    <3>1. closed = {}
      BY <2>1, <2>2
    <3>. QED
      BY <1>2, <2>2, <3>1 DEF IssueToRate
  <2>3. CASE Len(issues) # 0
    <3>1. \A n \in Nat : n # 0 => Max(1..n) = n
      BY DEF Max
    <3>2. Len(issues) \in closed
      <4>1. \A n \in Nat : n # 0 => n \in 1..n
        OBVIOUS
      <4>. QED
        BY <1>0, <2>1, <2>3, <4>1
    <3>3. Max(closed) = Len(issues)
      BY <1>0, <2>1, <2>3, <3>1
    <3>4. closed # {}
      BY <3>2
    <3>. QED
      BY <1>2, <3>3, <3>4 DEF IssueToRate
  <2>. QED
    BY <2>2, <2>3
<1>. QED
  BY <1>1, <1>2

\* Opening an issue if there is none.
LEMMA Opened ==
  ASSUME IssueInv
  PROVE  /\ WithOpen.issues \in Seq(Issue) /\ WithOpen.linked = Len(WithOpen.issues) /\ WithOpen.linked # 0
         /\ Len(WithOpen.issues) \in {Len(issues), Len(issues) + 1}
         /\ OpenOf(WithOpen.issues) \subseteq {WithOpen.linked}
         /\ ListedOf(WithOpen.issues) = ListedOf(issues) /\ RatedOf(WithOpen.issues) = RatedOf(issues)
<1> USE DEF IssueInv
<1>0. Len(issues) \in Nat
  BY LenProperties
<1>1. CASE linked # 0
  <2>1. WithOpen.issues = issues /\ WithOpen.linked = linked
    BY <1>1 DEF WithOpen
  <2>. QED
    BY <1>0, <1>1, <2>1
<1>2. CASE linked = 0
  <2>1. WithOpen.issues = Append(issues, Fresh) /\ WithOpen.linked = Len(issues) + 1
    BY <1>2 DEF WithOpen
  <2>2. OpenOf(issues) = {}
    BY <1>2 DEF OpenOf
  <2>. QED
    BY <1>0, <2>1, <2>2, OpenOne
<1>. QED
  BY <1>1, <1>2

\* What a step does to the issues: none is lost, and no list is.
Grow ==
  /\ issues' \in Seq(Issue) /\ Len(issues) <= Len(issues') /\ Len(issues') <= MaxIssues
  /\ linked' \in {0, Len(issues')} /\ OpenOf(issues') \subseteq {linked'}
  /\ ListedOf(issues) \subseteq ListedOf(issues')

LEMMA IssuesStep ==
  ASSUME IssueInv, ReplyInv, SinceInv, [RatingNext]_ratingVars
  PROVE  /\ Grow
         /\ RatedOf(issues') = RatedOf(issues) \/
              \E r \in Replies : reply[r].at = "rate" /\ RatedOf(issues') = RatedOf(issues) \cup {reply[r].issue}
<1> USE DEF IssueInv
<1>0. Len(issues) \in Nat
  BY LenProperties
<1>1. CASE UNCHANGED <<issues, linked>>
  BY <1>0, <1>1 DEF Grow
<1>2. CASE UNCHANGED ratingVars
  BY <1>1, <1>2 DEF ratingVars
<1>3. CASE AskNode \/ ForgetList
  BY <1>1, <1>3 DEF AskNode, ForgetList
<1>4. CASE AskList
  <2>1. CASE UNCHANGED <<issues, linked>>
    BY <1>1, <2>1
  <2>2. CASE /\ Len(WithOpen.issues) <= MaxIssues
             /\ linked' = WithOpen.linked
             /\ issues' = [WithOpen.issues EXCEPT ![linked'] = [@ EXCEPT !.listed = TRUE]]
    <3> DEFINE s == WithOpen.issues
               i == WithOpen.linked
    <3>1. /\ s \in Seq(Issue) /\ i = Len(s) /\ i # 0 /\ Len(s) \in {Len(issues), Len(issues) + 1}
          /\ OpenOf(s) \subseteq {i} /\ ListedOf(s) = ListedOf(issues) /\ RatedOf(s) = RatedOf(issues)
      BY Opened
    <3>2. issues' = [s EXCEPT ![i] = [@ EXCEPT !.listed = TRUE]] /\ linked' = i /\ Len(s) <= MaxIssues
      BY <2>2
    <3> HIDE DEF s, i
    <3>3. i \in 1..Len(s)
      BY <3>1, LenProperties
    <3>4. /\ issues' \in Seq(Issue) /\ Len(issues') = Len(s)
          /\ OpenOf(issues') = OpenOf(s) /\ ListedOf(issues') = ListedOf(s) \cup {i} /\ RatedOf(issues') = RatedOf(s)
      BY <3>1, <3>2, <3>3, ListOne
    <3>5. Len(issues) <= Len(issues') /\ linked' = Len(issues') /\ Len(issues') <= MaxIssues
      BY <1>0, <3>1, <3>2, <3>4
    <3>6. OpenOf(issues') \subseteq {linked'} /\ ListedOf(issues) \subseteq ListedOf(issues') /\ RatedOf(issues') = RatedOf(issues)
      BY <3>1, <3>2, <3>4
    <3>. QED
      BY <3>4, <3>5, <3>6 DEF Grow
  <2>. QED
    BY <1>4, <2>1, <2>2 DEF AskList
<1>5. CASE OtherMessage
  BY <1>0, <1>5, Opened DEF OtherMessage, Grow
<1>6. CASE CloseRated
  <2>0. linked \in 1..Len(issues) /\ linked' = 0
    BY <1>0, <1>6 DEF CloseRated
  <2>1. issues' = [issues EXCEPT ![linked] = [@ EXCEPT !.open = FALSE]]
    BY <1>6 DEF CloseRated
  <2>2. /\ issues' \in Seq(Issue) /\ Len(issues') = Len(issues)
        /\ OpenOf(issues') = OpenOf(issues) \ {linked} /\ ListedOf(issues') = ListedOf(issues)
        /\ RatedOf(issues') = RatedOf(issues)
    BY <2>0, <2>1, CloseOne
  <2>3. OpenOf(issues') \subseteq {linked'}
    BY <2>0, <2>2
  <2>. QED
    BY <1>0, <2>0, <2>2, <2>3 DEF Grow
<1>7. ASSUME NEW r \in Replies, TakeReply(r) \/ ChooseIssue(r) \/ ClearNode(r)
      PROVE  UNCHANGED <<issues, linked>>
  BY <1>7 DEF TakeReply, ChooseIssue, ClearNode
<1>8. ASSUME NEW r \in Replies, Rate(r)
      PROVE  Grow /\ reply[r].at = "rate" /\ RatedOf(issues') = RatedOf(issues) \cup {reply[r].issue}
  <2>1. reply[r] \in Place(Len(issues)) /\ reply[r].at = "rate"
    BY <1>8 DEF ReplyInv, Rate
  <2>2. PICK i \in 0..Len(issues) : i = reply[r].issue
    BY <2>1 DEF Place
  <2>3. i \in 1..Len(issues)
    BY <1>0, <2>1, <2>2 DEF SinceInv
  <2>4. issues' = [issues EXCEPT ![i] = [@ EXCEPT !.rated = TRUE]]
    BY <1>8, <2>2 DEF Rate
  <2>7. linked' = linked
    BY <1>8 DEF Rate
  <2>5. /\ issues' \in Seq(Issue) /\ Len(issues') = Len(issues)
        /\ OpenOf(issues') = OpenOf(issues) /\ ListedOf(issues') = ListedOf(issues)
        /\ RatedOf(issues') = RatedOf(issues) \cup {i}
    BY <2>3, <2>4, RateOne
  <2>6. Grow
    BY <1>0, <2>5, <2>7 DEF Grow
  <2>. QED
    BY <2>1, <2>2, <2>5, <2>6
<1>. QED
  BY <1>1, <1>2, <1>3, <1>4, <1>5, <1>6, <1>7, <1>8 DEF RatingNext

\* What a step does to the replies.
SamePlace(q)  == reply'[q] = reply[q]
OthersStay(r) == \A q \in Replies : q # r => SamePlace(q)

LEMMA ReplyMoves ==
  ASSUME IssueInv, ReplyInv, NEW r \in Replies
  PROVE  /\ TakeReply(r) => /\ reply[r].at = "idle" /\ reply'[r].at \in {"choose", "done"} /\ reply'[r].issue = reply[r].issue
                            /\ ListedOf(issues) # {} /\ OthersStay(r)
         /\ ChooseIssue(r) => /\ reply[r].at = "choose" /\ reply'[r].at \in {"clear", "rate"}
                              /\ reply'[r].issue = Len(issues) /\ (reply'[r].at = "rate" => Len(issues) # 0) /\ OthersStay(r)
         /\ Rate(r) => reply[r].at = "rate" /\ reply'[r].at = "clear" /\ reply'[r].issue = reply[r].issue /\ OthersStay(r)
         /\ ClearNode(r) => reply[r].at = "clear" /\ reply'[r].at = "done" /\ reply'[r].issue = 0 /\ OthersStay(r)
         /\ TakeReply(r) \/ ChooseIssue(r) \/ Rate(r) \/ ClearNode(r) =>
              \E m \in Place(Len(issues)) : reply' = [reply EXCEPT ![r] = m]
<1>0. Len(issues) \in Nat /\ DOMAIN issues = 1..Len(issues)
  BY LenProperties DEF IssueInv
<1>1. reply[r] \in Place(Len(issues)) /\ reply \in [Replies -> Place(Len(issues))]
  BY DEF ReplyInv
<1>2. ASSUME TakeReply(r)
      PROVE  /\ reply[r].at = "idle" /\ reply'[r].at \in {"choose", "done"} /\ reply'[r].issue = reply[r].issue
             /\ ListedOf(issues) # {} /\ OthersStay(r)
             /\ \E m \in Place(Len(issues)) : reply' = [reply EXCEPT ![r] = m]
  <2> DEFINE m == [reply[r] EXCEPT !.at = IF asking THEN "choose" ELSE "done"]
  <2>1. m \in Place(Len(issues)) /\ m.at \in {"choose", "done"} /\ m.issue = reply[r].issue
    BY <1>1 DEF Place, ReplyPlaces
  <2>2. reply' = [reply EXCEPT ![r] = m]
    BY <1>2, <1>1 DEF TakeReply
  <2> HIDE DEF m
  <2>3. reply'[r] = m /\ OthersStay(r)
    BY <1>1, <2>2 DEF OthersStay, SamePlace
  <2>4. reply[r].at = "idle" /\ ListedOf(issues) # {}
    BY <1>0, <1>2 DEF TakeReply, ListedOf
  <2>. QED
    BY <2>1, <2>2, <2>3, <2>4
<1>3. ASSUME ChooseIssue(r)
      PROVE  /\ reply[r].at = "choose" /\ reply'[r].at \in {"clear", "rate"}
             /\ reply'[r].issue = Len(issues) /\ (reply'[r].at = "rate" => Len(issues) # 0) /\ OthersStay(r)
             /\ \E m \in Place(Len(issues)) : reply' = [reply EXCEPT ![r] = m]
  <2> DEFINE m == [at |-> IF IssueToRate = 0 THEN "clear" ELSE "rate", issue |-> IssueToRate]
  <2>1. /\ m \in Place(Len(issues)) /\ m.at \in {"clear", "rate"} /\ m.issue = Len(issues)
        /\ m.at = "rate" => Len(issues) # 0
    BY <1>0, ChosenIssue DEF Place, ReplyPlaces
  <2>2. reply' = [reply EXCEPT ![r] = m] /\ reply[r].at = "choose"
    BY <1>3 DEF ChooseIssue
  <2> HIDE DEF m
  <2>3. reply'[r] = m /\ OthersStay(r)
    BY <1>1, <2>2 DEF OthersStay, SamePlace
  <2>. QED
    BY <2>1, <2>2, <2>3
<1>4. ASSUME Rate(r)
      PROVE  /\ reply[r].at = "rate" /\ reply'[r].at = "clear" /\ reply'[r].issue = reply[r].issue /\ OthersStay(r)
             /\ \E m \in Place(Len(issues)) : reply' = [reply EXCEPT ![r] = m]
  <2> DEFINE m == [reply[r] EXCEPT !.at = "clear"]
  <2>1. m \in Place(Len(issues)) /\ m.at = "clear" /\ m.issue = reply[r].issue
    BY <1>1 DEF Place, ReplyPlaces
  <2>2. reply' = [reply EXCEPT ![r] = m] /\ reply[r].at = "rate"
    BY <1>4, <1>1 DEF Rate
  <2> HIDE DEF m
  <2>3. reply'[r] = m /\ OthersStay(r)
    BY <1>1, <2>2 DEF OthersStay, SamePlace
  <2>. QED
    BY <2>1, <2>2, <2>3
<1>5. ASSUME ClearNode(r)
      PROVE  /\ reply[r].at = "clear" /\ reply'[r].at = "done" /\ reply'[r].issue = 0 /\ OthersStay(r)
             /\ \E m \in Place(Len(issues)) : reply' = [reply EXCEPT ![r] = m]
  <2> DEFINE m == [at |-> "done", issue |-> 0]
  <2>1. m \in Place(Len(issues)) /\ m.at = "done" /\ m.issue = 0
    BY <1>0 DEF Place, ReplyPlaces
  <2>2. reply' = [reply EXCEPT ![r] = m] /\ reply[r].at = "clear"
    BY <1>5 DEF ClearNode
  <2> HIDE DEF m
  <2>3. reply'[r] = m /\ OthersStay(r)
    BY <1>1, <2>2 DEF OthersStay, SamePlace
  <2>. QED
    BY <2>1, <2>2, <2>3
<1>. QED
  BY <1>2, <1>3, <1>4, <1>5

LEMMA RepliesStay ==
  ASSUME [RatingNext]_ratingVars
  PROVE  reply' = reply \/ \E r \in Replies : TakeReply(r) \/ ChooseIssue(r) \/ Rate(r) \/ ClearNode(r)
BY DEF RatingNext, ratingVars, AskNode, AskList, OtherMessage, CloseRated, ForgetList

LEMMA ReplyStep ==
  ASSUME IssueInv, ReplyInv, Grow, [RatingNext]_ratingVars
  PROVE  ReplyInv'
<1>0. Place(Len(issues)) \subseteq Place(Len(issues')) /\ (reply \in [Replies -> Place(Len(issues))])
  <2>1. Len(issues) \in Nat /\ Len(issues') \in Nat /\ Len(issues) <= Len(issues')
    BY LenProperties DEF IssueInv, Grow
  <2>. QED
    BY <2>1 DEF Place, ReplyInv
<1>1. reply' \in [Replies -> Place(Len(issues))]
  <2>1. CASE reply' = reply
    BY <1>0, <2>1
  <2>2. ASSUME NEW r \in Replies, TakeReply(r) \/ ChooseIssue(r) \/ Rate(r) \/ ClearNode(r)
        PROVE  reply' \in [Replies -> Place(Len(issues))]
    <3>1. PICK m \in Place(Len(issues)) : reply' = [reply EXCEPT ![r] = m]
      BY <2>2, ReplyMoves
    <3>. QED
      BY <1>0, <3>1
  <2>. QED
    BY <2>1, <2>2, RepliesStay
<1>2. reply' \in [Replies -> Place(Len(issues'))]
  BY <1>0, <1>1
<1>. QED
  BY <1>2 DEF ReplyInv, Place

LEMMA SinceStep ==
  ASSUME IssueInv, ReplyInv, SinceInv, [RatingNext]_ratingVars
  PROVE  SinceInv'
<1>1. ListedOf(issues) \subseteq ListedOf(issues')
  BY IssuesStep DEF Grow
<1>2. \A i \in RatedOf(issues') : \E j \in ListedOf(issues') : j <= i
  <2>1. CASE RatedOf(issues') = RatedOf(issues)
    BY <1>1, <2>1 DEF SinceInv
  <2>2. ASSUME NEW r \in Replies, reply[r].at = "rate", RatedOf(issues') = RatedOf(issues) \cup {reply[r].issue}
        PROVE  \A i \in RatedOf(issues') : \E j \in ListedOf(issues') : j <= i
    BY <1>1, <2>2 DEF SinceInv
  <2>. QED
    BY <2>1, <2>2, IssuesStep
\* Of the last issue every list is one since.
<1>3. ListedOf(issues) # {} => \E j \in ListedOf(issues) : j <= Len(issues)
  BY LenProperties DEF IssueInv, ListedOf
<1>4. ASSUME NEW q \in Replies
      PROVE  /\ reply'[q].at \in {"choose", "rate"} => ListedOf(issues) # {}
             /\ reply'[q].at = "rate" => reply'[q].issue # 0 /\ \E j \in ListedOf(issues) : j <= reply'[q].issue
  <2>1. CASE SamePlace(q)
    BY <2>1 DEF SamePlace, SinceInv
  <2>2. CASE TakeReply(q)
    BY <2>2, ReplyMoves
  <2>3. CASE ChooseIssue(q)
    BY <1>3, <2>3, ReplyMoves DEF SinceInv
  <2>4. CASE Rate(q) \/ ClearNode(q)
    BY <2>4, ReplyMoves
  <2>5. reply' = reply => SamePlace(q)
    BY DEF SamePlace
  <2>6. ASSUME NEW r \in Replies, TakeReply(r) \/ ChooseIssue(r) \/ Rate(r) \/ ClearNode(r), r # q
        PROVE  SamePlace(q)
    BY <2>6, ReplyMoves DEF OthersStay
  <2>. QED
    BY <2>1, <2>2, <2>3, <2>4, <2>5, <2>6, RepliesStay
<1>5. /\ \A q \in Replies : reply'[q].at \in {"choose", "rate"} => ListedOf(issues') # {}
      /\ \A q \in Replies : reply'[q].at = "rate" =>
           reply'[q].issue # 0 /\ \E j \in ListedOf(issues') : j <= reply'[q].issue
  BY <1>1, <1>4
<1>. QED
  BY <1>2, <1>5 DEF SinceInv, RatedOf, ListedOf

LEMMA IssueStep ==
  ASSUME IssueInv, ReplyInv, SinceInv, [RatingNext]_ratingVars
  PROVE  IssueInv' /\ ReplyInv' /\ SinceInv'
<1>1. Grow
  BY IssuesStep
<1>2. IssueInv'
  BY <1>1 DEF Grow, IssueInv, OpenOf
<1>. QED
  BY <1>1, <1>2, ReplyStep, SinceStep

LEMMA IssueInit ==
  ASSUME RatingInit
  PROVE  IssueInv /\ ReplyInv /\ SinceInv
<1>1. issues = <<>> /\ linked = 0 /\ issues \in Seq(Issue) /\ Len(issues) = 0
  BY DEF RatingInit
<1>2. OpenOf(issues) = {} /\ ListedOf(issues) = {} /\ RatedOf(issues) = {}
  BY <1>1 DEF OpenOf, ListedOf, RatedOf
<1>3. reply = [r \in Replies |-> [at |-> "idle", issue |-> 0]]
  BY DEF RatingInit
<1>4. ReplyInv
  BY <1>1, <1>3 DEF ReplyInv, Place, ReplyPlaces
<1>5. SinceInv
  BY <1>2, <1>3 DEF SinceInv
<1>. QED
  BY <1>1, <1>2, <1>4, <1>5 DEF IssueInv

\* No issue from before the first list is ever rated: for any replies, issues and lists.
THEOREM OnlyListedAreRated == Spec => []RatedSinceList
<1>1. IssueInv /\ SinceInv => RatedSinceList
  <2> SUFFICES ASSUME IssueInv, SinceInv, NEW i \in DOMAIN issues, issues[i].rated
               PROVE  \E j \in 1..i : issues[j].listed
    BY DEF RatedSinceList
  <2>1. DOMAIN issues = 1..Len(issues) /\ Len(issues) \in Nat
    BY LenProperties DEF IssueInv
  <2>2. PICK j \in ListedOf(issues) : j <= i
    BY <2>1 DEF SinceInv, RatedOf
  <2>. QED
    BY <2>1, <2>2 DEF ListedOf
<1>. QED
  BY <1>1, RatingPart, IssueInit, IssueStep, PTL

-----------------------------------------------------------------------------
(* What the replies are counted against *)

ListCounts == asks \in 0..MaxLists /\ taken \in Nat /\ beside \in Nat
Flags  == asking \in BOOLEAN /\ sending \in BOOLEAN
Busy   == \E q \in Replies : Replying(q)

\* Every reply that was taken is one of a list, or was taken beside another.
Enough == taken <= asks + beside
\* There is a list that no reply was taken for.
Spare  == taken + 1 <= asks + beside

\* While the node says that a list was asked and no reply is processed, one may be taken.
SpareInv == ListCounts /\ Enough /\ (asking /\ ~Busy => Spare)

\* What a step does to the counts.
NewList     == asks' = asks + 1 /\ UNCHANGED <<taken, beside>>
FirstReply  == taken' = taken + 1 /\ UNCHANGED <<asks, beside>>
OneMore     == taken' = taken + 1 /\ beside' = beside + 1 /\ asks' = asks
CountsStay  == UNCHANGED <<asks, taken, beside>>

LEMMA CountsMove ==
  ASSUME ListCounts, Enough
  PROVE  /\ NewList /\ asks < MaxLists => ListCounts' /\ Enough' /\ Spare'
         /\ FirstReply /\ Spare => ListCounts' /\ Enough'
         /\ OneMore => ListCounts' /\ Enough'
         /\ CountsStay => ListCounts' /\ Enough' /\ (Spare => Spare')
<1> USE DEF ListCounts, Enough, Spare
<1>1. NewList /\ asks < MaxLists => ListCounts' /\ Enough' /\ Spare'
  BY DEF NewList
<1>2. FirstReply /\ Spare => ListCounts' /\ Enough'
  BY DEF FirstReply
<1>3. OneMore => ListCounts' /\ Enough'
  BY DEF OneMore
<1>4. CountsStay => ListCounts' /\ Enough' /\ (Spare => Spare')
  BY DEF CountsStay
<1>. QED
  BY <1>1, <1>2, <1>3, <1>4

\* Which of them a step does, by whether a list is asked and a reply is processed.
LEMMA SpareMoves ==
  ASSUME IssueInv, ReplyInv, [RatingNext]_ratingVars
  PROVE  \/ NewList /\ asks < MaxLists /\ asking' = TRUE
         \/ FirstReply /\ asking /\ ~Busy /\ Busy'
         \/ OneMore /\ asking /\ Busy /\ Busy'
         \/ CountsStay /\ asking' = FALSE
         \/ CountsStay /\ asking' = asking /\ (Busy => Busy')
<1>0. reply' = reply => (Busy => Busy')
  BY DEF Busy, Replying
<1>1. CASE AskNode
  BY <1>1 DEF AskNode, NewList
<1>2. CASE AskList \/ CloseRated \/ UNCHANGED ratingVars
  <2>1. CountsStay /\ asking' = asking /\ reply' = reply
    BY <1>2 DEF AskList, CloseRated, CountsStay, ratingVars
  <2>. QED
    BY <1>0, <2>1
<1>3. CASE OtherMessage \/ ForgetList
  <2>1. CountsStay /\ asking' \in {asking, FALSE} /\ reply' = reply
    BY <1>3 DEF OtherMessage, ForgetList, CountsStay
  <2>. QED
    BY <1>0, <2>1
<1>4. ASSUME NEW r \in Replies, TakeReply(r)
      PROVE  \/ FirstReply /\ asking /\ ~Busy /\ Busy'
             \/ OneMore /\ asking /\ Busy /\ Busy'
             \/ CountsStay /\ asking' = asking /\ (Busy => Busy')
  <2>1. reply[r].at = "idle" /\ OthersStay(r) /\ asking' = asking /\ asks' = asks
    <3>1. asking' = asking /\ asks' = asks
      BY <1>4 DEF TakeReply
    <3>. QED
      BY <1>4, <3>1, ReplyMoves
  <2>2. Busy => Busy'
    BY <2>1 DEF Busy, Replying, OthersStay, SamePlace
  <2>3. CASE ~asking
    <3>1. taken' = taken /\ beside' = beside
      BY <1>4, <2>3 DEF TakeReply
    <3>. QED
      BY <2>1, <2>2, <3>1 DEF CountsStay
  <2>4. CASE asking
    <3>1. taken' = taken + 1
      BY <1>4, <2>4 DEF TakeReply
    <3>2. Busy'
      <4>1. reply' = [reply EXCEPT ![r].at = "choose"] /\ reply \in [Replies -> Place(Len(issues))]
        BY <1>4, <2>4 DEF TakeReply, ReplyInv
      <4>2. reply'[r].at = "choose"
        BY <4>1 DEF Place
      <4>. QED
        BY <4>2 DEF Busy, Replying
    <3>3. CASE Busy
      <4>1. beside' = beside + 1
        BY <1>4, <2>4, <3>3 DEF TakeReply, Busy
      <4>. QED
        BY <2>1, <2>4, <3>1, <3>2, <3>3, <4>1 DEF OneMore
    <3>4. CASE ~Busy
      <4>1. beside' = beside
        BY <1>4, <2>4, <3>4 DEF TakeReply, Busy
      <4>. QED
        BY <2>1, <2>4, <3>1, <3>2, <3>4, <4>1 DEF FirstReply
    <3>. QED
      BY <3>3, <3>4
  <2>. QED
    BY <2>3, <2>4
<1>5. ASSUME NEW r \in Replies, ChooseIssue(r) \/ Rate(r)
      PROVE  CountsStay /\ asking' = asking /\ (Busy => Busy')
  <2>1. CountsStay /\ asking' = asking
    BY <1>5 DEF ChooseIssue, Rate, CountsStay
  <2>2. reply'[r].at \in {"clear", "rate"}
    BY <1>5, ReplyMoves
  <2>3. Busy'
    BY <2>2 DEF Busy, Replying
  <2>. QED
    BY <2>1, <2>3
<1>6. ASSUME NEW r \in Replies, ClearNode(r)
      PROVE  CountsStay /\ asking' = FALSE
  BY <1>6 DEF ClearNode, CountsStay
<1>. QED
  BY <1>1, <1>2, <1>3, <1>4, <1>5, <1>6 DEF RatingNext

LEMMA SpareStep ==
  ASSUME IssueInv, ReplyInv, SpareInv, [RatingNext]_ratingVars
  PROVE  SpareInv'
<1>0. ListCounts /\ Enough /\ (asking /\ ~Busy => Spare)
  BY DEF SpareInv
<1>1. SpareInv' <=> ListCounts' /\ Enough' /\ (asking' /\ ~Busy' => Spare')
  BY DEF SpareInv
<1>. QED
  BY <1>0, <1>1, CountsMove, SpareMoves, Zenon

LEMMA FlagsStep ==
  ASSUME Flags, [RatingNext]_ratingVars
  PROVE  Flags'
<1>1. CASE AskNode \/ AskList \/ CloseRated \/ OtherMessage \/ ForgetList
  BY <1>1 DEF AskNode, AskList, CloseRated, OtherMessage, ForgetList, Flags
<1>2. ASSUME NEW r \in Replies, TakeReply(r) \/ ChooseIssue(r) \/ Rate(r) \/ ClearNode(r)
      PROVE  Flags'
  BY <1>2 DEF TakeReply, ChooseIssue, Rate, ClearNode, Flags
<1>3. CASE UNCHANGED ratingVars
  BY <1>3 DEF ratingVars, Flags
<1>. QED
  BY <1>1, <1>2, <1>3 DEF RatingNext

LEMMA CountsInit ==
  ASSUME RatingInit
  PROVE  Flags /\ SpareInv
<1>1. asks = 0 /\ taken = 0 /\ beside = 0
  BY DEF RatingInit
<1>2. ListCounts /\ Enough
  BY <1>1 DEF ListCounts, Enough
<1>3. asking = FALSE /\ sending = FALSE
  BY DEF RatingInit
<1>. QED
  BY <1>2, <1>3 DEF Flags, SpareInv

\* A list gives one rating, and one more for each reply processed beside another: for any
\* replies, issues and lists.
THEOREM ListsAreRatedOnce == Spec => []OneRatingPerList
<1>1. SpareInv => OneRatingPerList
  BY DEF SpareInv, Enough, OneRatingPerList
<1>. QED
  BY <1>1, RatingPart, IssueInit, IssueStep, CountsInit, SpareStep, PTL

\* The types of the rating.
LEMMA RatingTypes == Spec => []RatingTypeOK
<1>1. IssueInv /\ ReplyInv /\ SpareInv /\ Flags => RatingTypeOK
  <2> SUFFICES ASSUME IssueInv, ReplyInv, SpareInv, Flags PROVE RatingTypeOK
    OBVIOUS
  <2>1. linked \in 0..Len(issues)
    BY LenProperties DEF IssueInv
  <2>. QED
    BY <2>1 DEF RatingTypeOK, IssueInv, Issue, ReplyInv, Place, ReplyPlaces, SpareInv, ListCounts, Flags
<1>. QED
  BY <1>1, RatingPart, IssueInit, IssueStep, CountsInit, SpareStep, FlagsStep, PTL

\* The three parts keep their types.
THEOREM DeskTypes == Spec => []TypeOK
<1>1. ConversationTypeOK /\ FirstContactTypeOK /\ RatingTypeOK => TypeOK
  BY DEF TypeOK
<1>. QED
  BY <1>1, ConversationPart, FirstContactPart, RatingTypes, ConversationTypes, FirstContactTypes, PTL
=============================================================================
