------------------------------ MODULE MCServices ------------------------------
(***************************************************************************)
(* The services beside the conversation that are checked together: the jobs  *)
(* by the clock, the rate limiter, the pages of the chat list, the reset of   *)
(* a password, the tables of the charts.  They share no state, so a behaviour *)
(* follows one of them; of the jobs by the clock it follows one kind, and     *)
(* what that kind does not look at stays as it is.                            *)
(***************************************************************************)
EXTENDS DayCron, RateLimit, ChatPages, PasswordReset, Analytics

VARIABLE follows

vars == <<cronVars, rateVars, pageVars, resetVars, analyticsVars, follows>>

Init ==
  /\ CronInit /\ RateInit /\ PagesInit /\ ResetInit /\ AnalyticsInit
  /\ follows \in Jobs \cup {"limiter", "pages", "reset", "charts"}
  /\ follows # "expired" => silent = {}
  /\ follows # "pages" => DOMAIN list = {} /\ ~byExpired

CronOf(kind) ==
  /\ CronNext
  /\ \A i \in Instances : run'[i].job \in {"none", kind}
  /\ IF kind = "expired" THEN UNCHANGED said ELSE UNCHANGED timer

Next ==
  /\ UNCHANGED follows
  /\ \/ follows \in Jobs /\ CronOf(follows) /\ UNCHANGED <<rateVars, pageVars, resetVars, analyticsVars>>
     \/ follows = "limiter" /\ RateNext /\ UNCHANGED <<cronVars, pageVars, resetVars, analyticsVars>>
     \/ follows = "pages" /\ PagesNext /\ UNCHANGED <<cronVars, rateVars, resetVars, analyticsVars>>
     \/ follows = "reset" /\ ResetNext /\ UNCHANGED <<cronVars, rateVars, pageVars, analyticsVars>>
     \/ follows = "charts" /\ AnalyticsNext /\ UNCHANGED <<cronVars, rateVars, pageVars, resetVars>>

Spec == Init /\ [][Next]_vars

\* The types of the five parts.
TypeOK == CronTypeOK /\ RateTypeOK /\ PagesTypeOK /\ ResetTypeOK /\ AnalyticsTypeOK

\* The cases of the jobs by the clock are alike, and so are the instances of the charts.
Symmetry == Permutations(Chats) \cup Permutations(Servers)
=============================================================================
