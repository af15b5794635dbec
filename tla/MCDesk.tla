------------------------------- MODULE MCDesk -------------------------------
(***************************************************************************)
(* The three parts of a conversation that are checked together: the chat of  *)
(* a case, the first contact of a customer, the rating of an issue.  They do *)
(* not act on each other here, so a behaviour follows one of them.           *)
(***************************************************************************)
EXTENDS Conversation, FirstContact, Rating

VARIABLE follows

vars == <<convVars, firstVars, ratingVars, follows>>

Init ==
  /\ ConversationInit /\ FirstContactInit /\ RatingInit
  /\ follows \in {"conversation", "first contact", "rating"}

Next ==
  /\ UNCHANGED follows
  /\ \/ follows = "conversation" /\ ConversationNext /\ UNCHANGED <<firstVars, ratingVars>>
     \/ follows = "first contact" /\ FirstContactNext /\ UNCHANGED <<convVars, ratingVars>>
     \/ follows = "rating" /\ RatingNext /\ UNCHANGED <<convVars, firstVars>>

Spec == Init /\ [][Next]_vars

\* The types of the three parts.
TypeOK == ConversationTypeOK /\ FirstContactTypeOK /\ RatingTypeOK
=============================================================================
