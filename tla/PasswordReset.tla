---------------------------- MODULE PasswordReset ----------------------------
(***************************************************************************)
(* The code by which a user of the desk sets a new password: forgotPassword  *)
(* stores it and mails it, resetPassword reads it, compares, and clears it,   *)
(* with slow hashing between the queries.                                     *)
(***************************************************************************)
EXTENDS Integers, FiniteSets

CONSTANTS
  Codes,   \* a request for a code and the code it makes; two requests make different ones
  Resets,  \* calls of resetPassword
  NoCode

ASSUME PasswordResetAssumption == NoCode \notin Codes

VARIABLES
  otp,       \* User.passwordResetOtp
  expired,   \* passwordResetExpiry is over
  asked,     \* where each request is
  reset,     \* the code with which a call goes on to set the password
  ended,     \* calls that ended
  uses,      \* recorded: passwords set by each code,
  ranOut,    \* codes that expired while they were stored,
  replaced,  \* codes over which another one was stored,
  beside,    \* calls begun while another had read the same code,
  crossed    \* codes stored while a call had read an older one

resetVars == <<otp, expired, asked, reset, ended, uses, ranOut, replaced, beside, crossed>>

ResetTypeOK ==
  /\ otp \in Codes \cup {NoCode} /\ expired \in BOOLEAN
  /\ asked \in [Codes -> {"no", "found", "stored", "mailed", "failed"}]
  /\ reset \in [Resets -> Codes \cup {NoCode}] /\ ended \subseteq Resets
  /\ uses \in [Codes -> Nat] /\ ranOut \subseteq Codes /\ replaced \subseteq Codes
  /\ beside \in [Codes -> Nat] /\ crossed \subseteq Codes

ResetInit ==
  /\ otp = NoCode /\ expired = FALSE
  /\ asked = [c \in Codes |-> "no"] /\ reset = [r \in Resets |-> NoCode] /\ ended = {}
  /\ uses = [c \in Codes |-> 0] /\ beside = [c \in Codes |-> 0]
  /\ ranOut = {} /\ replaced = {} /\ crossed = {}

\* forgotPassword reads the user and hashes the code,
FindUser(c) ==
  /\ asked[c] = "no"
  /\ asked' = [asked EXCEPT ![c] = "found"]
  /\ UNCHANGED <<otp, expired, reset, ended, uses, ranOut, replaced, beside, crossed>>
\* A bug: the code is stored with the expiry of the one before.
StoreCodeMutant(c) ==
  /\ asked[c] = "found"
  /\ asked' = [asked EXCEPT ![c] = "stored"]
  /\ otp' = c /\ expired' = (otp # NoCode /\ expired)
  /\ replaced' = replaced \cup ({otp} \ {NoCode})
  /\ crossed' = IF \E r \in Resets : reset[r] # NoCode THEN crossed \cup {c} ELSE crossed
  /\ UNCHANGED <<reset, ended, uses, ranOut, beside>>
\* stores it with an expiry of ten minutes,
StoreCode(c) ==
  /\ asked[c] = "found"
  /\ asked' = [asked EXCEPT ![c] = "stored"]
  /\ otp' = c /\ expired' = FALSE
  /\ replaced' = replaced \cup ({otp} \ {NoCode})
  /\ crossed' = IF \E r \in Resets : reset[r] # NoCode THEN crossed \cup {c} ELSE crossed
  /\ UNCHANGED <<reset, ended, uses, ranOut, beside>>
\* and mails it; a code whose mail fails has replaced the one before all the same.
MailCode(c) ==
  /\ asked[c] = "stored"
  /\ \E result \in {"mailed", "failed"} : asked' = [asked EXCEPT ![c] = result]
  /\ UNCHANGED <<otp, expired, reset, ended, uses, ranOut, replaced, beside, crossed>>

TenMinutes ==
  /\ otp # NoCode /\ ~expired
  /\ expired' = TRUE /\ ranOut' = ranOut \cup {otp}
  /\ UNCHANGED <<otp, asked, reset, ended, uses, replaced, beside, crossed>>

\* resetPassword reads the user: without a code, after its time, or with another code it throws.
Accepts(c) == otp = c /\ ~expired
ReadCode(r, c) ==
  /\ reset[r] = NoCode /\ r \notin ended /\ asked[c] = "mailed" /\ Accepts(c)
  /\ reset' = [reset EXCEPT ![r] = c]
  /\ beside' = IF \E q \in Resets : reset[q] = c THEN [beside EXCEPT ![c] = @ + 1] ELSE beside
  /\ UNCHANGED <<otp, expired, asked, ended, uses, ranOut, replaced, crossed>>

\* The new password is hashed, the row is updated: whatever code is stored by then is cleared.
SetPassword(r) ==
  /\ reset[r] # NoCode
  /\ uses' = [uses EXCEPT ![reset[r]] = @ + 1]
  /\ otp' = NoCode /\ expired' = FALSE
  /\ reset' = [reset EXCEPT ![r] = NoCode] /\ ended' = ended \cup {r}
  /\ UNCHANGED <<asked, ranOut, replaced, beside, crossed>>
\* Hashing or the update fails.
ResetFails(r) ==
  /\ reset[r] # NoCode
  /\ reset' = [reset EXCEPT ![r] = NoCode] /\ ended' = ended \cup {r}
  /\ UNCHANGED <<otp, expired, asked, uses, ranOut, replaced, beside, crossed>>

ResetNext ==
  \/ \E c \in Codes : FindUser(c) \/ StoreCode(c) \/ MailCode(c)
  \/ TenMinutes
  \/ \E r \in Resets : SetPassword(r) \/ ResetFails(r) \/ \E c \in Codes : ReadCode(r, c)

\* A code sets one password, and one more only for each call that began while another had
\* read it.  A mailed code that was not used, replaced or run out is still good, unless it
\* was stored while a call went on with an older one, which then clears it.
CodesHold ==
  \A c \in Codes :
    /\ uses[c] <= 1 + beside[c]
    /\ (asked[c] = "mailed" /\ uses[c] = 0 /\ c \notin ranOut \cup replaced \cup crossed) => Accepts(c)
=============================================================================
