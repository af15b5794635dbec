--------------------------- MODULE ServicesProofs ---------------------------
(***************************************************************************)
(* Proofs about the services that are checked together, for every value of   *)
(* their constants.  A behaviour of MCServices is one of each of its parts.   *)
(***************************************************************************)
EXTENDS MCServices, FiniteSetTheorems, SequenceTheorems, WellFoundedInduction, TLAPS

LEMMA ResetPart == Spec => ResetInit /\ [][ResetNext]_resetVars
<1>1. Init => ResetInit
  BY DEF Init
<1>2. [Next]_vars => [ResetNext]_resetVars
  BY DEF Next, vars, resetVars
<1>. QED
  BY <1>1, <1>2, PTL DEF Spec

-----------------------------------------------------------------------------
(* The reset of a password *)

\* The calls that go on with a code.
Holders(c) == {r \in Resets : reset[r] = c}
Unused(c)  == uses[c] = 0

\* A call that goes on with a code counts as a use of it; only a code that was mailed is
\* read, and what was used is not stored.
UsesInv ==
  \A c \in Codes :
    /\ IsFiniteSet(Holders(c))
    /\ uses[c] + Cardinality(Holders(c)) <= 1 + beside[c]
    /\ uses[c] # 0 => otp # c
    /\ asked[c] # "mailed" => uses[c] = 0 /\ Holders(c) = {}

\* A code is good until it is used, runs out, is replaced or is cleared with an older one.
GoodInv ==
  /\ \A c \in Codes :
       asked[c] \in {"stored", "mailed"} /\ Unused(c) /\ c \notin ranOut \cup replaced \cup crossed => Accepts(c)
  /\ \A r \in Resets : reset[r] # NoCode /\ otp \notin {NoCode, reset[r]} => otp \in crossed

ResetNumbers ==
  /\ otp \in Codes \cup {NoCode}
  /\ asked \in [Codes -> {"no", "found", "stored", "mailed", "failed"}]
  /\ reset \in [Resets -> Codes \cup {NoCode}]
  /\ uses \in [Codes -> Nat] /\ beside \in [Codes -> Nat]

USE PasswordResetAssumption DEF PasswordResetAssumption

LEMMA ResetTypeStep ==
  ASSUME ResetTypeOK, [ResetNext]_resetVars
  PROVE  ResetTypeOK'
<1> USE DEF ResetTypeOK
<1>1. CASE UNCHANGED resetVars
  BY <1>1 DEF resetVars
<1>2. ASSUME NEW c \in Codes, FindUser(c) \/ StoreCode(c) \/ MailCode(c) PROVE ResetTypeOK'
  <2>1. CASE FindUser(c)
    BY <2>1 DEF FindUser
  <2>2. CASE StoreCode(c)
    BY <2>2 DEF StoreCode
  <2>3. CASE MailCode(c)
    BY <2>3 DEF MailCode
  <2>. QED
    BY <1>2, <2>1, <2>2, <2>3
<1>3. CASE TenMinutes
  BY <1>3 DEF TenMinutes
<1>4. ASSUME NEW r \in Resets, SetPassword(r) PROVE ResetTypeOK'
  <2>1. uses' \in [Codes -> Nat]
    BY <1>4 DEF SetPassword
  <2>. QED
    BY <1>4, <2>1 DEF SetPassword
<1>5. ASSUME NEW r \in Resets, ResetFails(r) PROVE ResetTypeOK'
  BY <1>5 DEF ResetFails
<1>6. ASSUME NEW r \in Resets, NEW c \in Codes, ReadCode(r, c) PROVE ResetTypeOK'
  <2>1. beside' \in [Codes -> Nat]
    BY <1>6 DEF ReadCode
  <2>. QED
    BY <1>6, <2>1 DEF ReadCode
<1>. QED
  BY <1>1, <1>2, <1>3, <1>4, <1>5, <1>6 DEF ResetNext

LEMMA UsesStep ==
  ASSUME ResetNumbers, UsesInv, [ResetNext]_resetVars
  PROVE  UsesInv'
<1> USE DEF ResetNumbers
\* A step that leaves the calls and the uses alone.
<1>1. ASSUME UNCHANGED <<reset, uses, beside>>,
             \A c \in Codes : otp' = c => otp = c \/ uses[c] = 0,
             \A c \in Codes : asked'[c] # "mailed" => asked[c] # "mailed"
      PROVE  UsesInv'
  BY <1>1 DEF UsesInv, Holders
<1>2. CASE UNCHANGED resetVars
  BY <1>1, <1>2 DEF resetVars
<1>3. ASSUME NEW c \in Codes, FindUser(c) \/ MailCode(c) PROVE UsesInv'
  BY <1>1, <1>3 DEF FindUser, MailCode
<1>4. ASSUME NEW c \in Codes, StoreCode(c) PROVE UsesInv'
  BY <1>1, <1>4 DEF StoreCode, UsesInv
<1>5. CASE TenMinutes
  BY <1>1, <1>5 DEF TenMinutes
\* A call ends, having used the code or not.
<1>6. ASSUME NEW r \in Resets, SetPassword(r) \/ ResetFails(r) PROVE UsesInv'
  <2>0. PICK d \in Codes : d = reset[r]
    BY <1>6 DEF SetPassword, ResetFails
  <2>1. /\ d \in Codes /\ r \in Holders(d) /\ reset' = [reset EXCEPT ![r] = NoCode]
        /\ UNCHANGED <<beside, asked>>
        /\ \/ uses' = [uses EXCEPT ![d] = @ + 1] /\ otp' = NoCode
           \/ UNCHANGED <<uses, otp>>
    BY <1>6, <2>0 DEF SetPassword, ResetFails, Holders
  <2>2. /\ Holders(d)' = Holders(d) \ {r}
        /\ \A c \in Codes \ {d} : Holders(c)' = Holders(c)
    BY <2>0, <2>1 DEF Holders
  <2>3. /\ IsFiniteSet(Holders(d)) /\ uses[d] + Cardinality(Holders(d)) <= 1 + beside[d]
        /\ asked[d] = "mailed"
    BY <2>1 DEF UsesInv
  <2>4. /\ IsFiniteSet(Holders(d)') /\ Cardinality(Holders(d)') = Cardinality(Holders(d)) - 1
        /\ Cardinality(Holders(d)) \in Nat
    BY <2>1, <2>2, <2>3, FS_RemoveElement, FS_CardinalityType
  <2>5. uses'[d] \in {uses[d], uses[d] + 1} /\ \A c \in Codes \ {d} : uses'[c] = uses[c]
    BY <2>1
  <2>6. uses'[d] + Cardinality(Holders(d)') <= 1 + beside[d]
    BY <2>1, <2>3, <2>4, <2>5
  <2>7. \A c \in Codes : uses'[c] # 0 => otp' # c
    BY <2>1 DEF UsesInv
  <2>8. ASSUME NEW c \in Codes \ {d}
        PROVE  /\ IsFiniteSet(Holders(c)') /\ uses'[c] + Cardinality(Holders(c)') <= 1 + beside'[c]
               /\ asked'[c] # "mailed" => uses'[c] = 0 /\ Holders(c)' = {}
    BY <2>1, <2>2, <2>5 DEF UsesInv
  <2>. QED
    BY <2>1, <2>3, <2>4, <2>6, <2>7, <2>8 DEF UsesInv
\* A call reads a code: the first, or one more that is counted.
<1>7. ASSUME NEW r \in Resets, NEW d \in Codes, ReadCode(r, d) PROVE UsesInv'
  <2>1. /\ reset[r] = NoCode /\ asked[d] = "mailed" /\ otp = d
        /\ reset' = [reset EXCEPT ![r] = d] /\ UNCHANGED <<uses, asked, otp>>
    BY <1>7 DEF ReadCode, Accepts
  <2>2. /\ Holders(d)' = Holders(d) \cup {r} /\ r \notin Holders(d)
        /\ \A c \in Codes \ {d} : Holders(c)' = Holders(c)
    BY <2>1 DEF Holders
  <2>3. /\ IsFiniteSet(Holders(d)) /\ uses[d] + Cardinality(Holders(d)) <= 1 + beside[d]
        /\ uses[d] = 0
    BY <2>1 DEF UsesInv
  <2>4. /\ IsFiniteSet(Holders(d)') /\ Cardinality(Holders(d)') = Cardinality(Holders(d)) + 1
        /\ Cardinality(Holders(d)) \in Nat /\ (Holders(d) = {} => Cardinality(Holders(d)) = 0)
    BY <2>2, <2>3, FS_AddElement, FS_CardinalityType, FS_EmptySet
  <2>5. /\ \A c \in Codes \ {d} : beside'[c] = beside[c]
        /\ Holders(d) = {} => beside'[d] = beside[d]
        /\ Holders(d) # {} => beside'[d] = beside[d] + 1
    BY <1>7 DEF ReadCode, Holders
  <2>6. uses'[d] + Cardinality(Holders(d)') <= 1 + beside'[d]
    <3>1. beside[d] \in Nat
      OBVIOUS
    <3>2. CASE Holders(d) = {}
      BY <2>1, <2>3, <2>4, <2>5, <3>1, <3>2
    <3>3. CASE Holders(d) # {}
      BY <2>1, <2>3, <2>4, <2>5, <3>1, <3>3
    <3>. QED
      BY <3>2, <3>3
  <2>7. ASSUME NEW c \in Codes \ {d}
        PROVE  /\ IsFiniteSet(Holders(c)') /\ uses'[c] + Cardinality(Holders(c)') <= 1 + beside'[c]
               /\ uses'[c] # 0 => otp' # c
               /\ asked'[c] # "mailed" => uses'[c] = 0 /\ Holders(c)' = {}
    BY <2>1, <2>2, <2>5 DEF UsesInv
  <2>. QED
    BY <2>1, <2>3, <2>4, <2>6, <2>7 DEF UsesInv
<1>. QED
  BY <1>2, <1>3, <1>4, <1>5, <1>6, <1>7 DEF ResetNext

LEMMA GoodStep ==
  ASSUME ResetNumbers, GoodInv, [ResetNext]_resetVars
  PROVE  GoodInv'
<1> USE DEF ResetNumbers, Accepts
<1>1. CASE UNCHANGED resetVars
  BY <1>1 DEF resetVars, GoodInv, Unused
<1>2. ASSUME NEW c \in Codes, FindUser(c) \/ MailCode(c) PROVE GoodInv'
  <2>1. /\ UNCHANGED <<otp, expired, reset, ranOut, replaced, crossed>> /\ \A d \in Codes : Unused(d)' <=> Unused(d)
        /\ \A d \in Codes : asked'[d] \in {"stored", "mailed"} => asked[d] \in {"stored", "mailed"}
    BY <1>2 DEF FindUser, MailCode, Unused
  <2>. QED
    BY <2>1 DEF GoodInv
<1>3. ASSUME NEW c \in Codes, StoreCode(c) PROVE GoodInv'
  <2>1. /\ otp' = c /\ ~expired' /\ replaced' = replaced \cup ({otp} \ {NoCode})
        /\ asked' = [asked EXCEPT ![c] = "stored"] /\ UNCHANGED <<reset, ranOut>>
        /\ \A d \in Codes : Unused(d)' <=> Unused(d)
        /\ crossed \subseteq crossed'
        /\ \A r \in Resets : reset[r] # NoCode => c \in crossed'
    BY <1>3 DEF StoreCode, Unused
  <2>. QED
    BY <2>1 DEF GoodInv
<1>4. CASE TenMinutes
  <2>1. /\ ranOut' = ranOut \cup {otp} /\ UNCHANGED <<otp, asked, reset, replaced, crossed>>
        /\ \A d \in Codes : Unused(d)' <=> Unused(d)
    BY <1>4 DEF TenMinutes, Unused
  <2>. QED
    BY <2>1 DEF GoodInv
<1>5. ASSUME NEW r \in Resets, NEW c \in Codes, ReadCode(r, c) PROVE GoodInv'
  <2>1. /\ UNCHANGED <<otp, expired, asked, ranOut, replaced, crossed>> /\ otp = c /\ reset' = [reset EXCEPT ![r] = c]
        /\ \A d \in Codes : Unused(d)' <=> Unused(d)
    BY <1>5 DEF ReadCode, Unused
  <2>. QED
    BY <2>1 DEF GoodInv
<1>6. ASSUME NEW r \in Resets, ResetFails(r) PROVE GoodInv'
  <2>1. /\ UNCHANGED <<otp, expired, asked, ranOut, replaced, crossed>> /\ reset' = [reset EXCEPT ![r] = NoCode]
        /\ \A d \in Codes : Unused(d)' <=> Unused(d)
    BY <1>6 DEF ResetFails, Unused
  <2>. QED
    BY <2>1 DEF GoodInv
\* The code that is cleared was used, or is counted as crossed.
<1>7. ASSUME NEW r \in Resets, SetPassword(r) PROVE GoodInv'
  <2>0. PICK d \in Codes : d = reset[r]
    BY <1>7 DEF SetPassword
  <2>1. otp' = NoCode /\ UNCHANGED <<asked, ranOut, replaced, crossed>>
    BY <1>7 DEF SetPassword
  <2>2. ~Unused(d)' /\ \A c \in Codes : Unused(c)' => Unused(c)
    <3>1. uses' = [uses EXCEPT ![d] = @ + 1] /\ uses[d] \in Nat
      BY <1>7, <2>0 DEF SetPassword
    <3>. QED
      BY <2>1, <3>1 DEF Unused
  <2>3. otp \in {NoCode, d} \/ otp \in crossed
    BY <2>0 DEF GoodInv
  <2>4. ASSUME NEW c \in Codes, asked'[c] \in {"stored", "mailed"}, Unused(c)',
               c \notin ranOut' \cup replaced' \cup crossed'
        PROVE  FALSE
    BY <2>1, <2>2, <2>3, <2>4 DEF GoodInv
  <2>. QED
    BY <2>1, <2>4 DEF GoodInv
<1>. QED
  BY <1>1, <1>2, <1>3, <1>4, <1>5, <1>6, <1>7 DEF ResetNext

\* A code sets one password, and one more for each call that began while another had read
\* it; a mailed code stays good until it is used, runs out, is replaced or is cleared by a
\* call that went on with an older one: for any numbers of requests, codes and calls.
THEOREM ResetCodesHold == Spec => []CodesHold
<1>1. ResetInit => ResetTypeOK /\ UsesInv /\ GoodInv
  <2> SUFFICES ASSUME ResetInit PROVE ResetTypeOK /\ UsesInv /\ GoodInv
    OBVIOUS
  <2>1. \A c \in Codes : Holders(c) = {}
    BY DEF ResetInit, Holders
  <2>2. UsesInv
    BY <2>1, FS_EmptySet DEF ResetInit, UsesInv
  <2>3. ResetTypeOK
    BY DEF ResetInit, ResetTypeOK
  <2>4. GoodInv
    BY DEF ResetInit, GoodInv
  <2>. QED
    BY <2>2, <2>3, <2>4
<1>2. ResetTypeOK => ResetNumbers
  BY DEF ResetTypeOK, ResetNumbers
<1>3. ResetTypeOK /\ UsesInv /\ GoodInv => CodesHold
  <2> SUFFICES ASSUME ResetTypeOK, UsesInv, GoodInv, NEW c \in Codes
               PROVE  /\ uses[c] <= 1 + beside[c]
                      /\ (asked[c] = "mailed" /\ uses[c] = 0 /\ c \notin ranOut \cup replaced \cup crossed) => Accepts(c)
    BY DEF CodesHold
  <2>1. uses[c] \in Nat /\ beside[c] \in Nat
    BY DEF ResetTypeOK
  <2>2. Cardinality(Holders(c)) \in Nat /\ uses[c] + Cardinality(Holders(c)) <= 1 + beside[c]
    BY FS_CardinalityType DEF UsesInv
  <2>3. uses[c] <= 1 + beside[c]
    BY <2>1, <2>2
  <2>4. (asked[c] = "mailed" /\ Unused(c) /\ c \notin ranOut \cup replaced \cup crossed) => Accepts(c)
    BY DEF GoodInv
  <2>. QED
    BY <2>3, <2>4 DEF Unused
<1>. QED
  BY <1>1, <1>2, <1>3, ResetPart, ResetTypeStep, UsesStep, GoodStep, PTL

-----------------------------------------------------------------------------
(* The rate limiter *)

LEMMA RatePart == Spec => RateInit /\ [][RateNext]_rateVars
<1>1. Init => RateInit
  BY DEF Init
<1>2. [Next]_vars => [RateNext]_rateVars
  BY DEF Next, vars, rateVars
<1>. QED
  BY <1>1, <1>2, PTL DEF Spec

HIDE PasswordResetAssumption DEF PasswordResetAssumption
USE RateLimitAssumption DEF RateLimitAssumption

\* How many entries of a log fall in the window that begins at t, and the jobs n limits let through.
CountIn(t, log) == Cardinality(InWindowOf(t, log))
Cap(n)           == Limit * n

LEMMA CapGrows ==
  /\ \A n \in Nat : Cap(n) \in Nat
  /\ \A n \in Nat : Cap(n + 1) = Cap(n) + Limit
  /\ Cap(0) = 0
BY DEF Cap

LEMMA WindowIsFinite ==
  ASSUME NEW log \in Seq(Nat), NEW t \in Nat
  PROVE  IsFiniteSet(InWindowOf(t, log)) /\ CountIn(t, log) \in Nat
<1>1. InWindowOf(t, log) \subseteq 1..Len(log)
  BY DEF InWindowOf
<1>2. Len(log) \in Nat
  OBVIOUS
<1>3. IsFiniteSet(1..Len(log))
  BY <1>2, FS_Interval
<1>4. IsFiniteSet(InWindowOf(t, log))
  BY <1>1, <1>3, FS_Subset
<1>. QED
  BY <1>4, FS_CardinalityType DEF CountIn

\* An entry is counted in the windows that its time is in.
LEMMA EntryIsCounted ==
  ASSUME NEW log \in Seq(Nat), NEW t \in Nat, NEW x \in Nat
  PROVE  CountIn(t, Append(log, x)) = CountIn(t, log) + IF t <= x /\ x < t + RateWindow THEN 1 ELSE 0
<1>0. IsFiniteSet(InWindowOf(t, log)) /\ CountIn(t, log) \in Nat
  BY WindowIsFinite
<1>1. CASE t <= x /\ x < t + RateWindow
  <2>1. InWindowOf(t, Append(log, x)) = InWindowOf(t, log) \cup {Len(log) + 1}
    BY <1>1 DEF InWindowOf
  <2>2. Len(log) + 1 \notin InWindowOf(t, log)
    BY DEF InWindowOf
  <2>. QED
    BY <1>0, <1>1, <2>1, <2>2, FS_AddElement DEF CountIn
<1>2. CASE ~(t <= x /\ x < t + RateWindow)
  <2>1. InWindowOf(t, Append(log, x)) = InWindowOf(t, log)
    BY <1>2 DEF InWindowOf
  <2>. QED
    BY <1>0, <1>2, <2>1 DEF CountIn
<1>. QED
  BY <1>1, <1>2

RateNumbers ==
  /\ time \in Nat /\ lastReset \in Nat /\ lastReset <= time
  /\ messageCount \in Nat /\ messageCount <= Limit
  /\ passed \in Seq(Nat) /\ woken \in Seq(Nat)

\* A window that has not begun is empty.  One that is under way has room for what its
\* counter still admits: the counter it began with, once more if the clock reset it, and
\* once more for each worker that woke.  One that is over keeps to its bound.
WindowInv ==
  \A t \in Nat :
    /\ t > time => CountIn(t, passed) = 0 /\ CountIn(t, woken) = 0
    /\ t <= time /\ time < t + RateWindow =>
         CountIn(t, passed) + (Limit - messageCount)
           <= Cap(1 + (IF lastReset >= t THEN 1 ELSE 0) + CountIn(t, woken))
    /\ t <= time => CountIn(t, passed) <= Cap(2 + CountIn(t, woken))

\* What a step does to the counter, its window and the logs.
Ticks      == time' = time + 1 /\ UNCHANGED <<messageCount, lastReset, passed, woken>>
Waits      == UNCHANGED <<time, messageCount, lastReset, passed, woken>>
Admits     == /\ messageCount < Limit /\ messageCount' = messageCount + 1
              /\ passed' = Append(passed, time) /\ UNCHANGED <<time, lastReset, woken>>
Restarts   == /\ messageCount' = 1 /\ lastReset' = time
              /\ passed' = Append(passed, time) /\ UNCHANGED time
ByClock    == Restarts /\ time - lastReset >= RateWindow /\ woken' = woken
ByWorker   == Restarts /\ woken' = Append(woken, time)

LEMMA RateMoves ==
  ASSUME RateNumbers, [RateNext]_rateVars
  PROVE  Ticks \/ Waits \/ Admits \/ ByClock \/ ByWorker
<1> USE DEF RateNumbers
<1>1. CASE TimePasses
  BY <1>1 DEF TimePasses, Ticks
<1>2. CASE UNCHANGED rateVars
  BY <1>2 DEF rateVars, Waits
<1>3. ASSUME NEW w \in Workers, WakeUp(w) PROVE ByWorker
  BY <1>3 DEF WakeUp, ByWorker, Restarts
<1>4. ASSUME NEW w \in Workers, Check(w) PROVE Waits \/ Admits \/ ByClock
  <2>1. CASE time - lastReset >= RateWindow
    <3>1. lastReset' = time /\ messageCount' = 1 /\ passed' = Append(passed, time) /\ UNCHANGED <<time, woken>>
      BY <1>4, <2>1 DEF Check, Full
    <3>. QED
      BY <2>1, <3>1 DEF ByClock, Restarts
  <2>2. CASE ~(time - lastReset >= RateWindow)
    BY <1>4, <2>2 DEF Check, Full, Waits, Admits
  <2>. QED
    BY <2>1, <2>2
<1>. QED
  BY <1>1, <1>2, <1>3, <1>4 DEF RateNext

LEMMA RateNumbersStep ==
  ASSUME RateNumbers, [RateNext]_rateVars
  PROVE  RateNumbers'
<1> USE DEF RateNumbers
<1>1. CASE Ticks
  BY <1>1 DEF Ticks
<1>2. CASE Waits
  BY <1>2 DEF Waits
<1>3. CASE Admits
  BY <1>3 DEF Admits
<1>4. CASE Restarts /\ woken' \in Seq(Nat)
  BY <1>4 DEF Restarts
<1>5. CASE ByClock
  BY <1>4, <1>5 DEF ByClock
<1>6. CASE ByWorker
  <2>1. Append(woken, time) \in Seq(Nat)
    OBVIOUS
  <2>. QED
    BY <1>4, <1>6, <2>1 DEF ByWorker
<1>. QED
  BY <1>1, <1>2, <1>3, <1>5, <1>6, RateMoves

LEMMA WindowStep ==
  ASSUME RateNumbers, WindowInv, [RateNext]_rateVars
  PROVE  WindowInv'
<1> USE DEF RateNumbers
<1> SUFFICES ASSUME NEW t \in Nat
             PROVE  /\ t > time' => CountIn(t, passed') = 0 /\ CountIn(t, woken') = 0
                    /\ t <= time' /\ time' < t + RateWindow =>
                         CountIn(t, passed') + (Limit - messageCount')
                           <= Cap(1 + (IF lastReset' >= t THEN 1 ELSE 0) + CountIn(t, woken'))
                    /\ t <= time' => CountIn(t, passed') <= Cap(2 + CountIn(t, woken'))
  BY DEF WindowInv, CountIn, InWindowOf, Cap
<1>0. CountIn(t, passed) \in Nat /\ CountIn(t, woken) \in Nat
  BY WindowIsFinite
<1>1. /\ t > time => CountIn(t, passed) = 0 /\ CountIn(t, woken) = 0
      /\ t <= time /\ time < t + RateWindow =>
           CountIn(t, passed) + (Limit - messageCount)
             <= Cap(1 + (IF lastReset >= t THEN 1 ELSE 0) + CountIn(t, woken))
      /\ t <= time => CountIn(t, passed) <= Cap(2 + CountIn(t, woken))
  BY DEF WindowInv
<1>2. /\ CountIn(t, Append(passed, time)) = CountIn(t, passed) + IF t <= time /\ time < t + RateWindow THEN 1 ELSE 0
      /\ CountIn(t, Append(woken, time)) = CountIn(t, woken) + IF t <= time /\ time < t + RateWindow THEN 1 ELSE 0
  BY EntryIsCounted
<1> DEFINE P == CountIn(t, passed)
           W == CountIn(t, woken)
\* The bounds that the cases compare.
<1>3. /\ Cap(0) = 0 /\ Cap(1) = Limit /\ Cap(1 + W) \in Nat
      /\ Cap(2 + W) = Cap(1 + W) + Limit /\ Cap(3 + W) = Cap(2 + W) + Limit
      /\ Cap(1 + 0 + W) = Cap(1 + W) /\ Cap(1 + 1 + W) = Cap(2 + W)
      /\ Cap(1 + 1 + (W + 1)) = Cap(3 + W) /\ Cap(2 + (W + 1)) = Cap(3 + W)
  BY <1>0, CapGrows DEF Cap
<1>4. CASE Ticks
  <2>1. time' = time + 1 /\ messageCount' = messageCount /\ lastReset' = lastReset
        /\ passed' = passed /\ woken' = woken
    BY <1>4 DEF Ticks
  <2>2. CASE t = time + 1
    BY <1>0, <1>1, <1>3, <2>1, <2>2
  <2>3. CASE t # time + 1
    BY <1>0, <1>1, <2>1, <2>3
  <2>. QED
    BY <2>2, <2>3
<1>5. CASE Waits
  BY <1>1, <1>5 DEF Waits
<1>6. CASE Admits
  <2>1. /\ messageCount' = messageCount + 1 /\ messageCount < Limit /\ time' = time /\ lastReset' = lastReset
        /\ passed' = Append(passed, time) /\ woken' = woken
    BY <1>6 DEF Admits
  <2>2. CASE t <= time /\ time < t + RateWindow
    <3>1. CountIn(t, passed') = P + 1
      BY <1>2, <2>1, <2>2
    <3>2. P + (Limit - messageCount) <= Cap(1 + (IF lastReset >= t THEN 1 ELSE 0) + W)
      BY <1>1, <2>2
    <3>3. Cap(1 + (IF lastReset >= t THEN 1 ELSE 0) + W) \in {Cap(1 + W), Cap(2 + W)}
      BY <1>3
    <3>5. P + (Limit - messageCount) <= Cap(2 + W)
      <4>1. /\ P \in Nat /\ Cap(1 + W) \in Nat /\ Cap(2 + W) = Cap(1 + W) + Limit
            /\ messageCount \in Nat /\ Limit \in Nat
        BY <1>0, <1>3
      <4>2. P + (Limit - messageCount) <= Cap(1 + W) \/ P + (Limit - messageCount) <= Cap(2 + W)
        BY <3>2, <3>3
      <4>. QED
        BY <4>1, <4>2
    <3>4. P + 1 + (Limit - (messageCount + 1)) <= Cap(1 + (IF lastReset >= t THEN 1 ELSE 0) + W)
      BY <1>0, <3>2
    <3>6. P + 1 <= Cap(2 + W)
      <4>1. P \in Nat /\ Cap(2 + W) \in Nat /\ messageCount < Limit
        BY <1>0, <1>3, <2>1
      <4>. QED
        BY <3>5, <4>1
    <3>. QED
      BY <2>1, <2>2, <3>1, <3>4, <3>6
  <2>3. CASE ~(t <= time /\ time < t + RateWindow)
    <3>1. CountIn(t, passed') = P
      BY <1>0, <1>2, <2>1, <2>3
    <3>. QED
      BY <1>1, <2>1, <2>3, <3>1
  <2>. QED
    BY <2>2, <2>3
\* The clock resets a counter whose window began before this one.
<1>7. CASE ByClock
  <2>1. /\ messageCount' = 1 /\ lastReset' = time /\ time' = time /\ time - lastReset >= RateWindow
        /\ passed' = Append(passed, time) /\ woken' = woken
    BY <1>7 DEF ByClock, Restarts
  <2>2. CASE t <= time /\ time < t + RateWindow
    <3>1. CountIn(t, passed') = P + 1
      BY <1>2, <2>1, <2>2
    <3>2. ~(lastReset >= t)
      BY <2>1, <2>2
    <3>3. P + (Limit - messageCount) <= Cap(1 + W)
      BY <1>0, <1>1, <1>3, <2>2, <3>2
    <3>4. P \in Nat /\ Cap(1 + W) \in Nat /\ Cap(2 + W) = Cap(1 + W) + Limit
      BY <1>0, <1>3
    <3>5. P + 1 + (Limit - 1) <= Cap(2 + W) /\ P + 1 <= Cap(2 + W)
      BY <3>3, <3>4
    <3>. QED
      BY <1>3, <2>1, <2>2, <3>1, <3>5
  <2>3. CASE ~(t <= time /\ time < t + RateWindow)
    <3>1. CountIn(t, passed') = P
      BY <1>0, <1>2, <2>1, <2>3
    <3>. QED
      BY <1>1, <2>1, <2>3, <3>1
  <2>. QED
    BY <2>2, <2>3
<1>8. CASE ByWorker
  <2>1. /\ messageCount' = 1 /\ lastReset' = time /\ time' = time
        /\ passed' = Append(passed, time) /\ woken' = Append(woken, time)
    BY <1>8 DEF ByWorker, Restarts
  <2>2. CASE t <= time /\ time < t + RateWindow
    <3>1. CountIn(t, passed') = P + 1 /\ CountIn(t, woken') = W + 1
      BY <1>2, <2>1, <2>2
    <3>2. P <= Cap(2 + W)
      BY <1>1, <2>2
    <3>3. P + 1 + (Limit - 1) <= Cap(3 + W) /\ P + 1 <= Cap(3 + W)
      BY <1>0, <1>3, <3>2
    <3>. QED
      BY <1>3, <2>1, <2>2, <3>1, <3>3
  <2>3. CASE ~(t <= time /\ time < t + RateWindow)
    <3>1. CountIn(t, passed') = P /\ CountIn(t, woken') = W
      BY <1>0, <1>2, <2>1, <2>3
    <3>. QED
      BY <1>1, <2>1, <2>3, <3>1
  <2>. QED
    BY <2>2, <2>3
<1>. QED
  BY <1>4, <1>5, <1>6, <1>7, <1>8, RateMoves

\* In any window at most twice the limit passes, and once more the limit for each worker
\* that woke in it: for any limit, window and number of workers.
THEOREM LimitIsKept == Spec => []LimitKept
<1>1. RateInit => RateNumbers /\ WindowInv
  <2> SUFFICES ASSUME RateInit PROVE RateNumbers /\ WindowInv
    OBVIOUS
  <2>1. RateNumbers
    BY DEF RateInit, RateNumbers
  <2>2. \A t \in Nat : InWindowOf(t, <<>>) = {}
    BY DEF InWindowOf
  <2>3. \A t \in Nat : CountIn(t, passed) = 0 /\ CountIn(t, woken) = 0
    BY <2>2, FS_EmptySet DEF RateInit, CountIn
  <2>4. time = 0 /\ lastReset = 0 /\ messageCount = 0
    BY DEF RateInit
  <2>5. Cap(1 + 1 + 0) = Limit + Limit /\ Cap(2 + 0) = Limit + Limit
    BY DEF Cap
  <2>. QED
    BY <2>1, <2>3, <2>4, <2>5 DEF WindowInv
<1>2. RateNumbers /\ WindowInv => LimitKept
  <2> SUFFICES ASSUME RateNumbers, WindowInv PROVE LimitKept
    OBVIOUS
  <2> SUFFICES ASSUME NEW t \in 0..MaxTime
               PROVE  Cardinality(InWindowOf(t, passed)) <= Limit * (2 + Cardinality(InWindowOf(t, woken)))
    BY DEF LimitKept
  <2>0. t \in Nat /\ woken \in Seq(Nat)
    BY DEF RateNumbers
  <2>1. CountIn(t, woken) \in Nat
    BY <2>0, WindowIsFinite
  <2>2. Cap(2 + CountIn(t, woken)) \in Nat
    BY <2>1, CapGrows
  <2>3. time \in Nat
    BY DEF RateNumbers
  <2>4. CountIn(t, passed) <= Cap(2 + CountIn(t, woken))
    BY <2>0, <2>1, <2>2, <2>3 DEF WindowInv
  <2>. QED
    BY <2>4 DEF CountIn, Cap
<1>. QED
  BY <1>1, <1>2, RatePart, RateNumbersStep, WindowStep, PTL

-----------------------------------------------------------------------------
(* The jobs by the clock *)

LEMMA CronPart == Spec => CronInit /\ [][CronNext]_cronVars
<1>1. Init => CronInit
  BY DEF Init
<1>2. [Next]_vars => [CronNext]_cronVars
  BY DEF Next, vars, cronVars, CronOf
<1>. QED
  BY <1>1, <1>2, PTL DEF Spec

HIDE RateLimitAssumption DEF RateLimitAssumption
USE DayCronAssumption DEF DayCronAssumption

Stages    == {"idle", "find", "write", "older", "all", "counted", "next", "create"}
TimerMaps == UNION {[S -> Nat] : S \in SUBSET Chats}
RunRecord == [job : Jobs \cup {"none"}, at : Stages, start : Int, begun : Nat, found : Nat, older : Nat, all : Nat,
              todo : SUBSET Chats, chat : SUBSET Chats, timers : TimerMaps, mute : SUBSET Chats]
EventRecord == [chat : Chats, at : Nat, timer : Nat, n : Nat]

\* The parts of the state that no run holds.
CronNumbers ==
  /\ clock \in 0..MaxClock /\ crowd \in Nat
  /\ said \subseteq 0..clock /\ IsFiniteSet(said)
  /\ timer \in [Chats -> Nat] /\ expiries \in [Chats -> Nat]
  /\ summary \in [Starts -> Nat] /\ summed \in [Starts -> Int]
  /\ IsFiniteSet(events) /\ events \subseteq EventRecord

\* What a run holds: only the search for expired chats has cases to do, and creates an event
\* for one of them at a time.
RunFits(r) ==
  /\ r.at \in {"next", "create"} => r.job = "expired"
  /\ r.at \notin {"next", "create"} => r.todo = {}
  /\ r.at # "create" => r.chat = {}
  /\ r.chat \subseteq r.todo
  /\ \A c \in r.todo : r.timers[c] \in Nat
  /\ r.job \in {"summary", "fallback"} =>
       r.begun <= clock /\ r.start \in Starts /\ r.start <= r.begun /\ r.begun < r.start + Day
  /\ r.job = "expired" => \E t \in Nat : r.start = IndianDayWindow(t)

CronRuns == run \in [Instances -> RunRecord] /\ \A i \in Instances : RunFits(run[i])

-----------------------------------------------------------------------------
(* The windows *)

LEMMA Rest ==
  ASSUME NEW a \in Int, NEW b \in Nat \ {0}
  PROVE  /\ a % b \in 0..(b - 1)
         /\ \E q \in Int : a = b * q + (a % b) /\ q = a \div b
<1>1. a % b \in 0..(b - 1)
  OBVIOUS
<1>2. a \div b \in Int
  OBVIOUS
<1>3. a = b * (a \div b) + (a % b)
  OBVIOUS
<1>. QED
  BY <1>1, <1>2, <1>3

\* Multiples of a day are a day apart.
LEMMA Apart ==
  ASSUME NEW b \in Nat \ {0}, NEW p \in Int, NEW q \in Int, p < q
  PROVE  b * p + b <= b * q
<1>1. PICK k \in Nat : q = p + 1 + k
  OBVIOUS
<1>2. b * q = b * p + b + b * k /\ b * k \in Nat
  BY <1>1
<1>3. b * p \in Int /\ b * q \in Int
  OBVIOUS
<1>. QED
  BY <1>2, <1>3

LEMMA SameMultiple ==
  ASSUME NEW b \in Nat \ {0}, NEW p \in Int, NEW q \in Int, NEW x \in Int,
         b * p <= x, x < b * p + b, b * q <= x, x < b * q + b
  PROVE  p = q
<1>1. b * p \in Int /\ b * q \in Int
  OBVIOUS
<1>2. CASE p < q
  BY <1>1, <1>2, Apart
<1>3. CASE q < p
  BY <1>1, <1>3, Apart
<1>. QED
  BY <1>2, <1>3

\* The Indian day of a time begins at most a day before it, and is that of all times in it.
LEMMA IndianDay ==
  ASSUME NEW t \in Nat
  PROVE  /\ IndianDayWindow(t) \in Int
         /\ IndianDayWindow(t) <= t /\ t < IndianDayWindow(t) + Day
         /\ \A x \in Nat : IndianDayWindow(x) = IndianDayWindow(t)
                             <=> IndianDayWindow(t) <= x /\ x < IndianDayWindow(t) + Day
<1>1. \A x \in Nat : \E q \in Int : IndianDayWindow(x) + Offset = Day * q
                                      /\ Day * q <= x + Offset /\ x + Offset < Day * q + Day
  <2> SUFFICES ASSUME NEW x \in Nat
               PROVE  \E q \in Int : IndianDayWindow(x) + Offset = Day * q
                                      /\ Day * q <= x + Offset /\ x + Offset < Day * q + Day
    OBVIOUS
  <2> DEFINE a == x + Offset
  <2>1. a \in Int
    OBVIOUS
  <2> HIDE DEF a
  <2>2. PICK q \in Int : a = Day * q + (a % Day)
    BY <2>1, Rest
  <2>3. a % Day \in 0..(Day - 1) /\ Day * q \in Int
    BY <2>1, Rest
  <2>4. IndianDayWindow(x) = a - (a % Day) - Offset
    BY DEF IndianDayWindow, a
  <2>5. Offset \in Int /\ Day \in Int /\ a % Day >= 0 /\ a % Day < Day
    BY <2>3
  <2> DEFINE m == a % Day
             d == Day * q
             w == IndianDayWindow(x)
  <2>6. m \in Int /\ d \in Int /\ a = d + m /\ m >= 0 /\ m < Day /\ w = a - m - Offset
    BY <2>2, <2>3, <2>4, <2>5
  <2> HIDE DEF m, d, w
  <2>7. w + Offset = d /\ d <= a /\ a < d + Day
    BY ONLY <2>1, <2>5, <2>6
  <2>8. IndianDayWindow(x) + Offset = Day * q /\ Day * q <= a /\ a < Day * q + Day
    BY <2>7 DEF d, w
  <2>. QED
    BY <2>8 DEF a
<1>2. \A x \in Nat : IndianDayWindow(x) \in Int
  <2> SUFFICES ASSUME NEW x \in Nat PROVE IndianDayWindow(x) \in Int
    OBVIOUS
  <2>1. (x + Offset) % Day \in 0..(Day - 1)
    BY Rest
  <2>. QED
    BY <2>1 DEF IndianDayWindow
<1>3. PICK q \in Int : /\ IndianDayWindow(t) + Offset = Day * q
                       /\ Day * q <= t + Offset /\ t + Offset < Day * q + Day
  BY <1>1
<1>4. Day * q \in Int
  OBVIOUS
<1>5. ASSUME NEW x \in Nat
      PROVE  IndianDayWindow(x) = IndianDayWindow(t)
               <=> IndianDayWindow(t) <= x /\ x < IndianDayWindow(t) + Day
  <2>1. PICK p \in Int : /\ IndianDayWindow(x) + Offset = Day * p
                         /\ Day * p <= x + Offset /\ x + Offset < Day * p + Day
    BY <1>1
  <2>2. IndianDayWindow(x) \in Int /\ IndianDayWindow(t) \in Int /\ Day * p \in Int
    BY <1>2
  <2>3. ASSUME IndianDayWindow(t) <= x, x < IndianDayWindow(t) + Day
        PROVE  IndianDayWindow(x) = IndianDayWindow(t)
    <3>1. x + Offset \in Int /\ Day * q <= x + Offset /\ x + Offset < Day * q + Day
      BY <1>3, <1>4, <2>2, <2>3
    <3>2. p = q
      BY <2>1, <3>1, SameMultiple
    <3>3. IndianDayWindow(x) + Offset = IndianDayWindow(t) + Offset
      BY <1>3, <2>1, <3>2
    <3>4. IndianDayWindow(x) \in Int /\ IndianDayWindow(t) \in Int
      BY <1>2
    <3>5. Offset \in Int
      OBVIOUS
    <3>6. \A a, b, o \in Int : a + o = b + o => a = b
      OBVIOUS
    <3>. QED
      BY <3>3, <3>4, <3>5, <3>6
  <2>4. ASSUME IndianDayWindow(x) = IndianDayWindow(t)
        PROVE  IndianDayWindow(t) <= x /\ x < IndianDayWindow(t) + Day
    BY <2>1, <2>2, <2>4
  <2>. QED
    BY <2>3, <2>4
<1>. QED
  BY <1>2, <1>3, <1>4, <1>5

LEMMA DaysGoOn ==
  ASSUME NEW t \in Nat, NEW u \in Nat, t <= u
  PROVE  IndianDayWindow(t) <= IndianDayWindow(u)
<1>1. CASE IndianDayWindow(u) <= t
  <2>1. t < IndianDayWindow(u) + Day
    BY <1>1, IndianDay
  <2>2. IndianDayWindow(t) = IndianDayWindow(u)
    BY <1>1, <2>1, IndianDay
  <2>. QED
    BY <2>2, IndianDay
<1>2. CASE ~(IndianDayWindow(u) <= t)
  BY <1>2, IndianDay
<1>. QED
  BY <1>1, <1>2

\* A business day begins at most a day before a time in it, and its times are those of the
\* Indian day moved by four hours.
LEMMA BusinessWindow ==
  ASSUME NEW t \in Nat
  PROVE  /\ GetIST4amWindow(t) \in Int
         /\ GetIST4amWindow(t) <= t /\ t < GetIST4amWindow(t) + Day
         /\ \A x \in Nat : BusinessDay(x) = BusinessDay(GetIST4amWindow(t)) <=> InWindow(x, GetIST4amWindow(t))
         /\ \A x \in Nat : GetIST4amWindow(x) = GetIST4amWindow(t) <=> InWindow(x, GetIST4amWindow(t))
<1>1. ASSUME NEW x \in Nat
      PROVE  /\ GetIST4amWindow(x) \in Int
             /\ \E q \in Int : /\ GetIST4amWindow(x) + Offset - Four = Day * q
                               /\ Day * q <= x + Offset - Four /\ x + Offset - Four < Day * q + Day
  <2> DEFINE a == x + Offset
  <2>1. a \in Int
    OBVIOUS
  <2> HIDE DEF a
  <2>2. PICK p \in Int : a = Day * p + (a % Day)
    BY <2>1, Rest
  <2>3. a % Day \in 0..(Day - 1) /\ Day * p \in Int
    BY <2>1, Rest
  <2>4. GetIST4amWindow(x) = (IF a % Day < Four THEN a - (a % Day) - Day ELSE a - (a % Day)) + Four - Offset
    BY DEF GetIST4amWindow, a
  <2>5. CASE a % Day < Four
    <3>1. Day * (p - 1) = Day * p - Day /\ p - 1 \in Int
      OBVIOUS
    <3>2. GetIST4amWindow(x) + Offset - Four = Day * p - Day /\ GetIST4amWindow(x) \in Int
      BY <2>1, <2>2, <2>3, <2>4, <2>5
    <3>3. Day * p - Day <= a - Four /\ a - Four < Day * p - Day + Day
      BY <2>1, <2>2, <2>3, <2>5
    <3>4. /\ GetIST4amWindow(x) + Offset - Four = Day * (p - 1)
          /\ Day * (p - 1) <= a - Four /\ a - Four < Day * (p - 1) + Day
      BY <3>1, <3>2, <3>3
    <3>5. x + Offset - Four = a - Four
      BY DEF a
    <3>. QED
      BY <3>1, <3>2, <3>4, <3>5
  <2>6. CASE ~(a % Day < Four)
    <3>2. GetIST4amWindow(x) + Offset - Four = Day * p /\ GetIST4amWindow(x) \in Int
      BY <2>1, <2>2, <2>3, <2>4, <2>6
    <3>3. Day * p <= a - Four /\ a - Four < Day * p + Day
      BY <2>1, <2>2, <2>3, <2>6
    <3>4. x + Offset - Four = a - Four
      BY DEF a
    <3>. QED
      BY <3>2, <3>3, <3>4
  <2>. QED
    BY <2>5, <2>6
<1>2. PICK q \in Int : /\ GetIST4amWindow(t) + Offset - Four = Day * q
                       /\ Day * q <= t + Offset - Four /\ t + Offset - Four < Day * q + Day
  BY <1>1
<1>3. GetIST4amWindow(t) \in Int /\ Day * q \in Int
  BY <1>1
<1>4. ASSUME NEW y \in Int
      PROVE  BusinessDay(y) \in Int /\ Day * BusinessDay(y) <= y + Offset - Four
             /\ y + Offset - Four < Day * BusinessDay(y) + Day
  <2> DEFINE a == y + Offset - Four
  <2>1. a \in Int
    OBVIOUS
  <2> HIDE DEF a
  <2>2. PICK p \in Int : a = Day * p + (a % Day) /\ p = a \div Day
    BY <2>1, Rest
  <2>3. a % Day \in 0..(Day - 1) /\ Day * p \in Int
    BY <2>1, Rest
  <2>4. Day * p <= a /\ a < Day * p + Day
    BY <2>1, <2>2, <2>3
  <2>. QED
    BY <2>2, <2>4 DEF a, BusinessDay
<1>5. BusinessDay(GetIST4amWindow(t)) = q
  <2>1. GetIST4amWindow(t) + Offset - Four < Day * q + Day /\ Day * q <= GetIST4amWindow(t) + Offset - Four
    BY <1>2, <1>3
  <2> DEFINE b == BusinessDay(GetIST4amWindow(t))
             y == GetIST4amWindow(t) + Offset - Four
  <2>2. b \in Int /\ Day * b <= y /\ y < Day * b + Day /\ y \in Int
    BY <1>3, <1>4
  <2> HIDE DEF b, y
  <2>3. Day * q <= y /\ y < Day * q + Day
    BY <2>1 DEF y
  <2>4. b = q
    BY <2>2, <2>3, SameMultiple
  <2>. QED
    BY <2>4 DEF b
<1>6. ASSUME NEW x \in Nat
      PROVE  /\ BusinessDay(x) = q <=> InWindow(x, GetIST4amWindow(t))
             /\ GetIST4amWindow(x) = GetIST4amWindow(t) <=> InWindow(x, GetIST4amWindow(t))
  <2> DEFINE b == BusinessDay(x)
  <2>1. b \in Int /\ Day * b <= x + Offset - Four /\ x + Offset - Four < Day * b + Day /\ Day * b \in Int
    BY <1>4
  <2>2. PICK p \in Int : /\ GetIST4amWindow(x) + Offset - Four = Day * p
                         /\ Day * p <= x + Offset - Four /\ x + Offset - Four < Day * p + Day
    BY <1>1
  <2>3. GetIST4amWindow(x) \in Int /\ Day * p \in Int /\ x + Offset - Four \in Int
    BY <1>1
  <2>4. p = b
    BY <2>1, <2>2, <2>3, SameMultiple
  <2>5. InWindow(x, GetIST4amWindow(t)) <=> Day * q <= x + Offset - Four /\ x + Offset - Four < Day * q + Day
    BY <1>2, <1>3 DEF InWindow
  <2>6. InWindow(x, GetIST4amWindow(t)) => p = q
    BY <2>2, <2>3, <2>5, SameMultiple
  <2>7. p = q => InWindow(x, GetIST4amWindow(t))
    BY <2>2, <2>5
  <2>8. GetIST4amWindow(x) = GetIST4amWindow(t) <=> p = q
    <3>1. p = q => GetIST4amWindow(x) = GetIST4amWindow(t)
      BY <1>2, <1>3, <2>2, <2>3
    <3>2. ASSUME GetIST4amWindow(x) = GetIST4amWindow(t) PROVE p = q
      <4>1. Day * p = Day * q
        BY <1>2, <2>2, <3>2
      <4>2. Day * q <= x + Offset - Four /\ x + Offset - Four < Day * q + Day
        BY <2>2, <4>1
      <4>. QED
        BY <2>2, <2>3, <4>2, SameMultiple
    <3>. QED
      BY <3>1, <3>2
  <2>. QED
    BY <2>4, <2>6, <2>7, <2>8
<1>7. GetIST4amWindow(t) <= t /\ t < GetIST4amWindow(t) + Day
  BY <1>2, <1>3
<1>. QED
  BY <1>3, <1>5, <1>6, <1>7

-----------------------------------------------------------------------------
(* The runs *)

LEMMA IdleFits == Idle \in RunRecord /\ RunFits(Idle)
<1>1. <<>> \in [{} -> Nat]
  OBVIOUS
<1>2. <<>> \in TimerMaps
  BY <1>1 DEF TimerMaps
<1>. QED
  BY <1>2 DEF Idle, RunRecord, RunFits, Stages

LEMMA RunsKept ==
  ASSUME CronRuns, NEW i \in Instances, NEW r \in RunRecord, RunFits(r), Sets(i, r), clock' = clock
  PROVE  CronRuns'
<1>1. run' = [run EXCEPT ![i] = r]
  BY DEF Sets
<1>2. run' \in [Instances -> RunRecord]
  BY <1>1 DEF CronRuns
<1>3. ASSUME NEW j \in Instances PROVE RunFits(run[j])'
  <2>1. RunFits(run[j]) /\ run'[j] = IF j = i THEN r ELSE run[j]
    BY <1>1 DEF CronRuns
  <2>. QED
    BY <2>1 DEF RunFits
<1>. QED
  BY <1>2, <1>3 DEF CronRuns

\* What a step of a run makes of it.
LEMMA FiresFit ==
  ASSUME CronNumbers, CronRuns, NEW i \in Instances, NEW kind \in Jobs, CronFires(i, kind)
  PROVE  \E r \in RunRecord :
           /\ RunFits(r) /\ Sets(i, r) /\ r.job = kind /\ r.at = "find" /\ r.todo = {} /\ r.chat = {}
           /\ kind = "expired" => r.start = IndianDayWindow(clock)
           /\ kind # "expired" => r.start = GetIST4amWindow(clock) /\ r.begun = clock
<1> DEFINE r == [Idle EXCEPT !.job = kind, !.at = "find", !.begun = IF kind = "expired" THEN 0 ELSE clock,
                             !.start = IF kind = "expired" THEN IndianDayWindow(clock) ELSE GetIST4amWindow(clock)]
<1>0. clock \in Nat
  BY DEF CronNumbers
<1>1. IndianDayWindow(clock) \in Int /\ GetIST4amWindow(clock) \in Int
  BY <1>0, IndianDay, BusinessWindow
<1>2. /\ r \in RunRecord /\ r.job = kind /\ r.at = "find" /\ r.todo = {} /\ r.chat = {}
      /\ kind = "expired" => r.start = IndianDayWindow(clock)
      /\ kind # "expired" => r.start = GetIST4amWindow(clock) /\ r.begun = clock
  BY <1>0, <1>1, IdleFits DEF RunRecord, Idle, Stages
<1>3. GetIST4amWindow(clock) <= clock /\ clock < GetIST4amWindow(clock) + Day /\ GetIST4amWindow(clock) \in Starts
  BY <1>0, BusinessWindow DEF Starts, CronNumbers
<1>. HIDE DEF r
<1>4. RunFits(r)
  <2>1. r.job = "expired" => \E t \in Nat : r.start = IndianDayWindow(t)
    BY <1>0, <1>2
  <2>2. r.job \in {"summary", "fallback"} =>
          r.begun <= clock /\ r.start \in Starts /\ r.start <= r.begun /\ r.begun < r.start + Day
    BY <1>0, <1>2, <1>3
  <2>. QED
    BY <1>2, <2>1, <2>2 DEF RunFits
<1>5. Sets(i, r)
  BY DEF CronFires, r
<1>. QED
  BY <1>2, <1>4, <1>5

\* The messages that a window has, and those before it.
OfDay(start)  == {t \in said : InWindow(t, start)}
Before(start) == {t \in said : t < start}

\* Two runs of the same job and window.
SameRun(r, s) == r.job = s.job /\ r.start = s.start /\ r.begun = s.begun

LEMMA SaidIsFinite ==
  ASSUME CronNumbers, NEW S \in SUBSET said
  PROVE  IsFiniteSet(S) /\ Cardinality(S) \in Nat /\ Cardinality(S) <= Cardinality(said) /\ Cardinality(said) \in Nat
BY FS_Subset, FS_CardinalityType DEF CronNumbers

\* What a run of one of the two counting jobs makes of itself.
LEMMA CountsFit ==
  ASSUME CronNumbers, CronRuns, NEW i \in Instances,
         FindMessages(i) \/ CountDay(i) \/ CountHistorical(i) \/ CountTotal(i)
  PROVE  \E r \in RunRecord :
           /\ RunFits(r) /\ Sets(i, r) /\ r.todo = {} /\ r.chat = {}
           /\ r # Idle => SameRun(r, run[i])
           /\ \/ r = Idle /\ FindMessages(i)
              \/ FindMessages(i) /\ r.at = "write" /\ r.found = Cardinality(OfDay(run[i].start))
              \/ CountDay(i) /\ r.at = "older" /\ r.found = Cardinality(OfDay(run[i].start))
              \/ /\ CountHistorical(i) /\ r.at = "all"
                 /\ r.found = run[i].found /\ r.older = Cardinality(Before(run[i].start))
              \/ /\ CountTotal(i) /\ r.at = "counted"
                 /\ r.found = run[i].found /\ r.older = run[i].older /\ r.all = Cardinality(said)
<1> DEFINE n == Cardinality(OfDay(run[i].start))
           m == Cardinality(Before(run[i].start))
<1>0. n \in Nat /\ m \in Nat /\ Cardinality(said) \in Nat
  BY SaidIsFinite DEF OfDay, Before
<1>1. run[i] \in RunRecord /\ RunFits(run[i])
  BY DEF CronRuns
<1>2. run[i].todo = {} /\ run[i].chat = {}
  BY <1>1 DEF RunFits, FindMessages, CountDay, CountHistorical, CountTotal
<1>3. CASE FindMessages(i)
  <2> DEFINE r == [run[i] EXCEPT !.at = "write", !.found = n]
  <2>1. Sets(i, IF n = 0 THEN Idle ELSE r) /\ run[i].job = "summary"
    BY <1>3 DEF FindMessages, OfDay
  <2>2. r \in RunRecord /\ r.at = "write" /\ r.found = n /\ r.todo = {} /\ r.chat = {} /\ SameRun(r, run[i])
    BY <1>0, <1>1, <1>2 DEF RunRecord, Stages, SameRun
  <2> HIDE DEF r
  <2>3. RunFits(r)
    BY <1>1, <2>1, <2>2 DEF RunFits, SameRun
  <2>4. Idle.todo = {} /\ Idle.chat = {}
    BY DEF Idle
  <2>5. CASE n = 0
    BY <1>3, <2>1, <2>4, <2>5, IdleFits
  <2>6. CASE n # 0
    BY <1>3, <2>1, <2>2, <2>3, <2>6
  <2>. QED
    BY <2>5, <2>6
<1>4. CASE CountDay(i)
  <2> DEFINE r == [run[i] EXCEPT !.at = "older", !.found = n]
  <2>1. Sets(i, r) /\ run[i].job = "fallback"
    BY <1>4 DEF CountDay, OfDay
  <2>2. r \in RunRecord /\ r.at = "older" /\ r.found = n /\ r.todo = {} /\ r.chat = {} /\ SameRun(r, run[i])
    BY <1>0, <1>1, <1>2 DEF RunRecord, Stages, SameRun
  <2> HIDE DEF r
  <2>3. RunFits(r)
    BY <1>1, <2>1, <2>2 DEF RunFits, SameRun
  <2>. QED
    BY <1>4, <2>1, <2>2, <2>3
<1>5. CASE CountHistorical(i)
  <2> DEFINE r == [run[i] EXCEPT !.at = "all", !.older = m]
  <2>1. Sets(i, r) /\ run[i].job = "fallback"
    BY <1>5 DEF CountHistorical, Before
  <2>2. /\ r \in RunRecord /\ r.at = "all" /\ r.older = m /\ r.todo = {} /\ r.chat = {} /\ SameRun(r, run[i])
        /\ r.found = run[i].found
    BY <1>0, <1>1, <1>2 DEF RunRecord, Stages, SameRun
  <2> HIDE DEF r
  <2>3. RunFits(r)
    BY <1>1, <2>1, <2>2 DEF RunFits, SameRun
  <2>. QED
    BY <1>5, <2>1, <2>2, <2>3
<1>6. CASE CountTotal(i)
  <2> DEFINE r == [run[i] EXCEPT !.at = "counted", !.all = Cardinality(said)]
  <2>1. Sets(i, r) /\ run[i].job = "fallback"
    BY <1>6 DEF CountTotal
  <2>2. /\ r \in RunRecord /\ r.at = "counted" /\ r.all = Cardinality(said) /\ r.todo = {} /\ r.chat = {}
        /\ SameRun(r, run[i]) /\ r.found = run[i].found /\ r.older = run[i].older
    BY <1>0, <1>1, <1>2 DEF RunRecord, Stages, SameRun
  <2> HIDE DEF r
  <2>3. RunFits(r)
    BY <1>1, <2>1, <2>2 DEF RunFits, SameRun
  <2>. QED
    BY <1>6, <2>1, <2>2, <2>3
<1>. QED
  BY <1>3, <1>4, <1>5, <1>6

\* What a search for expired chats makes of itself.
LEMMA SearchFits ==
  ASSUME CronNumbers, CronRuns, NEW i \in Instances, FindExpired(i)
  PROVE  \E r \in RunRecord :
           /\ RunFits(r) /\ Sets(i, r) /\ r.chat = {}
           /\ r # Idle => r.job = "expired" /\ r.start = run[i].start
           /\ \A c \in r.todo : timer[c] < clock /\ r.timers[c] = timer[c]
<1>1. run[i] \in RunRecord /\ RunFits(run[i])
  BY DEF CronRuns
<1>2. PICK over \in SUBSET {c \in Chats : timer[c] < clock} :
        Sets(i, IF over = {} THEN Idle
                ELSE [run[i] EXCEPT !.at = "next", !.todo = over,
                                    !.timers = [c \in over |-> timer[c]], !.mute = silent \cap over])
  BY DEF FindExpired
<1> DEFINE ts == [c \in over |-> timer[c]]
           r  == [run[i] EXCEPT !.at = "next", !.todo = over, !.timers = ts, !.mute = silent \cap over]
<1>3. ts \in TimerMaps
  <2>1. ts \in [over -> Nat] /\ over \in SUBSET Chats
    BY DEF CronNumbers
  <2>. QED
    BY <2>1 DEF TimerMaps
<1>4. \A c \in over : c \in Chats /\ timer[c] < clock /\ ts[c] = timer[c] /\ ts[c] \in Nat
  BY DEF CronNumbers
<1>5. Sets(i, IF over = {} THEN Idle ELSE r)
  BY <1>2
<1> HIDE DEF ts
<1>6. /\ r \in RunRecord /\ r.at = "next" /\ r.todo = over /\ r.timers = ts /\ r.chat = run[i].chat
      /\ r.job = run[i].job /\ r.start = run[i].start
  BY <1>1, <1>3 DEF RunRecord, Stages
<1>7. run[i].job = "expired" /\ run[i].chat = {}
  BY <1>1 DEF FindExpired, RunFits
<1> HIDE DEF r
<1>8. RunFits(r)
  BY <1>1, <1>4, <1>6, <1>7 DEF RunFits
<1>9. CASE over = {}
  <2>1. Idle.todo = {} /\ Idle.chat = {}
    BY DEF Idle
  <2>. QED
    BY <1>5, <1>9, <2>1, IdleFits
<1>10. CASE over # {}
  BY <1>4, <1>5, <1>6, <1>7, <1>8, <1>10
<1>. QED
  BY <1>9, <1>10

\* The look-up either takes the case out or goes on to create its event.
LEMMA LookUpFits ==
  ASSUME CronNumbers, CronRuns, NEW i \in Instances, NEW c \in Chats, LookUpEvent(i, c)
  PROVE  \E r \in RunRecord :
           /\ RunFits(r) /\ Sets(i, r) /\ c \in run[i].todo /\ r.at # "find"
           /\ r # Idle => r.job = "expired" /\ r.start = run[i].start /\ r.timers = run[i].timers
           /\ \/ ~AlreadyExists(i, c) /\ r # Idle /\ r.todo = run[i].todo /\ r.chat = {c}
              \/ AlreadyExists(i, c) /\ r.todo = run[i].todo \ {c} /\ r.chat = {}
<1>1. run[i] \in RunRecord /\ RunFits(run[i])
  BY DEF CronRuns
<1>2. /\ run[i].at = "next" /\ c \in run[i].todo
      /\ Sets(i, IF ~AlreadyExists(i, c) THEN [run[i] EXCEPT !.at = "create", !.chat = {c}]
                 ELSE IF run[i].todo = {c} THEN Idle ELSE [run[i] EXCEPT !.todo = run[i].todo \ {c}])
  BY DEF LookUpEvent
<1>3. run[i].job = "expired" /\ run[i].chat = {}
  BY <1>1, <1>2 DEF RunFits
<1>4. Idle.todo = {} /\ Idle.chat = {} /\ Idle.at = "idle"
  BY DEF Idle
<1>5. CASE ~AlreadyExists(i, c)
  <2> DEFINE r == [run[i] EXCEPT !.at = "create", !.chat = {c}]
  <2>1. Sets(i, r)
    BY <1>2, <1>5
  <2>2. /\ r \in RunRecord /\ r.at = "create" /\ r.chat = {c} /\ r.todo = run[i].todo
        /\ r.timers = run[i].timers /\ r.job = "expired" /\ r.start = run[i].start
    BY <1>1, <1>3 DEF RunRecord, Stages
  <2> HIDE DEF r
  <2>3. RunFits(r)
    BY <1>1, <1>2, <1>3, <2>2 DEF RunFits
  <2>. QED
    BY <1>2, <1>4, <1>5, <2>1, <2>2, <2>3
<1>6. CASE AlreadyExists(i, c) /\ run[i].todo = {c}
  BY <1>2, <1>4, <1>6, IdleFits
<1>7. CASE AlreadyExists(i, c) /\ run[i].todo # {c}
  <2> DEFINE r == [run[i] EXCEPT !.todo = run[i].todo \ {c}]
  <2>1. Sets(i, r)
    BY <1>2, <1>7
  <2>2. /\ r \in RunRecord /\ r.at = run[i].at /\ r.chat = {} /\ r.todo = run[i].todo \ {c}
        /\ r.timers = run[i].timers /\ r.job = "expired" /\ r.start = run[i].start /\ r.at # "find"
    BY <1>1, <1>2, <1>3 DEF RunRecord
  <2> HIDE DEF r
  <2>3. RunFits(r)
    BY <1>1, <1>2, <1>3, <2>2 DEF RunFits
  <2>. QED
    BY <1>2, <1>7, <2>1, <2>2, <2>3
<1>. QED
  BY <1>5, <1>6, <1>7

NewEvent(i, c) == [chat |-> c, at |-> clock, timer |-> run[i].timers[c], n |-> Cardinality(events)]

\* The event is created with the timer that the run had read, or the run ends.
LEMMA CreateFits ==
  ASSUME CronNumbers, CronRuns, NEW i \in Instances, NEW c \in Chats, CreateEvent(i, c)
  PROVE  \E r \in RunRecord :
           /\ RunFits(r) /\ Sets(i, r) /\ c \in run[i].chat /\ c \in run[i].todo /\ r.chat = {} /\ r.at # "find"
           /\ r # Idle => r.job = "expired" /\ r.start = run[i].start /\ r.timers = run[i].timers
           /\ \/ r = Idle /\ UNCHANGED events
              \/ /\ r.todo = run[i].todo \ {c}
                 /\ NewEvent(i, c) \in EventRecord /\ events' = events \cup {NewEvent(i, c)}
<1>1. run[i] \in RunRecord /\ RunFits(run[i])
  BY DEF CronRuns
<1>2. run[i].at = "create" /\ c \in run[i].chat
  BY DEF CreateEvent
<1>3. run[i].job = "expired" /\ c \in run[i].todo /\ run[i].timers[c] \in Nat
  BY <1>1, <1>2 DEF RunFits
<1>4. Idle.todo = {} /\ Idle.chat = {} /\ Idle.at = "idle"
  BY DEF Idle
<1>5. CASE c \in run[i].mute
  BY <1>2, <1>3, <1>4, <1>5, IdleFits DEF CreateEvent
<1>6. CASE c \notin run[i].mute
  <2>1. /\ events' = events \cup {NewEvent(i, c)}
        /\ Sets(i, IF run[i].todo = {c} THEN Idle
                   ELSE [run[i] EXCEPT !.todo = run[i].todo \ {c}, !.chat = {}, !.at = "next"])
    BY <1>6 DEF CreateEvent, NewEvent
  <2>2. NewEvent(i, c) \in EventRecord
    BY <1>3, FS_CardinalityType DEF NewEvent, EventRecord, CronNumbers
  <2>3. CASE run[i].todo = {c}
    BY <1>2, <1>3, <1>4, <2>1, <2>2, <2>3, IdleFits
  <2>4. CASE run[i].todo # {c}
    <3> DEFINE r == [run[i] EXCEPT !.todo = run[i].todo \ {c}, !.chat = {}, !.at = "next"]
    <3>1. Sets(i, r)
      BY <2>1, <2>4
    <3>2. /\ r \in RunRecord /\ r.at = "next" /\ r.chat = {} /\ r.todo = run[i].todo \ {c}
          /\ r.timers = run[i].timers /\ r.job = "expired" /\ r.start = run[i].start
      BY <1>1, <1>3 DEF RunRecord, Stages
    <3> HIDE DEF r
    <3>4. \E t \in Nat : r.start = IndianDayWindow(t)
      BY <1>1, <1>3, <3>2 DEF RunFits
    <3>5. \A d \in r.todo : r.timers[d] \in Nat
      BY <1>1, <3>2 DEF RunFits
    <3>3. RunFits(r)
      BY <3>2, <3>4, <3>5 DEF RunFits
    <3>. QED
      BY <1>2, <1>3, <2>1, <2>2, <3>1, <3>2, <3>3
  <2>. QED
    BY <2>3, <2>4
<1>. QED
  BY <1>5, <1>6

LEMMA CronNumbersStep ==
  ASSUME CronNumbers, CronRuns, [CronNext]_cronVars
  PROVE  CronNumbers'
<1> USE DEF CronNumbers
<1>1. CASE UNCHANGED cronVars
  BY <1>1 DEF cronVars
<1>2. CASE Tick
  BY <1>2 DEF Tick, chatVars
<1>3. CASE Says
  BY <1>3, FS_AddElement DEF Says, chatVars
<1>4. ASSUME NEW c \in Chats, CustomerReturns(c) PROVE CronNumbers'
  <2>1. timer' \in [Chats -> Nat] /\ expiries' \in [Chats -> Nat]
    BY <1>4 DEF CustomerReturns
  <2>. QED
    BY <1>4, <2>1 DEF CustomerReturns
<1>5. ASSUME NEW i \in Instances, NEW kind \in Jobs, CronFires(i, kind) PROVE CronNumbers'
  BY <1>5 DEF CronFires, chatVars
<1>6. ASSUME NEW i \in Instances, CronEnds(i) \/ CronFails(i) PROVE CronNumbers'
  BY <1>6 DEF CronEnds, CronFails, chatVars
<1>7. ASSUME NEW i \in Instances, FindMessages(i) \/ CountDay(i) \/ CountHistorical(i) \/ CountTotal(i)
      PROVE  CronNumbers'
  BY <1>7 DEF FindMessages, CountDay, CountHistorical, CountTotal, chatVars
<1>8. ASSUME NEW i \in Instances, UpsertSummary(i) PROVE CronNumbers'
  <2>1. run[i].found \in Nat /\ run[i].begun \in Nat
    BY DEF CronRuns, RunRecord
  <2> DEFINE n == run[i].found
             b == run[i].begun
             d == run[i].start
  <2>3. summary' = [summary EXCEPT ![d] = n] /\ summed' = [summed EXCEPT ![d] = b]
    BY <1>8 DEF UpsertSummary
  <2> HIDE DEF n, b, d
  <2>4. n \in Nat /\ b \in Int
    BY <2>1 DEF n, b
  <2>2. summary' \in [Starts -> Nat] /\ summed' \in [Starts -> Int]
    BY <2>3, <2>4
  <2>. QED
    BY <1>8, <2>2 DEF UpsertSummary, chatVars
<1>9. ASSUME NEW i \in Instances, FindExpired(i) PROVE CronNumbers'
  BY <1>9 DEF FindExpired, chatVars
<1>10. ASSUME NEW i \in Instances, NEW c \in Chats, LookUpEvent(i, c) PROVE CronNumbers'
  BY <1>10 DEF LookUpEvent, chatVars
<1>11. ASSUME NEW i \in Instances, NEW c \in Chats, CreateEvent(i, c) PROVE CronNumbers'
  <2>1. \/ UNCHANGED events
        \/ NewEvent(i, c) \in EventRecord /\ events' = events \cup {NewEvent(i, c)}
    BY <1>11, CreateFits
  <2>2. IsFiniteSet(events') /\ events' \subseteq EventRecord
    BY <2>1, FS_AddElement
  <2>. QED
    BY <1>11, <2>2 DEF CreateEvent, chatVars
<1>. QED
  BY <1>1, <1>2, <1>3, <1>4, <1>5, <1>6, <1>7, <1>8, <1>9, <1>10, <1>11 DEF CronNext

LEMMA CronRunsStep ==
  ASSUME CronNumbers, CronRuns, [CronNext]_cronVars
  PROVE  CronRuns'
<1>1. ASSUME UNCHANGED run, clock' >= clock, clock' \in Nat PROVE CronRuns'
  <2>1. \A i \in Instances : RunFits(run[i]) /\ run[i] \in RunRecord
    BY DEF CronRuns
  <2>2. ASSUME NEW i \in Instances PROVE RunFits(run[i])'
    <3>1. run[i].begun \in Nat /\ clock \in Nat
      BY <2>1 DEF RunRecord, CronNumbers
    <3>2. run[i].begun <= clock => run[i].begun <= clock'
      BY <1>1, <3>1
    <3>. QED
      BY <1>1, <2>1, <3>2 DEF RunFits
  <2>. QED
    BY <1>1, <2>2 DEF CronRuns
<1>0. clock \in Nat
  BY DEF CronNumbers
<1>2. CASE UNCHANGED cronVars \/ Tick \/ Says \/ \E c \in Chats : CustomerReturns(c)
  BY <1>0, <1>1, <1>2 DEF cronVars, Tick, Says, CustomerReturns
<1>3. ASSUME NEW i \in Instances, NEW kind \in Jobs, CronFires(i, kind) PROVE CronRuns'
  BY <1>3, FiresFit, RunsKept DEF CronFires
<1>4. ASSUME NEW i \in Instances, CronEnds(i) \/ CronFails(i) \/ UpsertSummary(i) PROVE CronRuns'
  BY <1>4, IdleFits, RunsKept DEF CronEnds, CronFails, UpsertSummary
<1>5. ASSUME NEW i \in Instances, FindMessages(i) \/ CountDay(i) \/ CountHistorical(i) \/ CountTotal(i)
      PROVE  CronRuns'
  <2>1. clock' = clock
    BY <1>5 DEF FindMessages, CountDay, CountHistorical, CountTotal
  <2>. QED
    BY <1>5, <2>1, CountsFit, RunsKept
<1>6. ASSUME NEW i \in Instances, FindExpired(i) PROVE CronRuns'
  BY <1>6, SearchFits, RunsKept DEF FindExpired
<1>7. ASSUME NEW i \in Instances, NEW c \in Chats, LookUpEvent(i, c) PROVE CronRuns'
  BY <1>7, LookUpFits, RunsKept DEF LookUpEvent
<1>8. ASSUME NEW i \in Instances, NEW c \in Chats, CreateEvent(i, c) PROVE CronRuns'
  BY <1>8, CreateFits, RunsKept DEF CreateEvent
<1>. QED
  BY <1>2, <1>3, <1>4, <1>5, <1>6, <1>7, <1>8 DEF CronNext

LEMMA CronStart ==
  ASSUME CronInit
  PROVE  CronNumbers /\ CronRuns
<1>1. CronNumbers
  <2>1. Starts \subseteq Int
    BY BusinessWindow DEF Starts
  <2>. QED
    BY <2>1, FS_EmptySet DEF CronInit, CronNumbers
<1>2. CronRuns
  BY IdleFits DEF CronInit, CronRuns
<1>. QED
  BY <1>1, <1>2

-----------------------------------------------------------------------------
(* The markers of the timeline *)

\* The timers of a case that its events show, or that a run has read.
Seen(c) == {e.timer : e \in {f \in events : f.chat = c}}
             \cup {run[i].timers[c] : i \in {j \in Instances : c \in run[j].todo}}

\* The present timer of a case, once it is over.
Over(c) == {x \in {timer[c]} : x < clock}

\* What was seen is over; of the timers before the present one each ran out once.
SeenInv ==
  \A c \in Chats :
    /\ IsFiniteSet(Seen(c))
    /\ \A x \in Seen(c) : x \in Nat /\ x < clock
    /\ Cardinality(Seen(c) \ {timer[c]}) <= expiries[c]

\* The events are numbered.
NumbersInv ==
  \A e \in events : e.n < Cardinality(events) /\ \A f \in events : e.n = f.n => e = f

\* What a run does to the timers it has read, and to the events.
LEMMA SeenByRun ==
  ASSUME CronRuns, NEW i \in Instances, NEW r \in RunRecord, Sets(i, r), NEW c \in Chats, NEW x \in Seen(c)'
  PROVE  \/ \E e \in events' : e.chat = c /\ x = e.timer
         \/ c \in r.todo /\ x = r.timers[c]
         \/ x \in Seen(c)
<1>1. run' = [run EXCEPT ![i] = r]
  BY DEF Sets
<1>2. CASE \E e \in events' : e.chat = c /\ x = e.timer
  BY <1>2
<1>3. ASSUME NEW j \in Instances, c \in run'[j].todo, x = run'[j].timers[c]
      PROVE  (c \in r.todo /\ x = r.timers[c]) \/ x \in Seen(c)
  <2>1. run'[j] = IF j = i THEN r ELSE run[j]
    BY <1>1 DEF CronRuns
  <2>2. CASE j = i
    BY <1>3, <2>1, <2>2
  <2>3. CASE j # i
    BY <1>3, <2>1, <2>3 DEF Seen
  <2>. QED
    BY <2>2, <2>3
<1>. QED
  BY <1>2, <1>3 DEF Seen

\* A step that reads no timer but one that is over.
LEMMA SeenKept ==
  ASSUME CronNumbers, CronNumbers', SeenInv, UNCHANGED <<timer, expiries>>, clock' >= clock,
         \A c \in Chats : Seen(c)' \subseteq Seen(c) \cup Over(c)
  PROVE  SeenInv'
<1> SUFFICES ASSUME NEW c \in Chats
             PROVE  /\ IsFiniteSet(Seen(c)')
                    /\ \A x \in Seen(c)' : x \in Nat /\ x < clock'
                    /\ Cardinality(Seen(c)' \ {timer[c]}) <= expiries[c]
  BY DEF SeenInv
<1>1. IsFiniteSet(Seen(c)) /\ Cardinality(Seen(c) \ {timer[c]}) <= expiries[c]
  BY DEF SeenInv
<1>2. Seen(c)' \subseteq Seen(c) \cup {timer[c]}
  BY DEF Over
<1>3. IsFiniteSet(Seen(c)')
  BY <1>1, <1>2, FS_AddElement, FS_Subset
<1>4. \A x \in Seen(c)' : x \in Nat /\ x < clock'
  <2>1. clock \in Nat /\ clock' \in Nat /\ timer[c] \in Nat
    BY DEF CronNumbers
  <2>2. \A x \in Seen(c)' : x \in Nat /\ x < clock
    BY <2>1 DEF SeenInv, Over
  <2>. QED
    BY <2>1, <2>2
<1>5. Cardinality(Seen(c)' \ {timer[c]}) <= expiries[c]
  <2>1. Seen(c)' \ {timer[c]} \in SUBSET (Seen(c) \ {timer[c]})
    BY <1>2
  <2>2. IsFiniteSet(Seen(c) \ {timer[c]})
    BY <1>1, FS_RemoveElement
  <2>3. IsFiniteSet(Seen(c)' \ {timer[c]}) /\ Cardinality(Seen(c)' \ {timer[c]}) <= Cardinality(Seen(c) \ {timer[c]})
    BY <2>1, <2>2, FS_Subset
  <2>4. Cardinality(Seen(c)' \ {timer[c]}) \in Nat /\ Cardinality(Seen(c) \ {timer[c]}) \in Nat /\ expiries[c] \in Nat
    BY <2>2, <2>3, FS_CardinalityType DEF CronNumbers
  <2>. QED
    BY <1>1, <2>3, <2>4
<1>. QED
  BY <1>3, <1>4, <1>5

LEMMA SeenStep ==
  ASSUME CronNumbers, CronRuns, CronNumbers', SeenInv, [CronNext]_cronVars
  PROVE  SeenInv'
<1>0. clock \in Nat
  BY DEF CronNumbers
<1>1. CASE UNCHANGED cronVars \/ Tick \/ Says
  <2>1. UNCHANGED <<timer, expiries, run, events>> /\ clock' >= clock
    BY <1>0, <1>1 DEF cronVars, Tick, Says, chatVars
  <2>2. \A c \in Chats : Seen(c)' = Seen(c)
    BY <2>1 DEF Seen
  <2>3. \A c \in Chats : Seen(c)' \subseteq Seen(c) \cup Over(c)
    BY <2>2
  <2>. QED
    BY <2>1, <2>3, SeenKept
\* The timer is set anew, the old one counts as run out.
<1>2. ASSUME NEW d \in Chats, CustomerReturns(d) PROVE SeenInv'
  <2>1. /\ timer' = [timer EXCEPT ![d] = clock + Day] /\ expiries' = [expiries EXCEPT ![d] = expiries[d] + 1]
        /\ UNCHANGED <<clock, run, events>>
    BY <1>2 DEF CustomerReturns
  <2>2. \A c \in Chats : Seen(c)' = Seen(c)
    BY <2>1 DEF Seen
  <2>3. timer[d] \in Nat /\ expiries[d] \in Nat
    BY DEF CronNumbers
  <2>4. \A c \in Chats \ {d} : timer'[c] = timer[c] /\ expiries'[c] = expiries[c]
    BY <2>1
  <2>5. timer'[d] = clock + Day /\ expiries'[d] = expiries[d] + 1
    BY <2>1 DEF CronNumbers
  <2>6. Cardinality(Seen(d) \ {timer'[d]}) <= expiries'[d]
    <3>1. IsFiniteSet(Seen(d)) /\ Cardinality(Seen(d) \ {timer[d]}) <= expiries[d]
      BY DEF SeenInv
    <3>2. Seen(d) \ {timer'[d]} \in SUBSET ((Seen(d) \ {timer[d]}) \cup {timer[d]})
      OBVIOUS
    <3>3. IsFiniteSet(Seen(d) \ {timer[d]}) /\ Cardinality(Seen(d) \ {timer[d]}) \in Nat
      BY <3>1, FS_RemoveElement, FS_CardinalityType
    <3>4. /\ IsFiniteSet((Seen(d) \ {timer[d]}) \cup {timer[d]})
          /\ Cardinality((Seen(d) \ {timer[d]}) \cup {timer[d]}) = Cardinality(Seen(d) \ {timer[d]}) + 1
      BY <3>3, FS_AddElement
    <3>5. /\ Cardinality(Seen(d) \ {timer'[d]}) <= Cardinality((Seen(d) \ {timer[d]}) \cup {timer[d]})
          /\ Cardinality(Seen(d) \ {timer'[d]}) \in Nat
      BY <3>2, <3>4, FS_Subset, FS_CardinalityType
    <3>. QED
      BY <2>3, <2>5, <3>1, <3>3, <3>4, <3>5
  <2>. QED
    BY <2>1, <2>2, <2>4, <2>6 DEF SeenInv
\* A step of a run: its cases become fewer, or their timers are read.
<1>3. ASSUME NEW i \in Instances, NEW r \in RunRecord, Sets(i, r), UNCHANGED <<clock, timer, expiries, events>>,
             \A c \in r.todo : r.timers[c] \in Seen(c) \cup Over(c)
      PROVE  SeenInv'
  <2>1. ASSUME NEW c \in Chats, NEW x \in Seen(c)' PROVE x \in Seen(c) \cup Over(c)
    <3>1. (\E e \in events : e.chat = c /\ x = e.timer) => x \in Seen(c)
      BY DEF Seen
    <3>2. \/ \E e \in events' : e.chat = c /\ x = e.timer
          \/ c \in r.todo /\ x = r.timers[c]
          \/ x \in Seen(c)
      BY <1>3, SeenByRun
    <3>. QED
      BY <1>3, <3>1, <3>2
  <2>2. \A c \in Chats : Seen(c)' \subseteq Seen(c) \cup Over(c)
    BY <2>1
  <2>. QED
    BY <1>0, <1>3, <2>2, SeenKept
<1>4. ASSUME NEW i \in Instances, NEW kind \in Jobs, CronFires(i, kind) PROVE SeenInv'
  BY <1>3, <1>4, FiresFit DEF CronFires, chatVars
<1>5. ASSUME NEW i \in Instances, CronEnds(i) \/ CronFails(i) \/ UpsertSummary(i) PROVE SeenInv'
  <2>1. Idle.todo = {} /\ Sets(i, Idle) /\ UNCHANGED <<clock, timer, expiries, events>>
    BY <1>5 DEF Idle, CronEnds, CronFails, UpsertSummary, chatVars
  <2>. QED
    BY <1>3, <2>1, IdleFits
<1>6. ASSUME NEW i \in Instances, FindMessages(i) \/ CountDay(i) \/ CountHistorical(i) \/ CountTotal(i)
      PROVE  SeenInv'
  <2>1. UNCHANGED <<clock, timer, expiries, events>>
    BY <1>6 DEF FindMessages, CountDay, CountHistorical, CountTotal, chatVars
  <2>2. PICK r \in RunRecord : Sets(i, r) /\ r.todo = {}
    BY <1>6, CountsFit
  <2>. QED
    BY <1>3, <2>1, <2>2
<1>7. ASSUME NEW i \in Instances, FindExpired(i) PROVE SeenInv'
  <2>1. UNCHANGED <<clock, timer, expiries, events>>
    BY <1>7 DEF FindExpired, chatVars
  <2>2. PICK r \in RunRecord : Sets(i, r) /\ \A c \in r.todo : timer[c] < clock /\ r.timers[c] = timer[c]
    BY <1>7, SearchFits
  <2>3. \A c \in r.todo : r.timers[c] \in Over(c)
    BY <2>2 DEF Over
  <2>. QED
    BY <1>3, <2>1, <2>2, <2>3
<1>8. ASSUME NEW i \in Instances, NEW d \in Chats, LookUpEvent(i, d) PROVE SeenInv'
  <2>1. UNCHANGED <<clock, timer, expiries, events>>
    BY <1>8 DEF LookUpEvent, chatVars
  <2>2. PICK r \in RunRecord : /\ Sets(i, r) /\ r.todo \subseteq run[i].todo
                               /\ r # Idle => r.timers = run[i].timers
    BY <1>8, LookUpFits
  <2>3. \A c \in r.todo : r.timers[c] \in Seen(c)
    BY <2>2 DEF Seen, Idle
  <2>. QED
    BY <1>3, <2>1, <2>2, <2>3
\* The event gets the timer that the run had read.
<1>9. ASSUME NEW i \in Instances, NEW d \in Chats, CreateEvent(i, d) PROVE SeenInv'
  <2>1. UNCHANGED <<clock, timer, expiries>>
    BY <1>9 DEF CreateEvent, chatVars
  <2>2. PICK r \in RunRecord :
          /\ Sets(i, r) /\ d \in run[i].todo
          /\ r # Idle => r.timers = run[i].timers
          /\ \/ r = Idle /\ UNCHANGED events
             \/ r.todo = run[i].todo \ {d} /\ events' = events \cup {NewEvent(i, d)}
    BY <1>9, CreateFits
  <2>3. \A c \in r.todo : r.timers[c] \in Seen(c)
    BY <2>2 DEF Seen, Idle
  <2>4. NewEvent(i, d).chat = d /\ NewEvent(i, d).timer \in Seen(d)
    BY <2>2 DEF NewEvent, Seen
  <2>5. ASSUME NEW c \in Chats, NEW x \in Seen(c)' PROVE x \in Seen(c)
    <3>1. ASSUME NEW e \in events', e.chat = c, x = e.timer PROVE x \in Seen(c)
      <4>1. CASE e \in events
        BY <3>1, <4>1 DEF Seen
      <4>2. CASE e = NewEvent(i, d)
        BY <2>4, <3>1, <4>2
      <4>. QED
        BY <2>2, <3>1, <4>1, <4>2
    <3>2. \/ \E e \in events' : e.chat = c /\ x = e.timer
          \/ c \in r.todo /\ x = r.timers[c]
          \/ x \in Seen(c)
      BY <2>2, SeenByRun
    <3>. QED
      BY <2>3, <3>1, <3>2
  <2>6. \A c \in Chats : Seen(c)' \subseteq Seen(c) \cup Over(c)
    BY <2>5
  <2>. QED
    BY <1>0, <2>1, <2>6, SeenKept
<1>. QED
  BY <1>1, <1>2, <1>4, <1>5, <1>6, <1>7, <1>8, <1>9 DEF CronNext

LEMMA NumbersStep ==
  ASSUME CronNumbers, CronRuns, NumbersInv, [CronNext]_cronVars
  PROVE  NumbersInv'
<1>1. CASE UNCHANGED events
  BY <1>1 DEF NumbersInv
<1>2. ASSUME NEW i \in Instances, NEW c \in Chats, CreateEvent(i, c) PROVE NumbersInv'
  <2>1. UNCHANGED events \/ events' = events \cup {NewEvent(i, c)}
    BY <1>2, CreateFits
  <2>2. CASE events' = events \cup {NewEvent(i, c)}
    <3> DEFINE k == Cardinality(events)
    <3>1. IsFiniteSet(events) /\ k \in Nat
      BY FS_CardinalityType DEF CronNumbers
    <3>2. NewEvent(i, c).n = k
      BY DEF NewEvent
    <3>3. NewEvent(i, c) \notin events
      BY <3>1, <3>2 DEF NumbersInv
    <3>4. Cardinality(events') = k + 1
      BY <2>2, <3>1, <3>3, FS_AddElement
    <3>5. \A e \in events : e.n \in Nat /\ e.n < k
      BY DEF NumbersInv, CronNumbers, EventRecord
    <3>. HIDE DEF k
    <3>6. \A e \in events' : e \in events \/ e = NewEvent(i, c)
      BY <2>2
    <3>. QED
      BY <3>1, <3>2, <3>4, <3>5, <3>6 DEF NumbersInv
  <2>. QED
    BY <1>1, <2>1, <2>2
<1>3. [CronNext]_cronVars => UNCHANGED events \/ \E i \in Instances, c \in Chats : CreateEvent(i, c)
  BY DEF CronNext, cronVars, Tick, Says, CustomerReturns, CronFires, CronEnds, CronFails, FindMessages, UpsertSummary,
         CountDay, CountHistorical, CountTotal, FindExpired, LookUpEvent
<1>. QED
  BY <1>1, <1>2, <1>3

\* Each marker has its own timer; the timers were seen, and ran out.
LEMMA MarkersAreSeen ==
  ASSUME CronNumbers, SeenInv, NumbersInv
  PROVE  OneMarkerPerExpiry
<1> SUFFICES ASSUME NEW c \in Chats
             PROVE  Cardinality(Markers(c)) <= expiries[c] + (IF timer[c] < clock THEN 1 ELSE 0)
  BY DEF OneMarkerPerExpiry
<1>1. /\ IsFiniteSet(Seen(c)) /\ Cardinality(Seen(c) \ {timer[c]}) <= expiries[c]
      /\ \A x \in Seen(c) : x \in Nat /\ x < clock
  BY DEF SeenInv
<1> DEFINE F == [e \in Markers(c) |-> e.timer]
<1>2. F \in [Markers(c) -> Seen(c)]
  BY DEF Markers, Seen
<1>3. \A e, f \in Markers(c) : F[e] = F[f] => e = f
  <2> SUFFICES ASSUME NEW e \in Markers(c), NEW f \in Markers(c), e.timer = f.timer
               PROVE  e = f
    OBVIOUS
  <2>1. e \in events /\ f \in events /\ e.n <= f.n /\ f.n <= e.n
    BY DEF Markers
  <2>2. e.n \in Nat /\ f.n \in Nat
    BY <2>1 DEF CronNumbers, EventRecord
  <2>3. e.n = f.n
    BY <2>1, <2>2
  <2>. QED
    BY <2>1, <2>3 DEF NumbersInv
<1>4. F \in Injection(Markers(c), Seen(c))
  BY <1>2, <1>3 DEF Injection, IsInjective
<1> HIDE DEF F
<1>5. IsFiniteSet(Markers(c)) /\ Cardinality(Markers(c)) <= Cardinality(Seen(c))
  BY <1>1, <1>4, FS_Injection
<1>6. /\ Cardinality(Markers(c)) \in Nat /\ Cardinality(Seen(c)) \in Nat /\ timer[c] \in Nat /\ clock \in Nat
      /\ expiries[c] \in Nat
  BY <1>1, <1>5, FS_CardinalityType DEF CronNumbers
<1>7. Cardinality(Seen(c) \ {timer[c]}) = IF timer[c] \in Seen(c) THEN Cardinality(Seen(c)) - 1 ELSE Cardinality(Seen(c))
  BY <1>1, FS_RemoveElement
<1>8. CASE timer[c] \in Seen(c)
  <2>1. timer[c] < clock
    BY <1>1, <1>8
  <2>. QED
    BY <1>1, <1>5, <1>6, <1>7, <1>8, <2>1
<1>9. CASE timer[c] \notin Seen(c)
  BY <1>1, <1>5, <1>6, <1>7, <1>9
<1>. QED
  BY <1>8, <1>9

\* A case is shown as expired once for each time its timer ran out: for any numbers of cases,
\* runs beside each other and days that it stayed expired.
THEOREM OneMarkerEach == Spec => []OneMarkerPerExpiry
<1>1. CronInit => SeenInv /\ NumbersInv
  <2> SUFFICES ASSUME CronInit PROVE SeenInv /\ NumbersInv
    OBVIOUS
  <2>1. \A c \in Chats : Seen(c) = {}
    BY DEF CronInit, Seen, Idle
  <2>2. \A x : {} \ {x} = {}
    OBVIOUS
  <2>3. IsFiniteSet({}) /\ Cardinality({}) = 0
    BY FS_EmptySet
  <2>4. events = {} /\ \A c \in Chats : expiries[c] = 0
    BY DEF CronInit
  <2>5. SeenInv
    <3> SUFFICES ASSUME NEW c \in Chats
                 PROVE  /\ IsFiniteSet(Seen(c)) /\ \A x \in Seen(c) : x \in Nat /\ x < clock
                        /\ Cardinality(Seen(c) \ {timer[c]}) <= expiries[c]
      BY DEF SeenInv
    <3>1. Seen(c) = {} /\ Seen(c) \ {timer[c]} = {} /\ expiries[c] = 0
      BY <2>1, <2>2, <2>4
    <3>2. Cardinality(Seen(c) \ {timer[c]}) = 0
      BY <2>3, <3>1
    <3>. QED
      BY <2>3, <3>1, <3>2
  <2>. QED
    BY <2>4, <2>5 DEF NumbersInv
<1>. QED
  BY <1>1, CronPart, CronStart, CronNumbersStep, CronRunsStep, SeenStep, NumbersStep, MarkersAreSeen, PTL

-----------------------------------------------------------------------------
(* The counts of the fallback messages *)

\* The messages of a run's day from before it was begun, and those written since.
Early(r) == {t \in said : r.start <= t /\ t < r.begun}
Since(r) == {t \in said : t >= r.begun}

\* A count of the day has the messages from before the run at least, and those older stay as
\* they were when it was begun.
CountsFor(r) ==
  /\ r.at \in {"older", "all"} => Cardinality(Early(r)) <= r.found /\ r.found <= Cardinality(OfDay(r.start))
  /\ r.at = "all" => r.older = Cardinality(Before(r.start))
  /\ r.at = "counted" => r.found + r.older <= r.all /\ r.all <= r.found + r.older + Cardinality(Since(r))

CountsInv == \A i \in Instances : run[i].job = "fallback" => CountsFor(run[i])

\* A message that is written is of no earlier time than a run's.
LEMMA CountsLast ==
  ASSUME CronNumbers, CronNumbers', NEW r \in RunRecord, RunFits(r), r.job = "fallback", CountsFor(r),
         UNCHANGED said \/ (said' = said \cup {clock} /\ clock \notin said)
  PROVE  CountsFor(r)'
<1>1. r.start \in Int /\ r.begun \in Nat /\ clock \in Nat /\ r.start <= r.begun /\ r.begun <= clock
  BY DEF RunFits, RunRecord, CronNumbers
<1>2. Early(r)' = Early(r) /\ Before(r.start)' = Before(r.start)
  BY <1>1 DEF Early, Before
<1>3. OfDay(r.start) \subseteq OfDay(r.start)' /\ Since(r) \subseteq Since(r)'
  BY DEF OfDay, Since
<1>4. OfDay(r.start)' \in SUBSET said' /\ Since(r)' \in SUBSET said' /\ IsFiniteSet(said')
  BY DEF OfDay, Since, CronNumbers
<1>5. IsFiniteSet(OfDay(r.start)') /\ IsFiniteSet(Since(r)')
  BY <1>4, FS_Subset
<1>6. /\ Cardinality(OfDay(r.start)) <= Cardinality(OfDay(r.start)')
      /\ Cardinality(Since(r)) <= Cardinality(Since(r)')
      /\ Cardinality(OfDay(r.start)) \in Nat /\ Cardinality(OfDay(r.start)') \in Nat
      /\ Cardinality(Since(r)) \in Nat /\ Cardinality(Since(r)') \in Nat
  BY <1>3, <1>5, FS_Subset, FS_CardinalityType
<1>7. r.found \in Nat /\ r.older \in Nat /\ r.all \in Nat
  BY DEF RunRecord
<1>8. r.found <= Cardinality(OfDay(r.start)) => r.found <= Cardinality(OfDay(r.start)')
  BY <1>6, <1>7
<1>9. r.all <= r.found + r.older + Cardinality(Since(r)) => r.all <= r.found + r.older + Cardinality(Since(r)')
  BY <1>6, <1>7
<1>. QED
  BY <1>2, <1>8, <1>9 DEF CountsFor

LEMMA DisjointAdd ==
  ASSUME NEW S, NEW T, IsFiniteSet(S), IsFiniteSet(T), S \cap T = {}
  PROVE  IsFiniteSet(S \cup T) /\ Cardinality(S \cup T) = Cardinality(S) + Cardinality(T)
<1>1. IsFiniteSet(S \cup T) /\ Cardinality(S \cup T) = Cardinality(S) + Cardinality(T) - Cardinality(S \cap T)
  BY FS_Union
<1>2. Cardinality(S \cap T) = 0
  BY FS_EmptySet
<1>3. Cardinality(S) \in Nat /\ Cardinality(T) \in Nat
  BY FS_CardinalityType
<1>. QED
  BY <1>1, <1>2, <1>3

\* The three counts of a run fit.
LEMMA CountsAdd ==
  ASSUME CronNumbers, NEW r \in RunRecord, RunFits(r), r.job = "fallback", CountsFor(r), r.at = "all"
  PROVE  /\ r.found + r.older <= Cardinality(said)
         /\ Cardinality(said) <= r.found + r.older + Cardinality(Since(r))
<1> DEFINE E == Early(r)
           B == Before(r.start)
           D == OfDay(r.start)
           S == Since(r)
<1>0. r.start \in Int /\ r.begun \in Nat /\ r.start <= r.begun /\ \A t \in said : t \in Nat
  BY DEF RunFits, RunRecord, CronNumbers
<1>1. E \in SUBSET said /\ B \in SUBSET said /\ D \in SUBSET said /\ S \in SUBSET said
  BY DEF Early, Before, OfDay, Since
<1>2. B \cap D = {} /\ B \cap E = {}
  BY <1>0 DEF Early, Before, OfDay, InWindow
<1>3. said = (B \cup E) \cup S
  BY <1>0 DEF Early, Before, Since
<1>4. Cardinality(E) <= r.found /\ r.found <= Cardinality(D) /\ r.older = Cardinality(B)
  BY DEF CountsFor
<1> HIDE DEF E, B, D, S
<1>5. /\ IsFiniteSet(E) /\ IsFiniteSet(B) /\ IsFiniteSet(D) /\ IsFiniteSet(S)
      /\ Cardinality(E) \in Nat /\ Cardinality(B) \in Nat /\ Cardinality(D) \in Nat /\ Cardinality(S) \in Nat
  BY <1>1, SaidIsFinite
<1>6. IsFiniteSet(B \cup D) /\ Cardinality(B \cup D) = Cardinality(B) + Cardinality(D)
  BY <1>2, <1>5, DisjointAdd
<1>7. IsFiniteSet(B \cup E) /\ Cardinality(B \cup E) = Cardinality(B) + Cardinality(E)
  BY <1>2, <1>5, DisjointAdd
<1>8. Cardinality(B \cup D) <= Cardinality(said) /\ Cardinality(said) \in Nat
  BY <1>1, SaidIsFinite
<1>9. Cardinality(said) <= Cardinality(B \cup E) + Cardinality(S)
  <2>1. Cardinality(said) = Cardinality(B \cup E) + Cardinality(S) - Cardinality((B \cup E) \cap S)
    BY <1>3, <1>5, <1>7, FS_Union
  <2>2. Cardinality((B \cup E) \cap S) \in Nat
    BY <1>5, FS_Intersection, FS_CardinalityType
  <2>. QED
    BY <1>5, <1>7, <2>1, <2>2
<1>10. r.found \in Nat /\ r.older \in Nat
  BY DEF RunRecord
<1>11. r.found + r.older <= Cardinality(said)
  BY <1>4, <1>5, <1>6, <1>8, <1>10
<1>12. Cardinality(said) <= r.found + r.older + Cardinality(S)
  BY <1>4, <1>5, <1>7, <1>8, <1>9, <1>10
<1>. QED
  BY <1>11, <1>12 DEF S

LEMMA CountsStep ==
  ASSUME CronNumbers, CronRuns, CronNumbers', CountsInv, [CronNext]_cronVars
  PROVE  CountsInv'
\* The run that steps, if it is of this job, has its counts; the others have theirs.
<1>1. ASSUME NEW i \in Instances, NEW r \in RunRecord, Sets(i, r), UNCHANGED said,
             r.job = "fallback" => CountsFor(r)
      PROVE  CountsInv'
  <2>1. run' = [run EXCEPT ![i] = r]
    BY <1>1 DEF Sets
  <2> SUFFICES ASSUME NEW j \in Instances, run'[j].job = "fallback" PROVE CountsFor(run[j])'
    BY DEF CountsInv
  <2>2. run'[j] = IF j = i THEN r ELSE run[j]
    BY <2>1 DEF CronRuns
  <2>3. CountsFor(run'[j])
    BY <1>1, <2>2 DEF CountsInv
  <2>. QED
    BY <1>1, <2>3 DEF CountsFor, Early, Before, OfDay, Since
<1>2. CASE UNCHANGED cronVars \/ Tick \/ Says \/ \E c \in Chats : CustomerReturns(c)
  <2>1. /\ UNCHANGED run
        /\ UNCHANGED said \/ (said' = said \cup {clock} /\ clock \notin said)
    BY <1>2 DEF cronVars, Tick, Says, CustomerReturns
  <2> SUFFICES ASSUME NEW i \in Instances, run'[i].job = "fallback" PROVE CountsFor(run[i])'
    BY DEF CountsInv
  <2> DEFINE r == run[i]
  <2>2. r \in RunRecord /\ RunFits(r) /\ r.job = "fallback" /\ CountsFor(r)
    BY <2>1 DEF CronRuns, CountsInv
  <2> HIDE DEF r
  <2>3. r' = r
    BY <2>1 DEF r
  <2>4. ASSUME NEW s, s = r PROVE CountsFor(s)'
    BY <2>1, <2>2, <2>4, CountsLast
  <2>. QED
    BY <2>3, <2>4 DEF r, CountsFor, Early, Before, OfDay, Since
<1>3. ASSUME NEW i \in Instances, NEW kind \in Jobs, CronFires(i, kind) PROVE CountsInv'
  <2>1. PICK r \in RunRecord : Sets(i, r) /\ r.at = "find"
    BY <1>3, FiresFit
  <2>. QED
    BY <1>1, <1>3, <2>1 DEF CronFires, CountsFor
<1>4. ASSUME NEW i \in Instances, CronEnds(i) \/ CronFails(i) \/ UpsertSummary(i) PROVE CountsInv'
  <2>1. Idle.job # "fallback"
    BY DEF Idle
  <2>. QED
    BY <1>1, <1>4, <2>1, IdleFits DEF CronEnds, CronFails, UpsertSummary
<1>5. ASSUME NEW i \in Instances, FindMessages(i) \/ CountDay(i) \/ CountHistorical(i) \/ CountTotal(i)
      PROVE  CountsInv'
  <2>0. run[i] \in RunRecord /\ RunFits(run[i]) /\ (run[i].job = "fallback" => CountsFor(run[i]))
    BY DEF CronRuns, CountsInv
  <2>1. PICK r \in RunRecord :
           /\ RunFits(r) /\ Sets(i, r) /\ r.todo = {} /\ r.chat = {}
           /\ r # Idle => SameRun(r, run[i])
           /\ \/ r = Idle /\ FindMessages(i)
              \/ FindMessages(i) /\ r.at = "write" /\ r.found = Cardinality(OfDay(run[i].start))
              \/ CountDay(i) /\ r.at = "older" /\ r.found = Cardinality(OfDay(run[i].start))
              \/ /\ CountHistorical(i) /\ r.at = "all"
                 /\ r.found = run[i].found /\ r.older = Cardinality(Before(run[i].start))
              \/ /\ CountTotal(i) /\ r.at = "counted"
                 /\ r.found = run[i].found /\ r.older = run[i].older /\ r.all = Cardinality(said)
    BY <1>5, CountsFit
  <2>2. UNCHANGED said
    BY <1>5 DEF FindMessages, CountDay, CountHistorical, CountTotal
  <2>3. Idle.at = "idle"
    BY DEF Idle
  <2>4. CASE r = Idle \/ FindMessages(i)
    <3>1. r.at \in {"idle", "write"} \/ r.job # "fallback"
      BY <2>1, <2>3, <2>4 DEF FindMessages, SameRun, Idle
    <3>. QED
      BY <1>1, <2>1, <2>2, <3>1 DEF CountsFor
  <2>5. CASE CountDay(i) /\ r # Idle
    <3>0. run[i].at = "find" /\ SameRun(r, run[i])
      BY <2>1, <2>5 DEF CountDay
    <3>1. r.at = "older" /\ r.found = Cardinality(OfDay(r.start))
      BY <2>1, <2>5, <3>0 DEF SameRun, CountDay, CountHistorical, CountTotal, FindMessages
    <3>2. r.job = "fallback" => Cardinality(Early(r)) <= Cardinality(OfDay(r.start))
      <4> SUFFICES ASSUME r.job = "fallback" PROVE Cardinality(Early(r)) <= Cardinality(OfDay(r.start))
        OBVIOUS
      <4>1. /\ r.start \in Int /\ r.begun \in Nat /\ r.begun < r.start + Day
            /\ \A t \in said : t \in Nat
        BY <2>1 DEF RunFits, RunRecord, CronNumbers
      <4>2. Early(r) \in SUBSET OfDay(r.start)
        BY <4>1 DEF Early, OfDay, InWindow
      <4>3. IsFiniteSet(OfDay(r.start))
        BY SaidIsFinite DEF OfDay
      <4>. QED
        BY <4>2, <4>3, FS_Subset
    <3>3. OfDay(r.start) \in SUBSET said
      BY DEF OfDay
    <3>4. Cardinality(OfDay(r.start)) \in Nat
      BY <3>3, SaidIsFinite
    <3>5. r.job = "fallback" => CountsFor(r)
      BY <3>1, <3>2, <3>4 DEF CountsFor
    <3>. QED
      BY <1>1, <2>1, <2>2, <3>5
  <2>6. CASE CountHistorical(i) /\ r # Idle
    <3>0. run[i].at = "older" /\ SameRun(r, run[i]) /\ run[i].job = "fallback"
      BY <2>1, <2>6 DEF CountHistorical
    <3>1. r.at = "all" /\ r.found = run[i].found /\ r.older = Cardinality(Before(r.start))
      BY <2>1, <2>6, <3>0 DEF SameRun, CountDay, CountHistorical, CountTotal, FindMessages
    <3>2. Early(r) = Early(run[i]) /\ OfDay(r.start) = OfDay(run[i].start)
      BY <3>0 DEF Early, SameRun
    <3>3. CountsFor(r)
      BY <2>0, <3>0, <3>1, <3>2 DEF CountsFor
    <3>. QED
      BY <1>1, <2>1, <2>2, <3>3
  <2>7. CASE CountTotal(i) /\ r # Idle
    <3>0. run[i].at = "all" /\ SameRun(r, run[i]) /\ run[i].job = "fallback"
      BY <2>1, <2>7 DEF CountTotal
    <3>1. r.at = "counted" /\ r.found = run[i].found /\ r.older = run[i].older /\ r.all = Cardinality(said)
      BY <2>1, <2>7, <3>0 DEF SameRun, CountDay, CountHistorical, CountTotal, FindMessages
    <3>2. Since(r) = Since(run[i])
      BY <3>0 DEF Since, SameRun
    <3>3. CountsFor(r)
      BY <2>0, <3>0, <3>1, <3>2, CountsAdd DEF CountsFor
    <3>. QED
      BY <1>1, <2>1, <2>2, <3>3
  <2>. QED
    BY <1>5, <2>4, <2>5, <2>6, <2>7
<1>6. ASSUME NEW i \in Instances, FindExpired(i) PROVE CountsInv'
  <2>1. PICK r \in RunRecord : Sets(i, r) /\ (r # Idle => r.job = "expired")
    BY <1>6, SearchFits
  <2>2. r.job # "fallback"
    BY <2>1 DEF Idle
  <2>. QED
    BY <1>1, <1>6, <2>1, <2>2 DEF FindExpired
<1>7. ASSUME NEW i \in Instances, NEW c \in Chats, LookUpEvent(i, c) PROVE CountsInv'
  <2>1. PICK r \in RunRecord : Sets(i, r) /\ (r # Idle => r.job = "expired")
    BY <1>7, LookUpFits
  <2>2. r.job # "fallback"
    BY <2>1 DEF Idle
  <2>. QED
    BY <1>1, <1>7, <2>1, <2>2 DEF LookUpEvent
<1>8. ASSUME NEW i \in Instances, NEW c \in Chats, CreateEvent(i, c) PROVE CountsInv'
  <2>1. PICK r \in RunRecord : Sets(i, r) /\ (r # Idle => r.job = "expired")
    BY <1>8, CreateFits
  <2>2. r.job # "fallback"
    BY <2>1 DEF Idle
  <2>. QED
    BY <1>1, <1>8, <2>1, <2>2 DEF CreateEvent
<1>. QED
  BY <1>2, <1>3, <1>4, <1>5, <1>6, <1>7, <1>8 DEF CronNext

\* What is neither of the day nor older was written since the run was begun: for any times,
\* numbers of messages and runs beside each other.
THEOREM FallbackIsCounted == Spec => []FallbackCountsFit
<1>1. CronInit => CountsInv
  BY DEF CronInit, CountsInv, Idle
<1>2. CountsInv => FallbackCountsFit
  BY DEF CountsInv, CountsFor, Since, FallbackCountsFit
<1>. QED
  BY <1>1, <1>2, CronPart, CronStart, CronNumbersStep, CronRunsStep, CountsStep, PTL

-----------------------------------------------------------------------------
(* The summaries of the days *)

\* The messages of a day from before a time.
Reached(d, b) == {t \in said : InWindow(t, d) /\ t < b}

\* What is written, or about to be written, for a day is between what was said before the
\* run was begun and what was said on the day.
FitsDay(n, d, b) == Cardinality(Reached(d, b)) <= n /\ n <= Cardinality(OfDay(d))

SummaryInv ==
  /\ \A d \in Starts : FitsDay(summary[d], d, summed[d]) /\ (summed[d] = d \/ summed[d] <= clock)
  /\ \A i \in Instances : run[i].job = "summary" /\ run[i].at = "write" =>
       FitsDay(run[i].found, run[i].start, run[i].begun)

\* A message that is written now is not from before.
LEMMA DayLasts ==
  ASSUME CronNumbers, CronNumbers', NEW n \in Nat, NEW d \in Int, NEW b \in Int, FitsDay(n, d, b),
         b = d \/ b <= clock,
         UNCHANGED said \/ (said' = said \cup {clock} /\ clock \notin said)
  PROVE  FitsDay(n, d, b)'
<1>1. clock \in Nat
  BY DEF CronNumbers
<1>2. Reached(d, b)' = Reached(d, b)
  BY <1>1 DEF Reached, InWindow
<1>3. OfDay(d) \in SUBSET OfDay(d)' /\ OfDay(d)' \in SUBSET said'
  BY DEF OfDay
<1>4. IsFiniteSet(OfDay(d)')
  BY <1>3, FS_Subset DEF CronNumbers
<1>5. /\ Cardinality(OfDay(d)) <= Cardinality(OfDay(d)')
      /\ Cardinality(OfDay(d)) \in Nat /\ Cardinality(OfDay(d)') \in Nat
  BY <1>3, <1>4, FS_Subset, FS_CardinalityType
<1>6. n <= Cardinality(OfDay(d)')
  BY <1>5 DEF FitsDay
<1>. QED
  BY <1>2, <1>6 DEF FitsDay

LEMMA SummaryStep ==
  ASSUME CronNumbers, CronRuns, CronNumbers', SummaryInv, [CronNext]_cronVars
  PROVE  SummaryInv'
<1>0. \A d \in Starts : d \in Int
  BY BusinessWindow DEF Starts
<1>1. ASSUME NEW i \in Instances, NEW r \in RunRecord, Sets(i, r), UNCHANGED <<said, summary, summed, clock>>,
             r.job = "summary" /\ r.at = "write" => FitsDay(r.found, r.start, r.begun)
      PROVE  SummaryInv'
  <2>1. run' = [run EXCEPT ![i] = r]
    BY <1>1 DEF Sets
  <2>2. ASSUME NEW j \in Instances, run'[j].job = "summary", run'[j].at = "write"
        PROVE  FitsDay(run[j].found, run[j].start, run[j].begun)'
    <3>1. run'[j] = IF j = i THEN r ELSE run[j]
      BY <2>1 DEF CronRuns
    <3>2. FitsDay(run'[j].found, run'[j].start, run'[j].begun)
      BY <1>1, <2>2, <3>1 DEF SummaryInv
    <3>. QED
      BY <1>1, <3>2 DEF FitsDay, Reached, OfDay
  <2>3. ASSUME NEW d \in Starts
        PROVE  FitsDay(summary[d], d, summed[d])' /\ (summed'[d] = d \/ summed'[d] <= clock')
    BY <1>1 DEF SummaryInv, FitsDay, Reached, OfDay
  <2>. QED
    BY <2>2, <2>3 DEF SummaryInv
<1>2. CASE UNCHANGED cronVars \/ Tick \/ Says \/ \E c \in Chats : CustomerReturns(c)
  <2>1. /\ UNCHANGED <<run, summary, summed>>
        /\ UNCHANGED said \/ (said' = said \cup {clock} /\ clock \notin said)
        /\ clock' >= clock /\ clock \in Nat /\ clock' \in Nat
    BY <1>2 DEF cronVars, Tick, Says, CustomerReturns, CronNumbers
  <2>2. ASSUME NEW d \in Starts
        PROVE  FitsDay(summary[d], d, summed[d])' /\ (summed'[d] = d \/ summed'[d] <= clock')
    <3> DEFINE n == summary[d]
               b == summed[d]
    <3>1. n \in Nat /\ b \in Int /\ d \in Int /\ FitsDay(n, d, b) /\ (b = d \/ b <= clock)
      BY <1>0 DEF SummaryInv, CronNumbers
    <3>2. n' = n /\ b' = b
      BY <2>1
    <3> HIDE DEF n, b
    <3>3. ASSUME NEW m, NEW a, m = n, a = b PROVE FitsDay(m, d, a)'
      BY <2>1, <3>1, <3>3, DayLasts
    <3>4. FitsDay(n, d, b)'
      BY <3>2, <3>3 DEF FitsDay, Reached, OfDay
    <3>5. b = d \/ b <= clock'
      BY <2>1, <3>1
    <3>. QED
      BY <3>2, <3>4, <3>5 DEF n, b
  <2>3. ASSUME NEW i \in Instances, run'[i].job = "summary", run'[i].at = "write"
        PROVE  FitsDay(run[i].found, run[i].start, run[i].begun)'
    <3> DEFINE n == run[i].found
               d == run[i].start
               b == run[i].begun
    <3>1. run[i] \in RunRecord /\ RunFits(run[i]) /\ run[i].job = "summary" /\ run[i].at = "write"
      BY <2>1, <2>3 DEF CronRuns
    <3>2. n \in Nat /\ d \in Int /\ b \in Int /\ b <= clock /\ FitsDay(n, d, b)
      BY <3>1 DEF RunRecord, RunFits, SummaryInv
    <3>3. n' = n /\ b' = b /\ d' = d
      BY <2>1
    <3> HIDE DEF n, b, d
    <3>4. ASSUME NEW m, NEW e, NEW a, m = n, e = d, a = b PROVE FitsDay(m, e, a)'
      BY <2>1, <3>2, <3>4, DayLasts
    <3>5. FitsDay(n, d, b)'
      BY <3>3, <3>4 DEF FitsDay, Reached, OfDay
    <3>. QED
      BY <3>5 DEF n, b, d
  <2>. QED
    BY <2>2, <2>3 DEF SummaryInv
<1>3. ASSUME NEW i \in Instances, NEW kind \in Jobs, CronFires(i, kind) PROVE SummaryInv'
  <2>1. PICK r \in RunRecord : Sets(i, r) /\ r.at = "find"
    BY <1>3, FiresFit
  <2>. QED
    BY <1>1, <1>3, <2>1 DEF CronFires
<1>4. ASSUME NEW i \in Instances, CronEnds(i) \/ CronFails(i) PROVE SummaryInv'
  <2>1. Idle.job # "summary"
    BY DEF Idle
  <2>. QED
    BY <1>1, <1>4, <2>1, IdleFits DEF CronEnds, CronFails
\* The count is written for the day of the run.
<1>5. ASSUME NEW i \in Instances, UpsertSummary(i) PROVE SummaryInv'
  <2> DEFINE n == run[i].found
             d == run[i].start
             b == run[i].begun
  <2>1. run[i] \in RunRecord /\ RunFits(run[i]) /\ run[i].job = "summary" /\ run[i].at = "write"
    BY <1>5 DEF CronRuns, UpsertSummary
  <2>2. d \in Starts /\ b \in Nat /\ b <= clock /\ FitsDay(n, d, b)
    BY <2>1 DEF RunRecord, RunFits, SummaryInv
  <2>3. /\ summary' = [summary EXCEPT ![d] = n] /\ summed' = [summed EXCEPT ![d] = b]
        /\ Sets(i, Idle) /\ UNCHANGED <<clock, said>>
    BY <1>5 DEF UpsertSummary
  <2>4. run' = [run EXCEPT ![i] = Idle]
    BY <2>3 DEF Sets
  <2> HIDE DEF n, b, d
  <2>5. ASSUME NEW e \in Starts
        PROVE  FitsDay(summary[e], e, summed[e])' /\ (summed'[e] = e \/ summed'[e] <= clock')
    <3>1. CASE e = d
      <4>1. summary'[e] = n /\ summed'[e] = b
        BY <2>3, <3>1 DEF CronNumbers
      <4>. QED
        BY <2>2, <2>3, <3>1, <4>1 DEF FitsDay, Reached, OfDay
    <3>2. CASE e # d
      <4>1. summary'[e] = summary[e] /\ summed'[e] = summed[e]
        BY <2>3, <3>2 DEF CronNumbers
      <4>. QED
        BY <2>3, <4>1 DEF SummaryInv, FitsDay, Reached, OfDay
    <3>. QED
      BY <3>1, <3>2
  <2>6. ASSUME NEW j \in Instances, run'[j].job = "summary", run'[j].at = "write"
        PROVE  FitsDay(run[j].found, run[j].start, run[j].begun)'
    <3>1. run'[j] = IF j = i THEN Idle ELSE run[j]
      BY <2>4 DEF CronRuns
    <3>2. j # i /\ run'[j] = run[j]
      BY <2>6, <3>1 DEF Idle
    <3>. QED
      BY <2>3, <2>6, <3>2 DEF SummaryInv, FitsDay, Reached, OfDay
  <2>. QED
    BY <2>5, <2>6 DEF SummaryInv
<1>6. ASSUME NEW i \in Instances, FindMessages(i) \/ CountDay(i) \/ CountHistorical(i) \/ CountTotal(i)
      PROVE  SummaryInv'
  <2>1. PICK r \in RunRecord :
           /\ RunFits(r) /\ Sets(i, r)
           /\ r # Idle => SameRun(r, run[i])
           /\ \/ r = Idle
              \/ FindMessages(i) /\ r.at = "write" /\ r.found = Cardinality(OfDay(run[i].start))
              \/ r.at \in {"older", "all", "counted"}
    BY <1>6, CountsFit
  <2>2. UNCHANGED <<said, summary, summed, clock>>
    BY <1>6 DEF FindMessages, CountDay, CountHistorical, CountTotal
  <2>3. ASSUME r.job = "summary", r.at = "write" PROVE FitsDay(r.found, r.start, r.begun)
    <3>1. r # Idle /\ r.found = Cardinality(OfDay(r.start))
      BY <2>1, <2>3 DEF Idle, SameRun
    <3>2. OfDay(r.start) \in SUBSET said /\ Reached(r.start, r.begun) \in SUBSET OfDay(r.start)
      BY DEF OfDay, Reached
    <3>3. IsFiniteSet(OfDay(r.start)) /\ Cardinality(OfDay(r.start)) \in Nat
      BY <3>2, SaidIsFinite
    <3>4. Cardinality(Reached(r.start, r.begun)) <= Cardinality(OfDay(r.start))
      BY <3>2, <3>3, FS_Subset
    <3>. QED
      BY <3>1, <3>3, <3>4 DEF FitsDay
  <2>. QED
    BY <1>1, <2>1, <2>2, <2>3
<1>7. ASSUME NEW i \in Instances, FindExpired(i) PROVE SummaryInv'
  <2>1. PICK r \in RunRecord : Sets(i, r) /\ (r # Idle => r.job = "expired")
    BY <1>7, SearchFits
  <2>2. r.job # "summary"
    BY <2>1 DEF Idle
  <2>. QED
    BY <1>1, <1>7, <2>1, <2>2 DEF FindExpired
<1>8. ASSUME NEW i \in Instances, NEW c \in Chats, LookUpEvent(i, c) \/ CreateEvent(i, c) PROVE SummaryInv'
  <2>1. PICK r \in RunRecord : Sets(i, r) /\ (r # Idle => r.job = "expired")
    BY <1>8, LookUpFits, CreateFits
  <2>2. r.job # "summary"
    BY <2>1 DEF Idle
  <2>3. UNCHANGED <<said, summary, summed, clock>>
    BY <1>8 DEF LookUpEvent, CreateEvent
  <2>. QED
    BY <1>1, <2>1, <2>2, <2>3
<1>. QED
  BY <1>2, <1>3, <1>4, <1>5, <1>6, <1>7, <1>8 DEF CronNext

LEMMA SummaryStart == CronInit => SummaryInv
<1> SUFFICES ASSUME CronInit PROVE SummaryInv
  OBVIOUS
<1>1. \A d, b : Reached(d, b) = {} /\ OfDay(d) = {}
  BY DEF CronInit, Reached, OfDay
<1>2. Cardinality({}) = 0
  BY FS_EmptySet
<1>3. \A d \in Starts : summary[d] = 0 /\ summed[d] = d
  BY DEF CronInit
<1>4. \A i \in Instances : run[i].job # "summary"
  BY DEF CronInit, Idle
<1>5. \A d, b : FitsDay(0, d, b)
  BY <1>1, <1>2 DEF FitsDay
<1>. QED
  BY <1>3, <1>4, <1>5 DEF SummaryInv

\* No message is counted in two days: for any days, messages and runs beside each other.
THEOREM CountedForOneDay == Spec => []NoMessageInTwoDays
<1>1. CronNumbers /\ SummaryInv => NoMessageInTwoDays
  <2> SUFFICES ASSUME CronNumbers, SummaryInv PROVE NoMessageInTwoDays
    OBVIOUS
  <2> DEFINE day == [t \in said |-> GetIST4amWindow(t)]
  <2>0. \A t \in said : t \in Nat /\ t \in 0..MaxClock
    BY DEF CronNumbers
  <2>1. day \in [said -> Starts]
    BY <2>0 DEF Starts
  <2>2. ASSUME NEW d \in Starts PROVE {t \in said : day[t] = d} = OfDay(d)
    <3>1. PICK u \in 0..MaxClock : d = GetIST4amWindow(u)
      BY DEF Starts
    <3>2. u \in Nat
      OBVIOUS
    <3>3. \A t \in said : GetIST4amWindow(t) = d <=> InWindow(t, d)
      BY <2>0, <3>1, <3>2, BusinessWindow
    <3>. QED
      BY <3>3 DEF OfDay
  <2>3. \A d \in Starts : summary[d] <= Cardinality({t \in said : day[t] = d})
    BY <2>2 DEF SummaryInv, FitsDay
  <2> HIDE DEF day
  <2>. QED
    BY <2>1, <2>3 DEF NoMessageInTwoDays
<1>. QED
  BY <1>1, SummaryStart, CronPart, CronStart, CronNumbersStep, CronRunsStep, SummaryStep, PTL

\* A summary has every message of its day from before the run was begun that wrote it last,
\* also if runs overlap.
THEOREM SummaryReachesRun == Spec => []LastRunReached
<1>1. CronNumbers /\ SummaryInv => LastRunReached
  <2> SUFFICES ASSUME CronNumbers, SummaryInv, NEW d \in Starts
               PROVE  Cardinality({t \in said : BusinessDay(t) = BusinessDay(d) /\ t < summed[d]}) <= summary[d]
    BY DEF LastRunReached
  <2>1. PICK u \in 0..MaxClock : d = GetIST4amWindow(u)
    BY DEF Starts
  <2>2. \A t \in said : t \in Nat
    BY DEF CronNumbers
  <2>3. u \in Nat
    OBVIOUS
  <2>4. \A t \in said : BusinessDay(t) = BusinessDay(d) <=> InWindow(t, d)
    BY <2>1, <2>2, <2>3, BusinessWindow
  <2>5. {t \in said : BusinessDay(t) = BusinessDay(d) /\ t < summed[d]} = Reached(d, summed[d])
    BY <2>4 DEF Reached
  <2>. QED
    BY <2>5 DEF SummaryInv, FitsDay
<1>. QED
  BY <1>1, SummaryStart, CronPart, CronStart, CronNumbersStep, CronRunsStep, SummaryStep, PTL

\* The daily summaries (handleDailyUserSummaries) are right: both of the above.
THEOREM SummariesAreRight == Spec => []SummariesFit
BY CountedForOneDay, SummaryReachesRun, PTL DEF SummariesFit

-----------------------------------------------------------------------------
(* The expired events of a day *)

EventsOf(c, d) == {e \in events : e.chat = c /\ IndianDayWindow(e.at) = d}
Searching      == {i \in Instances : run[i].job = "expired"}

\* A run that may still create an event of the case on that day: it has yet to look up the
\* case and would find none of the day, or it has looked up another day, or found none.
Pends(r, c, d) ==
  /\ r.job = "expired" /\ (r.at = "find" \/ c \in r.todo)
  /\ c \in r.chat \/ r.start # d \/ EventsOf(c, d) = {}
Pending(c, d) == {i \in Instances : Pends(run[i], c, d)}

\* Each of today's events of a case, and each that may still be created, is of the first run
\* or of one that was begun beside another; tomorrow has no event yet.
DaysInv ==
  /\ Cardinality(Searching) <= 1 + crowd
  /\ \A c \in Chats, d \in Int :
       /\ Cardinality(EventsOf(c, d)) <= 1 + crowd
       /\ d >= IndianDayWindow(clock) => Cardinality(EventsOf(c, d)) + Cardinality(Pending(c, d)) <= 1 + crowd
       /\ d > IndianDayWindow(clock) => EventsOf(c, d) = {}

LEMMA DaysAreFinite ==
  ASSUME CronNumbers, NEW c, NEW d
  PROVE  /\ IsFiniteSet(EventsOf(c, d)) /\ IsFiniteSet(Pending(c, d)) /\ IsFiniteSet(Searching)
         /\ Cardinality(EventsOf(c, d)) \in Nat /\ Cardinality(Pending(c, d)) \in Nat /\ Cardinality(Searching) \in Nat
<1>1. EventsOf(c, d) \in SUBSET events /\ Pending(c, d) \in SUBSET Instances /\ Searching \in SUBSET Instances
  BY DEF EventsOf, Pending, Searching
<1>2. IsFiniteSet(EventsOf(c, d)) /\ IsFiniteSet(Pending(c, d)) /\ IsFiniteSet(Searching)
  BY <1>1, FS_Subset DEF CronNumbers
<1>. QED
  BY <1>2, FS_CardinalityType

\* The look-up asks for the events of the run's day.
LEMMA LookUpIsOfDay ==
  ASSUME CronNumbers, CronRuns, NEW i \in Instances, run[i].job = "expired", NEW c \in Chats
  PROVE  AlreadyExists(i, c) <=> EventsOf(c, run[i].start) # {}
<1>1. PICK t \in Nat : run[i].start = IndianDayWindow(t)
  BY DEF CronRuns, RunFits
<1>2. \A e \in events : e.at \in Nat
  BY DEF CronNumbers, EventRecord
<1>3. \A e \in events : IndianDayWindow(e.at) = run[i].start <=> e.at >= run[i].start /\ e.at < run[i].start + Day
  BY <1>1, <1>2, IndianDay
<1>. QED
  BY <1>3 DEF AlreadyExists, EventsOf

LEMMA NewEventFits ==
  ASSUME NEW i, NEW c
  PROVE  NewEvent(i, c).chat = c /\ NewEvent(i, c).at = clock
BY DEF NewEvent

\* A run that steps creates no event, and may not create more than before.
LEMMA RunStays ==
  ASSUME CronNumbers, CronRuns, CronNumbers', DaysInv, UNCHANGED <<clock, crowd, events>>,
         NEW i \in Instances, NEW r \in RunRecord, Sets(i, r),
         r.job = "expired" => run[i].job = "expired",
         \A c \in Chats, d \in Int : Pends(r, c, d) => Pends(run[i], c, d)
  PROVE  DaysInv'
<1>1. \A j \in Instances : run'[j] = IF j = i THEN r ELSE run[j]
  BY DEF Sets, CronRuns
<1>2. Cardinality(Searching') <= 1 + crowd
  <2>1. Searching' \in SUBSET Searching
    BY <1>1 DEF Searching
  <2>2. IsFiniteSet(Searching) /\ Cardinality(Searching) \in Nat
    BY DaysAreFinite
  <2>3. Cardinality(Searching') <= Cardinality(Searching) /\ Cardinality(Searching') \in Nat
    BY <2>1, <2>2, FS_Subset, FS_CardinalityType
  <2>. QED
    BY <2>2, <2>3 DEF DaysInv, CronNumbers
<1>3. ASSUME NEW c \in Chats, NEW d \in Int
      PROVE  /\ EventsOf(c, d)' = EventsOf(c, d)
             /\ Cardinality(Pending(c, d)') <= Cardinality(Pending(c, d)) /\ Cardinality(Pending(c, d)') \in Nat
  <2>1. EventsOf(c, d)' = EventsOf(c, d)
    BY DEF EventsOf
  <2>2. \A j \in Instances : Pends(run[j], c, d)' => Pends(run[j], c, d)
    BY <1>1, <2>1 DEF Pends
  <2>3. Pending(c, d)' \in SUBSET Pending(c, d)
    BY <2>2 DEF Pending
  <2>. QED
    BY <2>1, <2>3, DaysAreFinite, FS_Subset, FS_CardinalityType
<1>4. ASSUME NEW c \in Chats, NEW d \in Int, d >= IndianDayWindow(clock)
      PROVE  Cardinality(EventsOf(c, d)') + Cardinality(Pending(c, d)') <= 1 + crowd
  <2>1. Cardinality(EventsOf(c, d)) \in Nat /\ Cardinality(Pending(c, d)) \in Nat /\ crowd \in Nat
    BY DaysAreFinite DEF CronNumbers
  <2>2. Cardinality(EventsOf(c, d)) + Cardinality(Pending(c, d)) <= 1 + crowd
    BY <1>4 DEF DaysInv
  <2>. QED
    BY <1>3, <2>1, <2>2
<1>. QED
  BY <1>2, <1>3, <1>4 DEF DaysInv

LEMMA DaysStep ==
  ASSUME CronNumbers, CronRuns, CronNumbers', DaysInv, [CronNext]_cronVars
  PROVE  DaysInv'
<1>0. clock \in Nat /\ clock' \in Nat /\ crowd \in Nat /\ IndianDayWindow(clock) \in Int
  BY IndianDay DEF CronNumbers
<1>1. CASE UNCHANGED cronVars \/ Tick \/ Says \/ \E c \in Chats : CustomerReturns(c)
  <2>1. UNCHANGED <<run, events, crowd>> /\ clock <= clock'
    BY <1>0, <1>1 DEF cronVars, Tick, Says, CustomerReturns
  <2>2. IndianDayWindow(clock) <= IndianDayWindow(clock') /\ IndianDayWindow(clock') \in Int
    BY <1>0, <2>1, DaysGoOn, IndianDay
  <2>3. ASSUME NEW c \in Chats, NEW d \in Int
        PROVE  EventsOf(c, d)' = EventsOf(c, d) /\ Pending(c, d)' = Pending(c, d)
    BY <2>1 DEF EventsOf, Pending, Pends
  <2>4. Searching' = Searching
    BY <2>1 DEF Searching
  <2>5. ASSUME NEW d \in Int
        PROVE  /\ d >= IndianDayWindow(clock') => d >= IndianDayWindow(clock)
               /\ d > IndianDayWindow(clock') => d > IndianDayWindow(clock)
    BY <1>0, <2>2
  <2>. QED
    BY <2>1, <2>3, <2>4, <2>5 DEF DaysInv
\* A run that begins is the first, or counted; of a day that has an event it looks that up.
<1>2. ASSUME NEW i \in Instances, NEW kind \in Jobs, CronFires(i, kind) PROVE DaysInv'
  <2>1. /\ run[i] = Idle /\ UNCHANGED <<clock, events>>
        /\ crowd' = IF \E j \in Instances : run[j].job = kind THEN crowd + 1 ELSE crowd
    BY <1>2 DEF CronFires
  <2>2. PICK r \in RunRecord :
          /\ Sets(i, r) /\ r.job = kind /\ r.todo = {} /\ r.chat = {}
          /\ kind = "expired" => r.start = IndianDayWindow(clock)
    BY <1>2, FiresFit
  <2>3. \A j \in Instances : run'[j] = IF j = i THEN r ELSE run[j]
    BY <2>2 DEF Sets, CronRuns
  <2>4. run[i].job # "expired"
    BY <2>1 DEF Idle
  <2>5. Searching' \in SUBSET (Searching \cup {i}) /\ (kind # "expired" => Searching' \in SUBSET Searching)
    BY <2>2, <2>3 DEF Searching
  <2>6. IsFiniteSet(Searching) /\ Cardinality(Searching) \in Nat /\ Cardinality(Searching) <= 1 + crowd
    BY DaysAreFinite DEF DaysInv
  <2>7. crowd' \in Nat /\ crowd <= crowd'
    BY <1>0, <2>1
  <2>8. IsFiniteSet(Searching') /\ Cardinality(Searching') \in Nat /\ Cardinality(Searching') <= 1 + crowd'
    <3>0. i \notin Searching
      BY <2>4 DEF Searching
    <3>1. IsFiniteSet(Searching \cup {i}) /\ Cardinality(Searching \cup {i}) = Cardinality(Searching) + 1
      BY <2>6, <3>0, FS_AddElement
    <3>2. IsFiniteSet(Searching') /\ Cardinality(Searching') \in Nat /\ Cardinality(Searching') <= Cardinality(Searching) + 1
      BY <2>5, <2>6, <3>1, FS_Subset, FS_CardinalityType
    <3>3. CASE kind # "expired"
      <4>1. Cardinality(Searching') <= Cardinality(Searching)
        BY <2>5, <2>6, <3>3, FS_Subset
      <4>. QED
        BY <1>0, <2>6, <2>7, <3>2, <4>1
    <3>4. CASE kind = "expired" /\ Searching = {}
      <4>1. Cardinality(Searching) = 0
        BY <3>4, FS_EmptySet
      <4>. QED
        BY <1>0, <2>7, <3>2, <4>1
    <3>5. CASE kind = "expired" /\ Searching # {}
      <4>1. crowd' = crowd + 1
        BY <2>1, <3>5 DEF Searching
      <4>. QED
        BY <1>0, <2>6, <3>2, <4>1
    <3>. QED
      BY <3>3, <3>4, <3>5
  <2>9. ASSUME NEW c \in Chats, NEW d \in Int
        PROVE  /\ EventsOf(c, d)' = EventsOf(c, d)
               /\ d >= IndianDayWindow(clock) => Cardinality(EventsOf(c, d)) + Cardinality(Pending(c, d)') <= 1 + crowd'
    <3>1. EventsOf(c, d)' = EventsOf(c, d)
      BY <2>1 DEF EventsOf
    <3> SUFFICES ASSUME d >= IndianDayWindow(clock)
                 PROVE  Cardinality(EventsOf(c, d)) + Cardinality(Pending(c, d)') <= 1 + crowd'
      BY <3>1
    <3>2. Cardinality(EventsOf(c, d)) \in Nat /\ Cardinality(Pending(c, d)) \in Nat /\ IsFiniteSet(Pending(c, d))
      BY DaysAreFinite
    <3>3. CASE EventsOf(c, d) = {}
      <4>1. Pending(c, d)' \in SUBSET Searching'
        BY DEF Pending, Pends, Searching
      <4>2. Cardinality(Pending(c, d)') <= Cardinality(Searching') /\ Cardinality(Pending(c, d)') \in Nat
        BY <2>8, <4>1, FS_Subset, FS_CardinalityType
      <4>3. Cardinality(EventsOf(c, d)) = 0
        BY <3>3, FS_EmptySet
      <4>. QED
        BY <2>7, <2>8, <4>2, <4>3
    <3>4. CASE EventsOf(c, d) # {}
      <4>1. d = IndianDayWindow(clock)
        <5>1. ~(d > IndianDayWindow(clock))
          BY <3>4 DEF DaysInv
        <5>. QED
          BY <1>0, <5>1
      <4>2. \A j \in Instances : Pends(run[j], c, d)' => Pends(run[j], c, d)
        BY <2>2, <2>3, <3>1, <3>4, <4>1 DEF Pends
      <4>3. Pending(c, d)' \in SUBSET Pending(c, d)
        BY <4>2 DEF Pending
      <4>4. Cardinality(Pending(c, d)') <= Cardinality(Pending(c, d)) /\ Cardinality(Pending(c, d)') \in Nat
        BY <3>2, <4>3, FS_Subset, FS_CardinalityType
      <4>5. Cardinality(EventsOf(c, d)) + Cardinality(Pending(c, d)) <= 1 + crowd
        BY <4>1 DEF DaysInv
      <4>. QED
        BY <1>0, <2>7, <3>2, <4>4, <4>5
    <3>. QED
      BY <3>3, <3>4
  <2>10. ASSUME NEW c \in Chats, NEW d \in Int PROVE Cardinality(EventsOf(c, d)) <= 1 + crowd'
    <3>1. Cardinality(EventsOf(c, d)) \in Nat /\ Cardinality(EventsOf(c, d)) <= 1 + crowd
      BY DaysAreFinite DEF DaysInv
    <3>. QED
      BY <1>0, <2>7, <3>1
  <2>11. \A c \in Chats, d \in Int : d > IndianDayWindow(clock) => EventsOf(c, d) = {}
    BY DEF DaysInv
  <2>. QED
    BY <2>1, <2>8, <2>9, <2>10, <2>11 DEF DaysInv
<1>3. ASSUME NEW i \in Instances, CronEnds(i) \/ CronFails(i) \/ UpsertSummary(i) PROVE DaysInv'
  <2>1. Sets(i, Idle) /\ UNCHANGED <<clock, crowd, events>>
    BY <1>3 DEF CronEnds, CronFails, UpsertSummary
  <2>2. Idle.job # "expired" /\ \A c \in Chats, d \in Int : ~Pends(Idle, c, d)
    BY DEF Idle, Pends
  <2>. QED
    BY <2>1, <2>2, IdleFits, RunStays
<1>4. ASSUME NEW i \in Instances, FindMessages(i) \/ CountDay(i) \/ CountHistorical(i) \/ CountTotal(i)
      PROVE  DaysInv'
  <2>1. PICK r \in RunRecord : Sets(i, r) /\ (r # Idle => SameRun(r, run[i]))
    BY <1>4, CountsFit
  <2>2. UNCHANGED <<clock, crowd, events>> /\ run[i].job \in {"summary", "fallback"}
    BY <1>4 DEF FindMessages, CountDay, CountHistorical, CountTotal
  <2>3. r.job # "expired"
    BY <2>1, <2>2 DEF SameRun, Idle
  <2>4. \A c \in Chats, d \in Int : ~Pends(r, c, d)
    BY <2>3 DEF Pends
  <2>. QED
    BY <2>1, <2>2, <2>3, <2>4, RunStays
<1>5. ASSUME NEW i \in Instances, FindExpired(i) PROVE DaysInv'
  <2>1. PICK r \in RunRecord : Sets(i, r) /\ r.chat = {} /\ (r # Idle => r.start = run[i].start)
    BY <1>5, SearchFits
  <2>2. UNCHANGED <<clock, crowd, events>> /\ run[i].job = "expired" /\ run[i].at = "find"
    BY <1>5 DEF FindExpired
  <2>3. \A c \in Chats, d \in Int : Pends(r, c, d) => Pends(run[i], c, d)
    BY <2>1, <2>2 DEF Pends, Idle
  <2>. QED
    BY <2>1, <2>2, <2>3, RunStays
<1>6. ASSUME NEW i \in Instances, NEW c \in Chats, LookUpEvent(i, c) PROVE DaysInv'
  <2>0. run[i].job = "expired"
    BY <1>6 DEF CronRuns, RunFits, LookUpEvent
  <2>1. PICK r \in RunRecord :
          /\ Sets(i, r) /\ c \in run[i].todo /\ r.at # "find"
          /\ r # Idle => r.job = "expired" /\ r.start = run[i].start
          /\ \/ ~AlreadyExists(i, c) /\ r # Idle /\ r.todo = run[i].todo /\ r.chat = {c}
             \/ AlreadyExists(i, c) /\ r.todo = run[i].todo \ {c} /\ r.chat = {}
    BY <1>6, LookUpFits
  <2>2. UNCHANGED <<clock, crowd, events>>
    BY <1>6 DEF LookUpEvent
  <2>3. ASSUME NEW a \in Chats, NEW d \in Int, Pends(r, a, d) PROVE Pends(run[i], a, d)
    <3>1. r # Idle /\ a \in run[i].todo
      BY <2>1, <2>3 DEF Pends, Idle
    <3>2. CASE r.chat = {c} /\ a = c
      <4>1. EventsOf(c, run[i].start) = {}
        BY <2>0, <2>1, <3>2, LookUpIsOfDay
      <4>. QED
        BY <2>0, <3>1, <3>2, <4>1 DEF Pends
    <3>3. CASE ~(r.chat = {c} /\ a = c)
      BY <2>0, <2>1, <2>3, <3>1, <3>3 DEF Pends
    <3>. QED
      BY <3>2, <3>3
  <2>. QED
    BY <2>0, <2>1, <2>2, <2>3, RunStays
\* The run that creates the event of today may create no other.
<1>7. ASSUME NEW i \in Instances, NEW c \in Chats, CreateEvent(i, c) PROVE DaysInv'
  <2>0. run[i].job = "expired" /\ UNCHANGED <<clock, crowd>>
    BY <1>7 DEF CronRuns, RunFits, CreateEvent
  <2>1. PICK r \in RunRecord :
          /\ Sets(i, r) /\ c \in run[i].chat /\ c \in run[i].todo /\ r.chat = {} /\ r.at # "find"
          /\ r # Idle => r.job = "expired" /\ r.start = run[i].start
          /\ \/ r = Idle /\ UNCHANGED events
             \/ /\ r.todo = run[i].todo \ {c}
                /\ NewEvent(i, c) \in EventRecord /\ events' = events \cup {NewEvent(i, c)}
    BY <1>7, CreateFits
  <2>2. CASE r = Idle /\ UNCHANGED events
    <3>1. Idle.job # "expired" /\ \A a \in Chats, d \in Int : ~Pends(Idle, a, d)
      BY DEF Idle, Pends
    <3>. QED
      BY <2>0, <2>1, <2>2, <3>1, RunStays
  <2>3. CASE r.todo = run[i].todo \ {c} /\ events' = events \cup {NewEvent(i, c)}
    <3>0. PICK today \in Int : today = IndianDayWindow(clock)
      BY <1>0
    <3>1. PICK e \in events' : e = NewEvent(i, c) /\ e.chat = c /\ e.at = clock
      BY <2>3, NewEventFits
    <3>2. \A j \in Instances : run'[j] = IF j = i THEN r ELSE run[j]
      BY <2>1 DEF Sets, CronRuns
    <3>3. Searching' \in SUBSET Searching
      BY <2>0, <3>2 DEF Searching
    <3>4. Cardinality(Searching') <= 1 + crowd
      <4>1. IsFiniteSet(Searching) /\ Cardinality(Searching) \in Nat /\ Cardinality(Searching) <= 1 + crowd
        BY DaysAreFinite DEF DaysInv
      <4>2. Cardinality(Searching') <= Cardinality(Searching) /\ Cardinality(Searching') \in Nat
        BY <3>3, <4>1, FS_Subset, FS_CardinalityType
      <4>. QED
        BY <1>0, <4>1, <4>2
    <3>5. ASSUME NEW a \in Chats, NEW d \in Int, ~(a = c /\ d = today)
          PROVE  /\ EventsOf(a, d)' = EventsOf(a, d)
                 /\ d >= today => Cardinality(EventsOf(a, d)) + Cardinality(Pending(a, d)') <= 1 + crowd
      <4>1. EventsOf(a, d)' = EventsOf(a, d)
        BY <2>3, <3>0, <3>1, <3>5 DEF EventsOf
      <4>2. Pends(r, a, d) => Pends(run[i], a, d)
        BY <2>0, <2>1, <2>3 DEF Pends, Idle
      <4>3. \A j \in Instances : Pends(run[j], a, d)' => Pends(run[j], a, d)
        BY <3>2, <4>1, <4>2 DEF Pends
      <4>4. Pending(a, d)' \in SUBSET Pending(a, d)
        BY <4>3 DEF Pending
      <4>5. /\ IsFiniteSet(Pending(a, d)) /\ Cardinality(Pending(a, d)) \in Nat
            /\ Cardinality(EventsOf(a, d)) \in Nat
        BY DaysAreFinite
      <4>6. Cardinality(Pending(a, d)') <= Cardinality(Pending(a, d)) /\ Cardinality(Pending(a, d)') \in Nat
        BY <4>4, <4>5, FS_Subset, FS_CardinalityType
      <4>7. d >= today => Cardinality(EventsOf(a, d)) + Cardinality(Pending(a, d)) <= 1 + crowd
        BY <3>0 DEF DaysInv
      <4>. QED
        BY <1>0, <4>1, <4>5, <4>6, <4>7
    <3>6. Cardinality(EventsOf(c, today)') + Cardinality(Pending(c, today)') <= 1 + crowd
      <4>1. EventsOf(c, today)' = EventsOf(c, today) \cup {e}
        BY <2>0, <2>3, <3>0, <3>1 DEF EventsOf
      <4>2. i \in Pending(c, today)
        BY <2>0, <2>1 DEF Pending, Pends
      <4>3. ~Pends(r, c, today)'
        BY <2>1, <2>3 DEF Pends
      <4>4. \A j \in Instances \ {i} : Pends(run[j], c, today)' => Pends(run[j], c, today)
        BY <3>2, <4>1 DEF Pends
      <4>5. Pending(c, today)' \in SUBSET (Pending(c, today) \ {i})
        BY <3>2, <4>3, <4>4 DEF Pending, Pends
      <4>6. /\ IsFiniteSet(Pending(c, today)) /\ IsFiniteSet(EventsOf(c, today))
            /\ Cardinality(Pending(c, today)) \in Nat /\ Cardinality(EventsOf(c, today)) \in Nat
        BY DaysAreFinite
      <4>7. /\ IsFiniteSet(Pending(c, today) \ {i})
            /\ Cardinality(Pending(c, today) \ {i}) = Cardinality(Pending(c, today)) - 1
        BY <4>2, <4>6, FS_RemoveElement
      <4>8. /\ Cardinality(Pending(c, today)') <= Cardinality(Pending(c, today)) - 1
            /\ Cardinality(Pending(c, today)') \in Nat
        BY <4>5, <4>7, FS_Subset, FS_CardinalityType
      <4>9. /\ Cardinality(EventsOf(c, today)') <= Cardinality(EventsOf(c, today)) + 1
            /\ Cardinality(EventsOf(c, today)') \in Nat
        <5>1. /\ IsFiniteSet(EventsOf(c, today) \cup {e})
              /\ Cardinality(EventsOf(c, today) \cup {e})
                   \in {Cardinality(EventsOf(c, today)), Cardinality(EventsOf(c, today)) + 1}
          BY <4>6, FS_AddElement
        <5>. QED
          BY <4>1, <4>6, <5>1
      <4>10. Cardinality(EventsOf(c, today)) + Cardinality(Pending(c, today)) <= 1 + crowd
        BY <1>0, <3>0 DEF DaysInv
      <4>. QED
        BY <1>0, <4>6, <4>8, <4>9, <4>10
    <3>7. Cardinality(EventsOf(c, today)') <= 1 + crowd
      <4>1. Cardinality(EventsOf(c, today)') \in Nat /\ Cardinality(Pending(c, today)') \in Nat
        <5>1. EventsOf(c, today)' \in SUBSET events' /\ Pending(c, today)' \in SUBSET Instances
          BY DEF EventsOf, Pending
        <5>. QED
          BY <5>1, FS_Subset, FS_CardinalityType DEF CronNumbers
      <4>. QED
        BY <1>0, <3>6, <4>1
    <3>8. ~(today > today)
      BY <1>0
    <3>9. ASSUME NEW a \in Chats, NEW d \in Int
          PROVE  /\ Cardinality(EventsOf(a, d)') <= 1 + crowd
                 /\ d >= today => Cardinality(EventsOf(a, d)') + Cardinality(Pending(a, d)') <= 1 + crowd
                 /\ d > today => EventsOf(a, d)' = {}
      <4>1. CASE a = c /\ d = today
        BY <3>6, <3>7, <3>8, <4>1
      <4>2. CASE ~(a = c /\ d = today)
        BY <3>0, <3>5, <4>2 DEF DaysInv
      <4>. QED
        BY <4>1, <4>2
    <3>. QED
      BY <2>0, <3>0, <3>4, <3>9 DEF DaysInv
  <2>. QED
    BY <2>1, <2>2, <2>3
<1>. QED
  BY <1>1, <1>2, <1>3, <1>4, <1>5, <1>6, <1>7 DEF CronNext

\* A case gets one expired event in a calendar day of India, also from a run that goes over
\* midnight, and at most one more for each run that was begun beside another.
THEOREM ExpiredOnceADay == Spec => []ExpiredOncePerDay
<1>1. CronInit => DaysInv
  <2> SUFFICES ASSUME CronInit PROVE DaysInv
    OBVIOUS
  <2>1. /\ \A c, d : EventsOf(c, d) = {} /\ Pending(c, d) = {}
        /\ Searching = {} /\ crowd = 0
    BY DEF CronInit, EventsOf, Pending, Pends, Searching, Idle
  <2>2. Cardinality({}) = 0
    BY FS_EmptySet
  <2>. QED
    BY ONLY <2>1, <2>2 DEF DaysInv
<1>2. DaysInv => ExpiredOncePerDay
  <2> SUFFICES ASSUME DaysInv, NEW c \in Chats, NEW t \in 0..MaxClock
               PROVE  Cardinality({e \in events : e.chat = c /\ IndianDayWindow(e.at) = IndianDayWindow(t)}) <= 1 + crowd
    BY DEF ExpiredOncePerDay
  <2>1. t \in Nat
    OBVIOUS
  <2>2. IndianDayWindow(t) \in Int
    BY <2>1, IndianDay
  <2>. QED
    BY <2>2 DEF DaysInv, EventsOf
<1>. QED
  BY <1>1, <1>2, CronPart, CronStart, CronNumbersStep, CronRunsStep, DaysStep, PTL

-----------------------------------------------------------------------------
(* The pages of the chat list *)

LEMMA PagesPart == Spec => PagesInit /\ [][PagesNext]_pageVars
<1>1. Init => PagesInit
  BY DEF Init
<1>2. [Next]_vars => [PagesNext]_pageVars
  BY DEF Next, vars, pageVars
<1>. QED
  BY <1>1, <1>2, PTL DEF Spec

HIDE DayCronAssumption DEF DayCronAssumption
USE ChatPagesAssumption DEF ChatPagesAssumption

Queries == {"count", "read", "recount", "done"}

-----------------------------------------------------------------------------
(* The places of the rows *)

Listed(rows) == DOMAIN rows \subseteq Rows /\ rows \in [DOMAIN rows -> Stamps]
\* The rows that come before r in every order.
Above(rows, r) == {s \in DOMAIN rows : Sooner(rows[s], rows[r])}
Place(rows, r)  == Cardinality(Above(rows, r))

LEMMA SoonerOrders ==
  \A a, b, c \in Stamps :
    /\ ~(Sooner(a, b) /\ Sooner(b, a))
    /\ Sooner(a, b) /\ Sooner(b, c) => Sooner(a, c)
    /\ a # b => Sooner(a, b) \/ Sooner(b, a)
BY DEF Sooner, Stamps, Null

LEMMA RowsAreFinite ==
  ASSUME NEW T \in SUBSET Rows
  PROVE  IsFiniteSet(T) /\ Cardinality(T) \in Nat
BY FS_Subset, FS_CardinalityType

\* One row more at most.
LEMMA OneMore ==
  ASSUME NEW T \in SUBSET Rows, NEW U \in SUBSET Rows, NEW x, T \subseteq U \cup {x}
  PROVE  Cardinality(T) <= Cardinality(U) + 1
<1>1. IsFiniteSet(U) /\ Cardinality(U) \in Nat /\ Cardinality(T) \in Nat
  BY RowsAreFinite
<1>2. IsFiniteSet(U \cup {x}) /\ Cardinality(U \cup {x}) \in {Cardinality(U), Cardinality(U) + 1}
  BY <1>1, FS_AddElement
<1>3. Cardinality(T) <= Cardinality(U \cup {x})
  BY <1>2, FS_Subset
<1>. QED
  BY <1>1, <1>2, <1>3

LEMMA NoMore ==
  ASSUME NEW T \in SUBSET Rows, NEW U \in SUBSET Rows, T \subseteq U
  PROVE  Cardinality(T) <= Cardinality(U)
BY RowsAreFinite, FS_Subset

\* The pages end at the last row that was counted.
LEMMA LastPage ==
  ASSUME NEW n \in Nat, NEW p \in Nat, ~(p < TotalPages(n))
  PROVE  n <= p * PageSize
<1> DEFINE a == n + PageSize - 1
<1>1. a \in Int
  OBVIOUS
<1>2. PICK q \in Int : a = PageSize * q + (a % PageSize) /\ q = a \div PageSize
  BY <1>1, Rest
<1>3. a % PageSize \in 0..(PageSize - 1) /\ PageSize * q \in Int
  BY <1>1, Rest
<1>4. q <= p
  BY <1>2 DEF TotalPages
<1>5. PageSize * q <= PageSize * p
  BY <1>4
<1>6. n <= PageSize * q
  BY <1>2, <1>3
<1>. QED
  BY <1>3, <1>5, <1>6

\* What the client has read goes on with the pages.
LEMMA PastGrows ==
  ASSUME NEW p \in Nat \ {0}
  PROVE  /\ (p - 1) * PageSize \in Nat /\ p * PageSize \in Nat
         /\ (p + 1 - 1) * PageSize = p * PageSize
         /\ p * PageSize = (p - 1) * PageSize + PageSize
<1>1. PICK k \in Nat : p = k + 1
  OBVIOUS
<1>2. k * PageSize \in Nat /\ (k + 1) * PageSize = k * PageSize + PageSize
  OBVIOUS
<1>3. p - 1 = k /\ p + 1 - 1 = k + 1
  BY <1>1
<1>. QED
  BY <1>1, <1>2, <1>3

LEMMA PlaceIsThere ==
  ASSUME NEW f, Listed(f), NEW r \in DOMAIN f
  PROVE  /\ Above(f, r) \in SUBSET Rows /\ IsFiniteSet(Above(f, r)) /\ r \notin Above(f, r)
         /\ Place(f, r) \in Nat /\ Cardinality(DOMAIN f) \in Nat /\ Place(f, r) < Cardinality(DOMAIN f)
<1>1. Above(f, r) \in SUBSET Rows /\ DOMAIN f \in SUBSET Rows
  BY DEF Listed, Above
<1>2. r \notin Above(f, r)
  <2>1. f[r] \in Stamps
    BY DEF Listed
  <2>. QED
    BY <2>1, SoonerOrders DEF Above
<1>3. IsFiniteSet(Above(f, r)) /\ Cardinality(Above(f, r)) \in Nat /\ IsFiniteSet(DOMAIN f) /\ Cardinality(DOMAIN f) \in Nat
  BY <1>1, RowsAreFinite
<1>4. Cardinality(Above(f, r) \cup {r}) = Cardinality(Above(f, r)) + 1
  BY <1>2, <1>3, FS_AddElement
<1>5. Cardinality(Above(f, r) \cup {r}) <= Cardinality(DOMAIN f)
  <2>1. Above(f, r) \cup {r} \in SUBSET DOMAIN f
    BY DEF Above
  <2>. QED
    BY <1>3, <2>1, FS_Subset
<1>. QED
  BY <1>1, <1>2, <1>3, <1>4, <1>5 DEF Place

\* A row that comes before another has a place before it.
LEMMA SoonerPlace ==
  ASSUME NEW f, Listed(f), NEW q \in DOMAIN f, NEW r \in DOMAIN f, Sooner(f[q], f[r])
  PROVE  Place(f, q) < Place(f, r)
<1>1. Above(f, q) \cup {q} \in SUBSET Above(f, r)
  <2>1. \A s \in DOMAIN f : f[s] \in Stamps
    BY DEF Listed
  <2>. QED
    BY <2>1, SoonerOrders DEF Above
<1>2. Cardinality(Above(f, q) \cup {q}) = Cardinality(Above(f, q)) + 1
  BY PlaceIsThere, FS_AddElement
<1>3. Cardinality(Above(f, q) \cup {q}) <= Cardinality(Above(f, r))
  BY <1>1, PlaceIsThere, FS_Subset
<1>. QED
  BY <1>2, <1>3, PlaceIsThere DEF Place

LEMMA PlacesDiffer ==
  ASSUME NEW f, Listed(f), NEW q \in Alone(f), NEW r \in Alone(f), Place(f, q) = Place(f, r)
  PROVE  q = r
<1>1. q \in DOMAIN f /\ r \in DOMAIN f /\ (f[q] = f[r] => q = r) /\ f[q] \in Stamps /\ f[r] \in Stamps
  BY DEF Alone, Listed
<1>2. ~Sooner(f[q], f[r]) /\ ~Sooner(f[r], f[q])
  <2>1. Place(f, q) \in Nat
    BY <1>1, PlaceIsThere
  <2>2. Sooner(f[q], f[r]) => Place(f, q) < Place(f, r)
    BY <1>1, SoonerPlace
  <2>3. Sooner(f[r], f[q]) => Place(f, r) < Place(f, q)
    BY <1>1, SoonerPlace
  <2>. QED
    BY <2>1, <2>2, <2>3
<1>. QED
  BY <1>1, <1>2, SoonerOrders

\* One such row at the most has the place k.
LEMMA OneAtPlace ==
  ASSUME NEW f, Listed(f), NEW k
  PROVE  \E x : \A r \in Alone(f) : Place(f, r) = k => r = x
<1>1. CASE \E x \in Alone(f) : Place(f, x) = k
  BY <1>1, PlacesDiffer
<1>2. CASE ~\E x \in Alone(f) : Place(f, x) = k
  BY <1>2
<1>. QED
  BY <1>1, <1>2

\* A row with a lastMessageAt of its own has the same place in every order.
LEMMA PlaceInOrder ==
  ASSUME Listed(list), NEW order \in Orders, NEW r \in Alone(list)
  PROVE  /\ DOMAIN order \subseteq Nat
         /\ \E j \in DOMAIN order : order[j] = r
         /\ \A j \in DOMAIN order : order[j] = r => j = Place(list, r) + 1
<1> DEFINE n == Cardinality(DOMAIN list)
<1>1. r \in DOMAIN list /\ \A s \in DOMAIN list : list[s] = list[r] => s = r
  BY DEF Alone
<1>2. n \in Nat /\ IsFiniteSet(DOMAIN list)
  <2>1. DOMAIN list \in SUBSET Rows
    BY DEF Listed
  <2>. QED
    BY <2>1, RowsAreFinite
<1>3. /\ order \in [1..n -> DOMAIN list] /\ \A i, j \in 1..n : i # j => order[i] # order[j]
      /\ \A i, j \in 1..n : Sooner(list[order[i]], list[order[j]]) => i < j
  <2>1. order \in [1..n -> DOMAIN list] /\ \A i, j \in 1..n : i # j => order[i] # order[j]
    BY DEF Orders, SetToSeqs
  <2>. QED
    BY <2>1 DEF Orders
<1>4. order \in Surjection(1..n, DOMAIN list)
  <2>1. order \in Injection(1..n, DOMAIN list)
    BY <1>3 DEF Injection, IsInjective
  <2>2. Cardinality(1..n) = n
    BY <1>2, FS_Interval
  <2>. QED
    BY <1>2, <2>1, <2>2, FS_Injection
<1> HIDE DEF n
<1>5. ASSUME NEW j \in 1..n, order[j] = r PROVE j = Place(list, r) + 1
  <2> DEFINE T == 1..(j - 1)
             f == [i \in T |-> order[i]]
  <2>1. j \in Int /\ j >= 1 /\ \A i : i \in T <=> i \in 1..n /\ i < j
    BY <1>2
  <2>2. ASSUME NEW i \in T PROVE order[i] \in Above(list, r)
    <3>1. i \in 1..n /\ i < j /\ order[i] # r /\ order[i] \in DOMAIN list
      BY <1>3, <1>5, <2>1
    <3>2. list[order[i]] # list[r] /\ list[order[i]] \in Stamps /\ list[r] \in Stamps
      BY <1>1, <3>1 DEF Listed
    <3>3. ~Sooner(list[r], list[order[i]])
      <4>1. Sooner(list[order[j]], list[order[i]]) => j < i
        BY <1>3, <3>1
      <4>2. ~(j < i)
        BY <2>1, <3>1
      <4>. QED
        BY <1>5, <4>1, <4>2
    <3>. QED
      BY <3>1, <3>2, <3>3, SoonerOrders DEF Above
  <2>3. ASSUME NEW s \in Above(list, r) PROVE \E i \in T : order[i] = s
    <3>1. PICK i \in 1..n : order[i] = s
      BY <1>4 DEF Surjection, Above
    <3>2. i < j
      BY <1>3, <1>5, <3>1 DEF Above
    <3>. QED
      BY <2>1, <3>1, <3>2
  <2>4. f \in Bijection(T, Above(list, r))
    <3>1. f \in [T -> Above(list, r)]
      BY <2>2
    <3>2. \A a, b \in T : f[a] = f[b] => a = b
      BY <1>3, <2>1
    <3>3. \A s \in Above(list, r) : \E i \in T : f[i] = s
      BY <2>3
    <3> HIDE DEF f, T
    <3>. QED
      BY <3>1, <3>2, <3>3 DEF Bijection, Injection, Surjection, IsInjective
  <2>5. IsFiniteSet(T) /\ Cardinality(T) = j - 1
    BY <2>1, FS_Interval
  <2> HIDE DEF f, T
  <2>6. ExistsBijection(T, Above(list, r))
    BY <2>4 DEF ExistsBijection
  <2>7. Place(list, r) = j - 1
    BY <2>5, <2>6, FS_Bijection DEF Place
  <2>. QED
    BY <2>1, <2>7
<1>6. DOMAIN order = 1..n
  BY <1>3
<1>. QED
  BY <1>1, <1>2, <1>4, <1>5, <1>6 DEF Surjection

-----------------------------------------------------------------------------
(* A request *)

PageNumbers ==
  /\ Listed(list) /\ still \subseteq Alone(list)
  /\ query \in Queries /\ byExpired \in BOOLEAN
  /\ page \in Nat \ {0} /\ total \in 0..Cardinality(Rows) /\ shown \in [Rows -> Nat]
  /\ leaves \in Nat /\ enters \in Nat /\ bumps \in Nat /\ leaves + enters + bumps <= MaxMoves

\* How many rows the pages that were read had skipped or shown.
Past == IF query \in {"count", "read"} THEN (page - 1) * PageSize ELSE page * PageSize

\* The rows that the client has missed, and those that it got, or will get, again.
Missed == {r \in still : shown[r] = 0 /\ Place(list, r) < Past}
Again  == {r \in still : shown[r] > 1 \/ (shown[r] = 1 /\ Place(list, r) >= Past)}

\* A row is missed when one before it leaves the list, and given again when one comes in
\* before it or moves to the front; what came in after the count may be beyond the last page.
PageInv ==
  /\ Cardinality(Missed) <= leaves
  /\ Cardinality(Again) <= bumps + enters
  /\ query = "read" => Cardinality(DOMAIN list) <= total + enters
  /\ query = "done" => Cardinality(DOMAIN list) <= page * PageSize + enters

LEMMA StillListed ==
  ASSUME PageNumbers
  PROVE  /\ still \in SUBSET Rows /\ Missed \in SUBSET Rows /\ Again \in SUBSET Rows
         /\ Cardinality(Missed) \in Nat /\ Cardinality(Again) \in Nat
         /\ Cardinality(DOMAIN list) \in 0..Cardinality(Rows) /\ Cardinality(DOMAIN list) \in Nat
         /\ \A r \in still : r \in DOMAIN list /\ Place(list, r) \in Nat /\ shown[r] \in Nat
<1>1. still \subseteq Alone(list) /\ Listed(list) /\ shown \in [Rows -> Nat]
  BY DEF PageNumbers
<1>2. Alone(list) \subseteq DOMAIN list /\ DOMAIN list \in SUBSET Rows
  BY <1>1 DEF Alone, Listed
<1>3. still \in SUBSET Rows /\ Missed \in SUBSET Rows /\ Again \in SUBSET Rows
  BY <1>1, <1>2 DEF Missed, Again
<1>4. Cardinality(DOMAIN list) \in Nat /\ Cardinality(DOMAIN list) <= Cardinality(Rows) /\ Cardinality(Rows) \in Nat
  BY <1>2, RowsAreFinite, NoMore
<1>5. Cardinality(DOMAIN list) \in 0..Cardinality(Rows)
  BY <1>4
<1>6. Cardinality(Missed) \in Nat /\ Cardinality(Again) \in Nat
  BY <1>3, RowsAreFinite
<1>. QED
  BY <1>1, <1>2, <1>3, <1>4, <1>5, <1>6, PlaceIsThere

LEMMA PageStart == PagesInit => PageNumbers /\ PageInv
<1> SUFFICES ASSUME PagesInit PROVE PageNumbers /\ PageInv
  OBVIOUS
<1>1. PICK present \in SUBSET Rows : list \in [present -> Stamps]
  BY DEF PagesInit
<1>2. Listed(list)
  BY <1>1 DEF Listed
<1>3. page = 1 /\ total = 0 /\ query = "count" /\ leaves = 0 /\ enters = 0 /\ bumps = 0
      /\ byExpired \in BOOLEAN /\ shown = [r \in Rows |-> 0] /\ still = Alone(list)
  BY DEF PagesInit
<1>4. Cardinality(Rows) \in Nat
  BY RowsAreFinite
<1>5. PageNumbers
  BY <1>2, <1>3, <1>4 DEF PageNumbers, Queries
<1>6. Past = 0
  BY <1>3 DEF Past
<1>7. \A r \in still : shown[r] = 0 /\ Place(list, r) \in Nat
  BY <1>3, <1>5, StillListed
<1>8. Missed = {} /\ Again = {}
  BY <1>6, <1>7 DEF Missed, Again
<1>9. Cardinality({}) = 0
  BY FS_EmptySet
<1>. QED
  BY <1>3, <1>5, <1>8, <1>9 DEF PageInv

\* The answer turns the page, or ends with the last one that was counted.
LEMMA AnswerTurns ==
  ASSUME PageNumbers, NEW n \in Nat, Answer(n), query \in {"read", "recount"}
  PROVE  /\ page' \in Nat \ {0} /\ query' \in {"count", "done"}
         /\ Past' = page * PageSize
         /\ query' = "done" => page' = page /\ n <= page * PageSize
<1>0. page \in Nat \ {0}
  BY DEF PageNumbers
<1>1. CASE page < TotalPages(n)
  <2>1. page' = page + 1 /\ query' = "count"
    BY <1>1 DEF Answer
  <2>2. Past' = (page' - 1) * PageSize
    BY <2>1 DEF Past
  <2>3. (page + 1 - 1) * PageSize = page * PageSize
    BY <1>0, PastGrows
  <2>. QED
    BY <1>0, <2>1, <2>2, <2>3
<1>2. CASE ~(page < TotalPages(n))
  <2>1. page' = page /\ query' = "done"
    BY <1>2 DEF Answer
  <2>2. Past' = page * PageSize
    BY <2>1 DEF Past
  <2>. QED
    BY <1>0, <1>2, <2>1, <2>2, LastPage
<1>. QED
  BY <1>1, <1>2

LEMMA CountRowsStep ==
  ASSUME PageNumbers, PageInv, CountRows
  PROVE  PageNumbers' /\ PageInv'
<1>1. query = "count" /\ query' = "read" /\ total' = Cardinality(DOMAIN list)
      /\ UNCHANGED <<list, byExpired, page, shown, still, leaves, enters, bumps>>
  BY DEF CountRows
<1>2. Cardinality(DOMAIN list) \in 0..Cardinality(Rows) /\ Cardinality(DOMAIN list) \in Nat
  BY StillListed
<1>3. PageNumbers'
  BY <1>1, <1>2 DEF PageNumbers, Queries
<1>4. Past' = Past
  BY <1>1 DEF Past
<1>5. Missed' = Missed /\ Again' = Again
  BY <1>1, <1>4 DEF Missed, Again
<1>6. Cardinality(DOMAIN list') <= total' + enters'
  BY <1>1, <1>2 DEF PageNumbers
<1>. QED
  BY <1>1, <1>3, <1>5, <1>6 DEF PageInv

LEMMA RecountStep ==
  ASSUME PageNumbers, PageInv, RecountExpired
  PROVE  PageNumbers' /\ PageInv'
<1> DEFINE n == Cardinality(DOMAIN list)
<1>1. query = "recount" /\ total' = n /\ Answer(n)
      /\ UNCHANGED <<list, byExpired, shown, still, leaves, enters, bumps>>
  BY DEF RecountExpired
<1>2. n \in 0..Cardinality(Rows) /\ n \in Nat
  BY StillListed
<1> HIDE DEF n
<1>3. /\ page' \in Nat \ {0} /\ query' \in {"count", "done"}
      /\ Past' = page * PageSize
      /\ query' = "done" => page' = page /\ n <= page * PageSize
  BY <1>1, <1>2, AnswerTurns
<1>4. PageNumbers'
  BY <1>1, <1>2, <1>3 DEF PageNumbers, Queries
<1>5. Past' = Past
  BY <1>1, <1>3 DEF Past
<1>6. Missed' = Missed /\ Again' = Again
  BY <1>1, <1>5 DEF Missed, Again
<1>7. query' = "done" => Cardinality(DOMAIN list') <= page' * PageSize + enters'
  <2>1. page * PageSize \in Nat /\ enters \in Nat
    BY PastGrows DEF PageNumbers
  <2>2. query' = "done" => n <= page * PageSize + enters
    BY <1>2, <1>3, <2>1
  <2>. QED
    BY <1>1, <1>3, <2>2 DEF n
<1>8. query' # "read"
  BY <1>3
<1>. QED
  BY <1>1, <1>4, <1>6, <1>7, <1>8 DEF PageInv

\* Whatever the order, a page shows the rows with their own lastMessageAt that have their
\* places behind those that were skipped, a page long.
LEMMA PageRows ==
  ASSUME PageNumbers, NEW order \in Orders, NEW r \in still
  PROVE  r \in Page(order) <=> (page - 1) * PageSize <= Place(list, r) /\ Place(list, r) < page * PageSize
<1> DEFINE low == (page - 1) * PageSize
           high == page * PageSize
<1>1. low \in Nat /\ high \in Nat
  BY PastGrows DEF PageNumbers
<1>2. /\ Place(list, r) \in Nat /\ Listed(list) /\ r \in Alone(list)
  BY StillListed DEF PageNumbers
<1>3. /\ DOMAIN order \subseteq Nat
      /\ \E j \in DOMAIN order : order[j] = r
      /\ \A j \in DOMAIN order : order[j] = r => j = Place(list, r) + 1
  BY <1>2, PlaceInOrder
<1>4. r \in Page(order) <=> \E j \in DOMAIN order : low < j /\ j <= high /\ order[j] = r
  BY DEF Page
<1> HIDE DEF low, high
<1>5. low < Place(list, r) + 1 /\ Place(list, r) + 1 <= high <=> low <= Place(list, r) /\ Place(list, r) < high
  BY <1>1, <1>2
<1>6. r \in Page(order) <=> low <= Place(list, r) /\ Place(list, r) < high
  BY <1>3, <1>4, <1>5
<1>. QED
  BY <1>6 DEF low, high

LEMMA ReadPageStep ==
  ASSUME PageNumbers, PageInv, ReadPage
  PROVE  PageNumbers' /\ PageInv'
<1>1. page \in Nat \ {0} /\ shown \in [Rows -> Nat] /\ still \subseteq Rows /\ total \in 0..Cardinality(Rows)
  BY StillListed DEF PageNumbers
<1>2. query = "read" /\ Past = (page - 1) * PageSize /\ Past \in Nat /\ page * PageSize = Past + PageSize
      /\ UNCHANGED <<list, byExpired, total, still, leaves, enters, bumps>>
  <2>1. query = "read" /\ UNCHANGED <<list, byExpired, total, still, leaves, enters, bumps>>
    BY DEF ReadPage
  <2>2. Past = (page - 1) * PageSize
    BY <2>1 DEF Past
  <2>. QED
    BY <1>1, <2>1, <2>2, PastGrows
<1>3. PICK order \in Orders : shown' = [r \in Rows |-> IF r \in Page(order) THEN shown[r] + 1 ELSE shown[r]]
  BY DEF ReadPage
<1>4. /\ page' \in Nat \ {0} /\ query' \in {"count", "recount", "done"} /\ Past' = Past + PageSize
      /\ query' = "done" => page' = page /\ total <= page * PageSize
  <2>1. CASE byExpired
    <3>1. query' = "recount" /\ page' = page
      BY <2>1 DEF ReadPage
    <3>2. Past' = page * PageSize
      BY <3>1 DEF Past
    <3>. QED
      BY <1>1, <1>2, <3>1, <3>2
  <2>2. CASE ~byExpired
    <3>1. Answer(total)
      BY <2>2 DEF ReadPage
    <3>2. total \in Nat
      BY <1>1, RowsAreFinite
    <3>3. /\ page' \in Nat \ {0} /\ query' \in {"count", "done"}
          /\ Past' = page * PageSize
          /\ query' = "done" => page' = page /\ total <= page * PageSize
      BY <1>2, <3>1, <3>2, AnswerTurns
    <3>. QED
      BY <1>2, <3>3
  <2>. QED
    BY <2>1, <2>2
<1>5. PageNumbers'
  <2>1. shown' \in [Rows -> Nat]
    BY <1>1, <1>3
  <2>. QED
    BY <1>2, <1>4, <2>1 DEF PageNumbers, Queries
<1>6. ASSUME NEW r \in still
      PROVE  /\ Place(list, r) \in Nat /\ shown[r] \in Nat
             /\ Past <= Place(list, r) /\ Place(list, r) < Past + PageSize => shown'[r] = shown[r] + 1
             /\ ~(Past <= Place(list, r) /\ Place(list, r) < Past + PageSize) => shown'[r] = shown[r]
  <2>1. r \in Page(order) <=> Past <= Place(list, r) /\ Place(list, r) < Past + PageSize
    BY <1>2, PageRows
  <2>2. r \in Rows /\ Place(list, r) \in Nat /\ shown[r] \in Nat
    BY <1>1, StillListed
  <2>. QED
    BY <1>3, <2>1, <2>2
<1>7. Missed' \subseteq Missed
  <2>1. Missed' = {r \in still : shown'[r] = 0 /\ Place(list, r) < Past + PageSize}
    BY <1>2, <1>4 DEF Missed
  <2>2. SUFFICES ASSUME NEW r \in still, shown'[r] = 0, Place(list, r) < Past + PageSize PROVE r \in Missed
    BY <2>1
  <2>. QED
    BY <1>2, <1>6, <2>2 DEF Missed
<1>8. Again' \subseteq Again
  <2>1. Again' = {r \in still : shown'[r] > 1 \/ (shown'[r] = 1 /\ Place(list, r) >= Past + PageSize)}
    BY <1>2, <1>4 DEF Again
  <2>2. SUFFICES ASSUME NEW r \in still, shown'[r] > 1 \/ (shown'[r] = 1 /\ Place(list, r) >= Past + PageSize)
                 PROVE  r \in Again
    BY <2>1
  <2>3. CASE Past <= Place(list, r) /\ Place(list, r) < Past + PageSize
    <3>1. shown[r] > 1 \/ shown[r] = 1
      BY <1>2, <1>6, <2>2, <2>3
    <3>. QED
      BY <1>2, <1>6, <2>3, <3>1 DEF Again
  <2>4. CASE ~(Past <= Place(list, r) /\ Place(list, r) < Past + PageSize)
    BY <1>2, <1>6, <2>2, <2>4 DEF Again
  <2>. QED
    BY <2>3, <2>4
<1>9. Cardinality(Missed)' <= leaves' /\ Cardinality(Again)' <= bumps' + enters'
  <2>1. Missed \in SUBSET Rows /\ Again \in SUBSET Rows /\ Cardinality(Missed) \in Nat /\ Cardinality(Again) \in Nat
    BY StillListed
  <2>2. Cardinality(Missed') <= Cardinality(Missed) /\ Cardinality(Again') <= Cardinality(Again)
    BY <1>7, <1>8, <2>1, NoMore
  <2>3. Cardinality(Missed') \in Nat /\ Cardinality(Again') \in Nat
    BY <1>7, <1>8, <2>1, RowsAreFinite
  <2>4. Cardinality(Missed) <= leaves /\ Cardinality(Again) <= bumps + enters
        /\ leaves \in Nat /\ bumps \in Nat /\ enters \in Nat
    BY DEF PageInv, PageNumbers
  <2>. QED
    BY <1>2, <2>1, <2>2, <2>3, <2>4
<1>10. query' = "done" => Cardinality(DOMAIN list') <= page' * PageSize + enters'
  <2> DEFINE n == Cardinality(DOMAIN list)
             d == page * PageSize
  <2>1. n <= total + enters /\ n \in Nat /\ enters \in Nat
    BY <1>2, StillListed DEF PageInv, PageNumbers
  <2>2. d \in Nat /\ total \in Nat
    BY <1>1, PastGrows, RowsAreFinite
  <2> SUFFICES ASSUME query' = "done" PROVE Cardinality(DOMAIN list') <= page' * PageSize + enters'
    OBVIOUS
  <2>3. total <= d /\ page' * PageSize = d /\ Cardinality(DOMAIN list') = n /\ enters' = enters
    BY <1>2, <1>4
  <2> HIDE DEF d, n
  <2>4. n <= d + enters
    BY ONLY <2>1, <2>2, <2>3
  <2>. QED
    BY ONLY <2>3, <2>4
<1>. QED
  BY <1>4, <1>5, <1>9, <1>10 DEF PageInv

-----------------------------------------------------------------------------
(* The list moves *)

\* What stays as it is while a row moves, and who is still there.
LEMMA MovesKeep ==
  ASSUME PageNumbers, NEW x, Moves(x)
  PROVE  /\ query # "done" /\ leaves + enters + bumps + 1 <= MaxMoves
         /\ Past \in Nat /\ Past' = Past
         /\ UNCHANGED <<byExpired, query, page, total, shown>>
         /\ still' \subseteq Alone(list') /\ still' \subseteq still \ {x}
<1>1. UNCHANGED <<byExpired, query, page, total, shown>> /\ query # "done" /\ leaves + enters + bumps < MaxMoves
      /\ still' = (still \ {x}) \cap Alone(list')
  BY DEF Moves
<1>2. Past' = Past
  BY <1>1 DEF Past
<1>3. page \in Nat \ {0} /\ leaves \in Nat /\ enters \in Nat /\ bumps \in Nat
  BY DEF PageNumbers
<1>4. Past \in Nat
  BY <1>3, PastGrows DEF Past
<1>. QED
  BY <1>1, <1>2, <1>3, <1>4

\* A row that is gone had one place, before or behind the others.
LEMMA PlacesWithout ==
  ASSUME NEW f, Listed(f), NEW x, NEW g, g = [s \in DOMAIN f \ {x} |-> f[s]], NEW r \in DOMAIN g
  PROVE  Place(g, r) <= Place(f, r) /\ Place(f, r) <= Place(g, r) + 1
<1>1. Listed(g) /\ DOMAIN g = DOMAIN f \ {x} /\ \A s \in DOMAIN g : g[s] = f[s]
  BY DEF Listed
<1>2. Above(g, r) \in SUBSET Rows /\ Above(f, r) \in SUBSET Rows
  BY <1>1, PlaceIsThere
<1>3. Above(g, r) \subseteq Above(f, r) /\ Above(f, r) \subseteq Above(g, r) \cup {x}
  BY <1>1 DEF Above
<1>. QED
  BY <1>2, <1>3, NoMore, OneMore DEF Place

\* One that comes, or moves to the front, pushes the others back by one place at most.
LEMMA PlacesWith ==
  ASSUME NEW f, Listed(f), NEW g, Listed(g), NEW x, DOMAIN g = DOMAIN f \cup {x},
         \A s \in DOMAIN f : s # x => g[s] = f[s], NEW r \in DOMAIN f, r # x,
         x \in DOMAIN f /\ Sooner(f[x], f[r]) => Sooner(g[x], f[r])
  PROVE  Place(f, r) <= Place(g, r) /\ Place(g, r) <= Place(f, r) + 1
<1>1. Above(g, r) \in SUBSET Rows /\ Above(f, r) \in SUBSET Rows
  BY PlaceIsThere
<1>2. g[r] = f[r]
  OBVIOUS
<1>3. Above(f, r) \subseteq Above(g, r) /\ Above(g, r) \subseteq Above(f, r) \cup {x}
  BY <1>2 DEF Above
<1>. QED
  BY <1>1, <1>3, NoMore, OneMore DEF Place

\* A row that leaves draws the next unread one into the pages that were read.
LEMMA LeaveStep ==
  ASSUME PageNumbers, PageInv, NEW x \in DOMAIN list, Leave(x)
  PROVE  PageNumbers' /\ PageInv'
<1>1. /\ query # "done" /\ leaves + enters + bumps + 1 <= MaxMoves
      /\ Past \in Nat /\ Past' = Past
      /\ UNCHANGED <<byExpired, query, page, total, shown>>
      /\ still' \subseteq Alone(list') /\ still' \subseteq still \ {x}
  BY MovesKeep DEF Leave
<1>2. list' = [s \in DOMAIN list \ {x} |-> list[s]] /\ leaves' = leaves + 1 /\ UNCHANGED <<enters, bumps>>
  BY DEF Leave
<1>3. Listed(list) /\ leaves \in Nat /\ enters \in Nat /\ bumps \in Nat
  BY DEF PageNumbers
<1>4. Listed(list')
  BY <1>2, <1>3 DEF Listed
<1>5. PageNumbers'
  <2>1. leaves' \in Nat /\ leaves' + enters' + bumps' <= MaxMoves
    BY ONLY <1>1, <1>2, <1>3, ChatPagesAssumption DEF ChatPagesAssumption
  <2>. QED
    BY <1>1, <1>2, <1>4, <2>1 DEF PageNumbers, Listed
<1>6. ASSUME NEW r \in still'
      PROVE  /\ r \in still /\ Place(list, r) \in Nat /\ Place(list', r) \in Nat /\ shown[r] \in Nat
             /\ Place(list', r) <= Place(list, r) /\ Place(list, r) <= Place(list', r) + 1
  <2>1. r \in still /\ r \in DOMAIN list'
    BY <1>1 DEF Alone
  <2>. QED
    BY <1>2, <1>3, <1>4, <2>1, StillListed, PlaceIsThere, PlacesWithout
<1>7. PICK y : \A r \in Alone(list') : Place(list', r) = Past - 1 => r = y
  BY <1>4, OneAtPlace
<1>8. Missed' = {r \in still' : shown[r] = 0 /\ Place(list', r) < Past}
      /\ Again' = {r \in still' : shown[r] > 1 \/ (shown[r] = 1 /\ Place(list', r) >= Past)}
  BY <1>1 DEF Missed, Again
<1>9. Missed' \subseteq Missed \cup {y}
  <2>1. SUFFICES ASSUME NEW r \in still', shown[r] = 0, Place(list', r) < Past, r # y PROVE r \in Missed
    BY <1>8
  <2>2. Place(list', r) # Past - 1
    BY <1>1, <1>7, <2>1
  <2>. QED
    BY <1>1, <1>6, <2>1, <2>2 DEF Missed
<1>10. Again' \subseteq Again
  <2>1. SUFFICES ASSUME NEW r \in still', shown[r] > 1 \/ (shown[r] = 1 /\ Place(list', r) >= Past) PROVE r \in Again
    BY <1>8
  <2>. QED
    BY <1>1, <1>6, <2>1 DEF Again
<1>11. Cardinality(Missed)' <= leaves' /\ Cardinality(Again)' <= bumps' + enters'
  <2>1. Missed \in SUBSET Rows /\ Again \in SUBSET Rows /\ Cardinality(Missed) \in Nat /\ Cardinality(Again) \in Nat
    BY StillListed
  <2>2. Missed' \in SUBSET Rows /\ Again' \in SUBSET Rows
    <3>1. still' \subseteq Rows
      BY <1>1, StillListed
    <3>. QED
      BY <1>8, <3>1
  <2>3. Cardinality(Missed') <= Cardinality(Missed) + 1 /\ Cardinality(Again') <= Cardinality(Again)
    BY <1>9, <1>10, <2>1, <2>2, OneMore, NoMore
  <2>4. Cardinality(Missed') \in Nat /\ Cardinality(Again') \in Nat
    BY <2>2, RowsAreFinite
  <2>5. Cardinality(Missed) <= leaves /\ Cardinality(Again) <= bumps + enters
    BY DEF PageInv
  <2>. QED
    BY <1>2, <1>3, <2>1, <2>3, <2>4, <2>5
<1>12. query' = "read" => Cardinality(DOMAIN list') <= total' + enters'
  <2>1. DOMAIN list' \in SUBSET Rows /\ DOMAIN list \in SUBSET Rows /\ DOMAIN list' \subseteq DOMAIN list
    BY <1>2, <1>3 DEF Listed
  <2>2. Cardinality(DOMAIN list') <= Cardinality(DOMAIN list)
        /\ Cardinality(DOMAIN list') \in Nat /\ Cardinality(DOMAIN list) \in Nat
    BY <2>1, NoMore, RowsAreFinite
  <2>3. query = "read" => Cardinality(DOMAIN list) <= total + enters
    BY DEF PageInv
  <2>4. total \in Nat
    BY RowsAreFinite DEF PageNumbers
  <2> DEFINE n == Cardinality(DOMAIN list)
             m == Cardinality(DOMAIN list')
  <2>5. m <= n /\ m \in Nat /\ n \in Nat /\ (query = "read" => n <= total + enters) /\ total' = total /\ enters' = enters /\ query' = query
    BY <1>1, <1>2, <2>2, <2>3
  <2> HIDE DEF n, m
  <2>6. query' = "read" => m <= total' + enters'
    BY <1>3, <2>4, <2>5
  <2>. QED
    BY <2>6 DEF m
<1>. QED
  BY <1>1, <1>5, <1>11, <1>12 DEF PageInv

\* A row that comes in or moves to the front pushes the last one that was read out of the
\* pages that were read.
LEMMA ComesIn ==
  ASSUME PageNumbers, PageInv, NEW x \in Rows, Moves(x), Listed(list'), leaves' = leaves,
         NEW d \in {0, 1}, NEW e \in {0, 1}, d + e = 1, enters' = enters + d, bumps' = bumps + e,
         Cardinality(DOMAIN list') <= Cardinality(DOMAIN list) + d,
         \A r \in still' : Place(list, r) <= Place(list', r) /\ Place(list', r) <= Place(list, r) + 1
  PROVE  PageNumbers' /\ PageInv'
<1>1. /\ query # "done" /\ leaves + enters + bumps + 1 <= MaxMoves
      /\ Past \in Nat /\ Past' = Past
      /\ UNCHANGED <<byExpired, query, page, total, shown>>
      /\ still' \subseteq Alone(list') /\ still' \subseteq still \ {x}
  BY MovesKeep
<1>2. Listed(list) /\ leaves \in Nat /\ enters \in Nat /\ bumps \in Nat
  BY DEF PageNumbers
<1>3. leaves' \in Nat /\ enters' \in Nat /\ bumps' \in Nat /\ bumps' + enters' = bumps + enters + 1
  <2>1. \A a, b \in Nat : a + 0 = a /\ a + 1 \in Nat /\ a + (b + 1) = b + a + 1 /\ (a + 1) + b = a + b + 1
    OBVIOUS
  <2>2. CASE d = 0
    <3>1. e = 1 /\ enters' = enters /\ bumps' = bumps + 1
      BY <2>1, <2>2, <1>2
    <3>. QED
      BY <1>2, <2>1, <3>1
  <2>3. CASE d = 1
    <3>1. e = 0 /\ enters' = enters + 1 /\ bumps' = bumps
      BY <2>1, <2>3, <1>2
    <3>. QED
      BY <1>2, <2>1, <3>1
  <2>4. d = 0 \/ d = 1
    OBVIOUS
  <2>. QED
    BY ONLY <2>2, <2>3, <2>4
<1>4. PageNumbers'
  <2>1. leaves' + enters' + bumps' <= MaxMoves
    <3>1. \A l, n, b, c, f \in Nat : c + f = b + n + 1 => l + f + c = l + n + b + 1
      OBVIOUS
    <3>2. leaves' + enters' + bumps' = leaves + enters + bumps + 1
      <4>1. leaves + enters' + bumps' = leaves + enters + bumps + 1
        <5>1. PICK f \in Nat : f = enters'
          BY <1>3
        <5>2. PICK c \in Nat : c = bumps'
          BY <1>3
        <5>3. c + f = bumps + enters + 1
          BY <1>3, <5>1, <5>2
        <5>4. leaves + f + c = leaves + enters + bumps + 1
          BY <1>2, <5>3
        <5>. QED
          BY <5>1, <5>2, <5>4
      <4>. QED
        BY <4>1
    <3>3. leaves + enters + bumps + 1 <= MaxMoves
      BY <1>1
    <3>. QED
      BY <3>2, <3>3
  <2>. QED
    BY <1>1, <1>3, <2>1 DEF PageNumbers, Listed
<1>5. ASSUME NEW r \in still'
      PROVE  /\ r \in still /\ Place(list, r) \in Nat /\ Place(list', r) \in Nat /\ shown[r] \in Nat
             /\ Place(list, r) <= Place(list', r) /\ Place(list', r) <= Place(list, r) + 1
  <2>1. r \in still /\ r \in DOMAIN list'
    BY <1>1 DEF Alone
  <2>. QED
    BY <2>1, StillListed, PlaceIsThere
<1>6. PICK y : \A r \in Alone(list') : Place(list', r) = Past => r = y
  BY OneAtPlace
<1>7. Missed' = {r \in still' : shown[r] = 0 /\ Place(list', r) < Past}
      /\ Again' = {r \in still' : shown[r] > 1 \/ (shown[r] = 1 /\ Place(list', r) >= Past)}
  BY <1>1 DEF Missed, Again
<1>8. Missed' \subseteq Missed
  <2>1. SUFFICES ASSUME NEW r \in still', shown[r] = 0, Place(list', r) < Past PROVE r \in Missed
    BY <1>7
  <2>. QED
    BY <1>1, <1>5, <2>1 DEF Missed
<1>9. Again' \subseteq Again \cup {y}
  <2>1. SUFFICES ASSUME NEW r \in still', shown[r] > 1 \/ (shown[r] = 1 /\ Place(list', r) >= Past), r # y
                 PROVE  r \in Again
    BY <1>7
  <2>2. Place(list', r) # Past
    BY <1>1, <1>6, <2>1
  <2>. QED
    BY <1>1, <1>5, <2>1, <2>2 DEF Again
<1>10. Cardinality(Missed)' <= leaves' /\ Cardinality(Again)' <= bumps' + enters'
  <2>1. Missed \in SUBSET Rows /\ Again \in SUBSET Rows /\ Cardinality(Missed) \in Nat /\ Cardinality(Again) \in Nat
    BY StillListed
  <2>2. Missed' \in SUBSET Rows /\ Again' \in SUBSET Rows
    <3>1. still' \subseteq Rows
      BY <1>1, StillListed
    <3>. QED
      BY <1>7, <3>1
  <2>3. Cardinality(Missed') <= Cardinality(Missed) /\ Cardinality(Again') <= Cardinality(Again) + 1
    BY <1>8, <1>9, <2>1, <2>2, OneMore, NoMore
  <2>4. Cardinality(Missed') \in Nat /\ Cardinality(Again') \in Nat
    BY <2>2, RowsAreFinite
  <2>5. Cardinality(Missed) <= leaves /\ Cardinality(Again) <= bumps + enters
    BY DEF PageInv
  <2>. QED
    BY <1>2, <1>3, <2>1, <2>3, <2>4, <2>5
<1>11. query' = "read" => Cardinality(DOMAIN list') <= total' + enters'
  <2> DEFINE n == Cardinality(DOMAIN list)
             m == Cardinality(DOMAIN list')
  <2>1. DOMAIN list' \in SUBSET Rows /\ DOMAIN list \in SUBSET Rows
    BY <1>2 DEF Listed
  <2>2. m <= n + d /\ m \in Nat /\ n \in Nat /\ (query = "read" => n <= total + enters) /\ total \in Nat
        /\ total' = total /\ query' = query
    BY <1>1, <2>1, RowsAreFinite DEF PageInv, PageNumbers
  <2> HIDE DEF n, m
  <2>3. query' = "read" => m <= total' + enters'
    BY <1>2, <2>2
  <2>. QED
    BY <2>3 DEF m
<1>. QED
  BY <1>1, <1>4, <1>10, <1>11 DEF PageInv

LEMMA Stamped ==
  ASSUME NEW x \in Rows, NEW t \in Stamps, Listed(list), Stamp(x, t)
  PROVE  /\ Listed(list') /\ DOMAIN list' = DOMAIN list \cup {x} /\ list'[x] = t
         /\ \A s \in DOMAIN list : s # x => list'[s] = list[s]
BY DEF Listed, Stamp

LEMMA EnterStep ==
  ASSUME PageNumbers, PageInv, NEW x \in Rows, Enter(x)
  PROVE  PageNumbers' /\ PageInv'
<1>1. x \notin DOMAIN list /\ Moves(x) /\ enters' = enters + 1 /\ UNCHANGED <<leaves, bumps>>
  BY DEF Enter
<1>2. PICK t \in Stamps : Stamp(x, t)
  BY DEF Enter
<1>3. Listed(list) /\ enters \in Nat /\ bumps \in Nat
  BY DEF PageNumbers
<1>4. /\ Listed(list') /\ DOMAIN list' = DOMAIN list \cup {x}
      /\ \A s \in DOMAIN list : s # x => list'[s] = list[s]
  BY <1>2, <1>3, Stamped
<1>5. ASSUME NEW r \in still' PROVE Place(list, r) <= Place(list', r) /\ Place(list', r) <= Place(list, r) + 1
  <2>1. r \in DOMAIN list /\ r # x
    BY <1>1, MovesKeep, StillListed
  <2>. QED
    BY <1>1, <1>3, <1>4, <2>1, PlacesWith
<1>6. Cardinality(DOMAIN list') <= Cardinality(DOMAIN list) + 1
  <2>1. DOMAIN list' \in SUBSET Rows /\ DOMAIN list \in SUBSET Rows
    BY <1>3, <1>4 DEF Listed
  <2>. QED
    BY <1>4, <2>1, OneMore
<1>7. enters' = enters + 1 /\ bumps' = bumps + 0 /\ 1 + 0 = 1 /\ leaves' = leaves
  BY <1>1, <1>3
<1>. QED
  BY <1>1, <1>4, <1>5, <1>6, <1>7, ComesIn

LEMMA BumpStep ==
  ASSUME PageNumbers, PageInv, NEW x \in DOMAIN list, Bump(x)
  PROVE  PageNumbers' /\ PageInv'
<1>1. Moves(x) /\ bumps' = bumps + 1 /\ UNCHANGED <<leaves, enters>>
  BY DEF Bump
<1>2. PICK now \in Stamps \ {Null} : (\A s \in DOMAIN list : list[s] <= now) /\ Stamp(x, now)
  BY DEF Bump
<1>3. Listed(list) /\ enters \in Nat /\ bumps \in Nat /\ x \in Rows
  BY DEF PageNumbers, Listed
<1>4. /\ Listed(list') /\ DOMAIN list' = DOMAIN list \cup {x} /\ list'[x] = now
      /\ \A s \in DOMAIN list : s # x => list'[s] = list[s]
  BY <1>2, <1>3, Stamped
<1>5. ASSUME NEW r \in still' PROVE Place(list, r) <= Place(list', r) /\ Place(list', r) <= Place(list, r) + 1
  <2>1. r \in DOMAIN list /\ r # x /\ r \in Alone(list')
    BY <1>1, MovesKeep, StillListed
  <2>2. list'[r] = list[r] /\ list[r] # now
    BY <1>4, <2>1 DEF Alone
  <2>3. Sooner(list[x], list[r]) => Sooner(now, list[r])
    <3>1. list[r] <= now /\ list[r] \in Stamps /\ now \in Stamps
      BY <1>2, <1>3, <2>1 DEF Listed
    <3>. QED
      BY <2>2, <3>1 DEF Sooner, Stamps, Null
  <2>. QED
    BY <1>3, <1>4, <2>1, <2>3, PlacesWith
<1>6. Cardinality(DOMAIN list') <= Cardinality(DOMAIN list) + 0
  <2>1. DOMAIN list' = DOMAIN list /\ Cardinality(DOMAIN list) \in Nat
    BY <1>4, StillListed
  <2>. QED
    BY <2>1
<1>7. enters' = enters + 0 /\ bumps' = bumps + 1 /\ 0 + 1 = 1 /\ leaves' = leaves
  BY <1>1, <1>3
<1>. QED
  BY <1>1, <1>3, <1>4, <1>5, <1>6, <1>7, ComesIn

LEMMA PageStep == PageNumbers /\ PageInv /\ [PagesNext]_pageVars => PageNumbers' /\ PageInv'
<1> SUFFICES ASSUME PageNumbers, PageInv, [PagesNext]_pageVars PROVE PageNumbers' /\ PageInv'
  OBVIOUS
<1>1. CASE CountRows
  BY <1>1, CountRowsStep
<1>2. CASE ReadPage
  BY <1>2, ReadPageStep
<1>3. CASE RecountExpired
  BY <1>3, RecountStep
<1>4. CASE \E x \in DOMAIN list : Bump(x) \/ Leave(x)
  BY <1>4, BumpStep, LeaveStep
<1>5. CASE \E x \in Rows : Enter(x)
  BY <1>5, EnterStep
<1>6. CASE UNCHANGED pageVars
  <2>1. UNCHANGED <<list, byExpired, query, page, total, shown, still, leaves, enters, bumps>>
    BY <1>6 DEF pageVars
  <2>. QED
    BY <2>1 DEF PageNumbers, PageInv, Missed, Again, Past
<1>. QED
  BY <1>1, <1>2, <1>3, <1>4, <1>5, <1>6 DEF PagesNext

LEMMA PageTypes == PageNumbers => PagesTypeOK
BY DEF PageNumbers, PagesTypeOK, Listed, Queries

\* A client that reads to the last page has missed, of the rows that stayed where they
\* were, what was missed and what lies behind the last page.
LEMMA PagesAreFit == PageNumbers /\ PageInv => PagesFit
<1> SUFFICES ASSUME PageNumbers, PageInv PROVE PagesFit
  OBVIOUS
<1>1. /\ still \in SUBSET Rows /\ Missed \in SUBSET Rows /\ Again \in SUBSET Rows
      /\ Cardinality(Missed) \in Nat /\ Cardinality(Again) \in Nat
      /\ Cardinality(DOMAIN list) \in Nat
      /\ \A r \in still : r \in DOMAIN list /\ Place(list, r) \in Nat /\ shown[r] \in Nat
  BY StillListed
<1>2. leaves \in Nat /\ enters \in Nat /\ bumps \in Nat /\ Listed(list) /\ still \subseteq Alone(list)
  BY DEF PageNumbers
<1>3. Cardinality({r \in still : shown[r] > 1}) <= bumps + enters
  <2> DEFINE T == {r \in still : shown[r] > 1}
  <2>1. T \subseteq Again /\ T \in SUBSET Rows
    BY <1>1 DEF Again
  <2>2. Cardinality(T) <= Cardinality(Again) /\ Cardinality(T) \in Nat
    BY <1>1, <2>1, NoMore, RowsAreFinite
  <2> HIDE DEF T
  <2>3. Cardinality(T) <= bumps + enters
    BY <1>1, <1>2, <2>2 DEF PageInv
  <2>. QED
    BY <2>3 DEF T
<1>4. ASSUME query = "done" PROVE Cardinality({r \in still : shown[r] = 0}) <= leaves + enters
  <2> DEFINE T == {r \in still : shown[r] = 0}
             n == Cardinality(DOMAIN list)
             rest == Past..(n - 1)
             Behind == {r \in still : Place(list, r) >= Past}
  <2>1. Past = page * PageSize /\ Past \in Nat
    BY <1>4, PastGrows DEF Past, PageNumbers
  <2>2. T \subseteq Missed \cup Behind
    BY <1>1, <2>1 DEF Missed
  <2>3. n \in Nat /\ n <= Past + enters
    BY <1>1, <1>4, <2>1 DEF PageInv
  <2>4. \A r \in Behind : Place(list, r) \in rest
    <3>1. \A r \in still : Place(list, r) < n
      BY <1>1, <1>2, PlaceIsThere
    <3> HIDE DEF n
    <3>. QED
      BY <1>1, <2>1, <2>3, <3>1
  <2>5. IsFiniteSet(rest) /\ Cardinality(rest) \in Nat /\ Cardinality(rest) <= enters
    <3> HIDE DEF n
    <3>1. IsFiniteSet(rest) /\ Cardinality(rest) = IF Past > n - 1 THEN 0 ELSE n - 1 - Past + 1
      <4>1. Past \in Int /\ n - 1 \in Int
        BY <2>1, <2>3
      <4>. QED
        BY ONLY <4>1, FS_Interval
    <3>. QED
      BY <1>2, <2>1, <2>3, <3>1
  <2>6. Cardinality(Behind) <= Cardinality(rest)
    <3> DEFINE f == [r \in Behind |-> Place(list, r)]
    <3>1. \A q, r \in Behind : Place(list, q) = Place(list, r) => q = r
      BY <1>2, PlacesDiffer
    <3>2. f \in Injection(Behind, rest)
      <4> HIDE DEF rest, Behind
      <4>1. f \in [Behind -> rest]
        BY <2>4
      <4>. QED
        BY <3>1, <4>1 DEF Injection, IsInjective
    <3> HIDE DEF f, rest, Behind
    <3>. QED
      BY <2>5, <3>2, FS_Injection
  <2>7. Behind \in SUBSET Rows /\ T \in SUBSET Rows
    BY <1>1
  <2> HIDE DEF Behind, rest, T, n
  <2>8. /\ IsFiniteSet(Missed) /\ IsFiniteSet(Behind) /\ Cardinality(Behind) \in Nat
        /\ Cardinality(T) \in Nat /\ Cardinality(Missed \cap Behind) \in Nat
    BY <1>1, <2>7, RowsAreFinite
  <2>9. /\ IsFiniteSet(Missed \cup Behind)
        /\ Cardinality(Missed \cup Behind) = Cardinality(Missed) + Cardinality(Behind) - Cardinality(Missed \cap Behind)
    BY <2>8, FS_Union
  <2>10. Cardinality(T) <= Cardinality(Missed \cup Behind)
    BY <2>2, <2>9, FS_Subset
  <2>11. Cardinality(Missed) <= leaves
    BY DEF PageInv
  <2>12. Cardinality(T) <= leaves + enters
    BY <1>1, <1>2, <2>5, <2>6, <2>8, <2>9, <2>10, <2>11
  <2>. QED
    BY <2>12 DEF T
<1>. QED
  BY <1>3, <1>4 DEF PagesFit

\* The pages of the chat list and of a chat's messages: whatever moves between the requests
\* of a client and between the queries of one, and in whatever order each query gives the
\* rows of one lastMessageAt, of the rows that stayed where they were, with a lastMessageAt
\* of their own, the client misses no more than left or entered the filter, and gets no more
\* of them twice than came in or moved to the front.
THEOREM PagesAreRead == Spec => []PagesFit
<1>1. Spec => [](PageNumbers /\ PageInv)
  <2>1. PagesInit => PageNumbers /\ PageInv
    BY PageStart
  <2>. QED
    BY <2>1, PageStep, PagesPart, PTL
<1>. QED
  BY <1>1, PagesAreFit, PTL

-----------------------------------------------------------------------------
(* Sums *)

\* What a sum by recursion over the subsets is: at each step one element less.
Sums(f, F, S) == f = [s \in SUBSET S |-> IF s = {} THEN 0
                        ELSE F[CHOOSE x \in s : TRUE] + f[s \ {CHOOSE x \in s : TRUE}]]

\* There is such a recursion: it counts the pairs of an element and a number below its value.
LEMMA SumExists ==
  ASSUME NEW S, IsFiniteSet(S), NEW F \in [S -> Nat], NEW m \in Nat, \A x \in S : F[x] <= m
  PROVE  \E f : Sums(f, F, S)
<1> DEFINE units(s) == {p \in S \X (0..m) : p[1] \in s /\ p[2] < F[p[1]]}
           G        == [s \in SUBSET S |-> Cardinality(units(s))]
<1>1. \A s : IsFiniteSet(units(s)) /\ Cardinality(units(s)) \in Nat
  <2>1. IsFiniteSet(0..m)
    BY FS_Interval
  <2>2. IsFiniteSet(S \X (0..m))
    BY <2>1, FS_Product
  <2>. QED
    BY <2>2, FS_Subset, FS_CardinalityType
<1>2. ASSUME NEW x \in S
      PROVE  IsFiniteSet(units({x})) /\ Cardinality(units({x})) = F[x]
  <2> DEFINE T == 0..(F[x] - 1)
             g == [k \in T |-> <<x, k>>]
  <2>1. IsFiniteSet(T) /\ Cardinality(T) = F[x]
    <3>1. F[x] \in Nat /\ F[x] - 1 \in Int /\ 0 \in Int
      OBVIOUS
    <3>2. IsFiniteSet(T) /\ Cardinality(T) = IF 0 > F[x] - 1 THEN 0 ELSE F[x] - 1 - 0 + 1
      BY ONLY <3>1, FS_Interval
    <3>. QED
      BY ONLY <3>1, <3>2
  <2>2. g \in Bijection(T, units({x}))
    <3>1. \A k \in T : <<x, k>> \in units({x})
      BY F[x] <= m, F[x] \in Nat
    <3>2. \A p \in units({x}) : p[2] \in T /\ p = <<x, p[2]>>
      OBVIOUS
    <3>. QED
      BY <3>1, <3>2 DEF Bijection, Injection, Surjection, IsInjective
  <2> HIDE DEF T, g, units
  <2>. QED
    BY <2>1, <2>2, FS_Bijection DEF ExistsBijection
<1>3. ASSUME NEW s \in SUBSET S, NEW x \in s
      PROVE  Cardinality(units(s)) = F[x] + Cardinality(units(s \ {x}))
  <2>1. units(s) = units({x}) \cup units(s \ {x}) /\ units({x}) \cap units(s \ {x}) = {}
    OBVIOUS
  <2>2. Cardinality({}) = 0
    BY FS_EmptySet
  <2>3. x \in S
    OBVIOUS
  <2> HIDE DEF units
  <2>4. Cardinality(units({x}) \cup units(s \ {x}))
          = Cardinality(units({x})) + Cardinality(units(s \ {x})) - Cardinality(units({x}) \cap units(s \ {x}))
    BY <1>1, FS_Union
  <2>5. Cardinality(units({x})) = F[x] /\ F[x] \in Nat /\ Cardinality(units(s \ {x})) \in Nat
    BY <1>1, <1>2, <2>3
  <2>6. Cardinality(units(s)) = F[x] + Cardinality(units(s \ {x})) - 0
    BY <2>1, <2>2, <2>4, <2>5
  <2>. QED
    BY ONLY <2>5, <2>6
<1>4. Cardinality(units({})) = 0
  <2>1. units({}) = {}
    OBVIOUS
  <2>. QED
    BY <2>1, FS_EmptySet
<1> HIDE DEF units
<1>5. ASSUME NEW s \in SUBSET S
      PROVE  G[s] = IF s = {} THEN 0 ELSE F[CHOOSE x \in s : TRUE] + G[s \ {CHOOSE x \in s : TRUE}]
  <2>1. CASE s = {}
    BY <1>4, <2>1
  <2>2. CASE s # {}
    <3> DEFINE c == CHOOSE x \in s : TRUE
    <3>1. c \in s
      BY <2>2
    <3>2. s \ {c} \in SUBSET S
      OBVIOUS
    <3> HIDE DEF c
    <3>3. G[s] = F[c] + G[s \ {c}]
      BY <1>3, <3>1, <3>2
    <3>. QED
      BY <2>2, <3>3 DEF c
  <2>. QED
    BY <2>1, <2>2
<1>6. Sums(G, F, S)
  <2>1. G = [s \in SUBSET S |-> G[s]]
    OBVIOUS
  <2> HIDE DEF G
  <2>. QED
    BY <1>5, <2>1 DEF Sums
<1>. QED
  BY <1>6

\* A sum is no more than what there is, if each value is no more than its part of it.
LEMMA SumsFit ==
  ASSUME NEW S, IsFiniteSet(S), NEW F \in [S -> Nat], NEW f, Sums(f, F, S),
         NEW J, IsFiniteSet(J), NEW g \in [J -> S], \A x \in S : F[x] <= Cardinality({i \in J : g[i] = x})
  PROVE  f[S] \in Nat /\ f[S] <= Cardinality(J)
<1> DEFINE part(s) == {i \in J : g[i] \in s}
           Bad     == {s \in SUBSET S : ~(f[s] \in Nat /\ f[s] <= Cardinality(part(s)))}
<1>1. \A s : IsFiniteSet(part(s)) /\ Cardinality(part(s)) \in Nat
  BY FS_Subset, FS_CardinalityType
<1>2. Bad \subseteq FiniteSubsetsOf(S)
  BY FS_Subset DEF FiniteSubsetsOf
<1>3. IsWellFoundedOn(StrictSubsetOrdering(S), FiniteSubsetsOf(S))
  BY FS_StrictSubsetOrderingWellFounded
<1>4. SUFFICES ASSUME Bad # {} PROVE FALSE
  <2>1. Bad = {} => f[S] \in Nat /\ f[S] <= Cardinality(part(S))
    OBVIOUS
  <2>2. part(S) = J
    OBVIOUS
  <2>. QED
    BY <2>1, <2>2
<1> HIDE DEF Bad
<1>5. PICK m \in Bad : \A y \in Bad : ~(<<y, m>> \in StrictSubsetOrdering(S))
  BY <1>2, <1>3, <1>4, WFMin
<1>6. m \in SUBSET S /\ ~(f[m] \in Nat /\ f[m] <= Cardinality(part(m)))
  BY DEF Bad
<1>7. \A s \in SUBSET S : f[s] = IF s = {} THEN 0 ELSE F[CHOOSE x \in s : TRUE] + f[s \ {CHOOSE x \in s : TRUE}]
  <2>1. f = [s \in SUBSET S |-> IF s = {} THEN 0
                        ELSE F[CHOOSE x \in s : TRUE] + f[s \ {CHOOSE x \in s : TRUE}]]
    BY DEF Sums
  <2>. QED
    BY ONLY <2>1, Zenon
<1> HIDE DEF part
<1>8. m # {}
  BY <1>1, <1>6, <1>7
<1> DEFINE c == CHOOSE x \in m : TRUE
<1>9. c \in m /\ f[m] = F[c] + f[m \ {c}]
  BY <1>6, <1>7, <1>8
<1> HIDE DEF c
<1>10. f[m \ {c}] \in Nat /\ f[m \ {c}] <= Cardinality(part(m \ {c}))
  <2>1. <<m \ {c}, m>> \in StrictSubsetOrdering(S)
    BY <1>6, <1>9 DEF StrictSubsetOrdering
  <2>. QED
    BY <1>5, <1>6, <2>1 DEF Bad
<1>11. F[c] \in Nat /\ F[c] <= Cardinality(part({c}))
  <2>1. part({c}) = {i \in J : g[i] = c}
    BY DEF part
  <2>. QED
    BY <1>6, <1>9, <2>1
<1>12. Cardinality(part(m)) = Cardinality(part({c})) + Cardinality(part(m \ {c}))
  <2>1. part(m) = part({c}) \cup part(m \ {c}) /\ part({c}) \cap part(m \ {c}) = {}
    BY <1>9 DEF part
  <2>2. Cardinality(part({c}) \cup part(m \ {c}))
          = Cardinality(part({c})) + Cardinality(part(m \ {c})) - Cardinality(part({c}) \cap part(m \ {c}))
    BY <1>1, FS_Union
  <2>3. Cardinality({}) = 0
    BY FS_EmptySet
  <2>4. Cardinality(part(m)) = Cardinality(part({c})) + Cardinality(part(m \ {c})) - 0
    BY <2>1, <2>2, <2>3
  <2>. QED
    BY ONLY <1>1, <2>4
<1>. QED
  BY <1>1, <1>6, <1>9, <1>10, <1>11, <1>12

LEMMA SumFits ==
  ASSUME NEW S, IsFiniteSet(S), NEW F \in [S -> Nat],
         NEW J, IsFiniteSet(J), NEW g \in [J -> S], \A x \in S : F[x] <= Cardinality({i \in J : g[i] = x})
  PROVE  SumFunction(F) \in Nat /\ SumFunction(F) <= Cardinality(J)
<1> DEFINE iter[s \in SUBSET S] == IF s = {} THEN 0
                                   ELSE LET x == CHOOSE y \in s : TRUE IN F[x] + iter[s \ {x}]
<1>1. SumFunction(F) = iter[S]
  <2>1. SumFunction(F) = SumFunctionOnSet(F, S)
    BY DEF SumFunction
  <2>. QED
    BY ONLY <2>1 DEF SumFunctionOnSet, FoldFunctionOnSet, MapThenFoldSet
<1>2. Cardinality(J) \in Nat /\ \A x \in S : F[x] <= Cardinality(J)
  <2>1. Cardinality(J) \in Nat
    BY FS_CardinalityType
  <2>2. ASSUME NEW x \in S PROVE F[x] <= Cardinality(J)
    <3> DEFINE T == {i \in J : g[i] = x}
    <3>1. Cardinality(T) \in Nat /\ Cardinality(T) <= Cardinality(J)
      BY FS_Subset, FS_CardinalityType
    <3>2. F[x] <= Cardinality(T) /\ F[x] \in Nat
      OBVIOUS
    <3>. QED
      BY ONLY <2>1, <3>1, <3>2
  <2>. QED
    BY <2>1, <2>2
<1>3. \E f : Sums(f, F, S)
  BY <1>2, SumExists
<1>4. Sums(iter, F, S)
  <2>1. iter = CHOOSE f : Sums(f, F, S)
    BY DEF Sums
  <2>. QED
    BY <1>3, <2>1
<1> HIDE DEF iter
<1>. QED
  BY <1>1, <1>4, SumsFit

-----------------------------------------------------------------------------
(* The charts *)

LEMMA ChartPart == Spec => AnalyticsInit /\ [][AnalyticsNext]_analyticsVars
<1>1. Init => AnalyticsInit
  BY DEF Init
<1>2. [Next]_vars => [AnalyticsNext]_analyticsVars
  BY DEF Next, vars, analyticsVars
<1>. QED
  BY <1>1, <1>2, PTL DEF Spec

HIDE ChatPagesAssumption DEF ChatPagesAssumption
USE AnalyticsAssumption DEF AnalyticsAssumption

\* Which of the cases (or of the writes of solved cases) i \in I, at w[i], are in the hours H.
InHours(I, w, H) == {i \in I : w[i] \in H}

\* A count of what is in some hours; of the current one only if a backfill has read it.
Fair(n, I, w, H, now, fill) ==
  /\ n \in Nat /\ n <= Cardinality(InHours(I, w, H))
  /\ fill = now \/ n <= Cardinality(InHours(I, w, H \ {now}))

LEMMA InHoursAreFinite ==
  ASSUME NEW I, IsFiniteSet(I), NEW w, NEW H
  PROVE  IsFiniteSet(InHours(I, w, H)) /\ Cardinality(InHours(I, w, H)) \in Nat
BY FS_Subset, FS_CardinalityType DEF InHours

LEMMA InMoreHours ==
  ASSUME NEW I, NEW w, NEW H, NEW I2, IsFiniteSet(I2), NEW w2, NEW H2,
         \A i \in I : w[i] \in H => i \in I2 /\ w2[i] \in H2
  PROVE  Cardinality(InHours(I, w, H)) <= Cardinality(InHours(I2, w2, H2))
         /\ Cardinality(InHours(I, w, H)) \in Nat /\ Cardinality(InHours(I2, w2, H2)) \in Nat
<1>1. InHours(I, w, H) \subseteq InHours(I2, w2, H2)
  BY DEF InHours
<1>2. IsFiniteSet(InHours(I2, w2, H2))
  BY InHoursAreFinite
<1>. QED
  BY <1>1, <1>2, FS_Subset, FS_CardinalityType

LEMMA FairKept ==
  ASSUME NEW I, NEW w, NEW I2, IsFiniteSet(I2), NEW w2, NEW H, NEW H2, H \subseteq H2, NEW now, NEW fill, NEW fill2,
         fill2 = fill \/ fill2 = now, \A i \in I : w[i] \in H => i \in I2 /\ w2[i] = w[i],
         NEW n, Fair(n, I, w, H, now, fill)
  PROVE  Fair(n, I2, w2, H2, now, fill2)
<1>1. /\ Cardinality(InHours(I, w, H)) <= Cardinality(InHours(I2, w2, H2))
      /\ Cardinality(InHours(I, w, H)) \in Nat /\ Cardinality(InHours(I2, w2, H2)) \in Nat
  BY InMoreHours
<1>2. /\ Cardinality(InHours(I, w, H \ {now})) <= Cardinality(InHours(I2, w2, H2 \ {now}))
      /\ Cardinality(InHours(I, w, H \ {now})) \in Nat /\ Cardinality(InHours(I2, w2, H2 \ {now})) \in Nat
  <2>1. \A i \in I : w[i] \in H \ {now} => i \in I2 /\ w2[i] \in H2 \ {now}
    OBVIOUS
  <2>. QED
    BY <2>1, InMoreHours
<1>3. n \in Nat /\ n <= Cardinality(InHours(I, w, H)) /\ (fill = now \/ n <= Cardinality(InHours(I, w, H \ {now})))
  BY DEF Fair
<1>4. n <= Cardinality(InHours(I2, w2, H2))
  BY <1>1, <1>3
<1>5. CASE fill = now
  BY <1>3, <1>4, <1>5 DEF Fair
<1>6. CASE n <= Cardinality(InHours(I, w, H \ {now}))
  <2>1. n <= Cardinality(InHours(I2, w2, H2 \ {now}))
    BY <1>2, <1>3, <1>6
  <2>. QED
    BY <1>3, <1>4, <2>1 DEF Fair
<1>. QED
  BY <1>3, <1>5, <1>6

\* In the next hour nothing has happened yet.
LEMMA FairNextHour ==
  ASSUME NEW I, IsFiniteSet(I), NEW w, NEW H, NEW now \in Int, NEW fill, \A i \in I : w[i] # now + 1,
         NEW n, Fair(n, I, w, H, now, fill)
  PROVE  Fair(n, I, w, H, now + 1, fill)
<1>1. InHours(I, w, H \ {now + 1}) = InHours(I, w, H)
  BY DEF InHours
<1>. QED
  BY <1>1 DEF Fair

LEMMA FairZero ==
  ASSUME NEW I, IsFiniteSet(I), NEW w, NEW H, NEW now, NEW fill
  PROVE  Fair(0, I, w, H, now, fill)
BY InHoursAreFinite DEF Fair

\* What is counted, of hours that are over or in a backfill that notes it, is fair.
LEMMA FairCount ==
  ASSUME NEW I, NEW w, NEW H, NEW now, NEW fill, now \notin H \/ fill = now,
         NEW n \in Nat, n <= Cardinality(InHours(I, w, H))
  PROVE  Fair(n, I, w, H, now, fill)
<1>1. CASE now \notin H
  <2>1. H \ {now} = H
    BY <1>1
  <2>. QED
    BY <2>1 DEF Fair
<1>2. CASE fill = now
  BY <1>2 DEF Fair
<1>. QED
  BY <1>1, <1>2

\* The part x of the hours H, which p divides.
PartOf(H, p, x) == {h \in H : p[h] = x}

\* The sum over parts of the hours is fair of them all.
LEMMA FairSum ==
  ASSUME NEW S, IsFiniteSet(S), NEW F \in [S -> Nat], NEW I, IsFiniteSet(I), NEW w, NEW H, NEW p \in [H -> S],
         NEW now, NEW fill, \A x \in S : Fair(F[x], I, w, PartOf(H, p, x), now, fill)
  PROVE  Fair(SumFunction(F), I, w, H, now, fill)
<1>1. ASSUME NEW K \in SUBSET H, \A x \in S : F[x] <= Cardinality(InHours(I, w, PartOf(K, p, x)))
      PROVE  SumFunction(F) \in Nat /\ SumFunction(F) <= Cardinality(InHours(I, w, K))
  <2> DEFINE J == InHours(I, w, K)
             g == [i \in J |-> p[w[i]]]
  <2>1. IsFiniteSet(J)
    BY InHoursAreFinite
  <2>2. g \in [J -> S]
    BY DEF InHours
  <2>3. \A x \in S : F[x] <= Cardinality({i \in J : g[i] = x})
    <3> SUFFICES ASSUME NEW x \in S PROVE F[x] <= Cardinality({i \in J : g[i] = x})
      OBVIOUS
    <3>1. {i \in J : g[i] = x} = InHours(I, w, PartOf(K, p, x))
      BY DEF InHours, PartOf
    <3>. QED
      BY <1>1, <3>1
  <2> HIDE DEF J, g
  <2>. QED
    BY <2>1, <2>2, <2>3, SumFits DEF J
<1>2. SumFunction(F) \in Nat /\ SumFunction(F) <= Cardinality(InHours(I, w, H))
  <2>1. \A x \in S : F[x] <= Cardinality(InHours(I, w, PartOf(H, p, x)))
    BY DEF Fair
  <2>. QED
    BY <1>1, <2>1
<1>3. ASSUME fill # now PROVE SumFunction(F) <= Cardinality(InHours(I, w, H \ {now}))
  <2>1. ASSUME NEW x \in S PROVE F[x] <= Cardinality(InHours(I, w, PartOf(H \ {now}, p, x)))
    <3>1. PartOf(H, p, x) \ {now} = PartOf(H \ {now}, p, x)
      BY DEF PartOf
    <3>. QED
      BY <1>3, <3>1 DEF Fair
  <2>. QED
    BY <1>1, <2>1
<1>. QED
  BY <1>2, <1>3 DEF Fair

LEMMA SumIsNat ==
  ASSUME NEW S, IsFiniteSet(S), NEW m \in Nat, NEW F \in [S -> 0..m]
  PROVE  SumFunction(F) \in Nat
<1> DEFINE J == S \X (1..m)
           g == [i \in J |-> i[1]]
<1>1. IsFiniteSet(1..m) /\ Cardinality(1..m) = m
  BY FS_Interval
<1>2. IsFiniteSet(J) /\ g \in [J -> S] /\ F \in [S -> Nat]
  <2>1. IsFiniteSet(J)
    BY ONLY <1>1, IsFiniteSet(S), FS_Product
  <2>2. g \in [J -> S] /\ F \in [S -> Nat]
    OBVIOUS
  <2>. QED
    BY ONLY <2>1, <2>2
<1>3. ASSUME NEW x \in S PROVE F[x] <= Cardinality({i \in J : g[i] = x})
  <2>1. {i \in J : g[i] = x} = {x} \X (1..m)
    OBVIOUS
  <2>2. IsFiniteSet({x}) /\ Cardinality({x}) = 1
    BY FS_Singleton
  <2>3. Cardinality({x} \X (1..m)) = Cardinality({x}) * Cardinality(1..m)
    BY ONLY <1>1, <2>2, FS_Product
  <2>4. Cardinality({x} \X (1..m)) = m
    BY ONLY <1>1, <2>2, <2>3, m \in Nat
  <2>5. F[x] \in 0..m
    OBVIOUS
  <2>6. F[x] <= m
    BY ONLY <2>5, m \in Nat
  <2>. QED
    BY ONLY <2>1, <2>4, <2>6
<1> HIDE DEF J, g
<1>. QED
  BY <1>2, <1>3, SumFits

-----------------------------------------------------------------------------
(* The jobs and the feed of the charts *)

Most       == Cardinality(Tickets)
JobPlaces  == {"created", "solved", "upsert", "delete", "create"}
JobRecord  == [todo : Seq(Windows), back : BOOLEAN, at : JobPlaces, opened : 0..Most, solved : 0..Most]
FeedRecord == [at : {"none", "rows", "done"}, tags : BOOLEAN, opened : Nat, solved : Nat, filled : BOOLEAN]
RowRecord  == [opened : 0..Most, solved : 0..Most]

ChartTypes ==
  /\ hour \in Hours /\ openedIn \in [Tickets -> Hours \cup {Never}] /\ solvedIn \in [Tickets -> Hours \cup {Never}]
  /\ hourly \in [Hours -> RowRecord] /\ tagRows \in [Days -> 0..Most]
  /\ fired \in [Servers -> Hours] /\ job \in [Servers -> JobRecord] /\ feed \in FeedRecord
  /\ marks \in 0..MaxMarks /\ backfills \in 0..MaxBackfills /\ filled \in Hours \cup {Never}

\* Only a backfill computes the hour that goes on, and days.
JobIsPast(r, now) == ~r.back => \A i \in DOMAIN r.todo : ~r.todo[i].day /\ r.todo[i].n < now

\* Nothing is of an hour to come.
ChartTimes ==
  /\ \A t \in Tickets : openedIn[t] <= hour /\ solvedIn[t] <= hour
  /\ \A s \in Servers : JobIsPast(job[s], hour)

LEMMA MostIsNat == Most \in Nat /\ IsFiniteSet(Hours) /\ IsFiniteSet(Days)
<1>1. Most \in Nat
  BY FS_CardinalityType DEF Most
<1>2. IsFiniteSet(Hours)
  BY FS_Interval DEF Hours
<1>3. IsFiniteSet(Days)
  <2> DEFINE f == [h \in Hours |-> DayOf(h)]
  <2>1. f \in Surjection(Hours, Days)
    BY DEF Surjection, Days
  <2>. QED
    BY <1>2, <2>1, FS_Surjection
<1>. QED
  BY <1>1, <1>2, <1>3

LEMMA CountedFits ==
  ASSUME NEW in \in [Tickets -> Hours \cup {Never}], NEW window
  PROVE  /\ Counted(in, window) \in 0..Most
         /\ Counted(in, window) = Cardinality(InHours(Tickets, in, {h \in Hours : Within(h, window)}))
<1> DEFINE T == {t \in Tickets : in[t] # Never /\ Within(in[t], window)}
<1>1. Cardinality(T) \in Nat /\ Cardinality(T) <= Most
  BY FS_Subset, FS_CardinalityType DEF Most
<1>2. Never \notin Hours
  BY DEF Never, Hours
<1>3. T = InHours(Tickets, in, {h \in Hours : Within(h, window)})
  BY <1>2 DEF InHours
<1>4. Counted(in, window) = Cardinality(T)
  BY DEF Counted
<1> HIDE DEF T
<1>. QED
  BY ONLY <1>1, <1>3, <1>4, MostIsNat

\* What the steps of a job do to its record.
LEMMA JobHead ==
  ASSUME ChartTypes, NEW s \in Servers, job[s].todo # <<>>
  PROVE  /\ job[s] \in JobRecord /\ Head(job[s].todo) \in Windows /\ Head(job[s].todo) = job[s].todo[1]
         /\ Len(job[s].todo) \in Nat \ {0} /\ 1 \in DOMAIN job[s].todo
<1>1. job[s] \in JobRecord /\ job[s].todo \in Seq(Windows)
  BY DEF ChartTypes, JobRecord
<1>2. ASSUME NEW q \in Seq(Windows), q # <<>>
      PROVE  Head(q) \in Windows /\ Head(q) = q[1] /\ Len(q) \in Nat \ {0} /\ 1 \in DOMAIN q
  BY <1>2
<1>. QED
  BY <1>1, <1>2

LEMMA NoJobFits == NoJob \in JobRecord
BY MostIsNat DEF NoJob, JobRecord, JobPlaces

\* The window that is done makes room for the next.
LEMMA ContinueFits ==
  ASSUME ChartTypes, NEW s \in Servers, job[s].todo # <<>>, Continue(s)
  PROVE  \E r \in JobRecord :
           /\ job' = [job EXCEPT ![s] = r] /\ r.at = "created"
           /\ r.todo = <<>> \/ (r.back = job[s].back /\ Len(r.todo) + 1 = Len(job[s].todo)
                                /\ \A i \in DOMAIN r.todo : i + 1 \in DOMAIN job[s].todo /\ r.todo[i] = job[s].todo[i + 1])
<1>1. job[s].todo \in Seq(Windows) /\ job[s].back \in BOOLEAN
  BY DEF ChartTypes, JobRecord
<1>2. CASE Len(job[s].todo) = 1
  <2>1. job' = [job EXCEPT ![s] = NoJob]
    BY <1>2 DEF Continue, Goes
  <2>2. NoJob.at = "created" /\ NoJob.todo = <<>>
    BY DEF NoJob
  <2>. QED
    BY <2>1, <2>2, NoJobFits
<1>3. CASE Len(job[s].todo) # 1
  <2> DEFINE q == job[s].todo
             r == [NoJob EXCEPT !.todo = Tail(q), !.back = job[s].back]
  <2>1. job' = [job EXCEPT ![s] = r]
    BY <1>3 DEF Continue, Goes
  <2>2. q \in Seq(Windows) /\ q # <<>>
    BY <1>1
  <2> HIDE DEF q
  <2>3. Tail(q) \in Seq(Windows) /\ Len(Tail(q)) + 1 = Len(q)
        /\ \A i \in DOMAIN Tail(q) : i + 1 \in DOMAIN q /\ Tail(q)[i] = q[i + 1]
    BY <2>2
  <2>4. r.at = "created" /\ r.todo = Tail(q) /\ r.back = job[s].back /\ r \in JobRecord
    <3> DEFINE z == Tail(q)
               k == job[s].back
    <3>1. z \in Seq(Windows) /\ k \in BOOLEAN
      BY <1>1, <2>3
    <3>2. r = [NoJob EXCEPT !.todo = z, !.back = k]
      OBVIOUS
    <3> HIDE DEF r, z, k
    <3>3. r = [todo |-> z, back |-> k, at |-> "created", opened |-> 0, solved |-> 0]
      BY <3>2 DEF NoJob
    <3>4. r.at = "created" /\ r.todo = z /\ r.back = k /\ r \in JobRecord
      BY <3>1, <3>3, MostIsNat DEF JobRecord, JobPlaces
    <3>. QED
      BY <3>4 DEF z, k
  <2> HIDE DEF r
  <2>. QED
    BY <2>1, <2>3, <2>4 DEF q
<1>. QED
  BY <1>2, <1>3

LEMMA JobKept ==
  ASSUME ChartTypes, NEW s \in Servers, NEW r \in JobRecord, job' = [job EXCEPT ![s] = r]
  PROVE  job' \in [Servers -> JobRecord] /\ job'[s] = r /\ \A o \in Servers : o # s => job'[o] = job[o]
BY DEF ChartTypes

\* The windows of a backfill.
LEMMA BackfillWindows ==
  ASSUME hour \in Hours
  PROVE  [i \in 1..(hour + 1) |-> [day |-> FALSE, n |-> i - 1]]
           \o [i \in 1..(DayOf(hour) + 1) |-> [day |-> TRUE, n |-> i - 1]] \in Seq(Windows)
<1> DEFINE a == [i \in 1..(hour + 1) |-> [day |-> FALSE, n |-> i - 1]]
           b == [i \in 1..(DayOf(hour) + 1) |-> [day |-> TRUE, n |-> i - 1]]
<1>1. hour + 1 \in Nat /\ DayOf(hour) + 1 \in Nat
  <2>1. hour \in Nat /\ hour \in Int /\ HoursOfDay \in Nat \ {0}
    BY DEF Hours
  <2>2. /\ hour % HoursOfDay \in 0..(HoursOfDay - 1)
        /\ \E q \in Int : hour = HoursOfDay * q + (hour % HoursOfDay) /\ q = hour \div HoursOfDay
    BY ONLY <2>1, Rest
  <2>3. PICK q \in Int : hour = HoursOfDay * q + (hour % HoursOfDay) /\ q = hour \div HoursOfDay
    BY <2>2
  <2>4. q >= 0
    <3>0. SUFFICES ASSUME ~(q >= 0) PROVE FALSE
      OBVIOUS
    <3>1. q <= -1
      BY <3>0
    <3>2. HoursOfDay * q <= HoursOfDay * (-1)
      BY <3>1
    <3>3. HoursOfDay * q \in Int /\ HoursOfDay * (-1) = -HoursOfDay
      OBVIOUS
    <3> DEFINE d == HoursOfDay * q
               m == hour % HoursOfDay
    <3>4. d <= -HoursOfDay /\ d \in Int /\ m \in 0..(HoursOfDay - 1) /\ hour = d + m
      BY <2>2, <2>3, <3>2, <3>3
    <3> HIDE DEF d, m
    <3>. QED
      BY ONLY <2>1, <3>4
  <2>. QED
    BY <2>1, <2>3, <2>4 DEF DayOf
<1>2. a \in Seq(Windows)
  <2>1. \A i \in 1..(hour + 1) : [day |-> FALSE, n |-> i - 1] \in Windows
    BY DEF Windows
  <2>. QED
    BY <1>1, <2>1
<1>3. b \in Seq(Windows)
  <2>1. \A i \in 1..(DayOf(hour) + 1) : [day |-> TRUE, n |-> i - 1] \in Windows
    BY <1>1 DEF Windows
  <2>. QED
    BY <1>1, <2>1
<1> HIDE DEF a, b
<1>4. a \o b \in Seq(Windows)
  BY <1>2, <1>3
<1>. QED
  BY <1>4 DEF a, b

LEMMA JobFields ==
  ASSUME NEW j \in JobRecord
  PROVE  /\ j.todo \in Seq(Windows) /\ j.back \in BOOLEAN /\ j.at \in JobPlaces
         /\ j.opened \in 0..Most /\ j.solved \in 0..Most
         /\ j = [todo |-> j.todo, back |-> j.back, at |-> j.at, opened |-> j.opened, solved |-> j.solved]
BY DEF JobRecord

LEMMA OpenedUpdate ==
  ASSUME NEW j \in JobRecord, NEW a, NEW n
  PROVE  [j EXCEPT !.at = a, !.opened = n]
           = [todo |-> j.todo, back |-> j.back, at |-> a, opened |-> n, solved |-> j.solved]
<1> DEFINE q == j.todo  k == j.back  m == j.at  o == j.opened  z == j.solved
           r == [todo |-> q, back |-> k, at |-> m, opened |-> o, solved |-> z]
<1>1. j = r
  BY JobFields
<1> HIDE DEF q, k, m, o, z
<1> DEFINE u == [r EXCEPT !.at = a]
<1>2. u = [todo |-> q, back |-> k, at |-> a, opened |-> o, solved |-> z]
  OBVIOUS
<1>3. [r EXCEPT !.at = a, !.opened = n] = [u EXCEPT !.opened = n]
  <2> HIDE DEF r
  <2>. QED
    BY DEF u
<1> HIDE DEF u
<1>4. [u EXCEPT !.opened = n] = [todo |-> q, back |-> k, at |-> a, opened |-> n, solved |-> z]
  BY <1>2
<1> HIDE DEF r
<1>5. [j EXCEPT !.at = a, !.opened = n] = [todo |-> q, back |-> k, at |-> a, opened |-> n, solved |-> z]
  BY <1>1, <1>3, <1>4
<1>. QED
  BY <1>5 DEF q, k, m, o, z

LEMMA SolvedUpdate ==
  ASSUME NEW j \in JobRecord, NEW a, NEW n
  PROVE  [j EXCEPT !.at = a, !.solved = n]
           = [todo |-> j.todo, back |-> j.back, at |-> a, opened |-> j.opened, solved |-> n]
<1> DEFINE q == j.todo  k == j.back  m == j.at  o == j.opened  z == j.solved
           r == [todo |-> q, back |-> k, at |-> m, opened |-> o, solved |-> z]
<1>1. j = r
  BY JobFields
<1> HIDE DEF q, k, m, o, z
<1> DEFINE u == [r EXCEPT !.at = a]
<1>2. u = [todo |-> q, back |-> k, at |-> a, opened |-> o, solved |-> z]
  OBVIOUS
<1>3. [r EXCEPT !.at = a, !.solved = n] = [u EXCEPT !.solved = n]
  <2> HIDE DEF r
  <2>. QED
    BY DEF u
<1> HIDE DEF u
<1>4. [u EXCEPT !.solved = n] = [todo |-> q, back |-> k, at |-> a, opened |-> o, solved |-> n]
  BY <1>2
<1> HIDE DEF r
<1>5. [j EXCEPT !.at = a, !.solved = n] = [todo |-> q, back |-> k, at |-> a, opened |-> o, solved |-> n]
  BY <1>1, <1>3, <1>4
<1>. QED
  BY <1>5 DEF q, k, m, o, z

LEMMA PlaceUpdate ==
  ASSUME NEW j \in JobRecord, NEW a
  PROVE  [j EXCEPT !.at = a] = [todo |-> j.todo, back |-> j.back, at |-> a, opened |-> j.opened, solved |-> j.solved]
BY JobFields

\* A job goes on with windows it had.
GoesOn(r, j) ==
  r.todo = <<>> \/ (r.back = j.back /\ \A i \in DOMAIN r.todo : \E k \in DOMAIN j.todo : r.todo[i] = j.todo[k])

\* The steps of a job after it was begun.
JobMoves(s) == ReadCreated(s) \/ ReadSolved(s) \/ UpsertRow(s) \/ DeleteTags(s) \/ CreateTags(s) \/ StepFails(s)

\* What a step makes of the record of a job.
JobBecomes(s, r) ==
  LET j == job[s]
      v == Head(j.todo)
      same(at, opened, solved) == r = [todo |-> j.todo, back |-> j.back, at |-> at, opened |-> opened, solved |-> solved]
  IN  \/ ReadCreated(s) /\ j.at = "created" /\ same("solved", Counted(openedIn, v), j.solved)
      \/ ReadSolved(s) /\ j.at = "solved" /\ same("upsert", j.opened, Counted(solvedIn, v))
      \/ UpsertRow(s) /\ j.at = "upsert" /\ same("delete", j.opened, 0)
      \/ DeleteTags(s) /\ j.at = "delete" /\ same("create", j.opened, j.solved)
      \/ (CreateTags(s) \/ StepFails(s)) /\ r.at = "created"

LEMMA JobMovesFit ==
  ASSUME ChartTypes, NEW s \in Servers, JobMoves(s)
  PROVE  /\ job[s].todo # <<>>
         /\ \E r \in JobRecord : job' = [job EXCEPT ![s] = r] /\ GoesOn(r, job[s]) /\ JobBecomes(s, r)
         /\ UNCHANGED <<hour, openedIn, solvedIn, fired, feed, backfills, marks>>
         /\ filled' \in {filled, hour}
<1>1. job[s].todo # <<>>
  BY DEF JobMoves, ReadCreated, ReadSolved, UpsertRow, DeleteTags, CreateTags, StepFails, Computes
<1>2. UNCHANGED <<hour, openedIn, solvedIn, fired, feed, backfills, marks>> /\ filled' \in {filled, hour}
  BY DEF JobMoves, ReadCreated, ReadSolved, UpsertRow, DeleteTags, CreateTags, StepFails, caseVars
<1>3. job[s] \in JobRecord
  BY DEF ChartTypes
<1> DEFINE j == job[s]
           v == Head(j.todo)
           rec(at, opened, solved) == [todo |-> j.todo, back |-> j.back, at |-> at, opened |-> opened, solved |-> solved]
<1>4. ASSUME NEW at \in JobPlaces, NEW o \in 0..Most, NEW w \in 0..Most
      PROVE  rec(at, o, w) \in JobRecord /\ GoesOn(rec(at, o, w), j)
  <2>1. rec(at, o, w) \in JobRecord
    BY <1>3, JobFields DEF JobRecord
  <2>. QED
    BY <2>1 DEF GoesOn
<1>5. /\ j.opened \in 0..Most /\ j.solved \in 0..Most /\ 0 \in 0..Most
      /\ Counted(openedIn, v) \in 0..Most /\ Counted(solvedIn, v) \in 0..Most
      /\ \A a \in {"solved", "upsert", "delete", "create"} : a \in JobPlaces
  <2>1. openedIn \in [Tickets -> Hours \cup {Never}] /\ solvedIn \in [Tickets -> Hours \cup {Never}]
    BY DEF ChartTypes
  <2>2. Counted(openedIn, v) \in 0..Most /\ Counted(solvedIn, v) \in 0..Most
    BY <2>1, CountedFits
  <2>3. j.opened \in 0..Most /\ j.solved \in 0..Most
    BY <1>3, JobFields
  <2>4. \A a \in {"solved", "upsert", "delete", "create"} : a \in JobPlaces
    BY DEF JobPlaces
  <2>. QED
    BY <2>2, <2>3, <2>4, MostIsNat
<1>6. CASE ReadCreated(s)
  <2>1. j.at = "created" /\ job' = [job EXCEPT ![s] = [j EXCEPT !.at = "solved", !.opened = Counted(openedIn, v)]]
    BY <1>6 DEF ReadCreated, Computes, Goes
  <2>2. [j EXCEPT !.at = "solved", !.opened = Counted(openedIn, v)] = rec("solved", Counted(openedIn, v), j.solved)
    BY ONLY <1>3, OpenedUpdate
  <2>3. JobBecomes(s, rec("solved", Counted(openedIn, v), j.solved))
    BY <1>6, <2>1 DEF JobBecomes
  <2>. QED
    BY <1>1, <1>2, <1>4, <1>5, <2>1, <2>2, <2>3
<1>7. CASE ReadSolved(s)
  <2>1. j.at = "solved" /\ job' = [job EXCEPT ![s] = [j EXCEPT !.at = "upsert", !.solved = Counted(solvedIn, v)]]
    BY <1>7 DEF ReadSolved, Computes, Goes
  <2>2. [j EXCEPT !.at = "upsert", !.solved = Counted(solvedIn, v)] = rec("upsert", j.opened, Counted(solvedIn, v))
    BY ONLY <1>3, SolvedUpdate
  <2>3. JobBecomes(s, rec("upsert", j.opened, Counted(solvedIn, v)))
    BY <1>7, <2>1 DEF JobBecomes
  <2>. QED
    BY <1>1, <1>2, <1>4, <1>5, <2>1, <2>2, <2>3
<1>8. CASE UpsertRow(s)
  <2>1. j.at = "upsert" /\ job' = [job EXCEPT ![s] = [j EXCEPT !.at = "delete", !.solved = 0]]
    BY <1>8 DEF UpsertRow, Computes, Goes
  <2>2. [j EXCEPT !.at = "delete", !.solved = 0] = rec("delete", j.opened, 0)
    BY ONLY <1>3, SolvedUpdate
  <2>3. JobBecomes(s, rec("delete", j.opened, 0))
    BY <1>8, <2>1 DEF JobBecomes
  <2>. QED
    BY <1>1, <1>2, <1>4, <1>5, <2>1, <2>2, <2>3
<1>9. CASE DeleteTags(s)
  <2>1. j.at = "delete" /\ job' = [job EXCEPT ![s] = [j EXCEPT !.at = "create"]]
    BY <1>9 DEF DeleteTags, Computes, Goes
  <2>2. [j EXCEPT !.at = "create"] = rec("create", j.opened, j.solved)
    BY ONLY <1>3, PlaceUpdate
  <2>3. JobBecomes(s, rec("create", j.opened, j.solved))
    BY <1>9, <2>1 DEF JobBecomes
  <2>. QED
    BY <1>1, <1>2, <1>4, <1>5, <2>1, <2>2, <2>3
<1>10. CASE CreateTags(s) \/ StepFails(s)
  <2>1. Continue(s)
    BY <1>10 DEF CreateTags, StepFails
  <2>2. PICK r \in JobRecord :
           /\ job' = [job EXCEPT ![s] = r] /\ r.at = "created"
           /\ r.todo = <<>> \/ (r.back = job[s].back /\ Len(r.todo) + 1 = Len(job[s].todo)
                                /\ \A i \in DOMAIN r.todo : i + 1 \in DOMAIN job[s].todo /\ r.todo[i] = job[s].todo[i + 1])
    BY <1>1, <2>1, ContinueFits
  <2>3. GoesOn(r, job[s])
    BY <2>2 DEF GoesOn
  <2>4. JobBecomes(s, r)
    BY <1>10, <2>2 DEF JobBecomes
  <2>. QED
    BY <1>1, <1>2, <2>2, <2>3, <2>4
<1>. QED
  BY <1>6, <1>7, <1>8, <1>9, <1>10 DEF JobMoves

\* The rows that a job writes.
LEMMA RowsKept ==
  ASSUME ChartTypes, NEW s \in Servers, JobMoves(s)
  PROVE  hourly' \in [Hours -> RowRecord] /\ tagRows' \in [Days -> 0..Most]
<1>0. hourly \in [Hours -> RowRecord] /\ tagRows \in [Days -> 0..Most] /\ job[s] \in JobRecord
  BY DEF ChartTypes
<1>1. CASE UpsertRow(s)
  <2>1. [opened |-> job[s].opened, solved |-> job[s].solved] \in RowRecord
    BY <1>0 DEF RowRecord, JobRecord
  <2>2. tagRows' = tagRows /\ (hourly' = hourly \/
          hourly' = [hourly EXCEPT ![Head(job[s].todo).n] = [opened |-> job[s].opened, solved |-> job[s].solved]])
    BY <1>1 DEF UpsertRow
  <2>. QED
    BY <1>0, <2>1, <2>2
<1>2. CASE DeleteTags(s)
  <2>1. hourly' = hourly /\ tagRows' = [tagRows EXCEPT ![KeyDate(Head(job[s].todo))] = 0]
    BY <1>2 DEF DeleteTags
  <2>2. 0 \in 0..Most
    BY MostIsNat
  <2>. QED
    BY <1>0, <2>1, <2>2
<1>3. CASE CreateTags(s)
  <2>1. hourly' = hourly /\ (tagRows' = tagRows \/ tagRows' = [tagRows EXCEPT ![KeyDate(Head(job[s].todo))] = job[s].opened])
    BY <1>3 DEF CreateTags
  <2>2. job[s].opened \in 0..Most
    BY <1>0 DEF JobRecord
  <2>. QED
    BY <1>0, <2>1, <2>2
<1>4. CASE ReadCreated(s) \/ ReadSolved(s) \/ StepFails(s)
  BY <1>0, <1>4 DEF ReadCreated, ReadSolved, StepFails
<1>. QED
  BY <1>1, <1>2, <1>3, <1>4 DEF JobMoves

\* The steps of the cases and of the hours.
CasesMove == NextHour \/ \E t \in Tickets : Open(t) \/ Mark(t)
\* The steps that begin a job.
JobBegins(s) == HourlyCron(s) \/ Backfill(s)
FeedMoves == (\E tags \in BOOLEAN : FeedRows(tags)) \/ FeedCurrent \/ FeedAnswered

LEMMA ChartSteps ==
  ASSUME [AnalyticsNext]_analyticsVars
  PROVE  \/ UNCHANGED analyticsVars \/ CasesMove \/ FeedMoves
         \/ \E s \in Servers : JobBegins(s) \/ JobMoves(s)
BY DEF AnalyticsNext, CasesMove, JobBegins, JobMoves, FeedMoves

LEMMA CasesKept ==
  ASSUME ChartTypes, ChartTimes, CasesMove
  PROVE  ChartTypes' /\ ChartTimes' /\ UNCHANGED <<hourly, tagRows, fired, job, feed, backfills, filled>>
         /\ hour \in Int /\ hour' \in {hour, hour + 1}
<1>0. hour \in Nat /\ hour \in Int /\ Never = -1 /\ hour \in Hours
  BY DEF ChartTypes, Hours, Never
<1>1. UNCHANGED <<hourly, tagRows, fired, job, feed, backfills, filled>>
  BY DEF CasesMove, NextHour, Open, Mark
<1>2. hour' \in Hours /\ hour' \in {hour, hour + 1} /\ hour <= hour'
  <2>1. CASE NextHour
    BY <1>0, <2>1 DEF NextHour, Hours
  <2>2. CASE \E t \in Tickets : Open(t) \/ Mark(t)
    BY <1>0, <2>2 DEF Open, Mark
  <2>. QED
    BY <2>1, <2>2 DEF CasesMove
<1>3. /\ openedIn' \in [Tickets -> Hours \cup {Never}] /\ solvedIn' \in [Tickets -> Hours \cup {Never}]
      /\ \A t \in Tickets : openedIn'[t] \in {openedIn[t], hour} /\ solvedIn'[t] \in {solvedIn[t], hour}
  BY <1>0 DEF ChartTypes, CasesMove, NextHour, Open, Mark, caseVars
<1>4. marks' \in 0..MaxMarks
  <2>1. marks' = marks \/ (marks < MaxMarks /\ marks' = marks + 1)
    BY DEF CasesMove, NextHour, Open, Mark, caseVars
  <2>2. marks \in 0..MaxMarks
    BY DEF ChartTypes
  <2>. QED
    BY <2>1, <2>2
<1>5. ChartTypes'
  BY <1>1, <1>2, <1>3, <1>4 DEF ChartTypes
<1>6. ASSUME NEW t \in Tickets PROVE openedIn'[t] <= hour' /\ solvedIn'[t] <= hour'
  <2>1. openedIn[t] <= hour /\ solvedIn[t] <= hour /\ openedIn[t] \in Int /\ solvedIn[t] \in Int
    BY <1>0 DEF ChartTimes, ChartTypes, Hours
  <2>. QED
    BY <1>0, <1>2, <1>3, <2>1
<1>7. ASSUME NEW s \in Servers PROVE JobIsPast(job'[s], hour')
  <2>1. job'[s] = job[s] /\ job[s].todo \in Seq(Windows) /\ JobIsPast(job[s], hour)
    BY <1>1 DEF ChartTypes, ChartTimes, JobRecord
  <2>2. \A i \in DOMAIN job[s].todo : job[s].todo[i] \in Windows
    BY <2>1
  <2>3. \A i \in DOMAIN job[s].todo : job[s].todo[i].n \in Nat
    BY <2>2 DEF Windows
  <2>. QED
    BY <1>0, <1>2, <2>1, <2>3 DEF JobIsPast
<1>. QED
  BY <1>0, <1>1, <1>2, <1>5, <1>6, <1>7 DEF ChartTimes

LEMMA BegunFits ==
  ASSUME NEW z \in Seq(Windows), NEW r
  PROVE  /\ r = [NoJob EXCEPT !.todo = z] => r \in JobRecord /\ r.at = "created" /\ r.todo = z
         /\ r = [NoJob EXCEPT !.todo = z, !.back = TRUE] => r \in JobRecord /\ r.at = "created" /\ r.back
<1>1. NoJob \in JobRecord /\ NoJob.at = "created"
  BY NoJobFits DEF NoJob
<1>2. ASSUME r = [NoJob EXCEPT !.todo = z] PROVE r \in JobRecord /\ r.at = "created" /\ r.todo = z
  BY <1>1, <1>2 DEF JobRecord
<1>3. ASSUME r = [NoJob EXCEPT !.todo = z, !.back = TRUE] PROVE r \in JobRecord /\ r.at = "created" /\ r.back
  BY <1>1, <1>3 DEF JobRecord
<1>. QED
  BY <1>2, <1>3

LEMMA JobBeginsFit ==
  ASSUME ChartTypes, NEW s \in Servers, JobBegins(s)
  PROVE  \E r \in JobRecord : /\ job' = [job EXCEPT ![s] = r] /\ r.at = "created" /\ JobIsPast(r, hour)
                              /\ fired' \in [Servers -> Hours] /\ backfills' \in 0..MaxBackfills
                              /\ UNCHANGED <<hour, hourly, tagRows, feed, filled, caseVars>>
<1>0. hour \in Hours /\ hour \in Nat /\ fired \in [Servers -> Hours] /\ backfills \in 0..MaxBackfills
  BY DEF ChartTypes, Hours
<1>1. CASE HourlyCron(s)
  <2> DEFINE x == [day |-> FALSE, n |-> hour - 1]
             z == <<x>>
             r == [NoJob EXCEPT !.todo = z]
  <2>1. /\ job' = [job EXCEPT ![s] = [NoJob EXCEPT !.todo = z]] /\ fired' = [fired EXCEPT ![s] = hour] /\ backfills' = backfills
        /\ UNCHANGED <<hour, hourly, tagRows, feed, filled, caseVars>> /\ fired[s] < hour
    BY <1>1 DEF HourlyCron, LastHour
  <2>2. hour - 1 \in Nat
    BY <1>0, <2>1 DEF Hours
  <2>3. x \in Windows /\ ~x.day /\ x.n < hour
    BY <1>0, <2>2 DEF Windows
  <2> HIDE DEF x
  <2>4. z \in Seq(Windows) /\ \A i \in DOMAIN z : ~z[i].day /\ z[i].n < hour
    BY <2>3
  <2> HIDE DEF z
  <2>5. r = [NoJob EXCEPT !.todo = z]
    OBVIOUS
  <2> HIDE DEF r
  <2>6. r \in JobRecord /\ r.at = "created" /\ r.todo = z
    BY ONLY <2>4, <2>5, BegunFits
  <2>7. JobIsPast(r, hour)
    BY <2>4, <2>6 DEF JobIsPast
  <2>. QED
    BY <1>0, <2>1, <2>6, <2>7 DEF r
<1>2. CASE Backfill(s)
  <2> DEFINE z == [i \in 1..(hour + 1) |-> [day |-> FALSE, n |-> i - 1]]
                    \o [i \in 1..(DayOf(hour) + 1) |-> [day |-> TRUE, n |-> i - 1]]
             r == [NoJob EXCEPT !.todo = z, !.back = TRUE]
  <2>1. /\ job' = [job EXCEPT ![s] = [NoJob EXCEPT !.todo = z, !.back = TRUE]]
        /\ fired' = fired /\ backfills' = backfills + 1 /\ backfills < MaxBackfills
        /\ UNCHANGED <<hour, hourly, tagRows, feed, filled, caseVars>>
    BY <1>2 DEF Backfill
  <2>2. z \in Seq(Windows)
    BY ONLY <1>0, BackfillWindows
  <2> HIDE DEF z
  <2>3. r = [NoJob EXCEPT !.todo = z, !.back = TRUE]
    OBVIOUS
  <2> HIDE DEF r
  <2>4. r \in JobRecord /\ r.at = "created" /\ r.back
    BY ONLY <2>2, <2>3, BegunFits
  <2>6. JobIsPast(r, hour)
    BY <2>4 DEF JobIsPast
  <2>5. backfills' \in 0..MaxBackfills
    BY <1>0, <2>1
  <2>. QED
    BY <1>0, <2>1, <2>4, <2>5, <2>6 DEF r
<1>. QED
  BY <1>1, <1>2 DEF JobBegins

LEMMA JobsKept ==
  ASSUME ChartTypes, ChartTimes, NEW s \in Servers, JobBegins(s) \/ JobMoves(s)
  PROVE  ChartTypes' /\ ChartTimes'
<1>1. PICK r \in JobRecord : job' = [job EXCEPT ![s] = r] /\ JobIsPast(r, hour)
  <2>1. CASE JobBegins(s)
    BY <2>1, JobBeginsFit
  <2>2. CASE JobMoves(s)
    <3>1. PICK r \in JobRecord : job' = [job EXCEPT ![s] = r] /\ GoesOn(r, job[s])
      BY <2>2, JobMovesFit
    <3>2. JobIsPast(job[s], hour)
      BY DEF ChartTimes
    <3>3. JobIsPast(r, hour)
      <4>1. CASE r.todo = <<>>
        BY <4>1 DEF JobIsPast
      <4>2. CASE r.back = job[s].back /\ \A i \in DOMAIN r.todo : \E k \in DOMAIN job[s].todo : r.todo[i] = job[s].todo[k]
        BY <3>2, <4>2 DEF JobIsPast
      <4>. QED
        BY <3>1, <4>1, <4>2 DEF GoesOn
    <3>. QED
      BY <3>1, <3>3
  <2>. QED
    BY <2>1, <2>2
<1>2. job' \in [Servers -> JobRecord] /\ job'[s] = r /\ \A o \in Servers : o # s => job'[o] = job[o]
  BY <1>1, JobKept
<1>3. /\ UNCHANGED <<hour, openedIn, solvedIn, feed, marks>> /\ filled' \in {filled, hour}
      /\ fired' \in [Servers -> Hours] /\ backfills' \in 0..MaxBackfills
  <2>1. CASE JobBegins(s)
    BY <2>1, JobBeginsFit DEF caseVars
  <2>2. CASE JobMoves(s)
    BY <2>2, JobMovesFit DEF ChartTypes
  <2>. QED
    BY <2>1, <2>2
<1>4. hourly' \in [Hours -> RowRecord] /\ tagRows' \in [Days -> 0..Most]
  <2>1. CASE JobBegins(s)
    BY <2>1, JobBeginsFit DEF ChartTypes
  <2>2. CASE JobMoves(s)
    BY <2>2, RowsKept
  <2>. QED
    BY <2>1, <2>2
<1>5. ChartTypes'
  BY <1>2, <1>3, <1>4 DEF ChartTypes
<1>6. ChartTimes'
  BY <1>1, <1>2, <1>3 DEF ChartTimes
<1>. QED
  BY <1>5, <1>6

LEMMA RowSumsFit ==
  ASSUME ChartTypes
  PROVE  /\ SumFunction(tagRows) \in Nat
         /\ SumFunction([h \in Hours |-> hourly[h].opened]) \in Nat
         /\ SumFunction([h \in Hours |-> hourly[h].solved]) \in Nat
<1> DEFINE o == [h \in Hours |-> hourly[h].opened]
           z == [h \in Hours |-> hourly[h].solved]
<1>1. Most \in Nat /\ IsFiniteSet(Hours) /\ IsFiniteSet(Days)
  BY MostIsNat
<1>2. tagRows \in [Days -> 0..Most] /\ o \in [Hours -> 0..Most] /\ z \in [Hours -> 0..Most]
  BY DEF ChartTypes, RowRecord
<1> HIDE DEF o, z
<1>3. SumFunction(tagRows) \in Nat /\ SumFunction(o) \in Nat /\ SumFunction(z) \in Nat
  BY ONLY <1>1, <1>2, SumIsNat
<1>. QED
  BY <1>3 DEF o, z

\* What a request for a chart has read, and added.
LEMMA FeedBecomes ==
  ASSUME ChartTypes, FeedMoves
  PROVE  /\ UNCHANGED <<hour, openedIn, solvedIn, hourly, tagRows, fired, job, marks, backfills, filled>>
         /\ feed' \in FeedRecord
         /\ \/ /\ feed'.at = "rows"
               /\ \/ feed'.opened = SumFunction(tagRows) /\ feed'.solved = 0
                  \/ /\ feed'.opened = SumFunction([h \in Hours |-> hourly[h].opened])
                     /\ feed'.solved = SumFunction([h \in Hours |-> hourly[h].solved])
            \/ /\ feed.at = "rows" /\ feed'.at = "done" /\ (filled = hour => feed'.filled)
               /\ feed'.opened = feed.opened + Counted(openedIn, [day |-> FALSE, n |-> hour])
               /\ feed'.solved \in {feed.solved, feed.solved + Counted(solvedIn, [day |-> FALSE, n |-> hour])}
            \/ feed'.at = "none"
<1>1. UNCHANGED <<hour, openedIn, solvedIn, hourly, tagRows, fired, job, marks, backfills, filled>>
  BY DEF FeedMoves, FeedRows, FeedCurrent, FeedAnswered, caseVars
<1>2. ASSUME NEW tags \in BOOLEAN, FeedRows(tags)
      PROVE  /\ feed'.at = "rows" /\ feed' \in FeedRecord
             /\ \/ feed'.opened = SumFunction(tagRows) /\ feed'.solved = 0
                \/ /\ feed'.opened = SumFunction([h \in Hours |-> hourly[h].opened])
                   /\ feed'.solved = SumFunction([h \in Hours |-> hourly[h].solved])
  <2> DEFINE o == SumFunction([h \in Hours |-> hourly[h].opened])
             z == SumFunction([h \in Hours |-> hourly[h].solved])
             d == SumFunction(tagRows)
             p == IF tags THEN d ELSE o
             q == IF tags THEN 0 ELSE z
  <2>1. feed' = [NoFeed EXCEPT !.at = "rows", !.tags = tags, !.opened = p, !.solved = q]
    BY <1>2 DEF FeedRows
  <2>2. o \in Nat /\ z \in Nat /\ d \in Nat
    BY RowSumsFit
  <2> HIDE DEF o, z, d
  <2>3. p \in Nat /\ q \in Nat /\ ((p = d /\ q = 0) \/ (p = o /\ q = z))
    BY <2>2
  <2> HIDE DEF p, q
  <2>4. feed' \in FeedRecord /\ feed'.at = "rows" /\ feed'.opened = p /\ feed'.solved = q
    <3> DEFINE r == feed'
    <3>1. NoFeed \in FeedRecord
      BY DEF NoFeed, FeedRecord
    <3>2. r = [NoFeed EXCEPT !.at = "rows", !.tags = tags, !.opened = p, !.solved = q]
      BY <2>1
    <3> HIDE DEF r
    <3>3. r \in FeedRecord /\ r.at = "rows" /\ r.opened = p /\ r.solved = q
      BY ONLY <2>3, <3>1, <3>2, tags \in BOOLEAN DEF FeedRecord
    <3>. QED
      BY <3>3 DEF r
  <2>. QED
    BY <2>3, <2>4 DEF o, z, d
<1>3. ASSUME FeedCurrent
      PROVE  /\ feed.at = "rows" /\ feed'.at = "done" /\ (filled = hour => feed'.filled) /\ feed' \in FeedRecord
             /\ feed'.opened = feed.opened + Counted(openedIn, [day |-> FALSE, n |-> hour])
             /\ feed'.solved \in {feed.solved, feed.solved + Counted(solvedIn, [day |-> FALSE, n |-> hour])}
  <2> DEFINE a == Counted(openedIn, [day |-> FALSE, n |-> hour])
             b == Counted(solvedIn, [day |-> FALSE, n |-> hour])
             p == feed.opened + a
             q == IF feed.tags THEN feed.solved ELSE feed.solved + b
  <2>0. feed \in FeedRecord /\ a \in Nat /\ b \in Nat
    <3>1. openedIn \in [Tickets -> Hours \cup {Never}] /\ solvedIn \in [Tickets -> Hours \cup {Never}] /\ feed \in FeedRecord
      BY DEF ChartTypes
    <3>2. a \in 0..Most /\ b \in 0..Most
      BY <3>1, CountedFits
    <3> HIDE DEF a, b
    <3>. QED
      BY <3>1, <3>2, MostIsNat
  <2>1. feed.at = "rows" /\ feed' = [feed EXCEPT !.at = "done", !.filled = (filled = hour), !.opened = p, !.solved = q]
    <3>1. feed.at = "rows"
          /\ feed' = [feed EXCEPT !.at = "done", !.filled = (filled = hour), !.opened = @ + a,
                        !.solved = IF feed.tags THEN @ ELSE @ + b]
      BY <1>3 DEF FeedCurrent
    <3> HIDE DEF a, b
    <3>. QED
      BY <3>1
  <2> HIDE DEF a, b
  <2>2. feed.opened \in Nat /\ feed.solved \in Nat
    BY <2>0 DEF FeedRecord
  <2>3. p \in Nat /\ q \in Nat /\ q \in {feed.solved, feed.solved + b}
    BY <2>0, <2>2
  <2>4. p = feed.opened + a
    OBVIOUS
  <2> HIDE DEF p, q
  <2>5. feed' \in FeedRecord /\ feed'.at = "done" /\ feed'.opened = p /\ feed'.solved = q /\ (filled = hour => feed'.filled)
    <3> DEFINE r == feed'
    <3>1. r = [feed EXCEPT !.at = "done", !.filled = (filled = hour), !.opened = p, !.solved = q]
      BY <2>1
    <3>2. (filled = hour) \in BOOLEAN
      OBVIOUS
    <3> HIDE DEF r
    <3>3. r \in FeedRecord /\ r.at = "done" /\ r.opened = p /\ r.solved = q /\ (filled = hour => r.filled)
      BY ONLY <2>0, <2>3, <3>1, <3>2 DEF FeedRecord
    <3>. QED
      BY <3>3 DEF r
  <2>. QED
    BY <2>1, <2>3, <2>4, <2>5 DEF a, b
<1>4. ASSUME FeedAnswered PROVE feed' \in FeedRecord /\ feed'.at = "none"
  BY <1>4 DEF FeedAnswered, NoFeed, FeedRecord
<1>. QED
  BY <1>1, <1>2, <1>3, <1>4 DEF FeedMoves

LEMMA ChartTypesStep ==
  ASSUME ChartTypes, ChartTimes, [AnalyticsNext]_analyticsVars
  PROVE  ChartTypes' /\ ChartTimes'
<1>1. CASE UNCHANGED analyticsVars
  BY <1>1 DEF analyticsVars, ChartTypes, ChartTimes
<1>2. CASE FeedMoves
  <2>1. UNCHANGED <<hour, openedIn, solvedIn, hourly, tagRows, fired, job, marks, backfills, filled>> /\ feed' \in FeedRecord
    BY <1>2, FeedBecomes
  <2>. QED
    BY <2>1 DEF ChartTypes, ChartTimes
<1>. QED
  BY <1>1, <1>2, ChartSteps, CasesKept, JobsKept

-----------------------------------------------------------------------------
(* What the rows, the jobs and the charts have counted *)

OpenedFair(n, H) == Fair(n, Tickets, openedIn, H, hour, filled)
\* w gives the hour of each write of a solved case.
SolvedFair(n, H, w) == Fair(n, 1..marks, w, H, hour, filled)
Writes(w) ==
  /\ \A i \in 1..marks : w[i] <= hour
  /\ \A h \in Hours : Cardinality(InHours(Tickets, solvedIn, {h})) <= Cardinality(InHours(1..marks, w, {h}))

HoursOf(window) == {h \in Hours : Within(h, window)}
JobFair(r, w) ==
  r.todo # <<>> =>
    /\ r.at # "created" => OpenedFair(r.opened, HoursOf(Head(r.todo)))
    /\ r.at = "upsert" /\ ~Head(r.todo).day => SolvedFair(r.solved, HoursOf(Head(r.todo)), w)

RowsFair(w) == \A h \in Hours : OpenedFair(hourly[h].opened, {h}) /\ SolvedFair(hourly[h].solved, {h}, w)
TagsFair    == \A d \in Days : OpenedFair(tagRows[d], {h \in Hours : DayOf(h) = d})
JobsFair(w) == \A s \in Servers : JobFair(job[s], w)
FeedFair(w) ==
  /\ feed.at = "rows" => OpenedFair(feed.opened, Hours) /\ SolvedFair(feed.solved, Hours, w)
  /\ feed.at = "done" /\ ~feed.filled => feed.opened <= Cardinality(InHours(Tickets, openedIn, Hours)) /\ feed.solved <= marks

ChartInv(w) == Writes(w) /\ RowsFair(w) /\ TagsFair /\ JobsFair(w) /\ FeedFair(w)

\* What was fair stays fair.
StaysFair(w, v) ==
  /\ \A n \in Nat, H \in SUBSET Hours : OpenedFair(n, H) => OpenedFair(n, H)'
  /\ \A n \in Nat, H \in SUBSET Hours : SolvedFair(n, H, w) => SolvedFair(n, H, v)'
  /\ Cardinality(InHours(Tickets, openedIn, Hours)) <= Cardinality(InHours(Tickets, openedIn, Hours)')
  /\ Cardinality(InHours(Tickets, openedIn, Hours)) \in Nat /\ Cardinality(InHours(Tickets, openedIn, Hours)') \in Nat
  /\ marks <= marks' /\ marks \in Nat /\ marks' \in Nat

LEMMA StandingStaysFair ==
  ASSUME ChartTypes, NEW w \in [1..marks -> Hours], Writes(w),
         UNCHANGED <<hour, openedIn, solvedIn, marks>>, filled' \in {filled, hour}
  PROVE  Writes(w)' /\ StaysFair(w, w)
<1>1. Writes(w)'
  BY DEF Writes
<1>2. IsFiniteSet(1..marks) /\ marks \in Nat
  <2>1. marks \in Nat
    BY DEF ChartTypes
  <2>. QED
    BY <2>1, FS_Interval
<1>3. ASSUME NEW n \in Nat, NEW H \in SUBSET Hours, OpenedFair(n, H) PROVE OpenedFair(n, H)'
  <2>1. Fair(n, Tickets, openedIn, H, hour, filled)
    BY <1>3 DEF OpenedFair
  <2>2. Fair(n, Tickets, openedIn, H, hour, filled')
    BY <2>1, FairKept
  <2>. QED
    BY <2>2 DEF OpenedFair
<1>4. ASSUME NEW n \in Nat, NEW H \in SUBSET Hours, SolvedFair(n, H, w) PROVE SolvedFair(n, H, w)'
  <2>1. Fair(n, 1..marks, w, H, hour, filled)
    BY <1>4 DEF SolvedFair
  <2>2. Fair(n, 1..marks, w, H, hour, filled')
    BY <1>2, <2>1, FairKept
  <2>. QED
    BY <2>2 DEF SolvedFair
<1>5. /\ Cardinality(InHours(Tickets, openedIn, Hours)') = Cardinality(InHours(Tickets, openedIn, Hours))
      /\ Cardinality(InHours(Tickets, openedIn, Hours)) \in Nat
  BY InHoursAreFinite
<1>. QED
  BY <1>1, <1>2, <1>3, <1>4, <1>5 DEF StaysFair

LEMMA HourStaysFair ==
  ASSUME ChartTypes, ChartTimes, NEW w \in [1..marks -> Hours], Writes(w), NextHour
  PROVE  Writes(w)' /\ StaysFair(w, w)
<1>0. /\ hour \in Nat /\ hour \in Int /\ hour' = hour + 1 /\ UNCHANGED <<openedIn, solvedIn, marks, filled>>
      /\ marks \in Nat /\ IsFiniteSet(1..marks)
  <2>1. marks \in Nat
    BY DEF ChartTypes
  <2>. QED
    BY <2>1, FS_Interval DEF NextHour, caseVars, ChartTypes, Hours
<1>1. Writes(w)'
  <2>1. \A i \in 1..marks : w[i] \in Int /\ w[i] <= hour
    BY DEF Hours, Writes
  <2>2. \A i \in 1..marks : w[i] <= hour + 1
    BY <1>0, <2>1
  <2>. QED
    BY <1>0, <2>2 DEF Writes
<1>2. \A t \in Tickets : openedIn[t] # hour + 1
  <2>1. \A t \in Tickets : openedIn[t] <= hour
    BY DEF ChartTimes
  <2>. QED
    BY <1>0, <2>1
<1>3. \A i \in 1..marks : w[i] # hour + 1
  BY <1>0 DEF Writes
<1>4. ASSUME NEW n \in Nat, NEW H \in SUBSET Hours, OpenedFair(n, H) PROVE OpenedFair(n, H)'
  <2>1. Fair(n, Tickets, openedIn, H, hour, filled)
    BY <1>4 DEF OpenedFair
  <2>2. Fair(n, Tickets, openedIn, H, hour + 1, filled)
    BY <1>0, <1>2, <2>1, FairNextHour
  <2>. QED
    BY <1>0, <2>2 DEF OpenedFair
<1>5. ASSUME NEW n \in Nat, NEW H \in SUBSET Hours, SolvedFair(n, H, w) PROVE SolvedFair(n, H, w)'
  <2>1. Fair(n, 1..marks, w, H, hour, filled)
    BY <1>5 DEF SolvedFair
  <2>2. Fair(n, 1..marks, w, H, hour + 1, filled)
    BY <1>0, <1>3, <2>1, FairNextHour
  <2>. QED
    BY <1>0, <2>2 DEF SolvedFair
<1>6. /\ Cardinality(InHours(Tickets, openedIn, Hours)') = Cardinality(InHours(Tickets, openedIn, Hours))
      /\ Cardinality(InHours(Tickets, openedIn, Hours)) \in Nat
  BY <1>0, InHoursAreFinite
<1>. QED
  BY <1>0, <1>1, <1>4, <1>5, <1>6 DEF StaysFair

LEMMA OpenStaysFair ==
  ASSUME ChartTypes, NEW w \in [1..marks -> Hours], Writes(w), NEW t \in Tickets, Open(t)
  PROVE  Writes(w)' /\ StaysFair(w, w)
<1>0. /\ UNCHANGED <<hour, solvedIn, marks, filled>> /\ openedIn' = [openedIn EXCEPT ![t] = hour] /\ openedIn[t] = Never
      /\ openedIn \in [Tickets -> Hours \cup {Never}] /\ hour \in Hours /\ marks \in Nat
  BY DEF Open, ChartTypes
<1>1. Writes(w)'
  BY <1>0 DEF Writes
<1>2. Never \notin Hours
  BY DEF Never, Hours
<1>3. ASSUME NEW H \in SUBSET Hours PROVE \A i \in Tickets : openedIn[i] \in H => i \in Tickets /\ openedIn'[i] = openedIn[i]
  BY <1>0, <1>2
<1>4. ASSUME NEW n \in Nat, NEW H \in SUBSET Hours, OpenedFair(n, H) PROVE OpenedFair(n, H)'
  <2>1. Fair(n, Tickets, openedIn, H, hour, filled)
    BY <1>4 DEF OpenedFair
  <2>2. Fair(n, Tickets, openedIn', H, hour, filled)
    BY <1>3, <2>1, FairKept
  <2>. QED
    BY <1>0, <2>2 DEF OpenedFair
<1>5. ASSUME NEW n \in Nat, NEW H \in SUBSET Hours, SolvedFair(n, H, w) PROVE SolvedFair(n, H, w)'
  BY <1>0, <1>5 DEF SolvedFair
<1>6. /\ Cardinality(InHours(Tickets, openedIn, Hours)) <= Cardinality(InHours(Tickets, openedIn', Hours))
      /\ Cardinality(InHours(Tickets, openedIn, Hours)) \in Nat /\ Cardinality(InHours(Tickets, openedIn', Hours)) \in Nat
  <2>1. \A i \in Tickets : openedIn[i] \in Hours => i \in Tickets /\ openedIn'[i] \in Hours
    BY <1>3
  <2>. QED
    BY <2>1, InMoreHours
<1>. QED
  BY <1>0, <1>1, <1>4, <1>5, <1>6 DEF StaysFair

LEMMA MarkStaysFair ==
  ASSUME ChartTypes, NEW w \in [1..marks -> Hours], Writes(w), NEW t \in Tickets, Mark(t)
  PROVE  \E v \in [1..marks' -> Hours] : Writes(v)' /\ StaysFair(w, v)
<1>0. /\ UNCHANGED <<hour, openedIn, filled>> /\ solvedIn' = [solvedIn EXCEPT ![t] = hour] /\ solvedIn[t] # hour
      /\ solvedIn \in [Tickets -> Hours \cup {Never}] /\ hour \in Hours /\ hour \in Nat
      /\ marks \in Nat /\ marks' \in Nat /\ marks' = marks + 1
  BY DEF Mark, ChartTypes, Hours
<1>1. PICK v \in [1..marks' -> Hours] :
        /\ v[marks + 1] = hour /\ marks + 1 \in 1..marks' /\ marks + 1 \notin 1..marks
        /\ \A i \in 1..marks : i \in 1..marks' /\ v[i] = w[i]
        /\ \A i \in 1..marks' : i \in 1..marks \/ i = marks + 1
  <2> DEFINE f == [i \in 1..(marks + 1) |-> IF i = marks + 1 THEN hour ELSE w[i]]
  <2>1. /\ f \in [1..marks' -> Hours] /\ f[marks + 1] = hour /\ marks + 1 \in 1..marks' /\ marks + 1 \notin 1..marks
        /\ \A i \in 1..marks : i \in 1..marks' /\ f[i] = w[i]
        /\ \A i \in 1..marks' : i \in 1..marks \/ i = marks + 1
    BY <1>0
  <2> HIDE DEF f
  <2>. QED
    BY <2>1
<1>2. IsFiniteSet(1..marks) /\ IsFiniteSet(1..marks')
  BY <1>0, FS_Interval
<1>3. Writes(v)'
  <2>1. \A i \in 1..marks' : v[i] <= hour
    BY <1>0, <1>1 DEF Writes
  <2>2. ASSUME NEW h \in Hours, h # hour
        PROVE  Cardinality(InHours(Tickets, solvedIn', {h})) <= Cardinality(InHours(1..marks', v, {h}))
    <3>1. \A i \in Tickets : solvedIn'[i] \in {h} => i \in Tickets /\ solvedIn[i] \in {h}
      BY <1>0, <2>2
    <3>2. /\ Cardinality(InHours(Tickets, solvedIn', {h})) <= Cardinality(InHours(Tickets, solvedIn, {h}))
          /\ Cardinality(InHours(Tickets, solvedIn', {h})) \in Nat /\ Cardinality(InHours(Tickets, solvedIn, {h})) \in Nat
      BY <3>1, InMoreHours
    <3>3. \A i \in 1..marks : w[i] \in {h} => i \in 1..marks' /\ v[i] \in {h}
      BY <1>1
    <3>4. /\ Cardinality(InHours(1..marks, w, {h})) <= Cardinality(InHours(1..marks', v, {h}))
          /\ Cardinality(InHours(1..marks, w, {h})) \in Nat /\ Cardinality(InHours(1..marks', v, {h})) \in Nat
      <4> DEFINE I == 1..marks
                 J == 1..marks'
      <4>1. IsFiniteSet(J) /\ \A i \in I : w[i] \in {h} => i \in J /\ v[i] \in {h}
        BY ONLY <1>2, <3>3
      <4> HIDE DEF I, J
      <4>2. /\ Cardinality(InHours(I, w, {h})) <= Cardinality(InHours(J, v, {h}))
            /\ Cardinality(InHours(I, w, {h})) \in Nat /\ Cardinality(InHours(J, v, {h})) \in Nat
        BY ONLY <4>1, InMoreHours
      <4>. QED
        BY <4>2 DEF I, J
    <3>5. Cardinality(InHours(Tickets, solvedIn, {h})) <= Cardinality(InHours(1..marks, w, {h}))
      BY DEF Writes
    <3>. QED
      BY <3>2, <3>4, <3>5
  <2>3. Cardinality(InHours(Tickets, solvedIn', {hour})) <= Cardinality(InHours(1..marks', v, {hour}))
    <3> DEFINE A == InHours(Tickets, solvedIn, {hour})
               B == InHours(1..marks, w, {hour})
    <3>1. InHours(Tickets, solvedIn', {hour}) = A \cup {t} /\ t \notin A
      BY <1>0 DEF InHours
    <3>2. InHours(1..marks', v, {hour}) = B \cup {marks + 1} /\ marks + 1 \notin B
      BY <1>1 DEF InHours
    <3>3. IsFiniteSet(A) /\ IsFiniteSet(B) /\ Cardinality(A) \in Nat /\ Cardinality(B) \in Nat
      BY <1>2, InHoursAreFinite
    <3>4. Cardinality(A) <= Cardinality(B)
      BY <1>0 DEF Writes
    <3> HIDE DEF A, B
    <3>5. Cardinality(A \cup {t}) = Cardinality(A) + 1 /\ Cardinality(B \cup {marks + 1}) = Cardinality(B) + 1
      BY <3>1, <3>2, <3>3, FS_AddElement
    <3>6. Cardinality(A \cup {t}) <= Cardinality(B \cup {marks + 1})
      BY ONLY <3>3, <3>4, <3>5
    <3>. QED
      BY <3>1, <3>2, <3>6
  <2>. QED
    BY <1>0, <2>1, <2>2, <2>3 DEF Writes
<1>4. ASSUME NEW n \in Nat, NEW H \in SUBSET Hours, SolvedFair(n, H, w) PROVE SolvedFair(n, H, v)'
  <2>1. Fair(n, 1..marks, w, H, hour, filled)
    BY <1>4 DEF SolvedFair
  <2>2. Fair(n, 1..marks', v, H, hour, filled)
    <3> DEFINE I == 1..marks
               J == 1..marks'
    <3>1. IsFiniteSet(J) /\ \A i \in I : w[i] \in H => i \in J /\ v[i] = w[i]
      BY <1>1, <1>2
    <3>2. Fair(n, I, w, H, hour, filled)
      BY <2>1
    <3> HIDE DEF I, J
    <3>3. Fair(n, J, v, H, hour, filled)
      BY ONLY <3>1, <3>2, FairKept
    <3>. QED
      BY <3>3 DEF J
  <2>. QED
    BY <1>0, <2>2 DEF SolvedFair
<1>5. ASSUME NEW n \in Nat, NEW H \in SUBSET Hours, OpenedFair(n, H) PROVE OpenedFair(n, H)'
  BY <1>0, <1>5 DEF OpenedFair
<1>6. /\ Cardinality(InHours(Tickets, openedIn, Hours)') = Cardinality(InHours(Tickets, openedIn, Hours))
      /\ Cardinality(InHours(Tickets, openedIn, Hours)) \in Nat
  BY <1>0, InHoursAreFinite
<1>7. marks <= marks'
  BY <1>0
<1>. QED
  BY <1>0, <1>1, <1>3, <1>4, <1>5, <1>6, <1>7 DEF StaysFair

LEMMA AllStaysFair ==
  ASSUME ChartTypes, ChartTimes, NEW w \in [1..marks -> Hours], Writes(w), [AnalyticsNext]_analyticsVars
  PROVE  \E v \in [1..marks' -> Hours] : /\ Writes(v)' /\ StaysFair(w, v)
                                         /\ UNCHANGED <<hour, openedIn, solvedIn, marks>> => v = w
<1>1. CASE UNCHANGED <<hour, openedIn, solvedIn, marks>> /\ filled' \in {filled, hour}
  BY <1>1, StandingStaysFair
<1>2. CASE NextHour
  <2>1. marks' = marks
    BY <1>2 DEF NextHour, caseVars
  <2>. QED
    BY <1>2, <2>1, HourStaysFair
<1>3. ASSUME NEW t \in Tickets, Open(t)
      PROVE  \E v \in [1..marks' -> Hours] : Writes(v)' /\ StaysFair(w, v) /\ (UNCHANGED <<hour, openedIn, solvedIn, marks>> => v = w)
  <2>1. marks' = marks
    BY <1>3 DEF Open
  <2>. QED
    BY <1>3, <2>1, OpenStaysFair
<1>4. ASSUME NEW t \in Tickets, Mark(t)
      PROVE  \E v \in [1..marks' -> Hours] : Writes(v)' /\ StaysFair(w, v) /\ (UNCHANGED <<hour, openedIn, solvedIn, marks>> => v = w)
  <2>1. marks' # marks
    BY <1>4 DEF Mark, ChartTypes
  <2>. QED
    BY <1>4, <2>1, MarkStaysFair
<1>5. CASE UNCHANGED analyticsVars
  BY <1>1, <1>5 DEF analyticsVars
<1>6. CASE FeedMoves
  BY <1>1, <1>6, FeedBecomes
<1>7. ASSUME NEW s \in Servers, JobBegins(s) \/ JobMoves(s)
      PROVE  UNCHANGED <<hour, openedIn, solvedIn, marks>> /\ filled' \in {filled, hour}
  <2>1. CASE JobBegins(s)
    BY <2>1, JobBeginsFit DEF caseVars
  <2>2. CASE JobMoves(s)
    BY <2>2, JobMovesFit
  <2>. QED
    BY <1>7, <2>1, <2>2
<1>. QED
  BY <1>1, <1>2, <1>3, <1>4, <1>5, <1>6, <1>7, ChartSteps DEF CasesMove

LEMMA RowsStayFair ==
  ASSUME ChartTypes, NEW w, NEW v, StaysFair(w, v), RowsFair(w), hourly' = hourly
  PROVE  RowsFair(v)'
<1> SUFFICES ASSUME NEW h \in Hours PROVE (OpenedFair(hourly[h].opened, {h}) /\ SolvedFair(hourly[h].solved, {h}, v))'
  BY DEF RowsFair
<1>1. PICK o \in Nat, z \in Nat : o = hourly[h].opened /\ z = hourly[h].solved
  BY MostIsNat DEF ChartTypes, RowRecord
<1>2. OpenedFair(o, {h}) /\ SolvedFair(z, {h}, w)
  BY <1>1 DEF RowsFair
<1>3. OpenedFair(o, {h})' /\ SolvedFair(z, {h}, v)'
  BY <1>2 DEF StaysFair
<1>4. hourly'[h].opened = o /\ hourly'[h].solved = z
  BY <1>1
<1>. QED
  BY <1>3, <1>4 DEF OpenedFair, SolvedFair

LEMMA JobStaysFair ==
  ASSUME NEW w, NEW v, StaysFair(w, v), NEW r \in JobRecord, JobFair(r, w)
  PROVE  JobFair(r, v)'
<1> DEFINE H == HoursOf(Head(r.todo))
           o == r.opened
           z == r.solved
<1>1. H \in SUBSET Hours /\ o \in Nat /\ z \in Nat
  BY MostIsNat DEF HoursOf, JobRecord
<1>2. /\ OpenedFair(o, H) => OpenedFair(o, H)'
      /\ SolvedFair(z, H, w) => SolvedFair(z, H, v)'
  <2> HIDE DEF H, o, z
  <2>. QED
    BY <1>1 DEF StaysFair
<1>. QED
  BY <1>2 DEF JobFair

\* A window of an hour is that hour, if it is one.
LEMMA HourOf ==
  ASSUME NEW x \in Windows, ~x.day
  PROVE  /\ \A h \in Hours : Within(h, x) <=> h = x.n
         /\ HoursOf(x) = {x.n} \/ HoursOf(x) = {}
         /\ x.n \in Hours => HoursOf(x) = {x.n}
<1>1. \A h \in Hours : Within(h, x) <=> h = x.n
  BY DEF Within
<1>. QED
  BY <1>1 DEF HoursOf

\* Only a backfill reads the current hour, and notes it.
LEMMA HourIsNoted ==
  ASSUME ChartTypes, ChartTimes, NEW s \in Servers, ReadCreated(s) \/ ReadSolved(s)
  PROVE  hour \notin HoursOf(Head(job[s].todo)) \/ filled' = hour
<1> DEFINE x == Head(job[s].todo)
<1>1. job[s].todo # <<>> /\ filled' = IF job[s].back /\ Within(hour, x) THEN hour ELSE filled
  BY DEF ReadCreated, ReadSolved, Computes
<1>2. job[s] \in JobRecord /\ x \in Windows /\ x = job[s].todo[1] /\ 1 \in DOMAIN job[s].todo
  BY <1>1, JobHead
<1>3. CASE Within(hour, x) /\ job[s].back
  BY <1>1, <1>3
<1>4. CASE Within(hour, x) /\ ~job[s].back
  <2>1. ~x.day /\ x.n < hour
    BY <1>2, <1>4 DEF ChartTimes, JobIsPast
  <2>2. x.n = hour
    BY <1>4, <2>1 DEF Within
  <2>3. x.n \in Nat
    BY <1>2 DEF Windows
  <2>. QED
    BY <2>1, <2>2, <2>3
<1>5. CASE ~Within(hour, x)
  BY <1>5 DEF HoursOf
<1>. QED
  BY <1>3, <1>4, <1>5

LEMMA JobMovesFair ==
  ASSUME ChartTypes, ChartTimes, NEW w \in [1..marks -> Hours], Writes(w), JobsFair(w),
         NEW s \in Servers, JobMoves(s), NEW r \in JobRecord, JobBecomes(s, r)
  PROVE  JobFair(r, w)'
<1> DEFINE j == job[s]
           x == Head(j.todo)
           H == HoursOf(x)
<1>1. /\ j \in JobRecord /\ j.todo # <<>> /\ x \in Windows
      /\ UNCHANGED <<hour, openedIn, solvedIn, marks>> /\ filled' \in {filled, hour}
  BY JobMovesFit, JobHead
<1>2. /\ openedIn \in [Tickets -> Hours \cup {Never}] /\ solvedIn \in [Tickets -> Hours \cup {Never}]
      /\ marks \in Nat /\ IsFiniteSet(1..marks)
  <2>1. marks \in Nat
    BY DEF ChartTypes
  <2>. QED
    BY <2>1, FS_Interval DEF ChartTypes
<1>3. ASSUME j.at # "created" PROVE Fair(j.opened, Tickets, openedIn, H, hour, filled')
  <2>1. JobFair(j, w)
    BY DEF JobsFair
  <2>2. Fair(j.opened, Tickets, openedIn, H, hour, filled)
    BY <1>1, <1>3, <2>1 DEF JobFair, OpenedFair
  <2>. QED
    BY <1>1, <2>2, FairKept
<1>4. ASSUME ReadCreated(s) PROVE Fair(Counted(openedIn, x), Tickets, openedIn, H, hour, filled')
  <2>1. Counted(openedIn, x) = Cardinality(InHours(Tickets, openedIn, H)) /\ Counted(openedIn, x) \in Nat
    BY <1>2, CountedFits, MostIsNat DEF HoursOf
  <2>2. hour \notin H \/ filled' = hour
    BY <1>4, HourIsNoted
  <2> DEFINE n == Counted(openedIn, x)
  <2> HIDE DEF n, H
  <2>3. n \in Nat /\ n <= Cardinality(InHours(Tickets, openedIn, H))
    <3>1. n \in Nat /\ n = Cardinality(InHours(Tickets, openedIn, H))
      BY <2>1 DEF n
    <3>. QED
      BY ONLY <3>1
  <2>4. Fair(n, Tickets, openedIn, H, hour, filled')
    BY ONLY <2>2, <2>3, FairCount
  <2>. QED
    BY <2>4 DEF n
<1>5. ASSUME ReadSolved(s), ~x.day PROVE Fair(Counted(solvedIn, x), 1..marks, w, H, hour, filled')
  <2>1. Counted(solvedIn, x) = Cardinality(InHours(Tickets, solvedIn, H)) /\ Counted(solvedIn, x) \in Nat
    BY <1>2, CountedFits, MostIsNat DEF HoursOf
  <2>2. hour \notin H \/ filled' = hour
    BY <1>5, HourIsNoted
  <2>3. Cardinality(InHours(Tickets, solvedIn, H)) <= Cardinality(InHours(1..marks, w, H))
    <3>1. CASE H = {}
      <4>1. InHours(Tickets, solvedIn, H) = {} /\ InHours(1..marks, w, H) = {}
        BY <3>1 DEF InHours
      <4>2. Cardinality(InHours(Tickets, solvedIn, H)) = 0 /\ Cardinality(InHours(1..marks, w, H)) = 0
        BY ONLY <4>1, FS_EmptySet
      <4>. QED
        BY ONLY <4>2
    <3>2. CASE H = {x.n} /\ H # {}
      <4>1. x.n \in Hours
        BY <3>2 DEF HoursOf
      <4>. QED
        BY <3>2, <4>1 DEF Writes
    <3>. QED
      BY <1>1, <1>5, <3>1, <3>2, HourOf
  <2> DEFINE n == Counted(solvedIn, x)
             I == 1..marks
  <2> HIDE DEF n, H, I
  <2>4. n \in Nat /\ n <= Cardinality(InHours(I, w, H))
    BY <2>1, <2>3 DEF n, I
  <2>5. Fair(n, I, w, H, hour, filled')
    BY ONLY <2>2, <2>4, FairCount
  <2>. QED
    BY <2>5 DEF n, I
<1>6. \/ r.at = "created"
      \/ r.todo = j.todo /\ r.at # "upsert" /\ Fair(r.opened, Tickets, openedIn, H, hour, filled')
      \/ r.todo = j.todo /\ Fair(r.opened, Tickets, openedIn, H, hour, filled')
         /\ (~x.day => Fair(r.solved, 1..marks, w, H, hour, filled'))
  <2> HIDE DEF x, H
  <2>1. CASE ReadCreated(s) /\ r.todo = j.todo /\ r.at = "solved" /\ r.opened = Counted(openedIn, x)
    BY <1>4, <2>1
  <2>2. CASE ReadSolved(s) /\ j.at = "solved" /\ r.todo = j.todo /\ r.opened = j.opened /\ r.solved = Counted(solvedIn, x)
    BY <1>3, <1>5, <2>2
  <2>3. CASE j.at \in {"upsert", "delete"} /\ r.at \in {"delete", "create"} /\ r.todo = j.todo /\ r.opened = j.opened
    BY <1>3, <2>3
  <2>. QED
    BY <2>1, <2>2, <2>3 DEF JobBecomes, x
<1>7. CASE r.at = "created"
  BY <1>7 DEF JobFair
<1>8. CASE r.todo = j.todo /\ r.at # "upsert" /\ Fair(r.opened, Tickets, openedIn, H, hour, filled')
  BY <1>1, <1>8 DEF JobFair, OpenedFair
<1>9. CASE r.todo = j.todo /\ Fair(r.opened, Tickets, openedIn, H, hour, filled')
           /\ (~x.day => Fair(r.solved, 1..marks, w, H, hour, filled'))
  BY <1>1, <1>9 DEF JobFair, OpenedFair, SolvedFair
<1>. QED
  BY <1>6, <1>7, <1>8, <1>9

\* The jobs.
LEMMA JobsStayFair ==
  ASSUME ChartTypes, ChartTimes, NEW w \in [1..marks -> Hours], Writes(w), JobsFair(w), NEW v, StaysFair(w, v),
         UNCHANGED <<hour, openedIn, solvedIn, marks>> => v = w, [AnalyticsNext]_analyticsVars
  PROVE  JobsFair(v)'
<1>1. ASSUME NEW o \in Servers, job'[o] = job[o] PROVE (JobFair(job[o], v))'
  <2>1. PICK r \in JobRecord : r = job[o]
    BY DEF ChartTypes
  <2>2. JobFair(r, w)
    BY <2>1 DEF JobsFair
  <2>3. JobFair(r, v)'
    BY <2>2, JobStaysFair
  <2>4. r = job'[o]
    BY <1>1, <2>1
  <2>. QED
    BY <2>3, <2>4 DEF JobFair
<1>2. CASE job' = job
  BY <1>1, <1>2 DEF JobsFair
<1>3. ASSUME NEW s \in Servers, JobBegins(s) \/ JobMoves(s) PROVE JobsFair(v)'
  <2>1. PICK r \in JobRecord : job' = [job EXCEPT ![s] = r] /\ JobFair(r, v)'
    <3>1. CASE JobBegins(s)
      <4>1. PICK r \in JobRecord : job' = [job EXCEPT ![s] = r] /\ r.at = "created"
        BY <3>1, JobBeginsFit
      <4>. QED
        BY <4>1 DEF JobFair
    <3>2. CASE JobMoves(s)
      <4>1. PICK r \in JobRecord : job' = [job EXCEPT ![s] = r] /\ JobBecomes(s, r)
        BY <3>2, JobMovesFit
      <4>2. v = w
        BY <3>2, JobMovesFit
      <4>. QED
        BY <3>2, <4>1, <4>2, JobMovesFair
    <3>. QED
      BY <1>3, <3>1, <3>2
  <2>2. job' \in [Servers -> JobRecord] /\ job'[s] = r /\ \A o \in Servers : o # s => job'[o] = job[o]
    BY <2>1, JobKept
  <2>3. ASSUME NEW o \in Servers PROVE (JobFair(job[o], v))'
    <3>1. CASE o = s
      BY <2>1, <2>2, <3>1 DEF JobFair
    <3>2. CASE o # s
      BY <1>1, <2>2, <3>2
    <3>. QED
      BY <3>1, <3>2
  <2>. QED
    BY <2>3 DEF JobsFair
<1>4. CASE FeedMoves
  BY <1>2, <1>4, FeedBecomes
<1>5. CASE CasesMove
  BY <1>2, <1>5, CasesKept
<1>6. CASE UNCHANGED analyticsVars
  BY <1>2, <1>6 DEF analyticsVars
<1>. QED
  BY <1>3, <1>4, <1>5, <1>6, ChartSteps

\* The rows: only UpsertRow writes one, of the hour that its job has counted.
LEMMA RowsFairStep ==
  ASSUME ChartTypes, ChartTimes, NEW w \in [1..marks -> Hours], Writes(w), RowsFair(w), JobsFair(w), NEW v, StaysFair(w, v),
         UNCHANGED <<hour, openedIn, solvedIn, marks>> => v = w, [AnalyticsNext]_analyticsVars
  PROVE  RowsFair(v)'
<1>1. ASSUME NEW s \in Servers, UpsertRow(s) PROVE RowsFair(v)'
  <2> DEFINE j == job[s]
             x == Head(j.todo)
             row == [opened |-> j.opened, solved |-> j.solved]
  <2>1. /\ UNCHANGED <<hour, openedIn, solvedIn, marks, filled>> /\ v = w /\ j.todo # <<>> /\ j.at = "upsert"
        /\ hourly' = IF x.day THEN hourly ELSE [hourly EXCEPT ![x.n] = row]
        /\ hourly \in [Hours -> RowRecord]
    BY <1>1 DEF UpsertRow, Computes, caseVars, ChartTypes
  <2>2. x \in Windows
    BY <2>1, JobHead
  <2>3. CASE hourly' = hourly
    BY <2>3, RowsStayFair
  <2>4. CASE ~x.day
    <3>1. JobFair(j, w)
      BY DEF JobsFair
    <3>2. OpenedFair(j.opened, HoursOf(x)) /\ SolvedFair(j.solved, HoursOf(x), w)
      BY <2>1, <2>4, <3>1 DEF JobFair
    <3>3. ASSUME NEW h \in Hours PROVE (OpenedFair(hourly[h].opened, {h}) /\ SolvedFair(hourly[h].solved, {h}, v))'
      <4>1. CASE h = x.n
        <5>1. HoursOf(x) = {h}
          BY <2>2, <2>4, <4>1, HourOf
        <5>2. hourly'[h] = row
          BY <2>1, <2>4, <4>1
        <5>3. hourly'[h].opened = j.opened /\ hourly'[h].solved = j.solved
          BY <5>2
        <5>. QED
          BY <2>1, <3>2, <5>1, <5>3 DEF OpenedFair, SolvedFair
      <4>2. CASE h # x.n
        <5>1. hourly'[h] = hourly[h]
          BY <2>1, <4>2
        <5>. QED
          BY <2>1, <5>1 DEF OpenedFair, SolvedFair, RowsFair
      <4>. QED
        BY <4>1, <4>2
    <3>. QED
      BY <3>3 DEF RowsFair
  <2>. QED
    BY <2>1, <2>3, <2>4
<1>2. CASE hourly' = hourly
  BY <1>2, RowsStayFair
<1>3. ASSUME NEW s \in Servers, JobBegins(s) \/ JobMoves(s), ~UpsertRow(s) PROVE hourly' = hourly
  BY <1>3 DEF JobBegins, HourlyCron, Backfill, JobMoves, ReadCreated, ReadSolved, DeleteTags, CreateTags, StepFails
<1>4. CASE FeedMoves
  BY <1>2, <1>4, FeedBecomes
<1>5. CASE CasesMove
  BY <1>2, <1>5, CasesKept
<1>6. CASE UNCHANGED analyticsVars
  BY <1>2, <1>6 DEF analyticsVars
<1>. QED
  BY <1>1, <1>2, <1>3, <1>4, <1>5, <1>6, ChartSteps

\* The counts of tags: only CreateTags writes one, of hours of that day.
LEMMA TagsFairStep ==
  ASSUME ChartTypes, ChartTimes, NEW w \in [1..marks -> Hours], TagsFair, JobsFair(w), NEW v, StaysFair(w, v),
         [AnalyticsNext]_analyticsVars
  PROVE  TagsFair'
<1> DEFINE P(d) == {h \in Hours : DayOf(h) = d}
<1>1. ASSUME NEW d \in Days, tagRows'[d] = tagRows[d] PROVE OpenedFair(tagRows[d], P(d))'
  <2>1. PICK n \in Nat, H \in SUBSET Hours : n = tagRows[d] /\ H = P(d)
    <3>1. tagRows[d] \in 0..Most
      BY DEF ChartTypes
    <3>2. tagRows[d] \in Nat
      BY <3>1, MostIsNat
    <3>. QED
      BY <3>2
  <2>2. OpenedFair(n, H)
    BY <2>1 DEF TagsFair
  <2>3. OpenedFair(n, H)'
    BY <2>2 DEF StaysFair
  <2>. QED
    BY <1>1, <2>1, <2>3 DEF OpenedFair
<1>2. CASE tagRows' = tagRows
  BY <1>1, <1>2 DEF TagsFair
<1>3. ASSUME NEW s \in Servers, NEW n, DeleteTags(s) \/ CreateTags(s),
             UNCHANGED <<hour, openedIn, filled>>, job[s].todo # <<>>,
             tagRows' = [tagRows EXCEPT ![KeyDate(Head(job[s].todo))] = n],
             Fair(n, Tickets, openedIn, P(KeyDate(Head(job[s].todo))), hour, filled)
      PROVE  TagsFair'
  <2>1. ASSUME NEW d \in Days PROVE OpenedFair(tagRows[d], P(d))'
    <3>1. CASE d = KeyDate(Head(job[s].todo))
      <4>1. tagRows'[d] = n
        BY <1>3, <3>1 DEF ChartTypes
      <4>. QED
        BY <1>3, <3>1, <4>1 DEF OpenedFair
    <3>2. CASE d # KeyDate(Head(job[s].todo))
      <4>1. tagRows'[d] = tagRows[d]
        BY <1>3, <3>2 DEF ChartTypes
      <4>. QED
        BY <1>1, <4>1
    <3>. QED
      BY <3>1, <3>2
  <2>. QED
    BY <2>1 DEF TagsFair
<1>4. ASSUME NEW s \in Servers, DeleteTags(s) PROVE TagsFair'
  <2>1. /\ UNCHANGED <<hour, openedIn, filled>> /\ job[s].todo # <<>>
        /\ tagRows' = [tagRows EXCEPT ![KeyDate(Head(job[s].todo))] = 0]
    BY <1>4 DEF DeleteTags, Computes, caseVars
  <2>2. Fair(0, Tickets, openedIn, P(KeyDate(Head(job[s].todo))), hour, filled)
    BY FairZero
  <2>. QED
    BY <1>3, <1>4, <2>1, <2>2
<1>5. ASSUME NEW s \in Servers, CreateTags(s) PROVE TagsFair'
  <2> DEFINE x == Head(job[s].todo)
  <2>1. /\ UNCHANGED <<hour, openedIn, filled>> /\ job[s].todo # <<>> /\ job[s].at = "create"
        /\ tagRows' = tagRows \/ tagRows' = [tagRows EXCEPT ![KeyDate(x)] = job[s].opened]
    BY <1>5 DEF CreateTags, Computes, caseVars
  <2>2. Fair(job[s].opened, Tickets, openedIn, HoursOf(x), hour, filled)
    BY <2>1 DEF JobsFair, JobFair, OpenedFair
  <2>3. HoursOf(x) \subseteq P(KeyDate(x))
    BY DEF HoursOf, Within, KeyDate
  <2>4. Fair(job[s].opened, Tickets, openedIn, P(KeyDate(x)), hour, filled)
    <3> DEFINE H == HoursOf(x)
               G == P(KeyDate(x))
               n == job[s].opened
    <3>1. H \subseteq G /\ Fair(n, Tickets, openedIn, H, hour, filled)
      BY <2>2, <2>3
    <3> HIDE DEF H, G, n
    <3>2. Fair(n, Tickets, openedIn, G, hour, filled)
      BY <3>1, FairKept
    <3>. QED
      BY <3>2 DEF G, n
  <2>. QED
    BY <1>2, <1>3, <1>5, <2>1, <2>4
<1>6. ASSUME NEW s \in Servers, JobBegins(s) \/ JobMoves(s), ~DeleteTags(s), ~CreateTags(s) PROVE tagRows' = tagRows
  BY <1>6 DEF JobBegins, HourlyCron, Backfill, JobMoves, ReadCreated, ReadSolved, UpsertRow, StepFails
<1>7. CASE FeedMoves
  BY <1>2, <1>7, FeedBecomes
<1>8. CASE CasesMove
  BY <1>2, <1>8, CasesKept
<1>9. CASE UNCHANGED analyticsVars
  BY <1>2, <1>9 DEF analyticsVars
<1>. QED
  BY <1>2, <1>4, <1>5, <1>6, <1>7, <1>8, <1>9, ChartSteps

\* The current hour and the others.
LEMMA InOtherHours ==
  ASSUME NEW I, IsFiniteSet(I), NEW w, NEW now \in Hours
  PROVE  /\ Cardinality(InHours(I, w, Hours)) = Cardinality(InHours(I, w, Hours \ {now})) + Cardinality(InHours(I, w, {now}))
         /\ Cardinality(InHours(I, w, Hours \ {now})) \in Nat /\ Cardinality(InHours(I, w, {now})) \in Nat
         /\ Cardinality(InHours(I, w, Hours)) <= Cardinality(I) /\ Cardinality(I) \in Nat
<1> DEFINE A == InHours(I, w, Hours \ {now})
           B == InHours(I, w, {now})
           C == InHours(I, w, Hours)
<1>1. C = A \cup B /\ A \cap B = {} /\ C \subseteq I
  BY DEF InHours
<1>2. IsFiniteSet(A) /\ IsFiniteSet(B) /\ Cardinality(A) \in Nat /\ Cardinality(B) \in Nat
  BY InHoursAreFinite
<1> HIDE DEF A, B, C
<1>3. Cardinality(C) = Cardinality(A) + Cardinality(B) - Cardinality({})
  BY <1>1, <1>2, FS_Union
<1>4. Cardinality({}) = 0
  BY FS_EmptySet
<1>5. Cardinality(C) = Cardinality(A) + Cardinality(B)
  BY ONLY <1>2, <1>3, <1>4
<1>6. Cardinality(C) <= Cardinality(I) /\ Cardinality(I) \in Nat
  BY <1>1, FS_Subset, FS_CardinalityType
<1>. QED
  BY <1>2, <1>5, <1>6 DEF A, B, C

\* The sums of the rows.
LEMMA RowSumsFair ==
  ASSUME ChartTypes, NEW w \in [1..marks -> Hours], RowsFair(w), TagsFair
  PROVE  /\ OpenedFair(SumFunction(tagRows), Hours)
         /\ OpenedFair(SumFunction([h \in Hours |-> hourly[h].opened]), Hours)
         /\ SolvedFair(SumFunction([h \in Hours |-> hourly[h].solved]), Hours, w)
<1> DEFINE o == [h \in Hours |-> hourly[h].opened]
           z == [h \in Hours |-> hourly[h].solved]
           p == [h \in Hours |-> h]
           g == [h \in Hours |-> DayOf(h)]
           I == 1..marks
<1>1. IsFiniteSet(Hours) /\ IsFiniteSet(Days) /\ IsFiniteSet(I)
  <2>1. marks \in Nat
    BY DEF ChartTypes
  <2>. QED
    BY <2>1, MostIsNat, FS_Interval
<1>2. /\ o \in [Hours -> Nat] /\ z \in [Hours -> Nat] /\ tagRows \in [Days -> Nat]
      /\ p \in [Hours -> Hours] /\ g \in [Hours -> Days]
  BY MostIsNat DEF ChartTypes, RowRecord, Days
<1>3. ASSUME NEW d \in Days PROVE Fair(tagRows[d], Tickets, openedIn, PartOf(Hours, g, d), hour, filled)
  <2>1. PartOf(Hours, g, d) = {h \in Hours : DayOf(h) = d}
    BY DEF PartOf
  <2>. QED
    BY <2>1 DEF TagsFair, OpenedFair
<1>4. ASSUME NEW x \in Hours
      PROVE  /\ Fair(o[x], Tickets, openedIn, PartOf(Hours, p, x), hour, filled)
             /\ Fair(z[x], I, w, PartOf(Hours, p, x), hour, filled)
  <2>1. PartOf(Hours, p, x) = {x} /\ o[x] = hourly[x].opened /\ z[x] = hourly[x].solved
    BY DEF PartOf
  <2>. QED
    BY <2>1 DEF RowsFair, OpenedFair, SolvedFair
<1> HIDE DEF o, z, p, g, I
<1>5. Fair(SumFunction(tagRows), Tickets, openedIn, Hours, hour, filled)
  BY ONLY <1>1, <1>2, <1>3, FairSum, AnalyticsAssumption DEF AnalyticsAssumption
<1>6. Fair(SumFunction(o), Tickets, openedIn, Hours, hour, filled)
  BY ONLY <1>1, <1>2, <1>4, FairSum, AnalyticsAssumption DEF AnalyticsAssumption
<1>7. Fair(SumFunction(z), I, w, Hours, hour, filled)
  BY ONLY <1>1, <1>2, <1>4, FairSum
<1>. QED
  BY <1>5, <1>6, <1>7 DEF OpenedFair, SolvedFair, o, z, I

\* The chart: the rows are of hours that are over, and the current hour is added.
LEMMA FeedFairStep ==
  ASSUME ChartTypes, ChartTimes, NEW w \in [1..marks -> Hours], ChartInv(w), NEW v, StaysFair(w, v),
         UNCHANGED <<hour, openedIn, solvedIn, marks>> => v = w, [AnalyticsNext]_analyticsVars
  PROVE  FeedFair(v)'
<1>1. CASE feed' = feed
  <2>1. PICK o \in Nat, z \in Nat : o = feed.opened /\ z = feed.solved
    BY DEF ChartTypes, FeedRecord
  <2>2. CASE feed.at = "rows"
    <3>1. OpenedFair(o, Hours) /\ SolvedFair(z, Hours, w)
      BY <2>1, <2>2 DEF ChartInv, FeedFair
    <3>2. OpenedFair(o, Hours)' /\ SolvedFair(z, Hours, v)'
      BY <3>1 DEF StaysFair
    <3>. QED
      BY <1>1, <2>1, <2>2, <3>2 DEF FeedFair
  <2>3. CASE feed.at # "rows" /\ feed.at = "done" /\ ~feed.filled
    <3>1. o <= Cardinality(InHours(Tickets, openedIn, Hours)) /\ z <= marks
      BY <2>1, <2>3 DEF ChartInv, FeedFair
    <3>2. o <= Cardinality(InHours(Tickets, openedIn, Hours)') /\ z <= marks'
      BY <2>1, <3>1 DEF StaysFair
    <3>. QED
      BY <1>1, <2>1, <2>3, <3>2 DEF FeedFair
  <2>. QED
    BY <1>1, <2>2, <2>3 DEF FeedFair
<1>2. CASE FeedMoves
  <2>1. UNCHANGED <<hour, openedIn, solvedIn, marks, filled>> /\ v = w
    BY <1>2, FeedBecomes
  <2>2. RowsFair(w) /\ TagsFair /\ marks \in Nat /\ IsFiniteSet(1..marks) /\ Cardinality(1..marks) = marks
    <3>1. marks \in Nat
      BY DEF ChartTypes
    <3>. QED
      BY <3>1, FS_Interval DEF ChartInv
  <2>3. CASE feed'.at = "rows" /\ feed'.opened = SumFunction(tagRows) /\ feed'.solved = 0
    <3>1. OpenedFair(feed'.opened, Hours) /\ SolvedFair(feed'.solved, Hours, w)
      BY <2>2, <2>3, RowSumsFair, FairZero DEF SolvedFair
    <3>. QED
      BY <2>1, <2>3, <3>1 DEF FeedFair, OpenedFair, SolvedFair
  <2>4. CASE /\ feed'.at = "rows" /\ feed'.opened = SumFunction([h \in Hours |-> hourly[h].opened])
             /\ feed'.solved = SumFunction([h \in Hours |-> hourly[h].solved])
    <3>1. OpenedFair(feed'.opened, Hours) /\ SolvedFair(feed'.solved, Hours, w)
      BY <2>2, <2>4, RowSumsFair
    <3>. QED
      BY <2>1, <2>4, <3>1 DEF FeedFair, OpenedFair, SolvedFair
  <2>5. CASE feed'.at = "none"
    BY <2>5 DEF FeedFair
  <2>6. CASE /\ feed.at = "rows" /\ feed'.at = "done" /\ (filled = hour => feed'.filled)
             /\ feed'.opened = feed.opened + Counted(openedIn, [day |-> FALSE, n |-> hour])
             /\ feed'.solved \in {feed.solved, feed.solved + Counted(solvedIn, [day |-> FALSE, n |-> hour])}
    <3> SUFFICES ASSUME filled # hour
                 PROVE  feed'.opened <= Cardinality(InHours(Tickets, openedIn, Hours)) /\ feed'.solved <= marks
      BY <2>1, <2>6 DEF FeedFair
    <3> DEFINE now == [day |-> FALSE, n |-> hour]
               a == Counted(openedIn, now)
               b == Counted(solvedIn, now)
               I == 1..marks
    <3>1. a = Cardinality(InHours(Tickets, openedIn, {hour})) /\ b = Cardinality(InHours(Tickets, solvedIn, {hour}))
          /\ hour \in Hours
      <4>1. /\ openedIn \in [Tickets -> Hours \cup {Never}] /\ solvedIn \in [Tickets -> Hours \cup {Never}] /\ hour \in Hours
        BY DEF ChartTypes
      <4>2. {h \in Hours : Within(h, now)} = {hour}
        BY <4>1 DEF Within
      <4> HIDE DEF now
      <4>3. a = Cardinality(InHours(Tickets, openedIn, {h \in Hours : Within(h, now)}))
        BY <4>1, CountedFits
      <4>4. b = Cardinality(InHours(Tickets, solvedIn, {h \in Hours : Within(h, now)}))
        BY <4>1, CountedFits
      <4>. QED
        BY <4>1, <4>2, <4>3, <4>4
    <3>2. /\ feed'.opened = feed.opened + a /\ feed'.solved \in {feed.solved, feed.solved + b}
          /\ feed.opened \in Nat /\ feed.solved \in Nat
          /\ feed.opened <= Cardinality(InHours(Tickets, openedIn, Hours \ {hour}))
          /\ feed.solved <= Cardinality(InHours(I, w, Hours \ {hour}))
      BY <2>6 DEF ChartInv, FeedFair, OpenedFair, SolvedFair, Fair
    <3>3. b <= Cardinality(InHours(I, w, {hour}))
      BY <3>1 DEF ChartInv, Writes
    <3>4. a \in Nat /\ b \in Nat
      BY <3>1, InHoursAreFinite
    <3> HIDE DEF a, b, I
    <3>5. feed'.opened <= Cardinality(InHours(Tickets, openedIn, Hours))
      <4>1. /\ Cardinality(InHours(Tickets, openedIn, Hours))
                 = Cardinality(InHours(Tickets, openedIn, Hours \ {hour})) + Cardinality(InHours(Tickets, openedIn, {hour}))
            /\ Cardinality(InHours(Tickets, openedIn, Hours \ {hour})) \in Nat
            /\ Cardinality(InHours(Tickets, openedIn, {hour})) \in Nat
        BY <3>1, InOtherHours
      <4>. QED
        BY ONLY <3>1, <3>2, <4>1
    <3>6. feed'.solved <= marks
      <4>1. /\ Cardinality(InHours(I, w, Hours))
                 = Cardinality(InHours(I, w, Hours \ {hour})) + Cardinality(InHours(I, w, {hour}))
            /\ Cardinality(InHours(I, w, Hours \ {hour})) \in Nat /\ Cardinality(InHours(I, w, {hour})) \in Nat
            /\ Cardinality(InHours(I, w, Hours)) <= marks
        BY <2>2, <3>1, InOtherHours DEF I
      <4>. QED
        BY ONLY <2>2, <3>2, <3>3, <3>4, <4>1
    <3>. QED
      BY <3>5, <3>6
  <2>. QED
    BY <1>2, <2>3, <2>4, <2>5, <2>6, FeedBecomes
<1>3. CASE CasesMove
  BY <1>1, <1>3, CasesKept
<1>4. ASSUME NEW s \in Servers, JobBegins(s) \/ JobMoves(s) PROVE feed' = feed
  <2>1. CASE JobBegins(s)
    BY <2>1, JobBeginsFit
  <2>2. CASE JobMoves(s)
    BY <2>2, JobMovesFit
  <2>. QED
    BY <1>4, <2>1, <2>2
<1>5. CASE UNCHANGED analyticsVars
  BY <1>1, <1>5 DEF analyticsVars
<1>. QED
  BY <1>1, <1>2, <1>3, <1>4, <1>5, ChartSteps

-----------------------------------------------------------------------------

ChartIInv == ChartTypes /\ ChartTimes /\ \E w \in [1..marks -> Hours] : ChartInv(w)

LEMMA ChartStart == AnalyticsInit => ChartIInv
<1> SUFFICES ASSUME AnalyticsInit PROVE ChartIInv
  OBVIOUS
<1>1. 0 \in Hours /\ Most \in Nat /\ Never = -1
  BY MostIsNat DEF Hours, Never
<1>2. ChartTypes
  <2>1. NoFeed \in FeedRecord
    BY DEF NoFeed, FeedRecord
  <2>2. [opened |-> 0, solved |-> 0] \in RowRecord
    BY <1>1 DEF RowRecord
  <2>3. 0 \in 0..Most
    BY <1>1
  <2>4. hourly \in [Hours -> RowRecord] /\ tagRows \in [Days -> 0..Most] /\ job \in [Servers -> JobRecord]
    BY <2>2, <2>3, NoJobFits DEF AnalyticsInit
  <2>. QED
    BY <1>1, <2>1, <2>4 DEF AnalyticsInit, ChartTypes
<1>3. ChartTimes
  BY <1>1 DEF AnalyticsInit, ChartTimes, JobIsPast, NoJob
<1>4. ASSUME NEW w \in [1..marks -> Hours] PROVE ChartInv(w)
  <2>0. marks = 0 /\ 1..marks = {} /\ IsFiniteSet(1..marks)
    BY FS_Interval DEF AnalyticsInit
  <2>1. Writes(w)
    <3>1. ASSUME NEW h \in Hours
          PROVE  Cardinality(InHours(Tickets, solvedIn, {h})) <= Cardinality(InHours(1..marks, w, {h}))
      <4>1. InHours(Tickets, solvedIn, {h}) = {} /\ InHours(1..marks, w, {h}) = {}
        BY <2>0 DEF AnalyticsInit, InHours, Never, Hours
      <4>2. Cardinality(InHours(Tickets, solvedIn, {h})) = 0 /\ Cardinality(InHours(1..marks, w, {h})) = 0
        BY ONLY <4>1, FS_EmptySet
      <4>. QED
        BY ONLY <4>2
    <3>. QED
      BY <2>0, <3>1 DEF Writes
  <2>2. ASSUME NEW H PROVE OpenedFair(0, H) /\ SolvedFair(0, H, w)
    BY <2>0, FairZero DEF OpenedFair, SolvedFair
  <2>3. RowsFair(w) /\ TagsFair
    BY <2>2 DEF AnalyticsInit, RowsFair, TagsFair
  <2>4. JobsFair(w) /\ FeedFair(w)
    BY DEF AnalyticsInit, JobsFair, JobFair, FeedFair, NoJob, NoFeed
  <2>. QED
    BY <2>1, <2>3, <2>4 DEF ChartInv
<1>5. \E w : w \in [1..marks -> Hours]
  <2>1. [i \in 1..marks |-> 0] \in [1..marks -> Hours]
    BY <1>1
  <2>. QED
    BY <2>1
<1>. QED
  BY <1>2, <1>3, <1>4, <1>5 DEF ChartIInv

LEMMA ChartStep == ChartIInv /\ [AnalyticsNext]_analyticsVars => ChartIInv'
<1> SUFFICES ASSUME ChartIInv, [AnalyticsNext]_analyticsVars PROVE ChartIInv'
  OBVIOUS
<1>1. PICK w \in [1..marks -> Hours] : ChartInv(w)
  BY DEF ChartIInv
<1>2. ChartTypes /\ ChartTimes /\ Writes(w) /\ RowsFair(w) /\ TagsFair /\ JobsFair(w)
  BY <1>1 DEF ChartIInv, ChartInv
<1>3. PICK v \in [1..marks' -> Hours] : Writes(v)' /\ StaysFair(w, v) /\ (UNCHANGED <<hour, openedIn, solvedIn, marks>> => v = w)
  BY <1>2, AllStaysFair
<1>4. ChartTypes' /\ ChartTimes'
  BY <1>2, ChartTypesStep
<1>5. RowsFair(v)'
  BY <1>2, <1>3, RowsFairStep
<1>6. TagsFair'
  BY <1>2, <1>3, TagsFairStep
<1>7. JobsFair(v)'
  BY <1>2, <1>3, JobsStayFair
<1>8. FeedFair(v)'
  BY <1>1, <1>2, <1>3, FeedFairStep
<1>9. ChartInv(v)'
  BY <1>3, <1>5, <1>6, <1>7, <1>8 DEF ChartInv
<1>. QED
  BY <1>3, <1>4, <1>9 DEF ChartIInv

LEMMA ChartsAreFair == ChartIInv => CountedOnce
<1> SUFFICES ASSUME ChartIInv, feed.at = "done", ~feed.filled
             PROVE  feed.opened <= Cardinality({t \in Tickets : openedIn[t] # Never}) /\ feed.solved <= marks
  BY DEF CountedOnce
<1>1. {t \in Tickets : openedIn[t] # Never} = InHours(Tickets, openedIn, Hours)
  BY DEF ChartIInv, ChartTypes, InHours, Never, Hours
<1>. QED
  BY <1>1 DEF ChartIInv, ChartInv, FeedFair

\* The charts (getTicketStatusOverTimeData, getTagCountBarData): however late the hourly jobs
\* of the instances and the backfills run beside each other and beside the two reads of a
\* chart, no case is counted twice, and a solved case once for each time it was written,
\* unless a backfill has read the hour that goes on.
THEOREM ChartsCountOnce == Spec => []CountedOnce
<1>1. Spec => []ChartIInv
  BY ChartStart, ChartStep, ChartPart, PTL
<1>. QED
  BY <1>1, ChartsAreFair, PTL

-----------------------------------------------------------------------------
(* The types *)

HIDE AnalyticsAssumption DEF AnalyticsAssumption

\* The bounds of what the jobs by the clock keep.
CronBounds ==
  /\ timer \in [Chats -> 0..(MaxClock + Day)] /\ silent \subseteq Chats /\ Cardinality(said) <= MaxSaid
  /\ runs \in 0..MaxRuns /\ crowd \in 0..runs /\ \A e \in events : e.at \in 0..MaxClock

LEMMA CronBoundsStep ==
  ASSUME CronNumbers, CronBounds, [CronNext]_cronVars
  PROVE  CronBounds'
<1> USE DEF CronBounds
<1>0. /\ clock \in 0..MaxClock /\ clock \in Nat /\ MaxClock \in Nat /\ Day \in Nat /\ MaxSaid \in Nat /\ MaxRuns \in Nat
      /\ IsFiniteSet(said) /\ Cardinality(said) \in Nat
  BY DayCronAssumption, FS_CardinalityType DEF CronNumbers, DayCronAssumption
<1>1. CASE UNCHANGED <<said, timer, silent, runs, crowd, events>>
  BY <1>1
<1>2. CASE Says
  <2>1. Cardinality(said') = Cardinality(said) + 1 /\ Cardinality(said) < MaxSaid
    BY <1>0, <1>2, FS_AddElement DEF Says
  <2>2. Cardinality(said') <= MaxSaid
    BY ONLY <1>0, <2>1
  <2>. QED
    BY <1>2, <2>2 DEF Says, chatVars
<1>3. ASSUME NEW c \in Chats, CustomerReturns(c) PROVE CronBounds'
  <2>1. clock + Day \in 0..(MaxClock + Day)
    BY <1>0
  <2>2. timer' \in [Chats -> 0..(MaxClock + Day)]
    BY <1>3, <2>1 DEF CustomerReturns
  <2>. QED
    BY <1>3, <2>2 DEF CustomerReturns
<1>4. ASSUME NEW i \in Instances, NEW kind \in Jobs, CronFires(i, kind) PROVE CronBounds'
  <2>1. /\ runs < MaxRuns /\ runs' = runs + 1 /\ crowd' \in {crowd, crowd + 1}
        /\ UNCHANGED <<said, timer, silent, events>>
    BY <1>4 DEF CronFires, chatVars
  <2>2. runs' \in 0..MaxRuns /\ crowd' \in 0..runs'
    BY <1>0, <2>1
  <2>. QED
    BY <2>1, <2>2
<1>5. ASSUME NEW i \in Instances, NEW c \in Chats, CreateEvent(i, c) PROVE CronBounds'
  <2>1. UNCHANGED events \/ events' = events \cup {[chat |-> c, at |-> clock, timer |-> run[i].timers[c], n |-> Cardinality(events)]}
    BY <1>5 DEF CreateEvent
  <2>2. \A e \in events' : e.at \in 0..MaxClock
    BY <1>0, <2>1
  <2>. QED
    BY <1>5, <2>2 DEF CreateEvent, chatVars
<1>6. ASSUME NEW i \in Instances,
             \/ CronEnds(i) \/ CronFails(i) \/ FindMessages(i) \/ UpsertSummary(i) \/ CountDay(i) \/ CountHistorical(i)
             \/ CountTotal(i) \/ FindExpired(i) \/ \E c \in Chats : LookUpEvent(i, c)
      PROVE  UNCHANGED <<said, timer, silent, runs, crowd, events>>
  BY <1>6 DEF CronEnds, CronFails, FindMessages, UpsertSummary, CountDay, CountHistorical, CountTotal, FindExpired,
              LookUpEvent, chatVars
<1>7. CASE Tick \/ UNCHANGED cronVars
  BY <1>1, <1>7 DEF Tick, chatVars, cronVars
<1>. QED
  BY <1>1, <1>2, <1>3, <1>4, <1>5, <1>6, <1>7 DEF CronNext

LEMMA CronTypes == CronNumbers /\ CronRuns /\ CronBounds => CronTypeOK
<1> SUFFICES ASSUME CronNumbers, CronRuns, CronBounds PROVE CronTypeOK
  OBVIOUS
<1>1. said \subseteq 0..MaxClock /\ crowd \in 0..MaxRuns
  BY DayCronAssumption DEF CronNumbers, CronBounds, DayCronAssumption
<1>2. \A e \in events : e.chat \in Chats /\ e.at \in 0..MaxClock
  BY DEF CronNumbers, CronBounds, EventRecord
<1>3. \A i \in Instances : run[i].job \in Jobs \cup {"none"} /\ run[i].todo \subseteq Chats /\ run[i].at \in Stages
  BY DEF CronRuns, RunRecord
<1>. QED
  BY <1>1, <1>2, <1>3 DEF CronTypeOK, CronNumbers, CronBounds, Stages

LEMMA CronBoundsStart == CronInit => CronBounds
<1> SUFFICES ASSUME CronInit PROVE CronBounds
  OBVIOUS
<1>1. Cardinality(said) = 0 /\ MaxSaid \in Nat /\ MaxRuns \in Nat /\ 0 \in 0..(MaxClock + Day)
  BY DayCronAssumption, FS_EmptySet DEF CronInit, DayCronAssumption
<1>. QED
  BY <1>1 DEF CronInit, CronBounds

LEMMA RateTypeStep ==
  ASSUME RateTypeOK, [RateNext]_rateVars
  PROVE  RateTypeOK'
<1> USE RateLimitAssumption DEF RateTypeOK, RateLimitAssumption
<1>0. /\ passed \in Seq(0..MaxTime) /\ woken \in Seq(0..MaxTime) /\ time \in 0..MaxTime
      /\ Append(passed, time) \in Seq(0..MaxTime) /\ Append(woken, time) \in Seq(0..MaxTime)
  OBVIOUS
<1>1. CASE UNCHANGED rateVars
  BY <1>1 DEF rateVars
<1>2. CASE TimePasses
  BY <1>2 DEF TimePasses
<1>3. ASSUME NEW x \in Workers, Check(x) PROVE RateTypeOK'
  <2>1. time' = time /\ woken' = woken /\ lastReset' \in 0..time
    BY <1>3 DEF Check
  <2>2. CASE wake' = [wake EXCEPT ![x] = lastReset' + RateWindow] /\ UNCHANGED <<messageCount, passed>>
    <3>1. lastReset' + RateWindow \in 0..(MaxTime + RateWindow)
      <4>1. time \in 0..MaxTime /\ MaxTime \in Nat /\ RateWindow \in Nat
        OBVIOUS
      <4>2. \A m, d \in Nat : \A t \in 0..m : \A l \in 0..t : l + d \in 0..(m + d)
        BY ONLY TRUE
      <4>. QED
        BY ONLY <2>1, <4>1, <4>2
    <3>2. wake' \in [Workers -> 0..(MaxTime + RateWindow)]
      BY <2>2, <3>1
    <3>. QED
      BY <2>1, <2>2, <3>2
  <2>3. CASE messageCount' \in 1..Limit /\ passed' = Append(passed, time) /\ UNCHANGED wake
    BY <1>0, <2>1, <2>3
  <2>4. \A count \in 0..Limit : ~Full(count) => count + 1 \in 1..Limit
    BY DEF Full
  <2>. QED
    BY <1>3, <2>2, <2>3, <2>4 DEF Check
<1>4. ASSUME NEW x \in Workers, WakeUp(x) PROVE RateTypeOK'
  <2>1. wake' \in [Workers -> 0..(MaxTime + RateWindow)]
    BY <1>4 DEF WakeUp
  <2>. QED
    BY <1>0, <1>4, <2>1 DEF WakeUp
<1>. QED
  BY <1>1, <1>2, <1>3, <1>4 DEF RateNext

LEMMA ChartTypesFit == ChartTypes => AnalyticsTypeOK
<1> SUFFICES ASSUME ChartTypes PROVE AnalyticsTypeOK
  OBVIOUS
<1>1. ASSUME NEW s \in Servers
      PROVE  job[s].at \in JobPlaces /\ \A i \in DOMAIN job[s].todo : job[s].todo[i] \in Windows
  <2>1. job[s].at \in JobPlaces /\ job[s].todo \in Seq(Windows)
    BY DEF ChartTypes, JobRecord
  <2>. QED
    BY <2>1
<1>2. feed.at \in {"none", "rows", "done"} /\ feed.filled \in BOOLEAN
  BY DEF ChartTypes, FeedRecord
<1>. QED
  BY <1>1, <1>2 DEF ChartTypes, AnalyticsTypeOK, RowRecord, JobPlaces, Most

\* The types of the five parts (CronService, WhatsappRateLimiter, the chat list, the reset of
\* a password, the analytics): with them, that the counter of the limiter stays within its
\* limit, that a wait ends with a window, and that the chat list never has a row twice.
THEOREM ServicesTypes == Spec => []TypeOK
<1>1. Spec => []CronTypeOK
  <2>1. CronInit => CronNumbers /\ CronRuns /\ CronBounds
    BY CronStart, CronBoundsStart
  <2>2. CronNumbers /\ CronRuns /\ CronBounds /\ [CronNext]_cronVars => (CronNumbers /\ CronRuns /\ CronBounds)'
    BY CronNumbersStep, CronRunsStep, CronBoundsStep
  <2>. QED
    BY <2>1, <2>2, CronTypes, CronPart, PTL
<1>2. Spec => []RateTypeOK
  <2>1. RateInit => RateTypeOK
    BY RateLimitAssumption DEF RateInit, RateTypeOK, RateLimitAssumption
  <2>. QED
    BY <2>1, RateTypeStep, RatePart, PTL
<1>3. Spec => []PagesTypeOK
  BY PageStart, PageStep, PageTypes, PagesPart, PTL
<1>4. Spec => []ResetTypeOK
  <2>1. ResetInit => ResetTypeOK
    <3> SUFFICES ASSUME ResetInit PROVE ResetTypeOK
      OBVIOUS
    <3>. QED
      BY DEF ResetInit, ResetTypeOK
  <2>. QED
    BY <2>1, ResetTypeStep, ResetPart, PTL
<1>5. Spec => []AnalyticsTypeOK
  <2>1. ChartIInv => ChartTypes
    BY DEF ChartIInv
  <2>. QED
    BY <2>1, ChartStart, ChartStep, ChartTypesFit, ChartPart, PTL
<1>. QED
  BY <1>1, <1>2, <1>3, <1>4, <1>5, PTL DEF TypeOK
=============================================================================
