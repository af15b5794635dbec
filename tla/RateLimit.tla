------------------------------ MODULE RateLimit ------------------------------
(***************************************************************************)
(* The rate limiter before the handler of every outgoing job: one counter    *)
(* for all workers, reset when a window has gone by or by a worker that      *)
(* waited for the window to end.                                             *)
(***************************************************************************)
EXTENDS Integers, Sequences, FiniteSets

CONSTANTS
  Workers,     \* workers of the whatsapp queues
  Limit,       \* WHATSAPP_RATE_LIMIT_PER_SECOND
  RateWindow,  \* RATE_LIMIT_WINDOW_MS
  MaxTime      \* bounds the time

ASSUME RateLimitAssumption ==
  Limit \in Nat \ {0} /\ RateWindow \in Nat \ {0} /\ MaxTime \in Nat

VARIABLES
  time,
  messageCount,
  lastReset,   \* lastRateLimitReset
  wake,        \* for each worker when its timeout is due; 0 when it does not wait
  passed,      \* recorded: when jobs passed,
  woken        \* and when those of them did that had waited

rateVars == <<time, messageCount, lastReset, wake, passed, woken>>

RateTypeOK ==
  /\ time \in 0..MaxTime /\ lastReset \in 0..time
  /\ messageCount \in 0..Limit
  /\ wake \in [Workers -> 0..(MaxTime + RateWindow)]
  /\ passed \in Seq(0..MaxTime) /\ woken \in Seq(0..MaxTime)

RateInit ==
  /\ time = 0 /\ messageCount = 0 /\ lastReset = 0
  /\ wake = [w \in Workers |-> 0]
  /\ passed = <<>> /\ woken = <<>>

TimePasses == time < MaxTime /\ time' = time + 1
              /\ UNCHANGED <<messageCount, lastReset, wake, passed, woken>>

\* A bug: the job that reaches the limit is let through.
FullMutant(count) == count > Limit
Full(count) == count >= Limit

\* checkRateLimit up to its only await: a window that is over resets the counter, a full
\* counter makes the worker wait for the rest of the window.
Check(w) ==
  LET over  == time - lastReset >= RateWindow
      count == IF over THEN 0 ELSE messageCount
  IN  /\ wake[w] = 0
      /\ lastReset' = IF over THEN time ELSE lastReset
      /\ IF Full(count)
         THEN /\ wake' = [wake EXCEPT ![w] = lastReset' + RateWindow]
              /\ UNCHANGED <<messageCount, passed>>
         ELSE /\ messageCount' = count + 1
              /\ passed' = Append(passed, time)
              /\ UNCHANGED wake
      /\ UNCHANGED <<time, woken>>

\* After its timeout, which may come late, the worker resets the counter whatever it is by then.
WakeUp(w) ==
  /\ wake[w] # 0 /\ wake[w] <= time
  /\ wake' = [wake EXCEPT ![w] = 0]
  /\ messageCount' = 1 /\ lastReset' = time
  /\ passed' = Append(passed, time)
  /\ woken' = Append(woken, time)
  /\ UNCHANGED time

RateNext == TimePasses \/ \E w \in Workers : Check(w) \/ WakeUp(w)

\* The entries of a log in the window that begins at t.
InWindowOf(t, log) == {i \in DOMAIN log : t <= log[i] /\ log[i] < t + RateWindow}

\* In no window, wherever it begins, do more jobs pass than the limit for the counter it
\* began with, once more for a reset by the clock, and once more for each worker that woke
\* in it: the last part is what the shared reset adds to the limit.
LimitKept ==
  \A t \in 0..MaxTime :
    Cardinality(InWindowOf(t, passed)) <= Limit * (2 + Cardinality(InWindowOf(t, woken)))
=============================================================================
