------------------------------- MODULE DayCron -------------------------------
(***************************************************************************)
(* The jobs that run by the clock: the hourly summary of an agent's day, the *)
(* hourly count of the bot's fallback messages, the search for expired chats *)
(* every ten minutes.  Every instance of the service runs them, and a run    *)
(* that takes long goes on beside the next.                                  *)
(*                                                                          *)
(* Time is counted in ticks of the database's clock (UTC).  A business day   *)
(* goes from four in the morning, Indian time, to the next; the chats are    *)
(* looked up by the day from midnight.                                       *)
(***************************************************************************)
EXTENDS Integers, FiniteSets

CONSTANTS
  Day,        \* ticks of a day
  Offset,     \* IST_OFFSET_MS: Indian time is ahead of UTC
  Four,       \* from midnight to four
  Instances,  \* runs that may go on at the same time
  Chats,      \* cases with a timer
  MaxClock,   \* bounds the time
  MaxSaid,    \* bounds the messages
  MaxEvents,  \* bounds the expired events
  MaxRuns     \* bounds the runs

ASSUME DayCronAssumption ==
  /\ Day \in Nat \ {0} /\ Offset \in Nat /\ Four \in 1..(Day - 1)
  /\ IsFiniteSet(Instances) /\ IsFiniteSet(Chats)
  /\ MaxClock \in Nat /\ MaxSaid \in Nat /\ MaxEvents \in Nat /\ MaxRuns \in Nat

-----------------------------------------------------------------------------
(* The windows *)

\* IndianDayWindow: from midnight, Indian time, to the next, exclusive.
IndianDayWindow(now) ==
  LET nowIst == now + Offset
  IN  nowIst - (nowIst % Day) - Offset

\* A bug: before four the day is that of the calendar.
GetIST4amWindowMutant(now) == IndianDayWindow(now) + Four
\* getIST4amWindow: the start of the business day; before four it is yesterday's.
GetIST4amWindow(now) ==
  LET nowIst   == now + Offset
      midnight == nowIst - (nowIst % Day)
      day      == IF nowIst % Day < Four THEN midnight - Day ELSE midnight
  IN  day + Four - Offset

\* A bug: both ends of the window are included.
InWindowMutant(time, start) == start <= time /\ time <= start + Day
\* gte the start, lte the last millisecond.
InWindow(time, start) == start <= time /\ time <= start + Day - 1

\* What a business day is, said otherwise: the Indian days, moved by four hours.
BusinessDay(time) == (time + Offset - Four) \div Day

-----------------------------------------------------------------------------
VARIABLES
  clock,
  said,       \* when the agent (or, for the fallbacks, the bot) wrote
  summary,    \* DailyUserMessageSummary: totalMessages by the start of the day
  timer,      \* Case.timer
  silent,     \* cases in which no message of the customer was stored
  events,     \* ExpiredEvent: the case, when it was created, the timer, a number of its own
  run,        \* the runs
  runs,       \* recorded: how many were begun,
  crowd,      \* which of them went on beside another of the same job,
  summed,     \* for each day when its last finished summary was begun,
  expiries    \* and how often the timer of a case ran out before it was set again

cronVars == <<clock, said, summary, timer, silent, events, run, runs, crowd, summed, expiries>>
chatVars == <<timer, silent, expiries>>

Starts == {GetIST4amWindow(t) : t \in 0..MaxClock}
Idle   == [job |-> "none", at |-> "idle", start |-> 0, begun |-> 0, found |-> 0, older |-> 0, all |-> 0,
           todo |-> {}, chat |-> {}, timers |-> <<>>, mute |-> {}]
Jobs   == {"summary", "fallback", "expired"}

CronTypeOK ==
  /\ clock \in 0..MaxClock
  /\ said \subseteq 0..MaxClock /\ Cardinality(said) <= MaxSaid
  /\ summary \in [Starts -> Nat]
  /\ \A e \in events : e.chat \in Chats /\ e.at \in 0..MaxClock
  /\ \A i \in Instances : run[i].job \in Jobs \cup {"none"} /\ run[i].todo \subseteq Chats
                       /\ run[i].at \in {"idle", "find", "write", "older", "all", "counted", "next", "create"}
  /\ timer \in [Chats -> 0..(MaxClock + Day)] /\ silent \subseteq Chats /\ expiries \in [Chats -> Nat]
  /\ runs \in 0..MaxRuns /\ crowd \in 0..MaxRuns /\ summed \in [Starts -> Int]

CronInit ==
  /\ clock = 0 /\ said = {} /\ events = {} /\ summary = [d \in Starts |-> 0]
  /\ run = [i \in Instances |-> Idle] /\ runs = 0 /\ crowd = 0
  /\ summed = [d \in Starts |-> d]
  /\ timer = [c \in Chats |-> 0] /\ silent \in SUBSET Chats /\ expiries = [c \in Chats |-> 0]

Sets(i, r) == run' = [run EXCEPT ![i] = r]

Tick == clock < MaxClock /\ clock' = clock + 1
        /\ UNCHANGED <<said, summary, events, run, runs, crowd, summed, chatVars>>
Says ==
  /\ clock \notin said /\ Cardinality(said) < MaxSaid
  /\ said' = said \cup {clock}
  /\ UNCHANGED <<clock, summary, events, run, runs, crowd, summed, chatVars>>

\* The scheduler begins a job, which first computes its window.
CronFires(i, job) ==
  /\ run[i] = Idle /\ runs < MaxRuns /\ runs' = runs + 1
  /\ crowd' = IF \E j \in Instances : run[j].job = job THEN crowd + 1 ELSE crowd
  /\ Sets(i, [Idle EXCEPT !.job = job, !.at = "find", !.begun = IF job = "expired" THEN 0 ELSE clock,
                          !.start = IF job = "expired" THEN IndianDayWindow(clock) ELSE GetIST4amWindow(clock)])
  /\ UNCHANGED <<clock, said, summary, events, summed, chatVars>>

CronEnds(i) ==
  /\ run[i].at = "counted"
  /\ Sets(i, Idle)
  /\ UNCHANGED <<clock, said, summary, events, runs, crowd, summed, chatVars>>
\* A call fails: the run logs it and ends.
CronFails(i) ==
  /\ run[i].at \in {"find", "write", "older", "all", "next"}
  /\ Sets(i, Idle)
  /\ UNCHANGED <<clock, said, summary, events, runs, crowd, summed, chatVars>>

\* handleDailyUserSummaries: the messages of the day so far, then the upsert.
FindMessages(i) ==
  /\ run[i].job = "summary" /\ run[i].at = "find"
  /\ LET n == Cardinality({t \in said : InWindow(t, run[i].start)})
     IN  Sets(i, IF n = 0 THEN Idle ELSE [run[i] EXCEPT !.at = "write", !.found = n])
  /\ UNCHANGED <<clock, said, summary, events, runs, crowd, summed, chatVars>>
UpsertSummary(i) ==
  /\ run[i].job = "summary" /\ run[i].at = "write"
  /\ summary' = [summary EXCEPT ![run[i].start] = run[i].found]
  /\ summed' = [summed EXCEPT ![run[i].start] = run[i].begun]
  /\ Sets(i, Idle)
  /\ UNCHANGED <<clock, said, events, runs, crowd, chatVars>>

\* trackErrorMessages: three queries, one after the other.
CountDay(i) ==
  /\ run[i].job = "fallback" /\ run[i].at = "find"
  /\ Sets(i, [run[i] EXCEPT !.at = "older",
                            !.found = Cardinality({t \in said : InWindow(t, run[i].start)})])
  /\ UNCHANGED <<clock, said, summary, events, runs, crowd, summed, chatVars>>
\* A bug: the older messages are those up to the start.
CountHistoricalMutant(i) ==
  /\ run[i].job = "fallback" /\ run[i].at = "older"
  /\ Sets(i, [run[i] EXCEPT !.at = "all", !.older = Cardinality({t \in said : t <= run[i].start})])
  /\ UNCHANGED <<clock, said, summary, events, runs, crowd, summed, chatVars>>
CountHistorical(i) ==
  /\ run[i].job = "fallback" /\ run[i].at = "older"
  /\ Sets(i, [run[i] EXCEPT !.at = "all", !.older = Cardinality({t \in said : t < run[i].start})])
  /\ UNCHANGED <<clock, said, summary, events, runs, crowd, summed, chatVars>>
CountTotal(i) ==
  /\ run[i].job = "fallback" /\ run[i].at = "all"
  /\ Sets(i, [run[i] EXCEPT !.at = "counted", !.all = Cardinality(said)])
  /\ UNCHANGED <<clock, said, summary, events, runs, crowd, summed, chatVars>>

-----------------------------------------------------------------------------
(* Expired chats *)

\* A customer writes in a case whose timer is over: handleTimer sets it a day ahead.
CustomerReturns(c) ==
  /\ timer[c] < clock
  /\ timer' = [timer EXCEPT ![c] = clock + Day]
  /\ silent' = silent \ {c}
  /\ expiries' = [expiries EXCEPT ![c] = @ + 1]
  /\ UNCHANGED <<clock, said, summary, events, run, runs, crowd, summed>>

\* handleExpiredChats reads the cases whose timer is over and that are not solved.
FindExpired(i) ==
  /\ run[i].job = "expired" /\ run[i].at = "find"
  /\ \E expired \in SUBSET {c \in Chats : timer[c] < clock} :
       Sets(i, IF expired = {} THEN Idle
               ELSE [run[i] EXCEPT !.at = "next", !.todo = expired,
                                   !.timers = [c \in expired |-> timer[c]], !.mute = silent \cap expired])
  /\ UNCHANGED <<clock, said, summary, events, runs, crowd, summed, chatVars>>

\* A bug: the day is looked up as that of UTC.
AlreadyExistsMutant(i, c) == \E e \in events : e.chat = c /\ e.at \div Day = clock \div Day
AlreadyExists(i, c) == \E e \in events : e.chat = c /\ e.at >= run[i].start /\ e.at < run[i].start + Day

\* The next of the cases is skipped if it has an event of the window.
LookUpEvent(i, c) ==
  /\ run[i].at = "next" /\ c \in run[i].todo
  /\ Sets(i, IF ~AlreadyExists(i, c) THEN [run[i] EXCEPT !.at = "create", !.chat = {c}]
             ELSE IF run[i].todo = {c} THEN Idle ELSE [run[i] EXCEPT !.todo = @ \ {c}])
  /\ UNCHANGED <<clock, said, summary, events, runs, crowd, summed, chatVars>>

\* A case without a message of its customer throws, and the cases after it are not
\* looked at; it does so in every run.
CreateEvent(i, c) ==
  /\ run[i].at = "create" /\ c \in run[i].chat
  /\ IF c \in run[i].mute THEN Sets(i, Idle) /\ UNCHANGED events
     ELSE /\ Cardinality(events) < MaxEvents
          /\ events' = events \cup {[chat |-> c, at |-> clock, timer |-> run[i].timers[c], n |-> Cardinality(events)]}
          /\ Sets(i, IF run[i].todo = {c} THEN Idle ELSE [run[i] EXCEPT !.todo = @ \ {c}, !.chat = {}, !.at = "next"])
  /\ UNCHANGED <<clock, said, summary, runs, crowd, summed, chatVars>>

\* A bug: every row is shown.
MarkersMutant(c) == {e \in events : e.chat = c}
\* getCaseEvents shows the first event of each timer.
Markers(c) ==
  {e \in events : e.chat = c /\ \A f \in events : f.chat = c /\ f.timer = e.timer => e.n <= f.n}

CronNext ==
  \/ Tick \/ Says
  \/ \E c \in Chats : CustomerReturns(c)
  \/ \E i \in Instances :
       \/ \E job \in Jobs : CronFires(i, job)
       \/ CronEnds(i) \/ CronFails(i)
       \/ FindMessages(i) \/ UpsertSummary(i)
       \/ CountDay(i) \/ CountHistorical(i) \/ CountTotal(i)
       \/ FindExpired(i)
       \/ \E c \in Chats : LookUpEvent(i, c) \/ CreateEvent(i, c)

-----------------------------------------------------------------------------
(* Properties *)

\* No message is counted in two business days, however late a run reads it: each message
\* can be given to one day so that no summary shows more than the messages of its day.
NoMessageInTwoDays ==
  \E day \in [said -> Starts] : \A d \in Starts : summary[d] <= Cardinality({t \in said : day[t] = d})

\* The summary of a business day has every message of that day from before the run was
\* begun that wrote it last, also if runs overlap.  What is said after that run is never
\* summarised: the next run has the next day's window.
LastRunReached ==
  \A d \in Starts :
    Cardinality({t \in said : BusinessDay(t) = BusinessDay(d) /\ t < summed[d]}) <= summary[d]

\* What the daily summaries (handleDailyUserSummaries) promise: a message counts for one
\* day, and the last run of a day has reached what was there.
SummariesFit == NoMessageInTwoDays /\ LastRunReached

\* The three counts of the fallback messages fit: what is neither of the day nor older
\* was written since the run began.
FallbackCountsFit ==
  \A i \in Instances : (run[i].job = "fallback" /\ run[i].at = "counted") =>
    LET sum == run[i].found + run[i].older
    IN  sum <= run[i].all /\ run[i].all <= sum + Cardinality({t \in said : t >= run[i].begun})

\* A case gets one expired event in a calendar day of India, also from a run that goes
\* over midnight; each more needs a run beside it (look-up and creation are two calls).
ExpiredOncePerDay ==
  \A c \in Chats, t \in 0..MaxClock :
    Cardinality({e \in events : e.chat = c /\ IndianDayWindow(e.at) = IndianDayWindow(t)}) <= 1 + crowd

\* The timeline shows a case as expired once for each time its timer ran out, however
\* many days it stayed expired and however many runs overlapped.
OneMarkerPerExpiry ==
  \A c \in Chats : Cardinality(Markers(c)) <= expiries[c] + (IF timer[c] < clock THEN 1 ELSE 0)
=============================================================================
