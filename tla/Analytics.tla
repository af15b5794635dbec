------------------------------ MODULE Analytics ------------------------------
(***************************************************************************)
(* The tables behind the charts: a row for each hour, computed after the      *)
(* hour by a job of every instance, or for all hours by the backfill; the     *)
(* counts of tags, by the date; and the charts, which add the rows to what    *)
(* is counted in the current hour.                                           *)
(*                                                                          *)
(* Time is the number of the hour.  The cases have one tag, the same.         *)
(***************************************************************************)
EXTENDS Integers, Sequences, FiniteSets, Functions

CONSTANTS
  Tickets,      \* the cases
  Servers,      \* instances of the service
  HoursOfDay,
  MaxHour,      \* bounds the time
  MaxMarks,     \* bounds how often solved cases are written
  MaxBackfills  \* bounds the backfills

ASSUME AnalyticsAssumption ==
  IsFiniteSet(Tickets) /\ HoursOfDay \in Nat \ {0} /\ MaxHour \in Nat /\ MaxMarks \in Nat /\ MaxBackfills \in Nat

Hours    == 0..MaxHour
DayOf(h) == h \div HoursOfDay
Days     == {DayOf(h) : h \in Hours}
Never    == -1

VARIABLES
  hour,
  openedIn,  \* the hour of Case.createdAt
  solvedIn,  \* the hour of updatedAt of a case that is solved
  hourly,    \* HourlyAnalytics: casesOpened and casesSolved by the hour
  tagRows,   \* TagAnalytics.count by the date; 0 for no row
  fired,     \* when the scheduler last began the job of an instance
  job,       \* for each instance the windows it computes, and what it has counted
  feed,      \* a request for a chart
  marks, backfills, \* recorded: writes of solved cases, backfills,
  filled     \* and the last hour which a backfill has read while it was the current one

analyticsVars == <<hour, openedIn, solvedIn, hourly, tagRows, fired, job, feed, marks, backfills, filled>>
caseVars      == <<openedIn, solvedIn, marks>>

Windows == [day : BOOLEAN, n : Nat]
NoJob   == [todo |-> <<>>, back |-> FALSE, at |-> "created", opened |-> 0, solved |-> 0]
NoFeed  == [at |-> "none", tags |-> FALSE, opened |-> 0, solved |-> 0, filled |-> FALSE]

AnalyticsTypeOK ==
  /\ hour \in Hours /\ openedIn \in [Tickets -> Hours \cup {Never}] /\ solvedIn \in [Tickets -> Hours \cup {Never}]
  /\ hourly \in [Hours -> [opened : 0..Cardinality(Tickets), solved : 0..Cardinality(Tickets)]]
  /\ tagRows \in [Days -> 0..Cardinality(Tickets)]
  /\ fired \in [Servers -> Hours]
  /\ \A s \in Servers : job[s].at \in {"created", "solved", "upsert", "delete", "create"}
                     /\ \A i \in DOMAIN job[s].todo : job[s].todo[i] \in Windows
  /\ feed.at \in {"none", "rows", "done"} /\ feed.filled \in BOOLEAN
  /\ marks \in 0..MaxMarks /\ backfills \in 0..MaxBackfills /\ filled \in Hours \cup {Never}

AnalyticsInit ==
  /\ hour = 0 /\ openedIn = [t \in Tickets |-> Never] /\ solvedIn = [t \in Tickets |-> Never]
  /\ hourly = [h \in Hours |-> [opened |-> 0, solved |-> 0]] /\ tagRows = [d \in Days |-> 0]
  /\ fired = [s \in Servers |-> 0] /\ job = [s \in Servers |-> NoJob] /\ feed = NoFeed
  /\ marks = 0 /\ backfills = 0 /\ filled = Never

-----------------------------------------------------------------------------
(* The cases *)

NextHour == hour < MaxHour /\ hour' = hour + 1
            /\ UNCHANGED <<hourly, tagRows, fired, job, feed, backfills, filled, caseVars>>
Open(t) ==
  /\ openedIn[t] = Never
  /\ openedIn' = [openedIn EXCEPT ![t] = hour]
  /\ UNCHANGED <<hour, solvedIn, hourly, tagRows, fired, job, feed, marks, backfills, filled>>
\* A case is solved, or a solved case is written again: updatedAt moves.
Mark(t) ==
  /\ openedIn[t] # Never /\ solvedIn[t] # hour /\ marks < MaxMarks
  /\ solvedIn' = [solvedIn EXCEPT ![t] = hour] /\ marks' = marks + 1
  /\ UNCHANGED <<hour, openedIn, hourly, tagRows, fired, job, feed, backfills, filled>>

-----------------------------------------------------------------------------
(* The jobs *)

\* A bug: the job computes the hour that begins.
LastHourMutant(h) == h
\* addHours(new Date(), -1)
LastHour(h) == h - 1

\* EVERY_HOUR, in every instance.
HourlyCron(s) ==
  /\ job[s].todo = <<>> /\ fired[s] < hour
  /\ fired' = [fired EXCEPT ![s] = hour]
  /\ job' = [job EXCEPT ![s] = [NoJob EXCEPT !.todo = <<[day |-> FALSE, n |-> LastHour(hour)]>>]]
  /\ UNCHANGED <<hour, hourly, tagRows, feed, backfills, filled, caseVars>>
\* backfillAllAnalytics: every hour up to now, then every day.
Backfill(s) ==
  /\ job[s].todo = <<>> /\ backfills < MaxBackfills /\ backfills' = backfills + 1
  /\ LET all == [i \in 1..(hour + 1) |-> [day |-> FALSE, n |-> i - 1]]
             \o [i \in 1..(DayOf(hour) + 1) |-> [day |-> TRUE, n |-> i - 1]]
     IN  job' = [job EXCEPT ![s] = [NoJob EXCEPT !.todo = all, !.back = TRUE]]
  /\ UNCHANGED <<hour, hourly, tagRows, fired, feed, filled, caseVars>>

Computes(s, at) == job[s].todo # <<>> /\ job[s].at = at
Within(h, window) == IF window.day THEN DayOf(h) = window.n ELSE h = window.n
Counted(in, window) == Cardinality({t \in Tickets : in[t] # Never /\ Within(in[t], window)})
Goes(s, next) == job' = [job EXCEPT ![s] = next]
\* The window is done, or given up (a failed call is logged): the next one.
Continue(s) == Goes(s, IF Len(job[s].todo) = 1 THEN NoJob
                       ELSE [NoJob EXCEPT !.todo = Tail(job[s].todo), !.back = job[s].back])

ReadCreated(s) ==
  LET window == Head(job[s].todo)
  IN  /\ Computes(s, "created")
      /\ Goes(s, [job[s] EXCEPT !.at = "solved", !.opened = Counted(openedIn, window)])
      /\ filled' = IF job[s].back /\ Within(hour, window) THEN hour ELSE filled
      /\ UNCHANGED <<hour, hourly, tagRows, fired, feed, backfills, caseVars>>
ReadSolved(s) ==
  LET window == Head(job[s].todo)
  IN  /\ Computes(s, "solved")
      /\ Goes(s, [job[s] EXCEPT !.at = "upsert", !.solved = Counted(solvedIn, window)])
      /\ filled' = IF job[s].back /\ Within(hour, window) THEN hour ELSE filled
      /\ UNCHANGED <<hour, hourly, tagRows, fired, feed, backfills, caseVars>>
\* The row of the hour; that of a day is another table, which no chart reads.
UpsertRow(s) ==
  LET window == Head(job[s].todo)
  IN  /\ Computes(s, "upsert")
      /\ hourly' = IF window.day THEN hourly
                   ELSE [hourly EXCEPT ![window.n] = [opened |-> job[s].opened, solved |-> job[s].solved]]
      /\ Goes(s, [job[s] EXCEPT !.at = "delete", !.solved = 0])
      /\ UNCHANGED <<hour, tagRows, fired, feed, backfills, filled, caseVars>>
\* TagAnalytics.date is a date: the rows of an hour are those of its day.
KeyDate(window) == IF window.day THEN window.n ELSE DayOf(window.n)
DeleteTags(s) ==
  /\ Computes(s, "delete")
  /\ tagRows' = [tagRows EXCEPT ![KeyDate(Head(job[s].todo))] = 0]
  /\ Goes(s, [job[s] EXCEPT !.at = "create"])
  /\ UNCHANGED <<hour, hourly, fired, feed, backfills, filled, caseVars>>
\* A row that another run has created meanwhile makes createMany fail (date, tagText are unique).
CreateTags(s) ==
  LET key == KeyDate(Head(job[s].todo))
  IN  /\ Computes(s, "create")
      /\ tagRows' = IF tagRows[key] # 0 THEN tagRows ELSE [tagRows EXCEPT ![key] = job[s].opened]
      /\ Continue(s)
      /\ UNCHANGED <<hour, hourly, fired, feed, backfills, filled, caseVars>>
StepFails(s) ==
  /\ job[s].todo # <<>> /\ Continue(s)
  /\ UNCHANGED <<hour, hourly, tagRows, fired, feed, backfills, filled, caseVars>>

-----------------------------------------------------------------------------
(* The charts *)

\* getTicketStatusOverTimeData and getTagCountBarData read the rows,
FeedRows(tags) ==
  /\ feed.at = "none"
  /\ feed' = [NoFeed EXCEPT !.at = "rows", !.tags = tags,
                !.opened = IF tags THEN SumFunction(tagRows) ELSE SumFunction([h \in Hours |-> hourly[h].opened]),
                !.solved = IF tags THEN 0 ELSE SumFunction([h \in Hours |-> hourly[h].solved])]
  /\ UNCHANGED <<hour, hourly, tagRows, fired, job, backfills, filled, caseVars>>
\* and add what getCurrentDayRealTimeData counts, which is of the current hour only.
FeedCurrent ==
  LET current == [day |-> FALSE, n |-> hour]
  IN  /\ feed.at = "rows"
      /\ feed' = [feed EXCEPT !.at = "done", !.filled = (filled = hour),
                    !.opened = @ + Counted(openedIn, current),
                    !.solved = IF feed.tags THEN @ ELSE @ + Counted(solvedIn, current)]
      /\ UNCHANGED <<hour, hourly, tagRows, fired, job, backfills, filled, caseVars>>
FeedAnswered ==
  /\ feed.at = "done" /\ feed' = NoFeed
  /\ UNCHANGED <<hour, hourly, tagRows, fired, job, backfills, filled, caseVars>>

AnalyticsNext ==
  \/ NextHour \/ \E t \in Tickets : Open(t) \/ Mark(t)
  \/ \E s \in Servers :
       \/ HourlyCron(s) \/ Backfill(s)
       \/ ReadCreated(s) \/ ReadSolved(s) \/ UpsertRow(s) \/ DeleteTags(s) \/ CreateTags(s) \/ StepFails(s)
  \/ \E tags \in BOOLEAN : FeedRows(tags)
  \/ FeedCurrent \/ FeedAnswered

-----------------------------------------------------------------------------
(* Properties *)

\* A chart counts no case twice: the rows are of hours that are over, however late the
\* jobs of the instances run beside each other and beside the chart's two reads; a solved
\* case is counted once for each time it was written.  In an hour which a backfill has
\* read while it went on, the chart counts that hour twice.
CountedOnce ==
  (feed.at = "done" /\ ~feed.filled) =>
    /\ feed.opened <= Cardinality({t \in Tickets : openedIn[t] # Never})
    /\ feed.solved <= marks
=============================================================================
