----------------------- MODULE IncomingMessageProofs -----------------------
(***************************************************************************)
(* Proofs about IncomingMessage, for all messages, any number of           *)
(* deliveries, retries and faults, whether or not pg-boss honours the      *)
(* singleton key.                                                          *)
(*                                                                         *)
(* They rest on what a run may rely on while nobody interferes: as long as *)
(* no run has been left alone, the run the worker waits for is the only    *)
(* one.                                                                    *)
(***************************************************************************)
EXTENDS IncomingMessage, TLAPS

-----------------------------------------------------------------------------
(* The inductive invariant *)

\* A job that does not exist yet has no runs.
IdleInv == \A r \in Runs : at[r] # "idle" => job[r[1]] # "absent"

\* The run the worker waits for is going.
WaitInv == worker # NoRun => at[worker] # "idle"

\* As long as no run was left alone, only the one the worker waits for is going.
SoleInv == apart = 0 => \A r \in Runs : at[r] # "idle" => r = worker

\* Then nobody stores media between the look-up of a run and its insertion.
CreateInv ==
  apart = 0 => \A r \in Runs :
    at[r] = "create" /\ Message(r) \in Media => stored[Message(r)] = 0

\* A run that decides what to answer, or has decided, has its message stored.
Answering == {"respond", "bare", "stop", "greet", "reset", "next", "reply"}
StoredInv ==
  \A r \in Runs : at[r] \in Answering => stored[Message(r)] > 0

\* A node that was asked awaits a reply, and so does one a run has seen as long
\* as that run is alone.
Deciding == {"find", "create", "respond", "bare"}
AskedInv ==
  /\ node = "asked" => awaiting
  /\ apart = 0 => \A r \in Runs :
       at[r] \in Deciding /\ seen[r] = "asked" => awaiting

IInv ==
  /\ TypeOK /\ IdleInv /\ WaitInv /\ SoleInv /\ CreateInv /\ StoredInv /\ AskedInv
  /\ MediaStoredOnce /\ CompletedWasStored /\ RepliesTakenOnce

-----------------------------------------------------------------------------
USE IncomingAssumption, NoRunAssumption DEF IncomingAssumption

LEMMA InitIInv == Init => IInv
<1> SUFFICES ASSUME Init PROVE IInv
  OBVIOUS
<1>1. TypeOK
  <2>1. retries \in [Jobs -> 0..RetryLimit] /\ apart + faults <= MaxFaults
    BY DEF Init
  <2>2. at \in [Runs -> Places] /\ seen \in [Runs -> Nodes] /\ job \in [Jobs -> JobStates]
    BY DEF Init, Places, Nodes, JobStates
  <2>3. stored \in [Messages -> Nat] /\ message \in [Jobs -> Messages \cup {NoMessage}]
    BY DEF Init
  <2>. QED BY <2>1, <2>2, <2>3 DEF Init, TypeOK, Nodes
<1>2. IdleInv /\ WaitInv /\ SoleInv /\ CreateInv /\ StoredInv /\ AskedInv
  BY DEF Init, IdleInv, WaitInv, SoleInv, CreateInv, StoredInv, AskedInv, Answering, Deciding
<1>3. MediaStoredOnce /\ CompletedWasStored /\ RepliesTakenOnce
  BY DEF Init, MediaStoredOnce, CompletedWasStored, RepliesTakenOnce
<1>. QED BY <1>1, <1>2, <1>3 DEF IInv

LEMMA RunsOfJobs ==
  /\ \A r \in Runs : r[1] \in Jobs
  /\ \A j \in Jobs, k \in 0..BySelf : <<j, k>> \in Runs /\ <<j, k>>[1] = j
  BY DEF Runs

LEMMA RunOfJob ==
  ASSUME TypeOK, NEW j \in Jobs
  PROVE  Run(j) \in Runs /\ Run(j)[1] = j
  BY RunsOfJobs DEF TypeOK, Run, BySelf, Runs

\* Run r moves to a place; the other runs stay where they are.
Moves(r, place) ==
  /\ at' \in [Runs -> Places] /\ seen' \in [Runs -> Nodes]
  /\ at'[r] = place
  /\ \A q \in Runs : q # r => at'[q] = at[q] /\ seen'[q] = seen[q]

LEMMA GoStep ==
  ASSUME TypeOK, NEW r \in Runs, NEW place \in Places, Go(r, place)
  PROVE  Moves(r, place) /\ seen'[r] \in {seen[r], "none"}
  BY DEF TypeOK, Go, Nodes, Moves

\* What the end of an attempt does to the jobs: none comes into being, and only
\* the job of a run that returns becomes handled.
JobsKeep(S) ==
  /\ job' \in [Jobs -> JobStates] /\ retries' \in [Jobs -> 0..RetryLimit]
  /\ \A j \in Jobs : job'[j] = "absent" <=> job[j] = "absent"
  /\ \A j \in Jobs : job'[j] \in {"handled", "completed"} =>
       job[j] \in {"handled", "completed"} \/ j \in S

LEMMA FailedStep ==
  ASSUME TypeOK, NEW j \in Jobs, Failed(j), job[j] # "absent"
  PROVE  JobsKeep({})
  BY DEF TypeOK, Failed, JobsKeep, JobStates

LEMMA SameJobs ==
  ASSUME TypeOK, UNCHANGED <<job, retries>>
  PROVE  JobsKeep({})
  BY DEF TypeOK, JobsKeep

LEMMA ReturnsStep ==
  ASSUME TypeOK, NEW r \in Runs, Returns(r), job[r[1]] # "absent"
  PROVE  /\ JobsKeep({r[1]})
         /\ worker' = IF worker = r THEN NoRun ELSE worker
  BY RunsOfJobs DEF TypeOK, Returns, JobsKeep, JobStates

LEMMA ThrowsStep ==
  ASSUME TypeOK, NEW r \in Runs, Throws(r), job[r[1]] # "absent"
  PROVE  /\ JobsKeep({}) /\ Moves(r, "idle")
         /\ worker' = IF worker = r THEN NoRun ELSE worker
  <1>1. Moves(r, "idle")
    BY GoStep DEF Throws, Places
  <1>2. CASE worker = r
    BY <1>1, <1>2, FailedStep, RunsOfJobs DEF Throws
  <1>3. CASE worker # r
    BY <1>1, <1>3, SameJobs DEF Throws
  <1>. QED BY <1>2, <1>3
-----------------------------------------------------------------------------
(* Steps of runs, and steps beside them *)

\* A step of run r: it ends only if it becomes idle.
RunStep(r, place) ==
  /\ at[r] # "idle" /\ Moves(r, place)
  /\ UNCHANGED <<message, apart>>
  /\ faults' \in Nat /\ apart + faults' <= MaxFaults
  /\ worker' = IF worker = r /\ place = "idle" THEN NoRun ELSE worker

\* What a step of a run has to establish for the invariant.
LEMMA RunKeeps ==
  ASSUME IInv, NEW r \in Runs, NEW place \in Places, NEW S \in SUBSET {r[1]},
         RunStep(r, place), JobsKeep(S),
         stored' \in [Messages -> Nat], node' \in Nodes, awaiting' \in BOOLEAN,
         \A m \in Messages : stored[m] > 0 => stored'[m] > 0,
         S # {} \/ place \in Answering => stored'[Message(r)] > 0,
         apart = 0 => \A m \in Media : stored'[m] <= 1,
         place = "create" /\ Message(r) \in Media => stored'[Message(r)] = 0,
         node' = "asked" => awaiting',
         place \in Deciding /\ seen'[r] = "asked" /\ apart = 0 => awaiting',
         place = "reset" /\ apart = 0 => awaiting'
  PROVE  IInv'
  <1>1. TypeOK'
    <2>1. \A j \in Jobs : job'[j] = "absent" \/ message'[j] \in Messages
      BY DEF IInv, TypeOK, RunStep, JobsKeep
    <2>2. worker' \in Runs \cup {NoRun}
      BY DEF IInv, TypeOK, RunStep
    <2>. QED BY <2>1, <2>2 DEF IInv, TypeOK, RunStep, JobsKeep, Moves
  <1>2. IdleInv'
    BY RunsOfJobs DEF IInv, IdleInv, RunStep, Moves, JobsKeep
  <1>3. apart = 0 => worker = r /\ \A q \in Runs : q # r => at[q] = "idle"
    BY DEF IInv, SoleInv, RunStep
  <1>4. SoleInv'
    BY <1>3 DEF SoleInv, RunStep, Moves
  <1>5. CreateInv'
    BY <1>3 DEF CreateInv, RunStep, Moves, Message
  <1>6. \A q \in Runs : at[q] # "idle" => Message(q) \in Messages
    BY RunsOfJobs DEF IInv, TypeOK, IdleInv, Message
  <1>7. StoredInv'
    <2> SUFFICES ASSUME NEW q \in Runs, at'[q] \in Answering
                 PROVE  stored'[Message(q)'] > 0
      BY DEF StoredInv
    <2>1. Message(q)' = Message(q)
      BY DEF Message, RunStep
    <2>2. CASE q = r
      BY <2>1, <2>2 DEF RunStep, Moves
    <2>3. CASE q # r
      BY <2>1, <2>3, <1>6 DEF IInv, StoredInv, RunStep, Moves, Answering
    <2>. QED BY <2>2, <2>3
  <1>8. AskedInv'
    BY <1>3 DEF AskedInv, RunStep, Moves, Deciding
  <1>9. MediaStoredOnce'
    BY DEF MediaStoredOnce, RunStep
  <1>10. CompletedWasStored'
    <2> SUFFICES ASSUME NEW j \in Jobs, job'[j] \in {"handled", "completed"}
                 PROVE  stored'[message[j]] > 0
      BY DEF CompletedWasStored, RunStep
    <2>1. CASE job[j] \in {"handled", "completed"}
      <3>1. message[j] \in Messages /\ stored[message[j]] > 0
        BY <2>1 DEF IInv, TypeOK, CompletedWasStored
      <3>. QED BY <3>1
    <2>2. CASE j \in S
      BY <2>2 DEF Message
    <2>. QED BY <2>1, <2>2 DEF JobsKeep
  <1>11. RepliesTakenOnce'
    BY <1>3 DEF RepliesTakenOnce, RunStep, Moves
  <1>12. WaitInv'
    BY DEF IInv, TypeOK, WaitInv, RunStep, Moves
  <1>. QED
    BY <1>1, <1>2, <1>4, <1>5, <1>7, <1>8, <1>9, <1>10, <1>11,
       <1>12 DEF IInv

\* Steps that move no run.
LEMMA StillKeeps ==
  ASSUME IInv, UNCHANGED <<message, worker, at, seen, stored, apart, faults>>,
         JobsKeep({}), node' \in Nodes, awaiting' \in BOOLEAN,
         node' = "asked" => awaiting', awaiting => awaiting'
  PROVE  IInv'
  <1>1. TypeOK'
    BY DEF IInv, TypeOK, JobsKeep
  <1>2. IdleInv' /\ WaitInv' /\ SoleInv' /\ CreateInv' /\ StoredInv'
    BY RunsOfJobs DEF IInv, IdleInv, WaitInv, SoleInv, CreateInv, StoredInv, Message, JobsKeep
  <1>3. AskedInv' /\ RepliesTakenOnce' /\ MediaStoredOnce'
    BY DEF IInv, AskedInv, RepliesTakenOnce, MediaStoredOnce
  <1>4. CompletedWasStored'
    BY DEF IInv, CompletedWasStored, JobsKeep
  <1>. QED BY <1>1, <1>2, <1>3, <1>4 DEF IInv

-----------------------------------------------------------------------------
(* The actions *)

\* A webhook call makes a job of its own.
LEMMA DeliverStep ==
  ASSUME IInv, NEW j \in Jobs, NEW m \in Messages, Deliver(j, m)
  PROVE  IInv'
  <1>1. /\ job' \in [Jobs -> JobStates] /\ job'[j] \in {"refused", "ready"}
        /\ message' \in [Jobs -> Messages \cup {NoMessage}] /\ message'[j] = m
        /\ \A i \in Jobs : i # j => job'[i] = job[i] /\ message'[i] = message[i]
    BY DEF IInv, TypeOK, Deliver, JobStates
  <1>2. \A r \in Runs : at[r] # "idle" => r[1] # j
    BY DEF IInv, IdleInv, Deliver
  <1>3. TypeOK'
    BY <1>1 DEF IInv, TypeOK, Deliver, runVars, caseVars
  <1>4. /\ IdleInv' /\ WaitInv' /\ SoleInv' /\ AskedInv'
        /\ MediaStoredOnce' /\ RepliesTakenOnce'
    BY <1>1, RunsOfJobs
    DEF IInv, IdleInv, WaitInv, SoleInv, AskedInv, MediaStoredOnce, RepliesTakenOnce,
        Deliver, runVars, caseVars
  <1>5. CreateInv' /\ StoredInv'
    BY <1>1, <1>2, RunsOfJobs
    DEF IInv, CreateInv, StoredInv, Answering, Message, Deliver, runVars
  <1>6. CompletedWasStored'
    BY <1>1 DEF IInv, CompletedWasStored, Deliver
  <1>. QED BY <1>3, <1>4, <1>5, <1>6 DEF IInv

\* So does one that processes its message itself; its run is alone.
LEMMA DeliverItselfStep ==
  ASSUME IInv, NEW j \in Jobs, NEW m \in Messages, DeliverItself(j, m)
  PROVE  IInv'
  <1> DEFINE r == <<j, BySelf>>
  <1>1. /\ job' \in [Jobs -> JobStates] /\ job'[j] \in {"refused", "ready"}
        /\ message' \in [Jobs -> Messages \cup {NoMessage}] /\ message'[j] = m
        /\ \A i \in Jobs : i # j => job'[i] = job[i] /\ message'[i] = message[i]
    BY DEF IInv, TypeOK, DeliverItself, JobStates
  <1>2. \A q \in Runs : at[q] # "idle" => q[1] # j
    BY DEF IInv, IdleInv, DeliverItself
  <1>3. r \in Runs /\ r[1] = j
    BY RunsOfJobs DEF BySelf
  <1>4. Moves(r, "manage") /\ seen'[r] \in {seen[r], "none"}
    BY <1>3, GoStep DEF IInv, DeliverItself, Places
  <1>5. apart' \in Nat /\ apart' # 0 /\ apart' + faults' <= MaxFaults
    BY DEF IInv, TypeOK, DeliverItself
  <1>6. TypeOK'
    BY <1>1, <1>4, <1>5 DEF IInv, TypeOK, DeliverItself, caseVars, Moves
  <1>7. SoleInv' /\ CreateInv' /\ MediaStoredOnce' /\ RepliesTakenOnce' /\ AskedInv'
    BY <1>5 DEF IInv, SoleInv, CreateInv, MediaStoredOnce, RepliesTakenOnce, AskedInv,
       DeliverItself, caseVars
  <1>8. IdleInv' /\ WaitInv'
    BY <1>1, <1>3, <1>4, RunsOfJobs DEF IInv, IdleInv, TypeOK, WaitInv, DeliverItself, Moves
  <1>9. StoredInv'
    BY <1>1, <1>2, <1>3, <1>4, RunsOfJobs
    DEF IInv, StoredInv, Answering, Message, DeliverItself, Moves
  <1>10. CompletedWasStored'
    BY <1>1 DEF IInv, CompletedWasStored, DeliverItself
  <1>. QED BY <1>6, <1>7, <1>8, <1>9, <1>10 DEF IInv

\* The worker starts a run when it waits for none.
LEMMA StartStep ==
  ASSUME IInv, NEW j \in Jobs, Start(j)
  PROVE  IInv'
  <1> DEFINE r == Run(j)
  <1>1. r \in Runs /\ r[1] = j
    BY RunOfJob DEF IInv
  <1>2. Moves(r, "manage") /\ seen'[r] \in {seen[r], "none"}
    BY <1>1, GoStep DEF IInv, Start, Places
  <1>3. JobsKeep({}) /\ job'[j] = "active"
    BY DEF IInv, TypeOK, Start, JobsKeep, JobStates
  <1>4. apart = 0 => \A q \in Runs : at[q] = "idle"
    BY NoRunAssumption DEF IInv, SoleInv, Start
  <1>5. TypeOK'
    BY <1>1, <1>2, <1>3 DEF IInv, TypeOK, Start, JobsKeep, Moves, caseVars
  <1>6. IdleInv' /\ WaitInv' /\ SoleInv'
    BY <1>1, <1>2, <1>3, <1>4, RunsOfJobs
    DEF IInv, IdleInv, WaitInv, SoleInv, Start, JobsKeep, Moves
  <1>7. CreateInv' /\ StoredInv'
    BY <1>2 DEF IInv, CreateInv, StoredInv, Answering, Message, Start, Moves
  <1>8. AskedInv' /\ MediaStoredOnce' /\ RepliesTakenOnce'
    BY <1>2 DEF IInv, AskedInv, Deciding, MediaStoredOnce, RepliesTakenOnce, Start,
       Moves, caseVars
  <1>9. CompletedWasStored'
    BY <1>3 DEF IInv, CompletedWasStored, Start, JobsKeep
  <1>. QED BY <1>5, <1>6, <1>7, <1>8, <1>9 DEF IInv

\* Job states change and nothing moves.
LEMMA QueueStep ==
  ASSUME IInv, NEW j \in Jobs, BatchCompletes(j) \/ BatchFails(j) \/ Expire(j)
  PROVE  IInv'
  <1>1. JobsKeep({})
    <2>1. CASE BatchCompletes(j)
      BY <2>1 DEF IInv, TypeOK, BatchCompletes, JobsKeep, JobStates
    <2>2. CASE BatchFails(j) \/ Expire(j)
      BY <2>2, FailedStep DEF IInv, BatchFails, Expire
    <2>. QED BY <2>1, <2>2
  <1>2. UNCHANGED <<message, worker, at, seen, stored, apart, faults, node, awaiting>>
    BY DEF BatchCompletes, BatchFails, Expire, runVars, caseVars
  <1>. QED BY <1>1, <1>2, StillKeeps DEF IInv, TypeOK, AskedInv

\* Agents change the node, the timer of a run fires, the process dies.
LEMMA AgentStep ==
  ASSUME IInv, SendList \/ Solve
  PROVE  IInv'
  <1>1. JobsKeep({})
    BY SameJobs DEF IInv, SendList, Solve, queueVars
  <1>2. /\ UNCHANGED <<message, worker, at, seen, stored, apart, faults>>
        /\ node' \in Nodes /\ awaiting' \in BOOLEAN
        /\ node' = "asked" => awaiting'
        /\ awaiting => awaiting'
    BY DEF IInv, TypeOK, SendList, Solve, queueVars, runVars, Nodes
  <1>. QED BY <1>1, <1>2, StillKeeps

LEMMA CrashStep ==
  ASSUME IInv, Crash
  PROVE  IInv'
  <1>1. TypeOK'
    BY DEF IInv, TypeOK, Crash, caseVars, Places, Nodes
  <1>2. \A r \in Runs : at'[r] = "idle"
    BY DEF Crash
  <1>3. IdleInv' /\ SoleInv' /\ CreateInv' /\ StoredInv' /\ RepliesTakenOnce'
    BY <1>2 DEF IdleInv, SoleInv, CreateInv, StoredInv, Answering, RepliesTakenOnce
  <1>4. WaitInv' /\ AskedInv' /\ MediaStoredOnce' /\ CompletedWasStored'
    BY <1>2 DEF IInv, WaitInv, AskedInv, Deciding, MediaStoredOnce, CompletedWasStored, Crash, caseVars
  <1>. QED BY <1>1, <1>3, <1>4 DEF IInv

\* A run that ends without returning leaves everything as it was.
LEMMA GivesUp ==
  ASSUME IInv, NEW r \in Runs, RunStep(r, "idle"), JobsKeep({}),
         UNCHANGED <<stored, node, awaiting>>
  PROVE  IInv'
  <1>1. \A m \in Media : m \in Messages
    OBVIOUS
  <1>2. "idle" \in Places /\ "idle" \notin Answering /\ "idle" \notin Deciding
    BY DEF Places, Answering, Deciding
  <1>. QED
    BY <1>1, <1>2, RunKeeps DEF IInv, TypeOK, AskedInv, MediaStoredOnce

\* A run that returns had its message stored.
LEMMA Ends ==
  ASSUME IInv, NEW r \in Runs, at[r] \in Answering, Go(r, "idle"), Returns(r),
         UNCHANGED <<message, apart, stored>>,
         faults' \in Nat, apart + faults' <= MaxFaults,
         node' \in Nodes, awaiting' \in BOOLEAN, node' = "asked" => awaiting'
  PROVE  IInv'
  <1>1. "idle" \in Places /\ "idle" \notin Answering /\ "idle" \notin Deciding
        /\ at[r] # "idle"
    BY DEF Places, Answering, Deciding
  <1>2. r[1] \in Jobs /\ job[r[1]] # "absent"
    BY <1>1, RunsOfJobs DEF IInv, IdleInv
  <1>3. JobsKeep({r[1]}) /\ worker' = IF worker = r THEN NoRun ELSE worker
    BY <1>2, ReturnsStep DEF IInv
  <1>4. RunStep(r, "idle")
    BY <1>1, <1>3, GoStep DEF IInv, RunStep
  <1>5. stored' \in [Messages -> Nat] /\ stored'[Message(r)] > 0
        /\ (apart = 0 => \A m \in Media : stored'[m] <= 1)
    BY DEF IInv, TypeOK, StoredInv, MediaStoredOnce
  <1>. QED BY <1>1, <1>3, <1>4, <1>5, RunKeeps

\* A run that throws.
LEMMA ThrowsKeeps ==
  ASSUME IInv, NEW r \in Runs, at[r] # "idle", Throws(r),
         UNCHANGED <<message, apart, stored, awaiting>>,
         faults' \in Nat, apart + faults' <= MaxFaults,
         node' \in {node, "none"}
  PROVE  IInv'
  <1>1. r[1] \in Jobs /\ job[r[1]] # "absent"
    BY RunsOfJobs DEF IInv, IdleInv
  <1>2. JobsKeep({}) /\ Moves(r, "idle")
        /\ worker' = IF worker = r THEN NoRun ELSE worker
    BY <1>1, ThrowsStep DEF IInv
  <1>3. RunStep(r, "idle")
    BY <1>2 DEF RunStep
  <1>4. "idle" \in Places /\ "idle" \notin Answering /\ "idle" \notin Deciding
    BY DEF Places, Answering, Deciding
  <1>5. node' \in Nodes /\ awaiting' \in BOOLEAN /\ (node' = "asked" => awaiting')
    BY DEF IInv, TypeOK, AskedInv, Nodes
  <1>6. stored' \in [Messages -> Nat]
        /\ (apart = 0 => \A m \in Media : stored'[m] <= 1)
    BY DEF IInv, TypeOK, MediaStoredOnce
  <1>. QED BY <1>2, <1>3, <1>4, <1>5, <1>6, RunKeeps

\* The timer fires: the run goes on alone, or hangs.
LEMMA TimesOutStep ==
  ASSUME IInv, NEW r \in Runs, TimesOut(r)
  PROVE  IInv'
  <1>1. at[r] # "idle"
    BY NoRunAssumption DEF IInv, WaitInv, TimesOut
  <1>2. r[1] \in Jobs /\ job[r[1]] # "absent"
    BY <1>1, RunsOfJobs DEF IInv, IdleInv
  <1>3. JobsKeep({})
    BY <1>2, FailedStep DEF IInv, TimesOut
  <1>4. CASE apart' = apart + 1 /\ UNCHANGED runVars
    <2>1. apart' \in Nat /\ apart' # 0 /\ UNCHANGED <<at, seen>>
      BY <1>4 DEF IInv, TypeOK, runVars
    <2>2. apart' + faults' <= MaxFaults
      BY <1>4 DEF IInv, TypeOK, TimesOut
    <2>3. TypeOK'
      BY <1>3, <2>1, <2>2 DEF IInv, TypeOK, TimesOut, JobsKeep, caseVars
    <2>4. SoleInv' /\ CreateInv' /\ AskedInv' /\ MediaStoredOnce' /\ RepliesTakenOnce'
      BY <2>1 DEF IInv, SoleInv, CreateInv, AskedInv, MediaStoredOnce,
         RepliesTakenOnce, TimesOut, caseVars
    <2>5. IdleInv' /\ WaitInv' /\ StoredInv' /\ CompletedWasStored'
      BY <1>3, <2>1, RunsOfJobs DEF IInv, IdleInv, WaitInv, StoredInv, CompletedWasStored,
         Message, TimesOut, JobsKeep
    <2>. QED BY <2>3, <2>4, <2>5 DEF IInv
  <1>5. CASE Go(r, "idle") /\ UNCHANGED apart
    <2>1. Moves(r, "idle")
      BY <1>5, GoStep DEF IInv, Places
    <2>2. RunStep(r, "idle")
      BY <1>5, <1>1, <2>1 DEF IInv, TypeOK, RunStep, TimesOut
    <2>. QED BY <1>3, <2>2, GivesUp DEF TimesOut, caseVars
  <1>. QED BY <1>4, <1>5 DEF TimesOut

LEMMA FaultStep ==
  ASSUME IInv, NEW r \in Runs, Fault(r)
  PROVE  IInv'
  <1>1. /\ at[r] # "idle" /\ UNCHANGED <<message, apart, stored, node, awaiting>>
        /\ faults' \in Nat /\ apart + faults' <= MaxFaults
    BY DEF IInv, TypeOK, Fault, caseVars
  <1>2. CASE Throws(r)
    BY <1>1, <1>2, ThrowsKeeps
  <1>3. CASE at[r] = "reply" /\ Go(r, "idle") /\ Returns(r)
    <2>1. at[r] \in Answering
      BY <1>3 DEF Answering
    <2>2. node' \in Nodes /\ awaiting' \in BOOLEAN /\ (node' = "asked" => awaiting')
      BY <1>1 DEF IInv, TypeOK, AskedInv
    <2>. QED BY <1>1, <1>3, <2>1, <2>2, Ends
  <1>. QED BY <1>2, <1>3 DEF Fault

-----------------------------------------------------------------------------
(* The steps of a run *)

\* A step that neither stores nor ends.
LEMMA Onwards ==
  ASSUME IInv, NEW r \in Runs, at[r] # "idle", NEW place \in Places \ {"idle"},
         Moves(r, place), UNCHANGED <<message, job, retries, worker, apart, faults, stored>>,
         node' \in Nodes, awaiting' \in BOOLEAN, node' = "asked" => awaiting',
         place \in Answering => stored[Message(r)] > 0,
         place = "create" /\ Message(r) \in Media => stored[Message(r)] = 0,
         place \in Deciding /\ seen'[r] = "asked" /\ apart = 0 => awaiting',
         place = "reset" /\ apart = 0 => awaiting'
  PROVE  IInv'
  <1>1. JobsKeep({})
    BY SameJobs DEF IInv
  <1>2. RunStep(r, place)
    BY DEF IInv, TypeOK, RunStep
  <1>3. stored' \in [Messages -> Nat]
        /\ (apart = 0 => \A m \in Media : stored'[m] <= 1)
    BY DEF IInv, TypeOK, MediaStoredOnce
  <1>. QED BY <1>1, <1>2, <1>3, RunKeeps

\* The case is looked up, the customer welcomed, the case read again.
LEMMA ManageStep ==
  ASSUME IInv, NEW r \in Runs, Manage(r)
  PROVE  IInv'
  <1>1. PICK place \in {"hi", "reread"} : Go(r, place)
    BY DEF Manage
  <1>2. place \in Places \ {"idle"} /\ place \notin Answering \cup Deciding
        /\ place \notin {"create", "reset"}
    BY DEF Places, Answering, Deciding
  <1>3. Moves(r, place)
    BY <1>1, <1>2, GoStep DEF IInv
  <1>4. UNCHANGED <<message, job, retries, worker, apart, faults, stored, node, awaiting>>
    BY DEF Manage, OnlyRun, queueVars, caseVars
  <1>5. node' \in Nodes /\ awaiting' \in BOOLEAN /\ (node' = "asked" => awaiting')
    BY <1>4 DEF IInv, TypeOK, AskedInv
  <1>. QED BY <1>2, <1>3, <1>4, <1>5, Onwards DEF Manage

LEMMA HiStep ==
  ASSUME IInv, NEW r \in Runs, Hi(r)
  PROVE  IInv'
  <1>1. UNCHANGED <<message, apart, faults, stored>> /\ node' \in Nodes /\ awaiting'
    BY DEF Hi, Nodes
  <1>2. CASE at[r] = "hi" /\ Go(r, "reread") /\ UNCHANGED <<job, retries, worker>>
    <2>1. "reread" \in Places \ {"idle"} /\ "reread" \notin Answering \cup Deciding
      BY DEF Places, Answering, Deciding
    <2>2. Moves(r, "reread")
      BY <1>2, <2>1, GoStep DEF IInv
    <2>. QED BY <1>1, <1>2, <2>1, <2>2, Onwards DEF Hi
  <1>3. CASE at[r] = "greet" /\ Go(r, "idle") /\ Returns(r)
    BY <1>1, <1>3, Ends DEF IInv, TypeOK, Hi, Answering
  <1>. QED BY <1>2, <1>3 DEF Hi

LEMMA RereadStep ==
  ASSUME IInv, NEW r \in Runs, Reread(r)
  PROVE  IInv'
  <1>1. "find" \in Places \ {"idle"} /\ "find" \notin Answering
    BY DEF Places, Answering
  <1>2. Moves(r, "find") /\ seen'[r] = node
    BY <1>1 DEF IInv, TypeOK, Reread, Moves
  <1>3. UNCHANGED <<message, job, retries, worker, apart, faults, stored, node, awaiting>>
    BY DEF Reread, OnlyRun, queueVars, caseVars
  <1>4. node' \in Nodes /\ awaiting' \in BOOLEAN /\ (node = "asked" => awaiting')
    BY <1>3 DEF IInv, TypeOK, AskedInv
  <1>. QED BY <1>1, <1>2, <1>3, <1>4, Onwards DEF Reread

\* The look-up of media: on to the insertion only if none is stored.
LEMMA FindMediaStep ==
  ASSUME IInv, NEW r \in Runs, FindMedia(r)
  PROVE  IInv'
  <1>1. PICK place \in {"bare", "create"} :
          /\ Go(r, place)
          /\ place = "bare" <=> Message(r) \in Media /\ stored[Message(r)] > 0
    BY DEF FindMedia
  <1>2. place \in Places \ {"idle"} /\ place \in Deciding /\ place # "reset"
        /\ "create" \notin Answering /\ at[r] \in Deciding
    BY DEF Places, Answering, Deciding, FindMedia
  <1>3. Moves(r, place) /\ seen'[r] \in {seen[r], "none"}
    BY <1>1, <1>2, GoStep DEF IInv
  <1>4. UNCHANGED <<message, job, retries, worker, apart, faults, stored, node, awaiting>>
    BY DEF FindMedia, OnlyRun, queueVars, caseVars
  <1>5. node' \in Nodes /\ awaiting' \in BOOLEAN /\ (node' = "asked" => awaiting')
    BY <1>4 DEF IInv, TypeOK, AskedInv
  <1>6. Message(r) \in Media => stored[Message(r)] \in Nat
    BY DEF IInv, TypeOK
  <1>7. place \in Deciding /\ seen'[r] = "asked" /\ apart = 0 => awaiting'
    BY <1>2, <1>3, <1>4 DEF IInv, AskedInv
  <1>. QED BY <1>1, <1>2, <1>3, <1>4, <1>5, <1>6, <1>7, Onwards DEF FindMedia

\* The insertion: of media only if none was stored when the run looked, and
\* nobody else has stored since.
LEMMA CreateRowStep ==
  ASSUME IInv, NEW r \in Runs, CreateRow(r)
  PROVE  IInv'
  <1>1. "respond" \in Places /\ "respond" \in Deciding /\ at[r] \in Deciding
        /\ at[r] # "idle"
    BY DEF Places, Deciding, CreateRow
  <1>2. Moves(r, "respond") /\ seen'[r] \in {seen[r], "none"}
    BY <1>1, GoStep DEF IInv, CreateRow
  <1>3. UNCHANGED <<message, job, retries, worker, apart, faults, node, awaiting>>
    BY DEF CreateRow, OnlyRun, queueVars, caseVars
  <1>4. RunStep(r, "respond") /\ JobsKeep({})
    BY <1>1, <1>2, <1>3, SameJobs DEF IInv, TypeOK, RunStep
  <1>5. Message(r) \in Messages
    BY <1>1, RunsOfJobs DEF IInv, TypeOK, IdleInv, Message
  <1>6. /\ stored' \in [Messages -> Nat] /\ stored'[Message(r)] = stored[Message(r)] + 1
        /\ \A m \in Messages : m # Message(r) => stored'[m] = stored[m]
    BY <1>5 DEF IInv, TypeOK, CreateRow
  <1>7. stored'[Message(r)] > 0 /\ \A m \in Messages : stored[m] > 0 => stored'[m] > 0
    BY <1>5, <1>6 DEF IInv, TypeOK
  <1>8. apart = 0 => \A m \in Media : stored'[m] <= 1
    BY <1>5, <1>6 DEF IInv, CreateInv, MediaStoredOnce, CreateRow
  <1>9. node' \in Nodes /\ awaiting' \in BOOLEAN /\ (node' = "asked" => awaiting')
    BY <1>3 DEF IInv, TypeOK, AskedInv
  <1>10. seen'[r] = "asked" /\ apart = 0 => awaiting'
    BY <1>1, <1>2, <1>3 DEF IInv, AskedInv
  <1>. QED BY <1>1, <1>4, <1>6, <1>7, <1>8, <1>9, <1>10, RunKeeps

\* The run decides what to answer on what it saw: to a node only if it saw one.
LEMMA RespondStep ==
  ASSUME IInv, NEW r \in Runs, Respond(r)
  PROVE  IInv'
  <1>1. /\ at[r] \in Answering /\ at[r] \in Deciding /\ at[r] # "idle"
        /\ UNCHANGED <<message, apart, faults, stored, node, awaiting>>
    BY DEF Respond, Answering, Deciding, caseVars
  <1>2. /\ node' \in Nodes /\ awaiting' \in BOOLEAN /\ (node' = "asked" => awaiting')
        /\ faults' \in Nat /\ apart + faults' <= MaxFaults
    BY <1>1 DEF IInv, TypeOK, AskedInv
  <1>3. CASE Throws(r)
    BY <1>1, <1>2, <1>3, ThrowsKeeps
  <1>4. CASE Go(r, "idle") /\ Returns(r)
    BY <1>1, <1>2, <1>4, Ends
  <1>5. ASSUME NEW place \in Responses(seen[r], Message(r)), place # "idle",
               Go(r, place), UNCHANGED <<job, retries, worker>>
        PROVE  IInv'
    <2>1. /\ place \in {"stop", "reply", "reset", "greet"}
          /\ place = "reset" => seen[r] = "asked"
      BY <1>5 DEF Responses
    <2>2. place \in Places \ {"idle"} /\ place \notin Deciding
      BY <2>1 DEF Places, Deciding
    <2>3. Moves(r, place)
      BY <1>5, <2>2, GoStep DEF IInv
    <2>4. stored[Message(r)] > 0 /\ (place = "reset" /\ apart = 0 => awaiting')
      BY <1>1, <2>1 DEF IInv, StoredInv, AskedInv
    <2>. QED BY <1>1, <1>2, <1>5, <2>1, <2>2, <2>3, <2>4, Onwards
  <1>. QED BY <1>3, <1>4, <1>5 DEF Respond

LEMMA StopStep ==
  ASSUME IInv, NEW r \in Runs, Stop(r)
  PROVE  IInv'
  <1>1. /\ at[r] \in Answering /\ at[r] # "idle" /\ node' = "none"
        /\ UNCHANGED <<message, apart, faults, stored, awaiting>>
    BY DEF Stop, Answering
  <1>2. /\ node' \in Nodes /\ awaiting' \in BOOLEAN
        /\ faults' \in Nat /\ apart + faults' <= MaxFaults
    BY <1>1 DEF IInv, TypeOK, Nodes
  <1>3. CASE Go(r, "idle") /\ Returns(r)
    BY <1>1, <1>2, <1>3, Ends
  <1>4. CASE Throws(r)
    BY <1>1, <1>2, <1>4, ThrowsKeeps
  <1>. QED BY <1>3, <1>4 DEF Stop

\* The reply to a node is taken, and what follows.
LEMMA ResetStep ==
  ASSUME IInv, NEW r \in Runs, Reset(r) \/ Proceed(r)
  PROVE  IInv'
  <1>1. /\ at[r] \in Answering /\ at[r] # "idle" /\ stored[Message(r)] > 0
        /\ UNCHANGED <<message, apart, faults, stored>>
    BY DEF IInv, StoredInv, Reset, Proceed, Answering, OnlyRun, queueVars
  <1>2. /\ node' \in Nodes /\ awaiting' \in BOOLEAN /\ (node' = "asked" => awaiting')
        /\ faults' \in Nat /\ apart + faults' <= MaxFaults
    BY <1>1 DEF IInv, TypeOK, AskedInv, Reset, Proceed, Nodes
  <1>3. CASE Go(r, "idle") /\ Returns(r)
    BY <1>1, <1>2, <1>3, Ends
  <1>4. ASSUME NEW place \in {"next", "reply"}, Go(r, place),
               UNCHANGED <<job, retries, worker>>
        PROVE  IInv'
    <2>1. place \in Places \ {"idle"} /\ place \notin Deciding /\ place # "reset"
          /\ place # "create"
      BY DEF Places, Deciding
    <2>2. Moves(r, place)
      BY <1>4, <2>1, GoStep DEF IInv
    <2>. QED BY <1>1, <1>2, <1>4, <2>1, <2>2, Onwards
  <1>. QED BY <1>3, <1>4 DEF Reset, Proceed, OnlyRun, queueVars

LEMMA ReplyStep ==
  ASSUME IInv, NEW r \in Runs, Reply(r)
  PROVE  IInv'
  <1>1. /\ at[r] \in Answering /\ UNCHANGED <<message, apart, faults, stored>>
        /\ Go(r, "idle") /\ Returns(r)
    BY DEF Reply, Answering
  <1>2. /\ node' \in Nodes /\ awaiting' \in BOOLEAN /\ (node' = "asked" => awaiting')
        /\ faults' \in Nat /\ apart + faults' <= MaxFaults
    <2>1. node' \in Nodes /\ faults' \in Nat /\ apart + faults' <= MaxFaults
      BY <1>1 DEF IInv, TypeOK, Reply, Nodes
    <2>2. CASE node' = "asked" /\ awaiting' = TRUE
      BY <2>1, <2>2
    <2>3. CASE node' = "stop" /\ UNCHANGED awaiting
      BY <2>1, <2>3 DEF IInv, TypeOK
    <2>4. CASE UNCHANGED <<node, awaiting>>
      BY <2>1, <2>4 DEF IInv, TypeOK, AskedInv
    <2>. QED BY <2>2, <2>3, <2>4 DEF Reply
  <1>. QED BY <1>1, <1>2, Ends

-----------------------------------------------------------------------------
LEMMA Inductive == IInv /\ [Next]_vars => IInv'
<1> SUFFICES ASSUME IInv, [Next]_vars PROVE IInv'
  OBVIOUS
<1>1. CASE UNCHANGED vars
  <2>1. JobsKeep({})
    BY <1>1, SameJobs DEF IInv, vars, queueVars
  <2>2. UNCHANGED <<message, worker, at, seen, stored, apart, faults, node, awaiting>>
    BY <1>1 DEF vars, queueVars, runVars, caseVars
  <2>3. node' \in Nodes /\ awaiting' \in BOOLEAN /\ (node' = "asked" => awaiting')
    BY <2>2 DEF IInv, TypeOK, AskedInv
  <2>. QED BY <2>1, <2>2, <2>3, StillKeeps
<1>2. ASSUME NEW j \in Jobs, NEW m \in Messages, Deliver(j, m) \/ DeliverItself(j, m)
      PROVE  IInv'
  BY <1>2, DeliverStep, DeliverItselfStep
<1>3. ASSUME NEW j \in Jobs, Start(j) \/ BatchCompletes(j) \/ BatchFails(j) \/ Expire(j)
      PROVE  IInv'
  BY <1>3, StartStep, QueueStep
<1>4. ASSUME NEW r \in Runs, TimesOut(r) \/ Fault(r)
      PROVE  IInv'
  BY <1>4, TimesOutStep, FaultStep
<1>5. ASSUME NEW r \in Runs, Process(r)
      PROVE  IInv'
  BY <1>5, ManageStep, HiStep, RereadStep, FindMediaStep, CreateRowStep,
     RespondStep, StopStep, ResetStep, ReplyStep DEF Process
<1>6. CASE Crash \/ SendList \/ Solve
  BY <1>6, CrashStep, AgentStep
<1>. QED BY <1>1, <1>2, <1>3, <1>4, <1>5, <1>6 DEF Next

LEMMA Invariance == Spec => []IInv
<1>1. Init => IInv
  BY InitIInv
<1>2. IInv /\ [Next]_vars => IInv'
  BY Inductive
<1>. QED BY <1>1, <1>2, PTL DEF Spec

\* Types; in particular a job that exists carries a message, and no job is
\* retried more often than its limit.
THEOREM TypeCorrect == Spec => []TypeOK
<1>1. IInv => TypeOK
  BY DEF IInv
<1>. QED BY <1>1, Invariance, PTL

\* A job is not completed before its message is in the database.
THEOREM CompletedJobsAreStored == Spec => []CompletedWasStored
<1>1. IInv => CompletedWasStored
  BY DEF IInv
<1>. QED BY <1>1, Invariance, PTL

\* Until a run is left alone, media is stored at most once.
THEOREM MediaIsStoredOnce == Spec => []MediaStoredOnce
<1>1. IInv => MediaStoredOnce
  BY DEF IInv
<1>. QED BY <1>1, Invariance, PTL

\* Until a run is left alone, a node of the bot takes at most one reply.
THEOREM RepliesAreTakenOnce == Spec => []RepliesTakenOnce
<1>1. IInv => RepliesTakenOnce
  BY DEF IInv
<1>. QED BY <1>1, Invariance, PTL
=============================================================================
