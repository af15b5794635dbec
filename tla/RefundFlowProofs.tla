-------------------------- MODULE RefundFlowProofs --------------------------
(***************************************************************************)
(* Proofs about RefundFlow, for every set of runs and every bound.         *)
(***************************************************************************)
EXTENDS RefundFlow, TLAPS

USE RefundAssumption DEF RefundAssumption

-----------------------------------------------------------------------------
(* Types.  The locals of the runs and the flag of the flow are apart from the *)
(* numbers: each kind of value has its own lemma.                             *)

\* What a run holds when it begins and when it ends.
LEMMA LocalsType ==
  /\ NoLocals \in Locals
  /\ NoTemplate \in [going : BOOLEAN, active : BOOLEAN, tries : Nat]
  BY DEF NoLocals, Locals, Replies, NoTemplate

Templates == [going : BOOLEAN, active : BOOLEAN, tries : Nat]
HeldType == mine \in [Runs -> Locals] /\ template \in Templates
FlagType == active \in BOOLEAN
MarkType == refused \in Nat /\ thrown \in Nat /\ behind \subseteq Writers /\ stale \in BOOLEAN
CountType ==
  /\ node \in Nodes /\ tries \in Nat /\ handler \in Handlers
  /\ at \in [Runs -> Places]
  /\ messages \in 0..MaxMessages /\ faults \in 0..MaxFaults
  /\ apart \in 0..MaxApart

LEMMA TypeParts == TypeOK <=> HeldType /\ FlagType /\ MarkType /\ CountType
  BY DEF TypeOK, HeldType, FlagType, MarkType, CountType, Templates

\* A run may store a flag and numbers in its locals.
LEMMA LocalsWrite ==
  ASSUME NEW m \in Locals, NEW a \in BOOLEAN, NEW n \in Nat, NEW b \in BOOLEAN, NEW k \in Nat
  PROVE  /\ [m EXCEPT !.active = a, !.tries = n] \in Locals
         /\ [m EXCEPT !.active = a, !.tries = n, !.inTry = b, !.again = k] \in Locals
         /\ [m EXCEPT !.reply = "screenshot5", !.again = k] \in Locals
  BY DEF Locals, Replies

LEMMA HeldKept ==
  ASSUME HeldType, mine' \in [Runs -> Locals], template' = template
  PROVE  HeldType'
  BY DEF HeldType

LEMMA HeldStep ==
  ASSUME HeldType, FlagType, tries \in Nat, [Next]_vars
  PROVE  HeldType'
<1> DEFINE next == tries + 1
           zero == 0
<1>0. next \in Nat /\ zero \in Nat
  OBVIOUS
<1> HIDE DEF next, zero
<1>1. ASSUME NEW r \in Runs, Orderless(r) PROVE HeldType'
  <2> DEFINE m == [mine[r] EXCEPT !.reply = "screenshot5", !.again = next]
  <2> HIDE DEF m
  <2>1. m \in Locals /\ NoLocals \in Locals
    BY <1>0, LocalsWrite, LocalsType DEF HeldType, FlagType, m
  <2>2. \/ mine' = [mine EXCEPT ![r].reply = "screenshot5", ![r].again = next]
        \/ mine' = [mine EXCEPT ![r] = NoLocals]
    BY <1>1 DEF Orderless, next, Ends, Go
  <2>3. [mine EXCEPT ![r].reply = "screenshot5", ![r].again = next] = [mine EXCEPT ![r] = m]
    BY DEF m
  <2>4. [mine EXCEPT ![r] = m] \in [Runs -> Locals] /\ [mine EXCEPT ![r] = NoLocals] \in [Runs -> Locals]
    BY <2>1 DEF HeldType
  <2>5. template' = template
    BY <1>1 DEF Orderless, Go, Ends
  <2>6. mine' \in [Runs -> Locals]
    BY <2>2, <2>3, <2>4
  <2>. QED
    BY <2>5, <2>6, HeldKept
<1>2. ASSUME NEW r \in Runs, Retry(r) PROVE HeldType'
  <2> DEFINE m == [mine[r] EXCEPT !.active = active, !.tries = next]
  <2> HIDE DEF m
  <2>1. m \in Locals
    BY <1>0, LocalsWrite DEF HeldType, FlagType, m
  <2>2. mine' = [mine EXCEPT ![r].active = active, ![r].tries = next] /\ template' = template
    BY <1>2 DEF Retry, next, Go
  <2>3. [mine EXCEPT ![r].active = active, ![r].tries = next] = [mine EXCEPT ![r] = m]
    BY DEF m
  <2>4. mine' = [mine EXCEPT ![r] = m] /\ template' = template
    BY <2>2, <2>3
  <2>5. mine' \in [Runs -> Locals]
    BY <2>1, <2>4 DEF HeldType
  <2>. QED
    BY <2>4, <2>5, HeldKept
<1>3. ASSUME NEW r \in Runs, Catch(r) PROVE HeldType'
  <2> DEFINE m == [mine[r] EXCEPT !.active = active, !.tries = next, !.inTry = FALSE, !.again = zero]
  <2> HIDE DEF m
  <2>1. m \in Locals
    BY <1>0, LocalsWrite DEF HeldType, FlagType, m
  <2>2. /\ mine' = [mine EXCEPT ![r].active = active, ![r].tries = next,
                                ![r].inTry = FALSE, ![r].again = zero]
        /\ template' = template
    BY <1>3 DEF Catch, next, zero, Go
  <2>3. [mine EXCEPT ![r].active = active, ![r].tries = next, ![r].inTry = FALSE, ![r].again = zero]
        = [mine EXCEPT ![r] = m]
    BY DEF m
  <2>4. mine' = [mine EXCEPT ![r] = m] /\ template' = template
    BY <2>2, <2>3
  <2>5. mine' \in [Runs -> Locals]
    BY <2>1, <2>4 DEF HeldType
  <2>. QED
    BY <2>4, <2>5, HeldKept
<1> USE DEF HeldType, FlagType, Templates, Locals, Replies, Go, Ends, Keeps
<1>4. ASSUME NEW r \in Runs, NEW image \in BOOLEAN, Take(r, image) PROVE HeldType'
  <2>1. [NoLocals EXCEPT !.active = active, !.tries = tries, !.image = image] \in Locals
    BY DEF NoLocals
  <2>. QED
    BY <1>4, <2>1 DEF Take
<1>5. ASSUME NEW r \in Runs, Clear(r) PROVE HeldType'
  <2>1. template' = template
    BY <1>5 DEF Clear
  <2>2. mine' \in [Runs -> Locals]
    BY <1>5 DEF Clear
  <2>. QED
    BY <2>1, <2>2
<1>6. ASSUME NEW r \in Runs, Caught(r) PROVE HeldType'
  BY <1>6 DEF Caught
<1>7. CASE ReadMeta
  <2>1. template' \in Templates
    BY <1>7 DEF ReadMeta
  <2>. QED
    BY <1>7, <2>1 DEF ReadMeta
<1>8. CASE WriteMeta
  BY <1>8, LocalsType DEF WriteMeta
<1>9. ASSUME NEW r \in Runs, mine' = mine \/ mine' = [mine EXCEPT ![r] = NoLocals], template' = template
      PROVE  HeldType'
  BY <1>9, LocalsType
<1>10. CASE mine' = mine /\ template' = template
  BY <1>10
<1>11. ASSUME NEW r \in Runs, Run(r)
       PROVE  \/ \E image \in BOOLEAN : Take(r, image)
              \/ Clear(r) \/ Orderless(r) \/ Retry(r) \/ Catch(r) \/ Caught(r)
              \/ (mine' = mine \/ mine' = [mine EXCEPT ![r] = NoLocals]) /\ template' = template
  BY <1>11 DEF Run, HandOver, Reset, Start, Examine, OwnPayment, ClearMeta, Lookup, Canceled,
     Overwrite, Status, Report, Send, GiveUp, Count, Returns, Fault, Mute
<1>12. CASE \E r \in Runs : Run(r)
  <2>1. PICK r \in Runs : Run(r)
    BY <1>12
  <2>. QED
    BY <2>1, <1>1, <1>2, <1>3, <1>4, <1>5, <1>6, <1>9, <1>11
<1>13. CASE Ask \/ Solve \/ AgentTakes \/ Reopen \/ UNCHANGED vars
  BY <1>10, <1>13 DEF Ask, Solve, AgentTakes, Reopen, vars
<1>. QED
  BY <1>7, <1>8, <1>12, <1>13 DEF Next

LEMMA FlagStep ==
  ASSUME HeldType, FlagType, [Next]_vars
  PROVE  FlagType'
<1> USE DEF HeldType, FlagType, Templates, caseVars, Go, Ends, Keeps, KeepMeta, ResetMeta
<1>1. ASSUME NEW r \in Runs, Run(r) PROVE FlagType'
  <2>1. \/ active' = active \/ active' = FALSE \/ active' = TRUE
        \/ active' = mine[r].active
    BY <1>1 DEF Run, Take, Clear, Orderless, Retry, Catch, Caught, HandOver, Reset, Start, Examine,
       OwnPayment, ClearMeta, Lookup, Canceled, Overwrite, Status, Report, Send, GiveUp, Count,
       Returns, Fault, Mute
  <2>2. mine[r].active \in BOOLEAN
    BY DEF Locals
  <2>. QED
    BY <2>1, <2>2
<1>2. CASE WriteMeta
  BY <1>2 DEF WriteMeta
<1>3. CASE Ask \/ Solve \/ AgentTakes \/ Reopen \/ ReadMeta \/ UNCHANGED vars
  BY <1>3 DEF Ask, Solve, AgentTakes, Reopen, ReadMeta, vars
<1>. QED
  BY <1>1, <1>2, <1>3 DEF Next

\* The numbers that a run or an agent holds.
LEMMA HeldNumbers ==
  ASSUME HeldType
  PROVE  /\ \A r \in Runs : mine[r] \in Locals /\ mine[r].tries \in Nat /\ mine[r].again \in Nat
         /\ template.tries \in Nat
  BY DEF HeldType, Templates, Locals

\* What Case.meta counts as tries after a step.
LEMMA TriesType ==
  ASSUME HeldType, tries \in Nat, [Next]_vars
  PROVE  tries' \in Nat
<1>1. ASSUME NEW r \in Runs, Run(r) PROVE tries' \in Nat
  <2>1. tries' = tries \/ tries' = 0 \/ tries' = mine[r].tries \/ tries' = mine[r].again
    BY <1>1 DEF caseVars, Go, KeepMeta, ResetMeta,
       Run, Take, Clear, Orderless, Retry, Catch, Caught, HandOver, Reset, Start, Examine,
       OwnPayment, ClearMeta, Lookup, Canceled, Overwrite, Status, Report, Send, GiveUp, Count,
       Returns, Fault, Mute
  <2>. QED
    BY <2>1, HeldNumbers
<1>2. CASE WriteMeta
  BY <1>2, HeldNumbers DEF WriteMeta
<1>3. CASE Ask \/ Solve \/ AgentTakes \/ Reopen \/ ReadMeta \/ UNCHANGED vars
  <2>1. tries' = tries \/ tries' = 0
    BY <1>3 DEF Ask, Solve, AgentTakes, Reopen, ReadMeta, vars, caseVars, ResetMeta
  <2>. QED
    BY <2>1
<1>. QED
  BY <1>1, <1>2, <1>3 DEF Next

\* What a step by w, if it resets nothing, does to what is recorded.
Marks(w) ==
  /\ refused' \in {refused, refused + 1} /\ thrown' \in {thrown, thrown + 1}
  /\ behind' \in {behind, behind \ {w}}
  /\ \/ stale' = stale
     \/ stale' = (stale \/ w \in behind)

LEMMA RunMarks ==
  ASSUME at \in [Runs -> Places], NEW r \in Runs, Run(r)
  PROVE  \/ NewRow /\ tries' = 0 /\ at'[r] \notin {"send", "count", "giveUp"}
         \/ Marks(r)
<1> USE DEF Marks, NotRecorded, history, Written, ResetMeta
<1>1. CASE Start(r) \/ ClearMeta(r) \/ Canceled(r) \/ Report(r) \/ GiveUp(r)
  BY <1>1 DEF Start, ClearMeta, Canceled, Report, GiveUp, Go, Returns
<1>2. CASE Orderless(r) \/ Retry(r) \/ Catch(r)
  BY <1>2 DEF Orderless, Retry, Catch
<1>3. CASE Overwrite(r) \/ Count(r) \/ Caught(r)
  BY <1>3 DEF Overwrite, Count, Caught
<1>4. CASE UNCHANGED history
  BY <1>4
<1>5. \/ UNCHANGED history
      \/ Start(r) \/ ClearMeta(r) \/ Canceled(r) \/ Report(r) \/ GiveUp(r)
      \/ Orderless(r) \/ Retry(r) \/ Catch(r) \/ Overwrite(r) \/ Count(r) \/ Caught(r)
  BY DEF Run, Take, Clear, HandOver, Reset, OwnPayment, Lookup, Status, Send, Fault, Mute, Examine
<1>. QED
  BY <1>1, <1>2, <1>3, <1>4, <1>5

LEMMA StepMarks ==
  ASSUME at \in [Runs -> Places], [Next]_vars
  PROVE  (NewRow /\ tries' = 0) \/ \E w \in Writers : Marks(w)
<1> USE DEF Marks, history, Written, Writers, ResetMeta
<1>1. CASE \E r \in Runs : Run(r)
  BY <1>1, RunMarks
<1>2. CASE Solve
  BY <1>2 DEF Solve
<1>3. CASE ReadMeta
  BY <1>3 DEF ReadMeta
<1>4. CASE WriteMeta
  BY <1>4 DEF WriteMeta
<1>5. CASE Ask \/ AgentTakes \/ Reopen \/ UNCHANGED vars
  BY <1>5 DEF Ask, AgentTakes, Reopen, vars
<1>. QED
  BY <1>1, <1>2, <1>3, <1>4, <1>5 DEF Next

LEMMA MarkStep ==
  ASSUME MarkType, at \in [Runs -> Places], [Next]_vars
  PROVE  MarkType'
<1>1. CASE NewRow
  BY <1>1 DEF NewRow, MarkType, Writers
<1>2. ASSUME NEW w \in Writers, Marks(w) PROVE MarkType'
  <2>1. refused' \in Nat /\ thrown' \in Nat
    <3>1. refused \in Nat /\ thrown \in Nat
      BY DEF MarkType
    <3>2. (refused' = refused \/ refused' = refused + 1) /\ (thrown' = thrown \/ thrown' = thrown + 1)
      BY <1>2 DEF Marks
    <3>. QED
      BY <3>1, <3>2
  <2>2. behind' \subseteq Writers
    BY <1>2 DEF Marks, MarkType
  <2>3. stale' \in BOOLEAN
    BY <1>2 DEF Marks, MarkType
  <2>. QED
    BY <2>1, <2>2, <2>3 DEF MarkType
<1>. QED
  BY <1>1, <1>2, StepMarks

\* A run goes to one of the places, and the other runs stay where they are.
LEMMA WhereTo ==
  ASSUME at \in [Runs -> Places], NEW r \in Runs, Run(r)
  PROVE  at' \in [Runs -> Places] /\ \A s \in Runs \ {r} : at'[s] = at[s]
<1> USE DEF Go, Places, Returns
<1>1. CASE \E image \in BOOLEAN : Take(r, image)
  BY <1>1 DEF Take
<1>2. CASE Fault(r)
  BY <1>2 DEF Fault
<1>3. CASE Mute(r)
  BY <1>3 DEF Mute
<1>4. CASE HandOver(r) \/ Reset(r) \/ Start(r) \/ Clear(r) \/ Examine(r)
  BY <1>4 DEF HandOver, Reset, Start, Clear, Examine
<1>5. CASE OwnPayment(r) \/ ClearMeta(r) \/ Lookup(r) \/ Canceled(r)
  BY <1>5 DEF OwnPayment, ClearMeta, Lookup, Canceled
<1>6. CASE Orderless(r) \/ Overwrite(r) \/ Status(r) \/ Report(r)
  BY <1>6 DEF Orderless, Overwrite, Status, Report
<1>7. CASE Retry(r) \/ Send(r) \/ GiveUp(r) \/ Count(r) \/ Catch(r) \/ Caught(r)
  BY <1>7 DEF Retry, Send, GiveUp, Count, Catch, Caught
<1>. QED
  BY <1>1, <1>2, <1>3, <1>4, <1>5, <1>6, <1>7 DEF Run

\* The bounds are kept.
LEMMA BoundsStep ==
  ASSUME messages \in 0..MaxMessages, faults \in 0..MaxFaults, apart \in 0..MaxApart, [Next]_vars
  PROVE  messages' \in 0..MaxMessages /\ faults' \in faults..MaxFaults /\ apart' \in apart..MaxApart
<1> DEFINE Goal == /\ messages' \in 0..MaxMessages
                   /\ faults' \in faults..MaxFaults /\ apart' \in apart..MaxApart
<1>1. ASSUME NEW r \in Runs, NEW image, Take(r, image) PROVE Goal
  <2>1. messages < MaxMessages /\ messages' = messages + 1 /\ faults' = faults /\ Beside(Busy)
    BY <1>1 DEF Take
  <2>. QED
    BY <2>1 DEF Beside
<1>2. ASSUME NEW r \in Runs, Fault(r) \/ Mute(r) PROVE Goal
  <2>1. faults < MaxFaults /\ faults' = faults + 1 /\ UNCHANGED <<messages, apart>>
    BY <1>2 DEF Fault, Mute
  <2>. QED
    BY <2>1
<1>3. CASE UNCHANGED <<messages, faults, apart>>
  BY <1>3
<1>4. ASSUME NEW r \in Runs, Run(r)
      PROVE  \/ \E image \in BOOLEAN : Take(r, image)
             \/ Fault(r) \/ Mute(r) \/ UNCHANGED <<messages, faults, apart>>
  BY <1>4 DEF Run, Clear, Orderless, Retry, Catch, Caught, HandOver, Reset, Start, Examine,
     OwnPayment, ClearMeta, Lookup, Canceled, Overwrite, Status, Report, Send, GiveUp, Count,
     Go, Returns
<1>5. CASE Solve \/ ReadMeta \/ WriteMeta
  <2>1. UNCHANGED <<messages, faults>>
    BY <1>5 DEF Solve, ReadMeta, WriteMeta
  <2>2. apart' \in apart..MaxApart
    <3>1. CASE Solve \/ ReadMeta
      <4>1. Beside(Busy)
        BY <3>1 DEF Solve, ReadMeta
      <4>. QED
        BY <4>1 DEF Beside
    <3>2. CASE WriteMeta
      <4> DEFINE busy == \E r \in Runs : at[r] # "idle"
      <4>1. Beside(busy)
        BY <3>2 DEF WriteMeta
      <4> HIDE DEF busy
      <4>. QED
        BY <4>1 DEF Beside
    <3>. QED
      BY <1>5, <3>1, <3>2
  <2>. QED
    BY <2>1, <2>2
<1>6. CASE Ask \/ AgentTakes \/ Reopen \/ UNCHANGED vars
  <2>1. UNCHANGED <<messages, faults, apart>>
    BY <1>6 DEF Ask, AgentTakes, Reopen, vars
  <2>. QED
    BY <2>1, <1>3
<1>. QED
  BY <1>1, <1>2, <1>3, <1>4, <1>5, <1>6 DEF Next

LEMMA CountStep ==
  ASSUME HeldType, CountType, [Next]_vars
  PROVE  CountType'
<1> USE DEF CountType
<1>1. node' \in Nodes /\ handler' \in Handlers
  <2>1. ASSUME NEW r \in Runs, Run(r)
        PROVE  /\ node' \in {node, "none", "shot", "stop", "other"}
               /\ handler' \in {handler, "BOT", "USER"}
    BY <2>1 DEF Run, Take, Clear, Orderless, Retry, Catch, Caught, HandOver, Reset, Start, Examine,
       OwnPayment, ClearMeta, Lookup, Canceled, Overwrite, Status, Report, Send, GiveUp, Count,
       Fault, Mute, caseVars
  <2>2. CASE Ask \/ Solve \/ AgentTakes \/ Reopen \/ ReadMeta \/ WriteMeta \/ UNCHANGED vars
    BY <2>2 DEF Ask, Solve, AgentTakes, Reopen, ReadMeta, WriteMeta, vars, caseVars, Nodes, Handlers
  <2>. QED
    BY <2>1, <2>2 DEF Nodes, Handlers, Next
<1>2. at' \in [Runs -> Places]
  <2>1. CASE \E r \in Runs : Run(r)
    BY <2>1, WhereTo
  <2>2. CASE ~\E r \in Runs : Run(r)
    BY <2>2 DEF Next, Ask, Solve, AgentTakes, Reopen, ReadMeta, WriteMeta, vars
  <2>. QED
    BY <2>1, <2>2
<1>3. messages' \in 0..MaxMessages /\ faults' \in 0..MaxFaults /\ apart' \in 0..MaxApart
  BY BoundsStep
<1>. QED
  BY <1>1, <1>2, <1>3, TriesType

LEMMA TypeStep == TypeOK /\ [Next]_vars => TypeOK'
<1> SUFFICES ASSUME TypeOK, [Next]_vars PROVE TypeOK'
  OBVIOUS
<1>1. HeldType /\ FlagType /\ MarkType /\ CountType
  BY TypeParts
<1>2. tries \in Nat
  BY <1>1 DEF CountType
<1>3. HeldType' /\ FlagType' /\ MarkType' /\ CountType'
  BY <1>1, <1>2, HeldStep, FlagStep, MarkStep, CountStep DEF CountType
<1>. QED
  BY <1>3 DEF TypeOK, HeldType, FlagType, MarkType, CountType, Templates

LEMMA InitTypeOK == Init => TypeOK
<1> SUFFICES ASSUME Init PROVE TypeOK
  OBVIOUS
<1>1. HeldType
  BY LocalsType DEF Init, HeldType, Templates
<1>2. FlagType /\ MarkType
  BY DEF Init, FlagType, MarkType
<1>3. /\ node \in Nodes /\ tries \in Nat /\ handler \in Handlers
      /\ at \in [Runs -> Places]
      /\ messages \in 0..MaxMessages /\ faults \in 0..MaxFaults
      /\ apart \in 0..MaxApart
  <2>1. tries = 0 /\ messages = 0 /\ faults = 0 /\ apart = 0
    BY DEF Init
  <2>2. node \in Nodes /\ handler \in Handlers
    BY DEF Init, Nodes, Handlers
  <2>3. at \in [Runs -> Places]
    BY DEF Init, Places
  <2>. QED
    BY <2>1, <2>2, <2>3
<1>. QED
  BY <1>1, <1>2, <1>3, TypeParts DEF CountType

\* Case.meta and the locals of every run keep their types.
THEOREM RefundTypes == Spec => []TypeOK
  BY InitTypeOK, TypeStep, PTL DEF Spec

-----------------------------------------------------------------------------
(* What a step does to the places and numbers of a run *)

\* What the other runs hold stays.
LEMMA OthersKeep ==
  ASSUME HeldType, NEW r \in Runs, Run(r)
  PROVE  template' = template /\ \A s \in Runs \ {r} : mine'[s] = mine[s]
<1> USE DEF HeldType, Go, Returns, Ends, Keeps
<1>1. CASE \E image \in BOOLEAN : Take(r, image)
  BY <1>1 DEF Take
<1>2. CASE Fault(r) \/ Mute(r)
  BY <1>2 DEF Fault, Mute
<1>3. CASE HandOver(r) \/ Reset(r) \/ Start(r) \/ Clear(r) \/ Examine(r)
  BY <1>3 DEF HandOver, Reset, Start, Clear, Examine
<1>4. CASE OwnPayment(r) \/ ClearMeta(r) \/ Lookup(r) \/ Canceled(r)
  BY <1>4 DEF OwnPayment, ClearMeta, Lookup, Canceled
<1>5. CASE Orderless(r) \/ Overwrite(r) \/ Status(r) \/ Report(r)
  BY <1>5 DEF Orderless, Overwrite, Status, Report
<1>6. CASE Retry(r) \/ Send(r) \/ GiveUp(r) \/ Count(r) \/ Catch(r) \/ Caught(r)
  BY <1>6 DEF Retry, Send, GiveUp, Count, Catch, Caught
<1>. QED
  BY <1>1, <1>2, <1>3, <1>4, <1>5, <1>6 DEF Run

\* The numbers a run holds, or none.
SameHeld(r) == mine'[r] = mine[r]
NoneHeld(r) == mine'[r].tries = 0 /\ mine'[r].again = 0
MovesType == HeldType /\ at \in [Runs -> Places]

LEMMA EndsHeld ==
  ASSUME HeldType, NEW r \in Runs, Ends(r)
  PROVE  NoneHeld(r)
  BY DEF HeldType, Ends, NoLocals, NoneHeld

LEMMA KeepsHeld ==
  ASSUME NEW r \in Runs, Keeps(r)
  PROVE  SameHeld(r)
  BY DEF Keeps, SameHeld

LEMMA TakeMoves ==
  ASSUME MovesType, NEW r \in Runs, NEW image, Take(r, image)
  PROVE  /\ at[r] = "idle" /\ at'[r] \in {"reset", "handOver"}
         /\ mine'[r].again = 0
         /\ UNCHANGED <<tries, history, faults>> /\ Beside(Busy)
  BY DEF MovesType, HeldType, Take, NoLocals, caseVars

LEMMA StartMoves ==
  ASSUME MovesType, NEW r \in Runs, Start(r)
  PROVE  /\ at[r] = "start" /\ NoneHeld(r) /\ at'[r] \in {"clear", "retry"}
         /\ \/ UNCHANGED <<tries, history>>
            \/ tries' = 0 /\ NewRow
         /\ UNCHANGED <<faults, apart>>
<1>1. NoneHeld(r)
  BY EndsHeld DEF Start, MovesType
<1>. QED
  BY <1>1 DEF MovesType, Start, Go, KeepMeta, NotRecorded

LEMMA ExamineMoves ==
  ASSUME MovesType, NEW r \in Runs, Examine(r)
  PROVE  /\ at[r] = "examine" /\ UNCHANGED <<tries, history, faults, apart>>
         /\ \/ at'[r] \in {"own", "lookup", "retry"} /\ SameHeld(r)
            \/ at'[r] = "idle" /\ NoneHeld(r)
  BY EndsHeld, KeepsHeld DEF MovesType, Examine, Go, KeepMeta, NotRecorded

LEMMA OrderlessMoves ==
  ASSUME MovesType, NEW r \in Runs, Orderless(r)
  PROVE  /\ at[r] = "orderless" /\ UNCHANGED <<tries, refused, thrown, stale, faults, apart>>
         /\ \/ at'[r] = "idle" /\ NoneHeld(r) /\ behind' = behind
            \/ at'[r] = "retry" /\ mine'[r].again = tries + 1 /\ behind' = behind \ {r}
<1>1. UNCHANGED <<tries, refused, thrown, stale>>
  BY DEF Orderless, KeepMeta
<1>2. CASE Go(r, "orderless", "idle") /\ Ends(r) /\ UNCHANGED behind
  BY <1>1, <1>2, EndsHeld DEF MovesType, Go
<1>3. CASE /\ Go(r, "orderless", "retry") /\ behind' = behind \ {r}
           /\ mine' = [mine EXCEPT ![r].reply = "screenshot5", ![r].again = tries + 1]
  BY <1>1, <1>3 DEF MovesType, HeldType, Locals, Go
<1>. QED
  BY <1>2, <1>3 DEF Orderless

LEMMA OverwriteMoves ==
  ASSUME MovesType, NEW r \in Runs, Overwrite(r)
  PROVE  /\ at[r] = "overwrite" /\ at'[r] = "idle" /\ NoneHeld(r)
         /\ tries' = mine[r].again /\ Written(r) /\ UNCHANGED <<faults, apart>>
  BY EndsHeld DEF MovesType, Overwrite, Go

\* The flow is reset, and the run ends.
LEMMA ResetMoves ==
  ASSUME MovesType, NEW r \in Runs, ClearMeta(r) \/ Canceled(r) \/ Report(r)
  PROVE  /\ at[r] \in {"clearMeta", "canceled", "report"} /\ at'[r] = "idle" /\ NoneHeld(r)
         /\ tries' = 0 /\ NewRow /\ UNCHANGED <<faults, apart>>
  BY EndsHeld DEF MovesType, ClearMeta, Canceled, Report, Go, ResetMeta

LEMMA RetryMoves ==
  ASSUME MovesType, NEW r \in Runs, Retry(r)
  PROVE  /\ at[r] = "retry" /\ at'[r] = "send"
         /\ mine'[r].tries = tries + 1 /\ mine'[r].again = mine[r].again
         /\ refused' = refused + 1 /\ UNCHANGED <<tries, thrown, stale, faults, apart>>
         /\ behind' = IF mine[r].again = 0 THEN behind \ {r} ELSE behind
  BY DEF MovesType, HeldType, Locals, Retry, Go, KeepMeta

LEMMA SendMoves ==
  ASSUME MovesType, NEW r \in Runs, Send(r)
  PROVE  /\ at[r] = "send" /\ at'[r] = IF GivesUp(r) THEN "giveUp" ELSE "count"
         /\ SameHeld(r) /\ UNCHANGED <<tries, history, faults, apart>>
  BY KeepsHeld DEF MovesType, Send, Go, KeepMeta, NotRecorded

LEMMA GiveUpMoves ==
  ASSUME MovesType, NEW r \in Runs, GiveUp(r)
  PROVE  /\ at[r] = "giveUp" /\ tries' = 0 /\ NewRow /\ UNCHANGED <<faults, apart>>
         /\ \/ mine[r].again = 0 /\ at'[r] = "idle" /\ NoneHeld(r)
            \/ mine[r].again > 0 /\ at'[r] = "overwrite" /\ SameHeld(r)
  BY EndsHeld, KeepsHeld DEF MovesType, GiveUp, Returns, Go, ResetMeta

LEMMA CountMoves ==
  ASSUME MovesType, NEW r \in Runs, Count(r)
  PROVE  /\ at[r] = "count" /\ tries' = mine[r].tries /\ Written(r) /\ UNCHANGED <<faults, apart>>
         /\ \/ mine[r].again = 0 /\ at'[r] = "idle" /\ NoneHeld(r)
            \/ mine[r].again > 0 /\ at'[r] = "overwrite" /\ SameHeld(r)
  BY EndsHeld, KeepsHeld DEF MovesType, Count, Returns, Go

LEMMA FaultMoves ==
  ASSUME MovesType, NEW r \in Runs, Fault(r)
  PROVE  /\ at[r] # "idle" /\ UNCHANGED <<tries, history, apart>> /\ faults' = faults + 1
         /\ \/ at'[r] = "catch" /\ SameHeld(r)
            \/ at'[r] = "idle" /\ NoneHeld(r)
  BY EndsHeld, KeepsHeld DEF MovesType, Fault, caseVars

LEMMA MuteMoves ==
  ASSUME MovesType, NEW r \in Runs, Mute(r)
  PROVE  /\ UNCHANGED <<tries, history, apart>> /\ faults' = faults + 1
         /\ \/ at[r] = "own" /\ at'[r] = "clearMeta" /\ SameHeld(r)
            \/ at[r] = "send" /\ at'[r] = (IF GivesUp(r) THEN "giveUp" ELSE "count") /\ SameHeld(r)
            \/ at[r] = "lookup" /\ at'[r] = "canceled" /\ SameHeld(r)
            \/ at[r] \in {"lookup", "status"} /\ at'[r] = "idle" /\ NoneHeld(r)
  BY EndsHeld, KeepsHeld DEF MovesType, Mute, caseVars

LEMMA CatchMoves ==
  ASSUME MovesType, NEW r \in Runs, Catch(r)
  PROVE  /\ at[r] = "catch" /\ at'[r] = "caught"
         /\ mine'[r].tries = tries + 1 /\ mine'[r].again = 0
         /\ thrown' = thrown + 1 /\ behind' = behind \ {r}
         /\ UNCHANGED <<tries, refused, stale, faults, apart>>
  BY DEF MovesType, HeldType, Locals, Catch, Go, KeepMeta

LEMMA CaughtMoves ==
  ASSUME MovesType, NEW r \in Runs, Caught(r)
  PROVE  /\ at[r] = "caught" /\ at'[r] = "retry"
         /\ mine'[r].tries = mine[r].tries /\ mine'[r].again = mine[r].again
         /\ tries' = mine[r].tries /\ Written(r) /\ UNCHANGED <<faults, apart>>
  BY DEF MovesType, HeldType, Locals, Caught, Go

\* The other steps of a run count nothing.
QuietFrom == {"handOver", "reset", "clear", "own", "lookup", "status"}
QuietTo == {"idle", "start", "examine", "clearMeta", "catch", "canceled", "status", "orderless", "report"}
LEMMA QuietMoves ==
  ASSUME MovesType, NEW r \in Runs,
         HandOver(r) \/ Reset(r) \/ Clear(r) \/ OwnPayment(r) \/ Lookup(r) \/ Status(r)
  PROVE  /\ at[r] \in QuietFrom /\ at'[r] \in QuietTo
         /\ \/ NoneHeld(r)
            \/ SameHeld(r)
            \/ at[r] = "clear" /\ mine'[r].again = mine[r].again
         /\ UNCHANGED <<tries, history, faults, apart>>
<1> USE DEF MovesType, Go, KeepMeta, NotRecorded, QuietFrom, QuietTo
<1>1. CASE HandOver(r)
  BY <1>1, EndsHeld DEF HandOver
<1>2. CASE Reset(r) \/ OwnPayment(r)
  BY <1>2, KeepsHeld DEF Reset, OwnPayment
<1>3. CASE Clear(r)
  BY <1>3 DEF HeldType, Locals, Clear
<1>4. CASE Lookup(r)
  BY <1>4, EndsHeld, KeepsHeld DEF Lookup
<1>5. CASE Status(r)
  BY <1>5, EndsHeld, KeepsHeld DEF Status
<1>. QED
  BY <1>1, <1>2, <1>3, <1>4, <1>5

-----------------------------------------------------------------------------
(* Every try is a refusal or a throw, whatever is written over *)

Writing == {"send", "count", "giveUp"}

\* What a run has read since the reset, and is about to write.
HeldExplained(r) ==
  /\ mine[r].again <= refused + thrown + 1
  /\ at[r] \in Writing \cup {"overwrite"} => mine[r].again <= refused + thrown
  /\ at[r] \in Writing \cup {"caught"} => mine[r].tries <= refused + thrown

\* The reset ends what was recorded and puts every copy behind it, so that within a row
\* the number of refusals and throws only grows.
ExplainedInv ==
  ~stale =>
    /\ tries <= refused + thrown
    /\ \A r \in Runs \ behind : HeldExplained(r)
    /\ template.going /\ Agent \notin behind => template.tries <= refused + thrown

\* A new row explains everything.
LEMMA RowExplained ==
  ASSUME TypeOK', tries' = 0, NewRow
  PROVE  ExplainedInv'
<1>1. refused' = 0 /\ thrown' = 0 /\ Runs \ behind' = {} /\ Agent \in behind'
  BY DEF NewRow, Writers
<1>. QED
  BY <1>1 DEF ExplainedInv

\* What grows stays a bound.
LEMMA Grows ==
  /\ \A n, a, b, c, d \in Nat : n <= a + b /\ a + b <= c + d => n <= c + d
  /\ \A n, c, d \in Nat : n <= c => n <= c + d
  /\ \A n, c \in Nat : n <= 2 * c => n <= 2 * c + 1
  OBVIOUS

\* It is enough to look at the run that takes the step, as the sum only grows.
LEMMA RunExplained ==
  ASSUME TypeOK, TypeOK', ExplainedInv, NEW r \in Runs, Run(r), Marks(r),
         ~stale => /\ ~stale' => tries' <= refused' + thrown'
                   /\ ~stale' /\ r \notin behind' => HeldExplained(r)'
  PROVE  ExplainedInv'
<1>0. HeldType /\ at \in [Runs -> Places] /\ MarkType
  BY TypeParts DEF CountType
<1> SUFFICES ASSUME ~stale' PROVE /\ tries' <= refused' + thrown'
                                  /\ \A s \in Runs \ behind' : HeldExplained(s)'
                                  /\ template'.going /\ Agent \notin behind'
                                       => template'.tries <= refused' + thrown'
  BY DEF ExplainedInv
<1>1. ~stale
  BY DEF Marks
<1>2. /\ refused + thrown <= refused' + thrown'
      /\ refused \in Nat /\ thrown \in Nat /\ refused' \in Nat /\ thrown' \in Nat
  <2>1. refused \in Nat /\ thrown \in Nat
    BY <1>0 DEF MarkType
  <2>2. (refused' = refused \/ refused' = refused + 1) /\ (thrown' = thrown \/ thrown' = thrown + 1)
    BY DEF Marks
  <2>. QED
    BY <2>1, <2>2
<1>3. ASSUME NEW s \in Runs \ behind' PROVE HeldExplained(s)'
  <2>1. CASE s = r
    BY <1>1, <1>3, <2>1
  <2>2. CASE s # r
    <3>1. s \notin behind
      BY <2>2, <1>3 DEF Marks
    <3>2. mine'[s] = mine[s] /\ at'[s] = at[s]
      BY <1>0, <2>2, OthersKeep, WhereTo
    <3>3. HeldExplained(s)
      BY <1>1, <3>1 DEF ExplainedInv
    <3>4. mine[s].again \in Nat /\ mine[s].tries \in Nat
      BY <1>0, HeldNumbers
    <3>5. PICK m \in Nat, n \in Nat : m = refused + thrown /\ n = refused' + thrown' /\ m <= n
      <4>1. \A k, l \in Nat : k + l \in Nat
        OBVIOUS
      <4>2. refused + thrown \in Nat
        BY <1>2, <4>1
      <4>3. refused' + thrown' \in Nat
        BY <1>2, <4>1
      <4>. QED
        BY <1>2, <4>2, <4>3
    <3>6. /\ mine[s].again <= m + 1
          /\ at[s] \in Writing \cup {"overwrite"} => mine[s].again <= m
          /\ at[s] \in Writing \cup {"caught"} => mine[s].tries <= m
      BY <3>3, <3>5 DEF HeldExplained
    <3>7. /\ mine[s].again <= n + 1
          /\ at[s] \in Writing \cup {"overwrite"} => mine[s].again <= n
          /\ at[s] \in Writing \cup {"caught"} => mine[s].tries <= n
      <4>1. \A k \in Nat : (k <= m => k <= n) /\ (k <= m + 1 => k <= n + 1)
        BY <3>5
      <4>. QED
        BY <3>4, <3>6, <4>1
    <3>. QED
      BY <3>2, <3>5, <3>7 DEF HeldExplained
  <2>. QED
    BY <2>1, <2>2
<1>4. ASSUME template'.going, Agent \notin behind' PROVE template'.tries <= refused' + thrown'
  <2>1. template' = template
    BY <1>0, OthersKeep
  <2>2. Agent \notin behind
    BY <1>4 DEF Marks
  <2>3. template.tries <= refused + thrown /\ template.tries \in Nat
    BY <1>0, <1>1, <1>4, <2>1, <2>2, HeldNumbers DEF ExplainedInv
  <2>4. template.tries <= refused' + thrown'
    BY <1>2, <2>3, Grows
  <2>. QED
    BY <2>1, <2>4
<1>. QED
  BY <1>1, <1>3, <1>4

LEMMA ExplainedRun ==
  ASSUME TypeOK, TypeOK', ExplainedInv, NEW r \in Runs, Run(r)
  PROVE  ExplainedInv'
<1>1. MovesType /\ HeldType /\ MarkType /\ CountType
  BY TypeParts DEF MovesType, CountType
<1>2. CASE NewRow /\ tries' = 0
  BY <1>2, RowExplained
<1> DEFINE Goal == /\ ~stale' => tries' <= refused' + thrown'
                   /\ ~stale' /\ r \notin behind' => HeldExplained(r)'
<1>3. ASSUME Marks(r), ~stale PROVE Goal
  <2>1. /\ tries \in Nat /\ refused \in Nat /\ thrown \in Nat
        /\ mine[r].tries \in Nat /\ mine[r].again \in Nat
    BY <1>1, HeldNumbers DEF CountType, MarkType
  <2>2. /\ tries <= refused + thrown
        /\ r \notin behind => HeldExplained(r)
    BY <1>3 DEF ExplainedInv
  <2> USE DEF HeldExplained, Writing
  <2>3. ASSUME NEW image, Take(r, image) PROVE Goal
    <3>1. /\ at'[r] \in {"reset", "handOver"} /\ mine'[r].again = 0
          /\ UNCHANGED <<tries, refused, thrown>>
      BY <1>1, <2>3, TakeMoves DEF history
    <3>. QED
      BY <2>1, <2>2, <3>1
  <2>4. CASE Start(r) /\ UNCHANGED history
    <3>1. NoneHeld(r) /\ at'[r] \in {"clear", "retry"} /\ UNCHANGED <<refused, thrown>>
      BY <1>1, <2>4, StartMoves DEF history
    <3>2. tries' <= refused' + thrown'
      <4>1. tries' = tries \/ tries' = 0
        BY <1>1, <2>4, StartMoves
      <4>. QED
        BY <2>1, <2>2, <3>1, <4>1
    <3>. QED
      BY <2>1, <3>1, <3>2 DEF NoneHeld
  <2>5. CASE Examine(r)
    <3>1. /\ at'[r] \in {"own", "lookup", "retry", "idle"}
          /\ SameHeld(r) \/ NoneHeld(r)
          /\ UNCHANGED <<tries, refused, thrown, behind>>
      BY <1>1, <2>5, ExamineMoves DEF history
    <3>. QED
      BY <2>1, <2>2, <3>1 DEF SameHeld, NoneHeld
  <2>6. CASE Orderless(r)
    <3>1. /\ UNCHANGED <<tries, refused, thrown>>
          /\ at'[r] \in {"idle", "retry"}
          /\ mine'[r].again = 0 \/ mine'[r].again = tries + 1
      BY <1>1, <2>6, OrderlessMoves DEF NoneHeld
    <3>. QED
      BY <2>1, <2>2, <3>1
  <2>7. CASE Overwrite(r)
    <3>1. /\ at[r] = "overwrite" /\ at'[r] = "idle" /\ NoneHeld(r)
          /\ tries' = mine[r].again /\ Written(r)
      BY <1>1, <2>7, OverwriteMoves
    <3>2. /\ UNCHANGED <<refused, thrown>>
          /\ ~stale' => r \notin behind
      BY <3>1 DEF Written
    <3>. QED
      BY <2>1, <2>2, <3>1, <3>2 DEF NoneHeld
  <2>8. CASE Retry(r)
    <3>1. /\ at[r] = "retry" /\ at'[r] = "send" /\ refused' = refused + 1 /\ UNCHANGED <<tries, thrown>>
          /\ mine'[r].tries = tries + 1 /\ mine'[r].again = mine[r].again
          /\ r \notin behind' => r \notin behind \/ mine[r].again = 0
      BY <1>1, <2>8, RetryMoves
    <3>. QED
      BY <2>1, <2>2, <3>1
  <2>9. CASE Send(r)
    <3>1. /\ at[r] = "send" /\ at'[r] \in {"giveUp", "count"}
          /\ SameHeld(r) /\ UNCHANGED <<tries, refused, thrown, behind>>
      BY <1>1, <2>9, SendMoves DEF history
    <3>. QED
      BY <2>1, <2>2, <3>1 DEF SameHeld
  <2>10. CASE Count(r)
    <3>1. /\ at[r] = "count" /\ at'[r] \in {"idle", "overwrite"}
          /\ mine'[r].again = 0 \/ mine'[r].again = mine[r].again
          /\ tries' = mine[r].tries /\ Written(r)
      BY <1>1, <2>10, CountMoves DEF SameHeld, NoneHeld
    <3>2. /\ UNCHANGED <<refused, thrown>>
          /\ ~stale' => r \notin behind
      BY <3>1 DEF Written
    <3>. QED
      BY <2>1, <2>2, <3>1, <3>2
  <2>11. CASE Fault(r)
    <3>1. /\ at'[r] \in {"catch", "idle"}
          /\ SameHeld(r) \/ NoneHeld(r)
          /\ UNCHANGED <<tries, refused, thrown, behind>>
      BY <1>1, <2>11, FaultMoves DEF history
    <3>. QED
      BY <2>1, <2>2, <3>1 DEF SameHeld, NoneHeld
  <2>12. CASE Mute(r)
    <3>1. /\ at'[r] \in {"giveUp", "count"} => at[r] = "send"
          /\ at'[r] \in {"clearMeta", "giveUp", "count", "canceled", "idle"}
          /\ SameHeld(r) \/ NoneHeld(r)
          /\ UNCHANGED <<tries, refused, thrown, behind>>
      BY <1>1, <2>12, MuteMoves DEF history
    <3>. QED
      BY <2>1, <2>2, <3>1 DEF SameHeld, NoneHeld
  <2>13. CASE Catch(r)
    <3>1. /\ at'[r] = "caught" /\ thrown' = thrown + 1 /\ UNCHANGED <<tries, refused>>
          /\ mine'[r].tries = tries + 1 /\ mine'[r].again = 0
      BY <1>1, <2>13, CatchMoves
    <3>. QED
      BY <2>1, <2>2, <3>1
  <2>14. CASE Caught(r)
    <3>1. /\ at[r] = "caught" /\ at'[r] = "retry" /\ mine'[r].again = mine[r].again
          /\ tries' = mine[r].tries /\ Written(r)
      BY <1>1, <2>14, CaughtMoves
    <3>2. /\ UNCHANGED <<refused, thrown, behind>>
          /\ ~stale' => r \notin behind
      BY <3>1 DEF Written
    <3>. QED
      BY <2>1, <2>2, <3>1, <3>2
  <2>15. CASE HandOver(r) \/ Reset(r) \/ Clear(r) \/ OwnPayment(r) \/ Lookup(r) \/ Status(r)
    <3>1. /\ at'[r] \in QuietTo
          /\ mine'[r].again = 0 \/ mine'[r].again = mine[r].again
          /\ UNCHANGED <<tries, refused, thrown, behind>>
      BY <1>1, <2>15, QuietMoves DEF history, NoneHeld, SameHeld
    <3>. QED
      BY <2>1, <2>2, <3>1 DEF QuietTo
  <2>16. CASE NewRow /\ tries' = 0
    <3>1. refused' = 0 /\ thrown' = 0 /\ r \in behind'
      BY <2>16 DEF NewRow, Writers
    <3>. QED
      BY <2>16, <3>1
  <2>17. ClearMeta(r) \/ Canceled(r) \/ Report(r) \/ GiveUp(r) \/ Start(r)
         => (NewRow /\ tries' = 0) \/ (Start(r) /\ UNCHANGED history)
    BY <1>1, ResetMoves, GiveUpMoves, StartMoves
  <2>. QED
    BY <2>3, <2>4, <2>5, <2>6, <2>7, <2>8, <2>9, <2>10, <2>11, <2>12, <2>13, <2>14, <2>15,
       <2>16, <2>17 DEF Run
<1>. QED
  BY <1>1, <1>2, <1>3, RunMarks, RunExplained DEF MovesType

LEMMA ExplainedStep ==
  ASSUME TypeOK, TypeOK', ExplainedInv, [Next]_vars
  PROVE  ExplainedInv'
<1>1. HeldType /\ MarkType /\ CountType
  BY TypeParts
<1> USE DEF HeldExplained, history, caseVars
<1>2. CASE \E r \in Runs : Run(r)
  BY <1>2, ExplainedRun
<1>3. CASE Ask \/ AgentTakes \/ Reopen \/ UNCHANGED vars
  <2>1. UNCHANGED <<at, mine, template, tries, refused, thrown, behind, stale>>
    BY <1>3 DEF Ask, AgentTakes, Reopen, vars
  <2>. QED
    BY <2>1 DEF ExplainedInv
<1>4. CASE Solve
  BY <1>4, RowExplained DEF Solve, ResetMeta
<1>5. CASE ReadMeta
  <2>1. /\ UNCHANGED <<at, mine, tries, refused, thrown, stale>>
        /\ template'.tries = tries /\ behind' = behind \ {Agent}
    BY <1>5 DEF ReadMeta
  <2>2. \A r \in Runs : r \notin behind' => r \notin behind
    BY <2>1
  <2>. QED
    BY <2>1, <2>2 DEF ExplainedInv
<1>6. CASE WriteMeta
  <2>1. /\ UNCHANGED <<at, mine, refused, thrown, behind>>
        /\ tries' = template.tries /\ template.going /\ ~template'.going
        /\ ~stale' => ~stale /\ Agent \notin behind
    BY <1>6 DEF WriteMeta, Written, NoTemplate
  <2>. QED
    BY <2>1 DEF ExplainedInv
<1>. QED
  BY <1>2, <1>3, <1>4, <1>5, <1>6 DEF Next

LEMMA InitExplained == Init => ExplainedInv
<1> SUFFICES ASSUME Init PROVE ExplainedInv
  OBVIOUS
<1>1. /\ tries = 0 /\ refused = 0 /\ thrown = 0
      /\ \A r \in Runs : at[r] = "idle" /\ mine[r].again = 0
      /\ ~template.going
  BY DEF Init, NoLocals, NoTemplate
<1>. QED
  BY <1>1 DEF ExplainedInv, HeldExplained, Writing

LEMMA ExplainedAlways == Spec => [](TypeOK /\ ExplainedInv)
<1>1. TypeOK /\ TypeOK' /\ ExplainedInv /\ [Next]_vars => ExplainedInv'
  BY ExplainedStep
<1>. QED
  BY RefundTypes, InitExplained, <1>1, PTL DEF Spec

\* Case.meta never counts more tries than refusals and thrown examinations since it was
\* last reset, as long as no copy older than the reset was written: runs that count at
\* the same time (handleRefundRetry reads, sends and writes) lose tries only.
THEOREM CountedTriesWereRefused == Spec => []TriesAreExplained
<1>1. ExplainedInv => TriesAreExplained
  BY DEF ExplainedInv, TriesAreExplained
<1>. QED
  BY ExplainedAlways, <1>1, PTL

-----------------------------------------------------------------------------
(* Runs that have the case to themselves *)

\* As long as nothing happens beside a run, one run is busy at most, and an agent's
\* copy of the meta is what the case holds.
AloneInv ==
  apart = 0 =>
    /\ \A r, s \in Runs : at[r] # "idle" /\ at[s] # "idle" => r = s
    /\ template.going => (\A r \in Runs : at[r] = "idle") /\ template.tries = tries

\* The tries as far as they can be held against the customer: the next one ends the flow.
Cap(n) == IF n < MaxTries THEN n ELSE MaxTries - 1

\* From the refusal to the counting of the try.
Pending == Writing \cup {"retry"}

\* A run that has the case to itself.
RunOK(r) ==
  /\ at[r] \notin Pending \cup {"overwrite", "catch"} => mine[r].again = 0
  /\ at[r] \in Pending => mine[r].again = 0 \/ mine[r].again = tries + 1
  /\ at[r] \in Writing \cup {"caught"} => mine[r].tries = tries + 1
  /\ at[r] = "count" => mine[r].tries < MaxTries
  /\ at[r] = "giveUp" => mine[r].tries >= MaxTries
  /\ at[r] \in Writing => refused <= Cap(tries) + 1 + faults
  /\ at[r] \notin Writing => refused <= Cap(tries) + faults
  /\ at[r] = "overwrite" =>
       /\ refused <= Cap(mine[r].again) + faults
       /\ r \notin behind => mine[r].again = tries

\* The case while nobody is busy, and while one run is.
SoloInv ==
  apart = 0 =>
    /\ (\A r \in Runs : at[r] = "idle") => refused <= Cap(tries) + faults
    /\ \A r \in Runs : at[r] # "idle" => RunOK(r)

\* As long as no call fails, a message counts two tries at most: the catch block's, and
\* that of the refusal behind it.
TwiceOK(r) ==
  /\ at[r] \notin Pending => tries <= 2 * refused
  /\ at[r] = "retry" => tries <= 2 * refused + 1
  /\ at[r] \in Writing => tries + 1 <= 2 * refused
TwiceInv ==
  apart = 0 /\ faults = 0 /\ ~stale =>
    /\ (\A r \in Runs : at[r] = "idle") => tries <= 2 * refused
    /\ \A r \in Runs : at[r] # "idle" => TwiceOK(r)

\* What happens beside a run is counted.
LEMMA BesideAlone ==
  ASSUME NEW busy, apart \in Nat, apart' = 0, Beside(busy)
  PROVE  apart = 0 /\ ~busy
  BY DEF Beside

LEMMA ApartBack ==
  ASSUME CountType, [Next]_vars, apart' = 0
  PROVE  apart = 0
<1>1. apart' \in apart..MaxApart /\ apart \in Nat
  BY BoundsStep DEF CountType
<1>. QED
  BY <1>1

\* A run that takes a step was busy, or nobody was and it takes a message.
LEMMA WhoIsBusy ==
  ASSUME MovesType, CountType, AloneInv, NEW r \in Runs, Run(r), apart' = 0
  PROVE  /\ \A s \in Runs \ {r} : at[s] = "idle"
         /\ ~template.going
<1>0. apart = 0
  BY ApartBack DEF Next
<1>1. CASE \E image \in BOOLEAN : Take(r, image)
  <2>1. Beside(Busy)
    BY <1>1 DEF Take
  <2>2. apart \in Nat
    BY DEF CountType
  <2>3. ~Busy
    BY <2>1, <2>2, BesideAlone
  <2>. QED
    BY <2>3 DEF Busy
<1>2. CASE at[r] # "idle"
  BY <1>0, <1>2 DEF AloneInv
<1>3. CASE ~\E image \in BOOLEAN : Take(r, image)
  <2>1. at[r] # "idle"
    BY <1>3 DEF Run, Clear, Orderless, Retry, Catch, Caught, HandOver, Reset, Start, Examine,
       OwnPayment, ClearMeta, Lookup, Canceled, Overwrite, Status, Report, Send, GiveUp, Count,
       Go, Returns, Fault, Mute
  <2>. QED
    BY <2>1, <1>2
<1>. QED
  BY <1>1, <1>3

LEMMA AloneStep ==
  ASSUME TypeOK, AloneInv, [Next]_vars
  PROVE  AloneInv'
<1> SUFFICES ASSUME apart' = 0
             PROVE  (/\ \A r, s \in Runs : at[r] # "idle" /\ at[s] # "idle" => r = s
                     /\ template.going => (\A r \in Runs : at[r] = "idle") /\ template.tries = tries)'
  BY DEF AloneInv
<1>0. MovesType /\ HeldType /\ CountType
  BY TypeParts DEF MovesType, CountType
<1>1. apart = 0 /\ apart \in Nat
  BY <1>0, ApartBack DEF CountType
<1>2. ASSUME NEW r \in Runs, Run(r)
      PROVE  /\ \A p, q \in Runs : at'[p] # "idle" /\ at'[q] # "idle" => p = q
             /\ ~template'.going
  <2>1. /\ \A s \in Runs \ {r} : at'[s] = at[s]
        /\ template' = template
    BY <1>0, <1>2, WhereTo, OthersKeep DEF MovesType
  <2>2. (\A s \in Runs \ {r} : at[s] = "idle") /\ ~template.going
    BY <1>0, <1>2, WhoIsBusy
  <2>. QED
    BY <2>1, <2>2
<1>3. CASE Ask \/ AgentTakes \/ Reopen \/ UNCHANGED vars
  <2>1. UNCHANGED <<at, template, tries>>
    BY <1>3 DEF Ask, AgentTakes, Reopen, vars, caseVars
  <2>. QED
    BY <1>1, <2>1 DEF AloneInv
<1>4. CASE Solve
  <2>1. at' = at /\ template' = template /\ Beside(Busy)
    BY <1>4 DEF Solve
  <2>2. ~Busy
    BY <1>1, <2>1, BesideAlone
  <2>. QED
    BY <2>1, <2>2 DEF Busy
<1>5. CASE ReadMeta
  <2>1. at' = at /\ template'.tries = tries /\ tries' = tries /\ Beside(Busy)
    BY <1>5 DEF ReadMeta, caseVars
  <2>2. ~Busy
    BY <1>1, <2>1, BesideAlone
  <2>. QED
    BY <2>1, <2>2 DEF Busy
<1>6. CASE WriteMeta
  <2>1. at' = at /\ ~template'.going
    BY <1>6 DEF WriteMeta, NoTemplate
  <2>. QED
    BY <1>1, <2>1 DEF AloneInv
<1>. QED
  BY <1>2, <1>3, <1>4, <1>5, <1>6 DEF Next

LEMMA SoloRun ==
  ASSUME TypeOK, TypeOK', AloneInv, SoloInv, NEW r \in Runs, Run(r), apart' = 0
  PROVE  SoloInv'
<1>1. MovesType /\ HeldType /\ CountType /\ MarkType
  BY TypeParts DEF MovesType, CountType
<1>2. apart = 0
  BY <1>1, ApartBack DEF Next
<1>3. \A s \in Runs \ {r} : at[s] = "idle" /\ at'[s] = "idle"
  BY <1>1, WhoIsBusy, WhereTo DEF MovesType
<1>4. /\ mine[r].tries \in Nat /\ mine[r].again \in Nat /\ tries \in Nat /\ refused \in Nat
      /\ faults \in Nat /\ faults' \in Nat /\ tries' \in Nat /\ refused' \in Nat
  BY <1>1, HeldNumbers DEF CountType, TypeOK, MarkType
<1>5. /\ at[r] = "idle" => refused <= Cap(tries) + faults
      /\ at[r] # "idle" => RunOK(r)
  <2>1. at[r] = "idle" => \A s \in Runs : at[s] = "idle"
    BY <1>3
  <2>. QED
    BY <1>2, <2>1 DEF SoloInv
<1> DEFINE Goal == /\ at'[r] = "idle" => refused' <= Cap(tries') + faults'
                   /\ at'[r] # "idle" => RunOK(r)'
<1>6. SUFFICES Goal
  <2>1. ASSUME NEW s \in Runs, at'[s] # "idle" PROVE s = r
    BY <1>3, <2>1
  <2>. QED
    BY <2>1 DEF SoloInv
<1> USE DEF RunOK, Pending, Writing, Cap, MaxTries
<1>7. ASSUME NEW image, Take(r, image) PROVE Goal
  <2>1. /\ at[r] = "idle" /\ at'[r] \in {"reset", "handOver"} /\ mine'[r].again = 0
        /\ UNCHANGED <<tries, refused, faults>>
    BY <1>1, <1>7, TakeMoves DEF history
  <2>. QED
    BY <1>4, <1>5, <2>1
<1>8. CASE Start(r)
  <2>1. /\ at[r] = "start" /\ mine'[r].again = 0 /\ at'[r] \in {"clear", "retry"} /\ faults' = faults
        /\ \/ UNCHANGED <<tries, refused>>
           \/ tries' = 0 /\ refused' = 0
    BY <1>1, <1>8, StartMoves DEF NoneHeld, history, NewRow
  <2>2. CASE UNCHANGED <<tries, refused>>
    BY <1>4, <1>5, <2>1, <2>2
  <2>3. CASE tries' = 0 /\ refused' = 0
    <3>1. refused' <= Cap(tries') /\ Cap(tries') \in Nat
      BY <2>3
    <3>2. refused' <= Cap(tries') + faults'
      BY <1>4, <3>1, Grows
    <3>. QED
      BY <2>1, <3>2
  <2>. QED
    BY <2>1, <2>2, <2>3
<1>9. CASE Examine(r)
  <2>1. /\ at[r] = "examine" /\ UNCHANGED <<tries, refused, faults>>
        /\ at'[r] \in {"own", "lookup", "retry", "idle"}
        /\ mine'[r].again = 0 \/ mine'[r].again = mine[r].again
    BY <1>1, <1>9, ExamineMoves DEF history, SameHeld, NoneHeld
  <2>. QED
    BY <1>4, <1>5, <2>1
<1>10. CASE Orderless(r)
  <2>1. /\ at[r] = "orderless" /\ UNCHANGED <<tries, refused, faults>>
        /\ \/ at'[r] = "idle"
           \/ at'[r] = "retry" /\ mine'[r].again = tries + 1
    BY <1>1, <1>10, OrderlessMoves
  <2>. QED
    BY <1>4, <1>5, <2>1
<1>11. CASE Overwrite(r)
  <2>1. /\ at[r] = "overwrite" /\ at'[r] = "idle"
        /\ tries' = mine[r].again /\ UNCHANGED <<refused, faults>>
    BY <1>1, <1>11, OverwriteMoves DEF Written
  <2>. QED
    BY <1>4, <1>5, <2>1
<1>12. CASE ClearMeta(r) \/ Canceled(r) \/ Report(r)
  <2>1. at'[r] = "idle" /\ tries' = 0 /\ refused' = 0
    BY <1>1, <1>12, ResetMoves DEF NewRow
  <2>2. refused' <= Cap(tries') /\ Cap(tries') \in Nat
    BY <2>1
  <2>3. refused' <= Cap(tries') + faults'
    BY <1>4, <2>2, Grows
  <2>. QED
    BY <2>1, <2>3
<1>13. CASE Retry(r)
  <2>1. /\ at[r] = "retry" /\ at'[r] = "send"
        /\ mine'[r].tries = tries + 1 /\ mine'[r].again = mine[r].again
        /\ refused' = refused + 1 /\ UNCHANGED <<tries, faults>>
    BY <1>1, <1>13, RetryMoves
  <2>. QED
    BY <1>4, <1>5, <2>1
<1>14. CASE Send(r)
  <2>1. /\ at[r] = "send" /\ at'[r] = IF mine[r].tries >= MaxTries THEN "giveUp" ELSE "count"
        /\ SameHeld(r) /\ UNCHANGED <<tries, refused, faults>>
    BY <1>1, <1>14, SendMoves DEF history, GivesUp
  <2>. QED
    BY <1>4, <1>5, <2>1 DEF SameHeld
<1>15. CASE GiveUp(r)
  <2>1. /\ tries' = 0 /\ NewRow
        /\ at'[r] \in {"idle", "overwrite"}
    BY <1>1, <1>15, GiveUpMoves
  <2>2. refused' = 0 /\ r \in behind'
    BY <2>1 DEF NewRow, Writers
  <2>3. mine'[r].again \in Nat
    BY TypeParts, HeldNumbers DEF TypeOK, Locals
  <2>4. refused' <= Cap(tries') /\ Cap(tries') \in Nat
    BY <2>1, <2>2
  <2>5. refused' <= Cap(mine'[r].again) /\ Cap(mine'[r].again) \in Nat
    BY <2>2, <2>3
  <2>6. refused' <= Cap(tries') + faults'
    BY <1>4, <2>4, Grows
  <2>7. refused' <= Cap(mine'[r].again) + faults'
    BY <1>4, <2>5, Grows
  <2>. QED
    BY <2>1, <2>2, <2>6, <2>7
<1>16. CASE Count(r)
  <2>1. /\ at[r] = "count" /\ tries' = mine[r].tries /\ UNCHANGED <<refused, faults>>
        /\ \/ mine[r].again = 0 /\ at'[r] = "idle"
           \/ mine[r].again > 0 /\ at'[r] = "overwrite" /\ SameHeld(r)
    BY <1>1, <1>16, CountMoves DEF Written
  <2>. QED
    BY <1>4, <1>5, <2>1 DEF SameHeld
<1>17. CASE Fault(r)
  <2>1. /\ at[r] # "idle" /\ UNCHANGED <<tries, refused>> /\ faults' = faults + 1
        /\ at'[r] \in {"catch", "idle"}
    BY <1>1, <1>17, FaultMoves DEF history
  <2>. QED
    BY <1>4, <1>5, <2>1
<1>18. CASE Mute(r)
  <2>1. /\ UNCHANGED <<tries, refused>> /\ faults' = faults + 1
        /\ \/ at[r] = "own" /\ at'[r] = "clearMeta" /\ SameHeld(r)
           \/ /\ at[r] = "send" /\ SameHeld(r)
              /\ at'[r] = IF mine[r].tries >= MaxTries THEN "giveUp" ELSE "count"
           \/ at[r] = "lookup" /\ at'[r] = "canceled" /\ SameHeld(r)
           \/ at[r] \in {"lookup", "status"} /\ at'[r] = "idle" /\ NoneHeld(r)
    BY <1>1, <1>18, MuteMoves DEF history, GivesUp
  <2>. QED
    BY <1>4, <1>5, <2>1 DEF SameHeld
<1>19. CASE Catch(r)
  <2>1. /\ at[r] = "catch" /\ at'[r] = "caught"
        /\ mine'[r].tries = tries + 1 /\ mine'[r].again = 0
        /\ UNCHANGED <<tries, refused, faults>>
    BY <1>1, <1>19, CatchMoves
  <2>. QED
    BY <1>4, <1>5, <2>1
<1>20. CASE Caught(r)
  <2>1. /\ at[r] = "caught" /\ at'[r] = "retry" /\ mine'[r].again = mine[r].again
        /\ tries' = mine[r].tries /\ UNCHANGED <<refused, faults>>
    BY <1>1, <1>20, CaughtMoves DEF Written
  <2>. QED
    BY <1>4, <1>5, <2>1
<1>21. CASE HandOver(r) \/ Reset(r) \/ Clear(r) \/ OwnPayment(r) \/ Lookup(r) \/ Status(r)
  <2>1. /\ at[r] \in QuietFrom /\ at'[r] \in QuietTo
        /\ mine'[r].again = 0 \/ mine'[r].again = mine[r].again
        /\ UNCHANGED <<tries, refused, faults>>
    BY <1>1, <1>21, QuietMoves DEF history, NoneHeld, SameHeld
  <2>. QED
    BY <1>4, <1>5, <2>1 DEF QuietFrom, QuietTo
<1>. QED
  BY <1>7, <1>8, <1>9, <1>10, <1>11, <1>12, <1>13, <1>14, <1>15, <1>16, <1>17, <1>18,
     <1>19, <1>20, <1>21 DEF Run

LEMMA SoloStep ==
  ASSUME TypeOK, TypeOK', AloneInv, SoloInv, [Next]_vars
  PROVE  SoloInv'
<1> SUFFICES ASSUME apart' = 0 PROVE SoloInv'
  BY DEF SoloInv
<1>0. HeldType /\ CountType
  BY TypeParts
<1>1. apart = 0 /\ apart \in Nat
  BY <1>0, ApartBack DEF CountType
<1>2. CASE \E r \in Runs : Run(r)
  BY <1>2, SoloRun
<1>3. CASE Ask \/ AgentTakes \/ Reopen \/ UNCHANGED vars
  <2>1. UNCHANGED <<at, mine, tries, refused, behind, faults>>
    BY <1>3 DEF Ask, AgentTakes, Reopen, vars, caseVars, history
  <2>. QED
    BY <1>1, <2>1 DEF SoloInv, RunOK, Cap
<1>4. CASE ReadMeta
  <2>1. UNCHANGED <<at, mine, tries, refused, faults>> /\ behind' = behind \ {Agent}
    BY <1>4 DEF ReadMeta, caseVars
  <2>2. \A r \in Runs : r \notin behind' => r \notin behind
    BY <2>1
  <2>. QED
    BY <1>1, <2>1, <2>2 DEF SoloInv, RunOK, Cap
<1>5. CASE WriteMeta
  <2>1. UNCHANGED <<at, mine, refused, behind, faults>> /\ tries' = template.tries /\ template.going
    BY <1>5 DEF WriteMeta, Written
  <2>2. tries' = tries
    BY <1>1, <2>1 DEF AloneInv
  <2>. QED
    BY <1>1, <2>1, <2>2 DEF SoloInv, RunOK, Cap
<1>6. CASE Solve
  <2>1. at' = at /\ faults' = faults /\ tries' = 0 /\ refused' = 0 /\ Beside(Busy)
    BY <1>6 DEF Solve, ResetMeta, NewRow
  <2>2. \A r \in Runs : at'[r] = "idle"
    BY <1>1, <2>1, BesideAlone DEF Busy
  <2>3. faults \in Nat
    BY <1>0 DEF CountType
  <2>. QED
    BY <2>1, <2>2, <2>3 DEF SoloInv, Cap, MaxTries
<1>. QED
  BY <1>2, <1>3, <1>4, <1>5, <1>6 DEF Next

LEMMA InitSolo == Init => AloneInv /\ SoloInv /\ TwiceInv
<1> SUFFICES ASSUME Init PROVE AloneInv /\ SoloInv /\ TwiceInv
  OBVIOUS
<1>1. /\ \A r \in Runs : at[r] = "idle"
      /\ tries = 0 /\ refused = 0 /\ faults = 0
  BY DEF Init
<1>2. ~template.going
  BY DEF Init, NoTemplate
<1>. QED
  BY <1>1, <1>2 DEF AloneInv, SoloInv, TwiceInv, Cap, MaxTries

LEMMA FaultsBack ==
  ASSUME CountType, [Next]_vars, faults' = 0
  PROVE  faults = 0
<1>1. faults' \in faults..MaxFaults /\ faults \in Nat
  BY BoundsStep DEF CountType
<1>. QED
  BY <1>1

LEMMA TwiceRun ==
  ASSUME TypeOK, TypeOK', AloneInv, SoloInv, TwiceInv, NEW r \in Runs, Run(r),
         apart' = 0, faults' = 0, ~stale'
  PROVE  TwiceInv'
<1>1. MovesType /\ HeldType /\ CountType /\ MarkType
  BY TypeParts DEF MovesType, CountType
<1>2. apart = 0 /\ faults = 0
  BY <1>1, ApartBack, FaultsBack DEF Next
<1>3. \A s \in Runs \ {r} : at[s] = "idle" /\ at'[s] = "idle"
  BY <1>1, WhoIsBusy, WhereTo DEF MovesType
<1>4. /\ mine[r].tries \in Nat /\ mine[r].again \in Nat /\ tries \in Nat /\ refused \in Nat
      /\ tries' \in Nat /\ refused' \in Nat
  BY <1>1, HeldNumbers DEF CountType, TypeOK, MarkType
<1> DEFINE Goal == /\ at'[r] = "idle" => tries' <= 2 * refused'
                   /\ at'[r] # "idle" => TwiceOK(r)'
<1>5. SUFFICES Goal
  <2>1. ASSUME NEW s \in Runs, at'[s] # "idle" PROVE s = r
    BY <1>3, <2>1
  <2>. QED
    BY <2>1 DEF TwiceInv
<1> USE DEF TwiceOK, Pending, Writing
<1>6. CASE NewRow /\ tries' = 0 /\ at'[r] \notin Writing
  <2>1. refused' = 0
    BY <1>6 DEF NewRow
  <2>. QED
    BY <1>6, <2>1
<1>7. CASE Marks(r)
  <2>1. ~stale
    BY <1>7 DEF Marks
  <2>2. /\ at[r] = "idle" => tries <= 2 * refused
        /\ at[r] # "idle" => TwiceOK(r) /\ RunOK(r)
    <3>1. at[r] = "idle" => \A s \in Runs : at[s] = "idle"
      BY <1>3
    <3>. QED
      BY <1>2, <2>1, <3>1 DEF TwiceInv, SoloInv
  <2>3. ASSUME NEW image, Take(r, image) PROVE Goal
    <3>1. at[r] = "idle" /\ at'[r] \in {"reset", "handOver"} /\ UNCHANGED <<tries, refused>>
      BY <1>1, <2>3, TakeMoves DEF history
    <3>. QED
      BY <1>4, <2>2, <3>1
  <2>4. CASE Start(r) /\ UNCHANGED history
    <3>1. /\ at[r] = "start" /\ at'[r] \in {"clear", "retry"} /\ refused' = refused
          /\ tries' = tries \/ tries' = 0
      BY <1>1, <2>4, StartMoves DEF history
    <3>2. tries <= 2 * refused
      BY <2>2, <3>1
    <3>3. tries' <= 2 * refused'
      <4>1. CASE tries' = tries
        BY <3>1, <3>2, <4>1
      <4>2. CASE tries' = 0
        <5>1. 0 <= 2 * refused
          BY <1>4
        <5>. QED
          BY <3>1, <4>2, <5>1
      <4>. QED
        BY <3>1, <4>1, <4>2
    <3>4. tries' <= 2 * refused' + 1
      BY <1>4, <3>3, Grows
    <3>. QED
      BY <3>1, <3>3, <3>4
  <2>5. CASE Examine(r) \/ Orderless(r)
    <3>1. /\ at[r] \in {"examine", "orderless"} /\ at'[r] \in {"own", "lookup", "retry", "idle"}
          /\ UNCHANGED <<tries, refused>>
      BY <1>1, <2>5, ExamineMoves, OrderlessMoves DEF history
    <3>. QED
      BY <1>4, <2>2, <3>1
  <2>6. CASE Overwrite(r)
    <3>1. /\ at[r] = "overwrite" /\ at'[r] = "idle" /\ tries' = mine[r].again /\ refused' = refused
          /\ r \notin behind
      BY <1>1, <2>6, OverwriteMoves DEF Written
    <3>. QED
      BY <1>4, <2>2, <3>1 DEF RunOK
  <2>7. CASE Retry(r)
    <3>1. at[r] = "retry" /\ at'[r] = "send" /\ refused' = refused + 1 /\ tries' = tries
      BY <1>1, <2>7, RetryMoves
    <3>. QED
      BY <1>4, <2>2, <3>1
  <2>8. CASE Send(r)
    <3>1. at[r] = "send" /\ at'[r] \in {"giveUp", "count"} /\ UNCHANGED <<tries, refused>>
      BY <1>1, <2>8, SendMoves DEF history
    <3>. QED
      BY <1>4, <2>2, <3>1
  <2>9. CASE Count(r) \/ Caught(r)
    <3>1. /\ \/ at[r] = "count" /\ at'[r] \in {"idle", "overwrite"}
             \/ at[r] = "caught" /\ at'[r] = "retry"
          /\ tries' = mine[r].tries /\ refused' = refused
      BY <1>1, <2>9, CountMoves, CaughtMoves DEF Written
    <3>. QED
      BY <1>4, <2>2, <3>1 DEF RunOK
  <2>10. CASE Catch(r)
    <3>1. at[r] = "catch" /\ at'[r] = "caught" /\ UNCHANGED <<tries, refused>>
      BY <1>1, <2>10, CatchMoves
    <3>. QED
      BY <1>4, <2>2, <3>1
  <2>11. CASE HandOver(r) \/ Reset(r) \/ Clear(r) \/ OwnPayment(r) \/ Lookup(r) \/ Status(r)
    <3>1. at[r] \in QuietFrom /\ at'[r] \in QuietTo /\ UNCHANGED <<tries, refused>>
      BY <1>1, <2>11, QuietMoves DEF history
    <3>. QED
      BY <1>4, <2>2, <3>1 DEF QuietFrom, QuietTo
  <2>12. ClearMeta(r) \/ Canceled(r) \/ Report(r) \/ GiveUp(r) \/ Start(r)
         => \/ NewRow /\ tries' = 0 /\ at'[r] \notin Writing
            \/ Start(r) /\ UNCHANGED history
    BY <1>1, ResetMoves, GiveUpMoves, StartMoves
  <2>13. ~Fault(r) /\ ~Mute(r)
    <3>1. Fault(r) \/ Mute(r) => faults' = faults + 1
      BY <1>1, FaultMoves, MuteMoves
    <3>. QED
      BY <1>2, <3>1
  <2>. QED
    BY <1>6, <2>3, <2>4, <2>5, <2>6, <2>7, <2>8, <2>9, <2>10, <2>11, <2>12, <2>13 DEF Run
<1>. QED
  BY <1>1, <1>6, <1>7, RunMarks DEF MovesType

LEMMA TwiceStep ==
  ASSUME TypeOK, TypeOK', AloneInv, SoloInv, TwiceInv, [Next]_vars
  PROVE  TwiceInv'
<1> SUFFICES ASSUME apart' = 0, faults' = 0, ~stale' PROVE TwiceInv'
  BY DEF TwiceInv
<1>0. HeldType /\ CountType /\ MarkType
  BY TypeParts
<1>1. apart = 0 /\ apart \in Nat /\ faults = 0
  BY <1>0, ApartBack, FaultsBack DEF CountType
<1>2. CASE \E r \in Runs : Run(r)
  BY <1>2, TwiceRun
<1>3. CASE Ask \/ AgentTakes \/ Reopen \/ ReadMeta \/ UNCHANGED vars
  <2>1. UNCHANGED <<at, tries, refused, stale>>
    BY <1>3 DEF Ask, AgentTakes, Reopen, ReadMeta, vars, caseVars, history
  <2>. QED
    BY <1>1, <2>1 DEF TwiceInv, TwiceOK
<1>4. CASE WriteMeta
  <2>1. UNCHANGED <<at, refused>> /\ tries' = template.tries /\ template.going /\ ~stale
    BY <1>4 DEF WriteMeta, Written
  <2>2. tries' = tries
    BY <1>1, <2>1 DEF AloneInv
  <2>. QED
    BY <1>1, <2>1, <2>2 DEF TwiceInv, TwiceOK
<1>5. CASE Solve
  <2>1. at' = at /\ tries' = 0 /\ refused' = 0 /\ Beside(Busy)
    BY <1>5 DEF Solve, ResetMeta, NewRow
  <2>2. \A r \in Runs : at'[r] = "idle"
    BY <1>1, <2>1, BesideAlone DEF Busy
  <2>. QED
    BY <2>1, <2>2 DEF TwiceInv
<1>. QED
  BY <1>2, <1>3, <1>4, <1>5 DEF Next

LEMMA SoloAlways == Spec => [](TypeOK /\ AloneInv /\ SoloInv /\ TwiceInv)
<1>1. /\ TypeOK /\ TypeOK' /\ AloneInv /\ SoloInv /\ TwiceInv /\ [Next]_vars
      => AloneInv' /\ SoloInv' /\ TwiceInv'
  BY AloneStep, SoloStep, TwiceStep
<1>. QED
  BY RefundTypes, InitSolo, <1>1, PTL DEF Spec

\* A run at "giveUp" has found three tries.
GivesUpInv == \A r \in Runs : at[r] = "giveUp" => GivesUp(r)

LEMMA GivesUpStep ==
  ASSUME TypeOK, GivesUpInv, [Next]_vars
  PROVE  GivesUpInv'
<1>1. MovesType /\ HeldType
  BY TypeParts DEF MovesType, CountType
<1> USE DEF GivesUpInv, GivesUp
<1>2. ASSUME NEW r \in Runs, Run(r), NEW s \in Runs, at'[s] = "giveUp" PROVE GivesUp(s)'
  <2>1. CASE s # r
    BY <1>1, <1>2, <2>1, OthersKeep, WhereTo DEF MovesType
  <2>2. CASE s = r
    <3>1. Send(r) \/ Mute(r)
      <4>1. ASSUME NEW image, Take(r, image) PROVE FALSE
        BY <1>1, <1>2, <2>2, <4>1, TakeMoves
      <4>2. at'[r] = "giveUp"
        BY <1>2, <2>2
      <4>. QED
        BY <1>1, <1>2, <4>1, <4>2, StartMoves, ExamineMoves, OrderlessMoves, OverwriteMoves,
           ResetMoves, RetryMoves, GiveUpMoves, CountMoves, FaultMoves, CatchMoves, CaughtMoves,
           QuietMoves DEF Run, QuietTo
    <3>2. GivesUp(r) /\ SameHeld(r)
      BY <1>1, <1>2, <2>2, <3>1, SendMoves, MuteMoves
    <3>. QED
      BY <2>2, <3>2 DEF SameHeld
  <2>. QED
    BY <2>1, <2>2
<1>3. CASE Ask \/ Solve \/ AgentTakes \/ Reopen \/ ReadMeta \/ WriteMeta \/ UNCHANGED vars
  BY <1>3 DEF Ask, Solve, AgentTakes, Reopen, ReadMeta, WriteMeta, vars
<1>. QED
  BY <1>2, <1>3 DEF Next

\* A flow gives a customer up only after three refusals and thrown examinations since
\* Case.meta was reset, unless a copy older than the reset was used or written; with the
\* runs alone and no failing call two of them are refusals (handleRefundRetry and the
\* catch block of handleRefundScreenshot both count one that threw).
THEOREM GivingUpIsEarned == Spec => []EscalationsAreEarned
<1>1. Init => GivesUpInv
  BY DEF Init, GivesUpInv
<1>2. TypeOK /\ GivesUpInv /\ ExplainedInv /\ TwiceInv /\ SoloInv => EscalationsAreEarned
  <2> SUFFICES ASSUME TypeOK, GivesUpInv, ExplainedInv, TwiceInv, SoloInv,
                      NEW r \in Runs, at[r] = "giveUp", r \notin behind, ~stale
               PROVE  /\ refused + thrown >= MaxTries
                      /\ apart = 0 /\ faults = 0 => refused >= 2
    BY DEF EscalationsAreEarned
  <2>1. refused \in Nat /\ thrown \in Nat /\ mine[r].tries \in Nat /\ tries \in Nat
    BY TypeParts, HeldNumbers DEF MarkType, CountType
  <2>2. mine[r].tries >= MaxTries
    BY DEF GivesUpInv, GivesUp
  <2>3. mine[r].tries <= refused + thrown
    BY DEF ExplainedInv, HeldExplained, Writing
  <2>4. ASSUME apart = 0, faults = 0 PROVE refused >= 2
    <3>1. tries + 1 <= 2 * refused
      BY <2>4 DEF TwiceInv, TwiceOK, Writing
    <3>2. mine[r].tries = tries + 1
      BY <2>4 DEF SoloInv, RunOK, Writing
    <3>. QED
      BY <2>1, <2>2, <3>1, <3>2 DEF MaxTries
  <2>. QED
    BY <2>1, <2>2, <2>3, <2>4 DEF MaxTries
<1>3. TypeOK /\ GivesUpInv /\ [Next]_vars => GivesUpInv'
  BY GivesUpStep
<1>. QED
  BY SoloAlways, ExplainedAlways, <1>1, <1>2, <1>3, PTL DEF Spec

\* No customer is asked for a screenshot for ever: with the runs alone, more than two
\* refusals since the reset mean that a failure lost the count.
THEOREM ThreeRefusalsEndIt == Spec => []ThirdRefusalEndsFlow
<1>1. TypeOK /\ SoloInv => ThirdRefusalEndsFlow
  <2> SUFFICES ASSUME TypeOK, SoloInv, apart = 0, ~Busy PROVE refused <= 2 + faults
    BY DEF ThirdRefusalEndsFlow
  <2>1. refused <= Cap(tries) + faults
    BY DEF SoloInv, Busy
  <2>2. refused \in Nat /\ tries \in Nat /\ faults \in Nat
    BY TypeParts DEF CountType, MarkType
  <2>. QED
    BY <2>1, <2>2 DEF Cap, MaxTries
<1>. QED
  BY SoloAlways, <1>1, PTL

-----------------------------------------------------------------------------
(* Tries are counted in an active flow *)

\* Where a run is within the flow it found or began.
InFlow == {"clear", "examine", "own", "clearMeta", "lookup", "canceled", "orderless", "status",
           "report", "retry", "send", "count", "giveUp", "catch", "caught"}

\* A run holds what the case says of the flow, and its own copy is of an active flow.
FlagOK(r) ==
  /\ at[r] \in {"reset", "start"} => (mine[r].active <=> active)
  /\ at[r] \in InFlow => active
  /\ at[r] \in Writing \cup {"caught"} => mine[r].active
FlowInv ==
  apart = 0 /\ faults = 0 =>
    /\ tries # 0 => active
    /\ template.going => (template.active <=> active)
    /\ \A r \in Runs : at[r] # "idle" => FlagOK(r)

LEMMA FlowRun ==
  ASSUME TypeOK, AloneInv, SoloInv, FlowInv, NEW r \in Runs, Run(r), apart' = 0, faults' = 0
  PROVE  FlowInv'
<1>1. MovesType /\ HeldType /\ CountType
  BY TypeParts DEF MovesType, CountType
<1>2. apart = 0 /\ faults = 0
  BY <1>1, ApartBack, FaultsBack DEF Next
<1>3. /\ \A s \in Runs \ {r} : at'[s] = "idle"
      /\ ~template.going /\ template' = template
  BY <1>1, WhoIsBusy, WhereTo, OthersKeep DEF MovesType
<1>4. /\ tries # 0 => active
      /\ at[r] # "idle" => FlagOK(r)
  BY <1>2 DEF FlowInv
<1> DEFINE Goal == /\ tries' # 0 => active'
                   /\ at'[r] # "idle" => FlagOK(r)'
<1>5. SUFFICES Goal
  <2>1. ASSUME NEW s \in Runs, at'[s] # "idle" PROVE s = r
    BY <1>3, <2>1
  <2>. QED
    BY <1>3, <2>1 DEF FlowInv
<1> USE DEF FlagOK, Writing, InFlow, MovesType, HeldType
<1>6. ASSUME NEW image, Take(r, image) PROVE Goal
  <2>1. /\ at'[r] \in {"reset", "handOver"} /\ tries' = tries /\ active' = active
        /\ mine'[r].active = active
    BY <1>1, <1>6 DEF Take, caseVars, NoLocals
  <2>. QED
    BY <1>4, <2>1
<1>7. CASE Start(r)
  <2>1. at[r] = "start" /\ at'[r] \in {"clear", "retry"}
    BY <1>1, <1>7, StartMoves
  <2>2. active'
    BY <1>4, <1>7, <2>1 DEF Start, KeepMeta
  <2>. QED
    BY <2>1, <2>2
<1>8. CASE Retry(r) \/ Catch(r)
  <2>1. /\ at[r] \in {"retry", "catch"} /\ at'[r] \in {"send", "caught"}
        /\ mine'[r].active = active /\ active' = active
    BY <1>1, <1>8 DEF Retry, Catch, Go, KeepMeta, Locals
  <2>. QED
    BY <1>4, <2>1
<1>9. CASE Send(r)
  <2>1. /\ at[r] = "send" /\ at'[r] \in {"count", "giveUp"}
        /\ mine' = mine /\ active' = active
    BY <1>1, <1>9 DEF Send, Go, KeepMeta, Keeps
  <2>. QED
    BY <1>4, <2>1
<1>10. CASE Count(r) \/ Caught(r)
  <2>1. /\ at[r] \in {"count", "caught"} /\ at'[r] \in {"idle", "overwrite", "retry"}
        /\ active' = mine[r].active
    BY <1>1, <1>10 DEF Count, Caught, Go, Returns
  <2>. QED
    BY <1>4, <2>1
<1>11. CASE GiveUp(r)
  <2>1. at'[r] \in {"idle", "overwrite"} /\ tries' = 0
    BY <1>1, <1>11, GiveUpMoves
  <2>. QED
    BY <2>1
<1>12. CASE Overwrite(r)
  <2>1. at'[r] = "idle" /\ active' = TRUE
    BY <1>1, <1>12 DEF Overwrite, Go
  <2>. QED
    BY <2>1
<1>13. CASE ClearMeta(r) \/ Canceled(r) \/ Report(r)
  <2>1. at'[r] = "idle" /\ tries' = 0
    BY <1>1, <1>13, ResetMoves
  <2>. QED
    BY <2>1
<1>14. CASE Examine(r) \/ Orderless(r)
  <2>1. /\ at[r] \in {"examine", "orderless"} /\ at'[r] \in {"own", "lookup", "retry", "idle"}
        /\ tries' = tries /\ active' = active
    BY <1>1, <1>14 DEF Examine, Orderless, Go, KeepMeta
  <2>. QED
    BY <1>4, <2>1
<1>15. CASE Reset(r)
  <2>1. at[r] = "reset" /\ at'[r] = "start" /\ mine' = mine /\ tries' = tries /\ active' = active
    BY <1>1, <1>15 DEF Reset, Go, KeepMeta, Keeps
  <2>. QED
    BY <1>4, <2>1
<1>16. CASE HandOver(r) \/ Clear(r) \/ OwnPayment(r) \/ Lookup(r) \/ Status(r)
  <2>1. /\ at'[r] \in {"idle", "examine", "clearMeta", "catch", "canceled", "status", "orderless", "report"}
        /\ at[r] \in {"clear", "own", "lookup", "status"} \/ at'[r] = "idle"
    BY <1>1, <1>16 DEF HandOver, Clear, OwnPayment, Lookup, Status, Go
  <2>2. tries' = tries /\ active' = active
    BY <1>16 DEF HandOver, Clear, OwnPayment, Lookup, Status, KeepMeta
  <2>. QED
    BY <1>4, <2>1, <2>2
<1>17. ~Fault(r) /\ ~Mute(r)
  <2>1. Fault(r) \/ Mute(r) => faults' = faults + 1
    BY <1>1, FaultMoves, MuteMoves
  <2>. QED
    BY <1>2, <2>1
<1>. QED
  BY <1>6, <1>7, <1>8, <1>9, <1>10, <1>11, <1>12, <1>13, <1>14, <1>15, <1>16, <1>17 DEF Run

LEMMA FlowStep ==
  ASSUME TypeOK, AloneInv, SoloInv, FlowInv, [Next]_vars
  PROVE  FlowInv'
<1> SUFFICES ASSUME apart' = 0, faults' = 0 PROVE FlowInv'
  BY DEF FlowInv
<1>0. HeldType /\ CountType
  BY TypeParts
<1>1. apart = 0 /\ apart \in Nat /\ faults = 0
  BY <1>0, ApartBack, FaultsBack DEF CountType
<1>2. CASE \E r \in Runs : Run(r)
  BY <1>2, FlowRun
<1>3. CASE Ask \/ AgentTakes \/ Reopen \/ UNCHANGED vars
  <2>1. UNCHANGED <<at, mine, template, tries, active>>
    BY <1>3 DEF Ask, AgentTakes, Reopen, vars, caseVars
  <2>. QED
    BY <1>1, <2>1 DEF FlowInv, FlagOK
<1>4. CASE ReadMeta
  <2>1. UNCHANGED <<at, mine, tries, active>> /\ template'.active = active
    BY <1>4 DEF ReadMeta, caseVars
  <2>. QED
    BY <1>1, <2>1 DEF FlowInv, FlagOK
<1>5. CASE WriteMeta
  <2>1. /\ at' = at /\ tries' = template.tries /\ active' = template.active /\ template.going
        /\ ~template'.going
    BY <1>5 DEF WriteMeta, NoTemplate
  <2>2. tries' = tries /\ \A r \in Runs : at'[r] = "idle"
    BY <1>1, <2>1 DEF AloneInv
  <2>3. active' <=> active
    BY <1>1, <2>1 DEF FlowInv
  <2>4. tries' # 0 => active'
    BY <1>1, <2>2, <2>3 DEF FlowInv
  <2>. QED
    BY <2>1, <2>2, <2>4 DEF FlowInv
<1>6. CASE Solve
  <2>1. at' = at /\ tries' = 0 /\ template' = template /\ Beside(Busy)
    BY <1>6 DEF Solve, ResetMeta
  <2>2. (\A r \in Runs : at'[r] = "idle") /\ ~template'.going
    BY <1>1, <2>1, BesideAlone DEF Busy
  <2>. QED
    BY <2>1, <2>2 DEF FlowInv
<1>. QED
  BY <1>2, <1>3, <1>4, <1>5, <1>6 DEF Next

\* Tries are counted in an active flow only, unless a failure or something beside a run
\* comes between: the next message does not forget them (handleRefundScreenshot starts
\* the flow anew when refundScreenshotActive is not set).
THEOREM TriesAreOfAnActiveFlow == Spec => []TriesOnlyWhileActive
<1>1. Init => FlowInv
  <2> SUFFICES ASSUME Init PROVE FlowInv
    OBVIOUS
  <2>1. tries = 0 /\ \A r \in Runs : at[r] = "idle"
    BY DEF Init
  <2>2. ~template.going
    BY DEF Init, NoTemplate
  <2>. QED
    BY <2>1, <2>2 DEF FlowInv
<1>2. TypeOK /\ FlowInv => TriesOnlyWhileActive
  <2> SUFFICES ASSUME TypeOK, FlowInv, apart = 0, faults = 0, tries > 0 PROVE active
    BY DEF TriesOnlyWhileActive
  <2>1. tries # 0
    BY TypeParts DEF CountType
  <2>. QED
    BY <2>1 DEF FlowInv
<1>3. TypeOK /\ AloneInv /\ SoloInv /\ FlowInv /\ [Next]_vars => FlowInv'
  BY FlowStep
<1>. QED
  BY SoloAlways, <1>1, <1>2, <1>3, PTL DEF Spec
====
