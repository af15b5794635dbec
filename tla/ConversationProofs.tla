--------------------------- MODULE ConversationProofs ---------------------------
(***************************************************************************)
(* Proofs about Conversation, for any bounds on its rows, its overlapping    *)
(* handlers and its failures.                                               *)
(***************************************************************************)
EXTENDS Conversation, FiniteSetTheorems, SequenceTheorems, TLAPS

ConversationSpec == ConversationInit /\ [][ConversationNext]_convVars

USE ConversationAssumption DEF ConversationAssumption

-----------------------------------------------------------------------------
(* The chat *)

LEMMA Removed ==
  ASSUME NEW S, NEW s \in Seq(S), NEW i \in 1..Len(s)
  PROVE  /\ RemoveAt(s, i) \in Seq(S) /\ Len(RemoveAt(s, i)) = Len(s) - 1
         /\ \A j \in 1..(Len(s) - 1) : RemoveAt(s, i)[j] = IF j < i THEN s[j] ELSE s[j + 1]
<1>1. Len(s) \in Nat /\ i \in Nat /\ i >= 1 /\ i <= Len(s)
  BY LenProperties
<1> DEFINE a == SubSeq(s, 1, i - 1)
           b == SubSeq(s, i + 1, Len(s))
<1>2. a \in Seq(S) /\ Len(a) = i - 1 /\ \A j \in 1..(i - 1) : a[j] = s[j]
  BY <1>1
<1>3. b \in Seq(S) /\ Len(b) = Len(s) - i /\ \A j \in 1..(Len(s) - i) : b[j] = s[i + j]
  BY <1>1
<1> HIDE DEF a, b
<1>4. (a \o b) \in Seq(S) /\ Len(a \o b) = Len(s) - 1
  <2>1. (a \o b) \in Seq(S) /\ Len(a \o b) = Len(a) + Len(b)
    BY <1>2, <1>3, ConcatProperties
  <2>. QED
    BY <1>1, <1>2, <1>3, <2>1
<1>5. ASSUME NEW j \in 1..(Len(s) - 1) PROVE (a \o b)[j] = IF j < i THEN s[j] ELSE s[j + 1]
  <2>1. CASE j < i
    BY <1>1, <1>2, <1>3, <2>1
  <2>2. CASE ~(j < i)
    <3>1. (a \o b)[j] = b[j - (i - 1)]
      BY <1>1, <1>2, <1>3, <2>2
    <3>2. j - (i - 1) \in 1..(Len(s) - i) /\ i + (j - (i - 1)) = j + 1
      BY <1>1, <2>2
    <3>. QED
      BY <1>3, <2>2, <3>1, <3>2
  <2>. QED
    BY <2>1, <2>2
<1>. QED
  BY <1>4, <1>5 DEF RemoveAt, a, b

\* The handler of a row goes on where the row is, or stores it as the last.
InPlace(i, m)    == rows' = [rows EXCEPT ![i] = m]
Again(i, m)   == rows' = Append(RemoveAt(rows, i), m)
\* A row that takes over is written behind it.
Both(i, m, n) == rows' = Append([rows EXCEPT ![i] = m], n)
At(i, kinds, phases) == rows[i].kind \in kinds /\ rows[i].phase \in phases
\* The row r at another place, with another note, status and answer, sent d times more.
Became(m, r, p, a, n, s, d) ==
  /\ m.kind = r.kind /\ m.phase = p /\ m.answers = a /\ m.note = n
  /\ m.status = s /\ m.sends = r.sends + d

Phases == {"coming", "managed", "stored", "node", "handed", "create", "notify", "send", "sent", "queue", "assign", "done"}

LEMMA RowFields ==
  ASSUME NEW r \in Row
  PROVE  /\ r.kind \in Kinds /\ r.note \in Notes /\ r.phase \in Phases
         /\ r.sends \in Nat /\ r.sends + 0 = r.sends
         /\ r.answers \in {"none", "bot", "stop"} /\ r.status \in {"none", "SENT", "DELIVERED", "FAILED"}
BY DEF Row, Phases

LEMMA RowOf ==
  ASSUME rows \in Seq(Row), NEW i \in DOMAIN rows
  PROVE  rows[i] \in Row /\ i \in 1..Len(rows)
BY ElementOfSeq, LenProperties

\* A row that Goes writes.
LEMMA GoesTurns ==
  ASSUME NEW i, NEW kinds, NEW from, NEW to \in Phases, NEW r \in Row, Goes(i, kinds, from, to, r),
         NEW d \in {0, 1}, r.kind = rows[i].kind, r.sends = rows[i].sends + d
  PROVE  /\ At(i, kinds, {from})
         /\ \E m \in Row : InPlace(i, m) /\ Became(m, rows[i], to, r.answers, r.note, r.status, d)
<1> DEFINE m == [r EXCEPT !.phase = to]
<1>1. /\ m \in Row /\ m.kind = r.kind /\ m.phase = to /\ m.answers = r.answers /\ m.note = r.note
      /\ m.status = r.status /\ m.sends = r.sends
  BY DEF Row, Phases
<1>2. rows' = [rows EXCEPT ![i] = m] /\ At(i, kinds, {from})
  BY DEF Goes, At
<1> HIDE DEF m
<1>3. InPlace(i, m) /\ Became(m, rows[i], to, r.answers, r.note, r.status, d)
  BY <1>1, <1>2 DEF InPlace, Became
<1>. QED
  BY <1>1, <1>2, <1>3

LEMMA StoresAgain ==
  ASSUME NEW i, NEW kinds, NEW from, NEW to \in Phases, rows[i] \in Row, Stores(i, kinds, from, to)
  PROVE  /\ At(i, kinds, {from})
         /\ \E m \in Row : Again(i, m) /\ Became(m, rows[i], to, rows[i].answers, rows[i].note, "SENT", 0)
<1> DEFINE m == [rows[i] EXCEPT !.phase = to, !.status = "SENT"]
<1>1. /\ m \in Row /\ m.kind = rows[i].kind /\ m.phase = to /\ m.answers = rows[i].answers /\ m.note = rows[i].note
      /\ m.status = "SENT" /\ m.sends = rows[i].sends
  BY DEF Row, Phases
<1>2. rows' = Append(RemoveAt(rows, i), m) /\ At(i, kinds, {from})
  BY DEF Stores, At
<1> HIDE DEF m
<1>3. Again(i, m) /\ Became(m, rows[i], to, rows[i].answers, rows[i].note, "SENT", 0)
  BY <1>1, <1>2, RowFields DEF Again, Became
<1>. QED
  BY <1>1, <1>2, <1>3

\* A row that was sent once more.
LEMMA SentRow ==
  ASSUME NEW r \in Row
  PROVE  LET n == [r EXCEPT !.sends = @ + 1]
         IN  /\ n \in Row /\ n.kind = r.kind /\ n.sends = r.sends + 1 /\ n.answers = r.answers
             /\ n.note = r.note /\ n.status = r.status
<1> DEFINE c == r.sends + 1
           n == [r EXCEPT !.sends = c]
<1>1. c \in Nat
  BY RowFields
<1> HIDE DEF c
<1>2. n \in Row
  BY <1>1 DEF Row
<1>3. n.kind = r.kind /\ n.sends = c /\ n.answers = r.answers /\ n.note = r.note /\ n.status = r.status
  BY DEF Row
<1>. QED
  BY <1>2, <1>3 DEF c

LEMMA DoneRow ==
  ASSUME NEW r \in Row
  PROVE  /\ Done(r) \in Row /\ Done(r).kind = r.kind /\ Done(r).sends = r.sends + 0 /\ Done(r).answers = "none"
         /\ Done(r).note = r.note /\ Done(r).status = r.status
<1>1. r.sends \in Nat
  BY RowFields
<1>2. /\ Done(r) \in Row /\ Done(r).kind = r.kind /\ Done(r).sends = r.sends /\ Done(r).answers = "none"
      /\ Done(r).note = r.note /\ Done(r).status = r.status
  BY DEF Row, Done
<1>. QED
  BY <1>1, <1>2

LEMMA NewRowFields ==
  ASSUME NEW k \in Kinds, NEW p \in Phases
  PROVE  LET r == NewRow(k, p)
         IN  /\ r \in Row /\ r.kind = k /\ r.phase = p /\ r.answers = "none" /\ r.note = "none"
             /\ r.status = "none" /\ r.sends = 0
BY DEF Row, NewRow, Notes, Phases

\* A call that hands over to a row of the bot.
LEMMA ContinuesBoth ==
  ASSUME NEW i, NEW from, NEW kind \in BotKinds, NEW phase \in Phases, rows[i] \in Row, Continues(i, from, kind, phase)
  PROVE  /\ At(i, {"customer"}, from)
         /\ \E m \in Row, n \in Row :
              /\ Both(i, m, n) /\ Became(m, rows[i], "done", "none", rows[i].note, rows[i].status, 0)
              /\ n.kind = kind /\ n.phase = phase /\ n.note = "none" /\ n.status = "none" /\ n.sends = 0
<1> DEFINE m == [Done(rows[i]) EXCEPT !.phase = "done"]
           n == NewRow(kind, phase)
<1>1. /\ m \in Row /\ m.kind = rows[i].kind /\ m.phase = "done" /\ m.answers = "none" /\ m.note = rows[i].note
      /\ m.status = rows[i].status /\ m.sends = rows[i].sends
  BY DEF Row, Done
<1>2. n \in Row /\ n.kind = kind /\ n.phase = phase /\ n.note = "none" /\ n.status = "none" /\ n.sends = 0
  BY NewRowFields DEF Kinds
<1>3. rows' = Append([rows EXCEPT ![i] = m], n) /\ At(i, {"customer"}, from)
  BY DEF Continues, At
<1> HIDE DEF m, n
<1>4. Both(i, m, n) /\ Became(m, rows[i], "done", "none", rows[i].note, rows[i].status, 0)
  BY <1>1, <1>3, RowFields DEF Both, Became
<1>. QED
  BY <1>1, <1>2, <1>3, <1>4

-----------------------------------------------------------------------------
(* What each handler does to its row *)

LEMMA CustomerMoves ==
  ASSUME rows \in Seq(Row), NEW i \in DOMAIN rows
  PROVE  /\ ReadCase(i) =>
              /\ At(i, {"customer"}, {"coming"})
              /\ \E m \in Row, a \in {"none", "bot", "stop"} :
                   /\ InPlace(i, m) /\ Became(m, rows[i], "managed", a, rows[i].note, rows[i].status, 0)
                   /\ a = "bot" => desk' = "BOT"
         /\ StoreMessage(i) =>
              /\ At(i, {"customer"}, {"managed"})
              /\ \E m \in Row : InPlace(i, m) /\ Became(m, rows[i], "stored", rows[i].answers, "begun", "SENT", 0)
         /\ StoppedBot(i) \/ NoAnswer(i) =>
              /\ At(i, {"customer"}, {"stored"})
              /\ \E m \in Row : InPlace(i, m) /\ Became(m, rows[i], "done", "none", rows[i].note, rows[i].status, 0)
         /\ NoteReply(i) =>
              /\ At(i, {"customer"}, {"stored"}) /\ rows[i].answers = "bot"
              /\ \E m \in Row, p \in {"node", "done"}, a \in {"none", "bot"} :
                   InPlace(i, m) /\ Became(m, rows[i], p, a, rows[i].note, rows[i].status, 0)
         /\ HandOver(i) =>
              /\ At(i, {"customer"}, {"node"})
              /\ \E m \in Row, p \in {"handed", "done"} :
                   InPlace(i, m) /\ Became(m, rows[i], p, rows[i].answers, rows[i].note, rows[i].status, 0)
<1>0. rows[i] \in Row /\ rows[i].sends + 0 = rows[i].sends
  BY RowOf, RowFields
<1> DEFINE r == rows[i]
<1>1. ASSUME ReadCase(i)
      PROVE  /\ At(i, {"customer"}, {"coming"})
             /\ \E m \in Row, a \in {"none", "bot", "stop"} :
                  /\ InPlace(i, m) /\ Became(m, rows[i], "managed", a, rows[i].note, rows[i].status, 0)
                  /\ a = "bot" => desk' = "BOT"
  <2>0. PICK a \in {"none", "bot", "stop"} : a = Answers
    BY DEF Answers
  <2>1. a = "bot" => desk' = "BOT"
    BY <2>0 DEF Answers
  <2> DEFINE n == [r EXCEPT !.answers = a, !.asked = node = "question"]
  <2>2. n \in Row /\ n.kind = r.kind /\ n.sends = r.sends /\ n.answers = a /\ n.note = r.note /\ n.status = r.status
    BY <1>0 DEF Row
  <2>3. Goes(i, {"customer"}, "coming", "managed", n)
    BY <1>1, <2>0 DEF ReadCase
  <2> HIDE DEF n
  <2>4. /\ At(i, {"customer"}, {"coming"})
        /\ \E m \in Row : InPlace(i, m) /\ Became(m, rows[i], "managed", n.answers, n.note, n.status, 0)
    BY <1>0, <2>2, <2>3, GoesTurns DEF Phases
  <2>. QED
    BY <2>1, <2>2, <2>4
<1>2. ASSUME StoreMessage(i)
      PROVE  /\ At(i, {"customer"}, {"managed"})
             /\ \E m \in Row : InPlace(i, m) /\ Became(m, rows[i], "stored", rows[i].answers, "begun", "SENT", 0)
  <2> DEFINE n == [r EXCEPT !.status = "SENT", !.note = "begun"]
  <2>1. n \in Row /\ n.kind = r.kind /\ n.sends = r.sends /\ n.answers = r.answers /\ n.note = "begun" /\ n.status = "SENT"
    BY <1>0 DEF Row, Notes
  <2>2. Goes(i, {"customer"}, "managed", "stored", n)
    BY <1>2 DEF StoreMessage
  <2> HIDE DEF n
  <2>3. /\ At(i, {"customer"}, {"managed"})
        /\ \E m \in Row : InPlace(i, m) /\ Became(m, rows[i], "stored", n.answers, n.note, n.status, 0)
    BY <1>0, <2>1, <2>2, GoesTurns DEF Phases
  <2>. QED
    BY <2>1, <2>3
<1>3. ASSUME NEW p \in {"done", "node"}, Goes(i, {"customer"}, "stored", p, Done(r))
      PROVE  /\ At(i, {"customer"}, {"stored"})
             /\ \E m \in Row : InPlace(i, m) /\ Became(m, rows[i], p, "none", rows[i].note, rows[i].status, 0)
  <2> DEFINE n == Done(r)
  <2>1. n \in Row /\ n.kind = r.kind /\ n.sends = r.sends + 0 /\ n.answers = "none" /\ n.note = r.note /\ n.status = r.status
    BY <1>0, DoneRow
  <2>2. Goes(i, {"customer"}, "stored", p, n)
    BY <1>3
  <2> HIDE DEF n
  <2>3. /\ At(i, {"customer"}, {"stored"})
        /\ \E m \in Row : InPlace(i, m) /\ Became(m, rows[i], p, n.answers, n.note, n.status, 0)
    <3>1. p \in Phases
      BY DEF Phases
    <3>. QED
      BY <2>1, <2>2, <3>1, GoesTurns
  <2>. QED
    BY <2>1, <2>3
<1>4. ASSUME HandOver(i)
      PROVE  /\ At(i, {"customer"}, {"node"})
             /\ \E m \in Row, p \in {"handed", "done"} :
                  InPlace(i, m) /\ Became(m, rows[i], p, rows[i].answers, rows[i].note, rows[i].status, 0)
  <2>1. PICK p \in {"handed", "done"} : Goes(i, {"customer"}, "node", p, r)
    BY <1>4 DEF HandOver
  <2>2. p \in Phases
    BY DEF Phases
  <2>. QED
    BY <1>0, <2>1, <2>2, GoesTurns
<1>5. StoppedBot(i) \/ NoAnswer(i) => Goes(i, {"customer"}, "stored", "done", Done(r))
  BY DEF StoppedBot, NoAnswer
<1>6. ASSUME NoteReply(i)
      PROVE  /\ At(i, {"customer"}, {"stored"}) /\ rows[i].answers = "bot"
             /\ \E m \in Row, p \in {"node", "done"}, a \in {"none", "bot"} :
                  InPlace(i, m) /\ Became(m, rows[i], p, a, rows[i].note, rows[i].status, 0)
  <2> DEFINE n == [r EXCEPT !.asked = FALSE]
  <2>1. /\ rows[i].answers = "bot"
        /\ \/ \E p \in {"done", "node"} : Goes(i, {"customer"}, "stored", p, Done(r))
           \/ Goes(i, {"customer"}, "stored", "node", n)
    BY <1>6 DEF NoteReply
  <2>2. n \in Row /\ n.kind = r.kind /\ n.sends = r.sends /\ n.answers = r.answers /\ n.note = r.note /\ n.status = r.status
    BY <1>0 DEF Row
  <2> HIDE DEF n
  <2>3. CASE \E p \in {"done", "node"} : Goes(i, {"customer"}, "stored", p, Done(r))
    BY <1>3, <2>1, <2>3
  <2>4. CASE Goes(i, {"customer"}, "stored", "node", n)
    <3>1. /\ At(i, {"customer"}, {"stored"})
          /\ \E m \in Row : InPlace(i, m) /\ Became(m, rows[i], "node", n.answers, n.note, n.status, 0)
      BY <1>0, <2>2, <2>4, GoesTurns DEF Phases
    <3>. QED
      BY <2>1, <2>2, <3>1
  <2>. QED
    BY <2>1, <2>3, <2>4
<1>. QED
  BY <1>1, <1>2, <1>3, <1>4, <1>5, <1>6

LEMMA BotMoves ==
  ASSUME rows \in Seq(Row), NEW i \in DOMAIN rows
  PROVE  /\ OffTime(i) \/ BotAnswers(i) =>
              /\ At(i, {"customer"}, {"stored", "node", "handed"})
              /\ \E m \in Row, n \in Row :
                   /\ Both(i, m, n) /\ Became(m, rows[i], "done", "none", rows[i].note, rows[i].status, 0)
                   /\ \/ n.kind = "notice" /\ n.phase = "create"
                      \/ n.kind = "bot" /\ n.phase = "node" /\ rows[i].answers = "bot"
                   /\ n.note = "none" /\ n.status = "none" /\ n.sends = 0
         /\ BotNode(i) =>
              /\ At(i, {"bot"}, {"node"})
              /\ \E m \in Row : InPlace(i, m) /\ Became(m, rows[i], "create", rows[i].answers, rows[i].note, rows[i].status, 0)
         /\ BotCreate(i) =>
              /\ At(i, BotKinds, {"create"})
              /\ \E m \in Row : Again(i, m) /\ Became(m, rows[i], "queue", rows[i].answers, rows[i].note, "SENT", 0)
         /\ BotQueue(i) =>
              /\ At(i, BotKinds, {"queue"})
              /\ \E m \in Row : InPlace(i, m) /\ Became(m, rows[i], "done", rows[i].answers, rows[i].note, rows[i].status, 1)
<1>0. rows[i] \in Row /\ rows[i].sends + 0 = rows[i].sends
  BY RowOf, RowFields
<1> DEFINE r == rows[i]
<1>1. ASSUME NEW from \in SUBSET {"stored", "node", "handed"}, NEW kind \in BotKinds, NEW phase \in Phases,
             Continues(i, from, kind, phase),
             \/ kind = "notice" /\ phase = "create"
             \/ kind = "bot" /\ phase = "node" /\ rows[i].answers = "bot"
      PROVE  /\ At(i, {"customer"}, {"stored", "node", "handed"})
             /\ \E m \in Row, n \in Row :
                  /\ Both(i, m, n) /\ Became(m, rows[i], "done", "none", rows[i].note, rows[i].status, 0)
                  /\ \/ n.kind = "notice" /\ n.phase = "create"
                     \/ n.kind = "bot" /\ n.phase = "node" /\ rows[i].answers = "bot"
                  /\ n.note = "none" /\ n.status = "none" /\ n.sends = 0
  <2>1. At(i, {"customer"}, from) => At(i, {"customer"}, {"stored", "node", "handed"})
    BY DEF At
  <2>. QED
    BY <1>0, <1>1, <2>1, ContinuesBoth
<1>2. OffTime(i) => Continues(i, {"stored"}, "notice", "create")
  BY DEF OffTime
<1>3. BotAnswers(i) => Continues(i, {"stored", "node", "handed"}, "bot", "node") /\ rows[i].answers = "bot"
  BY DEF BotAnswers
<1>4. ASSUME BotNode(i)
      PROVE  /\ At(i, {"bot"}, {"node"})
             /\ \E m \in Row : InPlace(i, m) /\ Became(m, rows[i], "create", rows[i].answers, rows[i].note, rows[i].status, 0)
  BY <1>0, <1>4, GoesTurns DEF BotNode, Phases
<1>5. ASSUME BotCreate(i)
      PROVE  /\ At(i, BotKinds, {"create"})
             /\ \E m \in Row : Again(i, m) /\ Became(m, rows[i], "queue", rows[i].answers, rows[i].note, "SENT", 0)
  BY <1>0, <1>5, StoresAgain DEF BotCreate, Phases
<1>6. ASSUME BotQueue(i)
      PROVE  /\ At(i, BotKinds, {"queue"})
             /\ \E m \in Row : InPlace(i, m) /\ Became(m, rows[i], "done", rows[i].answers, rows[i].note, rows[i].status, 1)
  <2> DEFINE n == [r EXCEPT !.sends = @ + 1]
  <2>1. n \in Row /\ n.kind = r.kind /\ n.sends = r.sends + 1 /\ n.answers = r.answers /\ n.note = r.note /\ n.status = r.status
    BY <1>0, SentRow
  <2>2. Goes(i, BotKinds, "queue", "done", n)
    BY <1>6 DEF BotQueue
  <2> HIDE DEF n
  <2>3. /\ At(i, BotKinds, {"queue"})
        /\ \E m \in Row : InPlace(i, m) /\ Became(m, rows[i], "done", n.answers, n.note, n.status, 1)
    BY <2>1, <2>2, GoesTurns DEF Phases
  <2>. QED
    BY <2>1, <2>3
<1>7. "notice" \in BotKinds /\ "bot" \in BotKinds /\ "create" \in Phases /\ "node" \in Phases
  BY DEF BotKinds, Phases
<1>8. ASSUME OffTime(i) \/ BotAnswers(i)
      PROVE  /\ At(i, {"customer"}, {"stored", "node", "handed"})
             /\ \E m \in Row, n \in Row :
                  /\ Both(i, m, n) /\ Became(m, rows[i], "done", "none", rows[i].note, rows[i].status, 0)
                  /\ \/ n.kind = "notice" /\ n.phase = "create"
                     \/ n.kind = "bot" /\ n.phase = "node" /\ rows[i].answers = "bot"
                  /\ n.note = "none" /\ n.status = "none" /\ n.sends = 0
  <2>1. CASE OffTime(i)
    BY <1>1, <1>2, <1>7, <2>1
  <2>2. CASE BotAnswers(i)
    BY <1>1, <1>3, <1>7, <2>2
  <2>. QED
    BY <1>8, <2>1, <2>2
<1>. QED
  BY <1>4, <1>5, <1>6, <1>8

LEMMA AgentMoves ==
  ASSUME rows \in Seq(Row), NEW i \in DOMAIN rows
  PROVE  /\ AgentCreate(i) =>
              /\ At(i, AgentKinds, {"create"})
              /\ \E m \in Row : /\ Again(i, m)
                                /\ Became(m, rows[i], IF rows[i].kind = "template" THEN "send" ELSE "notify",
                                          rows[i].answers, rows[i].note, "SENT", 0)
         /\ NotifyClients(i) =>
              /\ At(i, AgentKinds, {"notify"})
              /\ \E m \in Row : /\ InPlace(i, m)
                                /\ Became(m, rows[i], AfterNotify(rows[i].kind), rows[i].answers, "begun", rows[i].status, 1)
         /\ SendAgain(i) =>
              /\ At(i, {"quick", "template"}, {"send"})
              /\ \E m \in Row : InPlace(i, m) /\ Became(m, rows[i], "sent", rows[i].answers, rows[i].note, rows[i].status, 1)
         /\ MarkDelivered(i) =>
              /\ At(i, {"quick", "template"}, {"sent"})
              /\ \E m \in Row : /\ InPlace(i, m)
                                /\ Became(m, rows[i], IF rows[i].kind = "quick" THEN "assign" ELSE "notify",
                                          rows[i].answers, rows[i].note, "DELIVERED", 0)
         /\ AssignCaseToUser(i) =>
              /\ At(i, {"quick", "template"}, {"assign"})
              /\ \E m \in Row : InPlace(i, m) /\ Became(m, rows[i], "done", rows[i].answers, rows[i].note, rows[i].status, 0)
<1>0. rows[i] \in Row /\ rows[i].sends + 0 = rows[i].sends
  BY RowOf, RowFields
<1> DEFINE r == rows[i]
<1>1. ASSUME AgentCreate(i)
      PROVE  /\ At(i, AgentKinds, {"create"})
             /\ \E m \in Row : /\ Again(i, m)
                               /\ Became(m, rows[i], IF rows[i].kind = "template" THEN "send" ELSE "notify",
                                         rows[i].answers, rows[i].note, "SENT", 0)
  <2> DEFINE p == IF rows[i].kind = "template" THEN "send" ELSE "notify"
  <2>1. p \in Phases
    BY DEF Phases
  <2>2. Stores(i, AgentKinds, "create", p)
    BY <1>1 DEF AgentCreate
  <2> HIDE DEF p
  <2>3. /\ At(i, AgentKinds, {"create"})
        /\ \E m \in Row : Again(i, m) /\ Became(m, rows[i], p, rows[i].answers, rows[i].note, "SENT", 0)
    BY <1>0, <2>1, <2>2, StoresAgain
  <2>. QED
    BY <2>3 DEF p
<1>2. ASSUME NotifyClients(i)
      PROVE  /\ At(i, AgentKinds, {"notify"})
             /\ \E m \in Row : /\ InPlace(i, m)
                               /\ Became(m, rows[i], AfterNotify(rows[i].kind), rows[i].answers, "begun", rows[i].status, 1)
  <2> DEFINE p == AfterNotify(rows[i].kind)
             s == [r EXCEPT !.sends = @ + 1]
             n == [r EXCEPT !.sends = @ + 1, !.note = "begun"]
  <2>1. p \in Phases
    BY <1>2 DEF NotifyClients, Goes, AfterNotify, AgentKinds, Phases
  <2>2. /\ s \in Row /\ s.kind = r.kind /\ s.sends = r.sends + 1 /\ s.answers = r.answers
        /\ s.note = r.note /\ s.status = r.status
    BY <1>0, SentRow
  <2>3. n = [s EXCEPT !.note = "begun"]
    BY <1>0 DEF Row
  <2> HIDE DEF s
  <2>6. /\ [s EXCEPT !.note = "begun"] \in Row /\ [s EXCEPT !.note = "begun"].kind = s.kind
        /\ [s EXCEPT !.note = "begun"].sends = s.sends /\ [s EXCEPT !.note = "begun"].answers = s.answers
        /\ [s EXCEPT !.note = "begun"].note = "begun" /\ [s EXCEPT !.note = "begun"].status = s.status
    BY <2>2 DEF Row, Notes
  <2>4. Goes(i, AgentKinds, "notify", p, n)
    BY <1>2 DEF NotifyClients
  <2> HIDE DEF p, n
  <2>5. /\ At(i, AgentKinds, {"notify"})
        /\ \E m \in Row : InPlace(i, m) /\ Became(m, rows[i], p, n.answers, n.note, n.status, 1)
    <3>1. /\ n \in Row /\ n.kind = r.kind /\ n.sends = r.sends + 1 /\ n.answers = r.answers
          /\ n.note = "begun" /\ n.status = r.status
      BY <2>2, <2>3, <2>6
    <3>. QED
      BY <2>1, <2>4, <3>1, GoesTurns
  <2>7. n.answers = r.answers /\ n.note = "begun" /\ n.status = r.status
    BY <2>2, <2>3, <2>6
  <2>. QED
    BY <2>5, <2>7 DEF p
<1>3. ASSUME SendAgain(i)
      PROVE  /\ At(i, {"quick", "template"}, {"send"})
             /\ \E m \in Row : InPlace(i, m) /\ Became(m, rows[i], "sent", rows[i].answers, rows[i].note, rows[i].status, 1)
  <2> DEFINE n == [r EXCEPT !.sends = @ + 1]
  <2>1. n \in Row /\ n.kind = r.kind /\ n.sends = r.sends + 1 /\ n.answers = r.answers /\ n.note = r.note /\ n.status = r.status
    BY <1>0, SentRow
  <2>2. Goes(i, {"quick", "template"}, "send", "sent", n)
    BY <1>3 DEF SendAgain
  <2> HIDE DEF n
  <2>3. /\ At(i, {"quick", "template"}, {"send"})
        /\ \E m \in Row : InPlace(i, m) /\ Became(m, rows[i], "sent", n.answers, n.note, n.status, 1)
    BY <2>1, <2>2, GoesTurns DEF Phases
  <2>. QED
    BY <2>1, <2>3
<1>4. ASSUME MarkDelivered(i)
      PROVE  /\ At(i, {"quick", "template"}, {"sent"})
             /\ \E m \in Row : /\ InPlace(i, m)
                               /\ Became(m, rows[i], IF rows[i].kind = "quick" THEN "assign" ELSE "notify",
                                         rows[i].answers, rows[i].note, "DELIVERED", 0)
  <2> DEFINE p == IF rows[i].kind = "quick" THEN "assign" ELSE "notify"
             n == [r EXCEPT !.status = "DELIVERED"]
  <2>1. p \in Phases
    BY DEF Phases
  <2>2. n \in Row /\ n.kind = r.kind /\ n.sends = r.sends /\ n.answers = r.answers /\ n.note = r.note /\ n.status = "DELIVERED"
    BY <1>0 DEF Row
  <2>3. Goes(i, {"quick", "template"}, "sent", p, n)
    BY <1>4 DEF MarkDelivered
  <2> HIDE DEF p, n
  <2>4. /\ At(i, {"quick", "template"}, {"sent"})
        /\ \E m \in Row : InPlace(i, m) /\ Became(m, rows[i], p, n.answers, n.note, n.status, 0)
    BY <1>0, <2>1, <2>2, <2>3, GoesTurns
  <2>. QED
    BY <2>2, <2>4 DEF p
<1>5. ASSUME AssignCaseToUser(i)
      PROVE  /\ At(i, {"quick", "template"}, {"assign"})
             /\ \E m \in Row : InPlace(i, m) /\ Became(m, rows[i], "done", rows[i].answers, rows[i].note, rows[i].status, 0)
  BY <1>0, <1>5, GoesTurns DEF AssignCaseToUser, Phases
<1>. QED
  BY <1>1, <1>2, <1>3, <1>4, <1>5

\* A call of a handler fails, or WhatsApp refuses its message.
LEMMA FailMoves ==
  ASSUME rows \in Seq(Row), NEW i \in DOMAIN rows
  PROVE  /\ Refused(i) =>
              \/ /\ At(i, AgentKinds, {"notify"})
                 /\ \E m \in Row : /\ InPlace(i, m)
                                   /\ Became(m, rows[i], AfterNotify(rows[i].kind), rows[i].answers, "begun", rows[i].status, 0)
              \/ /\ At(i, {"quick", "template"}, {"send"})
                 /\ \E m \in Row : InPlace(i, m) /\ Became(m, rows[i], "sent", rows[i].answers, rows[i].note, rows[i].status, 0)
         /\ Fails(i) =>
              \/ /\ At(i, {"quick"}, {"create", "notify", "sent"})
                 /\ \E m \in Row : InPlace(i, m) /\ Became(m, rows[i], "assign", rows[i].answers, rows[i].note, rows[i].status, 0)
              \/ /\ At(i, {"template"}, {"send", "sent", "notify"})
                 /\ \E m \in Row : InPlace(i, m) /\ Became(m, rows[i], "done", rows[i].answers, rows[i].note, "FAILED", 0)
              \/ /\ \/ At(i, {"text"}, {"create", "notify"})
                    \/ At(i, {"template"}, {"create"})
                    \/ At(i, BotKinds, {"node", "create", "queue"})
                 /\ \E m \in Row : InPlace(i, m) /\ Became(m, rows[i], "done", rows[i].answers, rows[i].note, rows[i].status, 0)
<1>0. rows[i] \in Row /\ rows[i].sends + 0 = rows[i].sends
  BY RowOf, RowFields
<1> DEFINE r == rows[i]
<1>1. ASSUME r.kind \in AgentKinds, r.phase = "notify",
             rows' = [rows EXCEPT ![i] = [@ EXCEPT !.phase = AfterNotify(rows[i].kind), !.note = "begun"]]
      PROVE  /\ At(i, AgentKinds, {"notify"})
             /\ \E m \in Row : /\ InPlace(i, m)
                               /\ Became(m, rows[i], AfterNotify(rows[i].kind), rows[i].answers, "begun", rows[i].status, 0)
  <2> DEFINE p == AfterNotify(rows[i].kind)
             m == [r EXCEPT !.phase = p, !.note = "begun"]
  <2>1. p \in Phases
    BY <1>1 DEF AfterNotify, AgentKinds, Phases
  <2> HIDE DEF p
  <2>2. /\ m \in Row /\ m.kind = r.kind /\ m.phase = p /\ m.sends = r.sends /\ m.answers = r.answers /\ m.note = "begun"
        /\ m.status = r.status
    BY <1>0, <2>1 DEF Row, Notes, Phases
  <2>3. rows' = [rows EXCEPT ![i] = m]
    BY <1>1 DEF p
  <2> HIDE DEF m
  <2>4. InPlace(i, m) /\ Became(m, r, p, r.answers, "begun", r.status, 0)
    BY <1>0, <2>2, <2>3 DEF InPlace, Became
  <2>5. At(i, AgentKinds, {"notify"})
    BY <1>1 DEF At
  <2>. QED
    BY <2>2, <2>4, <2>5 DEF p
<1>2. ASSUME NEW p \in Phases, rows' = [rows EXCEPT ![i] = [@ EXCEPT !.phase = p]]
      PROVE  \E m \in Row : InPlace(i, m) /\ Became(m, rows[i], p, rows[i].answers, rows[i].note, rows[i].status, 0)
  <2> DEFINE m == [r EXCEPT !.phase = p]
  <2>1. /\ m \in Row /\ m.kind = r.kind /\ m.phase = p /\ m.sends = r.sends /\ m.answers = r.answers /\ m.note = r.note
        /\ m.status = r.status
    BY <1>0 DEF Row, Phases
  <2>2. rows' = [rows EXCEPT ![i] = m]
    BY <1>2
  <2> HIDE DEF m
  <2>3. InPlace(i, m) /\ Became(m, r, p, r.answers, r.note, r.status, 0)
    BY <1>0, <2>1, <2>2 DEF InPlace, Became
  <2>. QED
    BY <2>1, <2>3
<1>3. ASSUME rows' = [rows EXCEPT ![i] = [@ EXCEPT !.phase = "done", !.status = "FAILED"]]
      PROVE  \E m \in Row : InPlace(i, m) /\ Became(m, rows[i], "done", rows[i].answers, rows[i].note, "FAILED", 0)
  <2> DEFINE m == [r EXCEPT !.phase = "done", !.status = "FAILED"]
  <2>1. /\ m \in Row /\ m.kind = r.kind /\ m.phase = "done" /\ m.sends = r.sends /\ m.answers = r.answers /\ m.note = r.note
        /\ m.status = "FAILED"
    BY <1>0 DEF Row, Phases
  <2>2. rows' = [rows EXCEPT ![i] = m]
    BY <1>3
  <2> HIDE DEF m
  <2>3. InPlace(i, m) /\ Became(m, r, "done", r.answers, r.note, "FAILED", 0)
    BY <1>0, <2>1, <2>2 DEF InPlace, Became
  <2>. QED
    BY <2>1, <2>3
<1>4. {"sent", "assign", "done"} \subseteq Phases
  BY DEF Phases
<1>5. ASSUME Refused(i)
      PROVE  \/ /\ At(i, AgentKinds, {"notify"})
                /\ \E m \in Row : /\ InPlace(i, m)
                                  /\ Became(m, rows[i], AfterNotify(rows[i].kind), rows[i].answers, "begun", rows[i].status, 0)
             \/ /\ At(i, {"quick", "template"}, {"send"})
                /\ \E m \in Row : InPlace(i, m) /\ Became(m, rows[i], "sent", rows[i].answers, rows[i].note, rows[i].status, 0)
  <2>1. CASE /\ r.kind \in AgentKinds /\ r.phase = "notify"
             /\ rows' = [rows EXCEPT ![i] = [@ EXCEPT !.phase = AfterNotify(rows[i].kind), !.note = "begun"]]
    BY <1>1, <2>1
  <2>2. CASE /\ r.kind \in {"quick", "template"} /\ r.phase = "send"
             /\ rows' = [rows EXCEPT ![i] = [@ EXCEPT !.phase = "sent"]]
    <3>1. At(i, {"quick", "template"}, {"send"})
      BY <2>2 DEF At
    <3>2. \E m \in Row : InPlace(i, m) /\ Became(m, rows[i], "sent", rows[i].answers, rows[i].note, rows[i].status, 0)
      BY <1>2, <1>4, <2>2
    <3>. QED
      BY <3>1, <3>2
  <2>. QED
    BY <1>5, <2>1, <2>2 DEF Refused
<1>6. ASSUME Fails(i)
      PROVE  \/ /\ At(i, {"quick"}, {"create", "notify", "sent"})
                /\ \E m \in Row : InPlace(i, m) /\ Became(m, rows[i], "assign", rows[i].answers, rows[i].note, rows[i].status, 0)
             \/ /\ At(i, {"template"}, {"send", "sent", "notify"})
                /\ \E m \in Row : InPlace(i, m) /\ Became(m, rows[i], "done", rows[i].answers, rows[i].note, "FAILED", 0)
             \/ /\ \/ At(i, {"text"}, {"create", "notify"})
                   \/ At(i, {"template"}, {"create"})
                   \/ At(i, BotKinds, {"node", "create", "queue"})
                /\ \E m \in Row : InPlace(i, m) /\ Became(m, rows[i], "done", rows[i].answers, rows[i].note, rows[i].status, 0)
  <2>1. CASE /\ r.kind = "quick" /\ r.phase \in {"create", "notify", "sent"}
             /\ rows' = [rows EXCEPT ![i] = [@ EXCEPT !.phase = "assign"]]
    <3>1. At(i, {"quick"}, {"create", "notify", "sent"})
      BY <2>1 DEF At
    <3>2. \E m \in Row : InPlace(i, m) /\ Became(m, rows[i], "assign", rows[i].answers, rows[i].note, rows[i].status, 0)
      BY <1>2, <1>4, <2>1
    <3>. QED
      BY <3>1, <3>2
  <2>2. CASE /\ r.kind = "template" /\ r.phase \in {"send", "sent", "notify"}
             /\ rows' = [rows EXCEPT ![i] = [@ EXCEPT !.phase = "done", !.status = "FAILED"]]
    <3>1. At(i, {"template"}, {"send", "sent", "notify"})
      BY <2>2 DEF At
    <3>. QED
      BY <1>3, <2>2, <3>1
  <2>3. CASE /\ \/ r.kind = "text" /\ r.phase \in {"create", "notify"}
                \/ r.kind = "template" /\ r.phase = "create"
                \/ r.kind \in BotKinds /\ r.phase \in {"node", "create", "queue"}
             /\ rows' = [rows EXCEPT ![i] = [@ EXCEPT !.phase = "done"]]
    <3>1. \/ At(i, {"text"}, {"create", "notify"})
          \/ At(i, {"template"}, {"create"})
          \/ At(i, BotKinds, {"node", "create", "queue"})
      BY <2>3 DEF At
    <3>2. \E m \in Row : InPlace(i, m) /\ Became(m, rows[i], "done", rows[i].answers, rows[i].note, rows[i].status, 0)
      BY <1>2, <1>4, <2>3
    <3>. QED
      BY <3>1, <3>2
  <2>. QED
    BY <1>6, <2>1, <2>2, <2>3 DEF Fails
<1>. QED
  BY <1>5, <1>6

\* handleUnreadCount only changes the note of its row.
LEMMA NoteMoves ==
  ASSUME rows \in Seq(Row), NEW i \in DOMAIN rows
  PROVE  /\ ReadUnread(i) =>
              /\ rows[i].note = "begun"
              /\ \E m \in Row : InPlace(i, m) /\ Became(m, rows[i], rows[i].phase, rows[i].answers, Decided, rows[i].status, 0)
         /\ WriteUnread(i) =>
              /\ rows[i].note \in {"reset", "first", "another"}
              /\ \E m \in Row : InPlace(i, m) /\ Became(m, rows[i], rows[i].phase, rows[i].answers, "over", rows[i].status, 0)
<1>0. rows[i] \in Row /\ rows[i].sends + 0 = rows[i].sends
  BY RowOf, RowFields
<1> DEFINE r == rows[i]
<1>1. ASSUME NEW n \in Notes, rows' = [rows EXCEPT ![i] = [@ EXCEPT !.note = n]]
      PROVE  \E m \in Row : InPlace(i, m) /\ Became(m, rows[i], rows[i].phase, rows[i].answers, n, rows[i].status, 0)
  <2> DEFINE m == [r EXCEPT !.note = n]
  <2>1. /\ m \in Row /\ m.kind = r.kind /\ m.phase = r.phase /\ m.sends = r.sends /\ m.answers = r.answers /\ m.note = n
        /\ m.status = r.status
    BY <1>0 DEF Row
  <2>2. rows' = [rows EXCEPT ![i] = m]
    BY <1>1
  <2> HIDE DEF m
  <2>3. InPlace(i, m) /\ Became(m, r, r.phase, r.answers, n, r.status, 0)
    BY <1>0, <2>1, <2>2 DEF InPlace, Became
  <2>. QED
    BY <2>1, <2>3
<1>2. Decided \in Notes /\ "over" \in Notes
  BY DEF Decided, Notes
<1>3. ReadUnread(i) => rows[i].note = "begun" /\ rows' = [rows EXCEPT ![i] = [@ EXCEPT !.note = Decided]]
  BY DEF ReadUnread
<1>4. WriteUnread(i) => rows[i].note \in {"reset", "first", "another"} /\ rows' = [rows EXCEPT ![i] = [@ EXCEPT !.note = "over"]]
  BY DEF WriteUnread
<1>. QED
  BY <1>1, <1>2, <1>3, <1>4

\* A handler that begins appends its row.
LEMMA OpenMoves ==
  ASSUME CustomerWrites \/ NewMessage \/ QuickOrTemplate
  PROVE  \E n \in Row :
           /\ rows' = Append(rows, n) /\ Len(rows) < MaxRows
           /\ n.answers = "none" /\ n.note = "none" /\ n.status = "none" /\ n.sends = 0
           /\ \/ CustomerWrites /\ n.kind = "customer" /\ n.phase = "coming"
              \/ NewMessage /\ n.kind = "text" /\ n.phase = "create"
              \/ QuickOrTemplate /\ n.kind \in {"quick", "template"} /\ n.phase = "create"
<1>1. \A k \in Kinds, p \in Phases :
        LET n == NewRow(k, p)
        IN  n \in Row /\ n.kind = k /\ n.phase = p /\ n.answers = "none" /\ n.note = "none" /\ n.status = "none" /\ n.sends = 0
  BY NewRowFields
<1>2. {"customer", "text", "quick", "template"} \subseteq Kinds /\ {"coming", "create"} \subseteq Phases
  BY DEF Kinds, AgentKinds, Phases
<1>3. CASE CustomerWrites
  <2>1. rows' = Append(rows, NewRow("customer", "coming")) /\ Len(rows) < MaxRows
    BY <1>3 DEF CustomerWrites, Opens
  <2>. QED
    BY <1>1, <1>2, <1>3, <2>1
<1>4. CASE NewMessage
  <2>1. rows' = Append(rows, NewRow("text", "create")) /\ Len(rows) < MaxRows
    BY <1>4 DEF NewMessage, Opens
  <2>. QED
    BY <1>1, <1>2, <1>4, <2>1
<1>5. CASE QuickOrTemplate
  <2>1. \E k \in {"quick", "template"} : rows' = Append(rows, NewRow(k, "create")) /\ Len(rows) < MaxRows
    BY <1>5 DEF QuickOrTemplate, Opens
  <2>. QED
    BY <1>1, <1>2, <1>5, <2>1
<1>. QED
  BY <1>3, <1>4, <1>5

\* The handlers that leave the chat alone.
LEMMA ChatStays ==
  ASSUME AssignCase \/ ChangeStatus \/ AssignAgent \/ WriteStatus \/ RecordSolved \/ StatusFails \/ UNCHANGED convVars
  PROVE  rows' = rows
BY DEF AssignCase, ChangeStatus, AssignAgent, WriteStatus, RecordSolved, StatusFails, convVars

LEMMA ChatOf ==
  ASSUME NEW S, rows \in Seq(S), NEW i \in DOMAIN rows, NEW m \in S, NEW n \in S
  PROVE  /\ InPlace(i, m) => rows' \in Seq(S) /\ Len(rows') = Len(rows)
         /\ Again(i, m) => rows' \in Seq(S) /\ Len(rows') = Len(rows)
         /\ Both(i, m, n) => rows' \in Seq(S) /\ Len(rows') = Len(rows) + 1
<1>0. i \in 1..Len(rows) /\ Len(rows) \in Nat
  BY LenProperties
<1>1. InPlace(i, m) => rows' \in Seq(S) /\ Len(rows') = Len(rows)
  BY DEF InPlace
<1>2. ASSUME Again(i, m) PROVE rows' \in Seq(S) /\ Len(rows') = Len(rows)
  <2>1. RemoveAt(rows, i) \in Seq(S) /\ Len(RemoveAt(rows, i)) = Len(rows) - 1
    BY <1>0, Removed
  <2>2. rows' \in Seq(S) /\ Len(rows') = Len(RemoveAt(rows, i)) + 1
    BY <1>2, <2>1, AppendProperties DEF Again
  <2>. QED
    BY <1>0, <2>1, <2>2
<1>3. ASSUME Both(i, m, n) PROVE rows' \in Seq(S) /\ Len(rows') = Len(rows) + 1
  <2> DEFINE t == [rows EXCEPT ![i] = m]
  <2>1. t \in Seq(S) /\ Len(t) = Len(rows)
    OBVIOUS
  <2>2. rows' = Append(t, n)
    BY <1>3 DEF Both
  <2> HIDE DEF t
  <2>3. rows' \in Seq(S) /\ Len(rows') = Len(t) + 1
    BY <2>1, <2>2, AppendProperties
  <2>. QED
    BY <2>1, <2>3
<1>. QED
  BY <1>1, <1>2, <1>3

-----------------------------------------------------------------------------
(* What a handler has sent by the place where it is *)

Placed ==
  ({"customer"} \X {"coming", "managed", "stored", "node", "handed", "done"})
    \cup ({"text"} \X {"create", "notify", "done"})
    \cup ({"quick"} \X {"create", "notify", "send", "sent", "assign", "done"})
    \cup ({"template"} \X {"create", "send", "sent", "notify", "assign", "done"})
    \cup (BotKinds \X {"node", "create", "queue", "done"})

SentTwice == ({"quick"} \X {"sent", "assign", "done"}) \cup ({"template"} \X {"assign", "done"})
SentOnce  == (({"text"} \cup BotKinds) \X {"done"}) \cup {<<"quick", "send">>, <<"template", "sent">>, <<"template", "notify">>}
Due(k, p) == IF <<k, p>> \in SentTwice THEN 2 ELSE IF <<k, p>> \in SentOnce THEN 1 ELSE 0

\* The rows that can be in the chat after f failures.
Good(f) ==
  {r \in Row : /\ <<r.kind, r.phase>> \in Placed
               /\ r.kind # "customer" => r.sends <= Due(r.kind, r.phase) /\ (f = 0 => r.sends = Due(r.kind, r.phase))}

SentInv == failures \in Nat /\ rows \in Seq(Good(failures))

LEMMA DueIsNat == \A k, p : Due(k, p) \in Nat
BY DEF Due

\* The row r at the place p, sent d times more.
Moved(m, r, p, d) == m.kind = r.kind /\ m.phase = p /\ m.sends = r.sends + d

LEMMA BecameMoved ==
  \A m, r, p, a, n, s, d : Became(m, r, p, a, n, s, d) => Moved(m, r, p, d)
BY DEF Became, Moved

\* A handler that goes on has sent what is due where it comes.
LEMMA Advance ==
  ASSUME NEW f, NEW r \in Good(f), NEW m \in Row, NEW p, NEW d \in {0, 1},
         Moved(m, r, p, d), <<r.kind, p>> \in Placed,
         r.kind # "customer" => Due(r.kind, p) = Due(r.kind, r.phase) + d
  PROVE  m \in Good(f)
<1>1. /\ r.sends \in Nat /\ Due(r.kind, p) \in Nat /\ Due(r.kind, r.phase) \in Nat
      /\ r.kind # "customer" => r.sends <= Due(r.kind, r.phase) /\ (f = 0 => r.sends = Due(r.kind, r.phase))
  BY RowFields, DueIsNat DEF Good
<1>2. m.kind = r.kind /\ m.phase = p /\ m.sends = r.sends + d
  BY DEF Moved
<1>3. r.kind # "customer" => m.sends <= Due(r.kind, p) /\ (f = 0 => m.sends = Due(r.kind, p))
  BY <1>1, <1>2
<1>. QED
  BY <1>2, <1>3 DEF Good

\* One that fails has sent no more than that.
LEMMA Falter ==
  ASSUME NEW f, NEW g, g # 0, NEW r \in Good(f), NEW m \in Row, NEW p,
         Moved(m, r, p, 0), <<r.kind, p>> \in Placed, Due(r.kind, p) >= Due(r.kind, r.phase), r.kind # "customer"
  PROVE  m \in Good(g)
<1>1. /\ r.sends \in Nat /\ Due(r.kind, p) \in Nat /\ Due(r.kind, r.phase) \in Nat
      /\ r.sends <= Due(r.kind, r.phase)
  BY RowFields, DueIsNat DEF Good
<1>2. m.kind = r.kind /\ m.phase = p /\ m.sends = r.sends + 0
  BY DEF Moved
<1>3. m.sends <= Due(r.kind, p)
  BY <1>1, <1>2
<1>. QED
  BY <1>2, <1>3 DEF Good

LEMMA Known ==
  ASSUME SentInv, NEW i \in DOMAIN rows
  PROVE  rows \in Seq(Row) /\ rows[i] \in Good(failures) /\ rows[i] \in Row
<1>1. \A f : Good(f) \subseteq Row
  BY DEF Good
<1>2. rows \in Seq(Good(failures)) /\ rows[i] \in Good(failures)
  BY ElementOfSeq, LenProperties DEF SentInv
<1>. QED
  BY <1>1, <1>2

RowsKnown == rows \in Seq(Row)

LEMMA RowsAreRows == SentInv => RowsKnown
<1>1. Good(failures) \subseteq Row
  BY DEF Good
<1>. QED
  BY <1>1 DEF SentInv, RowsKnown

Opening == CustomerWrites \/ NewMessage \/ QuickOrTemplate
DeskStep == AssignCase \/ ChangeStatus \/ AssignAgent \/ WriteStatus \/ RecordSolved \/ StatusFails \/ UNCHANGED convVars
\* The handlers' steps that write their row where it is without a failure.
CustomerGoes(i) == ReadCase(i) \/ StoreMessage(i) \/ StoppedBot(i) \/ NoAnswer(i) \/ NoteReply(i) \/ HandOver(i)
BotGoes(i)      == BotNode(i) \/ BotQueue(i)
AgentGoes(i)    == NotifyClients(i) \/ SendAgain(i) \/ MarkDelivered(i) \/ AssignCaseToUser(i)
Counts(i)       == ReadUnread(i) \/ WriteUnread(i)
Continuing(i)   == OffTime(i) \/ BotAnswers(i)
Storing(i)      == BotCreate(i) \/ AgentCreate(i)
Failing(i)      == Refused(i) \/ Fails(i)

LEMMA StepCases ==
  ASSUME [ConversationNext]_convVars
  PROVE  \/ Opening \/ DeskStep
         \/ \E i \in DOMAIN rows : \/ CustomerGoes(i) \/ BotGoes(i) \/ AgentGoes(i) \/ Counts(i)
                                   \/ Continuing(i) \/ Storing(i) \/ Failing(i)
BY DEF ConversationNext, Opening, DeskStep, CustomerGoes, BotGoes, AgentGoes, Counts, Continuing, Storing, Failing

\* A call fails only where that is counted.
LEMMA FailuresCounted ==
  ASSUME failures \in Nat
  PROVE  /\ Opening => failures' = failures
         /\ DeskStep => failures' = failures \/ failures' = failures + 1
         /\ \A i \in DOMAIN rows : CustomerGoes(i) \/ BotGoes(i) \/ AgentGoes(i) \/ Counts(i) \/ Continuing(i) \/ Storing(i)
              => failures' = failures
         /\ \A i \in DOMAIN rows : Failing(i) => failures' = failures + 1
<1>1. Opening => failures' = failures
  BY DEF Opening, CustomerWrites, NewMessage, QuickOrTemplate, Opens, Begins
<1>2. DeskStep => failures' = failures \/ failures' = failures + 1
  BY DEF DeskStep, AssignCase, ChangeStatus, AssignAgent, WriteStatus, RecordSolved, StatusFails, Begins, convVars
<1>3. ASSUME NEW i \in DOMAIN rows,
             CustomerGoes(i) \/ BotGoes(i) \/ AgentGoes(i) \/ Counts(i) \/ Continuing(i) \/ Storing(i)
      PROVE  failures' = failures
  <2>1. CASE CustomerGoes(i)
    BY <2>1 DEF CustomerGoes, ReadCase, StoreMessage, StoppedBot, NoAnswer, NoteReply, HandOver, Goes
  <2>2. CASE BotGoes(i)
    BY <2>2 DEF BotGoes, BotNode, BotQueue, Goes
  <2>3. CASE AgentGoes(i)
    BY <2>3 DEF AgentGoes, NotifyClients, SendAgain, MarkDelivered, AssignCaseToUser, Goes
  <2>4. CASE Counts(i)
    BY <2>4 DEF Counts, ReadUnread, WriteUnread
  <2>5. CASE Continuing(i)
    BY <2>5 DEF Continuing, OffTime, BotAnswers, Continues
  <2>6. CASE Storing(i)
    BY <2>6 DEF Storing, BotCreate, AgentCreate, Stores
  <2>. QED
    BY <1>3, <2>1, <2>2, <2>3, <2>4, <2>5, <2>6
<1>4. \A i \in DOMAIN rows : Failing(i) => failures' = failures + 1
  BY DEF Failing, Refused, Fails
<1>. QED
  BY <1>1, <1>2, <1>3, <1>4

LEMMA GoodGrows ==
  ASSUME NEW f \in Nat, NEW g \in Nat, g = f \/ g # 0
  PROVE  Good(f) \subseteq Good(g)
BY DEF Good

LEMMA SentStep ==
  ASSUME SentInv, [ConversationNext]_convVars
  PROVE  SentInv'
<1>0. failures \in Nat /\ rows \in Seq(Good(failures))
  BY DEF SentInv
<1> SUFFICES failures' \in Nat /\ rows' \in Seq(Good(failures'))
  BY DEF SentInv, Good
<1>1. CASE Opening
  <2>1. PICK n \in Row : /\ rows' = Append(rows, n) /\ n.sends = 0
                         /\ \/ n.kind = "customer" /\ n.phase = "coming"
                            \/ n.kind \in {"text", "quick", "template"} /\ n.phase = "create"
    BY <1>1, OpenMoves DEF Opening
  <2>2. <<n.kind, n.phase>> \in Placed /\ (n.kind # "customer" => Due(n.kind, n.phase) = 0)
    BY <2>1 DEF Placed, Due, SentTwice, SentOnce, BotKinds
  <2>3. n \in Good(failures)
    BY <2>1, <2>2 DEF Good
  <2>. QED
    BY <1>0, <1>1, <2>1, <2>3, FailuresCounted, AppendProperties
<1>2. CASE DeskStep
  <2>1. rows' = rows
    BY <1>2, ChatStays DEF DeskStep
  <2>2. failures' \in Nat /\ (failures' = failures \/ failures' # 0)
    BY <1>0, <1>2, FailuresCounted
  <2>3. Good(failures) \subseteq Good(failures')
    BY <1>0, <2>2, GoodGrows
  <2>. QED
    BY <1>0, <2>1, <2>2, <2>3
<1>3. ASSUME NEW i \in DOMAIN rows, NEW m \in Good(failures), InPlace(i, m) \/ Again(i, m), failures' = failures
      PROVE  failures' \in Nat /\ rows' \in Seq(Good(failures'))
  BY <1>0, <1>3, ChatOf
<1>4. ASSUME NEW i \in DOMAIN rows, CustomerGoes(i)
      PROVE  failures' \in Nat /\ rows' \in Seq(Good(failures'))
  <2>0. rows \in Seq(Row) /\ rows[i] \in Good(failures)
    BY Known
  <2>1. /\ rows[i].kind = "customer"
        /\ \E m \in Row, p \in {"managed", "stored", "done", "node", "handed"} : InPlace(i, m) /\ Moved(m, rows[i], p, 0)
    BY <1>4, <2>0, CustomerMoves, BecameMoved DEF CustomerGoes, At
  <2>2. PICK m \in Row, p \in {"managed", "stored", "done", "node", "handed"} : InPlace(i, m) /\ Moved(m, rows[i], p, 0)
    BY <2>1
  <2>3. <<rows[i].kind, p>> \in Placed
    BY <2>1 DEF Placed
  <2>4. m \in Good(failures)
    BY <2>0, <2>1, <2>2, <2>3, Advance
  <2>. QED
    BY <1>0, <1>3, <1>4, <2>2, <2>4, FailuresCounted
\* The places of the agents' and the bot's rows, and what is due there.
<1>5. ASSUME NEW i \in DOMAIN rows, NEW m \in Row, NEW p, NEW d \in {0, 1}, InPlace(i, m) \/ Again(i, m),
             Moved(m, rows[i], p, d), <<rows[i].kind, p>> \in Placed,
             Due(rows[i].kind, p) = Due(rows[i].kind, rows[i].phase) + d, failures' = failures
      PROVE  failures' \in Nat /\ rows' \in Seq(Good(failures'))
  <2>1. rows[i] \in Good(failures)
    BY Known
  <2>2. m \in Good(failures)
    BY <1>5, <2>1, Advance
  <2>. QED
    BY <1>3, <1>5, <2>2
<1>6. ASSUME NEW i \in DOMAIN rows, BotGoes(i)
      PROVE  failures' \in Nat /\ rows' \in Seq(Good(failures'))
  <2>0. rows \in Seq(Row) /\ failures' = failures
    BY <1>0, <1>6, Known, FailuresCounted
  <2>1. PICK m \in Row :
          /\ InPlace(i, m)
          /\ \/ rows[i].kind = "bot" /\ rows[i].phase = "node" /\ Moved(m, rows[i], "create", 0)
             \/ rows[i].kind \in BotKinds /\ rows[i].phase = "queue" /\ Moved(m, rows[i], "done", 1)
    BY <1>6, <2>0, BotMoves, BecameMoved DEF BotGoes, At
  <2>2. CASE rows[i].kind = "bot" /\ rows[i].phase = "node" /\ Moved(m, rows[i], "create", 0)
    <3>1. <<rows[i].kind, "create">> \in Placed /\ Due(rows[i].kind, "create") = 0 /\ Due(rows[i].kind, rows[i].phase) = 0
      BY <2>2 DEF Placed, Due, SentTwice, SentOnce, BotKinds
    <3>. QED
      BY <1>5, <2>0, <2>1, <2>2, <3>1
  <2>3. CASE rows[i].kind \in BotKinds /\ rows[i].phase = "queue" /\ Moved(m, rows[i], "done", 1)
    <3>1. <<rows[i].kind, "done">> \in Placed /\ Due(rows[i].kind, "done") = 1 /\ Due(rows[i].kind, rows[i].phase) = 0
      BY <2>3 DEF Placed, Due, SentTwice, SentOnce, BotKinds
    <3>. QED
      BY <1>5, <2>0, <2>1, <2>3, <3>1
  <2>. QED
    BY <2>1, <2>2, <2>3
<1>7. ASSUME NEW i \in DOMAIN rows, Storing(i)
      PROVE  failures' \in Nat /\ rows' \in Seq(Good(failures'))
  <2>0. rows \in Seq(Row) /\ failures' = failures
    BY <1>0, <1>7, Known, FailuresCounted
  <2>1. PICK m \in Row :
          /\ Again(i, m)
          /\ \/ rows[i].kind \in BotKinds /\ rows[i].phase = "create" /\ Moved(m, rows[i], "queue", 0)
             \/ /\ rows[i].kind \in AgentKinds /\ rows[i].phase = "create"
                /\ Moved(m, rows[i], IF rows[i].kind = "template" THEN "send" ELSE "notify", 0)
    BY <1>7, <2>0, BotMoves, AgentMoves, BecameMoved DEF Storing, At
  <2>2. CASE rows[i].kind \in BotKinds /\ rows[i].phase = "create" /\ Moved(m, rows[i], "queue", 0)
    <3>1. <<rows[i].kind, "queue">> \in Placed /\ Due(rows[i].kind, "queue") = 0 /\ Due(rows[i].kind, rows[i].phase) = 0
      BY <2>2 DEF Placed, Due, SentTwice, SentOnce, BotKinds
    <3>. QED
      BY <1>5, <2>0, <2>1, <2>2, <3>1
  <2>3. CASE /\ rows[i].kind \in AgentKinds /\ rows[i].phase = "create"
             /\ Moved(m, rows[i], IF rows[i].kind = "template" THEN "send" ELSE "notify", 0)
    <3> DEFINE p == IF rows[i].kind = "template" THEN "send" ELSE "notify"
    <3>1. <<rows[i].kind, p>> \in Placed /\ Due(rows[i].kind, p) = 0 /\ Due(rows[i].kind, rows[i].phase) = 0
      BY <2>3 DEF Placed, Due, SentTwice, SentOnce, AgentKinds, BotKinds
    <3>. QED
      BY <1>5, <2>0, <2>1, <2>3, <3>1
  <2>. QED
    BY <2>1, <2>2, <2>3
<1>8. ASSUME NEW i \in DOMAIN rows, AgentGoes(i)
      PROVE  failures' \in Nat /\ rows' \in Seq(Good(failures'))
  <2>0. rows \in Seq(Row) /\ failures' = failures
    BY <1>0, <1>8, Known, FailuresCounted
  <2>1. CASE NotifyClients(i)
    <3> DEFINE p == AfterNotify(rows[i].kind)
    <3>1. PICK m \in Row : InPlace(i, m) /\ rows[i].kind \in AgentKinds /\ rows[i].phase = "notify" /\ Moved(m, rows[i], p, 1)
      BY <2>0, <2>1, AgentMoves, BecameMoved DEF At
    <3>2. <<rows[i].kind, p>> \in Placed /\ Due(rows[i].kind, p) = Due(rows[i].kind, rows[i].phase) + 1
      BY <3>1 DEF Placed, Due, SentTwice, SentOnce, AgentKinds, BotKinds, AfterNotify
    <3>. QED
      BY <1>5, <2>0, <3>1, <3>2
  <2>2. CASE SendAgain(i)
    <3>1. PICK m \in Row : InPlace(i, m) /\ rows[i].kind \in {"quick", "template"} /\ rows[i].phase = "send"
                            /\ Moved(m, rows[i], "sent", 1)
      BY <2>0, <2>2, AgentMoves, BecameMoved DEF At
    <3>2. <<rows[i].kind, "sent">> \in Placed /\ Due(rows[i].kind, "sent") = Due(rows[i].kind, rows[i].phase) + 1
      BY <3>1 DEF Placed, Due, SentTwice, SentOnce, BotKinds
    <3>. QED
      BY <1>5, <2>0, <3>1, <3>2
  <2>3. CASE MarkDelivered(i)
    <3> DEFINE p == IF rows[i].kind = "quick" THEN "assign" ELSE "notify"
    <3>1. PICK m \in Row : InPlace(i, m) /\ rows[i].kind \in {"quick", "template"} /\ rows[i].phase = "sent"
                            /\ Moved(m, rows[i], p, 0)
      BY <2>0, <2>3, AgentMoves, BecameMoved DEF At
    <3>2. <<rows[i].kind, p>> \in Placed /\ Due(rows[i].kind, p) = Due(rows[i].kind, rows[i].phase) + 0
      BY <3>1 DEF Placed, Due, SentTwice, SentOnce, BotKinds
    <3>. QED
      BY <1>5, <2>0, <3>1, <3>2
  <2>4. CASE AssignCaseToUser(i)
    <3>1. PICK m \in Row : InPlace(i, m) /\ rows[i].kind \in {"quick", "template"} /\ rows[i].phase = "assign"
                            /\ Moved(m, rows[i], "done", 0)
      BY <2>0, <2>4, AgentMoves, BecameMoved DEF At
    <3>2. <<rows[i].kind, "done">> \in Placed /\ Due(rows[i].kind, "done") = Due(rows[i].kind, rows[i].phase) + 0
      BY <3>1 DEF Placed, Due, SentTwice, SentOnce, BotKinds
    <3>. QED
      BY <1>5, <2>0, <3>1, <3>2
  <2>. QED
    BY <1>8, <2>1, <2>2, <2>3, <2>4 DEF AgentGoes
<1>9. ASSUME NEW i \in DOMAIN rows, Counts(i)
      PROVE  failures' \in Nat /\ rows' \in Seq(Good(failures'))
  <2>0. rows \in Seq(Row) /\ failures' = failures /\ rows[i] \in Good(failures)
    BY <1>0, <1>9, Known, FailuresCounted
  <2>1. PICK m \in Row : InPlace(i, m) /\ Moved(m, rows[i], rows[i].phase, 0)
    BY <1>9, <2>0, NoteMoves, BecameMoved DEF Counts
  <2>2. /\ <<rows[i].kind, rows[i].phase>> \in Placed
        /\ Due(rows[i].kind, rows[i].phase) = Due(rows[i].kind, rows[i].phase) + 0
    BY <2>0, DueIsNat DEF Good
  <2>. QED
    BY <1>5, <2>0, <2>1, <2>2
<1>10. ASSUME NEW i \in DOMAIN rows, Continuing(i)
      PROVE  failures' \in Nat /\ rows' \in Seq(Good(failures'))
  <2>0. rows \in Seq(Row) /\ failures' = failures /\ rows[i] \in Good(failures)
    BY <1>0, <1>10, Known, FailuresCounted
  <2>1. PICK m \in Row, n \in Row :
          /\ rows[i].kind = "customer" /\ Both(i, m, n) /\ Moved(m, rows[i], "done", 0)
          /\ \/ n.kind = "notice" /\ n.phase = "create"
             \/ n.kind = "bot" /\ n.phase = "node"
          /\ n.sends = 0
    BY <1>10, <2>0, BotMoves, BecameMoved DEF Continuing, At
  <2>2. <<rows[i].kind, "done">> \in Placed
    BY <2>1 DEF Placed
  <2>3. m \in Good(failures)
    BY <2>0, <2>1, <2>2, Advance
  <2>4. <<n.kind, n.phase>> \in Placed /\ Due(n.kind, n.phase) = 0
    BY <2>1 DEF Placed, Due, SentTwice, SentOnce, BotKinds
  <2>5. n \in Good(failures)
    BY <2>1, <2>4 DEF Good
  <2>. QED
    BY <1>0, <2>0, <2>1, <2>3, <2>5, ChatOf
<1>11. ASSUME NEW i \in DOMAIN rows, Failing(i)
      PROVE  failures' \in Nat /\ rows' \in Seq(Good(failures'))
  <2>0. rows \in Seq(Row) /\ rows[i] \in Good(failures) /\ failures' \in Nat /\ failures' # 0
    BY <1>0, <1>11, Known, FailuresCounted
  <2>1. PICK m \in Row, p \in {AfterNotify(rows[i].kind), "sent", "assign", "done"} :
          /\ InPlace(i, m) /\ Moved(m, rows[i], p, 0)
          /\ \/ rows[i].kind \in AgentKinds /\ rows[i].phase = "notify" /\ p = AfterNotify(rows[i].kind)
             \/ rows[i].kind \in {"quick", "template"} /\ rows[i].phase = "send" /\ p = "sent"
             \/ rows[i].kind = "quick" /\ rows[i].phase \in {"create", "notify", "sent"} /\ p = "assign"
             \/ rows[i].kind = "template" /\ rows[i].phase \in {"create", "send", "sent", "notify"} /\ p = "done"
             \/ rows[i].kind = "text" /\ rows[i].phase \in {"create", "notify"} /\ p = "done"
             \/ rows[i].kind \in BotKinds /\ rows[i].phase \in {"node", "create", "queue"} /\ p = "done"
    BY <1>11, <2>0, FailMoves, BecameMoved DEF Failing, At
  <2>2. /\ <<rows[i].kind, p>> \in Placed /\ rows[i].kind # "customer"
        /\ Due(rows[i].kind, p) >= Due(rows[i].kind, rows[i].phase)
    BY <2>1 DEF Placed, Due, SentTwice, SentOnce, BotKinds, AgentKinds, AfterNotify
  <2>3. m \in Good(failures')
    BY <2>0, <2>1, <2>2, Falter
  <2>4. rows \in Seq(Good(failures'))
    <3>1. Good(failures) \subseteq Good(failures')
      BY <1>0, <2>0, GoodGrows
    <3>. QED
      BY <1>0, <3>1
  <2>. QED
    BY <2>0, <2>1, <2>3, <2>4, ChatOf
<1>. QED
  BY <1>1, <1>2, <1>4, <1>6, <1>7, <1>8, <1>9, <1>10, <1>11, StepCases

LEMMA SentInit == ConversationInit => SentInv
BY DEF ConversationInit, SentInv

\* If every call succeeds the customer gets what the bot says and what an agent types once,
\* a quick message and a template twice; whatever fails, never more often: for any number
\* of rows and of handlers beside each other.
THEOREM SentAsOften == ConversationSpec => []CustomerGets
<1>1. SentInv => CustomerGets
  <2> SUFFICES ASSUME SentInv, NEW i \in DOMAIN rows, rows[i].kind # "customer"
               PROVE  /\ rows[i].sends <= Times(rows[i])
                      /\ (QuietDesk /\ failures = 0) => rows[i].sends = Times(rows[i])
    BY DEF CustomerGets
  <2>1. rows[i] \in Good(failures)
    BY Known
  <2>2. /\ <<rows[i].kind, rows[i].phase>> \in Placed /\ rows[i].sends \in Nat
        /\ rows[i].sends <= Due(rows[i].kind, rows[i].phase)
        /\ failures = 0 => rows[i].sends = Due(rows[i].kind, rows[i].phase)
    BY <2>1, RowFields DEF Good
  <2>3. Due(rows[i].kind, rows[i].phase) <= Times(rows[i])
    BY <2>2 DEF Placed, Due, SentTwice, SentOnce, Times
  <2>4. rows[i].phase = "done" => Due(rows[i].kind, rows[i].phase) = Times(rows[i])
    BY <2>2 DEF Placed, Due, SentTwice, SentOnce, Times
  <2>5. QuietDesk => rows[i].phase = "done"
    BY DEF QuietDesk, Working
  <2>6. Times(rows[i]) \in Nat /\ Due(rows[i].kind, rows[i].phase) \in Nat
    BY DueIsNat DEF Times
  <2>7. rows[i].sends <= Times(rows[i])
    BY <2>2, <2>3, <2>6
  <2>. QED
    BY <2>2, <2>4, <2>5, <2>7
<1>. QED
  BY <1>1, SentInit, SentStep, PTL DEF ConversationSpec

-----------------------------------------------------------------------------
(* The answers of the bot that are begun *)

Talks(r) ==
  \/ r.kind = "customer" /\ r.answers = "bot" /\ r.phase \in {"managed", "stored", "node", "handed"}
  \/ r.kind = "bot" /\ r.phase \in {"node", "create"}
BegunOf(s) == {i \in 1..Len(s) : Talks(s[i])}
Answering(s) == Cardinality(BegunOf(s))

LEMMA AnsweringIsNat ==
  ASSUME NEW s \in Seq(Row)
  PROVE  IsFiniteSet(BegunOf(s)) /\ Answering(s) \in Nat
<1>1. Len(s) \in Nat
  OBVIOUS
<1>2. IsFiniteSet(1..Len(s))
  BY <1>1, FS_Interval
<1>3. BegunOf(s) \subseteq 1..Len(s)
  BY DEF BegunOf
<1>4. IsFiniteSet(BegunOf(s))
  BY <1>2, <1>3, FS_Subset
<1>. QED
  BY <1>4, FS_CardinalityType DEF Answering

LEMMA AppendAnswering ==
  ASSUME NEW s \in Seq(Row), NEW m \in Row
  PROVE  /\ Talks(m) => Answering(Append(s, m)) = Answering(s) + 1
         /\ ~Talks(m) => Answering(Append(s, m)) = Answering(s)
<1> DEFINE t == Append(s, m)
<1>1. /\ Len(s) \in Nat /\ Len(t) = Len(s) + 1 /\ t[Len(s) + 1] = m
      /\ \A j \in 1..Len(s) : t[j] = s[j]
  OBVIOUS
<1> HIDE DEF t
<1>2. CASE Talks(m)
  <2>1. BegunOf(t) = BegunOf(s) \cup {Len(s) + 1} /\ Len(s) + 1 \notin BegunOf(s)
    BY <1>1, <1>2 DEF BegunOf
  <2>. QED
    BY <1>2, <2>1, AnsweringIsNat, FS_AddElement DEF Answering, t
<1>3. CASE ~Talks(m)
  <2>1. BegunOf(t) = BegunOf(s)
    BY <1>1, <1>3 DEF BegunOf
  <2>. QED
    BY <1>3, <2>1 DEF Answering, t
<1>. QED
  BY <1>2, <1>3

LEMMA TurnAnswering ==
  ASSUME NEW s \in Seq(Row), NEW i \in 1..Len(s), NEW m \in Row, Talks(m) => Talks(s[i])
  PROVE  LET t == [s EXCEPT ![i] = m]
         IN  /\ t \in Seq(Row) /\ Len(t) = Len(s) /\ Answering(t) <= Answering(s)
             /\ Talks(s[i]) /\ ~Talks(m) => Answering(t) = Answering(s) - 1
<1> DEFINE t == [s EXCEPT ![i] = m]
<1>1. t \in Seq(Row) /\ Len(t) = Len(s) /\ t[i] = m /\ \A j \in 1..Len(s) : j # i => t[j] = s[j]
  OBVIOUS
<1> HIDE DEF t
<1>2. IsFiniteSet(BegunOf(s)) /\ Answering(s) \in Nat
  BY AnsweringIsNat
<1>3. CASE Talks(m) \/ ~Talks(s[i])
  <2>1. BegunOf(t) = BegunOf(s)
    BY <1>1, <1>3 DEF BegunOf
  <2>2. Answering(t) = Answering(s) /\ Answering(t) <= Answering(s)
    BY <1>2, <2>1 DEF Answering
  <2>. QED
    BY <1>1, <1>3, <2>2 DEF t
<1>4. CASE ~Talks(m) /\ Talks(s[i])
  <2>1. BegunOf(t) = BegunOf(s) \ {i} /\ i \in BegunOf(s)
    BY <1>1, <1>4 DEF BegunOf
  <2>2. Answering(t) = Answering(s) - 1
    BY <1>2, <2>1, FS_RemoveElement DEF Answering
  <2>3. Answering(t) <= Answering(s)
    BY <1>2, <2>2
  <2>. QED
    BY <1>1, <2>2, <2>3 DEF t
<1>. QED
  BY <1>3, <1>4

\* Where a row moves to when the row at i is taken out.
LEMMA RemoveAnswering ==
  ASSUME NEW s \in Seq(Row), NEW i \in 1..Len(s)
  PROVE  /\ RemoveAt(s, i) \in Seq(Row)
         /\ Talks(s[i]) => Answering(RemoveAt(s, i)) = Answering(s) - 1
         /\ ~Talks(s[i]) => Answering(RemoveAt(s, i)) = Answering(s)
<1> DEFINE t == RemoveAt(s, i)
<1>1. /\ t \in Seq(Row) /\ Len(t) = Len(s) - 1 /\ Len(s) \in Nat
      /\ \A j \in 1..(Len(s) - 1) : t[j] = IF j < i THEN s[j] ELSE s[j + 1]
  BY Removed
<1> HIDE DEF t
<1>2. IsFiniteSet(BegunOf(s)) /\ Answering(s) \in Nat
  BY AnsweringIsNat
<1> DEFINE B == BegunOf(s) \ {i}
           f == [j \in BegunOf(t) |-> IF j < i THEN j ELSE j + 1]
<1>3. \A j \in BegunOf(t) : f[j] \in B
  BY <1>1 DEF BegunOf
<1>4. \A j, k \in BegunOf(t) : f[j] = f[k] => j = k
  BY <1>1 DEF BegunOf
<1>5. ASSUME NEW k \in B PROVE \E j \in BegunOf(t) : f[j] = k
  <2>1. k \in 1..Len(s) /\ k # i /\ Talks(s[k])
    BY DEF BegunOf
  <2>2. CASE k < i
    <3>1. k \in BegunOf(t) /\ f[k] = k
      BY <1>1, <2>1, <2>2 DEF BegunOf
    <3>. QED
      BY <3>1
  <2>3. CASE ~(k < i)
    <3>1. k - 1 \in 1..(Len(s) - 1) /\ ~(k - 1 < i) /\ (k - 1) + 1 = k
      BY <1>1, <2>1, <2>3
    <3>2. t[k - 1] = s[k]
      BY <1>1, <3>1
    <3>3. k - 1 \in BegunOf(t)
      BY <1>1, <2>1, <3>1, <3>2 DEF BegunOf
    <3>4. f[k - 1] = k
      BY <3>1, <3>3
    <3>. QED
      BY <3>3, <3>4
  <2>. QED
    BY <2>2, <2>3
<1>6. f \in Bijection(BegunOf(t), B)
  <2>1. f \in [BegunOf(t) -> B]
    BY <1>3
  <2>2. f \in Injection(BegunOf(t), B)
    BY <1>4, <2>1 DEF Injection, IsInjective
  <2>3. f \in Surjection(BegunOf(t), B)
    BY <1>5, <2>1 DEF Surjection
  <2>. QED
    BY <2>2, <2>3 DEF Bijection
<1> HIDE DEF f
<1>7. IsFiniteSet(B) /\ IsFiniteSet(BegunOf(t))
  BY <1>1, <1>2, FS_Subset, AnsweringIsNat
<1>8. ExistsBijection(BegunOf(t), B)
  BY <1>6 DEF ExistsBijection
<1>9. Cardinality(BegunOf(t)) = Cardinality(B)
  BY <1>7, <1>8, FS_Bijection
<1>10. CASE Talks(s[i])
  <2>1. i \in BegunOf(s)
    BY <1>10 DEF BegunOf
  <2>2. Answering(t) = Answering(s) - 1
    BY <1>2, <1>9, <2>1, FS_RemoveElement DEF Answering
  <2>. QED
    BY <1>1, <1>10, <2>2 DEF t
<1>11. CASE ~Talks(s[i])
  <2>1. B = BegunOf(s)
    BY <1>11 DEF BegunOf
  <2>2. Answering(t) = Answering(s)
    BY <1>9, <2>1 DEF Answering
  <2>. QED
    BY <1>1, <1>11, <2>2 DEF t
<1>. QED
  BY <1>10, <1>11

\* A step that begins no answer.
Fewer == Answering(rows') <= Answering(rows)

LEMMA MoveAnswering ==
  ASSUME rows \in Seq(Row), NEW i \in DOMAIN rows, NEW m \in Row, Talks(m) => Talks(rows[i])
  PROVE  /\ InPlace(i, m) => Fewer
         /\ Again(i, m) => Fewer
         /\ Again(i, m) /\ Talks(rows[i]) /\ ~Talks(m) => Answering(rows') = Answering(rows) - 1
         /\ \A n \in Row : Both(i, m, n) /\ ~Talks(m) /\ (Talks(n) => Talks(rows[i])) => Fewer
<1>0. i \in 1..Len(rows) /\ Answering(rows) \in Nat
  BY RowOf, AnsweringIsNat
<1>1. InPlace(i, m) => Fewer
  BY <1>0, TurnAnswering DEF InPlace, Fewer
<1>2. ASSUME Again(i, m)
      PROVE  Fewer /\ (Talks(rows[i]) /\ ~Talks(m) => Answering(rows') = Answering(rows) - 1)
  <2> DEFINE t == RemoveAt(rows, i)
  <2>1. /\ t \in Seq(Row)
        /\ Talks(rows[i]) => Answering(t) = Answering(rows) - 1
        /\ ~Talks(rows[i]) => Answering(t) = Answering(rows)
    BY <1>0, RemoveAnswering
  <2>2. rows' = Append(t, m)
    BY <1>2 DEF Again
  <2> HIDE DEF t
  <2>3. /\ Talks(m) => Answering(rows') = Answering(t) + 1
        /\ ~Talks(m) => Answering(rows') = Answering(t)
    BY <2>1, <2>2, AppendAnswering
  <2>. QED
    BY <1>0, <2>1, <2>3 DEF Fewer
<1>3. ASSUME NEW n \in Row, Both(i, m, n), ~Talks(m), Talks(n) => Talks(rows[i])
      PROVE  Fewer
  <2> DEFINE t == [rows EXCEPT ![i] = m]
  <2>1. /\ t \in Seq(Row) /\ Answering(t) <= Answering(rows)
        /\ Talks(rows[i]) => Answering(t) = Answering(rows) - 1
    BY <1>0, <1>3, TurnAnswering
  <2>2. rows' = Append(t, n)
    BY <1>3 DEF Both
  <2> HIDE DEF t
  <2>3. /\ Talks(n) => Answering(rows') = Answering(t) + 1
        /\ ~Talks(n) => Answering(rows') = Answering(t)
    BY <2>1, <2>2, AppendAnswering
  <2>4. Answering(t) \in Nat
    BY <2>1, AnsweringIsNat
  <2>. QED
    BY <1>0, <1>3, <2>1, <2>3, <2>4 DEF Fewer
<1>. QED
  BY <1>1, <1>2, <1>3

\* What a step does to the desk and to the recorded counts.
Keeps    == talkedIn' = talkedIn /\ underWay' = underWay /\ desk' \in {desk, "BOT"}
GivesUp  == /\ talkedIn' = talkedIn /\ desk' = "USER"
            /\ underWay' = IF desk = "USER" THEN underWay ELSE underWay + Answering(rows)
TakesBot == talkedIn' = talkedIn /\ underWay' = underWay /\ desk' = "BOT"
TalksIn  == /\ Answering(rows') = Answering(rows) - 1 /\ underWay' = underWay /\ desk' = desk
            /\ talkedIn' = IF desk = "USER" THEN talkedIn + 1 ELSE talkedIn

\* While an agent has the case, no more is begun than was when the agent got it.
TalkInv ==
  /\ talkedIn \in Nat /\ underWay \in Nat /\ talkedIn <= underWay
  /\ desk = "USER" => talkedIn + Answering(rows) <= underWay

LEMMA AgentGets ==
  ASSUME rows \in Seq(Row), ToAgent, talkedIn' = talkedIn
  PROVE  GivesUp
<1>1. Begun = BegunOf(rows)
  <2>1. DOMAIN rows = 1..Len(rows)
    BY LenProperties
  <2>. QED
    BY <2>1 DEF Begun, BegunOf, Talks
<1>. QED
  BY <1>1 DEF ToAgent, GivesUp, Answering

LEMMA TalkMoves ==
  ASSUME SentInv, [ConversationNext]_convVars
  PROVE  (Fewer /\ (Keeps \/ GivesUp)) \/ TakesBot \/ TalksIn
<1>0. rows \in Seq(Row)
  BY RowsAreRows DEF RowsKnown
<1>1. CASE Opening
  <2>1. PICK n \in Row : rows' = Append(rows, n) /\ n.kind \in {"customer", "text", "quick", "template"} /\ n.answers = "none"
    BY <1>1, OpenMoves DEF Opening
  <2>2. Fewer
    <3>1. ~Talks(n)
      BY <2>1 DEF Talks
    <3>2. Answering(rows') = Answering(rows) /\ Answering(rows) \in Nat
      BY <1>0, <2>1, <3>1, AppendAnswering, AnsweringIsNat
    <3>. QED
      BY <3>2 DEF Fewer
  <2>3. CASE CustomerWrites \/ QuickOrTemplate
    BY <2>2, <2>3 DEF CustomerWrites, QuickOrTemplate, Keeps
  <2>4. CASE NewMessage
    <3>1. ToAgent /\ talkedIn' = talkedIn
      BY <2>4 DEF NewMessage
    <3>. QED
      BY <1>0, <2>2, <3>1, AgentGets
  <2>. QED
    BY <1>1, <2>3, <2>4 DEF Opening
<1>2. CASE DeskStep
  <2>1. Fewer
    <3>1. rows' = rows /\ Answering(rows) \in Nat
      BY <1>0, <1>2, ChatStays, AnsweringIsNat DEF DeskStep
    <3>. QED
      BY <3>1 DEF Fewer
  <2>2. (ToAgent /\ talkedIn' = talkedIn) \/ Keeps
    <3>1. CASE AssignCase
      BY <3>1 DEF AssignCase, Keeps
    <3>2. CASE WriteStatus
      BY <3>2 DEF WriteStatus, Keeps
    <3>3. CASE AssignAgent
      BY <3>3 DEF AssignAgent
    <3>4. CASE ChangeStatus \/ RecordSolved \/ StatusFails \/ UNCHANGED convVars
      BY <3>4 DEF ChangeStatus, RecordSolved, StatusFails, convVars, Keeps
    <3>. QED
      BY <1>2, <3>1, <3>2, <3>3, <3>4 DEF DeskStep
  <2>. QED
    BY <1>0, <2>1, <2>2, AgentGets
<1>3. ASSUME NEW i \in DOMAIN rows, ReadCase(i)
      PROVE  (Fewer /\ Keeps) \/ TakesBot
  <2>1. PICK m \in Row, a \in {"none", "bot", "stop"} :
          /\ rows[i].kind = "customer" /\ rows[i].phase = "coming" /\ InPlace(i, m)
          /\ m.kind = "customer" /\ m.answers = a /\ (a = "bot" => desk' = "BOT")
    BY <1>0, <1>3, CustomerMoves DEF At, Became
  <2>2. Keeps
    BY <1>3 DEF ReadCase, Keeps
  <2>3. CASE a = "bot"
    BY <2>1, <2>2, <2>3 DEF Keeps, TakesBot
  <2>4. CASE a # "bot"
    <3>1. ~Talks(m)
      BY <2>1, <2>4 DEF Talks
    <3>. QED
      BY <1>0, <2>1, <2>2, <3>1, MoveAnswering
  <2>. QED
    BY <2>3, <2>4
<1>4. ASSUME NEW i \in DOMAIN rows, StoreMessage(i) \/ StoppedBot(i) \/ NoAnswer(i) \/ NoteReply(i) \/ HandOver(i)
      PROVE  Fewer /\ (Keeps \/ GivesUp)
  <2>1. PICK m \in Row :
          /\ InPlace(i, m) /\ rows[i].kind = "customer" /\ m.kind = "customer"
          /\ \/ rows[i].phase = "managed" /\ m.phase = "stored" /\ m.answers = rows[i].answers
             \/ rows[i].phase = "stored" /\ rows[i].answers = "bot"
             \/ rows[i].phase = "node" /\ m.answers = rows[i].answers
             \/ m.phase = "done"
    BY <1>0, <1>4, CustomerMoves DEF At, Became
  <2>2. Fewer
    <3>1. Talks(m) => Talks(rows[i])
      BY <2>1 DEF Talks
    <3>. QED
      BY <1>0, <2>1, <3>1, MoveAnswering
  <2>3. (ToAgent /\ talkedIn' = talkedIn) \/ Keeps
    <3>1. CASE StoppedBot(i) \/ HandOver(i)
      BY <3>1 DEF StoppedBot, HandOver
    <3>2. CASE StoreMessage(i) \/ NoAnswer(i) \/ NoteReply(i)
      BY <3>2 DEF StoreMessage, NoAnswer, NoteReply, Keeps
    <3>. QED
      BY <1>4, <3>1, <3>2
  <2>. QED
    BY <1>0, <2>2, <2>3, AgentGets
<1>5. ASSUME NEW i \in DOMAIN rows, BotGoes(i)
      PROVE  Fewer /\ (Keeps \/ GivesUp)
  <2>1. PICK m \in Row :
          /\ InPlace(i, m) /\ m.kind = rows[i].kind
          /\ \/ rows[i].kind = "bot" /\ rows[i].phase = "node" /\ m.phase = "create"
             \/ m.kind \in BotKinds /\ m.phase = "done"
    BY <1>0, <1>5, BotMoves DEF BotGoes, At, Became
  <2>2. Fewer
    <3>1. Talks(m) => Talks(rows[i])
      BY <2>1 DEF Talks, BotKinds
    <3>. QED
      BY <1>0, <2>1, <3>1, MoveAnswering
  <2>3. (ToAgent /\ talkedIn' = talkedIn) \/ Keeps
    <3>1. CASE BotNode(i)
      BY <3>1 DEF BotNode, Keeps
    <3>2. CASE BotQueue(i)
      BY <3>2 DEF BotQueue, Keeps
    <3>. QED
      BY <1>5, <3>1, <3>2 DEF BotGoes
  <2>. QED
    BY <1>0, <2>2, <2>3, AgentGets
<1>6. ASSUME NEW i \in DOMAIN rows, AgentGoes(i)
      PROVE  Fewer /\ (Keeps \/ GivesUp)
  <2>1. PICK m \in Row : InPlace(i, m) /\ m.kind = rows[i].kind /\ rows[i].kind \in AgentKinds
    BY <1>0, <1>6, AgentMoves DEF AgentGoes, At, Became, AgentKinds
  <2>2. Fewer
    <3>1. ~Talks(m)
      BY <2>1 DEF Talks, AgentKinds
    <3>. QED
      BY <1>0, <2>1, <3>1, MoveAnswering
  <2>3. (ToAgent /\ talkedIn' = talkedIn) \/ Keeps
    <3>1. CASE AssignCaseToUser(i)
      BY <3>1 DEF AssignCaseToUser
    <3>2. CASE NotifyClients(i) \/ SendAgain(i) \/ MarkDelivered(i)
      BY <3>2 DEF NotifyClients, SendAgain, MarkDelivered, Keeps
    <3>. QED
      BY <1>6, <3>1, <3>2 DEF AgentGoes
  <2>. QED
    BY <1>0, <2>2, <2>3, AgentGets
<1>7. ASSUME NEW i \in DOMAIN rows, Counts(i)
      PROVE  Fewer /\ Keeps
  <2>1. PICK m \in Row : InPlace(i, m) /\ m.kind = rows[i].kind /\ m.phase = rows[i].phase /\ m.answers = rows[i].answers
    BY <1>0, <1>7, NoteMoves DEF Counts, Became
  <2>2. Fewer
    <3>1. Talks(m) => Talks(rows[i])
      BY <2>1 DEF Talks
    <3>. QED
      BY <1>0, <2>1, <3>1, MoveAnswering
  <2>3. Keeps
    BY <1>7 DEF Counts, ReadUnread, WriteUnread, Keeps
  <2>. QED
    BY <2>2, <2>3
<1>8. ASSUME NEW i \in DOMAIN rows, Continuing(i)
      PROVE  Fewer /\ Keeps
  <2>1. PICK m \in Row, n \in Row :
          /\ Both(i, m, n) /\ rows[i].kind = "customer" /\ rows[i].phase \in {"stored", "node", "handed"}
          /\ m.kind = "customer" /\ m.phase = "done"
          /\ \/ n.kind = "notice"
             \/ n.kind = "bot" /\ rows[i].answers = "bot"
    BY <1>0, <1>8, BotMoves DEF Continuing, At, Became
  <2>2. Fewer
    <3>1. ~Talks(m) /\ (Talks(n) => Talks(rows[i]))
      BY <2>1 DEF Talks
    <3>. QED
      BY <1>0, <2>1, <3>1, MoveAnswering
  <2>3. Keeps
    BY <1>8 DEF Continuing, OffTime, BotAnswers, Keeps
  <2>. QED
    BY <2>2, <2>3
<1>9. ASSUME NEW i \in DOMAIN rows, AgentCreate(i)
      PROVE  Fewer /\ Keeps
  <2>1. PICK m \in Row : Again(i, m) /\ m.kind = rows[i].kind /\ rows[i].kind \in AgentKinds
    BY <1>0, <1>9, AgentMoves DEF At, Became
  <2>2. Fewer
    <3>1. ~Talks(m)
      BY <2>1 DEF Talks, AgentKinds
    <3>. QED
      BY <1>0, <2>1, <3>1, MoveAnswering
  <2>3. Keeps
    BY <1>9 DEF AgentCreate, Keeps
  <2>. QED
    BY <2>2, <2>3
\* The answer is written.
<1>10. ASSUME NEW i \in DOMAIN rows, BotCreate(i)
      PROVE  (Fewer /\ Keeps) \/ TalksIn
  <2>1. PICK m \in Row : /\ Again(i, m) /\ m.kind = rows[i].kind /\ m.phase = "queue"
                         /\ rows[i].kind \in BotKinds /\ rows[i].phase = "create"
    BY <1>0, <1>10, BotMoves DEF At, Became
  <2>2. ~Talks(m)
    BY <2>1 DEF Talks, BotKinds
  <2>3. underWay' = underWay /\ desk' = desk
        /\ talkedIn' = IF desk = "USER" /\ rows[i].kind = "bot" THEN talkedIn + 1 ELSE talkedIn
    BY <1>10 DEF BotCreate
  <2>4. CASE rows[i].kind = "bot"
    <3>1. Talks(rows[i])
      BY <2>1, <2>4 DEF Talks
    <3>2. Answering(rows') = Answering(rows) - 1
      BY <1>0, <2>1, <2>2, <3>1, MoveAnswering
    <3>. QED
      BY <2>3, <2>4, <3>2 DEF TalksIn
  <2>5. CASE rows[i].kind # "bot"
    <3>1. Fewer
      BY <1>0, <2>1, <2>2, MoveAnswering
    <3>. QED
      BY <2>3, <2>5, <3>1 DEF Keeps
  <2>. QED
    BY <2>4, <2>5
<1>11. ASSUME NEW i \in DOMAIN rows, Failing(i)
      PROVE  Fewer /\ Keeps
  <2>1. PICK m \in Row : /\ InPlace(i, m) /\ m.kind = rows[i].kind
                         /\ \/ m.kind \in AgentKinds
                            \/ m.kind \in BotKinds /\ m.phase = "done"
    BY <1>0, <1>11, FailMoves DEF Failing, At, Became, AgentKinds
  <2>2. Fewer
    <3>1. ~Talks(m)
      BY <2>1 DEF Talks, AgentKinds, BotKinds
    <3>. QED
      BY <1>0, <2>1, <3>1, MoveAnswering
  <2>3. Keeps
    BY <1>11 DEF Failing, Refused, Fails, Keeps
  <2>. QED
    BY <2>2, <2>3
<1>. QED
  BY <1>1, <1>2, <1>3, <1>4, <1>5, <1>6, <1>7, <1>8, <1>9, <1>10, <1>11, StepCases
     DEF CustomerGoes, Storing

LEMMA TalkStep ==
  ASSUME SentInv, TalkInv, [ConversationNext]_convVars
  PROVE  TalkInv'
<1>0. rows \in Seq(Row) /\ rows' \in Seq(Row)
  <2>1. RowsKnown /\ RowsKnown'
    BY RowsAreRows, SentStep, PTL
  <2>. QED
    BY <2>1 DEF RowsKnown, Row
<1>1. Answering(rows) \in Nat /\ Answering(rows') \in Nat
  BY <1>0, AnsweringIsNat
<1>2. /\ talkedIn \in Nat /\ underWay \in Nat /\ talkedIn <= underWay
      /\ desk = "USER" => talkedIn + Answering(rows) <= underWay
  BY DEF TalkInv
<1> SUFFICES /\ talkedIn' \in Nat /\ underWay' \in Nat /\ talkedIn' <= underWay'
             /\ desk' = "USER" => talkedIn' + Answering(rows') <= underWay'
  BY DEF TalkInv, Answering, BegunOf, Talks
<1>3. CASE Fewer /\ Keeps
  BY <1>1, <1>2, <1>3 DEF Fewer, Keeps
<1>4. CASE Fewer /\ GivesUp
  <2>1. CASE desk = "USER"
    BY <1>1, <1>2, <1>4, <2>1 DEF Fewer, GivesUp
  <2>2. CASE desk # "USER"
    BY <1>1, <1>2, <1>4, <2>2 DEF Fewer, GivesUp
  <2>. QED
    BY <2>1, <2>2
<1>5. CASE TakesBot
  BY <1>1, <1>2, <1>5 DEF TakesBot
<1>6. CASE TalksIn
  <2>1. CASE desk = "USER"
    BY <1>1, <1>2, <1>6, <2>1 DEF TalksIn
  <2>2. CASE desk # "USER"
    BY <1>1, <1>2, <1>6, <2>2 DEF TalksIn
  <2>. QED
    BY <2>1, <2>2
<1>. QED
  BY <1>3, <1>4, <1>5, <1>6, TalkMoves

\* The bot speaks while an agent has the case only with answers whose handlers were begun
\* before the agent got it: for any number of messages and of handlers beside each other.
\* The handler that hands the case over itself, and then sends its buttons into it, is one
\* of them (customer.service 652-655, 739-741).
THEOREM TalkingOverIsBounded == ConversationSpec => []BotTalksOver
<1>1. ConversationInit => TalkInv
  <2> SUFFICES ASSUME ConversationInit PROVE TalkInv
    OBVIOUS
  <2>1. talkedIn = 0 /\ underWay = 0 /\ desk = "BOT"
    BY DEF ConversationInit
  <2>. QED
    BY <2>1 DEF TalkInv
<1>2. TalkInv => BotTalksOver
  BY DEF TalkInv, BotTalksOver
<1>. QED
  BY <1>1, <1>2, SentInit, SentStep, TalkStep, PTL DEF ConversationSpec

-----------------------------------------------------------------------------
(* Types *)

Bounded == overlaps \in 0..MaxOverlaps /\ failures \in 0..MaxFailures
Typed ==
  /\ unread \in Nat \cup {Unset} /\ desk \in {"BOT", "USER"} /\ node \in {"plain", "question", "stop"}
  /\ clerk \in {"none", "agentRead", "assigned", "botRead", "record"}
Flag == solved \in BOOLEAN
Fits == Len(rows) <= MaxRows

LEMMA FitsStep ==
  ASSUME SentInv, Fits, [ConversationNext]_convVars
  PROVE  Fits'
<1>0. rows \in Seq(Row) /\ Len(rows) \in Nat /\ Len(rows) <= MaxRows
  BY RowsAreRows, LenProperties DEF RowsKnown, Fits
<1> SUFFICES Len(rows') <= MaxRows
  BY DEF Fits
<1>1. CASE Opening
  <2>1. PICK n \in Row : rows' = Append(rows, n) /\ Len(rows) < MaxRows
    BY <1>1, OpenMoves DEF Opening
  <2>2. Len(rows') = Len(rows) + 1
    BY <1>0, <2>1, AppendProperties
  <2>. QED
    BY <1>0, <2>1, <2>2
<1>2. CASE DeskStep
  BY <1>0, <1>2, ChatStays DEF DeskStep
<1>3. ASSUME NEW i \in DOMAIN rows, CustomerGoes(i) \/ BotGoes(i) \/ AgentGoes(i) \/ Counts(i) \/ Failing(i)
      PROVE  Len(rows') <= MaxRows
  <2>1. \E m \in Row : InPlace(i, m)
    <3>1. CASE CustomerGoes(i)
      BY <1>0, <3>1, CustomerMoves DEF CustomerGoes
    <3>2. CASE BotGoes(i)
      BY <1>0, <3>2, BotMoves DEF BotGoes
    <3>3. CASE AgentGoes(i)
      BY <1>0, <3>3, AgentMoves DEF AgentGoes
    <3>4. CASE Counts(i)
      BY <1>0, <3>4, NoteMoves DEF Counts
    <3>5. CASE Failing(i)
      BY <1>0, <3>5, FailMoves DEF Failing
    <3>. QED
      BY <1>3, <3>1, <3>2, <3>3, <3>4, <3>5
  <2>. QED
    BY <1>0, <2>1, ChatOf
<1>4. ASSUME NEW i \in DOMAIN rows, Storing(i)
      PROVE  Len(rows') <= MaxRows
  <2>1. \E m \in Row : Again(i, m)
    <3>1. CASE BotCreate(i)
      BY <1>0, <3>1, BotMoves
    <3>2. CASE AgentCreate(i)
      BY <1>0, <3>2, AgentMoves
    <3>. QED
      BY <1>4, <3>1, <3>2 DEF Storing
  <2>. QED
    BY <1>0, <2>1, ChatOf
<1>5. ASSUME NEW i \in DOMAIN rows, Continuing(i)
      PROVE  Len(rows') <= MaxRows
  <2>1. \E m \in Row, n \in Row : Both(i, m, n)
    BY <1>0, <1>5, BotMoves DEF Continuing
  <2>2. Len(rows) < MaxRows
    BY <1>5 DEF Continuing, OffTime, BotAnswers, Continues
  <2>3. Len(rows') = Len(rows) + 1
    BY <1>0, <2>1, ChatOf
  <2>. QED
    BY <1>0, <2>2, <2>3
<1>. QED
  BY <1>1, <1>2, <1>3, <1>4, <1>5, StepCases

LEMMA BoundedStep ==
  ASSUME Bounded, [ConversationNext]_convVars
  PROVE  Bounded'
<1> USE DEF Bounded
<1>1. ASSUME Begins PROVE Bounded'
  <2>1. CASE QuietDesk
    BY <1>1, <2>1 DEF Begins
  <2>2. CASE ~QuietDesk
    BY <1>1, <2>2 DEF Begins
  <2>. QED
    BY <2>1, <2>2
<1>2. ASSUME failures < MaxFailures, failures' = failures + 1, overlaps' = overlaps PROVE Bounded'
  BY <1>2
<1>3. ASSUME failures' = failures, overlaps' = overlaps PROVE Bounded'
  BY <1>3
<1>4. Opening \/ AssignCase \/ ChangeStatus => Begins
  BY DEF Opening, CustomerWrites, NewMessage, QuickOrTemplate, Opens, AssignCase, ChangeStatus
<1>5. AssignAgent \/ WriteStatus \/ RecordSolved \/ UNCHANGED convVars => failures' = failures /\ overlaps' = overlaps
  BY DEF AssignAgent, WriteStatus, RecordSolved, convVars
<1>6. StatusFails => failures < MaxFailures /\ failures' = failures + 1 /\ overlaps' = overlaps
  BY DEF StatusFails
<1>7. \A i \in DOMAIN rows : Failing(i) => failures < MaxFailures /\ failures' = failures + 1 /\ overlaps' = overlaps
  BY DEF Failing, Refused, Fails
<1>8. ASSUME NEW i \in DOMAIN rows,
             CustomerGoes(i) \/ BotGoes(i) \/ AgentGoes(i) \/ Counts(i) \/ Continuing(i) \/ Storing(i)
      PROVE  failures' = failures /\ overlaps' = overlaps
  <2>1. CASE CustomerGoes(i)
    BY <2>1 DEF CustomerGoes, ReadCase, StoreMessage, StoppedBot, NoAnswer, NoteReply, HandOver, Goes
  <2>2. CASE BotGoes(i)
    BY <2>2 DEF BotGoes, BotNode, BotQueue, Goes
  <2>3. CASE AgentGoes(i)
    BY <2>3 DEF AgentGoes, NotifyClients, SendAgain, MarkDelivered, AssignCaseToUser, Goes
  <2>4. CASE Counts(i)
    BY <2>4 DEF Counts, ReadUnread, WriteUnread
  <2>5. CASE Continuing(i)
    BY <2>5 DEF Continuing, OffTime, BotAnswers, Continues
  <2>6. CASE Storing(i)
    BY <2>6 DEF Storing, BotCreate, AgentCreate, Stores
  <2>. QED
    BY <1>8, <2>1, <2>2, <2>3, <2>4, <2>5, <2>6
<1>. QED
  BY <1>1, <1>2, <1>3, <1>4, <1>5, <1>6, <1>7, <1>8, StepCases DEF DeskStep

LEMMA TypedStep ==
  ASSUME Typed, [ConversationNext]_convVars
  PROVE  Typed'
<1> USE DEF Typed, Unset
<1>1. CASE Opening
  BY <1>1 DEF Opening, CustomerWrites, NewMessage, QuickOrTemplate, Opens, ToAgent
<1>2. CASE DeskStep
  <2>1. CASE AssignCase \/ ChangeStatus \/ AssignAgent
    BY <2>1 DEF AssignCase, ChangeStatus, AssignAgent, ToAgent
  <2>2. CASE WriteStatus
    BY <2>2 DEF WriteStatus, ToAgent
  <2>3. CASE RecordSolved \/ StatusFails
    BY <2>3 DEF RecordSolved, StatusFails
  <2>4. CASE UNCHANGED convVars
    BY <2>4 DEF convVars
  <2>. QED
    BY <1>2, <2>1, <2>2, <2>3, <2>4 DEF DeskStep
<1>3. ASSUME NEW i \in DOMAIN rows, CustomerGoes(i)
      PROVE  Typed'
  <2>1. clerk' = clerk
    BY <1>3 DEF CustomerGoes, ReadCase, StoreMessage, StoppedBot, NoAnswer, NoteReply, HandOver, Goes
  <2>2. unread' \in {unread, 1} /\ desk' \in {desk, "BOT", "USER"} /\ node' \in {node, "plain"}
    BY <1>3 DEF CustomerGoes, ReadCase, StoreMessage, StoppedBot, NoAnswer, NoteReply, HandOver, ToAgent
  <2>. QED
    BY <2>1, <2>2
<1>4. ASSUME NEW i \in DOMAIN rows, BotGoes(i) \/ Continuing(i)
      PROVE  Typed'
  BY <1>4 DEF BotGoes, BotNode, BotQueue, Goes, ToAgent, Continuing, OffTime, BotAnswers, Continues
<1>5. ASSUME NEW i \in DOMAIN rows, AgentGoes(i) \/ Storing(i)
      PROVE  Typed'
  BY <1>5 DEF AgentGoes, NotifyClients, SendAgain, MarkDelivered, AssignCaseToUser, Goes, ToAgent,
              Storing, BotCreate, AgentCreate, Stores
<1>6. ASSUME NEW i \in DOMAIN rows, Failing(i)
      PROVE  Typed'
  BY <1>6 DEF Failing, Refused, Fails
<1>7. ASSUME NEW i \in DOMAIN rows, Counts(i)
      PROVE  Typed'
  <2>1. UNCHANGED <<desk, node, clerk>>
    BY <1>7 DEF Counts, ReadUnread, WriteUnread
  <2>2. unread' \in {unread, 0, 1, unread + 1}
    BY <1>7 DEF Counts, ReadUnread, WriteUnread
  <2>3. unread' \in Nat \cup {Unset}
    BY <2>2
  <2>. QED
    BY <2>1, <2>3
<1>. QED
  BY <1>1, <1>2, <1>3, <1>4, <1>5, <1>6, <1>7, StepCases

LEMMA FlagStep ==
  ASSUME Flag, [ConversationNext]_convVars
  PROVE  Flag'
<1>1. DeskStep => solved' \in {solved, TRUE}
  BY DEF DeskStep, AssignCase, ChangeStatus, AssignAgent, WriteStatus, RecordSolved, StatusFails, convVars
<1>2. Opening => solved' = solved
  BY DEF Opening, CustomerWrites, NewMessage, QuickOrTemplate
<1>3. ASSUME NEW i \in DOMAIN rows
      PROVE  /\ CustomerGoes(i) => solved' \in {solved, FALSE}
             /\ BotGoes(i) \/ AgentGoes(i) \/ Counts(i) \/ Continuing(i) \/ Storing(i) \/ Failing(i) => solved' = solved
  BY DEF CustomerGoes, ReadCase, StoreMessage, StoppedBot, NoAnswer, NoteReply, HandOver,
         BotGoes, BotNode, BotQueue, AgentGoes, NotifyClients, SendAgain, MarkDelivered, AssignCaseToUser,
         Counts, ReadUnread, WriteUnread, Continuing, OffTime, BotAnswers, Storing, BotCreate, AgentCreate,
         Failing, Refused, Fails
<1>. QED
  BY <1>1, <1>2, <1>3, StepCases DEF Flag

\* The chat of a case, its counter and its handlers keep their types and their bounds.
THEOREM ConversationTypes == ConversationSpec => []ConversationTypeOK
<1> DEFINE Types == Typed /\ Flag /\ Bounded /\ Fits
<1>1. ConversationInit => Types /\ TalkInv
  <2> SUFFICES ASSUME ConversationInit PROVE Types /\ TalkInv
    OBVIOUS
  <2>1. rows = <<>> /\ overlaps = 0 /\ failures = 0 /\ talkedIn = 0 /\ underWay = 0 /\ desk = "BOT"
    BY DEF ConversationInit
  <2>2. Fits /\ Bounded /\ TalkInv
    BY <2>1 DEF Fits, Bounded, TalkInv
  <2>3. Typed
    BY DEF ConversationInit, Typed
  <2>4. Flag
    BY DEF ConversationInit, Flag
  <2>. QED
    BY <2>2, <2>3, <2>4
<1>2. SentInv /\ Types /\ [ConversationNext]_convVars => Types'
  BY FitsStep, BoundedStep, TypedStep, FlagStep
<1>3. SentInv /\ Types /\ TalkInv => ConversationTypeOK
  BY RowsAreRows DEF RowsKnown, Typed, Flag, Bounded, Fits, TalkInv, ConversationTypeOK
<1>. QED
  BY <1>1, <1>2, <1>3, SentInit, SentStep, TalkStep, PTL DEF ConversationSpec

-----------------------------------------------------------------------------
(* Where a row is, whether it is stored, and how far its count is *)

\* The shape of a row, after f failures.
ShapedCustomer(r) == /\ r.status = "none" <=> r.phase \in {"coming", "managed"}
                     /\ r.status = "none" => r.note = "none"
\* Where the row of an agent is before it is counted, as long as no call failed.
Uncounted(r) == r.phase \in {"create", "notify"} \/ (r.kind = "template" /\ r.phase \in {"send", "sent"})
ShapedAgent(r, f) == /\ r.status = "none" => r.note = "none" /\ r.phase \in {"create", "assign", "done"}
                     /\ r.phase = "create" => r.status = "none"
                     /\ f = 0 => /\ r.note = "none" => Uncounted(r)
                                 /\ r.status = "none" => r.phase = "create"
Shape(r, f) ==
  /\ r.kind = "customer" => ShapedCustomer(r)
  /\ r.kind \in BotKinds => r.note = "none"
  /\ r.kind \in AgentKinds => ShapedAgent(r, f)
Shaped(f) == {r \in Row : Shape(r, f)}
ShapeInv == rows \in Seq(Shaped(failures))

LEMMA ShapeGrows ==
  ASSUME NEW f, NEW g, g = f \/ g # 0
  PROVE  Shaped(f) \subseteq Shaped(g)
BY DEF Shaped, Shape, ShapedAgent, Uncounted

LEMMA ShapeKnown ==
  ASSUME ShapeInv
  PROVE  rows \in Seq(Row) /\ \A i \in DOMAIN rows : rows[i] \in Row /\ Shape(rows[i], failures)
<1>1. Shaped(failures) \subseteq Row
  BY DEF Shaped
<1>2. rows \in Seq(Row)
  BY <1>1 DEF ShapeInv
<1>3. \A i \in DOMAIN rows : rows[i] \in Shaped(failures)
  BY ElementOfSeq, LenProperties DEF ShapeInv
<1>. QED
  BY <1>2, <1>3 DEF Shaped

LEMMA ShapeStep ==
  ASSUME failures \in Nat, ShapeInv, [ConversationNext]_convVars
  PROVE  ShapeInv'
<1>0. rows \in Seq(Row) /\ rows \in Seq(Shaped(failures)) /\ \A i \in DOMAIN rows : rows[i] \in Row /\ Shape(rows[i], failures)
  BY ShapeKnown DEF ShapeInv
<1> SUFFICES rows' \in Seq(Shaped(failures'))
  BY DEF ShapeInv, Shaped, Shape, ShapedCustomer, ShapedAgent, Uncounted
<1>1. ASSUME NEW i \in DOMAIN rows, NEW m \in Row, InPlace(i, m) \/ Again(i, m), Shape(m, failures'),
             failures' = failures \/ failures' # 0
      PROVE  rows' \in Seq(Shaped(failures'))
  <2>1. rows \in Seq(Shaped(failures'))
    <3>1. Shaped(failures) \subseteq Shaped(failures')
      BY <1>1, ShapeGrows
    <3>. QED
      BY <1>0, <3>1
  <2>2. m \in Shaped(failures')
    BY <1>1 DEF Shaped
  <2>. QED
    BY <1>1, <2>1, <2>2, ChatOf
<1>2. CASE Opening
  <2>1. PICK n \in Row : /\ rows' = Append(rows, n) /\ n.note = "none" /\ n.status = "none"
                         /\ \/ n.kind = "customer" /\ n.phase = "coming"
                            \/ n.kind \in {"text", "quick", "template"} /\ n.phase = "create"
    BY <1>2, OpenMoves DEF Opening
  <2>2. Shape(n, failures)
    BY <2>1 DEF Shape, ShapedCustomer, ShapedAgent, Uncounted, BotKinds, AgentKinds
  <2>3. n \in Shaped(failures)
    BY <2>2 DEF Shaped
  <2>. QED
    BY <1>0, <1>2, <2>1, <2>3, FailuresCounted, AppendProperties
<1>3. CASE DeskStep
  <2>1. rows' = rows
    BY <1>3, ChatStays DEF DeskStep
  <2>2. failures' = failures \/ failures' # 0
    BY <1>3, FailuresCounted
  <2>3. Shaped(failures) \subseteq Shaped(failures')
    BY <2>2, ShapeGrows
  <2>. QED
    BY <1>0, <2>1, <2>3
<1>4. ASSUME NEW i \in DOMAIN rows, CustomerGoes(i)
      PROVE  rows' \in Seq(Shaped(failures'))
  <2>1. PICK m \in Row :
          /\ InPlace(i, m) /\ rows[i].kind = "customer" /\ m.kind = "customer"
          /\ \/ rows[i].phase = "coming" /\ m.phase = "managed" /\ m.note = rows[i].note /\ m.status = rows[i].status
             \/ rows[i].phase = "managed" /\ m.phase = "stored" /\ m.note = "begun" /\ m.status = "SENT"
             \/ /\ rows[i].phase \in {"stored", "node"} /\ m.phase \in {"node", "handed", "done"}
                /\ m.note = rows[i].note /\ m.status = rows[i].status
    <3>1. CASE ReadCase(i)
      BY <1>0, <3>1, CustomerMoves DEF At, Became
    <3>2. CASE StoreMessage(i)
      BY <1>0, <3>2, CustomerMoves DEF At, Became
    <3>3. CASE StoppedBot(i) \/ NoAnswer(i)
      BY <1>0, <3>3, CustomerMoves DEF At, Became
    <3>4. CASE NoteReply(i) \/ HandOver(i)
      BY <1>0, <3>4, CustomerMoves DEF At, Became
    <3>. QED
      BY <1>4, <3>1, <3>2, <3>3, <3>4 DEF CustomerGoes
  <2>2. ShapedCustomer(rows[i])
    BY <1>0, <2>1 DEF Shape
  <2>3. ShapedCustomer(m)
    BY <2>1, <2>2 DEF ShapedCustomer
  <2>4. Shape(m, failures')
    BY <2>1, <2>3 DEF Shape, BotKinds, AgentKinds
  <2>. QED
    BY <1>1, <1>4, <2>1, <2>4, FailuresCounted
\* A row of the bot has no count.
<1>5. ASSUME NEW i \in DOMAIN rows, NEW m \in Row, InPlace(i, m) \/ Again(i, m), rows[i].kind \in BotKinds,
             m.kind = rows[i].kind, m.note = rows[i].note, failures' = failures \/ failures' # 0
      PROVE  rows' \in Seq(Shaped(failures'))
  <2>1. Shape(m, failures')
    BY <1>0, <1>5 DEF Shape, BotKinds, AgentKinds
  <2>. QED
    BY <1>1, <1>5, <2>1
<1>6. ASSUME NEW i \in DOMAIN rows, BotGoes(i) \/ BotCreate(i)
      PROVE  rows' \in Seq(Shaped(failures'))
  <2>1. PICK m \in Row : /\ InPlace(i, m) \/ Again(i, m)
                         /\ rows[i].kind \in BotKinds /\ m.kind = rows[i].kind /\ m.note = rows[i].note
    BY <1>0, <1>6, BotMoves DEF BotGoes, At, Became, BotKinds
  <2>2. failures' = failures
    BY <1>6, FailuresCounted DEF Storing
  <2>. QED
    BY <1>5, <2>1, <2>2
\* The rows of the agents.
<1>7. ASSUME NEW i \in DOMAIN rows, NEW m \in Row, InPlace(i, m) \/ Again(i, m), rows[i].kind \in AgentKinds,
             m.kind = rows[i].kind, ShapedAgent(m, failures'), failures' = failures \/ failures' # 0
      PROVE  rows' \in Seq(Shaped(failures'))
  <2>1. Shape(m, failures')
    BY <1>7 DEF Shape, BotKinds, AgentKinds
  <2>. QED
    BY <1>1, <1>7, <2>1
<1>8. ASSUME NEW i \in DOMAIN rows, AgentCreate(i)
      PROVE  rows' \in Seq(Shaped(failures'))
  <2>1. PICK m \in Row : /\ Again(i, m) /\ rows[i].kind \in AgentKinds /\ m.kind = rows[i].kind
                         /\ m.phase = (IF m.kind = "template" THEN "send" ELSE "notify") /\ m.status = "SENT"
    BY <1>0, <1>8, AgentMoves DEF At, Became
  <2>2. ShapedAgent(m, failures')
    BY <2>1 DEF ShapedAgent, Uncounted
  <2>. QED
    BY <1>7, <1>8, <2>1, <2>2, FailuresCounted DEF Storing
<1>9. ASSUME NEW i \in DOMAIN rows, AgentGoes(i)
      PROVE  rows' \in Seq(Shaped(failures'))
  <2>1. PICK m \in Row :
          /\ InPlace(i, m) /\ rows[i].kind \in AgentKinds /\ m.kind = rows[i].kind
          /\ \/ rows[i].phase = "notify" /\ m.note = "begun" /\ m.status = rows[i].status /\ m.phase \in {"done", "send", "assign"}
             \/ rows[i].phase = "send" /\ m.phase = "sent" /\ m.note = rows[i].note /\ m.status = rows[i].status
             \/ /\ rows[i].phase = "sent" /\ m.status = "DELIVERED" /\ m.note = rows[i].note
                /\ m.phase = IF rows[i].kind = "quick" THEN "assign" ELSE "notify"
             \/ rows[i].phase = "assign" /\ m.phase = "done" /\ m.note = rows[i].note /\ m.status = rows[i].status
    <3>1. CASE NotifyClients(i)
      BY <1>0, <3>1, AgentMoves DEF At, Became, AfterNotify, AgentKinds
    <3>2. CASE SendAgain(i)
      BY <1>0, <3>2, AgentMoves DEF At, Became, AgentKinds
    <3>3. CASE MarkDelivered(i)
      BY <1>0, <3>3, AgentMoves DEF At, Became, AgentKinds
    <3>4. CASE AssignCaseToUser(i)
      BY <1>0, <3>4, AgentMoves DEF At, Became, AgentKinds
    <3>. QED
      BY <1>9, <3>1, <3>2, <3>3, <3>4 DEF AgentGoes
  <2>2. ShapedAgent(rows[i], failures)
    BY <1>0, <2>1 DEF Shape
  <2>3. failures' = failures
    BY <1>9, FailuresCounted
  <2>4. ShapedAgent(m, failures)
    BY <2>1, <2>2 DEF ShapedAgent, Uncounted
  <2>. QED
    BY <1>7, <2>1, <2>3, <2>4
<1>10. ASSUME NEW i \in DOMAIN rows, Counts(i)
      PROVE  rows' \in Seq(Shaped(failures'))
  <2>1. PICK m \in Row : /\ InPlace(i, m) /\ rows[i].note # "none" /\ m.note # "none"
                         /\ m.kind = rows[i].kind /\ m.phase = rows[i].phase /\ m.status = rows[i].status
    <3>1. Decided # "none"
      BY DEF Decided
    <3>. QED
      BY <1>0, <1>10, <3>1, NoteMoves DEF Counts, Became
  <2>2. failures' = failures
    BY <1>10, FailuresCounted
  <2>3. Shape(m, failures)
    BY <1>0, <2>1 DEF Shape, ShapedCustomer, ShapedAgent, Uncounted
  <2>. QED
    BY <1>1, <2>1, <2>2, <2>3
<1>11. ASSUME NEW i \in DOMAIN rows, Continuing(i)
      PROVE  rows' \in Seq(Shaped(failures'))
  <2>0. failures' = failures
    BY <1>11, FailuresCounted
  <2>1. PICK m \in Row, n \in Row :
          /\ Both(i, m, n) /\ rows[i].kind = "customer" /\ rows[i].phase \in {"stored", "node", "handed"}
          /\ m.kind = "customer" /\ m.phase = "done" /\ m.note = rows[i].note /\ m.status = rows[i].status
          /\ n.kind \in BotKinds /\ n.note = "none"
    BY <1>0, <1>11, BotMoves DEF Continuing, At, Became, BotKinds
  <2>2. ShapedCustomer(rows[i])
    BY <1>0, <2>1 DEF Shape
  <2>3. ShapedCustomer(m)
    BY <2>1, <2>2 DEF ShapedCustomer
  <2>4. Shape(m, failures) /\ Shape(n, failures)
    BY <2>1, <2>3 DEF Shape, BotKinds, AgentKinds
  <2>5. m \in Shaped(failures) /\ n \in Shaped(failures)
    BY <2>4 DEF Shaped
  <2>. QED
    BY <1>0, <2>0, <2>1, <2>5, ChatOf
<1>12. ASSUME NEW i \in DOMAIN rows, Failing(i)
      PROVE  rows' \in Seq(Shaped(failures'))
  <2>0. failures' # 0
    BY <1>12, FailuresCounted
  <2>1. PICK m \in Row :
          /\ InPlace(i, m) /\ m.kind = rows[i].kind
          /\ \/ rows[i].kind \in BotKinds /\ m.note = rows[i].note
             \/ /\ rows[i].kind \in AgentKinds /\ rows[i].phase \in {"notify", "send", "sent"}
                /\ m.status \in {rows[i].status, "FAILED"} /\ m.phase # "create"
             \/ /\ rows[i].kind \in AgentKinds /\ rows[i].phase = "create" /\ m.phase \in {"assign", "done"}
                /\ m.status = rows[i].status /\ m.note = rows[i].note
    <3>1. CASE Refused(i)
      BY <1>0, <3>1, FailMoves DEF At, Became, AfterNotify, AgentKinds
    <3>2. CASE Fails(i)
      BY <1>0, <3>2, FailMoves DEF At, Became, AgentKinds
    <3>. QED
      BY <1>12, <3>1, <3>2 DEF Failing
  <2>2. CASE rows[i].kind \in BotKinds /\ m.note = rows[i].note
    BY <1>5, <2>0, <2>1, <2>2
  <2>3. CASE rows[i].kind \in AgentKinds
    <3>1. ShapedAgent(rows[i], failures)
      BY <1>0, <2>3 DEF Shape
    <3>2. rows[i].kind \notin BotKinds
      BY <2>3 DEF AgentKinds, BotKinds
    <3>3. ShapedAgent(m, failures')
      BY <2>0, <2>1, <2>3, <3>1, <3>2 DEF ShapedAgent, Uncounted
    <3>. QED
      BY <1>7, <2>0, <2>1, <2>3, <3>3
  <2>. QED
    BY <2>1, <2>2, <2>3
<1>. QED
  BY <1>2, <1>3, <1>4, <1>6, <1>8, <1>9, <1>10, <1>11, <1>12, StepCases DEF Storing

-----------------------------------------------------------------------------
(* Who spoke last *)

\* The last stored row of s is one of the kind k, or there is none.
IsLast(s, k) ==
  \/ k = "none" /\ \A j \in 1..Len(s) : ~Stored(s[j])
  \/ \E i \in 1..Len(s) : /\ Stored(s[i]) /\ s[i].kind = k
                          /\ \A j \in 1..Len(s) : j > i => ~Stored(s[j])

LEMMA LastIs ==
  ASSUME NEW k, rows \in Seq(Row), IsLast(rows, k)
  PROVE  LastKind = k
<1> DEFINE stored == {i \in DOMAIN rows : Stored(rows[i])}
<1>0. DOMAIN rows = 1..Len(rows) /\ Len(rows) \in Nat
  BY LenProperties
<1>1. CASE k = "none" /\ \A j \in 1..Len(rows) : ~Stored(rows[j])
  <2>1. stored = {}
    BY <1>0, <1>1
  <2>. QED
    BY <1>1, <2>1 DEF LastKind
<1>2. CASE \E i \in 1..Len(rows) : /\ Stored(rows[i]) /\ rows[i].kind = k
                                   /\ \A j \in 1..Len(rows) : j > i => ~Stored(rows[j])
  <2>1. PICK i \in 1..Len(rows) : /\ Stored(rows[i]) /\ rows[i].kind = k
                                  /\ \A j \in 1..Len(rows) : j > i => ~Stored(rows[j])
    BY <1>2
  <2>2. i \in stored /\ \A j \in stored : j <= i
    BY <1>0, <2>1
  <2>3. \A h \in stored : (\A j \in stored : j <= h) => h = i
    BY <1>0, <2>2
  <2> DEFINE last == CHOOSE h \in stored : \A j \in stored : j <= h
  <2>4. last = i
    BY <2>2, <2>3
  <2>5. LastKind = IF stored = {} THEN "none" ELSE rows[last].kind
    BY DEF LastKind
  <2> HIDE DEF last, stored
  <2>. QED
    BY <2>1, <2>2, <2>4, <2>5
<1>. QED
  BY <1>1, <1>2 DEF IsLast

\* What a row of the chat says of the counter: that new-message has cleared it, that the
\* count of a customer's row or of an agent's is to come, that new-message lost its row,
\* that the customer has written since the case was closed.
Clears(r) == r.kind = "text" /\ r.phase = "create"
Awaits(r) == r.kind = "customer" /\ r.note \in {"begun", "first", "another"}
Resets(r) == /\ r.kind \in AgentKinds /\ Stored(r)
             /\ r.note \in {"begun", "reset"} \/ (r.note = "none" /\ r.phase # "done")
Lost(r)   == r.kind = "text" /\ r.phase = "done" /\ ~Stored(r)
Owes(r)   == r.kind = "customer" /\ (r.note \notin {"none", "over"} \/ r.phase \in {"stored", "node", "handed"})
SomeClears(s) == \E j \in 1..Len(s) : Clears(s[j])
SomeAwaits(s) == \E j \in 1..Len(s) : Awaits(s[j])
SomeResets(s) == \E j \in 1..Len(s) : Resets(s[j])
SomeLost(s)   == \E j \in 1..Len(s) : Lost(s[j])
Noted(r, u) ==
  /\ r.kind \in AgentKinds => r.note \notin {"first", "another"}
  /\ r.kind = "customer" => r.note # "reset"
  /\ r.note = "another" => u # Unset
Shows(u) == u > 0
Clear(u) == u \in {0, Unset}

\* The counter u agrees with the chat s, whose last speaker is k, after f failures; the
\* case is closed or not.
Agrees(s, k, u, f, closed) ==
  /\ IsLast(s, k)
  /\ k = "customer" /\ ~SomeLost(s) /\ ~closed => Shows(u) \/ SomeClears(s) \/ SomeAwaits(s)
  /\ f = 0 /\ k \in AgentKinds => Clear(u) \/ SomeResets(s)
  /\ closed => u = 0 /\ \A j \in 1..Len(s) : ~Owes(s[j])
  /\ \A j \in 1..Len(s) : Noted(s[j], u)

LEMMA Replacing ==
  ASSUME NEW s \in Seq(Row), NEW i \in 1..Len(s), NEW m \in Row
  PROVE  LET t == [s EXCEPT ![i] = m]
         IN  t \in Seq(Row) /\ Len(t) = Len(s) /\ t[i] = m /\ \A j \in 1..Len(s) : j # i => t[j] = s[j]
OBVIOUS

LEMMA Appending ==
  ASSUME NEW s \in Seq(Row), NEW n \in Row
  PROVE  LET t == Append(s, n)
         IN  /\ t \in Seq(Row) /\ Len(t) = Len(s) + 1 /\ t[Len(s) + 1] = n
             /\ \A j \in 1..Len(s) : t[j] = s[j]
             /\ 1..Len(t) = (1..Len(s)) \cup {Len(s) + 1} /\ Len(s) \in Nat
<1> DEFINE t == Append(s, n)
<1>1. Len(s) \in Nat
  OBVIOUS
<1>2. t \in Seq(Row) /\ Len(t) = Len(s) + 1 /\ t[Len(s) + 1] = n /\ \A j \in 1..Len(s) : t[j] = s[j]
  BY AppendProperties
<1> HIDE DEF t
<1>3. 1..Len(t) = (1..Len(s)) \cup {Len(s) + 1}
  BY <1>1, <1>2
<1>. QED
  BY <1>1, <1>2, <1>3 DEF t

LEMMA LastStays ==
  ASSUME NEW s \in Seq(Row), NEW i \in 1..Len(s), NEW m \in Row, NEW k,
         IsLast(s, k), m.kind = s[i].kind, Stored(m) <=> Stored(s[i])
  PROVE  IsLast([s EXCEPT ![i] = m], k)
<1> DEFINE t == [s EXCEPT ![i] = m]
<1>1. t \in Seq(Row) /\ Len(t) = Len(s) /\ t[i] = m /\ \A j \in 1..Len(s) : j # i => t[j] = s[j]
  BY Replacing
<1> HIDE DEF t
<1>2. \A j \in 1..Len(s) : (Stored(t[j]) <=> Stored(s[j])) /\ t[j].kind = s[j].kind
  BY <1>1
<1>3. IsLast(t, k)
  BY <1>1, <1>2 DEF IsLast
<1>. QED
  BY <1>3 DEF t

\* A row that stays stored or not, and loses nothing that the counter depends on.
LEMMA AgreesInPlace ==
  ASSUME NEW s \in Seq(Row), NEW i \in 1..Len(s), NEW m \in Row, NEW k, NEW u, NEW f, NEW g, NEW closed,
         Agrees(s, k, u, f, closed), g = f \/ g # 0,
         m.kind = s[i].kind, Stored(m) <=> Stored(s[i]),
         Clears(s[i]) => Clears(m) \/ Lost(m), Awaits(s[i]) => Awaits(m), Lost(s[i]) => Lost(m),
         g = 0 /\ Resets(s[i]) => Resets(m), Owes(m) => Owes(s[i]), Noted(m, u)
  PROVE  Agrees([s EXCEPT ![i] = m], k, u, g, closed)
<1> DEFINE t == [s EXCEPT ![i] = m]
<1>1. t \in Seq(Row) /\ Len(t) = Len(s) /\ t[i] = m /\ \A j \in 1..Len(s) : j # i => t[j] = s[j]
  BY Replacing
<1>2. IsLast(t, k)
  BY LastStays DEF Agrees
<1> HIDE DEF t
<1>3. /\ SomeLost(s) => SomeLost(t)
      /\ SomeClears(s) => SomeClears(t) \/ SomeLost(t)
      /\ SomeAwaits(s) => SomeAwaits(t)
      /\ g = 0 /\ SomeResets(s) => SomeResets(t)
  <2>1. SomeLost(s) => SomeLost(t)
    BY <1>1 DEF SomeLost
  <2>2. SomeClears(s) => SomeClears(t) \/ SomeLost(t)
    BY <1>1 DEF SomeClears, SomeLost
  <2>3. SomeAwaits(s) => SomeAwaits(t)
    BY <1>1 DEF SomeAwaits
  <2>4. g = 0 /\ SomeResets(s) => SomeResets(t)
    BY <1>1 DEF SomeResets
  <2>. QED
    BY <2>1, <2>2, <2>3, <2>4
<1>4. closed => u = 0 /\ \A j \in 1..Len(t) : ~Owes(t[j])
  BY <1>1 DEF Agrees
<1>5. \A j \in 1..Len(t) : Noted(t[j], u)
  BY <1>1 DEF Agrees
<1>6. k = "customer" /\ ~SomeLost(t) /\ ~closed => Shows(u) \/ SomeClears(t) \/ SomeAwaits(t)
  BY <1>3 DEF Agrees
<1>7. g = 0 /\ k \in AgentKinds => Clear(u) \/ SomeResets(t)
  BY <1>3 DEF Agrees
<1>. QED
  BY <1>2, <1>4, <1>5, <1>6, <1>7 DEF Agrees, t

\* A row that is not stored yet.
LEMMA AgreesAppended ==
  ASSUME NEW s \in Seq(Row), NEW n \in Row, NEW k, NEW u, NEW f, NEW closed,
         Agrees(s, k, u, f, closed), ~Stored(n), ~Owes(n), n.note = "none"
  PROVE  Agrees(Append(s, n), k, u, f, closed)
<1> DEFINE t == Append(s, n)
<1>1. /\ t \in Seq(Row) /\ Len(t) = Len(s) + 1 /\ t[Len(s) + 1] = n
      /\ \A j \in 1..Len(s) : t[j] = s[j]
      /\ 1..Len(t) = (1..Len(s)) \cup {Len(s) + 1} /\ Len(s) \in Nat
  BY Appending
<1> HIDE DEF t
<1>2. IsLast(t, k)
  <2>1. IsLast(s, k)
    BY DEF Agrees
  <2>2. CASE k = "none" /\ \A j \in 1..Len(s) : ~Stored(s[j])
    BY <1>1, <2>2 DEF IsLast
  <2>3. CASE \E i \in 1..Len(s) : Stored(s[i]) /\ s[i].kind = k /\ \A j \in 1..Len(s) : j > i => ~Stored(s[j])
    BY <1>1, <2>3 DEF IsLast
  <2>. QED
    BY <2>1, <2>2, <2>3 DEF IsLast
<1>3. SomeLost(s) => SomeLost(t)
  BY <1>1 DEF SomeLost
<1>4. SomeClears(s) => SomeClears(t)
  BY <1>1 DEF SomeClears
<1>5. SomeAwaits(s) => SomeAwaits(t)
  BY <1>1 DEF SomeAwaits
<1>6. SomeResets(s) => SomeResets(t)
  BY <1>1 DEF SomeResets
<1>7. closed => u = 0 /\ \A j \in 1..Len(t) : ~Owes(t[j])
  BY <1>1 DEF Agrees
<1>8. \A j \in 1..Len(t) : Noted(t[j], u)
  BY <1>1 DEF Agrees, Noted
<1>. QED
  BY <1>2, <1>3, <1>4, <1>5, <1>6, <1>7, <1>8 DEF Agrees, t

\* The row that is stored last tells who spoke last.
LEMMA StoredLast ==
  ASSUME NEW s \in Seq(Row), s # <<>>, Stored(s[Len(s)])
  PROVE  IsLast(s, s[Len(s)].kind) /\ Len(s) \in 1..Len(s)
<1>1. Len(s) \in Nat /\ Len(s) >= 1
  BY EmptySeq, LenProperties
<1>. QED
  BY <1>1 DEF IsLast

LEMMA OneLast ==
  ASSUME NEW s \in Seq(Row), NEW k, NEW h, IsLast(s, k), IsLast(s, h)
  PROVE  k = h
<1>1. Len(s) \in Nat
  BY LenProperties
<1>2. CASE \A j \in 1..Len(s) : ~Stored(s[j])
  BY <1>2 DEF IsLast
<1>3. CASE \E j \in 1..Len(s) : Stored(s[j])
  <2>1. PICK a \in 1..Len(s) : Stored(s[a]) /\ s[a].kind = k /\ \A j \in 1..Len(s) : j > a => ~Stored(s[j])
    BY <1>3 DEF IsLast
  <2>2. PICK b \in 1..Len(s) : Stored(s[b]) /\ s[b].kind = h /\ \A j \in 1..Len(s) : j > b => ~Stored(s[j])
    BY <1>3 DEF IsLast
  <2>3. a = b
    BY <1>1, <2>1, <2>2
  <2>. QED
    BY <2>1, <2>2, <2>3
<1>. QED
  BY <1>2, <1>3

\* A row that speaks last, or is counted.
LEMMA AgreesNewly ==
  ASSUME NEW s \in Seq(Row), NEW i \in 1..Len(s), NEW m \in Row, NEW h, NEW k, NEW u, NEW v, NEW f, NEW g,
         NEW closed, NEW shut,
         Agrees(s, h, u, f, closed), IsLast([s EXCEPT ![i] = m], k),
         k = "customer" /\ ~shut => Shows(v) \/ Awaits(m),
         g = 0 /\ k \in AgentKinds => Clear(v) \/ Resets(m),
         shut => closed /\ v \in {u, 0} /\ ~Owes(m),
         Noted(m, v), v = u \/ v # Unset
  PROVE  Agrees([s EXCEPT ![i] = m], k, v, g, shut)
<1> DEFINE t == [s EXCEPT ![i] = m]
<1>1. t \in Seq(Row) /\ Len(t) = Len(s) /\ t[i] = m /\ \A j \in 1..Len(s) : j # i => t[j] = s[j]
  BY Replacing
<1>2. IsLast(t, k)
  OBVIOUS
<1> HIDE DEF t
<1>3. k = "customer" /\ ~shut => Shows(v) \/ SomeAwaits(t)
  BY <1>1 DEF SomeAwaits
<1>4. g = 0 /\ k \in AgentKinds => Clear(v) \/ SomeResets(t)
  BY <1>1 DEF SomeResets
<1>5. shut => v = 0 /\ \A j \in 1..Len(t) : ~Owes(t[j])
  BY <1>1 DEF Agrees
<1>6. \A j \in 1..Len(s) : Noted(s[j], v)
  BY DEF Agrees, Noted
<1>7. \A j \in 1..Len(t) : Noted(t[j], v)
  BY <1>1, <1>6
<1>. QED
  BY <1>2, <1>3, <1>4, <1>5, <1>7 DEF Agrees, t

-----------------------------------------------------------------------------
(* One handler at a time *)

\* A row that is worked on is the last, or a customer's that is only counted, with the
\* answer behind it; nothing is worked on while the status of the case changes.
Alone(s, c) ==
  /\ c # "none" => \A j \in 1..Len(s) : ~Working(s[j])
  /\ \A j \in 1..Len(s) : Working(s[j]) =>
       \/ j = Len(s)
       \/ j + 1 = Len(s) /\ s[j].kind = "customer" /\ s[j].phase = "done" /\ s[Len(s)].kind \in BotKinds

LEMMA AloneInPlace ==
  ASSUME NEW s \in Seq(Row), NEW i \in 1..Len(s), NEW m \in Row, NEW c,
         Alone(s, c), Working(s[i]), m.kind = s[i].kind, i # Len(s) => m.phase = s[i].phase
  PROVE  Alone([s EXCEPT ![i] = m], c)
<1> DEFINE t == [s EXCEPT ![i] = m]
<1>1. t \in Seq(Row) /\ Len(t) = Len(s) /\ t[i] = m /\ \A j \in 1..Len(s) : j # i => t[j] = s[j]
  BY Replacing
<1> HIDE DEF t
<1>2. Len(s) \in Nat /\ Len(s) \in 1..Len(s)
  BY LenProperties
<1>3. c = "none"
  BY DEF Alone
<1>4. ASSUME NEW j \in 1..Len(t), Working(t[j]), j # Len(t)
      PROVE  j + 1 = Len(t) /\ t[j].kind = "customer" /\ t[j].phase = "done" /\ t[Len(t)].kind \in BotKinds
  <2>1. t[Len(t)].kind = s[Len(s)].kind
    BY <1>1, <1>2
  <2>2. Working(s[j]) /\ t[j].kind = s[j].kind /\ t[j].phase = s[j].phase
    BY <1>1, <1>4
  <2>. QED
    BY <1>1, <1>4, <2>1, <2>2 DEF Alone
<1>5. Alone(t, c)
  BY <1>3, <1>4 DEF Alone
<1>. QED
  BY <1>5 DEF t

LEMMA AloneAppended ==
  ASSUME NEW s \in Seq(Row), NEW n \in Row, \A j \in 1..Len(s) : ~Working(s[j])
  PROVE  Alone(Append(s, n), "none")
<1> DEFINE t == Append(s, n)
<1>1. /\ Len(t) = Len(s) + 1 /\ \A j \in 1..Len(s) : t[j] = s[j]
      /\ 1..Len(t) = (1..Len(s)) \cup {Len(s) + 1}
  BY Appending
<1> HIDE DEF t
<1>2. Alone(t, "none")
  BY <1>1 DEF Alone
<1>. QED
  BY <1>2 DEF t

LEMMA AloneBoth ==
  ASSUME NEW s \in Seq(Row), Len(s) \in 1..Len(s), NEW m \in Row, NEW n \in Row, NEW c,
         Alone(s, c), Working(s[Len(s)]), s[Len(s)].kind = "customer",
         m.kind = "customer", m.phase = "done", n.kind \in BotKinds
  PROVE  Alone(Append([s EXCEPT ![Len(s)] = m], n), c)
<1> DEFINE t == [s EXCEPT ![Len(s)] = m]
           w == Append(t, n)
<1>0. Len(s) \in Nat
  BY LenProperties
<1>1. t \in Seq(Row) /\ Len(t) = Len(s) /\ t[Len(s)] = m /\ \A j \in 1..Len(s) : j # Len(s) => t[j] = s[j]
  BY Replacing
<1> HIDE DEF t
<1>2. /\ Len(w) = Len(t) + 1 /\ w[Len(t) + 1] = n /\ \A j \in 1..Len(t) : w[j] = t[j]
      /\ 1..Len(w) = (1..Len(t)) \cup {Len(t) + 1}
  BY <1>1, Appending
<1> HIDE DEF w
<1>3. c = "none"
  BY DEF Alone
\* No row but the last was worked on: the row behind it would be the bot's.
<1>4. \A j \in 1..Len(s) : j # Len(s) => ~Working(s[j])
  <2>1. "customer" \notin BotKinds
    BY DEF BotKinds
  <2>. QED
    BY <2>1 DEF Alone
<1>5. ASSUME NEW j \in 1..Len(w), Working(w[j]), j # Len(w)
      PROVE  j + 1 = Len(w) /\ w[j].kind = "customer" /\ w[j].phase = "done" /\ w[Len(w)].kind \in BotKinds
  <2>1. j \in 1..Len(s) /\ w[j] = t[j]
    BY <1>1, <1>2, <1>5
  <2>2. j = Len(s)
    BY <1>1, <1>4, <1>5, <2>1
  <2>. QED
    BY <1>0, <1>1, <1>2, <2>1, <2>2
<1>6. Alone(w, c)
  BY <1>3, <1>5 DEF Alone
<1>. QED
  BY <1>6 DEF w, t

Speakers == Kinds \cup {"none"}
Calm == Alone(rows, clerk) /\ \E k \in Speakers : Agrees(rows, k, unread, failures, solved)

\* The handler of a row that is not done.
LEMMA AtWork ==
  ASSUME rows \in Seq(Row), Alone(rows, clerk), NEW i \in DOMAIN rows, rows[i].phase # "done"
  PROVE  /\ i = Len(rows) /\ i \in 1..Len(rows) /\ Working(rows[i])
         /\ \A m \in Row : Again(i, m) => InPlace(i, m)
<1>0. i \in 1..Len(rows) /\ Len(rows) \in Nat
  BY LenProperties
<1>1. Working(rows[i])
  BY DEF Working
<1>2. i = Len(rows)
  BY <1>0, <1>1 DEF Alone
<1>3. ASSUME NEW m \in Row, Again(i, m) PROVE InPlace(i, m)
  <2> DEFINE a == RemoveAt(rows, i)
             w == Append(a, m)
             t == [rows EXCEPT ![i] = m]
  <2>1. a \in Seq(Row) /\ Len(a) = Len(rows) - 1 /\ \A j \in 1..(Len(rows) - 1) : a[j] = IF j < i THEN rows[j] ELSE rows[j + 1]
    BY <1>0, Removed
  <2> HIDE DEF a
  <2>2. /\ w \in Seq(Row) /\ Len(w) = Len(a) + 1 /\ w[Len(a) + 1] = m
        /\ \A j \in 1..Len(a) : w[j] = a[j]
    BY <2>1, Appending
  <2>3. t \in Seq(Row) /\ Len(t) = Len(rows) /\ t[i] = m /\ \A j \in 1..Len(rows) : j # i => t[j] = rows[j]
    BY <1>0, Replacing
  <2> HIDE DEF w, t
  <2>4. Len(w) = Len(t) /\ \A j \in 1..Len(w) : w[j] = t[j]
    BY <1>0, <1>2, <2>1, <2>2, <2>3
  <2>5. w = t
    BY <2>2, <2>3, <2>4, SeqEqual
  <2>6. rows' = w
    BY <1>3 DEF Again, w, a
  <2>. QED
    BY <2>5, <2>6 DEF InPlace, t
<1>. QED
  BY <1>0, <1>1, <1>2, <1>3

\* A handler goes on and loses nothing the counter depends on.
LEMMA GoesCalmly ==
  ASSUME rows \in Seq(Row), Calm, NEW i \in DOMAIN rows, rows[i].phase # "done", NEW m \in Row, InPlace(i, m),
         UNCHANGED <<clerk, unread, solved>>, failures' = failures \/ failures' # 0,
         m.kind = rows[i].kind, Stored(m) <=> Stored(rows[i]),
         Clears(rows[i]) => Clears(m) \/ Lost(m), Awaits(rows[i]) => Awaits(m), Lost(rows[i]) => Lost(m),
         failures' = 0 /\ Resets(rows[i]) => Resets(m), Owes(m) => Owes(rows[i]), Noted(m, unread)
  PROVE  Calm'
<1> DEFINE t == [rows EXCEPT ![i] = m]
<1>0. i = Len(rows) /\ i \in 1..Len(rows) /\ Working(rows[i]) /\ Alone(rows, clerk)
  BY AtWork DEF Calm
<1>1. PICK k \in Speakers : Agrees(rows, k, unread, failures, solved)
  BY DEF Calm
<1>2. Agrees(t, k, unread, failures', solved)
  BY <1>0, <1>1, AgreesInPlace
<1>3. Alone(t, clerk)
  BY <1>0, AloneInPlace
<1>4. rows' = t /\ clerk' = clerk /\ unread' = unread /\ solved' = solved
  BY DEF InPlace
<1> HIDE DEF t
<1>. QED
  BY <1>2, <1>3, <1>4 DEF Calm

\* A handler makes its row the last word.
LEMMA Speaks ==
  ASSUME rows \in Seq(Row), Calm, NEW i \in DOMAIN rows, rows[i].phase # "done", NEW m \in Row, InPlace(i, m),
         clerk' = clerk, m.kind = rows[i].kind, Stored(m),
         m.kind = "customer" /\ ~solved' => Shows(unread') \/ Awaits(m),
         failures' = 0 /\ m.kind \in AgentKinds => Clear(unread') \/ Resets(m),
         solved' => solved /\ unread' \in {unread, 0} /\ ~Owes(m),
         Noted(m, unread'), unread' = unread \/ unread' # Unset
  PROVE  Calm'
<1> DEFINE t == [rows EXCEPT ![i] = m]
<1>0. i = Len(rows) /\ i \in 1..Len(rows) /\ Working(rows[i]) /\ Alone(rows, clerk)
  BY AtWork DEF Calm
<1>1. PICK h \in Speakers : Agrees(rows, h, unread, failures, solved)
  BY DEF Calm
<1>2. IsLast(t, m.kind)
  <2>1. t \in Seq(Row) /\ Len(t) = Len(rows) /\ t[i] = m
    BY <1>0, Replacing
  <2> HIDE DEF t
  <2>2. t # <<>> /\ Stored(t[Len(t)]) /\ t[Len(t)].kind = m.kind
    BY <1>0, <2>1, EmptySeq
  <2>. QED
    BY <2>1, <2>2, StoredLast
<1>3. Agrees(t, m.kind, unread', failures', solved')
  BY <1>0, <1>1, <1>2, AgreesNewly
<1>4. Alone(t, clerk)
  BY <1>0, AloneInPlace
<1>5. rows' = t /\ m.kind \in Speakers
  BY RowFields DEF InPlace, Speakers
<1> HIDE DEF t
<1>. QED
  BY <1>3, <1>4, <1>5 DEF Calm

-----------------------------------------------------------------------------
(* The steps of one handler at a time *)

LEMMA OpeningCalm ==
  ASSUME rows \in Seq(Row), Calm, Opening, QuietDesk
  PROVE  Calm'
<1>0. DOMAIN rows = 1..Len(rows)
  BY LenProperties
<1>1. PICK n \in Row : /\ rows' = Append(rows, n) /\ n.note = "none" /\ n.status = "none"
                       /\ \/ CustomerWrites /\ n.kind = "customer" /\ n.phase = "coming"
                          \/ NewMessage /\ n.kind = "text" /\ n.phase = "create"
                          \/ QuickOrTemplate /\ n.kind \in {"quick", "template"} /\ n.phase = "create"
  BY OpenMoves DEF Opening
<1>2. PICK k \in Speakers : Agrees(rows, k, unread, failures, solved)
  BY DEF Calm
<1>3. ~Stored(n) /\ ~Owes(n)
  BY <1>1 DEF Stored, Owes
<1>4. Agrees(Append(rows, n), k, unread, failures, solved)
  BY <1>1, <1>2, <1>3, AgreesAppended
<1>5. Alone(Append(rows, n), "none") /\ clerk = "none"
  BY <1>0, AloneAppended DEF QuietDesk
<1>6. clerk' = clerk /\ failures' = failures /\ solved' = solved
  BY DEF Opening, CustomerWrites, NewMessage, QuickOrTemplate, Opens, Begins
<1>7. CASE CustomerWrites \/ QuickOrTemplate
  <2>1. unread' = unread
    BY <1>7 DEF CustomerWrites, QuickOrTemplate
  <2>. QED
    BY <1>1, <1>4, <1>5, <1>6, <2>1 DEF Calm
\* new-message clears the counter.
<1>8. CASE NewMessage /\ n.kind = "text" /\ n.phase = "create"
  <2>1. unread' = 0
    BY <1>8 DEF NewMessage
  <2> DEFINE w == Append(rows, n)
  <2>2. Len(w) \in 1..Len(w) /\ w[Len(w)] = n
    BY Appending
  <2>3. Agrees(w, k, unread, failures, solved)
    BY <1>4
  <2> HIDE DEF w
  <2>4. SomeClears(w)
    BY <1>8, <2>2 DEF SomeClears, Clears
  <2>5. Agrees(w, k, 0, failures, solved)
    BY <2>3, <2>4 DEF Agrees, Noted, Clear, Unset
  <2>6. rows' = w /\ Alone(w, "none")
    BY <1>1, <1>5 DEF w
  <2>. QED
    BY <1>5, <1>6, <2>1, <2>5, <2>6 DEF Calm
<1>. QED
  BY <1>1, <1>7, <1>8

LEMMA DeskCalm ==
  ASSUME rows \in Seq(Row), failures \in Nat, Calm, DeskStep, AssignCase \/ ChangeStatus => QuietDesk
  PROVE  Calm'
<1>0. DOMAIN rows = 1..Len(rows) /\ rows' = rows
  BY LenProperties, ChatStays DEF DeskStep
<1>1. PICK k \in Speakers : Agrees(rows, k, unread, failures, solved)
  BY DEF Calm
<1>2. Alone(rows, clerk')
  <2>1. CASE ChangeStatus
    <3>1. \A j \in 1..Len(rows) : ~Working(rows[j])
      BY <1>0, <2>1 DEF QuietDesk
    <3>. QED
      BY <3>1 DEF Alone
  <2>2. CASE ~ChangeStatus
    <3>1. clerk' = clerk \/ clerk # "none"
      BY <2>2 DEF DeskStep, AssignCase, AssignAgent, WriteStatus, RecordSolved, StatusFails, convVars
    <3>. QED
      BY <3>1 DEF Calm, Alone
  <2>. QED
    BY <2>1, <2>2
\* Nothing is worked on when the case is closed.
<1>3. CASE RecordSolved
  <2>1. unread' = 0 /\ solved' = TRUE /\ failures' = failures
    BY <1>3 DEF RecordSolved
  <2>2. \A j \in 1..Len(rows) : ~Working(rows[j])
    BY <1>3 DEF RecordSolved, Calm, Alone
  <2>3. \A j \in 1..Len(rows) : ~Owes(rows[j])
    BY <2>2 DEF Working, Owes
  <2>4. Agrees(rows, k, 0, failures, TRUE)
    BY <1>1, <2>3 DEF Agrees, Noted, Clear, Unset
  <2>. QED
    BY <1>0, <1>2, <2>1, <2>4 DEF Calm
<1>4. CASE ~RecordSolved
  <2>1. unread' = unread /\ solved' = solved
    BY <1>4 DEF DeskStep, AssignCase, ChangeStatus, AssignAgent, WriteStatus, StatusFails, convVars
  <2>2. failures' = failures \/ failures' # 0
    BY FailuresCounted
  <2>3. Agrees(rows, k, unread, failures', solved)
    BY <1>1, <2>2 DEF Agrees
  <2>. QED
    BY <1>0, <1>2, <2>1, <2>3 DEF Calm
<1>. QED
  BY <1>3, <1>4

\* The closed case shows no message, and its customer's rows are counted.
LEMMA ClosedIsClear ==
  ASSUME rows \in Seq(Row), Calm, solved
  PROVE  unread = 0 /\ \A i \in DOMAIN rows : ~Owes(rows[i])
<1>1. DOMAIN rows = 1..Len(rows)
  BY LenProperties
<1>. QED
  BY <1>1 DEF Calm, Agrees

LEMMA CustomerCalm ==
  ASSUME failures \in Nat, ShapeInv, Calm, NEW i \in DOMAIN rows, CustomerGoes(i)
  PROVE  Calm'
<1>0. /\ rows \in Seq(Row) /\ rows[i] \in Row /\ Shape(rows[i], failures)
      /\ failures' = failures /\ clerk' = clerk
  <2>1. failures' = failures
    BY FailuresCounted
  <2>2. clerk' = clerk
    BY DEF CustomerGoes, ReadCase, StoreMessage, StoppedBot, NoAnswer, NoteReply, HandOver, Goes
  <2>. QED
    BY <2>1, <2>2, ShapeKnown
<1>1. CASE ReadCase(i)
  <2>1. PICK m \in Row :
          /\ InPlace(i, m) /\ rows[i].kind = "customer" /\ m.kind = "customer"
          /\ rows[i].phase = "coming" /\ m.phase = "managed" /\ m.note = rows[i].note /\ m.status = rows[i].status
    BY <1>0, <1>1, CustomerMoves DEF At, Became
  <2>2. m.note = "none"
    BY <1>0, <2>1 DEF Shape, ShapedCustomer
  <2>3. UNCHANGED <<unread, solved>>
    BY <1>1 DEF ReadCase
  <2>4. /\ Stored(m) <=> Stored(rows[i])
        /\ ~Clears(rows[i]) /\ ~Awaits(rows[i]) /\ ~Lost(rows[i]) /\ ~Resets(rows[i]) /\ ~Owes(m) /\ Noted(m, unread)
    BY <2>1, <2>2 DEF Stored, Clears, Awaits, Lost, Resets, Owes, Noted, AgentKinds
  <2>. QED
    BY <1>0, <2>1, <2>3, <2>4, GoesCalmly
<1>2. CASE StoreMessage(i)
  <2>1. PICK m \in Row :
          /\ InPlace(i, m) /\ rows[i].kind = "customer" /\ m.kind = "customer"
          /\ rows[i].phase = "managed" /\ m.note = "begun" /\ m.status = "SENT"
    BY <1>0, <1>2, CustomerMoves DEF At, Became
  <2>2. unread' = unread /\ solved' = FALSE
    BY <1>2 DEF StoreMessage
  <2>3. Stored(m) /\ Awaits(m) /\ m.kind \notin AgentKinds /\ Noted(m, unread)
    BY <2>1 DEF Stored, Awaits, Noted, AgentKinds
  <2>. QED
    BY <1>0, <2>1, <2>2, <2>3, Speaks
<1>3. CASE StoppedBot(i)
  <2>1. PICK m \in Row :
          /\ InPlace(i, m) /\ rows[i].kind = "customer" /\ m.kind = "customer"
          /\ rows[i].phase = "stored" /\ m.note = rows[i].note /\ m.status = rows[i].status
    BY <1>0, <1>3, CustomerMoves DEF At, Became
  <2>2. unread' = 1 /\ solved' = solved
    BY <1>3 DEF StoppedBot
  <2>3. Owes(rows[i]) /\ Stored(m)
    BY <1>0, <2>1 DEF Owes, Stored, Shape, ShapedCustomer
  <2>4. ~solved
    BY <1>0, <2>3, ClosedIsClear
  <2>5. m.kind \notin AgentKinds /\ Noted(m, 1) /\ Shows(1) /\ 1 # Unset
    <3>1. rows[i].note # "reset"
      <4>1. i \in 1..Len(rows)
        BY LenProperties
      <4>. QED
        BY <1>0, <2>1, <4>1 DEF Calm, Agrees, Noted
    <3>. QED
      BY <2>1, <3>1 DEF Noted, Shows, Unset, AgentKinds
  <2>. QED
    BY <1>0, <2>1, <2>2, <2>3, <2>4, <2>5, Speaks
<1>4. CASE NoAnswer(i) \/ NoteReply(i) \/ HandOver(i)
  <2>1. PICK m \in Row :
          /\ InPlace(i, m) /\ rows[i].kind = "customer" /\ m.kind = "customer"
          /\ rows[i].phase \in {"stored", "node"} /\ m.note = rows[i].note /\ m.status = rows[i].status
    BY <1>0, <1>4, CustomerMoves DEF At, Became
  <2>2. UNCHANGED <<unread, solved>>
    BY <1>4 DEF NoAnswer, NoteReply, HandOver
  <2>3. Noted(rows[i], unread)
    <3>1. i \in 1..Len(rows)
      BY LenProperties
    <3>. QED
      BY <1>0, <3>1 DEF Calm, Agrees
  <2>4. /\ Stored(m) <=> Stored(rows[i])
        /\ ~Clears(rows[i]) /\ (Awaits(rows[i]) => Awaits(m)) /\ ~Lost(rows[i]) /\ ~Resets(rows[i])
        /\ Owes(rows[i]) /\ Noted(m, unread)
    BY <2>1, <2>3 DEF Stored, Clears, Awaits, Lost, Resets, Owes, Noted, AgentKinds
  <2>. QED
    BY <1>0, <2>1, <2>2, <2>4, GoesCalmly
<1>. QED
  BY <1>1, <1>2, <1>3, <1>4 DEF CustomerGoes

LEMMA BotCalm ==
  ASSUME failures \in Nat, ShapeInv, Calm, NEW i \in DOMAIN rows, BotGoes(i) \/ BotCreate(i)
  PROVE  Calm'
<1>0. /\ rows \in Seq(Row) /\ rows[i] \in Row /\ Shape(rows[i], failures)
      /\ failures' = failures /\ UNCHANGED <<clerk, unread, solved>>
  <2>1. failures' = failures
    BY FailuresCounted DEF Storing
  <2>2. UNCHANGED <<clerk, unread, solved>>
    BY DEF BotGoes, BotNode, BotQueue, BotCreate, Goes, Stores
  <2>. QED
    BY <2>1, <2>2, ShapeKnown
<1>1. CASE BotGoes(i)
  <2>1. PICK m \in Row :
          /\ InPlace(i, m) /\ rows[i].kind \in BotKinds /\ m.kind = rows[i].kind
          /\ rows[i].phase \in {"node", "queue"} /\ m.note = rows[i].note /\ m.status = rows[i].status
    BY <1>0, <1>1, BotMoves DEF BotGoes, At, Became, BotKinds
  <2>2. m.note = "none"
    BY <1>0, <2>1 DEF Shape
  <2>3. /\ Stored(m) <=> Stored(rows[i])
        /\ ~Clears(rows[i]) /\ ~Awaits(rows[i]) /\ ~Lost(rows[i]) /\ ~Resets(rows[i]) /\ ~Owes(m) /\ Noted(m, unread)
    BY <2>1, <2>2 DEF Stored, Clears, Awaits, Lost, Resets, Owes, Noted, AgentKinds, BotKinds
  <2>. QED
    BY <1>0, <2>1, <2>3, GoesCalmly
<1>2. CASE BotCreate(i)
  <2>1. PICK m \in Row :
          /\ Again(i, m) /\ rows[i].kind \in BotKinds /\ m.kind = rows[i].kind
          /\ rows[i].phase = "create" /\ m.note = rows[i].note /\ m.status = "SENT"
    BY <1>0, <1>2, BotMoves DEF At, Became
  <2>2. m.note = "none"
    BY <1>0, <2>1 DEF Shape
  <2>3. InPlace(i, m)
    BY <1>0, <2>1, AtWork DEF Calm
  <2>4. /\ m.kind \notin AgentKinds /\ m.kind # "customer" /\ Stored(m) /\ ~Owes(m) /\ Noted(m, unread)
    BY <2>1, <2>2 DEF Stored, Owes, Noted, AgentKinds, BotKinds
  <2>. QED
    BY <1>0, <2>1, <2>3, <2>4, Speaks
<1>. QED
  BY <1>1, <1>2

LEMMA AgentCalm ==
  ASSUME failures \in Nat, ShapeInv, Calm, NEW i \in DOMAIN rows, AgentGoes(i) \/ AgentCreate(i)
  PROVE  Calm'
<1>0. /\ rows \in Seq(Row) /\ rows[i] \in Row /\ Shape(rows[i], failures)
      /\ failures' = failures /\ UNCHANGED <<clerk, unread, solved>>
  <2>1. failures' = failures
    BY FailuresCounted DEF Storing
  <2>2. UNCHANGED <<clerk, unread, solved>>
    BY DEF AgentGoes, AgentCreate, NotifyClients, SendAgain, MarkDelivered, AssignCaseToUser, Goes, Stores
  <2>. QED
    BY <2>1, <2>2, ShapeKnown
<1>1. Noted(rows[i], unread) /\ (solved => unread = 0)
  <2>1. i \in 1..Len(rows)
    BY <1>0, LenProperties
  <2>. QED
    BY <1>0, <2>1 DEF Calm, Agrees
\* What the rows of the agents are not.
<1>2. \A m \in Row : m.kind \in AgentKinds => m.kind # "customer" /\ ~Awaits(m) /\ ~Owes(m)
  BY DEF Awaits, Owes, AgentKinds
<1>3. CASE AgentCreate(i)
  <2>1. PICK m \in Row :
          /\ Again(i, m) /\ rows[i].kind \in AgentKinds /\ m.kind = rows[i].kind
          /\ rows[i].phase = "create" /\ m.phase \in {"send", "notify"} /\ m.note = rows[i].note /\ m.status = "SENT"
    BY <1>0, <1>3, AgentMoves DEF At, Became
  <2>2. m.note = "none"
    BY <1>0, <2>1 DEF Shape, ShapedAgent
  <2>3. InPlace(i, m)
    BY <1>0, <2>1, AtWork DEF Calm
  <2>4. Stored(m) /\ Resets(m) /\ Noted(m, unread)
    BY <1>2, <2>1, <2>2 DEF Stored, Resets, Noted
  <2>. QED
    BY <1>0, <1>1, <1>2, <2>1, <2>3, <2>4, Speaks
<1>4. CASE NotifyClients(i)
  <2>1. PICK m \in Row :
          /\ InPlace(i, m) /\ rows[i].kind \in AgentKinds /\ m.kind = rows[i].kind
          /\ rows[i].phase = "notify" /\ m.note = "begun" /\ m.status = rows[i].status
    BY <1>0, <1>4, AgentMoves DEF At, Became
  <2>2. m.status # "none"
    BY <1>0, <2>1 DEF Shape, ShapedAgent
  <2>3. Stored(m) /\ Resets(m) /\ Noted(m, unread)
    BY <1>2, <2>1, <2>2 DEF Stored, Resets, Noted
  <2>. QED
    BY <1>0, <1>1, <1>2, <2>1, <2>3, Speaks
<1>5. CASE SendAgain(i) \/ MarkDelivered(i)
  <2>1. PICK m \in Row :
          /\ InPlace(i, m) /\ rows[i].kind \in AgentKinds /\ m.kind = rows[i].kind
          /\ rows[i].phase \in {"send", "sent"} /\ m.phase \in {"sent", "assign", "notify"} /\ m.note = rows[i].note
          /\ m.status \in {rows[i].status, "DELIVERED"}
    <3>1. CASE SendAgain(i)
      BY <1>0, <3>1, AgentMoves DEF At, Became, AgentKinds
    <3>2. CASE MarkDelivered(i)
      BY <1>0, <3>2, AgentMoves DEF At, Became, AgentKinds
    <3>. QED
      BY <1>5, <3>1, <3>2
  <2>2. rows[i].status # "none"
    BY <1>0, <2>1 DEF Shape, ShapedAgent
  <2>3. /\ Stored(m) <=> Stored(rows[i])
        /\ ~Clears(rows[i]) /\ ~Lost(rows[i]) /\ (Resets(rows[i]) => Resets(m)) /\ Noted(m, unread)
    BY <1>1, <2>1, <2>2 DEF Stored, Clears, Lost, Resets, Noted
  <2>. QED
    BY <1>0, <1>2, <2>1, <2>3, GoesCalmly
<1>6. CASE AssignCaseToUser(i)
  <2>1. PICK m \in Row :
          /\ InPlace(i, m) /\ rows[i].kind \in {"quick", "template"} /\ m.kind = rows[i].kind
          /\ rows[i].phase = "assign" /\ m.phase = "done" /\ m.note = rows[i].note /\ m.status = rows[i].status
    BY <1>0, <1>6, AgentMoves DEF At, Became
  <2>2. rows[i].kind \in AgentKinds
    BY <2>1 DEF AgentKinds
  <2>3. failures = 0 => rows[i].note # "none"
    BY <1>0, <2>1, <2>2 DEF Shape, ShapedAgent, Uncounted
  <2>4. /\ Stored(m) <=> Stored(rows[i])
        /\ ~Clears(rows[i]) /\ ~Lost(rows[i]) /\ (failures = 0 /\ Resets(rows[i]) => Resets(m)) /\ Noted(m, unread)
    BY <1>1, <2>1, <2>2, <2>3 DEF Stored, Clears, Lost, Resets, Noted
  <2>. QED
    BY <1>0, <1>2, <2>1, <2>2, <2>4, GoesCalmly
<1>. QED
  BY <1>3, <1>4, <1>5, <1>6 DEF AgentGoes

LEMMA ContinuingCalm ==
  ASSUME failures \in Nat, ShapeInv, Calm, NEW i \in DOMAIN rows, Continuing(i)
  PROVE  Calm'
<1>0. /\ rows \in Seq(Row) /\ rows[i] \in Row
      /\ failures' = failures /\ UNCHANGED <<clerk, unread, solved>>
  <2>1. failures' = failures
    BY FailuresCounted
  <2>2. UNCHANGED <<clerk, unread, solved>>
    BY DEF Continuing, OffTime, BotAnswers, Continues
  <2>. QED
    BY <2>1, <2>2, ShapeKnown
<1>1. PICK m \in Row, n \in Row :
        /\ Both(i, m, n) /\ rows[i].kind = "customer" /\ m.kind = "customer"
        /\ rows[i].phase \in {"stored", "node", "handed"} /\ m.phase = "done"
        /\ m.note = rows[i].note /\ m.status = rows[i].status
        /\ n.kind \in BotKinds /\ n.note = "none" /\ n.status = "none"
  BY <1>0, BotMoves DEF Continuing, At, Became, BotKinds
<1>2. i = Len(rows) /\ i \in 1..Len(rows) /\ Working(rows[i]) /\ Alone(rows, clerk)
  BY <1>0, <1>1, AtWork DEF Calm
<1>3. PICK k \in Speakers : Agrees(rows, k, unread, failures, solved)
  BY DEF Calm
<1> DEFINE t == [rows EXCEPT ![i] = m]
           w == Append(t, n)
<1>4. Agrees(t, k, unread, failures, solved)
  <2>1. Noted(rows[i], unread)
    BY <1>2, <1>3 DEF Agrees
  <2>2. /\ Stored(m) <=> Stored(rows[i])
        /\ ~Clears(rows[i]) /\ (Awaits(rows[i]) => Awaits(m)) /\ ~Lost(rows[i]) /\ ~Resets(rows[i])
        /\ Owes(rows[i]) /\ Noted(m, unread)
    BY <1>1, <2>1 DEF Stored, Clears, Awaits, Lost, Resets, Owes, Noted, AgentKinds
  <2>. QED
    BY <1>0, <1>1, <1>2, <1>3, <2>2, AgreesInPlace
<1>5. Agrees(w, k, unread, failures, solved)
  <2>1. ~Stored(n) /\ ~Owes(n)
    BY <1>1 DEF Stored, Owes, BotKinds
  <2>2. t \in Seq(Row)
    BY <1>0, <1>2, Replacing
  <2> HIDE DEF t
  <2>. QED
    BY <1>1, <1>4, <2>1, <2>2, AgreesAppended
<1>6. Alone(w, clerk)
  BY <1>0, <1>1, <1>2, AloneBoth
<1>7. rows' = w
  BY <1>1 DEF Both
<1> HIDE DEF w
<1>. QED
  BY <1>0, <1>5, <1>6, <1>7 DEF Calm

LEMMA FailingCalm ==
  ASSUME failures \in Nat, ShapeInv, Calm, NEW i \in DOMAIN rows, Failing(i)
  PROVE  Calm'
<1>0. /\ rows \in Seq(Row) /\ rows[i] \in Row /\ Shape(rows[i], failures)
      /\ failures' # 0 /\ UNCHANGED <<clerk, unread, solved>>
  <2>1. failures' # 0
    BY FailuresCounted
  <2>2. UNCHANGED <<clerk, unread, solved>>
    BY DEF Failing, Refused, Fails
  <2>. QED
    BY <2>1, <2>2, ShapeKnown
<1>1. Noted(rows[i], unread)
  <2>1. i \in 1..Len(rows)
    BY <1>0, LenProperties
  <2>. QED
    BY <1>0, <2>1 DEF Calm, Agrees
<1>2. PICK m \in Row :
        /\ InPlace(i, m) /\ rows[i].kind \in AgentKinds \cup BotKinds /\ m.kind = rows[i].kind
        /\ m.note \in {rows[i].note, "begun"}
        /\ \/ rows[i].phase \in {"node", "create", "queue"} /\ m.phase \in {"assign", "done"} /\ m.status = rows[i].status
           \/ rows[i].kind \in AgentKinds /\ rows[i].phase \in {"notify", "send", "sent"} /\ m.status \in {rows[i].status, "FAILED"}
           \/ rows[i].kind \in BotKinds /\ m.phase = "done" /\ m.status = rows[i].status
        /\ rows[i].kind = "text" => m.phase = "done"
        /\ rows[i].phase # "done"
  <2>1. CASE Refused(i)
    BY <1>0, <2>1, FailMoves DEF At, Became, AfterNotify, AgentKinds
  <2>2. CASE Fails(i)
    BY <1>0, <2>2, FailMoves DEF At, Became, AgentKinds, BotKinds
  <2>. QED
    BY <2>1, <2>2 DEF Failing
<1>3. Stored(m) <=> Stored(rows[i])
  BY <1>0, <1>2 DEF Stored, Shape, ShapedAgent
\* new-message loses its row, or has stored it.
<1>4. (Clears(rows[i]) => Clears(m) \/ Lost(m)) /\ ~Lost(rows[i])
  BY <1>0, <1>2, <1>3 DEF Clears, Lost, Stored, Shape, ShapedAgent, AgentKinds, BotKinds
<1>5. ~Awaits(rows[i]) /\ ~Owes(m) /\ Noted(m, unread)
  BY <1>1, <1>2 DEF Awaits, Owes, Noted, AgentKinds, BotKinds
<1>. QED
  BY <1>0, <1>2, <1>3, <1>4, <1>5, GoesCalmly

\* What handleUnreadCount decides, by who spoke last.
LEMMA DecidedBy ==
  /\ LastKind \in AgentKinds => Decided = IF Clear(unread) THEN "over" ELSE "reset"
  /\ LastKind = "customer" => Decided = IF unread = Unset THEN "first" ELSE "another"
  /\ LastKind \in BotKinds => Decided = "over"
BY DEF Decided, Clear, AgentKinds, BotKinds

\* A row that is counted is of the customer or of an agent, is stored, and nobody but the
\* bot has spoken after the customer.
LEMMA CountedRow ==
  ASSUME ShapeInv, Alone(rows, clerk), NEW i \in DOMAIN rows, rows[i].note \notin {"none", "over"},
         NEW k, IsLast(rows, k)
  PROVE  /\ i \in 1..Len(rows) /\ Working(rows[i]) /\ Stored(rows[i])
         /\ \/ rows[i].kind = "customer" /\ k \in BotKinds \cup {"customer"}
            \/ rows[i].kind \in AgentKinds /\ k = rows[i].kind
<1>0. /\ rows \in Seq(Row) /\ rows[i] \in Row /\ Shape(rows[i], failures)
      /\ i \in 1..Len(rows) /\ Len(rows) \in Nat
  BY ShapeKnown, LenProperties
<1>1. Working(rows[i])
  BY DEF Working
<1>2. rows[i].kind \in AgentKinds \cup {"customer"} /\ Stored(rows[i])
  BY <1>0, RowFields DEF Shape, ShapedCustomer, ShapedAgent, Stored, Kinds
<1>3. CASE i = Len(rows)
  <2>1. rows # <<>>
    BY <1>0, <1>3, EmptySeq
  <2>2. IsLast(rows, rows[i].kind)
    BY <1>0, <1>2, <1>3, <2>1, StoredLast
  <2>3. k = rows[i].kind
    BY <1>0, <2>2, OneLast
  <2>. QED
    BY <1>0, <1>1, <1>2, <2>3
<1>4. CASE i # Len(rows)
  <2>1. i + 1 = Len(rows) /\ rows[i].kind = "customer" /\ rows[Len(rows)].kind \in BotKinds
    BY <1>0, <1>1, <1>4 DEF Alone
  <2>2. CASE Stored(rows[Len(rows)])
    <3>1. rows # <<>>
      BY <1>0, <2>1, EmptySeq
    <3>2. IsLast(rows, rows[Len(rows)].kind)
      BY <1>0, <2>2, <3>1, StoredLast
    <3>3. k = rows[Len(rows)].kind
      BY <1>0, <3>2, OneLast
    <3>. QED
      BY <1>0, <1>1, <1>2, <2>1, <3>3
  <2>3. CASE ~Stored(rows[Len(rows)])
    <3>1. \A j \in 1..Len(rows) : j > i => j = Len(rows)
      BY <1>0, <2>1
    <3>2. IsLast(rows, "customer")
      BY <1>0, <1>2, <2>1, <2>3, <3>1 DEF IsLast
    <3>3. k = "customer"
      BY <1>0, <3>2, OneLast
    <3>. QED
      BY <1>0, <1>1, <1>2, <2>1, <3>3
  <2>. QED
    BY <2>2, <2>3
<1>. QED
  BY <1>3, <1>4

LEMMA CountsCalm ==
  ASSUME failures \in Nat, Typed, ShapeInv, Calm, NEW i \in DOMAIN rows, Counts(i)
  PROVE  Calm'
<1>0. /\ rows \in Seq(Row) /\ rows[i] \in Row /\ Alone(rows, clerk)
      /\ failures' = failures /\ UNCHANGED <<clerk, solved>>
  <2>1. failures' = failures
    BY FailuresCounted
  <2>2. UNCHANGED <<clerk, solved>>
    BY DEF Counts, ReadUnread, WriteUnread
  <2>. QED
    BY <2>1, <2>2, ShapeKnown DEF Calm
<1>1. PICK k \in Speakers : Agrees(rows, k, unread, failures, solved)
  BY DEF Calm
<1>2. PICK m \in Row :
        /\ InPlace(i, m) /\ m.kind = rows[i].kind /\ m.phase = rows[i].phase /\ m.status = rows[i].status
        /\ \/ ReadUnread(i) /\ rows[i].note = "begun" /\ m.note = Decided
           \/ WriteUnread(i) /\ rows[i].note \in {"reset", "first", "another"} /\ m.note = "over"
  BY <1>0, NoteMoves DEF Counts, Became
<1>3. rows[i].note \notin {"none", "over"}
  BY <1>2
<1>4. /\ i \in 1..Len(rows) /\ Working(rows[i]) /\ Stored(rows[i]) /\ Stored(m)
      /\ \/ rows[i].kind = "customer" /\ k \in BotKinds \cup {"customer"}
         \/ rows[i].kind \in AgentKinds /\ k = rows[i].kind
  <2>1. IsLast(rows, k)
    BY <1>1 DEF Agrees
  <2>. QED
    BY <1>0, <1>2, <1>3, <2>1, CountedRow DEF Stored
<1>5. LastKind = k /\ Noted(rows[i], unread)
  BY <1>0, <1>1, <1>4, LastIs DEF Agrees
<1> DEFINE t == [rows EXCEPT ![i] = m]
<1>6. IsLast(t, k)
  <2>1. IsLast(rows, k)
    BY <1>1 DEF Agrees
  <2>. QED
    BY <1>0, <1>2, <1>4, <2>1, LastStays
<1>7. Alone(t, clerk)
  BY <1>0, <1>2, <1>4, AloneInPlace
<1>8. rows[i].kind = "customer" => ~solved
  <2>1. rows[i].kind = "customer" => Owes(rows[i])
    BY <1>3 DEF Owes
  <2>. QED
    BY <1>0, <2>1, ClosedIsClear
<1>9. solved => unread = 0
  BY <1>0, ClosedIsClear
<1>10. "customer" \notin AgentKinds /\ "customer" \notin BotKinds /\ \A h \in BotKinds : h \notin AgentKinds
  BY DEF AgentKinds, BotKinds
<1>11. rows[i].kind \in AgentKinds => ~Owes(m)
  BY <1>2, <1>10 DEF Owes
<1>12. ASSUME k = "customer" /\ ~solved => Shows(unread') \/ Awaits(m),
              failures = 0 /\ k \in AgentKinds => Clear(unread') \/ Resets(m),
              solved => unread' \in {unread, 0},
              Noted(m, unread'), unread' = unread \/ unread' # Unset
       PROVE  Calm'
  <2>1. Agrees(t, k, unread', failures', solved')
    <3>1. solved' => solved /\ unread' \in {unread, 0} /\ ~Owes(m)
      BY <1>0, <1>4, <1>8, <1>11, <1>12
    <3>. QED
      BY <1>0, <1>1, <1>4, <1>6, <1>12, <3>1, AgreesNewly
  <2>2. rows' = t
    BY <1>2 DEF InPlace
  <2> HIDE DEF t
  <2>. QED
    BY <1>0, <1>7, <2>1, <2>2 DEF Calm
<1>13. CASE ReadUnread(i) /\ rows[i].note = "begun" /\ m.note = Decided
  <2>1. unread' = unread
    BY <1>13 DEF ReadUnread
  <2>2. CASE rows[i].kind = "customer" /\ k = "customer"
    <3>1. m.note = (IF unread = Unset THEN "first" ELSE "another") /\ m.kind = "customer"
      BY <1>2, <1>5, <1>13, <2>2, DecidedBy
    <3>2. Awaits(m) /\ Noted(m, unread)
      BY <1>10, <3>1 DEF Awaits, Noted
    <3>. QED
      BY <1>10, <1>12, <2>1, <2>2, <3>2
  <2>3. CASE rows[i].kind = "customer" /\ k \in BotKinds
    <3>1. m.note = "over"
      BY <1>5, <1>13, <2>3, DecidedBy
    <3>2. Noted(m, unread)
      BY <3>1 DEF Noted
    <3>. QED
      BY <1>10, <1>12, <2>1, <2>3, <3>2
  <2>4. CASE rows[i].kind \in AgentKinds /\ k = rows[i].kind
    <3>1. m.note = (IF Clear(unread) THEN "over" ELSE "reset") /\ m.kind \in AgentKinds
      BY <1>2, <1>5, <1>13, <2>4, DecidedBy
    <3>2. Noted(m, unread) /\ (Clear(unread) \/ Resets(m))
      BY <1>4, <1>10, <3>1 DEF Noted, Resets
    <3>. QED
      BY <1>10, <1>12, <2>1, <2>4, <3>2
  <2>. QED
    BY <1>4, <2>2, <2>3, <2>4
<1>14. CASE WriteUnread(i) /\ rows[i].note \in {"reset", "first", "another"} /\ m.note = "over"
  <2>0. /\ \A u : Noted(m, u)
        /\ unread' = CASE rows[i].note = "reset" -> 0 [] rows[i].note = "first" -> 1 [] OTHER -> unread + 1
    BY <1>14 DEF WriteUnread, Noted
  <2>1. CASE rows[i].kind = "customer"
    <3>1. rows[i].note \in {"first", "another"} /\ (rows[i].note = "another" => unread # Unset)
      BY <1>5, <1>14, <2>1 DEF Noted
    <3>2. unread' = 1 \/ (unread \in Nat /\ unread' = unread + 1)
      BY <2>0, <3>1 DEF Typed
    <3>3. Shows(unread') /\ unread' # Unset
      BY <3>2 DEF Shows, Unset
    <3>. QED
      BY <1>4, <1>8, <1>10, <1>12, <2>0, <2>1, <3>3
  <2>2. CASE rows[i].kind \in AgentKinds
    <3>1. rows[i].note = "reset" /\ unread' = 0
      BY <1>5, <1>14, <2>0, <2>2 DEF Noted
    <3>2. Clear(0) /\ 0 # Unset
      BY DEF Clear, Unset
    <3>. QED
      BY <1>4, <1>10, <1>12, <2>0, <2>2, <3>1, <3>2
  <2>. QED
    BY <1>4, <2>1, <2>2
<1>. QED
  BY <1>2, <1>13, <1>14

UnreadInv == overlaps = 0 => Calm

\* While no handler began beside another, none does without being counted.
LEMMA NoneBeside ==
  ASSUME overlaps \in Nat, [ConversationNext]_convVars, overlaps' = 0
  PROVE  overlaps = 0 /\ (Opening \/ AssignCase \/ ChangeStatus => QuietDesk)
<1>1. ASSUME Begins PROVE overlaps = 0 /\ QuietDesk
  BY <1>1 DEF Begins
<1>2. Opening \/ AssignCase \/ ChangeStatus => Begins
  BY DEF Opening, CustomerWrites, NewMessage, QuickOrTemplate, Opens, AssignCase, ChangeStatus
<1>3. AssignAgent \/ WriteStatus \/ RecordSolved \/ StatusFails \/ UNCHANGED convVars => overlaps' = overlaps
  BY DEF AssignAgent, WriteStatus, RecordSolved, StatusFails, convVars
<1>4. ASSUME NEW i \in DOMAIN rows
      PROVE  /\ CustomerGoes(i) \/ BotGoes(i) \/ AgentGoes(i) \/ Counts(i) => overlaps' = overlaps
             /\ Continuing(i) \/ Storing(i) \/ Failing(i) => overlaps' = overlaps
  BY DEF CustomerGoes, ReadCase, StoreMessage, StoppedBot, NoAnswer, NoteReply, HandOver, Goes,
         BotGoes, BotNode, BotQueue, AgentGoes, NotifyClients, SendAgain, MarkDelivered, AssignCaseToUser,
         Counts, ReadUnread, WriteUnread, Continuing, OffTime, BotAnswers, Continues,
         Storing, BotCreate, AgentCreate, Stores, Failing, Refused, Fails
<1>. QED
  BY <1>1, <1>2, <1>3, <1>4, StepCases DEF DeskStep

LEMMA UnreadStep ==
  ASSUME failures \in Nat, Typed, Bounded, ShapeInv, UnreadInv, [ConversationNext]_convVars
  PROVE  UnreadInv'
<1> SUFFICES ASSUME overlaps' = 0 PROVE Calm'
  BY DEF UnreadInv
<1>1. overlaps \in Nat
  BY DEF Bounded
<1>2. Calm /\ rows \in Seq(Row) /\ (Opening \/ AssignCase \/ ChangeStatus => QuietDesk)
  BY <1>1, NoneBeside, ShapeKnown DEF UnreadInv
<1>. QED
  BY <1>2, StepCases, OpeningCalm, DeskCalm, CustomerCalm, BotCalm, AgentCalm, ContinuingCalm, FailingCalm, CountsCalm
     DEF Storing

\* As long as one handler runs at a time, the counter tells an agent whether the customer
\* spoke last, and a closed case shows none: for any number of rows and failures.
THEOREM CounterShowsWaiting == ConversationSpec => []UnreadShowsWaiting
<1>1. ConversationInit => ShapeInv /\ UnreadInv /\ Typed /\ Bounded
  <2> SUFFICES ASSUME ConversationInit PROVE ShapeInv /\ UnreadInv /\ Typed /\ Bounded
    OBVIOUS
  <2>1. rows = <<>> /\ overlaps = 0 /\ failures = 0 /\ solved = FALSE
    BY DEF ConversationInit
  <2>2. ShapeInv
    BY <2>1 DEF ShapeInv
  <2>5. Bounded
    BY <2>1 DEF Bounded
  <2>3. Typed
    BY DEF ConversationInit, Typed
  <2>4. Alone(rows, clerk) /\ Agrees(rows, "none", unread, failures, solved)
    BY <2>1 DEF Alone, Agrees, IsLast, AgentKinds
  <2>. QED
    BY <2>2, <2>3, <2>4, <2>5 DEF UnreadInv, Calm, Speakers
<1>2. ShapeInv /\ UnreadInv => UnreadShowsWaiting
  <2> SUFFICES ASSUME ShapeInv, UnreadInv, QuietDesk, overlaps = 0
               PROVE  /\ (LastKind = "customer" /\ ~LostText /\ ~solved) => Shows(unread)
                      /\ solved => unread = 0
                      /\ (LastKind \in AgentKinds /\ failures = 0) => Clear(unread)
    BY DEF UnreadShowsWaiting, Shows, Clear
  <2>1. rows \in Seq(Row) /\ DOMAIN rows = 1..Len(rows) /\ \A i \in 1..Len(rows) : Shape(rows[i], failures)
    BY ShapeKnown, LenProperties
  <2>2. PICK k \in Speakers : Agrees(rows, k, unread, failures, solved)
    BY DEF UnreadInv, Calm
  <2>3. LastKind = k
    BY <2>1, <2>2, LastIs DEF Agrees
  <2>4. \A i \in 1..Len(rows) : rows[i].phase = "done" /\ rows[i].note \in {"none", "over"}
    BY <2>1 DEF QuietDesk, Working
  <2>5. ~SomeClears(rows) /\ ~SomeAwaits(rows)
    BY <2>4 DEF SomeClears, SomeAwaits, Clears, Awaits
  <2>6. ~SomeResets(rows)
    BY <2>4 DEF SomeResets, Resets
  <2>7. SomeLost(rows) <=> LostText
    BY <2>1 DEF SomeLost, Lost, LostText
  <2>. QED
    BY <2>2, <2>3, <2>5, <2>6, <2>7 DEF Agrees
<1>3. SentInv => failures \in Nat
  BY DEF SentInv
<1>. QED
  BY <1>1, <1>2, <1>3, SentInit, SentStep, TypedStep, BoundedStep, ShapeStep, UnreadStep, PTL DEF ConversationSpec
=============================================================================
