------------------------------ MODULE ChatPages ------------------------------
(***************************************************************************)
(* The pages of the chat list, and of the messages of a chat: each request   *)
(* counts the rows, reads one page by skip and take in the order of the last  *)
(* message, and tells how many pages there are.  Chats move between two       *)
(* requests and between the queries of one, and the rows that have the same   *)
(* last message, or none, come in another order with every query.             *)
(***************************************************************************)
EXTENDS Integers, Sequences, FiniteSets, SequencesExt

CONSTANTS
  Rows,      \* the cases (or messages) there may be
  PageSize,  \* limit
  MaxStamp,  \* bounds the times of the last messages
  MaxMoves   \* bounds what happens while a client reads

ASSUME ChatPagesAssumption ==
  IsFiniteSet(Rows) /\ PageSize \in Nat \ {0} /\ MaxStamp \in Nat /\ MaxMoves \in Nat

Null   == 0
Stamps == 0..MaxStamp    \* Case.lastMessageAt, or null

VARIABLES
  list,     \* the rows of the filter, each with its lastMessageAt
  byExpired,  \* the client filters by EXPIRED: the total is counted after the page was read
  query,    \* which query of the request is next
  page, total,
  shown,    \* how often the client was given each row
  still,    \* recorded: rows that were in the list since the first request, did not move,
            \* and had a lastMessageAt of their own
  leaves, enters, bumps

pageVars == <<list, byExpired, query, page, total, shown, still, leaves, enters, bumps>>

\* orderBy lastMessageAt desc: the database puts the rows without one first.
Sooner(a, b) == b # Null /\ (a = Null \/ a > b)
Alone(rows)  == {r \in DOMAIN rows : \A s \in DOMAIN rows : rows[s] = rows[r] => s = r}

PagesTypeOK ==
  /\ DOMAIN list \subseteq Rows /\ list \in [DOMAIN list -> Stamps]
  /\ byExpired \in BOOLEAN /\ query \in {"count", "read", "recount", "done"}
  /\ page \in Nat \ {0} /\ total \in 0..Cardinality(Rows)
  /\ shown \in [Rows -> Nat] /\ still \subseteq Alone(list)
  /\ leaves + enters + bumps <= MaxMoves

PagesInit ==
  /\ \E present \in SUBSET Rows : list \in [present -> Stamps]
  /\ still = Alone(list)
  /\ byExpired \in BOOLEAN /\ query = "count" /\ page = 1 /\ total = 0
  /\ shown = [r \in Rows |-> 0] /\ leaves = 0 /\ enters = 0 /\ bumps = 0

-----------------------------------------------------------------------------
(* The request *)

\* A bug: the last page is left out unless it is full.
TotalPagesMutant(n) == n \div PageSize
TotalPages(n) == (n + PageSize - 1) \div PageSize

\* The client asks for the next page while there is one.
Answer(n) == IF page < TotalPages(n) THEN page' = page + 1 /\ query' = "count"
             ELSE query' = "done" /\ UNCHANGED page

CountRows ==
  /\ query = "count" /\ query' = "read"
  /\ total' = Cardinality(DOMAIN list)
  /\ UNCHANGED <<list, byExpired, page, shown, still, leaves, enters, bumps>>

\* The orders the query may give the rows: nothing is said of two with one lastMessageAt.
Orders ==
  {order \in SetToSeqs(DOMAIN list) :
     \A i, j \in DOMAIN order : Sooner(list[order[i]], list[order[j]]) => i < j}
\* skip = (page - 1) * limit, take = limit
Page(order) == {order[i] : i \in {j \in DOMAIN order : (page - 1) * PageSize < j /\ j <= page * PageSize}}
ReadPage ==
  /\ query = "read"
  /\ \E order \in Orders :
       shown' = [r \in Rows |-> IF r \in Page(order) THEN shown[r] + 1 ELSE shown[r]]
  /\ IF byExpired THEN query' = "recount" /\ UNCHANGED page ELSE Answer(total)
  /\ UNCHANGED <<list, byExpired, total, still, leaves, enters, bumps>>

RecountExpired ==
  /\ query = "recount"
  /\ total' = Cardinality(DOMAIN list)
  /\ Answer(Cardinality(DOMAIN list))
  /\ UNCHANGED <<list, byExpired, shown, still, leaves, enters, bumps>>

-----------------------------------------------------------------------------
(* Meanwhile *)

\* The row r moves; a row whose lastMessageAt is no longer its own cannot be told apart.
Moves(r) ==
  /\ query # "done" /\ leaves + enters + bumps < MaxMoves
  /\ still' = (still \ {r}) \cap Alone(list')
  /\ UNCHANGED <<byExpired, query, page, total, shown>>
Stamp(r, t) == list' = [s \in DOMAIN list \cup {r} |-> IF s = r THEN t ELSE list[s]]

\* A message is sent: the lastMessageAt of its case is the time now.
Bump(r) ==
  /\ \E now \in Stamps \ {Null} : (\A s \in DOMAIN list : list[s] <= now) /\ Stamp(r, now)
  /\ Moves(r)
  /\ bumps' = bumps + 1 /\ UNCHANGED <<leaves, enters>>
\* The case is solved, assigned or read: the filter no longer has it.
Leave(r) ==
  /\ list' = [s \in DOMAIN list \ {r} |-> list[s]]
  /\ Moves(r)
  /\ leaves' = leaves + 1 /\ UNCHANGED <<enters, bumps>>
\* A case comes into the filter, where its last message puts it.
Enter(r) ==
  /\ r \notin DOMAIN list
  /\ \E t \in Stamps : Stamp(r, t)
  /\ Moves(r)
  /\ enters' = enters + 1 /\ UNCHANGED <<leaves, bumps>>

PagesNext ==
  \/ CountRows \/ ReadPage \/ RecountExpired
  \/ \E r \in DOMAIN list : Bump(r) \/ Leave(r)
  \/ \E r \in Rows : Enter(r)

\* A client that reads page after page to the last: of the chats that stayed where they
\* were, with a lastMessageAt that no other row of the list had, it misses no more than
\* left or entered the filter meanwhile, and gets no more of them twice than came in or
\* moved to the front.  Of rows that share a lastMessageAt, or have none, nothing is
\* promised: where a page ends among them each query may choose other ones.
PagesFit ==
  /\ Cardinality({r \in still : shown[r] > 1}) <= bumps + enters
  /\ query = "done" => Cardinality({r \in still : shown[r] = 0}) <= leaves + enters
=============================================================================
