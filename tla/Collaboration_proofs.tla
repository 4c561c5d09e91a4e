------------------------ MODULE Collaboration_proofs ------------------------
(***************************************************************************)
(* Proofs about Collaboration for every number of suggestions, questions,  *)
(* lookups, clicks and answers, of crashes, expiries and archives, and for *)
(* every limit of a pull.                                                  *)
(***************************************************************************)
EXTENDS Collaboration, SequenceTheorems, WellFoundedInduction, TLAPS

-----------------------------------------------------------------------------
(* The inductive invariant *)

HasDelivered(rows, t) == \E i \in DOMAIN rows : rows[i].id = t /\ rows[i].status = "delivered"

\* What one copy of a run's state says agrees with itself: a suggestion is a
\* processed record, a request is not also a question unless it was escalated,
\* and the delivery record lists the rows marked delivered.
Sound(c) ==
  /\ c \in Copy
  /\ Distinct(c.suggestions) /\ Distinct(c.asks)
  /\ Distinct(c.research) /\ Distinct(c.deliveries)
  /\ Ids(c.suggestions) \subseteq Suggestions \cap c.processed
  /\ Ids(c.asks) \subseteq AskIds /\ Ids(c.research) \subseteq AskIds
  /\ \A i \in DOMAIN c.research, j \in DOMAIN c.asks :
       c.research[i].id = c.asks[j].id => c.research[i].status = "escalated_to_iso"
  /\ \A i \in DOMAIN c.asks : c.asks[i].status = "awaiting_iso" => c.asks[i].answer = None
  /\ \A t \in Targets : t \in Ids(c.deliveries) <=>
       HasDelivered(c.suggestions, t) \/ HasDelivered(c.asks, t) \/ HasDelivered(c.research, t)

Copies == {state, outbox, published} \cup ({recovery, generation} \ {None})
Seeded == IF generation = None THEN {} ELSE generation.processed

InvCopies ==
  /\ \A c \in Copies : Sound(c) /\ c.run <= state.run
  /\ outbox.run = state.run
  /\ generation = None => state.run = 0
  /\ generation # None => generation.run = state.run

\* Whatever a copy of this run has processed came out of the spool or the seed;
\* nothing retired is a suggestion again; and no copy has rows before the state.
InvOwn ==
  \A c \in Copies : c.run = state.run =>
    /\ c.processed \subseteq Ids(spool) \cup Seeded
    /\ Ids(c.suggestions) \cap Seeded = {}
    /\ Blank(state) => Blank(c)

\* A transported record is a suggestion, or a decision its target admits.
Proper(r) ==
  /\ r \in Record
  /\ r.target = None => r.id \in Suggestions
  /\ r.target # None => r.verdict \in Verdicts(r.target)

InvRecords ==
  /\ \A q \in Queues : \A i \in DOMAIN queue[q] : Proper(queue[q][i])
  /\ \A i \in DOMAIN spool : Proper(spool[i])
  /\ courier.pc \in {"append", "ack"} => Proper(courier.record)
  /\ courier.pc = "ack" => courier.record.id \in Ids(spool)
  /\ \A k \in Clicks : click[k].pc # "unused" =>
       click[k].target \in Targets /\ click[k].verdict \in Verdicts(click[k].target)

InvKept ==
  \A id \in marked : \/ id \in Ids(spool) \cup state.processed
                     \/ \E q \in Queues : id \in Ids(queue[q])

Inv == TypeOK /\ InvCopies /\ InvOwn /\ InvRecords /\ InvKept

-----------------------------------------------------------------------------
(* Numbers *)

LEMMA Least ==
  ASSUME NEW S \in SUBSET Nat, S # {}
  PROVE  \E i \in S : \A j \in S : i <= j
<1>1. PICK i \in S : \A j \in S : <<j, i>> \notin OpToRel(<, Nat)
  BY NatLessThanWellFounded, WFMin
<1>2. ASSUME NEW j \in S PROVE i <= j
  <2>1. ~(j < i)
    BY <1>1 DEF OpToRel
  <2> QED  BY <2>1
<1> QED  BY <1>2

LEMMA OldestIs ==
  ASSUME NEW S \in SUBSET Nat, S # {}
  PROVE  Oldest(S) \in S
BY Least DEF Oldest

\* Induction from 0 to N, for a set of numbers.
LEMMA Induction ==
  ASSUME NEW N \in Nat, NEW T, 0 \in T, \A n \in 1..N : n - 1 \in T => n \in T
  PROVE  \A n \in 0..N : n \in T
<1> DEFINE Bad == {n \in 0..N : n \notin T}
<1> SUFFICES ASSUME Bad # {} PROVE FALSE
  OBVIOUS
<1>1. PICK n \in Bad : \A j \in Bad : n <= j
  <2>1. Bad \in SUBSET Nat
    OBVIOUS
  <2> HIDE DEF Bad
  <2> QED  BY <2>1, Least
<1>2. n \in 1..N /\ n - 1 \in 0..N /\ n - 1 \notin Bad
  BY <1>1
<1> QED  BY <1>1, <1>2

-----------------------------------------------------------------------------
(* Sequences of rows *)

LEMMA Appended ==
  ASSUME NEW S, NEW rows \in Seq(S), NEW r \in S, NEW new, new = Append(rows, r)
  PROVE  /\ new \in Seq(S) /\ Len(new) = Len(rows) + 1 /\ Len(rows) \in Nat
         /\ DOMAIN rows = 1..Len(rows) /\ DOMAIN new = 1..(Len(rows) + 1)
         /\ \A i \in DOMAIN rows : new[i] = rows[i]
         /\ new[Len(rows) + 1] = r
OBVIOUS

\* (A name for the equation: the provers do not see through Append in a lemma.)
Extends(new, rows, r) == new = Append(rows, r)

LEMMA AppendedRow ==
  ASSUME NEW rows \in Seq(Row), NEW r \in Row, NEW new, Extends(new, rows, r)
  PROVE  /\ new \in Seq(Row) /\ Len(new) = Len(rows) + 1 /\ DOMAIN new = 1..(Len(rows) + 1)
         /\ \A i \in DOMAIN rows : new[i] = rows[i]
         /\ new[Len(rows) + 1] = r
         /\ Ids(new) = Ids(rows) \cup {r.id}
         /\ (Distinct(rows) /\ r.id \notin Ids(rows)) => Distinct(new)
         /\ \A t : HasDelivered(new, t) <=>
              HasDelivered(rows, t) \/ (r.id = t /\ r.status = "delivered")
<1>1. /\ new \in Seq(Row) /\ Len(new) = Len(rows) + 1
      /\ Len(rows) \in Nat /\ DOMAIN rows = 1..Len(rows) /\ DOMAIN new = 1..(Len(rows) + 1)
      /\ \A i \in DOMAIN rows : new[i] = rows[i]
      /\ new[Len(rows) + 1] = r
  BY Appended DEF Extends
<1>2. \A i \in DOMAIN new : i \in DOMAIN rows \/ i = Len(rows) + 1
  BY <1>1
<1>3. DOMAIN rows \subseteq DOMAIN new /\ Len(rows) + 1 \in DOMAIN new
  BY <1>1
<1>4. Ids(new) = Ids(rows) \cup {r.id}
  BY <1>1, <1>2, <1>3 DEF Ids
<1>5. (Distinct(rows) /\ r.id \notin Ids(rows)) => Distinct(new)
  BY <1>1, <1>2 DEF Distinct, Ids
<1>6. ASSUME NEW t
      PROVE  HasDelivered(new, t) <=> HasDelivered(rows, t) \/ (r.id = t /\ r.status = "delivered")
  BY <1>1, <1>2, <1>3 DEF HasDelivered
<1> QED  BY <1>1, <1>4, <1>5, <1>6

LEMMA AppendedDelivery ==
  ASSUME NEW rows \in Seq(Delivery), NEW r \in Delivery, NEW new, Extends(new, rows, r)
  PROVE  /\ new \in Seq(Delivery) /\ Len(new) = Len(rows) + 1
         /\ DOMAIN new = 1..(Len(rows) + 1)
         /\ \A i \in DOMAIN rows : new[i] = rows[i]
         /\ new[Len(rows) + 1] = r
         /\ Ids(new) = Ids(rows) \cup {r.id}
         /\ (Distinct(rows) /\ r.id \notin Ids(rows)) => Distinct(new)
<1>1. /\ new \in Seq(Delivery) /\ Len(new) = Len(rows) + 1
      /\ Len(rows) \in Nat /\ DOMAIN rows = 1..Len(rows) /\ DOMAIN new = 1..(Len(rows) + 1)
      /\ \A i \in DOMAIN rows : new[i] = rows[i]
      /\ new[Len(rows) + 1] = r
  BY Appended DEF Extends
<1>2. \A i \in DOMAIN new : i \in DOMAIN rows \/ i = Len(rows) + 1
  BY <1>1
<1>3. DOMAIN rows \subseteq DOMAIN new /\ Len(rows) + 1 \in DOMAIN new
  BY <1>1
<1>4. Ids(new) = Ids(rows) \cup {r.id}
  BY <1>1, <1>2, <1>3 DEF Ids
<1>5. (Distinct(rows) /\ r.id \notin Ids(rows)) => Distinct(new)
  BY <1>1, <1>2 DEF Distinct, Ids
<1> QED  BY <1>1, <1>4, <1>5

\* Rows whose statuses and answers change, and nothing else.
LEMMA SameIds ==
  ASSUME NEW rows, NEW new, DOMAIN new = DOMAIN rows,
         \A i \in DOMAIN rows : new[i].id = rows[i].id
  PROVE  Ids(new) = Ids(rows) /\ (Distinct(rows) <=> Distinct(new))
BY DEF Ids, Distinct

\* One row changes its status.  (The equation has a name, like Extends.)
Marks(new, rows, i, s) == new = [rows EXCEPT ![i].status = s]

LEMMA StatusSet ==
  ASSUME NEW rows \in Seq(Row), NEW i \in DOMAIN rows, NEW new,
         NEW s, s \in {"pending_review", "approved", "dismissed", "awaiting_iso", "queued",
                       "answered", "escalated_to_iso", "delivered"},
         Marks(new, rows, i, s)
  PROVE  /\ new \in Seq(Row) /\ Len(new) = Len(rows) /\ DOMAIN new = DOMAIN rows
         /\ Ids(new) = Ids(rows) /\ (Distinct(rows) <=> Distinct(new))
         /\ \A j \in DOMAIN rows :
              /\ new[j].id = rows[j].id /\ new[j].answer = rows[j].answer
              /\ new[j].status = IF j = i THEN s ELSE rows[j].status
<1>1. rows \in [1..Len(rows) -> Row] /\ Len(rows) \in Nat /\ DOMAIN rows = 1..Len(rows)
  OBVIOUS
<1>2. \A j \in DOMAIN rows : rows[j] \in Row
  BY <1>1
<1>3. [rows[i] EXCEPT !.status = s] \in Row
  BY <1>2 DEF Row
<1>4. new \in [1..Len(rows) -> Row]
  BY <1>1, <1>3 DEF Marks
<1>5. new \in Seq(Row) /\ Len(new) = Len(rows) /\ DOMAIN new = DOMAIN rows
  BY <1>1, <1>4
<1>6. \A j \in DOMAIN rows :
        /\ new[j].id = rows[j].id /\ new[j].answer = rows[j].answer
        /\ new[j].status = IF j = i THEN s ELSE rows[j].status
  BY <1>1, <1>2 DEF Row, Marks
<1> QED  BY <1>5, <1>6, SameIds

LEMMA DeliveredRow ==
  ASSUME NEW rows \in Seq(Row), NEW i \in DOMAIN rows, NEW new,
         Marks(new, rows, i, "delivered")
  PROVE  \A t : HasDelivered(new, t) <=> HasDelivered(rows, t) \/ t = rows[i].id
<1>1. /\ DOMAIN new = DOMAIN rows
      /\ \A j \in DOMAIN rows : /\ new[j].id = rows[j].id
                                /\ new[j].status = IF j = i THEN "delivered" ELSE rows[j].status
  BY StatusSet
<1> QED  BY <1>1 DEF HasDelivered

LEMMA UndeliveredRow ==
  ASSUME NEW rows \in Seq(Row), NEW i \in DOMAIN rows, NEW new, NEW s,
         s \in {"answered", "escalated_to_iso"}, rows[i].status # "delivered",
         Marks(new, rows, i, s)
  PROVE  \A t : HasDelivered(new, t) <=> HasDelivered(rows, t)
<1>1. /\ DOMAIN new = DOMAIN rows
      /\ \A j \in DOMAIN rows : /\ new[j].id = rows[j].id
                                /\ new[j].status = IF j = i THEN s ELSE rows[j].status
  BY StatusSet
<1> QED  BY <1>1 DEF HasDelivered

\* LREM takes one copy of the record and leaves every other.
LEMMA Removed ==
  ASSUME NEW S, NEW s \in Seq(S), NEW e, NEW t, t = RemoveFirst(s, e)
  PROVE  /\ t \in Seq(S)
         /\ \A i \in DOMAIN t : \E j \in DOMAIN s : t[i] = s[j]
         /\ \A j \in DOMAIN s : s[j] # e => \E i \in DOMAIN t : t[i] = s[j]
<1>1. Len(s) \in Nat /\ DOMAIN s = 1..Len(s)
  OBVIOUS
<1> DEFINE I == {i \in 1..Len(s) : s[i] = e}
<1>2. CASE I = {}
  BY <1>2, <1>1 DEF RemoveFirst
<1>3. CASE I # {}
  <2>1. PICK k : k = SelectInSeq(s, LAMBDA v : v = e)
    OBVIOUS
  <2>2. k \in I
    <3>1. k = Min(I)
      BY <2>1, <1>3 DEF SelectInSeq
    <3>2. I \in SUBSET Nat
      OBVIOUS
    <3> HIDE DEF I
    <3>3. \E i \in I : \A j \in I : i <= j
      BY <1>3, <3>2, Least
    <3> QED  BY <3>1, <3>3 DEF Min
  <2>3. t = RemoveAt(s, k)
    BY <2>1, <1>3 DEF RemoveFirst
  <2>4. t = SubSeq(s, 1, k - 1) \o SubSeq(s, k + 1, Len(s))
    BY <2>3 DEF RemoveAt
  <2> DEFINE a == SubSeq(s, 1, k - 1)
             b == SubSeq(s, k + 1, Len(s))
  <2>5. k \in 1..Len(s) /\ s[k] = e
    BY <2>2
  <2>6. a \in Seq(S) /\ Len(a) = k - 1 /\ (\A i \in 1..(k - 1) : a[i] = s[i])
    BY <1>1, <2>5
  <2>7. b \in Seq(S) /\ Len(b) = Len(s) - k /\ (\A i \in 1..(Len(s) - k) : b[i] = s[k + i])
    <3>1. \A i \in (k + 1)..Len(s) : s[i] \in S
      BY <1>1, <2>5
    <3>0. ASSUME NEW n \in Nat, NEW m \in 1..n
          PROVE  m + 1 \in Int /\ n \in Int /\ n - (m + 1) + 1 = n - m
                 /\ (IF m + 1 <= n THEN n - (m + 1) + 1 ELSE 0) = n - m
                 /\ \A i \in 1..(n - m) : (m + 1) + i - 1 = m + i
      OBVIOUS
    <3>2. k + 1 \in Int /\ Len(s) \in Int /\ Len(s) - (k + 1) + 1 = Len(s) - k
          /\ (IF k + 1 <= Len(s) THEN Len(s) - (k + 1) + 1 ELSE 0) = Len(s) - k
          /\ \A i \in 1..(Len(s) - k) : (k + 1) + i - 1 = k + i
      BY <3>0, <1>1, <2>5
    <3>3. /\ b \in Seq(S)
          /\ Len(b) = IF k + 1 <= Len(s) THEN Len(s) - (k + 1) + 1 ELSE 0
          /\ \A i \in 1..(Len(s) - (k + 1) + 1) : b[i] = s[(k + 1) + i - 1]
      BY <3>1, <3>2, SubSeqProperties
    <3> QED  BY <3>2, <3>3
  <2> HIDE DEF a, b, I
  <2>8. /\ a \o b \in Seq(S) /\ DOMAIN (a \o b) = 1..(Len(s) - 1)
        /\ \A i \in 1..(k - 1) : (a \o b)[i] = a[i]
        /\ \A i \in k..(Len(s) - 1) : (a \o b)[i] = b[i - (k - 1)]
    <3>1. /\ a \o b \in Seq(S) /\ Len(a \o b) = Len(a) + Len(b)
          /\ \A i \in 1..(Len(a) + Len(b)) :
               (a \o b)[i] = IF i <= Len(a) THEN a[i] ELSE b[i - Len(a)]
      BY <2>6, <2>7, ConcatProperties
    <3>2. Len(a) + Len(b) = Len(s) - 1 /\ Len(a) = k - 1 /\ k \in Nat /\ Len(s) \in Nat /\ k <= Len(s)
          /\ k >= 1
      BY <1>1, <2>5, <2>6, <2>7
    <3>3. \A i \in 1..(Len(s) - 1) :
            (a \o b)[i] = IF i <= k - 1 THEN a[i] ELSE b[i - (k - 1)]
      BY <3>1, <3>2
    <3>4. DOMAIN (a \o b) = 1..(Len(s) - 1)
      BY <3>1, <3>2
    <3> QED  BY <3>1, <3>2, <3>3, <3>4
  <2>9. /\ t \in Seq(S) /\ DOMAIN t = 1..(Len(s) - 1)
        /\ \A i \in 1..(k - 1) : t[i] = s[i]
        /\ \A i \in k..(Len(s) - 1) : t[i] = s[i + 1]
    <3>1. t = a \o b
      BY <2>4 DEF a, b
    <3>2. ASSUME NEW i \in k..(Len(s) - 1) PROVE t[i] = s[i + 1]
      <4>1. i - (k - 1) \in 1..(Len(s) - k) /\ k + (i - (k - 1)) = i + 1
        BY <1>1, <2>5
      <4> QED  BY <3>1, <4>1, <2>7, <2>8
    <3> QED  BY <3>1, <3>2, <2>6, <2>8, <2>5
  <2>10. ASSUME NEW i \in DOMAIN t PROVE \E j \in DOMAIN s : t[i] = s[j]
    <3>1. CASE i \in 1..(k - 1)
      <4>1. i \in DOMAIN s
        BY <3>1, <1>1, <2>5
      <4> QED  BY <3>1, <4>1, <2>9
    <3>2. CASE i \in k..(Len(s) - 1)
      <4>1. i + 1 \in DOMAIN s
        BY <3>2, <1>1, <2>5
      <4> QED  BY <3>2, <4>1, <2>9
    <3>3. i \in 1..(k - 1) \/ i \in k..(Len(s) - 1)
      BY <1>1, <2>5, <2>9
    <3> QED  BY <3>1, <3>2, <3>3
  <2>11. ASSUME NEW j \in DOMAIN s, s[j] # e PROVE \E i \in DOMAIN t : t[i] = s[j]
    <3>1. CASE j < k
      BY <3>1, <1>1, <2>5, <2>9
    <3>2. CASE j > k
      <4>1. j - 1 \in k..(Len(s) - 1) /\ j - 1 \in DOMAIN t /\ (j - 1) + 1 = j
        BY <3>2, <1>1, <2>5, <2>9
      <4> QED  BY <4>1, <2>9
    <3> QED  BY <3>1, <3>2, <2>5, <2>11, <1>1
  <2> QED  BY <2>9, <2>10, <2>11
<1> QED  BY <1>2, <1>3

-----------------------------------------------------------------------------
(* What the steps of a turn make of a copy *)

\* A later state of the same run: nothing is taken away, and what is settled
\* stays settled.
Later(b, c) ==
  /\ c.run = b.run /\ b.processed \subseteq c.processed
  /\ Len(b.suggestions) <= Len(c.suggestions) /\ Len(b.asks) <= Len(c.asks)
  /\ Len(b.research) <= Len(c.research) /\ Len(b.deliveries) <= Len(c.deliveries)
  /\ \A i \in DOMAIN b.suggestions :
       LET was == b.suggestions[i].status  now == c.suggestions[i].status
       IN was # "pending_review" => now = was \/ (was = "approved" /\ now = "delivered")
  /\ \A i \in DOMAIN b.asks :
       b.asks[i].answer # None => c.asks[i].answer = b.asks[i].answer

LEMMA CopyIs ==
  ASSUME NEW c \in Copy
  PROVE  /\ c = [suggestions |-> c.suggestions, asks |-> c.asks, research |-> c.research,
                 processed |-> c.processed, deliveries |-> c.deliveries, run |-> c.run]
         /\ c.suggestions \in Seq(Row) /\ c.asks \in Seq(Row) /\ c.research \in Seq(Row)
         /\ c.processed \subseteq Targets \cup Clicks /\ c.deliveries \in Seq(Delivery)
         /\ c.run \in 0..MaxArchives /\ c.run \in Nat
         /\ DOMAIN c.suggestions = 1..Len(c.suggestions) /\ Len(c.suggestions) \in Nat
         /\ DOMAIN c.asks = 1..Len(c.asks) /\ Len(c.asks) \in Nat
         /\ DOMAIN c.research = 1..Len(c.research) /\ Len(c.research) \in Nat
         /\ DOMAIN c.deliveries = 1..Len(c.deliveries) /\ Len(c.deliveries) \in Nat
BY BoundsAssumption DEF Copy

LEMMA LaterReflexive ==
  ASSUME NEW c \in Copy
  PROVE  Later(c, c)
BY CopyIs DEF Later

LEMMA LaterTransitive ==
  ASSUME NEW a \in Copy, NEW b \in Copy, NEW c \in Copy, Later(a, b), Later(b, c)
  PROVE  Later(a, c)
<1>1. /\ c.run = a.run /\ a.processed \subseteq c.processed
      /\ Len(a.suggestions) <= Len(c.suggestions) /\ Len(a.asks) <= Len(c.asks)
      /\ Len(a.research) <= Len(c.research) /\ Len(a.deliveries) <= Len(c.deliveries)
  BY CopyIs DEF Later
<1>2. DOMAIN a.suggestions \subseteq DOMAIN b.suggestions /\ DOMAIN a.asks \subseteq DOMAIN b.asks
  BY CopyIs DEF Later
<1>3. ASSUME NEW i \in DOMAIN a.suggestions, a.suggestions[i].status # "pending_review"
      PROVE  \/ c.suggestions[i].status = a.suggestions[i].status
             \/ a.suggestions[i].status = "approved" /\ c.suggestions[i].status = "delivered"
  BY <1>2, <1>3 DEF Later
<1>4. ASSUME NEW i \in DOMAIN a.asks, a.asks[i].answer # None
      PROVE  c.asks[i].answer = a.asks[i].answer
  BY <1>2, <1>4 DEF Later
<1> QED  BY <1>1, <1>3, <1>4 DEF Later

\* _apply_moderation changes statuses and answers of open rows, no more.
LEMMA ModeratedIs ==
  ASSUME NEW c, Sound(c), NEW r, Proper(r), r.target # None, NEW d, d = Moderated(c, r)
  PROVE  /\ d \in Copy /\ d.research = c.research /\ d.deliveries = c.deliveries
         /\ d.run = c.run /\ d.processed = c.processed
         /\ DOMAIN d.suggestions = DOMAIN c.suggestions /\ DOMAIN d.asks = DOMAIN c.asks
         /\ Len(d.suggestions) = Len(c.suggestions) /\ Len(d.asks) = Len(c.asks)
         /\ \A i \in DOMAIN c.suggestions :
              /\ d.suggestions[i].id = c.suggestions[i].id
              /\ d.suggestions[i].status = c.suggestions[i].status
                 \/ (c.suggestions[i].status = "pending_review"
                     /\ d.suggestions[i].status # "delivered")
         /\ \A i \in DOMAIN c.asks :
              /\ d.asks[i].id = c.asks[i].id
              /\ d.asks[i] = c.asks[i] \/ (c.asks[i].status = "awaiting_iso"
                                           /\ d.asks[i].status = "answered")
<1> DEFINE S == [i \in DOMAIN c.suggestions |->
                   IF Settles(r, c.suggestions[i], "pending_review")
                   THEN [c.suggestions[i] EXCEPT !.status = r.verdict] ELSE c.suggestions[i]]
           A == Answer(r, c.asks)
<1>1. /\ c \in Copy /\ Ids(c.suggestions) \subseteq Suggestions /\ Ids(c.asks) \subseteq AskIds
      /\ r.verdict \in Verdicts(r.target)
  BY DEF Sound, Proper
<1>2. d = [c EXCEPT !.suggestions = S, !.asks = A]
  BY DEF Moderated
<1>3. ASSUME NEW i \in DOMAIN c.suggestions
      PROVE  /\ S[i] \in Row /\ S[i].id = c.suggestions[i].id
             /\ S[i].status = c.suggestions[i].status
                \/ (c.suggestions[i].status = "pending_review" /\ S[i].status # "delivered")
  <2>1. c.suggestions[i] \in Row /\ c.suggestions[i].id \in Suggestions
    BY <1>1, CopyIs DEF Ids
  <2>2. CASE Settles(r, c.suggestions[i], "pending_review")
    <3>1. r.verdict \in Decisions
      BY <1>1, <2>1, <2>2 DEF Settles, Verdicts
    <3>2. S[i] = [c.suggestions[i] EXCEPT !.status = r.verdict]
      BY <2>2
    <3> QED  BY <2>1, <2>2, <3>1, <3>2 DEF Row, Settles, Decisions
  <2>3. CASE ~Settles(r, c.suggestions[i], "pending_review")
    BY <2>1, <2>3
  <2> QED  BY <2>2, <2>3
<1>4. ASSUME NEW i \in DOMAIN c.asks
      PROVE  /\ A[i] \in Row /\ A[i].id = c.asks[i].id
             /\ A[i] = c.asks[i] \/ (c.asks[i].status = "awaiting_iso"
                                     /\ A[i].status = "answered")
  <2>1. c.asks[i] \in Row /\ c.asks[i].id \in AskIds
    BY <1>1, CopyIs DEF Ids
  <2>2. CASE Settles(r, c.asks[i], "awaiting_iso")
    <3>1. r.verdict \in Answers
      BY <1>1, <2>1, <2>2, NamesAssumption DEF Settles, Verdicts
    <3>2. A[i] = [c.asks[i] EXCEPT !.status = "answered", !.answer = r.verdict]
      BY <2>2 DEF Answer
    <3> QED  BY <2>1, <2>2, <3>1, <3>2 DEF Row, Settles
  <2>3. CASE ~Settles(r, c.asks[i], "awaiting_iso")
    BY <2>1, <2>3 DEF Answer
  <2> QED  BY <2>2, <2>3
<1>5. S \in Seq(Row) /\ Len(S) = Len(c.suggestions) /\ DOMAIN S = DOMAIN c.suggestions
  <2>1. S \in [1..Len(c.suggestions) -> Row]
    BY <1>1, <1>3, CopyIs
  <2>2. Len(c.suggestions) \in Nat /\ DOMAIN c.suggestions = 1..Len(c.suggestions)
    BY <1>1, CopyIs
  <2> HIDE DEF S
  <2> QED  BY <2>1, <2>2
<1>6. A \in Seq(Row) /\ Len(A) = Len(c.asks) /\ DOMAIN A = DOMAIN c.asks
  <2>1. A \in [1..Len(c.asks) -> Row]
    BY <1>1, <1>4, CopyIs DEF Answer
  <2>2. Len(c.asks) \in Nat /\ DOMAIN c.asks = 1..Len(c.asks)
    BY <1>1, CopyIs
  <2> HIDE DEF A
  <2> QED  BY <2>1, <2>2
<1> HIDE DEF S, A
<1>7. /\ d = [suggestions |-> S, asks |-> A, research |-> c.research,
              processed |-> c.processed, deliveries |-> c.deliveries, run |-> c.run]
  BY <1>1, <1>2, CopyIs
<1>8. d \in Copy
  BY <1>1, <1>5, <1>6, <1>7 DEF Copy
<1> QED  BY <1>3, <1>4, <1>5, <1>6, <1>7, <1>8

\* Suggestions, processed ids and answers may grow; no delivery is added.
LEMMA ImportedOne ==
  ASSUME NEW c, Sound(c), NEW r, Proper(r), NEW d, d = ImportOne(c, r)
  PROVE  /\ Sound(d) /\ Later(c, d)
         /\ d.research = c.research /\ d.deliveries = c.deliveries
         /\ d.processed = c.processed \cup {r.id}
         /\ Ids(d.asks) = Ids(c.asks)
         /\ Ids(d.suggestions) \subseteq Ids(c.suggestions) \cup ({r.id} \ c.processed)
<1>1. c \in Copy /\ r \in Record /\ r.id \in Targets \cup Clicks
  BY DEF Sound, Proper, Record, Targets
<1>2. CASE r.id \in c.processed
  <2>1. d = c
    BY <1>2 DEF ImportOne
  <2> QED  BY <1>1, <1>2, <2>1, LaterReflexive
<1>3. CASE r.id \notin c.processed /\ r.target = None
  <2>1. PICK row : row = [id |-> r.id, requester |-> None, status |-> "pending_review",
                          answer |-> None]
    OBVIOUS
  <2>2. row \in Row /\ r.id \in Suggestions /\ row.id = r.id /\ row.status = "pending_review"
    BY <1>3, <2>1 DEF Proper, Row, Targets
  <2>0. PICK more : more = Append(c.suggestions, row)
    OBVIOUS
  <2>3. d = [suggestions |-> more, asks |-> c.asks, research |-> c.research,
             processed |-> c.processed \cup {r.id}, deliveries |-> c.deliveries, run |-> c.run]
    <3>1. d = [[c EXCEPT !.suggestions = Append(@, row)] EXCEPT !.processed = @ \cup {r.id}]
      BY <1>3, <2>1 DEF ImportOne
    <3>2. [c EXCEPT !.suggestions = Append(@, row)] = [c EXCEPT !.suggestions = more]
      BY <2>0
    <3>3. c = [suggestions |-> c.suggestions, asks |-> c.asks, research |-> c.research,
               processed |-> c.processed, deliveries |-> c.deliveries, run |-> c.run]
      BY <1>1, CopyIs
    <3>4. [c EXCEPT !.suggestions = more] =
            [suggestions |-> more, asks |-> c.asks, research |-> c.research,
             processed |-> c.processed, deliveries |-> c.deliveries, run |-> c.run]
      BY ONLY <3>3
    <3> QED  BY ONLY <3>1, <3>2, <3>4
  <2>10. /\ more \in Seq(Row) /\ Len(more) = Len(c.suggestions) + 1
         /\ \A i \in DOMAIN c.suggestions : more[i] = c.suggestions[i]
         /\ Ids(more) = Ids(c.suggestions) \cup {row.id}
         /\ (Distinct(c.suggestions) /\ row.id \notin Ids(c.suggestions)) => Distinct(more)
         /\ \A t : HasDelivered(more, t) <=>
              HasDelivered(c.suggestions, t) \/ (row.id = t /\ row.status = "delivered")
    <3>1. c.suggestions \in Seq(Row)
      BY <1>1, CopyIs
    <3>2. PICK rows : rows = c.suggestions
      OBVIOUS
    <3>3. rows \in Seq(Row) /\ Extends(more, rows, row) /\ row \in Row
      BY <2>0, <2>2, <3>1, <3>2 DEF Extends
    <3>4. /\ more \in Seq(Row) /\ Len(more) = Len(rows) + 1
          /\ \A i \in DOMAIN rows : more[i] = rows[i]
          /\ Ids(more) = Ids(rows) \cup {row.id}
          /\ (Distinct(rows) /\ row.id \notin Ids(rows)) => Distinct(more)
          /\ \A t : HasDelivered(more, t) <=>
               HasDelivered(rows, t) \/ (row.id = t /\ row.status = "delivered")
      BY ONLY <3>3, AppendedRow
    <3> QED  BY <3>2, <3>4
  <2>4. /\ more \in Seq(Row) /\ Len(more) = Len(c.suggestions) + 1
        /\ \A i \in DOMAIN c.suggestions : more[i] = c.suggestions[i]
    BY <2>10
  <2>5. /\ Ids(more) = Ids(c.suggestions) \cup {r.id} /\ Distinct(more)
        /\ \A t : HasDelivered(more, t) <=> HasDelivered(c.suggestions, t)
    <3>1. Distinct(c.suggestions) /\ r.id \notin Ids(c.suggestions)
      BY <1>3 DEF Sound
    <3> QED  BY <2>2, <2>10, <3>1
  <2>6. d \in Copy
    BY <1>1, <2>3, <2>4, CopyIs DEF Copy
  <2>7. Sound(d)
    BY <2>2, <2>3, <2>4, <2>5, <2>6 DEF Sound
  <2>8. Later(c, d)
    BY <1>1, <2>3, <2>4, CopyIs DEF Later
  <2> QED  BY <2>3, <2>5, <2>7, <2>8, <1>3
<1>4. CASE r.id \notin c.processed /\ r.target # None
  <2>1. PICK m : m = Moderated(c, r)
    OBVIOUS
  <2>2. /\ m \in Copy /\ m.research = c.research /\ m.deliveries = c.deliveries
        /\ m.run = c.run /\ m.processed = c.processed
        /\ DOMAIN m.suggestions = DOMAIN c.suggestions /\ DOMAIN m.asks = DOMAIN c.asks
        /\ Len(m.suggestions) = Len(c.suggestions) /\ Len(m.asks) = Len(c.asks)
        /\ \A i \in DOMAIN c.suggestions :
             /\ m.suggestions[i].id = c.suggestions[i].id
             /\ m.suggestions[i].status = c.suggestions[i].status
                \/ (c.suggestions[i].status = "pending_review"
                    /\ m.suggestions[i].status # "delivered")
        /\ \A i \in DOMAIN c.asks :
             /\ m.asks[i].id = c.asks[i].id
             /\ m.asks[i] = c.asks[i] \/ (c.asks[i].status = "awaiting_iso"
                                          /\ m.asks[i].status = "answered")
    BY <1>4, <2>1, ModeratedIs
  <2>3. d = [suggestions |-> m.suggestions, asks |-> m.asks, research |-> c.research,
             processed |-> c.processed \cup {r.id}, deliveries |-> c.deliveries, run |-> c.run]
    <3>1. d = [m EXCEPT !.processed = @ \cup {r.id}]
      BY <1>4, <2>1 DEF ImportOne
    <3>2. m = [suggestions |-> m.suggestions, asks |-> m.asks, research |-> m.research,
               processed |-> m.processed, deliveries |-> m.deliveries, run |-> m.run]
      BY <2>2, CopyIs
    <3> QED  BY <3>1, <3>2, <2>2
  <2>4. d \in Copy
    BY <1>1, <2>2, <2>3, CopyIs DEF Copy
  <2>5. /\ Ids(m.suggestions) = Ids(c.suggestions) /\ Ids(m.asks) = Ids(c.asks)
        /\ Distinct(m.suggestions) /\ Distinct(m.asks)
    BY <2>2, SameIds DEF Sound
  <2>6. \A t : (HasDelivered(m.suggestions, t) <=> HasDelivered(c.suggestions, t))
               /\ (HasDelivered(m.asks, t) <=> HasDelivered(c.asks, t))
    BY <2>2 DEF HasDelivered
  <2>7. \A i \in DOMAIN m.asks : m.asks[i].status = "awaiting_iso" => m.asks[i].answer = None
    BY <2>2 DEF Sound
  <2>8. \A i \in DOMAIN c.research, j \in DOMAIN m.asks :
          c.research[i].id = m.asks[j].id => c.research[i].status = "escalated_to_iso"
    BY <2>2 DEF Sound
  <2>9. Sound(d)
    BY <2>3, <2>4, <2>5, <2>6, <2>7, <2>8 DEF Sound
  <2>10. Later(c, d)
    <3>1. \A i \in DOMAIN c.asks : c.asks[i].answer # None => m.asks[i].answer = c.asks[i].answer
      BY <2>2 DEF Sound
    <3> QED  BY <1>1, <2>2, <2>3, <3>1, CopyIs DEF Later
  <2> QED  BY <2>3, <2>5, <2>9, <2>10
<1> QED  BY <1>2, <1>3, <1>4

\* (The equation of a copy with one of its fields replaced.)
LEMMA CopyWith ==
  ASSUME NEW c \in Copy, NEW rows, NEW d
  PROVE  /\ d = [c EXCEPT !.research = rows] =>
              d = [suggestions |-> c.suggestions, asks |-> c.asks, research |-> rows,
                   processed |-> c.processed, deliveries |-> c.deliveries, run |-> c.run]
         /\ d = [c EXCEPT !.asks = rows] =>
              d = [suggestions |-> c.suggestions, asks |-> rows, research |-> c.research,
                   processed |-> c.processed, deliveries |-> c.deliveries, run |-> c.run]
<1>1. c = [suggestions |-> c.suggestions, asks |-> c.asks, research |-> c.research,
           processed |-> c.processed, deliveries |-> c.deliveries, run |-> c.run]
  BY CopyIs
<1> QED  BY ONLY <1>1

\* process_one_research: one request answered, or put to the human.
LEMMA ResearchedSound ==
  ASSUME NEW c, Sound(c), NEW d \in Researched(c)
  PROVE  /\ Sound(d) /\ Later(c, d)
         /\ d.suggestions = c.suggestions /\ d.deliveries = c.deliveries
         /\ d.processed = c.processed /\ Ids(d.research) = Ids(c.research)
         /\ Ids(d.asks) \subseteq Ids(c.asks) \cup Ids(c.research)
<1>0. c \in Copy
  BY DEF Sound
<1>1. PICK waiting : waiting = {i \in DOMAIN c.research : c.research[i].status = "queued"}
  OBVIOUS
<1>2. CASE waiting = {}
  <2>1. d = c
    BY <1>1, <1>2 DEF Researched
  <2> QED  BY <1>0, <2>1, LaterReflexive
<1>3. CASE waiting # {}
  <2>1. PICK i : i = Oldest(waiting)
    OBVIOUS
  <2>2. i \in DOMAIN c.research /\ c.research[i].status = "queued"
    <3>1. waiting \in SUBSET Nat
      BY <1>0, <1>1, CopyIs
    <3> QED  BY <1>1, <1>3, <2>1, <3>1, OldestIs
  <2>3. c.research[i] \in Row /\ c.research[i].id \in Ids(c.research)
        /\ c.research[i].id \in AskIds /\ c.research[i].id \notin Ids(c.asks)
    BY <1>0, <2>2, CopyIs DEF Sound, Ids
  <2>4. CASE d = [c EXCEPT !.research[i].status = "answered"]
    <3>1. PICK rows : Marks(rows, c.research, i, "answered")
      BY DEF Marks
    <3>2. d = [c EXCEPT !.research = rows]
      BY <2>4, <3>1 DEF Marks
    <3>3. d = [suggestions |-> c.suggestions, asks |-> c.asks, research |-> rows,
               processed |-> c.processed, deliveries |-> c.deliveries, run |-> c.run]
      BY ONLY <1>0, <3>2, CopyWith
    <3>4. /\ rows \in Seq(Row) /\ Len(rows) = Len(c.research) /\ DOMAIN rows = DOMAIN c.research
          /\ Ids(rows) = Ids(c.research) /\ (Distinct(c.research) <=> Distinct(rows))
          /\ \A j \in DOMAIN c.research :
               /\ rows[j].id = c.research[j].id
               /\ rows[j].status = IF j = i THEN "answered" ELSE c.research[j].status
      BY <1>0, <2>2, <3>1, CopyIs, StatusSet
    <3>5. \A t : HasDelivered(rows, t) <=> HasDelivered(c.research, t)
      BY <1>0, <2>2, <3>1, CopyIs, UndeliveredRow
    <3>6. d \in Copy
      BY <1>0, <3>3, <3>4, CopyIs DEF Copy
    <3>7. \A j \in DOMAIN rows, k \in DOMAIN c.asks :
            rows[j].id = c.asks[k].id => rows[j].status = "escalated_to_iso"
      BY <2>3, <3>4 DEF Sound, Ids
    <3>8. Sound(d)
      BY <3>3, <3>4, <3>5, <3>6, <3>7 DEF Sound
    <3>9. Later(c, d)
      BY <1>0, <3>3, <3>4, CopyIs DEF Later
    <3> QED  BY <3>3, <3>4, <3>8, <3>9
  <2>5. CASE d = [c EXCEPT !.research[i].status = "escalated_to_iso",
                           !.asks = Append(@, [id |-> c.research[i].id,
                                               requester |-> c.research[i].requester,
                                               status |-> "awaiting_iso", answer |-> None])]
    <3>1. PICK rows : Marks(rows, c.research, i, "escalated_to_iso")
      BY DEF Marks
    <3>10. PICK row : row = [id |-> c.research[i].id, requester |-> c.research[i].requester,
                             status |-> "awaiting_iso", answer |-> None]
      OBVIOUS
    <3>11. row \in Row /\ row.id = c.research[i].id /\ row.status = "awaiting_iso"
           /\ row.answer = None
      BY <2>3, <3>10 DEF Row
    <3>12. PICK asks : Extends(asks, c.asks, row)
      BY DEF Extends
    <3>2. d = [c EXCEPT !.research = rows, !.asks = asks]
      BY <2>5, <3>1, <3>10, <3>12 DEF Extends, Marks
    <3>3. d = [suggestions |-> c.suggestions, asks |-> asks, research |-> rows,
               processed |-> c.processed, deliveries |-> c.deliveries, run |-> c.run]
      <4>1. c = [suggestions |-> c.suggestions, asks |-> c.asks, research |-> c.research,
                 processed |-> c.processed, deliveries |-> c.deliveries, run |-> c.run]
        BY <1>0, CopyIs
      <4> QED  BY ONLY <3>2, <4>1
    <3>4. /\ rows \in Seq(Row) /\ Len(rows) = Len(c.research) /\ DOMAIN rows = DOMAIN c.research
          /\ Ids(rows) = Ids(c.research) /\ (Distinct(c.research) <=> Distinct(rows))
          /\ \A j \in DOMAIN c.research :
               /\ rows[j].id = c.research[j].id
               /\ rows[j].status = IF j = i THEN "escalated_to_iso" ELSE c.research[j].status
      BY <1>0, <2>2, <3>1, CopyIs, StatusSet
    <3>5. \A t : HasDelivered(rows, t) <=> HasDelivered(c.research, t)
      BY <1>0, <2>2, <3>1, CopyIs, UndeliveredRow
    <3>13. /\ asks \in Seq(Row) /\ Len(asks) = Len(c.asks) + 1
           /\ DOMAIN asks = 1..(Len(c.asks) + 1)
           /\ \A j \in DOMAIN c.asks : asks[j] = c.asks[j]
           /\ asks[Len(c.asks) + 1] = row
           /\ Ids(asks) = Ids(c.asks) \cup {row.id}
           /\ (Distinct(c.asks) /\ row.id \notin Ids(c.asks)) => Distinct(asks)
           /\ \A t : HasDelivered(asks, t) <=>
                HasDelivered(c.asks, t) \/ (row.id = t /\ row.status = "delivered")
      BY <1>0, <3>11, <3>12, CopyIs, AppendedRow
    <3>14. \A j \in DOMAIN asks : j \in DOMAIN c.asks \/ j = Len(c.asks) + 1
      BY <1>0, <3>13, CopyIs
    <3>6. d \in Copy
      BY <1>0, <3>3, <3>4, <3>13, CopyIs DEF Copy
    <3>7. ASSUME NEW j \in DOMAIN rows, NEW k \in DOMAIN asks, rows[j].id = asks[k].id
          PROVE  rows[j].status = "escalated_to_iso"
      <4>1. CASE k \in DOMAIN c.asks
        BY <3>4, <3>7, <3>13, <4>1 DEF Sound
      <4>2. CASE k = Len(c.asks) + 1
        <5>1. c.research[j].id = c.research[i].id
          BY <3>4, <3>7, <3>11, <3>13, <4>2
        <5>2. j = i
          BY <2>2, <3>4, <5>1 DEF Sound, Distinct
        <5> QED  BY <3>4, <5>2, <2>2
      <4> QED  BY <3>14, <4>1, <4>2
    <3>15. \A j \in DOMAIN asks : asks[j].status = "awaiting_iso" => asks[j].answer = None
      BY <3>11, <3>13, <3>14 DEF Sound
    <3>16. Ids(asks) \subseteq AskIds /\ Distinct(asks)
           /\ \A t : HasDelivered(asks, t) <=> HasDelivered(c.asks, t)
      BY <2>3, <3>11, <3>13 DEF Sound
    <3>8. Sound(d)
      BY <3>3, <3>4, <3>5, <3>6, <3>7, <3>15, <3>16 DEF Sound
    <3>9. Later(c, d)
      BY <1>0, <3>3, <3>4, <3>13, CopyIs DEF Later
    <3> QED  BY <2>3, <3>3, <3>4, <3>8, <3>9, <3>11, <3>13
  <2> QED  BY <1>1, <1>3, <2>1, <2>4, <2>5 DEF Researched
<1> QED  BY <1>2, <1>3

\* A turn's new request has an id of its own.
LEMMA RequestedSound ==
  ASSUME NEW c, Sound(c), NEW agent \in {"A", "B"},
         NEW id \in {None} \cup (AskIds \ (Ids(c.asks) \cup Ids(c.research))),
         NEW d, d = Requested(c, agent, id)
  PROVE  /\ Sound(d) /\ Later(c, d)
         /\ d.suggestions = c.suggestions /\ d.deliveries = c.deliveries
         /\ d.processed = c.processed
         /\ Ids(d.asks) \cup Ids(d.research) \subseteq Ids(c.asks) \cup Ids(c.research) \cup {id}
<1>0. c \in Copy
  BY DEF Sound
<1>1. CASE id = None
  BY <1>0, <1>1, LaterReflexive DEF Requested
<1>2. CASE id # None /\ id \in Questions
  <2>1. PICK row : row = [id |-> id, requester |-> agent, status |-> "awaiting_iso", answer |-> None]
    OBVIOUS
  <2>2. row \in Row /\ row.id = id /\ row.status = "awaiting_iso" /\ row.answer = None
    BY <1>2, <2>1 DEF Row, Targets, AskIds
  <2>3. PICK asks : Extends(asks, c.asks, row)
    BY DEF Extends
  <2>4. d = [c EXCEPT !.asks = asks]
    BY <1>2, <2>1, <2>3 DEF Requested, Extends
  <2>5. d = [suggestions |-> c.suggestions, asks |-> asks, research |-> c.research,
             processed |-> c.processed, deliveries |-> c.deliveries, run |-> c.run]
    BY ONLY <1>0, <2>4, CopyWith
  <2>6. /\ asks \in Seq(Row) /\ Len(asks) = Len(c.asks) + 1
        /\ DOMAIN asks = 1..(Len(c.asks) + 1)
        /\ \A j \in DOMAIN c.asks : asks[j] = c.asks[j]
        /\ asks[Len(c.asks) + 1] = row
        /\ Ids(asks) = Ids(c.asks) \cup {row.id}
        /\ (Distinct(c.asks) /\ row.id \notin Ids(c.asks)) => Distinct(asks)
        /\ \A t : HasDelivered(asks, t) <=>
             HasDelivered(c.asks, t) \/ (row.id = t /\ row.status = "delivered")
    BY <1>0, <2>2, <2>3, CopyIs, AppendedRow
  <2>7. \A j \in DOMAIN asks : j \in DOMAIN c.asks \/ j = Len(c.asks) + 1
    BY <1>0, <2>6, CopyIs
  <2>8. d \in Copy
    BY <1>0, <2>5, <2>6, CopyIs DEF Copy
  <2>9. \A j \in DOMAIN c.research, k \in DOMAIN asks :
          c.research[j].id = asks[k].id => c.research[j].status = "escalated_to_iso"
    <3>1. id \notin Ids(c.research)
      BY <1>2
    <3> QED  BY <2>2, <2>6, <2>7, <3>1 DEF Sound, Ids
  <2>10. \A j \in DOMAIN asks : asks[j].status = "awaiting_iso" => asks[j].answer = None
    BY <2>2, <2>6, <2>7 DEF Sound
  <2>11. Ids(asks) \subseteq AskIds /\ Distinct(asks)
         /\ \A t : HasDelivered(asks, t) <=> HasDelivered(c.asks, t)
    BY <1>2, <2>2, <2>6 DEF Sound, AskIds
  <2>12. Sound(d)
    BY <2>5, <2>8, <2>9, <2>10, <2>11 DEF Sound
  <2>13. Later(c, d)
    BY <1>0, <2>5, <2>6, CopyIs DEF Later
  <2> QED  BY <2>2, <2>5, <2>6, <2>12, <2>13
<1>3. CASE id # None /\ id \notin Questions
  <2>1. PICK row : row = [id |-> id, requester |-> agent, status |-> "queued", answer |-> None]
    OBVIOUS
  <2>2. row \in Row /\ row.id = id /\ row.status = "queued"
    BY <1>3, <2>1 DEF Row, Targets, AskIds
  <2>3. PICK rows : Extends(rows, c.research, row)
    BY DEF Extends
  <2>4. d = [c EXCEPT !.research = rows]
    BY <1>3, <2>1, <2>3 DEF Requested, Extends
  <2>5. d = [suggestions |-> c.suggestions, asks |-> c.asks, research |-> rows,
             processed |-> c.processed, deliveries |-> c.deliveries, run |-> c.run]
    BY ONLY <1>0, <2>4, CopyWith
  <2>6. /\ rows \in Seq(Row) /\ Len(rows) = Len(c.research) + 1
        /\ DOMAIN rows = 1..(Len(c.research) + 1)
        /\ \A j \in DOMAIN c.research : rows[j] = c.research[j]
        /\ rows[Len(c.research) + 1] = row
        /\ Ids(rows) = Ids(c.research) \cup {row.id}
        /\ (Distinct(c.research) /\ row.id \notin Ids(c.research)) => Distinct(rows)
        /\ \A t : HasDelivered(rows, t) <=>
             HasDelivered(c.research, t) \/ (row.id = t /\ row.status = "delivered")
    BY <1>0, <2>2, <2>3, CopyIs, AppendedRow
  <2>7. \A j \in DOMAIN rows : j \in DOMAIN c.research \/ j = Len(c.research) + 1
    BY <1>0, <2>6, CopyIs
  <2>8. d \in Copy
    BY <1>0, <2>5, <2>6, CopyIs DEF Copy
  <2>9. \A j \in DOMAIN rows, k \in DOMAIN c.asks :
          rows[j].id = c.asks[k].id => rows[j].status = "escalated_to_iso"
    <3>1. id \notin Ids(c.asks)
      BY <1>3
    <3> QED  BY <2>2, <2>6, <2>7, <3>1 DEF Sound, Ids
  <2>11. Ids(rows) \subseteq AskIds /\ Distinct(rows)
         /\ \A t : HasDelivered(rows, t) <=> HasDelivered(c.research, t)
    BY <1>3, <2>2, <2>6 DEF Sound
  <2>12. Sound(d)
    BY <2>5, <2>8, <2>9, <2>11 DEF Sound
  <2>13. Later(c, d)
    BY <1>0, <2>5, <2>6, CopyIs DEF Later
  <2> QED  BY <2>2, <2>5, <2>6, <2>12, <2>13
<1> QED  BY <1>1, <1>2, <1>3

\* So have its two or three, which differ from each other.
LEMMA RaisedSound ==
  ASSUME NEW c, Sound(c), NEW agent \in {"A", "B"}, NEW r \in Requests,
         Ids(c.asks) \cup Ids(c.research) \subseteq Ids(state.asks) \cup Ids(state.research),
         state \in Copy
  PROVE  LET d == Raised(c, agent, r)
         IN  /\ Sound(d) /\ Later(c, d)
             /\ d.suggestions = c.suggestions /\ d.deliveries = c.deliveries
             /\ d.processed = c.processed
<1>1. PICK old : old = Ids(state.asks) \cup Ids(state.research)
  OBVIOUS
<1>2. /\ r.ask \in {None} \cup (AskIds \ old) /\ r.ask \in {None} \cup Questions
      /\ r.lookup \in {None} \cup ((AskIds \ old) \ Questions)
      /\ r.search \in {None} \cup ((AskIds \ old) \ Questions)
      /\ r.lookup = r.search => r.lookup = None
  BY <1>1 DEF Requests, Unused
<1>3. None \notin Questions
  BY NamesAssumption DEF Targets, AskIds
<1>4. PICK d1, d2, d3 : /\ d1 = Requested(c, agent, r.ask) /\ d2 = Requested(d1, agent, r.lookup)
                        /\ d3 = Requested(d2, agent, r.search)
  OBVIOUS
<1>5. /\ Sound(d1) /\ Later(c, d1)
      /\ d1.suggestions = c.suggestions /\ d1.deliveries = c.deliveries /\ d1.processed = c.processed
      /\ Ids(d1.asks) \cup Ids(d1.research) \subseteq old \cup {r.ask}
  <2>1. r.ask \in {None} \cup (AskIds \ (Ids(c.asks) \cup Ids(c.research)))
    BY <1>1, <1>2
  <2>2. /\ Sound(d1) /\ Later(c, d1)
        /\ d1.suggestions = c.suggestions /\ d1.deliveries = c.deliveries
        /\ d1.processed = c.processed
        /\ Ids(d1.asks) \cup Ids(d1.research)
             \subseteq Ids(c.asks) \cup Ids(c.research) \cup {r.ask}
    <3>1. PICK id : id = r.ask
      OBVIOUS
    <3>2. d1 = Requested(c, agent, id) /\ id \in {None} \cup (AskIds \ (Ids(c.asks) \cup Ids(c.research)))
      BY <1>4, <2>1, <3>1
    <3>3. /\ Sound(d1) /\ Later(c, d1)
          /\ d1.suggestions = c.suggestions /\ d1.deliveries = c.deliveries
          /\ d1.processed = c.processed
          /\ Ids(d1.asks) \cup Ids(d1.research) \subseteq Ids(c.asks) \cup Ids(c.research) \cup {id}
      BY <3>2, RequestedSound, SMTT(60)
    <3> QED  BY <3>1, <3>3
  <2> QED  BY <1>1, <2>2
<1>6. /\ Sound(d2) /\ Later(d1, d2)
      /\ d2.suggestions = c.suggestions /\ d2.deliveries = c.deliveries /\ d2.processed = c.processed
      /\ Ids(d2.asks) \cup Ids(d2.research) \subseteq old \cup {r.ask, r.lookup}
  <2>1. r.lookup \in {None} \cup (AskIds \ (Ids(d1.asks) \cup Ids(d1.research)))
    BY <1>2, <1>3, <1>5
  <2>2. /\ Sound(d2) /\ Later(d1, d2)
        /\ d2.suggestions = d1.suggestions /\ d2.deliveries = d1.deliveries
        /\ d2.processed = d1.processed
        /\ Ids(d2.asks) \cup Ids(d2.research)
             \subseteq Ids(d1.asks) \cup Ids(d1.research) \cup {r.lookup}
    BY <1>4, <1>5, <2>1, RequestedSound
  <2> QED  BY <1>5, <2>2
<1>7. /\ Sound(d3) /\ Later(d2, d3)
      /\ d3.suggestions = c.suggestions /\ d3.deliveries = c.deliveries /\ d3.processed = c.processed
  <2>1. r.search \in {None} \cup (AskIds \ (Ids(d2.asks) \cup Ids(d2.research)))
    BY <1>2, <1>3, <1>6
  <2>2. /\ Sound(d3) /\ Later(d2, d3)
        /\ d3.suggestions = d2.suggestions /\ d3.deliveries = d2.deliveries
        /\ d3.processed = d2.processed
    BY <1>4, <1>6, <2>1, RequestedSound
  <2> QED  BY <1>6, <2>2
<1>8. Later(c, d3)
  <2>1. c \in Copy /\ d1 \in Copy /\ d2 \in Copy /\ d3 \in Copy
    BY <1>5, <1>6, <1>7 DEF Sound
  <2>2. Later(c, d2)
    BY <1>5, <1>6, <2>1, LaterTransitive
  <2> QED  BY <1>7, <2>1, <2>2, LaterTransitive
<1>9. Raised(c, agent, r) = d3
  BY <1>4 DEF Raised
<1> QED  BY <1>7, <1>8, <1>9

\* A reply that waits is not in the delivery record, and it is of one kind only.
LEMMA Undelivered ==
  ASSUME NEW c, Sound(c), NEW rows \in {c.suggestions, c.asks, c.research},
         NEW i \in DOMAIN rows, rows[i].status = IF rows = c.suggestions THEN "approved" ELSE "answered"
  PROVE  rows[i].id \in Targets /\ rows[i].id \notin Ids(c.deliveries)
<1>0. c \in Copy /\ Distinct(rows) /\ rows[i].id \in Ids(rows)
  BY DEF Sound, Ids
<1>1. PICK id : id = rows[i].id
  OBVIOUS
<1>2. ~HasDelivered(rows, id) /\ rows[i].status # "escalated_to_iso"
  BY <1>0, <1>1 DEF HasDelivered, Distinct
<1>3. /\ \A j \in DOMAIN c.suggestions : c.suggestions[j].id \in Suggestions
      /\ \A j \in DOMAIN c.asks : c.asks[j].id \in AskIds
      /\ \A j \in DOMAIN c.research : c.research[j].id \in AskIds
  BY DEF Sound, Ids
<1>4. CASE rows = c.suggestions
  <2>1. id \in Suggestions /\ id \notin AskIds
    BY <1>1, <1>3, <1>4, NamesAssumption
  <2>2. ~HasDelivered(c.asks, id) /\ ~HasDelivered(c.research, id)
    BY <1>3, <2>1 DEF HasDelivered
  <2> QED  BY <1>1, <1>2, <1>4, <2>1, <2>2 DEF Sound, Targets
<1>5. CASE rows = c.asks
  <2>1. id \in AskIds /\ id \notin Suggestions
    BY <1>1, <1>3, <1>5, NamesAssumption
  <2>2. ~HasDelivered(c.suggestions, id)
    BY <1>3, <2>1 DEF HasDelivered
  <2>3. ~HasDelivered(c.research, id)
    BY <1>1, <1>5 DEF HasDelivered, Sound
  <2> QED  BY <1>1, <1>2, <1>5, <2>1, <2>2, <2>3 DEF Sound, Targets
<1>6. CASE rows = c.research
  <2>1. id \in AskIds /\ id \notin Suggestions
    BY <1>1, <1>3, <1>6, NamesAssumption
  <2>2. ~HasDelivered(c.suggestions, id)
    BY <1>3, <2>1 DEF HasDelivered
  <2>3. ~HasDelivered(c.asks, id)
    BY <1>1, <1>2, <1>6 DEF HasDelivered, Sound
  <2> QED  BY <1>1, <1>2, <1>6, <2>1, <2>2, <2>3 DEF Sound, Targets
<1> QED  BY <1>4, <1>5, <1>6

\* What deliver_one does to the delivery record.
LEMMA DeliveryAdded ==
  ASSUME NEW c, Sound(c), NEW id \in Targets, id \notin Ids(c.deliveries), NEW agent \in {"A", "B"},
         NEW entry, entry = [id |-> id, agent |-> agent],
         NEW given, Extends(given, c.deliveries, entry)
  PROVE  /\ given \in Seq(Delivery) /\ Len(given) = Len(c.deliveries) + 1
         /\ \A j \in DOMAIN c.deliveries : given[j] = c.deliveries[j]
         /\ given[Len(c.deliveries) + 1] = entry
         /\ DOMAIN given = 1..(Len(c.deliveries) + 1)
         /\ Ids(given) = Ids(c.deliveries) \cup {id} /\ Distinct(given)
<1>1. entry \in Delivery /\ entry.id = id
  BY DEF Delivery
<1>2. c.deliveries \in Seq(Delivery) /\ Distinct(c.deliveries)
  BY CopyIs DEF Sound
<1> QED  BY <1>1, <1>2, AppendedDelivery

\* deliver_one: one reply leaves the rows that wait and enters the record.
LEMMA DeliveredSound ==
  ASSUME NEW c, Sound(c), NEW agent \in {"A", "B"}, NEW d, d = Delivered(c, agent)
  PROVE  /\ Sound(d) /\ Later(c, d) /\ d.processed = c.processed
         /\ Ids(d.suggestions) = Ids(c.suggestions) /\ Ids(d.asks) = Ids(c.asks)
         /\ Ids(d.research) = Ids(c.research)
         /\ Len(d.deliveries) <= Len(c.deliveries) + 1
         /\ \A i \in DOMAIN d.deliveries \ DOMAIN c.deliveries : d.deliveries[i].agent = agent
<1>0. c \in Copy
  BY DEF Sound
<1>1. PICK r, a, s : /\ r = Eligible(c.research, "answered", agent)
                     /\ a = Eligible(c.asks, "answered", agent)
                     /\ s = Eligible(c.suggestions, "approved", agent)
  OBVIOUS
<1>2. r \in SUBSET Nat /\ a \in SUBSET Nat /\ s \in SUBSET Nat
  BY <1>0, <1>1, CopyIs DEF Eligible
<1>3. CASE r # {}
  <2>1. PICK i : i = Oldest(r)
    OBVIOUS
  <2>2. i \in DOMAIN c.research /\ c.research[i].status = "answered"
    BY <1>1, <1>2, <1>3, <2>1, OldestIs DEF Eligible
  <2>3. c.research[i].id \in Targets /\ c.research[i].id \notin Ids(c.deliveries)
        /\ c.research[i].id \in Ids(c.research)
    <3>1. c.research # c.suggestions
      <4>1. c.research[i].id \in AskIds
        BY <2>2 DEF Sound, Ids
      <4>2. i \in DOMAIN c.suggestions => c.suggestions[i].id \in Suggestions
        BY DEF Sound, Ids
      <4> QED  BY <2>2, <4>1, <4>2, NamesAssumption
    <3> QED  BY <2>2, <3>1, Undelivered DEF Ids
  <2>4. PICK rows : Marks(rows, c.research, i, "delivered")
    BY DEF Marks
  <2>5. PICK entry : entry = [id |-> c.research[i].id, agent |-> agent]
    OBVIOUS
  <2>6. PICK given : Extends(given, c.deliveries, entry)
    BY DEF Extends
  <2>7. d = [c EXCEPT !.research = rows, !.deliveries = given]
    BY <1>1, <1>3, <2>1, <2>4, <2>5, <2>6 DEF Delivered, Marks, Extends
  <2>8. d = [suggestions |-> c.suggestions, asks |-> c.asks, research |-> rows,
             processed |-> c.processed, deliveries |-> given, run |-> c.run]
    <3>1. c = [suggestions |-> c.suggestions, asks |-> c.asks, research |-> c.research,
               processed |-> c.processed, deliveries |-> c.deliveries, run |-> c.run]
      BY <1>0, CopyIs
    <3> QED  BY ONLY <2>7, <3>1
  <2>9. /\ rows \in Seq(Row) /\ Len(rows) = Len(c.research) /\ DOMAIN rows = DOMAIN c.research
        /\ Ids(rows) = Ids(c.research) /\ (Distinct(c.research) <=> Distinct(rows))
        /\ \A j \in DOMAIN c.research :
             /\ rows[j].id = c.research[j].id
             /\ rows[j].status = IF j = i THEN "delivered" ELSE c.research[j].status
    BY <1>0, <2>2, <2>4, CopyIs, StatusSet
  <2>10. \A t : HasDelivered(rows, t) <=> HasDelivered(c.research, t) \/ t = c.research[i].id
    BY <1>0, <2>2, <2>4, CopyIs, DeliveredRow
  <2>11. /\ given \in Seq(Delivery) /\ Len(given) = Len(c.deliveries) + 1
         /\ \A j \in DOMAIN c.deliveries : given[j] = c.deliveries[j]
         /\ given[Len(c.deliveries) + 1] = entry
         /\ DOMAIN given = 1..(Len(c.deliveries) + 1)
         /\ Ids(given) = Ids(c.deliveries) \cup {c.research[i].id} /\ Distinct(given)
    BY <2>3, <2>5, <2>6, DeliveryAdded
  <2>12. d \in Copy
    BY <1>0, <2>8, <2>9, <2>11, CopyIs DEF Copy
  <2>13. \A j \in DOMAIN rows, k \in DOMAIN c.asks :
           rows[j].id = c.asks[k].id => rows[j].status = "escalated_to_iso"
    BY <2>2, <2>9 DEF Sound
  <2>14. \A t \in Targets : t \in Ids(given) <=>
           HasDelivered(c.suggestions, t) \/ HasDelivered(c.asks, t) \/ HasDelivered(rows, t)
    BY <2>10, <2>11 DEF Sound
  <2>15. Sound(d)
    BY <2>8, <2>9, <2>11, <2>12, <2>13, <2>14 DEF Sound
  <2>16. Later(c, d)
    BY <1>0, <2>8, <2>9, <2>11, CopyIs DEF Later
  <2>17. /\ Len(d.deliveries) <= Len(c.deliveries) + 1
         /\ \A j \in DOMAIN d.deliveries \ DOMAIN c.deliveries : d.deliveries[j].agent = agent
    <3>1. \A j \in DOMAIN given \ DOMAIN c.deliveries : j = Len(c.deliveries) + 1
      BY <1>0, <2>11, CopyIs
    <3>2. entry.agent = agent
      BY <2>5
    <3> QED  BY <1>0, <2>8, <2>11, <3>1, <3>2, CopyIs
  <2> QED  BY <2>8, <2>9, <2>15, <2>16, <2>17
<1>4. CASE r = {} /\ a # {}
  <2>1. PICK i : i = Oldest(a)
    OBVIOUS
  <2>2. i \in DOMAIN c.asks /\ c.asks[i].status = "answered"
    BY <1>1, <1>2, <1>4, <2>1, OldestIs DEF Eligible
  <2>3. c.asks[i].id \in Targets /\ c.asks[i].id \notin Ids(c.deliveries)
        /\ c.asks[i].id \in Ids(c.asks)
    <3>1. c.asks # c.suggestions
      <4>1. c.asks[i].id \in AskIds
        BY <2>2 DEF Sound, Ids
      <4>2. i \in DOMAIN c.suggestions => c.suggestions[i].id \in Suggestions
        BY DEF Sound, Ids
      <4> QED  BY <2>2, <4>1, <4>2, NamesAssumption
    <3> QED  BY <2>2, <3>1, Undelivered DEF Ids
  <2>4. PICK rows : Marks(rows, c.asks, i, "delivered")
    BY DEF Marks
  <2>5. PICK entry : entry = [id |-> c.asks[i].id, agent |-> agent]
    OBVIOUS
  <2>6. PICK given : Extends(given, c.deliveries, entry)
    BY DEF Extends
  <2>7. d = [c EXCEPT !.asks = rows, !.deliveries = given]
    BY <1>1, <1>4, <2>1, <2>4, <2>5, <2>6 DEF Delivered, Marks, Extends
  <2>8. d = [suggestions |-> c.suggestions, asks |-> rows, research |-> c.research,
             processed |-> c.processed, deliveries |-> given, run |-> c.run]
    <3>1. c = [suggestions |-> c.suggestions, asks |-> c.asks, research |-> c.research,
               processed |-> c.processed, deliveries |-> c.deliveries, run |-> c.run]
      BY <1>0, CopyIs
    <3> QED  BY ONLY <2>7, <3>1
  <2>9. /\ rows \in Seq(Row) /\ Len(rows) = Len(c.asks) /\ DOMAIN rows = DOMAIN c.asks
        /\ Ids(rows) = Ids(c.asks) /\ (Distinct(c.asks) <=> Distinct(rows))
        /\ \A j \in DOMAIN c.asks :
             /\ rows[j].id = c.asks[j].id /\ rows[j].answer = c.asks[j].answer
             /\ rows[j].status = IF j = i THEN "delivered" ELSE c.asks[j].status
    BY <1>0, <2>2, <2>4, CopyIs, StatusSet
  <2>10. \A t : HasDelivered(rows, t) <=> HasDelivered(c.asks, t) \/ t = c.asks[i].id
    BY <1>0, <2>2, <2>4, CopyIs, DeliveredRow
  <2>11. /\ given \in Seq(Delivery) /\ Len(given) = Len(c.deliveries) + 1
         /\ \A j \in DOMAIN c.deliveries : given[j] = c.deliveries[j]
         /\ given[Len(c.deliveries) + 1] = entry
         /\ DOMAIN given = 1..(Len(c.deliveries) + 1)
         /\ Ids(given) = Ids(c.deliveries) \cup {c.asks[i].id} /\ Distinct(given)
    BY <2>3, <2>5, <2>6, DeliveryAdded
  <2>12. d \in Copy
    BY <1>0, <2>8, <2>9, <2>11, CopyIs DEF Copy
  <2>13. \A j \in DOMAIN c.research, k \in DOMAIN rows :
           c.research[j].id = rows[k].id => c.research[j].status = "escalated_to_iso"
    BY <2>9 DEF Sound
  <2>14. \A t \in Targets : t \in Ids(given) <=>
           HasDelivered(c.suggestions, t) \/ HasDelivered(rows, t) \/ HasDelivered(c.research, t)
    BY <2>10, <2>11 DEF Sound
  <2>18. \A j \in DOMAIN rows : rows[j].status = "awaiting_iso" => rows[j].answer = None
    BY <2>9 DEF Sound
  <2>15. Sound(d)
    BY <2>8, <2>9, <2>11, <2>12, <2>13, <2>14, <2>18 DEF Sound
  <2>16. Later(c, d)
    BY <1>0, <2>8, <2>9, <2>11, CopyIs DEF Later
  <2>17. /\ Len(d.deliveries) <= Len(c.deliveries) + 1
         /\ \A j \in DOMAIN d.deliveries \ DOMAIN c.deliveries : d.deliveries[j].agent = agent
    <3>1. \A j \in DOMAIN given \ DOMAIN c.deliveries : j = Len(c.deliveries) + 1
      BY <1>0, <2>11, CopyIs
    <3>2. entry.agent = agent
      BY <2>5
    <3> QED  BY <1>0, <2>8, <2>11, <3>1, <3>2, CopyIs
  <2> QED  BY <2>8, <2>9, <2>15, <2>16, <2>17
<1>5. CASE r = {} /\ a = {} /\ s # {}
  <2>1. PICK i : i = Oldest(s)
    OBVIOUS
  <2>2. i \in DOMAIN c.suggestions /\ c.suggestions[i].status = "approved"
    BY <1>1, <1>2, <1>5, <2>1, OldestIs DEF Eligible
  <2>3. c.suggestions[i].id \in Targets /\ c.suggestions[i].id \notin Ids(c.deliveries)
        /\ c.suggestions[i].id \in Ids(c.suggestions)
    BY <2>2, Undelivered DEF Ids
  <2>4. PICK rows : Marks(rows, c.suggestions, i, "delivered")
    BY DEF Marks
  <2>5. PICK entry : entry = [id |-> c.suggestions[i].id, agent |-> agent]
    OBVIOUS
  <2>6. PICK given : Extends(given, c.deliveries, entry)
    BY DEF Extends
  <2>7. d = [c EXCEPT !.suggestions = rows, !.deliveries = given]
    BY <1>1, <1>5, <2>1, <2>4, <2>5, <2>6 DEF Delivered, Marks, Extends
  <2>8. d = [suggestions |-> rows, asks |-> c.asks, research |-> c.research,
             processed |-> c.processed, deliveries |-> given, run |-> c.run]
    <3>1. c = [suggestions |-> c.suggestions, asks |-> c.asks, research |-> c.research,
               processed |-> c.processed, deliveries |-> c.deliveries, run |-> c.run]
      BY <1>0, CopyIs
    <3> QED  BY ONLY <2>7, <3>1
  <2>9. /\ rows \in Seq(Row) /\ Len(rows) = Len(c.suggestions)
        /\ DOMAIN rows = DOMAIN c.suggestions
        /\ Ids(rows) = Ids(c.suggestions) /\ (Distinct(c.suggestions) <=> Distinct(rows))
        /\ \A j \in DOMAIN c.suggestions :
             /\ rows[j].id = c.suggestions[j].id
             /\ rows[j].status = IF j = i THEN "delivered" ELSE c.suggestions[j].status
    BY <1>0, <2>2, <2>4, CopyIs, StatusSet
  <2>10. \A t : HasDelivered(rows, t) <=> HasDelivered(c.suggestions, t) \/ t = c.suggestions[i].id
    BY <1>0, <2>2, <2>4, CopyIs, DeliveredRow
  <2>11. /\ given \in Seq(Delivery) /\ Len(given) = Len(c.deliveries) + 1
         /\ \A j \in DOMAIN c.deliveries : given[j] = c.deliveries[j]
         /\ given[Len(c.deliveries) + 1] = entry
         /\ DOMAIN given = 1..(Len(c.deliveries) + 1)
         /\ Ids(given) = Ids(c.deliveries) \cup {c.suggestions[i].id} /\ Distinct(given)
    BY <2>3, <2>5, <2>6, DeliveryAdded
  <2>12. d \in Copy
    BY <1>0, <2>8, <2>9, <2>11, CopyIs DEF Copy
  <2>14. \A t \in Targets : t \in Ids(given) <=>
           HasDelivered(rows, t) \/ HasDelivered(c.asks, t) \/ HasDelivered(c.research, t)
    BY <2>10, <2>11 DEF Sound
  <2>15. Sound(d)
    BY <2>8, <2>9, <2>11, <2>12, <2>14 DEF Sound
  <2>16. Later(c, d)
    BY <1>0, <2>2, <2>8, <2>9, <2>11, CopyIs DEF Later
  <2>17. /\ Len(d.deliveries) <= Len(c.deliveries) + 1
         /\ \A j \in DOMAIN d.deliveries \ DOMAIN c.deliveries : d.deliveries[j].agent = agent
    <3>1. \A j \in DOMAIN given \ DOMAIN c.deliveries : j = Len(c.deliveries) + 1
      BY <1>0, <2>11, CopyIs
    <3>2. entry.agent = agent
      BY <2>5
    <3> QED  BY <1>0, <2>8, <2>11, <3>1, <3>2, CopyIs
  <2> QED  BY <2>8, <2>9, <2>15, <2>16, <2>17
<1>6. CASE r = {} /\ a = {} /\ s = {}
  <2>1. d = c
    BY <1>1, <1>6 DEF Delivered
  <2> QED  BY <1>0, <2>1, LaterReflexive, CopyIs
<1> QED  BY <1>3, <1>4, <1>5, <1>6

-----------------------------------------------------------------------------
(* The import of the spool *)

\* The recursive function exists, and is what its equation says.
LEMMA ImportedIs ==
  ASSUME Len(spool) \in Nat
  PROVE  /\ imported[0] = Base
         /\ \A n \in 1..Len(spool) : imported[n] = ImportOne(imported[n - 1], spool[n])
<1> DEFINE Values(f, n) == [m \in 0..n |-> IF m = 0 THEN Base ELSE ImportOne(f[m - 1], spool[m])]
<1>1. PICK N : N = Len(spool) /\ N \in Nat
  OBVIOUS
<1> DEFINE T == {n \in 0..N : \E f : f = Values(f, n)}
<1>2. 0 \in T
  <2>1. PICK f : f = [m \in 0..0 |-> Base]
    OBVIOUS
  <2>2. f = Values(f, 0)
    BY <2>1
  <2> QED  BY <1>1, <2>2
<1>3. ASSUME NEW n \in 1..N, n - 1 \in T PROVE n \in T
  <2>1. PICK f : f = Values(f, n - 1)
    BY <1>3
  <2>2. PICK g : g = [m \in 0..n |-> IF m = n THEN ImportOne(f[n - 1], spool[n]) ELSE f[m]]
    OBVIOUS
  <2>3. \A m \in 0..n : m = n \/ m \in 0..(n - 1)
    BY <1>1
  <2>4. \A m \in 0..(n - 1) : f[m] = IF m = 0 THEN Base ELSE ImportOne(f[m - 1], spool[m])
    BY <2>1
  <2>5. \A m \in 0..(n - 1) : g[m] = f[m] /\ m # n
    BY <1>1, <2>2
  <2>6. ASSUME NEW m \in 0..n
        PROVE  g[m] = IF m = 0 THEN Base ELSE ImportOne(g[m - 1], spool[m])
    <3>1. CASE m = n
      <4>1. n - 1 \in 0..(n - 1) /\ m # 0
        BY <3>1, <1>1
      <4>2. g[n - 1] = f[n - 1]
        BY <4>1, <2>5
      <4>3. g[n] = ImportOne(f[n - 1], spool[n])
        BY <2>2, <3>1
      <4> QED  BY <3>1, <4>1, <4>2, <4>3
    <3>2. CASE m \in 0..(n - 1)
      <4>1. m # 0 => m - 1 \in 0..(n - 1)
        BY <3>2, <1>1
      <4> QED  BY <3>2, <4>1, <2>4, <2>5
    <3> QED  BY <2>3, <3>1, <3>2
  <2>7. g = Values(g, n)
    BY <2>2, <2>6
  <2>8. n \in 0..N
    BY <1>1
  <2> QED  BY <2>7, <2>8
<1>4. N \in T
  <2> HIDE DEF T
  <2>1. \A n \in 0..N : n \in T
    BY <1>1, <1>2, <1>3, Induction
  <2>2. N \in 0..N
    BY <1>1
  <2> QED  BY <2>1, <2>2
<1>5. imported = Values(imported, N)
  <2>1. \E f : f = Values(f, N)
    BY <1>4
  <2> QED  BY <1>1, <2>1 DEF imported
<1>6. imported[0] = Base
  <2>1. 0 \in 0..N
    BY <1>1
  <2> QED  BY <1>5, <2>1
<1>7. ASSUME NEW n \in 1..N PROVE imported[n] = ImportOne(imported[n - 1], spool[n])
  <2>1. n \in 0..N /\ n # 0
    BY <1>1
  <2> QED  BY <1>5, <2>1
<1> QED  BY <1>1, <1>6, <1>7

\* A copy that has processed more is as sound.
LEMMA ProcessedMore ==
  ASSUME NEW c, Sound(c), NEW P \in SUBSET (Targets \cup Clicks), c.processed \subseteq P,
         NEW d, d = [c EXCEPT !.processed = P]
  PROVE  /\ Sound(d) /\ Later(c, d) /\ d.processed = P
         /\ d.suggestions = c.suggestions /\ d.asks = c.asks /\ d.research = c.research
         /\ d.deliveries = c.deliveries /\ d.run = c.run
<1>0. c \in Copy
  BY DEF Sound
<1>1. d = [suggestions |-> c.suggestions, asks |-> c.asks, research |-> c.research,
           processed |-> P, deliveries |-> c.deliveries, run |-> c.run]
  BY <1>0, CopyIs
<1>2. d \in Copy
  BY <1>0, <1>1, CopyIs DEF Copy
<1>3. Sound(d)
  BY <1>1, <1>2 DEF Sound
<1>4. Later(c, d)
  BY <1>0, <1>1, CopyIs DEF Later
<1> QED  BY <1>1, <1>3, <1>4

SameRows(b, c) ==
  /\ c.suggestions = b.suggestions /\ c.asks = b.asks /\ c.research = b.research
  /\ c.deliveries = b.deliveries /\ c.run = b.run

\* The import begins with the rows of the state: a backup is taken over only
\* where neither has any.
LEMMA BaseIs ==
  ASSUME Inv
  PROVE  /\ Sound(Base) /\ SameRows(state, Base)
         /\ Seeded \subseteq Base.processed
         /\ Base.processed \subseteq Ids(spool) \cup Seeded
<1>1. PICK b, g, c : b = Base /\ g = generation /\ c = Restored
  OBVIOUS
<1>2. /\ Sound(state) /\ state.processed \subseteq Ids(spool) \cup Seeded
      /\ (recovery # None => Sound(recovery) /\ recovery.run <= state.run)
      /\ (g # None => Sound(g) /\ g.run = state.run) /\ (g = None => state.run = 0)
      /\ state.run \in Nat /\ (recovery # None => recovery.run \in Nat)
  BY <1>1, CopyIs DEF Inv, InvCopies, InvOwn, Copies, Sound
<1>3. /\ Sound(c) /\ SameRows(state, c) /\ c.processed \subseteq Ids(spool) \cup Seeded
  <2>1. CASE Blank(state) /\ OwnBackup
    <3>1. c = recovery /\ recovery # None
      BY <1>1, <2>1 DEF Restored, OwnBackup
    <3>2. recovery.run = state.run
      BY <1>1, <1>2, <2>1, <3>1 DEF OwnBackup
    <3>3. recovery \in Copies
      BY <3>1 DEF Copies
    <3>4. Blank(recovery) /\ recovery.processed \subseteq Ids(spool) \cup Seeded
      BY <2>1, <3>2, <3>3 DEF Inv, InvOwn
    <3> QED  BY <1>2, <2>1, <3>1, <3>2, <3>4 DEF Blank, SameRows
  <2>2. CASE ~(Blank(state) /\ OwnBackup)
    BY <1>1, <1>2, <2>2 DEF Restored, SameRows
  <2> QED  BY <2>1, <2>2
<1>4. CASE g = None
  <2>1. b = c /\ Seeded = {}
    BY <1>1, <1>4 DEF Base, Seeded
  <2> QED  BY <1>1, <1>3, <2>1
<1>5. CASE g # None
  <2>1. PICK P : P = c.processed \cup g.processed
    OBVIOUS
  <2>2. b = [c EXCEPT !.processed = P] /\ Seeded = g.processed
    BY <1>1, <1>5, <2>1 DEF Base, Seeded
  <2>3. P \in SUBSET (Targets \cup Clicks) /\ c.processed \subseteq P
    BY <1>2, <1>3, <1>5, <2>1, CopyIs DEF Sound
  <2>4. /\ Sound(b) /\ b.processed = P
        /\ b.suggestions = c.suggestions /\ b.asks = c.asks /\ b.research = c.research
        /\ b.deliveries = c.deliveries /\ b.run = c.run
    BY <1>3, <2>2, <2>3, ProcessedMore
  <2> QED  BY <1>1, <1>3, <2>1, <2>2, <2>4 DEF SameRows
<1> QED  BY <1>4, <1>5

\* The whole import: every record of the spool is processed once, and no
\* suggestion of the seed comes back.
LEMMA ImportedSound ==
  ASSUME Inv
  PROVE  /\ Sound(Imported) /\ Later(state, Imported)
         /\ Imported.research = state.research /\ Imported.deliveries = state.deliveries
         /\ Ids(Imported.asks) = Ids(state.asks)
         /\ Ids(Imported.suggestions) \cap Seeded = {}
         /\ Seeded \subseteq Imported.processed
         /\ Ids(spool) \subseteq Imported.processed
         /\ Imported.processed \subseteq Ids(spool) \cup Seeded
<1>1. PICK N : N = Len(spool) /\ N \in Nat /\ DOMAIN spool = 1..N
  BY DEF Inv, TypeOK
<1>2. PICK f : f = imported
  OBVIOUS
<1>3. f[0] = Base /\ \A n \in 1..N : f[n] = ImportOne(f[n - 1], spool[n])
  BY <1>1, <1>2, ImportedIs
<1> DEFINE Good(c, n) ==
      /\ Sound(c) /\ Later(f[0], c)
      /\ c.research = state.research /\ c.deliveries = state.deliveries
      /\ Ids(c.asks) = Ids(state.asks)
      /\ Ids(c.suggestions) \cap Seeded = {}
      /\ Seeded \subseteq c.processed
      /\ \A i \in 1..n : spool[i].id \in c.processed
      /\ c.processed \subseteq Ids(spool) \cup Seeded
<1> DEFINE T == {n \in 0..N : Good(f[n], n)}
<1>4. Sound(state) /\ Ids(state.suggestions) \cap Seeded = {}
      /\ state.processed \subseteq Ids(spool) \cup Seeded
  BY DEF Inv, InvCopies, InvOwn, Copies
<1>5. 0 \in T
  <2>1. /\ Sound(f[0]) /\ SameRows(state, f[0])
        /\ Seeded \subseteq f[0].processed
        /\ f[0].processed \subseteq Ids(spool) \cup Seeded
    BY <1>3, BaseIs
  <2>2. Later(f[0], f[0])
    BY <2>1, LaterReflexive DEF Sound
  <2>3. 0 \in 0..N /\ \A i \in 1..0 : FALSE
    BY <1>1
  <2> QED  BY <1>4, <2>1, <2>2, <2>3 DEF SameRows
<1>6. ASSUME NEW n \in 1..N, n - 1 \in T PROVE n \in T
  <2>1. PICK c, r, d : c = f[n - 1] /\ r = spool[n] /\ d = f[n]
    OBVIOUS
  <2>2. Good(c, n - 1) /\ d = ImportOne(c, r)
    BY <1>3, <1>6, <2>1
  <2>3. Proper(r) /\ r.id \in Ids(spool)
    BY <1>1, <2>1 DEF Inv, InvRecords, Ids
  <2>4. /\ Sound(d) /\ Later(c, d)
        /\ d.research = c.research /\ d.deliveries = c.deliveries
        /\ d.processed = c.processed \cup {r.id}
        /\ Ids(d.asks) = Ids(c.asks)
        /\ Ids(d.suggestions) \subseteq Ids(c.suggestions) \cup ({r.id} \ c.processed)
    BY <2>2, <2>3, ImportedOne
  <2>5. Later(f[0], d)
    <3>1. f[0] \in Copy /\ c \in Copy /\ d \in Copy
      BY <1>5, <2>2, <2>4 DEF Sound
    <3> QED  BY <2>2, <2>4, <3>1, LaterTransitive
  <2>6. n \in 0..N /\ \A i \in 1..n : i = n \/ i \in 1..(n - 1)
    BY <1>1
  <2>7. \A i \in 1..n : spool[i].id \in d.processed
    BY <2>1, <2>2, <2>4, <2>6
  <2>8. Ids(d.suggestions) \cap Seeded = {}
    BY <2>2, <2>4
  <2>9. d.processed \subseteq Ids(spool) \cup Seeded /\ Seeded \subseteq d.processed
    BY <2>2, <2>3, <2>4
  <2> QED  BY <2>1, <2>2, <2>4, <2>5, <2>6, <2>7, <2>8, <2>9
<1>7. Good(f[N], N)
  <2> HIDE DEF Good
  <2> HIDE DEF T
  <2>1. \A n \in 0..N : n \in T
    BY <1>1, <1>5, <1>6, Induction
  <2>2. N \in 0..N
    BY <1>1
  <2> QED  BY <2>1, <2>2 DEF T
<1>8. PICK c : c = Imported /\ c = f[N]
  BY <1>1, <1>2 DEF Imported
<1>9. Ids(spool) \subseteq c.processed
  BY <1>1, <1>7, <1>8 DEF Ids
<1>10. Later(state, c)
  <2>1. SameRows(state, f[0])
    BY <1>3, BaseIs
  <2>2. state.processed \subseteq c.processed
    BY <1>4, <1>7, <1>8, <1>9
  <2> QED  BY <1>7, <1>8, <2>1, <2>2 DEF Later, SameRows
<1> QED  BY <1>7, <1>8, <1>9, <1>10

-----------------------------------------------------------------------------
(* The steps *)

\* Steps that make no new copy.
LEMMA NoNewCopy ==
  ASSUME Inv, Copies' \subseteq Copies, state' = state, outbox' = outbox, generation' = generation,
         Ids(spool) \subseteq Ids(spool')
  PROVE  InvCopies' /\ InvOwn'
<1>1. Seeded' = Seeded
  BY DEF Seeded
<1>2. InvCopies'
  BY DEF Inv, InvCopies
<1>3. ASSUME NEW c \in Copies', c.run = state'.run
      PROVE  /\ c.processed \subseteq Ids(spool') \cup Seeded'
             /\ Ids(c.suggestions) \cap Seeded' = {}
             /\ Blank(state') => Blank(c)
  <2>1. /\ c.processed \subseteq Ids(spool) \cup Seeded /\ Ids(c.suggestions) \cap Seeded = {}
        /\ Blank(state) => Blank(c)
    BY <1>3 DEF Inv, InvOwn
  <2> QED  BY <1>1, <2>1
<1> QED  BY <1>2, <1>3 DEF InvOwn

\* The state a turn leaves is one more copy, of the same run.
LEMMA TurnCopies ==
  ASSUME Inv, NEW d, Sound(d), Later(state, d), d.processed \subseteq Ids(spool) \cup Seeded,
         Ids(d.suggestions) \cap Seeded = {},
         state' = d, outbox' \in {d, state}, UNCHANGED <<redis, spool, recovery, generation>>
  PROVE  InvCopies' /\ InvOwn' /\ InvKept'
<1>1. UNCHANGED <<queue, marked, published, spool, recovery, generation>>
  BY DEF redis
<1>2. d.run = state.run /\ state.processed \subseteq d.processed
  BY DEF Later
<1>3. Copies' \subseteq Copies \cup {d} /\ state \in Copies
  BY <1>1 DEF Copies
<1>4. Seeded' = Seeded
  BY <1>1 DEF Seeded
<1>5. InvCopies'
  <2>1. \A c \in Copies' : Sound(c) /\ c.run <= state'.run
    <3>1. d.run \in Nat
      BY CopyIs DEF Sound
    <3>2. d.run <= d.run
      BY <3>1
    <3> QED  BY <1>2, <1>3, <3>2 DEF Inv, InvCopies
  <2>2. outbox'.run = state'.run
    BY <1>2
  <2> QED  BY <1>1, <1>2, <2>1, <2>2 DEF Inv, InvCopies
<1>6. Blank(d) => Blank(state)
  <2>1. state \in Copy /\ d \in Copy
    BY <1>3 DEF Sound, Inv, InvCopies
  <2>2. /\ state.suggestions \in Seq(Row) /\ state.asks \in Seq(Row) /\ state.research \in Seq(Row)
        /\ state.deliveries \in Seq(Delivery)
    BY <2>1, CopyIs
  <2>3. ASSUME Blank(d)
        PROVE  /\ Len(state.suggestions) = 0 /\ Len(state.asks) = 0 /\ Len(state.research) = 0
               /\ Len(state.deliveries) = 0
    <3>1. d.suggestions = <<>> /\ d.asks = <<>> /\ d.research = <<>> /\ d.deliveries = <<>>
      BY <2>3 DEF Blank
    <3>2. /\ Len(state.suggestions) <= 0 /\ Len(state.asks) <= 0 /\ Len(state.research) <= 0
          /\ Len(state.deliveries) <= 0
      BY <3>1 DEF Later
    <3> QED  BY <2>2, <3>2
  <2>4. ASSUME Blank(d)
        PROVE  /\ state.suggestions = <<>> /\ state.asks = <<>> /\ state.research = <<>>
               /\ state.deliveries = <<>>
    BY <2>2, <2>3, <2>4
  <2> QED  BY <2>4 DEF Blank
<1>7. InvOwn'
  <2>1. ASSUME NEW c \in Copies', c.run = state'.run
        PROVE  /\ c.processed \subseteq Ids(spool') \cup Seeded'
               /\ Ids(c.suggestions) \cap Seeded' = {}
               /\ Blank(state') => Blank(c)
    BY <1>1, <1>2, <1>3, <1>4, <1>6, <2>1 DEF Inv, InvOwn
  <2> QED  BY <2>1 DEF InvOwn
<1>8. InvKept'
  BY <1>1, <1>2 DEF Inv, InvKept
<1> QED  BY <1>5, <1>7, <1>8

\* What a turn does to the state, whichever turn it is.
Turned(d) ==
  /\ Sound(d) /\ Later(state, d)
  /\ d.processed \subseteq Ids(spool) \cup Seeded /\ Ids(d.suggestions) \cap Seeded = {}

LEMMA ImportTurned ==
  ASSUME Inv
  PROVE  Turned(Imported) /\ Imported.deliveries = state.deliveries
BY ImportedSound DEF Turned

LEMMA ResearchTurned ==
  ASSUME Inv, NEW c \in Researched(Imported)
  PROVE  /\ Turned(c) /\ c.deliveries = state.deliveries
         /\ Ids(c.asks) \cup Ids(c.research) \subseteq Ids(state.asks) \cup Ids(state.research)
<1>1. PICK m : m = Imported
  OBVIOUS
<1>2. /\ Sound(m) /\ Later(state, m) /\ m.research = state.research
      /\ m.deliveries = state.deliveries /\ Ids(m.asks) = Ids(state.asks)
      /\ Ids(m.suggestions) \cap Seeded = {} /\ m.processed \subseteq Ids(spool) \cup Seeded
  BY <1>1, ImportedSound
<1>3. /\ Sound(c) /\ Later(m, c)
      /\ c.suggestions = m.suggestions /\ c.deliveries = m.deliveries
      /\ c.processed = m.processed /\ Ids(c.research) = Ids(m.research)
      /\ Ids(c.asks) \subseteq Ids(m.asks) \cup Ids(m.research)
  BY <1>1, <1>2, ResearchedSound
<1>4. Later(state, c)
  <2>1. state \in Copy /\ m \in Copy /\ c \in Copy
    BY <1>2, <1>3 DEF Sound, Inv, InvCopies, Copies
  <2> QED  BY <1>2, <1>3, <2>1, LaterTransitive
<1> QED  BY <1>2, <1>3, <1>4 DEF Turned

LEMMA AgentTurned ==
  ASSUME Inv, NEW agent \in {"A", "B"}, AgentTurn(agent)
  PROVE  /\ Turned(state')
         /\ \A i \in DOMAIN state'.deliveries \ DOMAIN state.deliveries :
              state'.deliveries[i].agent = agent
<1>1. PICK c \in Researched(Imported), r \in Requests :
             state' = Raised(Delivered(c, agent), agent, r)
  BY DEF AgentTurn, Heard
<1>2. PICK d, e : d = Delivered(c, agent) /\ e = Raised(d, agent, r)
  OBVIOUS
<1>3. /\ Turned(c) /\ c.deliveries = state.deliveries
      /\ Ids(c.asks) \cup Ids(c.research) \subseteq Ids(state.asks) \cup Ids(state.research)
  BY ResearchTurned
<1>4. /\ Sound(d) /\ Later(c, d) /\ d.processed = c.processed
      /\ Ids(d.suggestions) = Ids(c.suggestions) /\ Ids(d.asks) = Ids(c.asks)
      /\ Ids(d.research) = Ids(c.research)
      /\ \A i \in DOMAIN d.deliveries \ DOMAIN c.deliveries : d.deliveries[i].agent = agent
  BY <1>2, <1>3, DeliveredSound DEF Turned
<1>5. Ids(d.asks) \cup Ids(d.research) \subseteq Ids(state.asks) \cup Ids(state.research)
  BY <1>3, <1>4
<1>6. /\ Sound(e) /\ Later(d, e)
      /\ e.suggestions = d.suggestions /\ e.deliveries = d.deliveries
      /\ e.processed = d.processed
  <2>1. state \in Copy
    BY DEF Inv, InvCopies, Copies, Sound
  <2> QED  BY <1>2, <1>4, <1>5, <2>1, RaisedSound
<1>7. Later(state, e)
  <2>1. state \in Copy /\ c \in Copy /\ d \in Copy /\ e \in Copy
    BY <1>3, <1>4, <1>6 DEF Turned, Sound, Inv, InvCopies, Copies
  <2>2. Later(state, d)
    BY <1>3, <1>4, <2>1, LaterTransitive DEF Turned
  <2> QED  BY <1>6, <2>1, <2>2, LaterTransitive
<1>8. state' = e
  BY <1>1, <1>2
<1>9. Turned(e)
  BY <1>3, <1>4, <1>6, <1>7 DEF Turned
<1>10. \A i \in DOMAIN e.deliveries \ DOMAIN state.deliveries : e.deliveries[i].agent = agent
  BY <1>3, <1>4, <1>6
<1> QED  BY <1>8, <1>9, <1>10

LEMMA InitInv ==
  ASSUME Init
  PROVE  Inv
<1>1. Empty \in Copy /\ Empty # None
  <2>1. Empty \in Copy
    BY BoundsAssumption DEF Empty, Copy
  <2> QED  BY <2>1, NamesAssumption
<1>2. Sound(Empty) /\ Empty.run = 0 /\ Empty.processed = {} /\ Empty.suggestions = <<>>
  BY <1>1 DEF Empty, Sound, Distinct, Ids, HasDelivered
<1>3. Copies = {Empty} /\ Seeded = {}
  BY DEF Init, Copies, Seeded
<1>4. TypeOK
  <2>1. \A k \in Clicks : None \in Targets \cup {None}
    OBVIOUS
  <2>2. 0 \in 0..Limit-1 /\ 0 \in 0..MaxArchives /\ 0 \in 0..MaxCrashes /\ 0 \in 0..MaxExpiries
    BY LimitAssumption, BoundsAssumption
  <2>3. \A c \in {state, outbox, published} \cup ({recovery, generation} \ {None}) : c \in Copy
    BY <1>1, <1>3 DEF Copies
  <2> QED  BY <2>2, <2>3 DEF Init, TypeOK, Queues
<1>5. InvCopies /\ InvOwn
  <2>1. \A c \in Copies : Sound(c) /\ c.run <= state.run
    BY <1>2, <1>3 DEF Init
  <2>2. \A c \in Copies : c.processed = {} /\ c = state /\ Ids(c.suggestions) = {}
    BY <1>2, <1>3 DEF Init, Ids
  <2> QED  BY <1>2, <1>3, <2>1, <2>2 DEF Init, InvCopies, InvOwn
<1>6. InvRecords
  BY DEF Init, InvRecords
<1>7. InvKept
  BY DEF Init, InvKept
<1> QED  BY <1>4, <1>5, <1>6, <1>7 DEF Inv

\* A record enters the end of its queue, once.
LEMMA EnqueuedInv ==
  ASSUME Inv, NEW q \in Queues, NEW r, Proper(r), Enqueued(q, r), UNCHANGED <<spool, state>>
  PROVE  /\ queue' \in [Queues -> Seq(Record)] /\ marked' \subseteq Suggestions \cup Clicks
         /\ \A p \in Queues : \A i \in DOMAIN queue'[p] : Proper(queue'[p][i])
         /\ InvKept'
<1>1. CASE r.id \in marked
  <2>1. UNCHANGED <<queue, marked>>
    BY <1>1 DEF Enqueued
  <2> QED  BY <2>1 DEF Inv, TypeOK, InvRecords, InvKept
<1>2. CASE r.id \notin marked
  <2>1. queue' = [queue EXCEPT ![q] = Append(@, r)] /\ marked' = marked \cup {r.id}
    BY <1>2 DEF Enqueued
  <2>2. r \in Record /\ r.id \in Suggestions \cup Clicks
    BY DEF Proper, Record
  <2>3. PICK s, new : s = queue[q] /\ new = Append(s, r)
    OBVIOUS
  <2>4. /\ new \in Seq(Record) /\ Len(s) \in Nat
        /\ DOMAIN s = 1..Len(s) /\ DOMAIN new = 1..(Len(s) + 1)
        /\ (\A i \in DOMAIN s : new[i] = s[i]) /\ new[Len(s) + 1] = r
    BY <2>2, <2>3, Appended DEF Inv, TypeOK
  <2>5. \A i \in DOMAIN new : i \in DOMAIN s \/ i = Len(s) + 1
    BY <2>4
  <2>6. DOMAIN s \subseteq DOMAIN new /\ Len(s) + 1 \in DOMAIN new
    BY <2>4
  <2>7. \A p \in Queues : queue'[p] = IF p = q THEN new ELSE queue[p]
    BY <2>1, <2>3 DEF Inv, TypeOK
  <2>8. queue' \in [Queues -> Seq(Record)]
    BY <2>1, <2>3, <2>4 DEF Inv, TypeOK
  <2>9. \A p \in Queues : \A i \in DOMAIN queue'[p] : Proper(queue'[p][i])
    BY <2>3, <2>4, <2>5, <2>7 DEF Inv, InvRecords
  <2>10. Ids(s) \subseteq Ids(new) /\ r.id \in Ids(new)
    BY <2>4, <2>6 DEF Ids
  <2>11. \A p \in Queues : Ids(queue[p]) \subseteq Ids(queue'[p])
    BY <2>3, <2>7, <2>10
  <2>12. r.id \in Ids(queue'[q])
    BY <2>7, <2>10
  <2>13. InvKept'
    BY <2>1, <2>11, <2>12 DEF Inv, InvKept
  <2> QED  BY <2>1, <2>2, <2>8, <2>9, <2>13 DEF Inv, TypeOK
<1> QED  BY <1>1, <1>2

\* Nothing but the web's own variables moves.
LEMMA SameCopies ==
  ASSUME Inv, UNCHANGED <<published, spool, recovery, outbox, state, generation>>
  PROVE  /\ InvCopies' /\ InvOwn'
         /\ \A c \in {state', outbox', published'} \cup ({recovery', generation'} \ {None}) : c \in Copy
<1>1. Copies' = Copies
  BY DEF Copies
<1>2. InvCopies' /\ InvOwn'
  BY <1>1, NoNewCopy
<1> QED  BY <1>2 DEF InvCopies, Copies, Sound

LEMMA SubmitInv ==
  ASSUME Inv, NEW s \in Suggestions, Submit(s)
  PROVE  Inv'
<1>1. PICK r : r = [id |-> s, target |-> None, verdict |-> None]
  OBVIOUS
<1>2. Proper(r)
  BY <1>1 DEF Proper, Record
<1>3. UNCHANGED <<lease, reserved, published, spool, recovery, outbox, state, generation, actor,
                  courier, click, crashes, expiries>>
  BY DEF Submit, local
<1>4. /\ queue' \in [Queues -> Seq(Record)] /\ marked' \subseteq Suggestions \cup Clicks
      /\ \A p \in Queues : \A i \in DOMAIN queue'[p] : Proper(queue'[p][i])
      /\ InvKept'
  BY <1>1, <1>2, <1>3, EnqueuedInv DEF Submit, Queues
<1>5. /\ InvCopies' /\ InvOwn'
      /\ \A c \in {state', outbox', published'} \cup ({recovery', generation'} \ {None}) : c \in Copy
  BY <1>3, SameCopies
<1>6. TypeOK'
  BY <1>3, <1>4, <1>5 DEF Inv, TypeOK
<1>7. InvRecords'
  BY <1>3, <1>4 DEF Inv, InvRecords
<1> QED  BY <1>4, <1>5, <1>6, <1>7 DEF Inv

Views == {"missing", "open", "closed"}
Places == {"unused", "state", "suggestions", "moderations", "open", "accepted", "refused"}

\* A request goes on: what it asks for stays.
LEMMA ClickOn ==
  ASSUME Inv, NEW k \in Clicks, NEW p \in Places, NEW v \in Views, click[k].pc # "unused",
         click' = [click EXCEPT ![k] = [click[k] EXCEPT !.pc = p, !.view = v]]
  PROVE  /\ click' \in [Clicks -> [pc : Places, target : Targets \cup {None},
                                   verdict : Decisions \cup Answers \cup {None},
                                   view : Views, run : 0..MaxArchives]]
         /\ \A j \in Clicks : click'[j].pc # "unused" =>
              click'[j].target \in Targets /\ click'[j].verdict \in Verdicts(click'[j].target)
<1>1. click \in [Clicks -> [pc : Places, target : Targets \cup {None},
                           verdict : Decisions \cup Answers \cup {None},
                           view : Views, run : 0..MaxArchives]]
  BY DEF Inv, TypeOK, Places, Views
<1>2. PICK new : new = [click[k] EXCEPT !.pc = p, !.view = v]
  OBVIOUS
<1>3. /\ new \in [pc : Places, target : Targets \cup {None},
                  verdict : Decisions \cup Answers \cup {None}, view : Views, run : 0..MaxArchives]
      /\ new.target = click[k].target /\ new.verdict = click[k].verdict
  BY <1>1, <1>2
<1>4. \A j \in Clicks : click'[j] = IF j = k THEN new ELSE click[j]
  BY <1>1, <1>2
<1>5. \A j \in Clicks : click[j].pc # "unused" =>
        click[j].target \in Targets /\ click[j].verdict \in Verdicts(click[j].target)
  BY DEF Inv, InvRecords
<1>6. click' \in [Clicks -> [pc : Places, target : Targets \cup {None},
                            verdict : Decisions \cup Answers \cup {None},
                            view : Views, run : 0..MaxArchives]]
  BY <1>1, <1>2, <1>3
<1> QED  BY <1>3, <1>4, <1>5, <1>6

LEMMA ReadInv ==
  ASSUME Inv, NEW k \in Clicks, ReadState(k) \/ ReadSuggestions(k) \/ ReadModerations(k)
  PROVE  Inv'
<1>1. UNCHANGED <<queue, lease, marked, reserved, published, spool, recovery, outbox, state,
                  generation, actor, courier, crashes, expiries>>
  BY DEF ReadState, ReadSuggestions, ReadModerations, redis, local
<1>2. click[k].view \in Views /\ click[k].pc # "unused"
      /\ click \in [Clicks -> [pc : Places, target : Targets \cup {None},
                               verdict : Decisions \cup Answers \cup {None},
                               view : Views, run : 0..MaxArchives]]
  BY DEF Inv, TypeOK, Views, Places, ReadState, ReadSuggestions, ReadModerations
<1>3. \E p \in Places, v \in Views :
        click' = [click EXCEPT ![k] = [click[k] EXCEPT !.pc = p, !.view = v]]
  <2>1. CASE ReadState(k)
    <3>1. PICK v \in Views : click' = [click EXCEPT ![k].pc = "suggestions", ![k].view = v]
      BY <2>1 DEF ReadState, Views
    <3>2. click' = [click EXCEPT ![k] = [click[k] EXCEPT !.pc = "suggestions", !.view = v]]
      BY <1>2, <3>1
    <3> QED  BY <3>2 DEF Places
  <2>2. CASE ReadSuggestions(k)
    <3>1. PICK v \in Views : click' = [click EXCEPT ![k].pc = "moderations", ![k].view = v]
      <4>1. (IF click[k].view = "missing" /\ click[k].target \in Ids(queue["suggestion"])
             THEN "open" ELSE click[k].view) \in Views
        BY <1>2 DEF Views
      <4> QED  BY <2>2, <4>1 DEF ReadSuggestions
    <3>2. click' = [click EXCEPT ![k] = [click[k] EXCEPT !.pc = "moderations", !.view = v]]
      BY <1>2, <3>1
    <3> QED  BY <3>2 DEF Places
  <2>3. CASE ReadModerations(k)
    <3>1. PICK p \in Places : click' = [click EXCEPT ![k].pc = p]
      BY <2>3 DEF ReadModerations, Places
    <3>2. click' = [click EXCEPT ![k] = [click[k] EXCEPT !.pc = p, !.view = click[k].view]]
      <4>1. [click[k] EXCEPT !.pc = p, !.view = click[k].view] = [click[k] EXCEPT !.pc = p]
        BY <1>2
      <4> QED  BY <1>2, <3>1, <4>1
    <3> QED  BY <1>2, <3>2
  <2> QED  BY <2>1, <2>2, <2>3
<1>4. /\ click' \in [Clicks -> [pc : Places, target : Targets \cup {None},
                                verdict : Decisions \cup Answers \cup {None},
                                view : Views, run : 0..MaxArchives]]
      /\ \A j \in Clicks : click'[j].pc # "unused" =>
           click'[j].target \in Targets /\ click'[j].verdict \in Verdicts(click'[j].target)
  BY <1>2, <1>3, ClickOn
<1>5. /\ InvCopies' /\ InvOwn'
      /\ \A c \in {state', outbox', published'} \cup ({recovery', generation'} \ {None}) : c \in Copy
  BY <1>1, SameCopies
<1>6. TypeOK'
  BY <1>1, <1>4, <1>5 DEF Inv, TypeOK, Places, Views
<1>7. InvRecords'
  BY <1>1, <1>4 DEF Inv, InvRecords
<1>8. InvKept'
  BY <1>1 DEF Inv, InvKept
<1> QED  BY <1>5, <1>6, <1>7, <1>8 DEF Inv

LEMMA ReserveInv ==
  ASSUME Inv, NEW k \in Clicks, NEW t \in Targets, NEW v \in Decisions \cup Answers, Reserve(k, t, v)
  PROVE  Inv'
<1>1. UNCHANGED <<queue, lease, marked, published, spool, recovery, outbox, state,
                  generation, actor, courier, crashes, expiries>>
  BY DEF Reserve, local
<1>2. reserved' \in [Targets -> Decisions \cup Answers \cup {None}]
  BY DEF Inv, TypeOK, Reserve
<1>3. PICK new : new = [pc |-> "state", target |-> t, verdict |-> v, view |-> "missing",
                        run |-> published.run]
  OBVIOUS
<1>4. new \in [pc : Places, target : Targets \cup {None}, verdict : Decisions \cup Answers \cup {None},
              view : Views, run : 0..MaxArchives]
  <2>1. published.run \in 0..MaxArchives
    BY CopyIs DEF Inv, TypeOK
  <2> QED  BY <1>3, <2>1 DEF Places, Views
<1>5. click' = [click EXCEPT ![k] = new] /\ v \in Verdicts(t)
  BY <1>3 DEF Reserve
<1>6. click \in [Clicks -> [pc : Places, target : Targets \cup {None},
                           verdict : Decisions \cup Answers \cup {None},
                           view : Views, run : 0..MaxArchives]]
  BY DEF Inv, TypeOK, Places, Views
<1>7. /\ click' \in [Clicks -> [pc : Places, target : Targets \cup {None},
                                verdict : Decisions \cup Answers \cup {None},
                                view : Views, run : 0..MaxArchives]]
      /\ \A j \in Clicks : click'[j].pc # "unused" =>
           click'[j].target \in Targets /\ click'[j].verdict \in Verdicts(click'[j].target)
  <2>1. \A j \in Clicks : click'[j] = IF j = k THEN new ELSE click[j]
    BY <1>5, <1>6
  <2>2. new.target = t /\ new.verdict = v
    BY <1>3
  <2>3. \A j \in Clicks : click'[j].pc # "unused" =>
          click'[j].target \in Targets /\ click'[j].verdict \in Verdicts(click'[j].target)
    BY <1>5, <2>1, <2>2 DEF Inv, InvRecords
  <2> QED  BY <1>4, <1>5, <1>6, <2>3
<1>8. /\ InvCopies' /\ InvOwn'
      /\ \A c \in {state', outbox', published'} \cup ({recovery', generation'} \ {None}) : c \in Copy
  BY <1>1, SameCopies
<1>9. TypeOK'
  BY <1>1, <1>2, <1>7, <1>8 DEF Inv, TypeOK, Places, Views
<1>10. InvRecords'
  BY <1>1, <1>7 DEF Inv, InvRecords
<1>11. InvKept'
  BY <1>1 DEF Inv, InvKept
<1> QED  BY <1>8, <1>9, <1>10, <1>11 DEF Inv

LEMMA CommandInv ==
  ASSUME Inv, NEW k \in Clicks, Command(k)
  PROVE  Inv'
<1>1. PICK r : r = [id |-> k, target |-> click[k].target, verdict |-> click[k].verdict]
  OBVIOUS
<1>2. Proper(r)
  <2>1. click[k].target \in Targets /\ click[k].verdict \in Verdicts(click[k].target)
        /\ click[k].verdict \in Decisions \cup Answers \cup {None}
    BY DEF Command, Inv, InvRecords, TypeOK
  <2>2. r \in Record
    BY <1>1, <2>1 DEF Record
  <2>3. click[k].target # None
    BY <2>1, NamesAssumption
  <2> QED  BY <1>1, <2>1, <2>2, <2>3 DEF Proper
<1>3. UNCHANGED <<lease, reserved, published, spool, recovery, outbox, state, generation, actor,
                  courier, crashes, expiries>>
  BY DEF Command, local
<1>4. /\ queue' \in [Queues -> Seq(Record)] /\ marked' \subseteq Suggestions \cup Clicks
      /\ \A p \in Queues : \A i \in DOMAIN queue'[p] : Proper(queue'[p][i])
      /\ InvKept'
  BY <1>1, <1>2, <1>3, EnqueuedInv DEF Command, Queues
<1>5. click \in [Clicks -> [pc : Places, target : Targets \cup {None},
                           verdict : Decisions \cup Answers \cup {None},
                           view : Views, run : 0..MaxArchives]]
  BY DEF Inv, TypeOK, Places, Views
<1>6. click' = [click EXCEPT ![k] = [click[k] EXCEPT !.pc = "accepted", !.view = click[k].view]]
  <2>1. [click[k] EXCEPT !.pc = "accepted", !.view = click[k].view] = [click[k] EXCEPT !.pc = "accepted"]
    BY <1>5
  <2>2. click' = [click EXCEPT ![k].pc = "accepted"]
    BY DEF Command
  <2> QED  BY <1>5, <2>1, <2>2
<1>7. click[k].pc # "unused" /\ click[k].view \in Views /\ "accepted" \in Places
  BY <1>5 DEF Command, Places
<1>8. /\ click' \in [Clicks -> [pc : Places, target : Targets \cup {None},
                                verdict : Decisions \cup Answers \cup {None},
                                view : Views, run : 0..MaxArchives]]
      /\ \A j \in Clicks : click'[j].pc # "unused" =>
           click'[j].target \in Targets /\ click'[j].verdict \in Verdicts(click'[j].target)
  BY <1>6, <1>7, ClickOn
<1>9. /\ InvCopies' /\ InvOwn'
      /\ \A c \in {state', outbox', published'} \cup ({recovery', generation'} \ {None}) : c \in Copy
  BY <1>3, SameCopies
<1>10. TypeOK'
  BY <1>3, <1>4, <1>8, <1>9 DEF Inv, TypeOK, Places, Views
<1>11. InvRecords'
  BY <1>3, <1>4, <1>8 DEF Inv, InvRecords
<1> QED  BY <1>4, <1>9, <1>10, <1>11 DEF Inv

\* Steps that move only leases, reservations and the courier's place.
LEMMA QuietInv ==
  ASSUME Inv,
         UNCHANGED <<queue, marked, published, spool, recovery, outbox, state, generation, actor, click>>,
         lease' \in [Queues -> {"free", "held", "stale"}],
         reserved' \in [Targets -> Decisions \cup Answers \cup {None}],
         courier' \in [pc : {"idle", "claim", "append", "ack"}, queue : Queues, index : 0..Limit-1,
                      record : Record \cup {None}],
         courier'.pc \in {"append", "ack"} => Proper(courier'.record),
         courier'.pc = "ack" => courier'.record.id \in Ids(spool),
         crashes' \in 0..MaxCrashes, expiries' \in 0..MaxExpiries
  PROVE  Inv'
<1>1. /\ InvCopies' /\ InvOwn'
      /\ \A c \in {state', outbox', published'} \cup ({recovery', generation'} \ {None}) : c \in Copy
  BY SameCopies
<1>2. TypeOK'
  BY <1>1 DEF Inv, TypeOK
<1>3. InvRecords'
  BY DEF Inv, InvRecords
<1>4. InvKept'
  BY DEF Inv, InvKept
<1> QED  BY <1>1, <1>2, <1>3, <1>4 DEF Inv

LEMMA ReservationExpiresInv ==
  ASSUME Inv, NEW t \in Targets, ReservationExpires(t)
  PROVE  Inv'
<1>1. UNCHANGED <<queue, lease, marked, published, spool, recovery, outbox, state, generation, actor,
                  courier, click, crashes>>
  BY DEF ReservationExpires, local
<1>2. reserved' \in [Targets -> Decisions \cup Answers \cup {None}]
  BY DEF Inv, TypeOK, ReservationExpires
<1>3. expiries' \in 0..MaxExpiries
  BY BoundsAssumption DEF Inv, TypeOK, ReservationExpires
<1>4. /\ lease' \in [Queues -> {"free", "held", "stale"}]
      /\ courier' \in [pc : {"idle", "claim", "append", "ack"}, queue : Queues, index : 0..Limit-1,
                       record : Record \cup {None}]
      /\ crashes' \in 0..MaxCrashes
      /\ (courier'.pc \in {"append", "ack"} => Proper(courier'.record))
      /\ (courier'.pc = "ack" => courier'.record.id \in Ids(spool))
  BY <1>1 DEF Inv, TypeOK, InvRecords
<1> QED  BY <1>1, <1>2, <1>3, <1>4, QuietInv

Couriers == [pc : {"idle", "claim", "append", "ack"}, queue : Queues, index : 0..Limit-1,
             record : Record \cup {None}]

LEMMA NextQueueIs ==
  ASSUME NEW c \in Couriers
  PROVE  NextQueue(c) \in Couriers /\ NextQueue(c).pc \in {"idle", "claim"}
<1>1. 0 \in 0..Limit-1
  BY LimitAssumption
<1> QED  BY <1>1 DEF NextQueue, Couriers, Queues

LEMMA StartPullInv ==
  ASSUME Inv, StartPull
  PROVE  Inv'
<1>1. UNCHANGED <<queue, lease, marked, reserved, published, spool, outbox, state, generation, actor,
                  click, crashes, expiries>>
  BY DEF StartPull, redis
<1>2. courier' \in Couriers /\ courier'.pc = "claim"
  BY LimitAssumption DEF StartPull, Couriers, Queues
<1>3. Copies' \subseteq Copies
  BY <1>1 DEF StartPull, Copies
<1>4. InvCopies' /\ InvOwn'
  BY <1>1, <1>3, NoNewCopy
<1>5. \A c \in {state', outbox', published'} \cup ({recovery', generation'} \ {None}) : c \in Copy
  BY <1>4 DEF InvCopies, Copies, Sound
<1>6. TypeOK'
  BY <1>1, <1>2, <1>5 DEF Inv, TypeOK, Couriers
<1>7. InvRecords'
  BY <1>1, <1>2 DEF Inv, InvRecords
<1>8. InvKept'
  BY <1>1 DEF Inv, InvKept
<1> QED  BY <1>4, <1>6, <1>7, <1>8 DEF Inv

LEMMA PushInv ==
  ASSUME Inv, Push
  PROVE  Inv'
<1>1. UNCHANGED <<queue, lease, marked, reserved, spool, recovery, outbox, state, generation, actor,
                  courier, click, crashes, expiries>>
  BY DEF Push, local
<1>3. Copies' \subseteq Copies
  BY <1>1 DEF Push, Copies
<1>4. InvCopies' /\ InvOwn'
  BY <1>1, <1>3, NoNewCopy
<1>5. \A c \in {state', outbox', published'} \cup ({recovery', generation'} \ {None}) : c \in Copy
  BY <1>4 DEF InvCopies, Copies, Sound
<1>6. TypeOK'
  BY <1>1, <1>5 DEF Inv, TypeOK
<1>7. InvRecords'
  BY <1>1 DEF Inv, InvRecords
<1>8. InvKept'
  BY <1>1 DEF Inv, InvKept
<1> QED  BY <1>4, <1>6, <1>7, <1>8 DEF Inv

LEMMA ClaimInv ==
  ASSUME Inv, Claim
  PROVE  Inv'
<1>1. UNCHANGED <<queue, marked, reserved, published, spool, recovery, outbox, state, generation, actor,
                  click, crashes, expiries>>
  BY DEF Claim, local
<1>2. PICK q, s : q = courier.queue /\ s = queue[q]
  OBVIOUS
<1>3. /\ courier \in Couriers /\ q \in Queues /\ s \in Seq(Record) /\ s # <<>>
      /\ \A i \in DOMAIN s : Proper(s[i])
  BY <1>2 DEF Claim, Inv, TypeOK, InvRecords, Couriers
<1>4. Head(s) \in Record /\ Proper(Head(s))
  <2>1. Head(s) = s[1] /\ 1 \in DOMAIN s
    BY <1>3
  <2> QED  BY <1>3, <2>1 DEF Proper
<1>5. courier' = [courier EXCEPT !.pc = "append", !.record = Head(s)]
  BY <1>2 DEF Claim
<1>6. courier' \in Couriers /\ courier'.pc = "append" /\ courier'.record = Head(s)
  BY <1>3, <1>4, <1>5 DEF Couriers
<1>7. lease' \in [Queues -> {"free", "held", "stale"}]
  BY DEF Claim, Inv, TypeOK
<1>8. /\ reserved' \in [Targets -> Decisions \cup Answers \cup {None}]
      /\ crashes' \in 0..MaxCrashes /\ expiries' \in 0..MaxExpiries
  BY <1>1 DEF Inv, TypeOK
<1>9. /\ courier' \in [pc : {"idle", "claim", "append", "ack"}, queue : Queues, index : 0..Limit-1,
                       record : Record \cup {None}]
      /\ (courier'.pc \in {"append", "ack"} => Proper(courier'.record))
      /\ (courier'.pc = "ack" => courier'.record.id \in Ids(spool))
  BY <1>4, <1>6 DEF Couriers
<1> QED  BY <1>1, <1>7, <1>8, <1>9, QuietInv

\* The courier goes on to another queue, or stops.
LEMMA RestInv ==
  ASSUME Inv, ClaimNothing \/ PullDies \/ \E q \in Queues : LeaseExpires(q)
  PROVE  Inv'
<1>1. UNCHANGED <<queue, marked, reserved, published, spool, recovery, outbox, state, generation, actor,
                  click>>
  BY DEF ClaimNothing, PullDies, LeaseExpires, redis, local
<1>2. courier \in Couriers /\ lease \in [Queues -> {"free", "held", "stale"}]
      /\ crashes \in 0..MaxCrashes /\ expiries \in 0..MaxExpiries
      /\ reserved \in [Targets -> Decisions \cup Answers \cup {None}]
  BY DEF Inv, TypeOK, Couriers
<1>3. courier' \in Couriers /\ (courier' = courier \/ courier'.pc \in {"idle", "claim"})
  <2>1. CASE ClaimNothing
    BY <1>2, <2>1, NextQueueIs DEF ClaimNothing
  <2>2. CASE PullDies
    <3>1. 0 \in 0..Limit-1
      BY LimitAssumption
    <3> QED  BY <2>2, <3>1 DEF PullDies, Couriers, Queues
  <2>3. CASE \E q \in Queues : LeaseExpires(q)
    BY <1>2, <2>3 DEF LeaseExpires
  <2> QED  BY <2>1, <2>2, <2>3
<1>4. lease' \in [Queues -> {"free", "held", "stale"}]
  <2>1. CASE ClaimNothing
    BY <1>2, <2>1 DEF ClaimNothing, redis
  <2>2. CASE PullDies
    BY <1>2, <2>2 DEF PullDies
  <2>3. CASE \E q \in Queues : LeaseExpires(q)
    BY <1>2, <2>3 DEF LeaseExpires
  <2> QED  BY <2>1, <2>2, <2>3
<1>5. crashes' \in 0..MaxCrashes /\ expiries' \in 0..MaxExpiries
  <2>1. CASE ClaimNothing
    BY <1>2, <2>1 DEF ClaimNothing
  <2>2. CASE PullDies
    BY <1>2, <2>2, BoundsAssumption DEF PullDies
  <2>3. CASE \E q \in Queues : LeaseExpires(q)
    BY <1>2, <2>3, BoundsAssumption DEF LeaseExpires
  <2> QED  BY <2>1, <2>2, <2>3
<1>6. /\ courier' \in [pc : {"idle", "claim", "append", "ack"}, queue : Queues, index : 0..Limit-1,
                       record : Record \cup {None}]
      /\ (courier'.pc \in {"append", "ack"} => Proper(courier'.record))
      /\ (courier'.pc = "ack" => courier'.record.id \in Ids(spool))
  BY <1>3 DEF Inv, InvRecords, Couriers
<1> QED  BY <1>1, <1>2, <1>4, <1>5, <1>6, QuietInv

LEMMA AppendSpoolInv ==
  ASSUME Inv, AppendSpool
  PROVE  Inv'
<1>1. UNCHANGED <<queue, lease, marked, reserved, published, recovery, outbox, state, generation, actor,
                  click, crashes, expiries>>
  BY DEF AppendSpool, redis
<1>2. PICK r, new : r = courier.record /\ new = spool'
  OBVIOUS
<1>3. /\ Proper(r) /\ r \in Record /\ courier \in Couriers /\ spool \in Seq(Record)
      /\ \A i \in DOMAIN spool : Proper(spool[i])
  BY <1>2 DEF AppendSpool, Inv, InvRecords, TypeOK, Proper, Couriers
<1>4. /\ new \in Seq(Record) /\ (\A i \in DOMAIN new : Proper(new[i]))
      /\ Ids(spool) \subseteq Ids(new) /\ r.id \in Ids(new)
  <2>1. CASE r.id \in Ids(spool)
    <3>1. new = spool
      BY <1>2, <2>1 DEF AppendSpool
    <3> QED  BY <1>3, <2>1, <3>1
  <2>2. CASE r.id \notin Ids(spool)
    <3>1. new = Append(spool, r)
      BY <1>2, <2>2 DEF AppendSpool
    <3>2. /\ new \in Seq(Record) /\ Len(spool) \in Nat
          /\ DOMAIN spool = 1..Len(spool) /\ DOMAIN new = 1..(Len(spool) + 1)
          /\ (\A i \in DOMAIN spool : new[i] = spool[i]) /\ new[Len(spool) + 1] = r
      BY <1>3, <3>1, Appended
    <3>3. \A i \in DOMAIN new : i \in DOMAIN spool \/ i = Len(spool) + 1
      BY <3>2
    <3>4. DOMAIN spool \subseteq DOMAIN new /\ Len(spool) + 1 \in DOMAIN new
      BY <3>2
    <3>5. Ids(spool) \subseteq Ids(new) /\ r.id \in Ids(new)
      BY <3>2, <3>4 DEF Ids
    <3>6. \A i \in DOMAIN new : Proper(new[i])
      BY <1>3, <3>2, <3>3
    <3> QED  BY <3>2, <3>5, <3>6
  <2> QED  BY <2>1, <2>2
<1>5. courier' \in Couriers /\ courier'.record = r /\ courier'.pc = "ack"
  <2>1. courier' = [courier EXCEPT !.pc = "ack"]
    BY DEF AppendSpool
  <2> QED  BY <1>2, <1>3, <2>1 DEF Couriers
<1>6. Ids(spool) \subseteq Ids(spool') /\ r.id \in Ids(spool')
  BY <1>2, <1>4
<1>7. InvCopies' /\ InvOwn'
  <2>1. Copies' \subseteq Copies
    BY <1>1 DEF Copies
  <2> QED  BY <1>1, <1>6, <2>1, NoNewCopy
<1>8. \A c \in {state', outbox', published'} \cup ({recovery', generation'} \ {None}) : c \in Copy
  BY <1>7 DEF InvCopies, Copies, Sound
<1>9. TypeOK'
  BY <1>1, <1>2, <1>4, <1>5, <1>8 DEF Inv, TypeOK, Couriers
<1>10. InvRecords'
  <2>1. \A i \in DOMAIN spool' : Proper(spool'[i])
    BY <1>2, <1>4
  <2>2. Proper(courier'.record) /\ courier'.record.id \in Ids(spool')
    BY <1>3, <1>5, <1>6
  <2> QED  BY <1>1, <2>1, <2>2 DEF Inv, InvRecords
<1>11. InvKept'
  BY <1>1, <1>6 DEF Inv, InvKept
<1> QED  BY <1>7, <1>9, <1>10, <1>11 DEF Inv

\* What is taken from the queue is in the spool already.
LEMMA AckInv ==
  ASSUME Inv, Ack
  PROVE  Inv'
<1>1. UNCHANGED <<marked, reserved, published, spool, recovery, outbox, state, generation, actor,
                  click, crashes, expiries>>
  BY DEF Ack, local
<1>2. PICK q, r : q = courier.queue /\ r = courier.record
  OBVIOUS
<1>3. /\ courier \in Couriers /\ q \in Queues /\ r.id \in Ids(spool)
      /\ queue \in [Queues -> Seq(Record)] /\ lease \in [Queues -> {"free", "held", "stale"}]
      /\ \A p \in Queues : \A i \in DOMAIN queue[p] : Proper(queue[p][i])
  BY <1>2 DEF Ack, Inv, InvRecords, TypeOK, Couriers
<1>4. /\ queue' \in [Queues -> Seq(Record)] /\ lease' \in [Queues -> {"free", "held", "stale"}]
      /\ (\A p \in Queues : \A i \in DOMAIN queue'[p] : Proper(queue'[p][i]))
      /\ (\A p \in Queues : \A id \in Ids(queue[p]) : id \in Ids(spool) \/ id \in Ids(queue'[p]))
  <2>1. CASE lease[q] # "held"
    <3>1. UNCHANGED <<queue, lease>>
      BY <1>2, <2>1 DEF Ack
    <3> QED  BY <1>3, <3>1
  <2>2. CASE lease[q] = "held"
    <3>1. queue' = [queue EXCEPT ![q] = RemoveFirst(@, r)] /\ lease' = [lease EXCEPT ![q] = "free"]
      BY <1>2, <2>2 DEF Ack
    <3>2. PICK s, new : s = queue[q] /\ new = RemoveFirst(s, r)
      OBVIOUS
    <3>3. /\ new \in Seq(Record)
          /\ \A i \in DOMAIN new : \E j \in DOMAIN s : new[i] = s[j]
          /\ \A j \in DOMAIN s : s[j] # r => \E i \in DOMAIN new : new[i] = s[j]
      <4>1. s \in Seq(Record)
        BY <1>3, <3>2
      <4> QED  BY <3>2, <4>1, Removed
    <3>4. \A p \in Queues : queue'[p] = IF p = q THEN new ELSE queue[p]
      BY <1>3, <3>1, <3>2
    <3>5. queue' \in [Queues -> Seq(Record)] /\ lease' \in [Queues -> {"free", "held", "stale"}]
      BY <1>3, <3>1, <3>2, <3>3
    <3>6. \A p \in Queues : \A i \in DOMAIN queue'[p] : Proper(queue'[p][i])
      <4>1. \A j \in DOMAIN s : Proper(s[j])
        BY <1>3, <3>2
      <4>2. \A i \in DOMAIN new : Proper(new[i])
        BY <3>3, <4>1
      <4>3. ASSUME NEW p \in Queues, NEW i \in DOMAIN queue'[p] PROVE Proper(queue'[p][i])
        <5>1. CASE p = q
          BY <3>4, <4>2, <4>3, <5>1
        <5>2. CASE p # q
          <6>1. queue'[p] = queue[p]
            BY <3>4, <5>2
          <6> QED  BY <1>3, <4>3, <6>1
        <5> QED  BY <5>1, <5>2
      <4> QED  BY <4>3
    <3>7. \A id \in Ids(s) : id \in Ids(spool) \/ id \in Ids(new)
      BY <1>3, <3>3 DEF Ids
    <3>8. \A p \in Queues : \A id \in Ids(queue[p]) : id \in Ids(spool) \/ id \in Ids(queue'[p])
      BY <3>2, <3>4, <3>7
    <3> QED  BY <3>5, <3>6, <3>8
  <2> QED  BY <2>1, <2>2
<1>5. courier' \in Couriers /\ courier'.pc \in {"idle", "claim"}
  <2>1. CASE courier.index + 1 < Limit
    <3>1. courier' = [courier EXCEPT !.pc = "claim", !.index = courier.index + 1, !.record = None]
      BY <2>1 DEF Ack
    <3>2. courier.index + 1 \in 0..Limit-1
      BY <1>3, <2>1, LimitAssumption DEF Couriers
    <3> QED  BY <1>3, <3>1, <3>2 DEF Couriers
  <2>2. CASE ~(courier.index + 1 < Limit)
    BY <1>3, <2>2, NextQueueIs DEF Ack
  <2> QED  BY <2>1, <2>2
<1>6. /\ InvCopies' /\ InvOwn'
      /\ \A c \in {state', outbox', published'} \cup ({recovery', generation'} \ {None}) : c \in Copy
  BY <1>1, SameCopies
<1>7. TypeOK'
  BY <1>1, <1>4, <1>5, <1>6 DEF Inv, TypeOK, Couriers
<1>8. InvRecords'
  BY <1>1, <1>4, <1>5 DEF Inv, InvRecords
<1>9. InvKept'
  BY <1>1, <1>4 DEF Inv, InvKept
<1> QED  BY <1>6, <1>7, <1>8, <1>9 DEF Inv

\* A turn, of whatever kind.
LEMMA TurnInv ==
  ASSUME Inv, NEW d, Turned(d), state' = d, outbox' \in {d, state},
         UNCHANGED <<redis, spool, recovery, generation, courier, click, expiries>>,
         actor' \in {"A", "B"}, crashes' \in 0..MaxCrashes
  PROVE  Inv'
<1>1. UNCHANGED <<queue, lease, marked, reserved, published>>
  BY DEF redis
<1>2. InvCopies' /\ InvOwn' /\ InvKept'
  BY TurnCopies DEF Turned
<1>3. \A c \in {state', outbox', published'} \cup ({recovery', generation'} \ {None}) : c \in Copy
  BY <1>2 DEF InvCopies, Copies, Sound
<1>4. TypeOK'
  BY <1>1, <1>3 DEF Inv, TypeOK
<1>5. InvRecords'
  BY <1>1 DEF Inv, InvRecords
<1> QED  BY <1>2, <1>4, <1>5 DEF Inv

LEMMA LoopInv ==
  ASSUME Inv, QuietTurn \/ TurnDies \/ \E agent \in {"A", "B"} : AgentTurn(agent)
  PROVE  Inv'
<1>1. CASE \E agent \in {"A", "B"} : AgentTurn(agent)
  <2>1. PICK agent \in {"A", "B"} : AgentTurn(agent)
    BY <1>1
  <2>2. PICK d : d = state'
    OBVIOUS
  <2>3. Turned(d) /\ outbox' = d
    BY <2>1, <2>2, AgentTurned DEF AgentTurn, Spoken
  <2>4. UNCHANGED <<redis, spool, recovery, generation, courier, click, expiries, crashes>>
        /\ actor' \in {"A", "B"}
    BY <2>1 DEF AgentTurn, Spoken
  <2>5. crashes' \in 0..MaxCrashes
    BY <2>4 DEF Inv, TypeOK
  <2> QED  BY <2>2, <2>3, <2>4, <2>5, TurnInv
<1>2. CASE QuietTurn
  <2>1. PICK d \in Researched(Imported) : state' = d
    BY <1>2 DEF QuietTurn
  <2>2. Turned(d) /\ outbox' = d
    BY <1>2, <2>1, ResearchTurned DEF QuietTurn
  <2>3. UNCHANGED <<redis, spool, recovery, generation, courier, click, expiries, crashes, actor>>
    BY <1>2 DEF QuietTurn
  <2>4. crashes' \in 0..MaxCrashes /\ actor' \in {"A", "B"}
    BY <2>3 DEF Inv, TypeOK
  <2> QED  BY <2>1, <2>2, <2>3, <2>4, TurnInv
<1>3. CASE TurnDies
  <2>1. PICK d : d = Imported
    OBVIOUS
  <2>2. Turned(d) /\ state' = d /\ outbox' = state
    BY <1>3, <2>1, ImportTurned DEF TurnDies
  <2>3. UNCHANGED <<redis, spool, recovery, generation, courier, click, expiries, actor>>
    BY <1>3 DEF TurnDies
  <2>4. crashes' \in 0..MaxCrashes /\ actor' \in {"A", "B"}
    BY <1>3, <2>3, BoundsAssumption DEF TurnDies, Inv, TypeOK
  <2> QED  BY <2>2, <2>3, <2>4, TurnInv
<1> QED  BY <1>1, <1>2, <1>3

\* The seed of a new run knows every id the old one knew.
LEMMA ArchiveInv ==
  ASSUME Inv, Archive
  PROVE  Inv'
<1>1. PICK P : P = Ids(spool) \cup UNION {Known(c) : c \in {state, outbox} \cup ({recovery, generation} \ {None})}
  OBVIOUS
<1>2. PICK d : d = [Empty EXCEPT !.run = state.run + 1, !.processed = P]
  OBVIOUS
<1>3. d = [suggestions |-> <<>>, asks |-> <<>>, research |-> <<>>, processed |-> P,
           deliveries |-> <<>>, run |-> state.run + 1]
  BY <1>2 DEF Empty
<1>4. /\ state' = d /\ outbox' = d /\ generation' = d /\ recovery' = d
      /\ spool' = <<>> /\ actor' = "A" /\ state.run < MaxArchives
      /\ UNCHANGED <<queue, lease, marked, reserved, published, courier, click, crashes, expiries>>
  BY <1>1, <1>2 DEF Archive, redis
<1>5. state.run \in Nat /\ Sound(state) /\ Sound(published) /\ published.run <= state.run
  BY CopyIs DEF Inv, InvCopies, Copies, Sound
<1>6. P \subseteq Targets \cup Clicks
  <2>1. Ids(spool) \subseteq Targets \cup Clicks
    <3>1. spool \in Seq(Record)
      BY DEF Inv, TypeOK
    <3>2. \A r \in Record : r.id \in Targets \cup Clicks
      BY DEF Record, Targets
    <3>3. \A i \in DOMAIN spool : spool[i] \in Record
      BY <3>1
    <3> QED  BY <3>2, <3>3 DEF Ids
  <2>2. ASSUME NEW c \in {state, outbox} \cup ({recovery, generation} \ {None})
        PROVE  Known(c) \subseteq Targets \cup Clicks
    <3>1. Sound(c)
      BY DEF Inv, InvCopies, Copies
    <3>2. c.processed \subseteq Targets \cup Clicks
      BY <3>1, CopyIs DEF Sound
    <3>3. /\ Ids(c.suggestions) \subseteq Targets /\ Ids(c.asks) \subseteq Targets
          /\ Ids(c.research) \subseteq Targets
      BY <3>1 DEF Sound, Targets
    <3> QED  BY <3>2, <3>3 DEF Known
  <2> QED  BY <1>1, <2>1, <2>2
<1>7. d \in Copy /\ d # None
  <2>1. state.run + 1 \in 0..MaxArchives
    BY <1>4, <1>5, BoundsAssumption
  <2>2. d \in Copy
    BY <1>3, <1>6, <2>1 DEF Copy
  <2> QED  BY <2>2, NamesAssumption
<1>8. Sound(d) /\ d.run = state.run + 1 /\ d.processed = P /\ Ids(d.suggestions) = {} /\ Blank(d)
  <2>1. Sound(d)
    BY <1>3, <1>7 DEF Sound, Distinct, Ids, HasDelivered
  <2> QED  BY <1>3, <2>1 DEF Ids, Blank
<1>9. Copies' \subseteq {d, published} /\ Seeded' = P
  BY <1>4, <1>7, <1>8 DEF Copies, Seeded
<1>10. InvCopies'
  <2>1. d.run <= d.run /\ published.run <= d.run
    <3>1. published.run \in Nat
      BY <1>5, CopyIs DEF Sound
    <3> QED  BY <1>5, <1>8, <3>1
  <2> QED  BY <1>4, <1>5, <1>7, <1>8, <1>9, <2>1 DEF InvCopies
<1>11. InvOwn'
  <2>1. published.run # d.run
    <3>1. published.run \in Nat
      BY <1>5, CopyIs DEF Sound
    <3> QED  BY <1>5, <1>8, <3>1
  <2> QED  BY <1>4, <1>8, <1>9, <2>1 DEF InvOwn
<1>12. \A c \in {state', outbox', published'} \cup ({recovery', generation'} \ {None}) : c \in Copy
  BY <1>10 DEF InvCopies, Copies, Sound
<1>13. spool' \in Seq(Record) /\ DOMAIN spool' = {} /\ Ids(spool') = {}
  BY <1>4 DEF Ids
<1>14. TypeOK'
  BY <1>4, <1>12, <1>13 DEF Inv, TypeOK
<1>15. courier.pc = "idle"
  BY DEF Archive
<1>16. InvRecords'
  BY <1>4, <1>13, <1>15 DEF Inv, InvRecords
<1>17. InvKept'
  <2>1. Ids(spool) \cup state.processed \subseteq P
    BY <1>1 DEF Known
  <2> QED  BY <1>4, <1>8, <2>1 DEF Inv, InvKept
<1> QED  BY <1>10, <1>11, <1>14, <1>16, <1>17 DEF Inv

LEMMA NextInv ==
  ASSUME Inv, [Next]_vars
  PROVE  Inv'
<1>1. CASE UNCHANGED vars
  <2>1. UNCHANGED <<queue, lease, marked, reserved, published, spool, recovery, outbox, state,
                    generation, actor, courier, click, crashes, expiries>>
    BY <1>1 DEF vars, redis, local
  <2>2. /\ InvCopies' /\ InvOwn'
        /\ \A c \in {state', outbox', published'} \cup ({recovery', generation'} \ {None}) : c \in Copy
    BY <2>1, SameCopies
  <2>3. TypeOK' /\ InvRecords' /\ InvKept'
    BY <2>1 DEF Inv, TypeOK, InvRecords, InvKept
  <2> QED  BY <2>2, <2>3 DEF Inv
<1>2. CASE \E s \in Suggestions : Submit(s)
  BY <1>2, SubmitInv
<1>3. ASSUME NEW k \in Clicks,
             \/ \E t \in Targets, v \in Decisions \cup Answers : Reserve(k, t, v)
             \/ ReadState(k) \/ ReadSuggestions(k) \/ ReadModerations(k) \/ Command(k)
      PROVE  Inv'
  BY <1>3, ReserveInv, ReadInv, CommandInv
<1>4. CASE \E t \in Targets : ReservationExpires(t)
  BY <1>4, ReservationExpiresInv
<1>5. CASE StartPull
  BY <1>5, StartPullInv
<1>6. CASE Claim
  BY <1>6, ClaimInv
<1>7. CASE ClaimNothing \/ PullDies \/ \E q \in Queues : LeaseExpires(q)
  BY <1>7, RestInv
<1>8. CASE AppendSpool
  BY <1>8, AppendSpoolInv
<1>9. CASE Ack
  BY <1>9, AckInv
<1>10. CASE Push
  BY <1>10, PushInv
<1>11. CASE QuietTurn \/ TurnDies \/ \E agent \in {"A", "B"} : AgentTurn(agent)
  BY <1>11, LoopInv
<1>12. CASE Archive
  BY <1>12, ArchiveInv
<1> QED  BY <1>1, <1>2, <1>3, <1>4, <1>5, <1>6, <1>7, <1>8, <1>9, <1>10, <1>11, <1>12 DEF Next, Lane

LEMMA Invariant == Spec => []Inv
BY InitInv, NextInv, PTL DEF Spec

-----------------------------------------------------------------------------
(* The theorems *)

\* Every variable holds a value of its kind, through the import of any spool
\* into any state and through every archive.
THEOREM TypeCorrect == Spec => []TypeOK
BY Invariant, PTL DEF Inv

\* What was accepted for a queue is in the queue, in the spool or processed, in
\* every state, and no suggestion of a retired run is one of the new run
\* (RedisRest.claim and ack, append_inbox_spool, archive, import_inbox_spool).
THEOREM NoneLostNoneRevived == Spec => []NothingLostOrRevived
<1>1. Inv => NothingLostOrRevived
  <2> SUFFICES ASSUME Inv PROVE NothingLostOrRevived
    OBVIOUS
  <2>1. generation # None => Ids(state.suggestions) \cap generation.processed = {}
    BY DEF Inv, InvOwn, Copies, Seeded
  <2> QED  BY <2>1 DEF Inv, InvKept, NothingLostOrRevived
<1> QED  BY <1>1, Invariant, PTL

LEMMA DeliveredStatus ==
  ASSUME NEW rows, Distinct(rows), NEW t
  PROVE  StatusIn(rows, t) = "delivered" <=> HasDelivered(rows, t)
<1>1. CASE \E i \in DOMAIN rows : rows[i].id = t
  <2>1. PICK k : k = CHOOSE i \in DOMAIN rows : rows[i].id = t
    OBVIOUS
  <2>2. k \in DOMAIN rows /\ rows[k].id = t
    BY <1>1, <2>1
  <2>3. StatusIn(rows, t) = rows[k].status
    BY <1>1, <2>1 DEF StatusIn
  <2>4. \A i \in DOMAIN rows : rows[i].id = t => i = k
    BY <2>2 DEF Distinct
  <2> QED  BY <2>2, <2>3, <2>4 DEF HasDelivered
<1>2. CASE ~\E i \in DOMAIN rows : rows[i].id = t
  <2>1. StatusIn(rows, t) = "missing"
    BY <1>2 DEF StatusIn
  <2> QED  BY <1>2, <2>1 DEF HasDelivered
<1> QED  BY <1>1, <1>2

\* A record becomes one row and a reply is delivered once, however often it is
\* claimed, spooled and imported (processed_inbox_ids, deliver_one).
THEOREM OneDelivery == Spec => []DeliveredOnce
<1>1. Inv => DeliveredOnce
  <2> SUFFICES ASSUME Inv PROVE DeliveredOnce
    OBVIOUS
  <2>1. Sound(state)
    BY DEF Inv, InvCopies, Copies
  <2>2. PICK s, a, r : s = state.suggestions /\ a = state.asks /\ r = state.research
    OBVIOUS
  <2>3. Distinct(s) /\ Distinct(a) /\ Distinct(r) /\ Distinct(state.deliveries)
    BY <2>1, <2>2 DEF Sound
  <2>4. \A t \in Targets : t \in Ids(state.deliveries) <=>
          HasDelivered(s, t) \/ HasDelivered(a, t) \/ HasDelivered(r, t)
    BY <2>1, <2>2 DEF Sound
  <2>5. \A t : /\ StatusIn(s, t) = "delivered" <=> HasDelivered(s, t)
               /\ StatusIn(a, t) = "delivered" <=> HasDelivered(a, t)
               /\ StatusIn(r, t) = "delivered" <=> HasDelivered(r, t)
    BY <2>3, DeliveredStatus
  <2>6. Ids(state.deliveries) \subseteq Targets
    <3>1. state.deliveries \in Seq(Delivery)
      BY <2>1, CopyIs DEF Sound
    <3>2. \A e \in Delivery : e.id \in Targets
      BY DEF Delivery
    <3>3. \A i \in DOMAIN state.deliveries : state.deliveries[i] \in Delivery
      BY <3>1
    <3> QED  BY <3>2, <3>3 DEF Ids
  <2>7. Ids(state.deliveries) =
          {t \in Targets : \E rows \in {s, a, r} : StatusIn(rows, t) = "delivered"}
    BY <2>4, <2>5, <2>6
  <2> QED  BY <2>2, <2>3, <2>7 DEF DeliveredOnce
<1> QED  BY <1>1, Invariant, PTL

\* A step within a run only adds to the state; and what it delivers, the next
\* agent received and gave way.
LEMMA StepAdds ==
  ASSUME Inv, [Next]_vars
  PROVE  /\ state'.run = state.run => Later(state, state')
         /\ \A i \in DOMAIN state'.deliveries \ DOMAIN state.deliveries :
              actor = state'.deliveries[i].agent /\ actor' # actor
<1>0. state \in Copy
  BY DEF Inv, InvCopies, Copies, Sound
<1>1. CASE state' = state
  BY <1>0, <1>1, LaterReflexive
<1>2. CASE \E agent \in {"A", "B"} : AgentTurn(agent)
  <2>1. PICK agent \in {"A", "B"} : AgentTurn(agent)
    BY <1>2
  <2>2. actor = agent /\ actor' # actor
    BY <2>1 DEF AgentTurn, Spoken
  <2> QED  BY <2>1, <2>2, AgentTurned DEF Turned
<1>3. CASE QuietTurn
  <2>1. PICK d \in Researched(Imported) : state' = d
    BY <1>3 DEF QuietTurn
  <2> QED  BY <2>1, ResearchTurned DEF Turned
<1>4. CASE TurnDies
  <2>1. PICK d : d = Imported
    OBVIOUS
  <2>2. state' = d
    BY <1>4, <2>1 DEF TurnDies
  <2> QED  BY <2>1, <2>2, ImportTurned DEF Turned
<1>5. CASE Archive
  <2>1. state'.run = state.run + 1 /\ state'.deliveries = <<>>
    BY <1>5 DEF Archive, Empty
  <2>2. state'.run # state.run
    BY <1>0, <2>1, CopyIs
  <2> QED  BY <2>1, <2>2
<1>6. CASE UNCHANGED vars
  BY <1>1, <1>6 DEF vars, local
<1>7. CASE \E s \in Suggestions : Submit(s)
  BY <1>1, <1>7 DEF Submit, local
<1>8. CASE \E k \in Clicks : \/ \E t \in Targets, v \in Decisions \cup Answers : Reserve(k, t, v)
                            \/ ReadState(k) \/ ReadSuggestions(k) \/ ReadModerations(k) \/ Command(k)
  <2>1. state' = state
    BY <1>8 DEF Reserve, ReadState, ReadSuggestions, ReadModerations, Command, local
  <2> QED  BY <1>1, <2>1
<1>9. CASE \E t \in Targets : ReservationExpires(t)
  BY <1>1, <1>9 DEF ReservationExpires, local
<1>10. CASE \/ StartPull \/ Claim \/ ClaimNothing \/ AppendSpool \/ Ack \/ PullDies \/ Push
            \/ \E q \in Queues : LeaseExpires(q)
  <2>1. state' = state
    BY <1>10 DEF StartPull, Claim, ClaimNothing, AppendSpool, Ack, PullDies, Push, LeaseExpires, local
  <2> QED  BY <1>1, <2>1
<1> QED  BY <1>2, <1>3, <1>4, <1>5, <1>6, <1>7, <1>8, <1>9, <1>10 DEF Next, Lane

\* The first decision stands as long as its run, past expired reservations and
\* stale published states (_apply_moderation).
THEOREM FirstDecisionStands == Spec => DecisionStands
<1>1. Inv /\ [Next]_vars =>
        [state'.run = state.run =>
           /\ \A i \in DOMAIN state.suggestions :
                LET was == state.suggestions[i].status  now == state'.suggestions[i].status
                IN was # "pending_review" => now = was \/ (was = "approved" /\ now = "delivered")
           /\ \A i \in DOMAIN state.asks :
                state.asks[i].answer # None => state'.asks[i].answer = state.asks[i].answer]_vars
  BY StepAdds DEF Later
<1> QED  BY <1>1, Invariant, PTL DEF Spec, DecisionStands

\* A reply is used up only by a turn in which its agent was understood
\* (take_turn).
THEOREM OnlyUnderstoodTurns == Spec => RepliesNotWasted
<1>1. Inv /\ [Next]_vars =>
        [\A i \in DOMAIN state'.deliveries \ DOMAIN state.deliveries :
           actor = state'.deliveries[i].agent /\ actor' # actor]_vars
  BY StepAdds
<1> QED  BY <1>1, Invariant, PTL DEF Spec, RepliesNotWasted
=============================================================================
