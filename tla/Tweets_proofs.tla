---------------------------- MODULE Tweets_proofs ----------------------------
(***************************************************************************)
(* Proofs about Tweets for every number of rules, notes, attempts and      *)
(* crashes, and for every state file an older version may have left.       *)
(***************************************************************************)
EXTENDS Tweets, FiniteSetTheorems, TLAPS

-----------------------------------------------------------------------------
(* The inductive invariant *)

Has(k, i) == rows[k] # None /\ rows[k].item = i
Attempted(k, i) == Has(k, i) /\ rows[k].attempts > 0

\* TypeOK without what has to be shown of the requests sent.
Types ==
  /\ book \in [Rules -> Statuses] /\ known \in [Rules -> Statuses]
  /\ booted \in BOOLEAN /\ noted \subseteq Notes
  /\ rows \in [Keys -> Row \cup {None}]
  /\ counted \in 0..PerDay \cup {None}
  /\ pc \in {"down", "poll", "prepare", "send", "reply", "mark"}
  /\ job \in Job \cup {None}
  /\ service \in [Keys -> {"none", "late", "queued", "done", "failed"}]
  /\ sends \in [Items -> Nat] /\ public \in [Items -> Nat] /\ crashes \in 0..MaxCrashes

\* A row under an item's own id is that item's, whatever else there is of it;
\* one that may be sent again has an attempt left; a posted one was done.
RowsSound ==
  /\ \A i \in Items : rows[i] # None => rows[i].item = i
  /\ \A k \in Keys : rows[k] # None =>
       /\ rows[k].status = "open" /\ ~rows[k].asked => rows[k].attempts < MaxAttempts
       /\ rows[k].status = "posted" => service[k] = "done"

\* Of an item's rows only one was ever attempted, and the service has heard of
\* no other.
OneAttempted ==
  /\ \A i \in Items : \A k, l \in Keys : Attempted(k, i) /\ Attempted(l, i) => k = l
  /\ \A k \in Keys : service[k] # "none" => rows[k] # None /\ rows[k].attempts > 0

\* What is public is what the service has done, and only that is marked.
PublicIsDone ==
  /\ \A i \in Items : /\ public[i] \in {0, 1}
                      /\ public[i] = 1 <=> \E k \in Keys : Has(k, i) /\ service[k] = "done"
  /\ \A i \in noted : public[i] = 1

\* Every request is an attempt of its row.
Counted == \A i \in Items : sends[i] > 0 => \E k \in Keys : Has(k, i) /\ sends[i] <= rows[k].attempts

\* A running process works on the one row of its item that counts.
Working ==
  /\ pc = "down" <=> job = None
  /\ pc # "down" =>
       /\ Has(job.key, job.item)
       /\ \A l \in Keys : Attempted(l, job.item) => l = job.key
       /\ pc # "mark" => rows[job.key].status = "open" /\ (rows[job.key].asked <=> pc # "prepare")
       /\ pc = "send" => sends[job.item] < rows[job.key].attempts
       /\ pc = "mark" \/ (pc = "reply" /\ job.answer = "receipt") => service[job.key] = "done"

\* Before the day's count is taken no row has a slot of that day.
Day ==
  /\ counted = None => \A k \in Keys : rows[k] # None => ~rows[k].today
  /\ job # None /\ ~job.fresh => counted = None

Inv == Types /\ RowsSound /\ OneAttempted /\ PublicIsDone /\ Counted /\ Working /\ Day

-----------------------------------------------------------------------------
(* Facts about the operators *)

LEMMA NoneApart == None \notin Keys /\ None \notin Row /\ None \notin Job /\ None \notin Nat
BY LegacyAssumption

LEMMA SlotsType == Types /\ Day => Slots \in 0..PerDay /\ Slots # None
<1> SUFFICES ASSUME Types, Day PROVE Slots \in 0..PerDay /\ Slots # None
  OBVIOUS
<1>1. CASE counted = None
  <2>1. {k \in Keys : rows[k] # None /\ rows[k].today} = {}
    BY <1>1 DEF Day
  <2>2. Slots = 0
    BY <1>1, <2>1, FS_EmptySet DEF Slots
  <2> QED
    BY <2>2, SizesAssumption, NoneApart
<1>2. CASE counted # None
  BY <1>2 DEF Types, Slots
<1> QED
  BY <1>1, <1>2

LEMMA TextType == ASSUME NEW i \in Items PROVE Text(i) \in 0..NRules
<1> DEFINE S == {r \in Rules : book[r] = "adopted"}
<1>1. IsFiniteSet(Rules) /\ Cardinality(Rules) = NRules
  BY SizesAssumption, FS_Interval DEF Rules
<1>2. S \subseteq Rules
  OBVIOUS
<1>3. IsFiniteSet(S) /\ Cardinality(S) <= NRules
  BY <1>1, <1>2, FS_Subset
<1>4. Cardinality(S) \in Nat
  BY <1>3, FS_CardinalityType
<1> QED
  BY <1>3, <1>4, SizesAssumption DEF Text

\* _find_delivery finds a row of the item or none at all, and the row that was
\* attempted if one was.
LEMMA FoundRow ==
  ASSUME Types, RowsSound, OneAttempted, NEW i \in Items, NEW k \in Found(i)
  PROVE  /\ k \in Keys
         /\ Has(k, i) \/ (rows[k] = None /\ k = i)
         /\ \A l \in Keys : Attempted(l, i) => l = k
<1> DEFINE own == {l \in Keys : rows[l] # None /\ rows[l].item = i}
           attempted == {l \in own : rows[l].attempts > 0}
<1>1. i \in Keys
  BY DEF Keys
<1>2. \A l \in Keys : Attempted(l, i) <=> l \in attempted
  BY DEF Attempted, Has
<1>3. CASE attempted # {}
  BY <1>2, <1>3 DEF Found, OneAttempted, Has
<1>4. CASE attempted = {} /\ own # {}
  BY <1>2, <1>4 DEF Found, Has
<1>5. CASE own = {}
  <2>1. k = i
    BY <1>5 DEF Found, Stable
  <2>2. rows[i] = None
    BY <1>1, <1>5 DEF RowsSound
  <2> QED
    BY <1>1, <1>2, <1>5, <2>1, <2>2
<1> QED
  BY <1>3, <1>4, <1>5

-----------------------------------------------------------------------------
(* Each step *)

LEMMA InitInv == Init => Inv
<1> SUFFICES ASSUME Init PROVE Inv
  OBVIOUS
<1>1. ASSUME NEW k \in LegacyKeys
      PROVE  LET row == NewRow(LegacyItem[k], LegacyText[k])
             IN  row \in Row /\ row # None /\ row.attempts = 0 /\ row.status = "open" /\ ~row.today
  <2>1. 0 \in 0..MaxAttempts
    BY SizesAssumption
  <2>2. LegacyItem[k] \in Items /\ LegacyText[k] \in 0..NRules
    BY LegacyAssumption
  <2>3. NewRow(LegacyItem[k], LegacyText[k]) \in Row
    BY <2>1, <2>2 DEF NewRow, Row
  <2> QED
    BY <2>3, NoneApart DEF NewRow
<1>2. /\ rows \in [Keys -> Row \cup {None}]
      /\ \A i \in Items : rows[i] = None
      /\ \A k \in Keys : rows[k] # None =>
           rows[k].attempts = 0 /\ rows[k].status = "open" /\ ~rows[k].today
  <2>1. \A i \in Items : i \in Keys /\ i \notin LegacyKeys
    BY LegacyAssumption DEF Keys
  <2>2. CASE rows = [k \in Keys |-> None]
    BY <2>1, <2>2
  <2>3. CASE rows = [k \in Keys |-> IF k \in LegacyKeys THEN NewRow(LegacyItem[k], LegacyText[k])
                                                         ELSE None]
    BY <1>1, <2>1, <2>3
  <2> QED
    BY <2>2, <2>3 DEF Init
<1>3. Types
  <2>1. 0 \in 0..MaxCrashes /\ 0 \in Nat
    BY SizesAssumption
  <2>2. /\ book \in [Rules -> Statuses] /\ known \in [Rules -> Statuses] /\ booted \in BOOLEAN
        /\ noted = {} /\ counted = None /\ pc = "down" /\ job = None
    BY SizesAssumption DEF Init
  <2>3. /\ service \in [Keys -> {"none", "late", "queued", "done", "failed"}]
        /\ sends \in [Items -> Nat] /\ public \in [Items -> Nat] /\ crashes = 0
    BY DEF Init
  <2> QED
    BY <1>2, <2>1, <2>2, <2>3 DEF Types
<1> QED
  BY <1>2, <1>3, SizesAssumption
  DEF Init, Inv, RowsSound, OneAttempted, Attempted, Has, PublicIsDone, Counted, Working, Day

\* Deciding a rule, and the first run of all, touch no delivery.
LEMMA RuleStep == ASSUME Inv, Bootstrap \/ \E r \in Rules : RuleChanges(r) PROVE Inv'
<1>1. book' \in [Rules -> Statuses] /\ known' \in [Rules -> Statuses] /\ booted' \in BOOLEAN
  BY DEF Inv, Types, Bootstrap, RuleChanges, Statuses, file
<1>2. UNCHANGED <<noted, rows, counted, pc, job, service, sends, public, crashes>>
  BY DEF Bootstrap, RuleChanges, file, history
<1> QED
  BY <1>1, <1>2
  DEF Inv, Types, RowsSound, OneAttempted, Attempted, Has, PublicIsDone, Counted, Working, Day

LEMMA NewDayStep == ASSUME Inv, NewDay PROVE Inv'
<1>1. UNCHANGED <<book, booted, known, noted, pc, service, sends, public, crashes>> /\ counted' = None
  BY DEF NewDay, history
<1>2. /\ rows' \in [Keys -> Row \cup {None}]
      /\ \A k \in Keys : /\ rows'[k] = None <=> rows[k] = None
                         /\ rows[k] # None => /\ rows'[k].item = rows[k].item
                                              /\ rows'[k].attempts = rows[k].attempts
                                              /\ rows'[k].status = rows[k].status
                                              /\ rows'[k].asked = rows[k].asked
                                              /\ ~rows'[k].today
  <2>1. ASSUME NEW k \in Keys, rows[k] # None
        PROVE  rows[k] \in Row /\ [rows[k] EXCEPT !.today = FALSE] \in Row
    BY <2>1 DEF Inv, Types, Row
  <2>2. rows' = [k \in Keys |-> IF rows[k] = None THEN None ELSE [rows[k] EXCEPT !.today = FALSE]]
    BY DEF NewDay
  <2> QED
    BY <2>1, <2>2, NoneApart DEF Row
<1>3. /\ job' \in Job \cup {None} /\ (job' = None <=> job = None)
      /\ job # None => /\ job'.item = job.item /\ job'.key = job.key /\ job'.answer = job.answer
  <2>1. job # None => job \in Job /\ [job EXCEPT !.fresh = FALSE] \in Job
    BY DEF Inv, Types, Job
  <2> QED
    BY <2>1, NoneApart DEF NewDay, Job
<1>4. Types' /\ Day'
  BY <1>1, <1>2, <1>3 DEF Inv, Types, Day
<1>5. job # None => job.key \in Keys
  BY DEF Inv, Types, Job
<1>6. RowsSound' /\ OneAttempted'
  <2>1. \A i \in Items : i \in Keys
    BY DEF Keys
  <2> QED
    BY <1>1, <1>2, <2>1 DEF Inv, RowsSound, OneAttempted, Attempted, Has
<1>7. PublicIsDone' /\ Counted'
  BY <1>1, <1>2 DEF Inv, PublicIsDone, Counted, Has
<1>8. Working'
  BY <1>1, <1>2, <1>3, <1>5 DEF Inv, Working, Attempted, Has
<1> QED
  BY <1>4, <1>6, <1>7, <1>8 DEF Inv

\* A post of an item's row that becomes public is the item's first.
LEMMA Publishes ==
  ASSUME Inv, NEW k \in Keys, rows[k] # None, rows[k].attempts > 0, service[k] # "done", Publish(k),
         service' = [service EXCEPT ![k] = "done"], UNCHANGED <<rows, noted>>
  PROVE  PublicIsDone' /\ public' \in [Items -> Nat]
<1> DEFINE i == rows[k].item
<1>1. i \in Items
  BY DEF Inv, Types, Row
<1>2. public[i] = 0
  <2>1. ASSUME NEW l \in Keys, Has(l, i), service[l] = "done" PROVE FALSE
    <3>1. Attempted(l, i) /\ Attempted(k, i)
      BY <2>1 DEF Inv, OneAttempted, Attempted, Has
    <3>2. l = k
      BY <1>1, <3>1 DEF Inv, OneAttempted
    <3> QED
      BY <2>1, <3>2
  <2> QED
    BY <1>1, <2>1 DEF Inv, PublicIsDone
<1>3. public' = [public EXCEPT ![i] = 1]
  BY <1>1, <1>2 DEF Publish, Inv, Types
<1>4. public' \in [Items -> Nat] /\ public'[i] = 1 /\ \A j \in Items \ {i} : public'[j] = public[j]
  BY <1>1, <1>3 DEF Inv, Types
<1>5. service'[k] = "done" /\ \A l \in Keys \ {k} : service'[l] = service[l]
  BY DEF Inv, Types
<1>6. Has(k, i) /\ \A j \in Items \ {i} : ~Has(k, j)
  BY DEF Has
<1>7. ASSUME NEW j \in Items
      PROVE  public'[j] \in {0, 1} /\ (public'[j] = 1 <=> \E l \in Keys : Has(l, j) /\ service'[l] = "done")
  <2>1. CASE j = i
    BY <1>4, <1>5, <1>6, <2>1
  <2>2. CASE j # i
    BY <1>4, <1>5, <1>6, <2>2 DEF Inv, PublicIsDone
  <2> QED
    BY <2>1, <2>2
<1>8. \A j \in noted : public'[j] = 1
  BY <1>4 DEF Inv, PublicIsDone, Types, Items
<1> QED
  BY <1>4, <1>7, <1>8 DEF PublicIsDone, Has

LEMMA ResolveStep == ASSUME Inv, NEW k \in Keys, Resolve(k) PROVE Inv'
<1>1. /\ UNCHANGED <<book, booted, known, noted, rows, counted, pc, job, sends, crashes>>
      /\ service[k] \in {"queued", "late"} /\ rows[k] # None /\ rows[k].attempts > 0
  BY DEF Inv, OneAttempted, Resolve, file
<1>2. PICK s \in {"queued", "done", "failed"} : service' = [service EXCEPT ![k] = s]
  BY DEF Resolve
<1>3. /\ service' \in [Keys -> {"none", "late", "queued", "done", "failed"}]
      /\ \A l \in Keys : service[l] = "done" => service'[l] = "done"
      /\ \A l \in Keys : service'[l] # "none" => service[l] # "none"
  BY <1>1, <1>2 DEF Inv, Types
<1>4. PublicIsDone' /\ public' \in [Items -> Nat]
  <2>1. CASE Publish(k) /\ service' = [service EXCEPT ![k] = "done"]
    BY <1>1, <2>1, Publishes
  <2>2. CASE UNCHANGED public /\ service'[k] # "done"
    BY <1>1, <1>2, <2>2 DEF Inv, Types, PublicIsDone, Has
  <2> QED
    BY <1>2, <2>1, <2>2 DEF Inv, Types, Resolve
<1>5. Types' /\ Day'
  BY <1>1, <1>3, <1>4 DEF Inv, Types, Day
<1>6. RowsSound' /\ OneAttempted' /\ Counted'
  BY <1>1, <1>3 DEF Inv, RowsSound, OneAttempted, Attempted, Has, Counted
<1>7. Working'
  <2>1. job # None => job.key \in Keys
    BY DEF Inv, Types, Job
  <2> QED
    BY <1>1, <1>3, <2>1 DEF Inv, Working, Attempted, Has
<1> QED
  BY <1>4, <1>5, <1>6, <1>7 DEF Inv

LEMMA CrashStep == ASSUME Inv, Crash PROVE Inv'
<1>1. /\ UNCHANGED <<book, booted, known, noted, rows, counted, service, sends, public>>
      /\ pc' = "down" /\ job' = None
  BY DEF Crash, file
<1>2. crashes' \in 0..MaxCrashes
  BY SizesAssumption DEF Inv, Types, Crash
<1> QED
  BY <1>1, <1>2
  DEF Inv, Types, RowsSound, OneAttempted, Attempted, Has, PublicIsDone, Counted, Working, Day

\* Marking a public item, or none, ends a run or finishes one that died.
LEMMA MarkType ==
  ASSUME Inv, NEW i \in Items, Marked(i)
  PROVE  /\ known' \in [Rules -> Statuses] /\ noted' \subseteq Notes
         /\ \A j \in noted' : j \in noted \/ j = i
<1>1. CASE i \in Notes
  BY <1>1 DEF Marked, Inv, Types
<1>2. CASE i \notin Notes
  <2>1. i \in Events
    BY <1>2 DEF Items
  <2>2. i[1] \in Statuses
    BY <2>1 DEF Events, Statuses
  <2> QED
    BY <1>2, <2>2 DEF Marked, Inv, Types
<1> QED
  BY <1>1, <1>2

LEMMA RestStep == ASSUME Inv, Finalize \/ Quiet PROVE Inv'
<1>1. UNCHANGED <<book, booted, rows, pc, job, service, sends, public, crashes>> /\ counted' = Slots /\ pc = "down"
  BY DEF Finalize, Quiet, history
<1>2. Slots \in 0..PerDay /\ Slots # None
  BY SlotsType DEF Inv
<1>3. known' \in [Rules -> Statuses] /\ noted' \subseteq Notes /\ \A j \in noted' : public[j] = 1
  <2>1. CASE Quiet
    BY <2>1 DEF Quiet, Inv, Types, PublicIsDone
  <2>2. CASE Finalize
    <3>1. PICK i \in Items, k \in Keys : TurnOf(i, k) /\ Posted(k) /\ Marked(i)
      BY <2>2 DEF Finalize
    <3>2. Has(k, i) /\ service[k] = "done"
      <4>1. k \in Found(i) /\ rows[k] # None /\ rows[k].status = "posted"
        BY <3>1 DEF TurnOf, Posted
      <4> QED
        BY <4>1, FoundRow DEF Inv, RowsSound
    <3>3. public[i] = 1
      BY <3>2 DEF Inv, PublicIsDone
    <3> QED
      BY <3>1, <3>3, MarkType DEF Inv, PublicIsDone
  <2> QED
    BY <2>1, <2>2
<1>4. Types' /\ PublicIsDone' /\ Day'
  BY <1>1, <1>2, <1>3 DEF Inv, Types, PublicIsDone, Has, Day, Working
<1> QED
  BY <1>1, <1>4 DEF Inv, RowsSound, OneAttempted, Attempted, Has, Counted, Working

\* A row of an item, of which no other row was attempted, is made or rewritten:
\* it keeps its attempts or gains some.
LEMMA RowWritten ==
  ASSUME Inv, NEW k \in Keys, NEW row \in Row, NEW i \in Items, row.item = i,
         Has(k, i) \/ (rows[k] = None /\ k = i),
         \A l \in Keys : Attempted(l, i) => l = k,
         rows[k] # None => row.attempts >= rows[k].attempts,
         rows' = [rows EXCEPT ![k] = row], UNCHANGED <<service, sends, public>>,
         row.status = "open" /\ ~row.asked => row.attempts < MaxAttempts,
         row.status = "posted" => service[k] = "done"
  PROVE  /\ rows' \in [Keys -> Row \cup {None}] /\ rows'[k] = row /\ row # None
         /\ \A l \in Keys \ {k} : rows'[l] = rows[l]
         /\ RowsSound' /\ OneAttempted' /\ Counted'
         /\ \A j \in Items : public'[j] \in {0, 1}
                             /\ (public'[j] = 1 <=> \E l \in Keys : Has(l, j)' /\ service'[l] = "done")
<1>1. /\ rows' \in [Keys -> Row \cup {None}] /\ rows'[k] = row /\ row # None
      /\ \A l \in Keys \ {k} : rows'[l] = rows[l]
  BY NoneApart DEF Inv, Types
<1>2. row.attempts \in Nat /\ \A l \in Keys : rows[l] # None => rows[l].attempts \in Nat
  <2>1. \A r \in Row : r.attempts \in Nat
    BY SizesAssumption DEF Row
  <2> QED
    BY <2>1 DEF Inv, Types
<1>3. \A j \in Items : j \in Keys
  BY DEF Keys
<1>4. RowsSound'
  BY <1>1, <1>3 DEF Inv, RowsSound, Has
<1>5. ASSUME NEW j \in Items, NEW l \in Keys
      PROVE  /\ Has(l, j) => rows'[l] # None /\ rows'[l].item = j /\ rows'[l].attempts >= rows[l].attempts
             /\ l # k => (rows'[l] # None /\ rows'[l].item = j <=> Has(l, j))
  BY <1>1, <1>2 DEF Has
<1>6. OneAttempted'
  <2>1. ASSUME NEW j \in Items, NEW l \in Keys, NEW m \in Keys,
               rows'[l] # None /\ rows'[l].item = j /\ rows'[l].attempts > 0,
               rows'[m] # None /\ rows'[m].item = j /\ rows'[m].attempts > 0
        PROVE  l = m
    <3>1. CASE l # k /\ m # k
      BY <1>1, <2>1, <3>1 DEF Inv, OneAttempted, Attempted, Has
    <3>2. CASE l = k \/ m = k
      BY <1>1, <2>1, <3>2 DEF Attempted, Has
    <3> QED
      BY <3>1, <3>2
  <2>2. ASSUME NEW l \in Keys, service'[l] # "none"
        PROVE  rows'[l] # None /\ rows'[l].attempts > 0
    BY <1>1, <1>2, <2>2 DEF Inv, OneAttempted
  <2> QED
    BY <2>1, <2>2 DEF OneAttempted, Attempted, Has
<1>7. Counted'
  <2>1. ASSUME NEW j \in Items, sends[j] > 0
        PROVE  \E l \in Keys : rows'[l] # None /\ rows'[l].item = j /\ sends[j] <= rows'[l].attempts
    <3>1. PICK l \in Keys : Has(l, j) /\ sends[j] <= rows[l].attempts
      BY <2>1 DEF Inv, Counted
    <3>2. rows'[l] # None /\ rows'[l].attempts \in Nat /\ rows[l].attempts \in Nat /\ sends[j] \in Nat
      BY <1>1, <1>2, <1>5, <3>1 DEF Inv, Types, Has
    <3> QED
      BY <1>5, <3>1, <3>2
  <2> QED
    BY <2>1 DEF Counted, Has
<1>8. ASSUME NEW j \in Items
      PROVE  public'[j] \in {0, 1}
             /\ (public'[j] = 1 <=> \E l \in Keys : Has(l, j)' /\ service'[l] = "done")
  <2>1. public[j] \in {0, 1} /\ (public[j] = 1 <=> \E l \in Keys : Has(l, j) /\ service[l] = "done")
    BY DEF Inv, PublicIsDone
  <2>2. service[k] = "done" => Has(k, i)
    BY DEF Inv, OneAttempted
  <2> QED
    BY <1>1, <1>5, <2>1, <2>2 DEF Has
<1> QED
  BY <1>1, <1>4, <1>6, <1>7, <1>8

LEMMA ReserveStep == ASSUME Inv, NEW i \in Items, NEW k \in Keys, Reserve(i, k) PROVE Inv'
<1> DEFINE old == IF rows[k] = None THEN NewRow(i, Text(i)) ELSE rows[k]
           row == [old EXCEPT !.today = TRUE]
<1>1. /\ UNCHANGED <<book, booted, known, noted, service, sends, public, crashes>>
      /\ pc = "down" /\ Slots < PerDay /\ k \in Found(i) /\ old.status = "open"
      /\ rows' = [rows EXCEPT ![k] = row]
      /\ counted' = (IF old.today THEN Slots ELSE Slots + 1)
      /\ pc' = (IF old.asked THEN "poll" ELSE "prepare")
      /\ job' = [item |-> i, key |-> k, fresh |-> TRUE, answer |-> "none"]
  BY DEF Reserve, TurnOf, history
<1>2. /\ Has(k, i) \/ (rows[k] = None /\ k = i)
      /\ \A l \in Keys : Attempted(l, i) => l = k
  BY <1>1, FoundRow DEF Inv
<1>3. /\ old \in Row /\ old.item = i
      /\ rows[k] # None => old.attempts = rows[k].attempts
      /\ ~old.asked => old.attempts < MaxAttempts
  <2>1. CASE rows[k] = None
    <3>1. 0 \in 0..MaxAttempts /\ 0 < MaxAttempts
      BY SizesAssumption
    <3> QED
      BY <2>1, <3>1, TextType DEF NewRow, Row
  <2>2. CASE rows[k] # None
    BY <1>1, <1>2, <2>2 DEF Inv, Types, RowsSound, Has
  <2> QED
    BY <2>1, <2>2
<1>4. /\ row \in Row /\ row.item = i /\ row.attempts = old.attempts /\ row.status = "open"
      /\ row.asked = old.asked
  BY <1>1, <1>3 DEF Row
<1>5. old.attempts \in Nat
  BY <1>3, SizesAssumption DEF Row
<1> HIDE DEF old, row
<1>6. /\ rows' \in [Keys -> Row \cup {None}] /\ rows'[k] = row /\ row # None
      /\ \A l \in Keys \ {k} : rows'[l] = rows[l]
      /\ RowsSound' /\ OneAttempted' /\ Counted'
      /\ \A j \in Items : public'[j] \in {0, 1}
                          /\ (public'[j] = 1 <=> \E l \in Keys : Has(l, j)' /\ service'[l] = "done")
  <2>1. /\ row \in Row /\ row.item = i /\ row.status = "open"
        /\ row.status = "open" /\ ~row.asked => row.attempts < MaxAttempts
    BY <1>3, <1>4
  <2>2. rows[k] # None => row.attempts >= rows[k].attempts
    BY <1>3, <1>4, <1>5
  <2>3. rows' = [rows EXCEPT ![k] = row] /\ UNCHANGED <<service, sends, public>>
    BY <1>1
  <2> QED
    BY <1>2, <2>1, <2>2, <2>3, RowWritten
<1>7. Slots \in Nat /\ Slots + 1 \in 0..PerDay /\ Slots \in 0..PerDay
  BY <1>1, SlotsType, SizesAssumption DEF Inv
<1>8. counted' \in 0..PerDay /\ counted' # None
  BY <1>1, <1>7, NoneApart
<1>9. job' \in Job /\ job' # None
  <2>1. job' = [item |-> i, key |-> k, fresh |-> TRUE, answer |-> "none"]
    BY <1>1
  <2>2. [item |-> i, key |-> k, fresh |-> TRUE, answer |-> "none"] \in Job
    BY DEF Job
  <2> QED
    BY <2>1, <2>2, NoneApart
<1>10. Types'
  BY <1>1, <1>6, <1>8, <1>9 DEF Inv, Types
<1>11. PublicIsDone' /\ Day'
  BY <1>1, <1>6, <1>8, <1>9 DEF Inv, PublicIsDone, Day, Has
<1>12. Working'
  BY <1>1, <1>2, <1>4, <1>6, <1>9 DEF Working, Attempted, Has
<1> QED
  BY <1>6, <1>10, <1>11, <1>12 DEF Inv

\* What a running process has before it.
LEMMA JobRow ==
  ASSUME Inv, pc # "down"
  PROVE  /\ job \in Job /\ job # None /\ job.key \in Keys /\ job.item \in Items
         /\ Has(job.key, job.item) /\ rows[job.key] \in Row
         /\ rows[job.key].attempts \in Nat
         /\ \A l \in Keys : Attempted(l, job.item) => l = job.key
<1>1. job \in Job /\ job # None /\ job.key \in Keys /\ job.item \in Items
  BY DEF Inv, Types, Working, Job
<1>2. Has(job.key, job.item) /\ rows[job.key] \in Row /\ \A l \in Keys : Attempted(l, job.item) => l = job.key
  BY <1>1 DEF Inv, Types, Working, Has
<1> QED
  BY <1>1, <1>2, SizesAssumption DEF Row

\* A running process rewrites its row and goes on or ends.
LEMMA JobStep ==
  ASSUME Inv, pc # "down", NEW row \in Row,
         row.item = job.item, row.today = rows[job.key].today,
         row.attempts >= rows[job.key].attempts,
         row.status = "open" /\ ~row.asked => row.attempts < MaxAttempts,
         row.status = "posted" => service[job.key] = "done",
         rows' = [rows EXCEPT ![job.key] = row],
         UNCHANGED <<book, booted, known, noted, service, history>>,
         \/ Ends
         \/ /\ UNCHANGED <<job, counted>> /\ pc' \in {"poll", "prepare", "send", "reply", "mark"}
            /\ pc' # "mark" => row.status = "open" /\ (row.asked <=> pc' # "prepare")
            /\ pc' = "send" => sends[job.item] < row.attempts
            /\ pc' = "mark" \/ (pc' = "reply" /\ job.answer = "receipt") => service[job.key] = "done"
  PROVE  Inv'
<1>1. /\ job \in Job /\ job # None /\ job.key \in Keys /\ job.item \in Items
      /\ Has(job.key, job.item)
      /\ \A l \in Keys : Attempted(l, job.item) => l = job.key
  BY JobRow
<1>2. UNCHANGED <<book, booted, known, noted, service, sends, public, crashes>>
  BY DEF history
<1>3. /\ rows' \in [Keys -> Row \cup {None}] /\ rows'[job.key] = row /\ row # None
      /\ \A l \in Keys \ {job.key} : rows'[l] = rows[l]
      /\ RowsSound' /\ OneAttempted' /\ Counted'
      /\ \A j \in Items : public'[j] \in {0, 1}
                          /\ (public'[j] = 1 <=> \E l \in Keys : Has(l, j)' /\ service'[l] = "done")
  BY <1>1, <1>2, RowWritten
<1>4. /\ counted' \in 0..PerDay \cup {None}
      /\ counted' = None => counted = None \/ ~job.fresh
      /\ job' \in {job, None} /\ (job' = job => counted' = counted)
      /\ pc' = "down" <=> job' = None
  BY <1>1, SlotsType DEF Inv, Types, Ends
<1>5. Types'
  BY <1>1, <1>2, <1>3, <1>4 DEF Inv, Types, Ends
<1>6. PublicIsDone'
  BY <1>2, <1>3 DEF Inv, PublicIsDone, Has
<1>7. Day'
  <2>1. counted' = None => \A k \in Keys : rows[k] # None => ~rows[k].today
    BY <1>1, <1>4 DEF Inv, Day
  <2> QED
    BY <1>1, <1>3, <1>4, <2>1 DEF Inv, Day, Has
<1>8. Working'
  BY <1>1, <1>2, <1>3, <1>4 DEF Working, Attempted, Has, Ends
<1> QED
  BY <1>3, <1>5, <1>6, <1>7, <1>8 DEF Inv

\* What the process is at, and the row it works on.
LEMMA JobAt ==
  ASSUME Inv
  PROVE  /\ pc \in {"poll", "prepare", "send", "reply"} => rows[job.key].status = "open"
         /\ pc \in {"poll", "send", "reply"} => rows[job.key].asked
         /\ pc = "prepare" => ~rows[job.key].asked /\ rows[job.key].attempts < MaxAttempts
BY DEF Inv, Types, Working, RowsSound, Has, Job

LEMMA PollStep == ASSUME Inv, PollConfirmed \/ PollMissing \/ PollUnsure PROVE Inv'
<1> DEFINE k == job.key
<1>1. pc = "poll" /\ UNCHANGED <<book, booted, known, noted, service, history>>
  BY DEF PollConfirmed, PollMissing, PollUnsure
<1>2. /\ k \in Keys /\ rows[k] \in Row /\ rows[k].item = job.item /\ rows[k].attempts \in Nat
      /\ rows[k].status = "open" /\ rows[k].asked
  BY <1>1, JobRow, JobAt DEF Has
<1>3. CASE PollConfirmed
  <2> DEFINE row == [rows[k] EXCEPT !.status = "posted"]
  <2>1. /\ row \in Row /\ row.item = job.item /\ row.today = rows[k].today /\ row.attempts >= rows[k].attempts
        /\ row.status = "posted"
    BY <1>2 DEF Row
  <2>2. rows' = [rows EXCEPT ![k] = row] /\ service[k] = "done" /\ pc' = "mark" /\ UNCHANGED <<job, counted>>
    BY <1>3 DEF PollConfirmed
  <2> HIDE DEF row
  <2> QED
    BY <1>1, <1>2, <2>1, <2>2, JobStep
<1>4. CASE PollMissing
  <2>1. CASE rows[k].attempts >= MaxAttempts
    <3> DEFINE row == [rows[k] EXCEPT !.status = "blocked", !.asked = FALSE]
    <3>1. /\ row \in Row /\ row.item = job.item /\ row.today = rows[k].today /\ row.attempts = rows[k].attempts
          /\ row.status = "blocked"
      BY <1>2 DEF Row
    <3>2. rows' = [rows EXCEPT ![k] = row] /\ Ends
      BY <1>4, <2>1 DEF PollMissing
    <3> HIDE DEF row
    <3>3. row.attempts >= rows[k].attempts
      BY <1>2, <3>1
    <3> QED
      BY <1>1, <1>2, <3>1, <3>2, <3>3, JobStep
  <2>2. CASE ~(rows[k].attempts >= MaxAttempts)
    <3> DEFINE row == [rows[k] EXCEPT !.asked = FALSE]
    <3>1. /\ row \in Row /\ row.item = job.item /\ row.today = rows[k].today /\ row.attempts = rows[k].attempts
          /\ row.status = "open" /\ ~row.asked
      BY <1>2 DEF Row
    <3>2. rows' = [rows EXCEPT ![k] = row] /\ pc' = "prepare" /\ UNCHANGED <<job, counted>>
      BY <1>4, <2>2 DEF PollMissing
    <3> HIDE DEF row
    <3>3. row.attempts >= rows[k].attempts /\ row.attempts < MaxAttempts
      BY <1>2, <2>2, <3>1, SizesAssumption
    <3> QED
      BY <1>1, <1>2, <3>1, <3>2, <3>3, JobStep
  <2> QED
    BY <2>1, <2>2
<1>5. CASE PollUnsure
  <2>1. rows' = [rows EXCEPT ![k] = rows[k]] /\ Ends
    BY <1>5 DEF PollUnsure, Inv, Types
  <2>2. rows[k].attempts >= rows[k].attempts
    BY <1>2
  <2> QED
    BY <1>1, <1>2, <2>1, <2>2, JobStep
<1> QED
  BY <1>3, <1>4, <1>5

LEMMA PrepareStep == ASSUME Inv, Prepare PROVE Inv'
<1> DEFINE k == job.key
           row == [rows[k] EXCEPT !.attempts = @ + 1, !.asked = TRUE]
<1>1. /\ pc = "prepare" /\ pc' = "send" /\ rows' = [rows EXCEPT ![k] = row]
      /\ UNCHANGED <<book, booted, known, noted, service, history>> /\ UNCHANGED <<job, counted>>
  BY DEF Prepare
<1>2. /\ k \in Keys /\ rows[k] \in Row /\ Has(k, job.item) /\ rows[k].attempts \in Nat /\ job.item \in Items
      /\ rows[k].status = "open" /\ rows[k].attempts < MaxAttempts
      /\ \A l \in Keys : Attempted(l, job.item) => l = k
  BY <1>1, JobRow, JobAt
<1>3. /\ row \in Row /\ row.item = job.item /\ row.today = rows[k].today
      /\ row.attempts = rows[k].attempts + 1 /\ row.status = "open" /\ row.asked
  <2>1. rows[k].attempts + 1 \in 0..MaxAttempts
    BY <1>2, SizesAssumption
  <2> QED
    BY <1>2, <2>1 DEF Row, Has
<1>4. sends[job.item] < row.attempts
  <2>1. sends[job.item] \in Nat
    BY <1>2 DEF Inv, Types
  <2>2. ASSUME sends[job.item] > 0 PROVE sends[job.item] <= rows[k].attempts
    <3>1. PICK l \in Keys : Has(l, job.item) /\ sends[job.item] <= rows[l].attempts
      BY <1>2, <2>2 DEF Inv, Counted
    <3>2. rows[l].attempts \in Nat
      BY <3>1, SizesAssumption DEF Inv, Types, Row, Has
    <3>3. Attempted(l, job.item)
      BY <2>1, <2>2, <3>1, <3>2 DEF Attempted
    <3> QED
      BY <1>2, <3>1, <3>3
  <2> QED
    BY <1>2, <1>3, <2>1, <2>2
<1> HIDE DEF row
<1>5. row.attempts >= rows[k].attempts
  BY <1>2, <1>3
<1> QED
  BY <1>1, <1>2, <1>3, <1>4, <1>5, JobStep

LEMMA ReplyStep == ASSUME Inv, Reply PROVE Inv'
<1> DEFINE k == job.key
<1>1. pc = "reply" /\ UNCHANGED <<book, booted, known, noted, service, history>>
  BY DEF Reply
<1>2. /\ k \in Keys /\ rows[k] \in Row /\ rows[k].item = job.item /\ rows[k].attempts \in Nat
      /\ rows[k].status = "open" /\ rows[k].asked
  BY <1>1, JobRow, JobAt DEF Has
<1>3. CASE job.answer = "receipt"
  <2> DEFINE row == [rows[k] EXCEPT !.status = "posted"]
  <2>1. /\ row \in Row /\ row.item = job.item /\ row.today = rows[k].today /\ row.attempts >= rows[k].attempts
        /\ row.status = "posted"
    BY <1>2 DEF Row
  <2>2. rows' = [rows EXCEPT ![k] = row] /\ pc' = "mark" /\ UNCHANGED <<job, counted>>
    BY <1>3 DEF Reply
  <2>3. service[k] = "done"
    BY <1>1, <1>3 DEF Inv, Working
  <2> HIDE DEF row
  <2> QED
    BY <1>1, <1>2, <2>1, <2>2, <2>3, JobStep
<1>4. CASE job.answer # "receipt"
  <2> DEFINE row == IF rows[k].attempts >= MaxAttempts THEN [rows[k] EXCEPT !.status = "blocked"] ELSE rows[k]
  <2>1. /\ row \in Row /\ row.item = job.item /\ row.today = rows[k].today /\ row.attempts >= rows[k].attempts
        /\ row.status # "posted" /\ row.asked
    BY <1>2 DEF Row
  <2>2. rows' = [rows EXCEPT ![k] = row] /\ Ends
    BY <1>4 DEF Reply, Inv, Types
  <2> HIDE DEF row
  <2> QED
    BY <1>1, <1>2, <2>1, <2>2, JobStep
<1> QED
  BY <1>3, <1>4

LEMMA MarkStep == ASSUME Inv, Mark PROVE Inv'
<1>1. /\ pc = "mark" /\ Marked(job.item) /\ Ends
      /\ UNCHANGED <<book, booted, rows, service, sends, public, crashes>>
  BY DEF Mark, history
<1>2. job.item \in Items /\ public[job.item] = 1
  <2>1. job.key \in Keys /\ job.item \in Items /\ Has(job.key, job.item)
    BY <1>1, JobRow
  <2>2. service[job.key] = "done"
    BY <1>1 DEF Inv, Working
  <2> QED
    BY <2>1, <2>2 DEF Inv, PublicIsDone
<1>3. known' \in [Rules -> Statuses] /\ noted' \subseteq Notes /\ \A j \in noted' : public[j] = 1
  BY <1>1, <1>2, MarkType DEF Inv, PublicIsDone
<1>4. counted' \in 0..PerDay \cup {None} /\ (counted' = None => counted = None) /\ job' = None /\ pc' = "down"
  BY <1>1, JobRow, SlotsType DEF Inv, Types, Ends, Day
<1> QED
  BY <1>1, <1>3, <1>4
  DEF Inv, Types, RowsSound, OneAttempted, Attempted, Has, PublicIsDone, Counted, Working, Day

LEMMA SendStep ==
  ASSUME Inv, NEW becomes \in {"none", "late", "queued", "done", "failed"},
         NEW answer \in {"receipt", "pending", "other"}, Send(becomes, answer)
  PROVE  Inv'
<1> DEFINE k == job.key
           i == job.item
<1>1. /\ UNCHANGED <<book, booted, known, noted, rows, counted, crashes>>
      /\ pc = "send" /\ pc' = "reply" /\ job' = [job EXCEPT !.answer = answer]
      /\ service' = [service EXCEPT ![k] = becomes]
      /\ sends' = [sends EXCEPT ![i] = @ + 1]
      /\ answer = "receipt" => becomes = "done"
  BY DEF Send, file
<1>2. /\ job \in Job /\ k \in Keys /\ i \in Items /\ Has(k, i) /\ rows[k].attempts \in Nat
      /\ \A l \in Keys : Attempted(l, i) => l = k
      /\ rows[k].status = "open" /\ rows[k].asked
  BY <1>1, JobRow, JobAt
<1>3. sends[i] \in Nat /\ sends[i] < rows[k].attempts
  BY <1>1, <1>2 DEF Inv, Types, Working
<1>4. rows[k] # None /\ rows[k].attempts > 0
  BY <1>2, <1>3 DEF Has
<1>5. /\ job' \in Job /\ job' # None /\ job'.key = k /\ job'.item = i /\ job'.answer = answer
      /\ job'.fresh = job.fresh /\ job # None
  BY <1>1, <1>2, NoneApart DEF Job
<1>6. /\ service' \in [Keys -> {"none", "late", "queued", "done", "failed"}]
      /\ service'[k] = becomes /\ \A l \in Keys \ {k} : service'[l] = service[l]
      /\ service[k] = "done" => becomes = "done"
  BY <1>1, <1>2 DEF Inv, Types, Send
<1>7. PublicIsDone' /\ public' \in [Items -> Nat]
  <2>1. CASE becomes = "done" /\ service[k] # "done"
    <3>1. Publish(k)
      BY <2>1 DEF Send
    <3> QED
      BY <1>1, <1>2, <1>4, <2>1, <3>1, Publishes
  <2>2. CASE ~(becomes = "done" /\ service[k] # "done")
    <3>1. UNCHANGED public
      BY <2>2 DEF Send
    <3>2. \A l \in Keys : service'[l] = "done" <=> service[l] = "done"
      BY <1>6, <2>2
    <3> QED
      BY <1>1, <3>1, <3>2 DEF Inv, Types, PublicIsDone, Has
  <2> QED
    BY <2>1, <2>2
<1>8. sends' \in [Items -> Nat] /\ sends'[i] <= rows[k].attempts /\ \A j \in Items \ {i} : sends'[j] = sends[j]
  BY <1>1, <1>2, <1>3 DEF Inv, Types
<1>9. Types' /\ Day'
  BY <1>1, <1>5, <1>6, <1>7, <1>8 DEF Inv, Types, Day
<1>10. RowsSound' /\ OneAttempted'
  BY <1>1, <1>4, <1>6 DEF Inv, RowsSound, OneAttempted, Attempted, Has
<1>11. Counted'
  <2>1. ASSUME NEW j \in Items, sends'[j] > 0
        PROVE  \E l \in Keys : Has(l, j) /\ sends'[j] <= rows[l].attempts
    BY <1>2, <1>8, <2>1 DEF Inv, Counted
  <2> QED
    BY <1>1, <2>1 DEF Counted, Has
<1>12. Working'
  BY <1>1, <1>2, <1>5, <1>6 DEF Working, Attempted, Has
<1> QED
  BY <1>7, <1>9, <1>10, <1>11, <1>12 DEF Inv

LEMMA NextInv == Inv /\ [Next]_vars => Inv'
<1> SUFFICES ASSUME Inv, [Next]_vars PROVE Inv'
  OBVIOUS
<1>1. CASE Run
  BY <1>1, RuleStep, RestStep, ReserveStep, PollStep, PrepareStep, SendStep, ReplyStep, MarkStep DEF Run
<1>2. CASE UNCHANGED vars
  BY <1>2
  DEF vars, file, history, Inv, Types, RowsSound, OneAttempted, Attempted, Has, PublicIsDone,
      Counted, Working, Day
<1> QED
  BY <1>1, <1>2, RuleStep, NewDayStep, ResolveStep, CrashStep DEF Next

LEMMA Invariance == Spec => []Inv
BY InitInv, NextInv, PTL DEF Spec

-----------------------------------------------------------------------------

\* The publisher's state keeps its types; in particular no item is requested
\* more often than MAX_ATTEMPTS, whichever of its rows was used and however many
\* runs died in between (main and _record_failure in tweet.py, SC-012).
THEOREM TypeCorrect == Spec => []TypeOK
<1>1. Inv => TypeOK
  <2> SUFFICES ASSUME Inv PROVE TypeOK
    OBVIOUS
  <2>1. ASSUME NEW i \in Items PROVE sends[i] \in 0..MaxAttempts
    <3>1. sends[i] \in Nat
      BY DEF Inv, Types
    <3>2. CASE sends[i] = 0
      BY <3>2, SizesAssumption
    <3>3. CASE sends[i] > 0
      <4>1. PICK k \in Keys : Has(k, i) /\ sends[i] <= rows[k].attempts
        BY <3>3 DEF Inv, Counted
      <4>2. rows[k].attempts \in 0..MaxAttempts
        BY <4>1 DEF Inv, Types, Has, Row
      <4> QED
        BY <3>1, <4>1, <4>2, SizesAssumption
    <3> QED
      BY <3>1, <3>2, <3>3
  <2>2. sends \in [Items -> 0..MaxAttempts]
    BY <2>1 DEF Inv, Types
  <2> QED
    BY <2>2 DEF Inv, Types, TypeOK
<1> QED
  BY <1>1, Invariance, PTL

\* An item becomes public at most once (_find_delivery in tweet.py and the
\* service's idempotency key).
THEOREM OnePost == Spec => []PublicOnce
<1>1. Inv => PublicOnce
  BY DEF Inv, PublicIsDone, PublicOnce
<1> QED
  BY <1>1, Invariance, PTL

\* What the state file calls posted, or published, is public (_x_receipt,
\* poll_receipt and _mark_confirmed in tweet.py; FR-033).
THEOREM OnlyConfirmed == Spec => []ConfirmedIsPublic
<1>1. Inv => ConfirmedIsPublic
  <2> SUFFICES ASSUME Inv PROVE ConfirmedIsPublic
    OBVIOUS
  <2>1. ASSUME NEW k \in Keys, Posted(k) PROVE public[rows[k].item] > 0
    <3>1. rows[k].item \in Items /\ Has(k, rows[k].item) /\ service[k] = "done"
      BY <2>1 DEF Inv, Types, Row, RowsSound, Posted, Has
    <3> QED
      BY <3>1 DEF Inv, PublicIsDone
  <2>2. \A i \in noted : public[i] > 0
    BY DEF Inv, PublicIsDone
  <2> QED
    BY <2>1, <2>2 DEF ConfirmedIsPublic
<1> QED
  BY <1>1, Invariance, PTL
=============================================================================
