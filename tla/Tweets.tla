------------------------------- MODULE Tweets -------------------------------
(***************************************************************************)
(* The X publisher (tweet.py), which an hourly timer runs beside the       *)
(* experiment: at most one item a run, a rule that was adopted or rejected *)
(* or a field note, over a network that may lose a request or its answer   *)
(* and a service that may take its time.                                   *)
(*                                                                         *)
(* Its one state file is replaced atomically; the process may die between  *)
(* any two writes and around the request.  Of a delivery's status only     *)
(* "posted" and "blocked" are told apart, as in the code's branches.       *)
(***************************************************************************)
EXTENDS Naturals, FiniteSets

CONSTANTS
  NRules,       \* rules, in the order of the rulebook
  NNotes,       \* field notes, in order
  NPriority,    \* how many of the first ones have x_priority
  Book0,        \* the rulebook when the publisher is set up
  LegacyKeys,   \* ids of rows left by an older version of tweet.py
  LegacyItem,   \* whose items they are
  LegacyText,   \* and with which text
  None,
  MaxAttempts, PerDay,   \* MAX_ATTEMPTS, POSTS_PER_DAY
  MaxCrashes             \* bound of the model

Rules == 1..NRules
Notes == {<<"note", n>> : n \in 1..NNotes}
Events == {<<verb, r>> : verb \in {"adopted", "rejected"}, r \in Rules}
Items == Notes \cup Events

\* stable_id: the item without its text.
Stable(i) == i
Keys == Items \cup LegacyKeys

Statuses == {"proposed", "adopted", "rejected", "historical"}
Row == [item : Items, text : 0..NRules, attempts : 0..MaxAttempts,
        status : {"open", "posted", "blocked"}, asked : BOOLEAN, today : BOOLEAN]
Job == [item : Items, key : Keys, fresh : BOOLEAN,
        answer : {"none", "receipt", "pending", "other"}]

ASSUME SizesAssumption ==
  /\ NRules \in Nat /\ NNotes \in Nat /\ NPriority \in 0..NNotes
  /\ Book0 \in [Rules -> Statuses]
  /\ MaxAttempts \in Nat \ {0} /\ PerDay \in Nat /\ MaxCrashes \in Nat
ASSUME LegacyAssumption ==
  /\ LegacyItem \in [LegacyKeys -> Items] /\ LegacyText \in [LegacyKeys -> 0..NRules]
  /\ LegacyKeys \cap Items = {} /\ None \notin Keys \cup Row \cup Job \cup Nat

VARIABLES
  book,      \* rule -> status in rulebook.json
  booted,    \* whether statuses is set in the state file
  known,     \* the statuses published so far
  noted,     \* notes_posted
  rows,      \* key -> its delivery, or None
  counted,   \* posts_day_count, or None if posts_day is not today
  pc,        \* "down", "poll", "prepare", "send", "reply" or "mark"
  job,       \* what the running process works on, or None
  service    \* key -> what the posting service has of it

\* History, read by properties only.
VARIABLES
  sends,     \* item -> requests sent
  public,    \* item -> posts that became public
  crashes

file == <<booted, known, noted, rows, counted>>
history == <<sends, public, crashes>>
vars == <<book, file, pc, job, service, history>>

NewRow(i, t) == [item |-> i, text |-> t, attempts |-> 0, status |-> "open",
                 asked |-> FALSE, today |-> FALSE]

\* A first run, or the state file of the older version, which could hold
\* several rows of one item, none of them attempted.
Init ==
  /\ book = Book0 /\ known = Book0
  /\ \/ booted = FALSE /\ rows = [k \in Keys |-> None]
     \/ /\ booted = TRUE
        /\ rows = [k \in Keys |-> IF k \in LegacyKeys THEN NewRow(LegacyItem[k], LegacyText[k])
                                                      ELSE None]
  /\ noted = {} /\ counted = None
  /\ pc = "down" /\ job = None
  /\ service = [k \in Keys |-> "none"]
  /\ sends = [i \in Items |-> 0] /\ public = [i \in Items |-> 0] /\ crashes = 0

-----------------------------------------------------------------------------
(* The world around it *)

\* The experiment decides a rule, or retires it.
RuleChanges(r) ==
  /\ \E s \in CASE book[r] = "proposed" -> {"adopted", "rejected"}
                [] book[r] = "adopted" -> {"historical"}
                [] OTHER -> {} :
       book' = [book EXCEPT ![r] = s]
  /\ UNCHANGED <<file, pc, job, service, history>>

\* Days are only ever compared with today; a run keeps the day it began on.
NewDay ==
  /\ rows' = [k \in Keys |-> IF rows[k] = None THEN None ELSE [rows[k] EXCEPT !.today = FALSE]]
  /\ counted' = None
  /\ job' = IF job = None THEN None ELSE [job EXCEPT !.fresh = FALSE]
  /\ UNCHANGED <<book, booted, known, noted, pc, service, history>>

Publish(k) == public' = [public EXCEPT ![rows[k].item] = @ + 1]

\* The service finishes a queued post, or gives it up; a request that was held
\* up in the network arrives.
Resolve(k) ==
  /\ \/ /\ service[k] = "queued"
        /\ \/ service' = [service EXCEPT ![k] = "done"] /\ Publish(k)
           \/ service' = [service EXCEPT ![k] = "failed"] /\ UNCHANGED public
     \/ /\ service[k] = "late"
        /\ service' = [service EXCEPT ![k] = "queued"] /\ UNCHANGED public
  /\ UNCHANGED <<book, file, pc, job, sends, crashes>>

-----------------------------------------------------------------------------
(* One run *)

\* compose: the text of a rule's post counts the rules in force.
Text(i) == IF i \in Notes THEN 0 ELSE Cardinality({r \in Rules : book[r] = "adopted"})

\* Mutant: the row whose text matches is preferred to one that was attempted.
FoundByText(i) ==
  LET own == {k \in Keys : rows[k] # None /\ rows[k].item = i}
      matching == {k \in own : rows[k].text = Text(i)}
  IN IF matching # {} THEN matching ELSE IF own # {} THEN own ELSE {Stable(i)}

\* _find_delivery, or the row it would make: an attempted one, else one with
\* this text, else any (which of several depends on their order in the file).
Found(i) ==
  LET own == {k \in Keys : rows[k] # None /\ rows[k].item = i}
      attempted == {k \in own : rows[k].attempts > 0}
      matching == {k \in own : rows[k].text = Text(i)}
  IN IF attempted # {} THEN attempted
     ELSE IF matching # {} THEN matching
     ELSE IF own # {} THEN own ELSE {Stable(i)}

\* Priority notes, then rule events, then the other notes.
Rank(i) ==
  IF i \in Events THEN NPriority + i[2]
  ELSE IF i[2] <= NPriority THEN i[2] ELSE NRules + i[2]

Candidates ==
  (Notes \ noted) \cup {e \in Events : book[e[2]] = e[1] /\ known[e[2]] # e[1]}

Blocked(k) == rows[k] # None /\ rows[k].status = "blocked"
Posted(k) == rows[k] # None /\ rows[k].status = "posted"

\* Mutant: a blocked item keeps its place.
TurnOfBlocked(i, k) ==
  /\ i \in Candidates /\ k \in Found(i)
  /\ \A j \in Candidates \ {i} : Rank(j) > Rank(i)

\* The first candidate that is not blocked, and its row.
TurnOf(i, k) ==
  /\ i \in Candidates /\ k \in Found(i) /\ ~Blocked(k)
  /\ \A j \in Candidates : Rank(j) < Rank(i) => \A l \in Found(j) : Blocked(l)

\* posts_day_count, taken anew on a new day.
Slots == IF counted = None
         THEN Cardinality({k \in Keys : rows[k] # None /\ rows[k].today})
         ELSE counted

\* The first run of all only records what is there.
Bootstrap ==
  /\ pc = "down" /\ ~booted
  /\ booted' = TRUE /\ known' = book
  /\ UNCHANGED <<book, noted, rows, counted, pc, job, service, history>>

Marked(i) ==
  IF i \in Notes THEN noted' = noted \cup {i} /\ UNCHANGED known
  ELSE known' = [known EXCEPT ![i[2]] = i[1]] /\ UNCHANGED noted

\* A run that died after its confirmation left the item to be marked.
Finalize ==
  /\ pc = "down" /\ booted
  /\ \E i \in Items, k \in Keys :
       /\ TurnOf(i, k) /\ Posted(k)
       /\ Marked(i)
  /\ counted' = Slots
  /\ UNCHANGED <<book, booted, rows, pc, job, service, history>>

\* Nothing to do, or no slot left today.
Quiet ==
  /\ pc = "down" /\ booted
  /\ \A i \in Items, k \in Keys : TurnOf(i, k) => Slots >= PerDay /\ ~Posted(k)
  /\ counted' = Slots
  /\ UNCHANGED <<book, booted, known, noted, rows, pc, job, service, history>>

\* An item takes one of the day's slots, on disk, unless it has one already;
\* then it is asked after, if it was sent before.
Reserve(i, k) ==
  /\ pc = "down" /\ booted
  /\ TurnOf(i, k) /\ Slots < PerDay
  /\ LET row == IF rows[k] = None THEN NewRow(i, Text(i)) ELSE rows[k]
     IN /\ row.status = "open"
        /\ rows' = [rows EXCEPT ![k] = [row EXCEPT !.today = TRUE]]
        /\ counted' = IF row.today THEN Slots ELSE Slots + 1
        /\ pc' = IF row.asked THEN "poll" ELSE "prepare"
  /\ job' = [item |-> i, key |-> k, fresh |-> TRUE, answer |-> "none"]
  /\ UNCHANGED <<book, booted, known, noted, service, history>>

\* The end of the process; what it last saved of the day is of its own day.
Ends ==
  /\ pc' = "down" /\ job' = None
  /\ counted' = IF job.fresh THEN Slots ELSE None

\* poll_receipt: the post is public.
PollConfirmed ==
  /\ pc = "poll" /\ service[job.key] = "done"
  /\ rows' = [rows EXCEPT ![job.key].status = "posted"]
  /\ pc' = "mark"
  /\ UNCHANGED <<book, booted, known, noted, counted, job, service, history>>

\* Mutant: one attempt more.
PollMissingMore ==
  /\ pc = "poll" /\ service[job.key] \in {"none", "late", "failed"}
  /\ IF rows[job.key].attempts > MaxAttempts
     THEN /\ rows' = [rows EXCEPT ![job.key].status = "blocked", ![job.key].asked = FALSE]
          /\ Ends
     ELSE /\ rows' = [rows EXCEPT ![job.key].asked = FALSE]
          /\ pc' = "prepare" /\ UNCHANGED <<job, counted>>
  /\ UNCHANGED <<book, booted, known, noted, service, history>>

\* The service does not have it, or gave it up: try again, or give up too.
PollMissing ==
  /\ pc = "poll" /\ service[job.key] \in {"none", "late", "failed"}
  /\ IF rows[job.key].attempts >= MaxAttempts
     THEN /\ rows' = [rows EXCEPT ![job.key].status = "blocked", ![job.key].asked = FALSE]
          /\ Ends
     ELSE /\ rows' = [rows EXCEPT ![job.key].asked = FALSE]
          /\ pc' = "prepare" /\ UNCHANGED <<job, counted>>
  /\ UNCHANGED <<book, booted, known, noted, service, history>>

\* Still in work, an error, or an answer without an X receipt: ask again later.
PollUnsure ==
  /\ pc = "poll"
  /\ Ends
  /\ UNCHANGED <<book, booted, known, noted, rows, service, history>>

\* The request's id and the attempt are on disk before the request.
Prepare ==
  /\ pc = "prepare"
  /\ rows' = [rows EXCEPT ![job.key].attempts = @ + 1, ![job.key].asked = TRUE]
  /\ pc' = "send"
  /\ UNCHANGED <<book, booted, known, noted, counted, job, service, history>>

\* The request, under its idempotency key: the service posts it, queues it,
\* refuses it or never gets it, and the answer may be lost.
Send(becomes, answer) ==
  LET k == job.key
  IN /\ pc = "send"
     /\ CASE service[k] = "done" -> becomes = "done"
          [] service[k] = "queued" -> becomes = "queued"
          [] OTHER -> TRUE
     /\ answer = "receipt" => becomes = "done"
     /\ answer = "pending" => becomes = "queued"
     /\ service' = [service EXCEPT ![k] = becomes]
     /\ IF becomes = "done" /\ service[k] # "done" THEN Publish(k) ELSE UNCHANGED public
     /\ sends' = [sends EXCEPT ![job.item] = @ + 1]
     /\ pc' = "reply" /\ job' = [job EXCEPT !.answer = answer]
     /\ UNCHANGED <<book, file, crashes>>

\* Mutant: an accepted request counts as a post.
ReplyTrusting ==
  /\ pc = "reply"
  /\ IF job.answer \in {"receipt", "pending"}
     THEN /\ rows' = [rows EXCEPT ![job.key].status = "posted"]
          /\ pc' = "mark" /\ UNCHANGED <<job, counted>>
     ELSE /\ rows' = IF rows[job.key].attempts >= MaxAttempts
                     THEN [rows EXCEPT ![job.key].status = "blocked"] ELSE rows
          /\ Ends
  /\ UNCHANGED <<book, booted, known, noted, service, history>>

\* Only a receipt confirms; the last attempt without one blocks the item.
Reply ==
  /\ pc = "reply"
  /\ IF job.answer = "receipt"
     THEN /\ rows' = [rows EXCEPT ![job.key].status = "posted"]
          /\ pc' = "mark" /\ UNCHANGED <<job, counted>>
     ELSE /\ rows' = IF rows[job.key].attempts >= MaxAttempts
                     THEN [rows EXCEPT ![job.key].status = "blocked"] ELSE rows
          /\ Ends
  /\ UNCHANGED <<book, booted, known, noted, service, history>>

Mark ==
  /\ pc = "mark"
  /\ Marked(job.item)
  /\ Ends
  /\ UNCHANGED <<book, booted, rows, service, history>>

\* The process is killed, or an error ends it.
Crash ==
  /\ pc # "down" /\ crashes < MaxCrashes
  /\ pc' = "down" /\ job' = None /\ crashes' = crashes + 1
  /\ UNCHANGED <<book, file, service, sends, public>>

-----------------------------------------------------------------------------

Run ==
  \/ Bootstrap \/ Finalize \/ Quiet
  \/ \E i \in Items, k \in Keys : Reserve(i, k)
  \/ PollConfirmed \/ PollMissing \/ PollUnsure
  \/ Prepare
  \/ \E becomes \in {"none", "late", "queued", "done", "failed"},
        answer \in {"receipt", "pending", "other"} : Send(becomes, answer)
  \/ Reply \/ Mark

Next ==
  \/ \E r \in Rules : RuleChanges(r)
  \/ NewDay
  \/ \E k \in Keys : Resolve(k)
  \/ Run \/ Crash

Spec == Init /\ [][Next]_vars

\* The timer starts the publisher every hour and days pass; the service does
\* not keep a post queued for ever, nor answer every question about one with
\* an error.
FairSpec ==
  /\ Spec /\ WF_vars(Run) /\ WF_vars(NewDay)
  /\ \A k \in Keys : WF_vars(Resolve(k))
  /\ SF_vars(PollConfirmed \/ PollMissing)

-----------------------------------------------------------------------------
(* Properties *)

\* Every variable holds a value of its kind; in particular no item is requested
\* more than MAX_ATTEMPTS times, whatever its row and the runs that died (SC-012).
TypeOK ==
  /\ book \in [Rules -> Statuses] /\ known \in [Rules -> Statuses]
  /\ booted \in BOOLEAN /\ noted \subseteq Notes
  /\ rows \in [Keys -> Row \cup {None}]
  /\ counted \in 0..PerDay \cup {None}
  /\ pc \in {"down", "poll", "prepare", "send", "reply", "mark"}
  /\ job \in Job \cup {None}
  /\ service \in [Keys -> {"none", "late", "queued", "done", "failed"}]
  /\ sends \in [Items -> 0..MaxAttempts] /\ public \in [Items -> Nat] /\ crashes \in 0..MaxCrashes

\* An item becomes public at most once, although its text changes between
\* attempts, answers are lost, and an older version left several rows for it
\* (_find_delivery; the service answers for one key only once).
PublicOnce == \A i \in Items : public[i] <= 1

\* A confirmed delivery, and a note marked as published, is public, however the
\* run that sent it ended (_x_receipt, poll_receipt, _mark_confirmed; FR-033).
ConfirmedIsPublic ==
  /\ \A k \in Keys : Posted(k) => public[rows[k].item] > 0
  /\ \A i \in noted : public[i] > 0

\* Every note is published or blocked in the end: one item's failures do not
\* stop the others (the loop of main over candidates; FR-034).
NotesSettle ==
  \A n \in Notes : <>(n \in noted \/ \E k \in Keys : Blocked(k) /\ rows[k].item = n)
=============================================================================
