---------------------------- MODULE Collaboration ----------------------------
(***************************************************************************)
(* The human lane: visitors submit suggestions and the reviewer decides    *)
(* them or answers a question (viewer/api), through two Redis queues; the  *)
(* courier copies them to a local spool and publishes the loop's snapshot  *)
(* (collab_sync.py); the loop imports the spool, resolves lookups and      *)
(* delivers one reply per agent turn (collaboration.py, loop.py).          *)
(*                                                                         *)
(* The courier, the loop and the archiver exclude each other by the writer *)
(* lock, so a turn and an archive are one step each (TurnStore justifies   *)
(* it); the courier's Redis commands and the reviewer's interleave freely. *)
(***************************************************************************)
EXTENDS Naturals, Sequences, SequencesExt

CONSTANTS
  Suggestions,   \* suggestion ids, one per submission
  Questions,     \* ids of questions the agents may put to the human
  Lookups,       \* ids of their research requests
  Clicks,        \* the reviewer's actions, each with its idempotency key
  Answers,       \* answers the reviewer may give
  None,
  Limit,         \* records of a queue taken by one pull (4 in the code)
  MaxCrashes, MaxExpiries, MaxArchives   \* bounds of the model

AskIds == Questions \cup Lookups   \* a lookup's id also names the ask it may become
Decisions == {"approved", "dismissed"}
Queues == {"suggestion", "moderation"}

Targets == Suggestions \cup AskIds
Verdicts(t) == IF t \in Suggestions THEN Decisions ELSE Answers

Record == [id : Suggestions \cup Clicks, target : Targets \cup {None},
           verdict : Decisions \cup Answers \cup {None}]
Row == [id : Targets, requester : {"A", "B", None},
        status : {"pending_review", "approved", "dismissed", "awaiting_iso", "queued",
                  "answered", "escalated_to_iso", "delivered"},
        answer : Answers \cup {None}]
Delivery == [id : Targets, agent : {"A", "B"}]

\* The state of one run, wherever it is kept.
Copy == [suggestions : Seq(Row), asks : Seq(Row), research : Seq(Row),
         processed : SUBSET (Targets \cup Clicks), deliveries : Seq(Delivery),
         run : 0..MaxArchives]

ASSUME LimitAssumption == Limit \in Nat \ {0}
ASSUME BoundsAssumption ==
  MaxCrashes \in Nat /\ MaxExpiries \in Nat /\ MaxArchives \in Nat
ASSUME NamesAssumption ==
  /\ None \notin Targets \cup Clicks \cup Answers \cup Decisions \cup Record \cup Copy
  /\ Suggestions \cap Clicks = {} /\ Suggestions \cap AskIds = {}

VARIABLES
  queue,      \* Redis: the two lists of transported records
  lease,      \* Redis: per queue "free", "held" by the running pull, or "stale"
  marked,     \* Redis: ids ever enqueued
  reserved,   \* Redis: target -> the decision it is reserved for, or None
  published,  \* Redis: the private state, a copy of some outbox
  spool,      \* records in collaboration-inbox.json
  recovery,   \* recovery_state there: the backup the last pull copied
  outbox,     \* collaboration-outbox.json
  state,      \* collaboration.json
  generation, \* collaboration-generation.local.json: the seed of this run, or None
  actor,      \* the agent whose turn is next
  courier,    \* the pull under way: [pc, queue, index, record]
  click,      \* click -> the request it makes: [pc, target, verdict, view], and
              \* (history) the run whose inbox the reviewer saw
  crashes, expiries

redis == <<queue, lease, marked, reserved, published>>
local == <<spool, recovery, outbox, state, generation, actor>>
vars == <<redis, local, courier, click, crashes, expiries>>

Empty == [suggestions |-> <<>>, asks |-> <<>>, research |-> <<>>,
          processed |-> {}, deliveries |-> <<>>, run |-> 0]

Ids(rows) == {rows[i].id : i \in DOMAIN rows}
StatusIn(rows, id) ==
  IF \E i \in DOMAIN rows : rows[i].id = id
  THEN rows[CHOOSE i \in DOMAIN rows : rows[i].id = id].status
  ELSE "missing"

Init ==
  /\ queue = [q \in Queues |-> <<>>] /\ lease = [q \in Queues |-> "free"]
  /\ marked = {} /\ reserved = [t \in Targets |-> None] /\ published = Empty
  /\ spool = <<>> /\ outbox = Empty /\ state = Empty /\ actor = "A"
  /\ recovery = None /\ generation = None
  /\ courier = [pc |-> "idle", queue |-> "suggestion", index |-> 0, record |-> None]
  /\ click = [k \in Clicks |-> [pc |-> "unused", target |-> None, verdict |-> None, view |-> "missing",
                            run |-> 0]]
  /\ crashes = 0 /\ expiries = 0

-----------------------------------------------------------------------------
(* The web handlers *)

\* enqueue: the id's marker and the push are one script.
Enqueued(q, r) ==
  IF r.id \in marked THEN UNCHANGED <<queue, marked>>
  ELSE /\ queue' = [queue EXCEPT ![q] = Append(@, r)]
       /\ marked' = marked \cup {r.id}

Submit(s) ==
  /\ s \notin marked
  /\ Enqueued("suggestion", [id |-> s, target |-> None, verdict |-> None])
  /\ UNCHANGED <<lease, reserved, published, local, courier, click, crashes, expiries>>

\* The reviewer acts on something the inbox has shown.
Seen(t) == t \in marked \/ t \in Ids(published.asks)

\* human-action.js reserves the target for the decision before it looks whether
\* the target is open.  (A refused reservation is a 409 that changes nothing.)
Reserve(k, t, v) ==
  /\ click[k].pc = "unused"
  /\ Seen(t) /\ v \in Verdicts(t) /\ reserved[t] \in {None, v}
  /\ reserved' = [reserved EXCEPT ![t] = v]
  /\ click' = [click EXCEPT ![k] = [pc |-> "state", target |-> t, verdict |-> v, view |-> "missing",
                                 run |-> published.run]]
  /\ UNCHANGED <<queue, lease, marked, published, local, courier, crashes, expiries>>

\* privateRecords, three reads: the published state, ...
ReadState(k) ==
  /\ click[k].pc = "state"
  /\ LET t == click[k].target
         status == StatusIn(IF t \in Suggestions THEN published.suggestions ELSE published.asks, t)
     IN click' = [click EXCEPT ![k].pc = "suggestions", ![k].view =
                    IF status \in {"pending_review", "awaiting_iso"} THEN "open"
                    ELSE IF status = "missing" THEN "missing" ELSE "closed"]
  /\ UNCHANGED <<redis, local, courier, crashes, expiries>>

\* ... the suggestions still queued, which are open, ...
ReadSuggestions(k) ==
  /\ click[k].pc = "suggestions"
  /\ click' = [click EXCEPT ![k].pc = "moderations", ![k].view =
                 IF @ = "missing" /\ click[k].target \in Ids(queue["suggestion"]) THEN "open" ELSE @]
  /\ UNCHANGED <<redis, local, courier, crashes, expiries>>

\* ... and the commands still queued, whose targets are not.  A target that is
\* not open is refused (409).
ReadModerations(k) ==
  /\ click[k].pc = "moderations"
  /\ LET open == /\ click[k].view = "open"
                 /\ \A i \in DOMAIN queue["moderation"] : queue["moderation"][i].target # click[k].target
     IN click' = [click EXCEPT ![k].pc = IF open THEN "open" ELSE "refused"]
  /\ UNCHANGED <<redis, local, courier, crashes, expiries>>

\* The command is queued for the loop (202).
Command(k) ==
  /\ click[k].pc = "open"
  /\ Enqueued("moderation", [id |-> k, target |-> click[k].target, verdict |-> click[k].verdict])
  /\ click' = [click EXCEPT ![k].pc = "accepted"]
  /\ UNCHANGED <<lease, reserved, published, local, courier, crashes, expiries>>

\* A reservation lasts a day, a request only seconds.
ReservationExpires(t) ==
  /\ reserved[t] # None /\ expiries < MaxExpiries
  /\ \A k \in Clicks : click[k].target = t => click[k].pc \in {"accepted", "refused"}
  /\ reserved' = [reserved EXCEPT ![t] = None]
  /\ expiries' = expiries + 1
  /\ UNCHANGED <<queue, lease, marked, published, local, courier, click, crashes>>

-----------------------------------------------------------------------------
(* The courier *)

\* A pull begins with a copy of the published state, as a backup.
StartPull ==
  /\ courier.pc = "idle"
  /\ courier' = [pc |-> "claim", queue |-> "suggestion", index |-> 0, record |-> None]
  /\ recovery' = published
  /\ UNCHANGED <<redis, spool, outbox, state, generation, actor, click, crashes, expiries>>

\* The next record of the queue, or the next queue, or the end of the pull.
NextQueue(c) ==
  IF c.queue = "suggestion"
  THEN [pc |-> "claim", queue |-> "moderation", index |-> 0, record |-> None]
  ELSE [pc |-> "idle", queue |-> "suggestion", index |-> 0, record |-> None]

\* The head of the queue is leased, and stays in the queue.
Claim ==
  LET q == courier.queue
  IN /\ courier.pc = "claim"
     /\ queue[q] # <<>> /\ lease[q] = "free"
     /\ lease' = [lease EXCEPT ![q] = "held"]
     /\ courier' = [courier EXCEPT !.pc = "append", !.record = Head(queue[q])]
     /\ UNCHANGED <<queue, marked, reserved, published, local, click, crashes, expiries>>

\* Nothing to claim, or an earlier courier's lease still stands.
ClaimNothing ==
  LET q == courier.queue
  IN /\ courier.pc = "claim"
     /\ queue[q] = <<>> \/ lease[q] # "free"
     /\ courier' = NextQueue(courier)
     /\ UNCHANGED <<redis, local, click, crashes, expiries>>

\* append_inbox_spool, atomic and idempotent by id.
AppendSpool ==
  /\ courier.pc = "append"
  /\ spool' = IF courier.record.id \in Ids(spool) THEN spool ELSE Append(spool, courier.record)
  /\ courier' = [courier EXCEPT !.pc = "ack"]
  /\ UNCHANGED <<redis, recovery, outbox, state, generation, actor, click, crashes, expiries>>

\* Mutant: one record more than the limit.
AckOffByOne ==
  LET q == courier.queue
  IN /\ courier.pc = "ack"
     /\ IF lease[q] = "held"
        THEN /\ queue' = [queue EXCEPT ![q] = RemoveFirst(@, courier.record)]
             /\ lease' = [lease EXCEPT ![q] = "free"]
        ELSE UNCHANGED <<queue, lease>>
     /\ courier' = IF courier.index < Limit
                   THEN [courier EXCEPT !.pc = "claim", !.index = @ + 1, !.record = None]
                   ELSE NextQueue(courier)
     /\ UNCHANGED <<marked, reserved, published, local, click, crashes, expiries>>

\* Only a lease that is still this courier's lets it remove the record.
Ack ==
  LET q == courier.queue
  IN /\ courier.pc = "ack"
     /\ IF lease[q] = "held"
        THEN /\ queue' = [queue EXCEPT ![q] = RemoveFirst(@, courier.record)]
             /\ lease' = [lease EXCEPT ![q] = "free"]
        ELSE UNCHANGED <<queue, lease>>
     /\ courier' = IF courier.index + 1 < Limit
                   THEN [courier EXCEPT !.pc = "claim", !.index = @ + 1, !.record = None]
                   ELSE NextQueue(courier)
     /\ UNCHANGED <<marked, reserved, published, local, click, crashes, expiries>>

\* A pull that dies, is timed out, or sees a command fail, leaves its lease.
PullDies ==
  /\ courier.pc # "idle" /\ crashes < MaxCrashes
  /\ courier' = [pc |-> "idle", queue |-> "suggestion", index |-> 0, record |-> None]
  /\ lease' = [q \in Queues |-> IF lease[q] = "held" THEN "stale" ELSE lease[q]]
  /\ crashes' = crashes + 1
  /\ UNCHANGED <<queue, marked, reserved, published, local, click, expiries>>

\* A stale lease expires by itself; so may, once in a while, one that is held.
LeaseExpires(q) ==
  /\ lease[q] # "free"
  /\ lease[q] = "held" => expiries < MaxExpiries
  /\ expiries' = IF lease[q] = "held" THEN expiries + 1 ELSE expiries
  /\ lease' = [lease EXCEPT ![q] = "free"]
  /\ UNCHANGED <<queue, marked, reserved, published, local, courier, click, crashes>>

\* collab_sync.py push, best effort: it may be skipped.
Push ==
  /\ courier.pc = "idle" /\ published # outbox
  /\ published' = outbox
  /\ UNCHANGED <<queue, lease, marked, reserved, local, courier, click, crashes, expiries>>

-----------------------------------------------------------------------------
(* The loop *)

\* _apply_moderation: a command settles its target while that is still open.
Settles(r, row, from) == row.id = r.target /\ row.status = from
Answer(r, rows) ==
  [i \in DOMAIN rows |-> IF Settles(r, rows[i], "awaiting_iso")
                         THEN [rows[i] EXCEPT !.status = "answered", !.answer = r.verdict]
                         ELSE rows[i]]

\* Mutant: a dismissed suggestion can still be decided.
ModeratedTwice(c, r) ==
  [c EXCEPT
    !.suggestions = [i \in DOMAIN @ |->
        IF Settles(r, @[i], "pending_review") \/ Settles(r, @[i], "dismissed")
        THEN [@[i] EXCEPT !.status = r.verdict] ELSE @[i]],
    !.asks = Answer(r, @)]

Moderated(c, r) ==
  [c EXCEPT
    !.suggestions = [i \in DOMAIN @ |->
        IF Settles(r, @[i], "pending_review")
        THEN [@[i] EXCEPT !.status = r.verdict] ELSE @[i]],
    !.asks = Answer(r, @)]

\* import_inbox_spool: what is new in the spool, in spool order.  A record is
\* processed once, whether or not it had any effect.
ImportOne(c, r) ==
  LET d == IF r.target # None THEN Moderated(c, r)
           ELSE [c EXCEPT !.suggestions = Append(@, [id |-> r.id, requester |-> None,
                                                     status |-> "pending_review", answer |-> None])]
  IN IF r.id \in c.processed THEN c ELSE [d EXCEPT !.processed = @ \cup {r.id}]

\* A run without a row takes over the backup, if that is of the same run.
Blank(c) == \A rows \in {c.suggestions, c.asks, c.research, c.deliveries} : rows = <<>>

\* Mutant: the backup of any run will do.
OwnBackupOfAnyRun == recovery # None

OwnBackup ==
  /\ recovery # None
  /\ IF generation = None THEN state.processed = {} ELSE recovery.run = generation.run

\* (A state of another run than the seed's would be dropped first; TurnStore
\* shows that an archive leaves none.)
Restored == IF Blank(state) /\ OwnBackup THEN recovery ELSE state

Base == IF generation = None THEN Restored
        ELSE [Restored EXCEPT !.processed = @ \cup generation.processed]

\* The state after the first n records of the spool.
imported[n \in 0..Len(spool)] ==
  IF n = 0 THEN Base ELSE ImportOne(imported[n - 1], spool[n])
Imported == imported[Len(spool)]

\* Mutant: the latest first.
Newest(S) == CHOOSE i \in S : \A j \in S : i >= j

Oldest(S) == CHOOSE i \in S : \A j \in S : i <= j

\* process_one_research: the oldest queued request is answered (with findings,
\* or with word that there are none), or becomes a question to the human.
Researched(c) ==
  LET waiting == {i \in DOMAIN c.research : c.research[i].status = "queued"}
      i == Oldest(waiting)
  IN IF waiting = {} THEN {c}
     ELSE {[c EXCEPT !.research[i].status = "answered"],
           [c EXCEPT !.research[i].status = "escalated_to_iso",
                     !.asks = Append(@, [id |-> c.research[i].id, requester |-> c.research[i].requester,
                                         status |-> "awaiting_iso", answer |-> None])]}

\* deliver_one, for each kind in turn: the oldest reply the agent may have.
Eligible(rows, status, agent) ==
  {i \in DOMAIN rows : rows[i].status = status /\ rows[i].requester \in {agent, None}}

\* Mutant: the delivered record keeps its status.
DeliveredAgain(c, agent) ==
  LET s == Eligible(c.suggestions, "approved", agent)
  IN IF s = {} THEN c
     ELSE [c EXCEPT !.deliveries = Append(@, [id |-> c.suggestions[Oldest(s)].id, agent |-> agent])]

\* Mutant: suggestions go first.
DeliveredSuggestionFirst(c, agent) ==
  LET r == Eligible(c.research, "answered", agent)
      a == Eligible(c.asks, "answered", agent)
      s == Eligible(c.suggestions, "approved", agent)
  IN IF s # {} THEN [c EXCEPT !.suggestions[Oldest(s)].status = "delivered",
                              !.deliveries = Append(@, [id |-> c.suggestions[Oldest(s)].id, agent |-> agent])]
     ELSE IF r # {} THEN [c EXCEPT !.research[Oldest(r)].status = "delivered",
                                   !.deliveries = Append(@, [id |-> c.research[Oldest(r)].id, agent |-> agent])]
     ELSE IF a # {} THEN [c EXCEPT !.asks[Oldest(a)].status = "delivered",
                                   !.deliveries = Append(@, [id |-> c.asks[Oldest(a)].id, agent |-> agent])]
     ELSE c

Delivered(c, agent) ==
  LET r == Eligible(c.research, "answered", agent)
      a == Eligible(c.asks, "answered", agent)
      s == Eligible(c.suggestions, "approved", agent)
  IN IF r # {} THEN [c EXCEPT !.research[Oldest(r)].status = "delivered",
                              !.deliveries = Append(@, [id |-> c.research[Oldest(r)].id, agent |-> agent])]
     ELSE IF a # {} THEN [c EXCEPT !.asks[Oldest(a)].status = "delivered",
                                   !.deliveries = Append(@, [id |-> c.asks[Oldest(a)].id, agent |-> agent])]
     ELSE IF s # {} THEN [c EXCEPT !.suggestions[Oldest(s)].status = "delivered",
                                   !.deliveries = Append(@, [id |-> c.suggestions[Oldest(s)].id, agent |-> agent])]
     ELSE c

\* A new request; its id is of its turn, so new in its run.
Requested(c, agent, id) ==
  IF id = None THEN c
  ELSE IF id \in Questions
  THEN [c EXCEPT !.asks = Append(@, [id |-> id, requester |-> agent, status |-> "awaiting_iso", answer |-> None])]
  ELSE [c EXCEPT !.research = Append(@, [id |-> id, requester |-> agent, status |-> "queued", answer |-> None])]

\* What one turn may raise: a question, a lookup and a web search, or fewer.
Unused == AskIds \ (Ids(state.asks) \cup Ids(state.research))
Requests ==
  {r \in [ask : {None} \cup (Unused \cap Questions),
           lookup : {None} \cup (Unused \ Questions),
           search : {None} \cup (Unused \ Questions)] : r.lookup = r.search => r.lookup = None}

Raised(c, agent, r) ==
  Requested(Requested(Requested(c, agent, r.ask), agent, r.lookup), agent, r.search)

\* What a valid turn of the agent makes of c.
Heard(c, agent) == {Raised(Delivered(c, agent), agent, r) : r \in Requests}

\* The turn is committed and published, and the other agent is next.
Spoken(agent) ==
  /\ courier.pc = "idle" /\ actor = agent
  /\ outbox' = state'
  /\ actor' = IF agent = "A" THEN "B" ELSE "A"
  /\ UNCHANGED <<redis, spool, recovery, generation, courier, click, crashes, expiries>>

\* A valid agent turn; its motion may be refused.
AgentTurn(agent) ==
  /\ \E c \in Researched(Imported) : state' \in Heard(c, agent)
  /\ Spoken(agent)

\* Mutant: a turn that could not be understood keeps its delivery.
QuietTurnDelivers ==
  /\ courier.pc = "idle"
  /\ \E c \in Researched(Imported) : state' = Delivered(c, actor)
  /\ outbox' = state'
  /\ UNCHANGED <<redis, spool, recovery, generation, actor, courier, click, crashes, expiries>>

\* An exam, or an agent turn without a valid reply: the delivery is undone and
\* the same agent speaks next.
QuietTurn ==
  /\ courier.pc = "idle"
  /\ state' \in Researched(Imported)
  /\ outbox' = state'
  /\ UNCHANGED <<redis, spool, recovery, generation, actor, courier, click, crashes, expiries>>

\* A turn that dies after its import was saved: projections are of its start.
TurnDies ==
  /\ courier.pc = "idle" /\ crashes < MaxCrashes
  /\ state' = Imported /\ outbox' = state
  /\ crashes' = crashes + 1
  /\ UNCHANGED <<redis, spool, recovery, generation, actor, courier, click, expiries>>

\* loop.py --archive: the run and its transport are retired together, and the
\* new run is seeded with every id they knew.  Redis is left as it is.
Known(c) == c.processed \cup UNION {Ids(rows) : rows \in {c.suggestions, c.asks, c.research}}
Archive ==
  LET copies == {state, outbox} \cup ({recovery, generation} \ {None})
      seed == [Empty EXCEPT !.run = state.run + 1,
                            !.processed = Ids(spool) \cup UNION {Known(c) : c \in copies}]
  IN /\ courier.pc = "idle" /\ state.run < MaxArchives
     /\ state' = seed /\ outbox' = seed /\ generation' = seed /\ recovery' = seed
     /\ spool' = <<>> /\ actor' = "A"
     /\ UNCHANGED <<redis, courier, click, crashes, expiries>>

-----------------------------------------------------------------------------

\* Everything but the agents' valid turns.
Lane ==
  \/ \E s \in Suggestions : Submit(s)
  \/ \E k \in Clicks : \/ \E t \in Targets, v \in Decisions \cup Answers : Reserve(k, t, v)
                       \/ ReadState(k) \/ ReadSuggestions(k) \/ ReadModerations(k) \/ Command(k)
  \/ \E t \in Targets : ReservationExpires(t)
  \/ StartPull \/ Claim \/ ClaimNothing \/ AppendSpool \/ Ack \/ PullDies
  \/ \E q \in Queues : LeaseExpires(q)
  \/ Push
  \/ QuietTurn \/ TurnDies \/ Archive

Next == Lane \/ \E agent \in {"A", "B"} : AgentTurn(agent)

Spec == Init /\ [][Next]_vars

-----------------------------------------------------------------------------
(* Properties *)

Distinct(rows) == \A i, j \in DOMAIN rows : rows[i].id = rows[j].id => i = j

\* Every variable holds a value of its kind.
TypeOK ==
  /\ queue \in [Queues -> Seq(Record)] /\ lease \in [Queues -> {"free", "held", "stale"}]
  /\ marked \subseteq Suggestions \cup Clicks
  /\ reserved \in [Targets -> Decisions \cup Answers \cup {None}]
  /\ spool \in Seq(Record) /\ actor \in {"A", "B"}
  /\ \A c \in {state, outbox, published} \cup ({recovery, generation} \ {None}) : c \in Copy
  /\ courier \in [pc : {"idle", "claim", "append", "ack"}, queue : Queues, index : 0..Limit-1,
                   record : Record \cup {None}]
  /\ click \in [Clicks -> [pc : {"unused", "state", "suggestions", "moderations", "open",
                                 "accepted", "refused"},
                           target : Targets \cup {None}, verdict : Decisions \cup Answers \cup {None},
                           view : {"missing", "open", "closed"}, run : 0..MaxArchives]]
  /\ crashes \in 0..MaxCrashes /\ expiries \in 0..MaxExpiries

\* What was accepted for a queue is neither lost nor revived, whichever courier
\* dies where, whichever lease runs out and whenever the run is archived.  Until
\* the loop has processed it, it is in the spool or in its queue; and a retired
\* run's suggestion never comes back into the new run, neither as a late
\* duplicate nor out of its backup (RedisRest.claim and ack, append_inbox_spool,
\* archive, import_inbox_spool).
NothingLostOrRevived ==
  /\ \A id \in marked : \/ id \in Ids(spool) \cup state.processed
                        \/ \E q \in Queues : id \in Ids(queue[q])
  /\ generation # None => Ids(state.suggestions) \cap generation.processed = {}

\* However often a record is claimed, spooled and imported, it becomes one row,
\* and a reply is delivered at most once: the rows marked delivered are those
\* in the delivery record (processed_inbox_ids, deliver_one).
DeliveredOnce ==
  /\ Distinct(state.suggestions) /\ Distinct(state.asks) /\ Distinct(state.deliveries)
  /\ Ids(state.deliveries) =
       {t \in Targets : \E rows \in {state.suggestions, state.asks, state.research} :
                           StatusIn(rows, t) = "delivered"}

\* The first decision stands as long as its run: one that arrives later, past
\* an expired reservation and a stale published state, changes nothing
\* (_apply_moderation).
DecisionStands ==
  [][state'.run = state.run =>
       /\ \A i \in DOMAIN state.suggestions :
            LET was == state.suggestions[i].status  now == state'.suggestions[i].status
            IN was # "pending_review" => now = was \/ (was = "approved" /\ now = "delivered")
       /\ \A i \in DOMAIN state.asks :
            state.asks[i].answer # None => state'.asks[i].answer = state.asks[i].answer]_vars

\* A reply is used up only by a turn in which its agent was understood: exams,
\* structural failures and crashes give it back (take_turn).
RepliesNotWasted ==
  [][\A i \in DOMAIN state'.deliveries \ DOMAIN state.deliveries :
       actor = state'.deliveries[i].agent /\ actor' # actor]_vars

\* What test_collaboration_inbox.py says: an approval is applied.
ModerationApplied ==
  \A k \in state.processed \cap Clicks :
    StatusIn(state.suggestions, click[k].target) # "pending_review"

\* "The requesting agent receives the original question and answer together"
\* (README.md): a question holds an answer only if the reviewer, when he gave
\* it, was looking at that question, which is one of this run.
AnswersItsQuestion ==
  \A i \in DOMAIN state.asks : state.asks[i].answer # None =>
    \E k \in state.processed \cap Clicks :
      /\ click[k].target = state.asks[i].id /\ click[k].verdict = state.asks[i].answer
      /\ click[k].run = state.run
=============================================================================
