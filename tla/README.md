# A language of their own: verified models

Two language-model agents, A (the inventor) and B (the auditor), legislate a
language in turns. `run_turn.sh` runs a turn of `loop.py` on a timer; every few
turns an exam tests the language instead. The state lives in a handful of JSON
files; visitors and a reviewer act through serverless handlers and Redis queues
which a courier brings to the loop; every provider request costs money from a
capped allowance.

The modules here model the parts of that program that keep state which another
step, process or run relies on. TLC checks them on small instances; TLAPS proves
the main invariants for all values of the constants.

## 1. The system

| Component | State | Operations | What must hold |
|---|---|---|---|
| Turn persistence (`turn_store.py`) | `conversation`, `rulebook`, `meta`, `collaboration`, `conversations` JSON, the derived exam trace, the redo records `turn-commit.local.json` and `turn-archive.local.json`, the writer lock, the archives | load, commit, archive, recovery of either record | never a torn turn; runs stay apart; recovery ends |
| Turn runner (`loop.py`) | `meta` (turn, last agent, exam cursor, cost), the notice mailbox | recover, begin a turn, exam or agent turn, commit, publish, archive | a notice is told once; exams every third turn |
| Legislature (`legislature.py`, `rulebook.py`, `legislative_protocol.py`) | rules with their status, post-state receipts, the semantic fault ledger derived from the conversation | PROPOSE, REPEAL, REVISE (A); ADOPT, REJECT, REQUEST (B); refusal, structural failure | one motion at a time; law changes by vote only; a fault keeps its repair |
| Development exam (`exam_evidence.py`) | the suite's cursor, the results | take a benchmark, encode, decode, judge, record | only an exam resolves a fault; its receipts cannot stop it |
| Web handlers (`viewer/api`) | Redis queues, markers, reservations, the published copy | suggest, decide, answer | what was accepted arrives; a refusal changes nothing |
| Courier (`collab_sync.py`) | leases, `collaboration-inbox.json` | pull (claim, append, ack), push | nothing is lost or doubled by a death or an expired lease |
| Loop side of collaboration (`collaboration.py`) | `collaboration.json`: suggestions, asks, research, processed ids, deliveries | import, moderate, research, deliver one reply a turn | the reviewer decides; each reply is delivered once; what may starve, and behind what |
| Provider budget (`local_cleanup.py`, `runtime_session.py`) | the receipt file of the session: used, stopped, attempts | reserve, dispatch, settle, reconcile | charges within the allowance |
| Cost receipts (`loop.py`) | `cost-receipts.local.json`, `meta.spend_*` | configure, record, check the cap | each response counted once |
| Automatic cleanup (`loop.py` 648-918 and the cleanup modules) | `meta.automatic_cleanup`: baseline, last attempt, quarantine, seeds owed; the replay directory of paid answers | draft, repair, audit, decide, examine, apply, quarantine, reset | applied between motions, after audit and exams; nothing paid twice; a quarantine holds; no seeds lost |
| X delivery (`tweet.py`) | `tweet-state.json`: deliveries with attempts and status, notes posted, the day's count | bootstrap, reserve, send, poll, confirm, mark | nothing public twice; attempts bounded; no confirmation without a receipt |
| Public exam progress (`public_exam_progress.py`) | `public-exam-progress.local.json` while an exam runs; the trace that is saved with the turn and then published | advance, fail, publish | a trace is that of the exam in the archive |
| Turn script and Git (`run_turn.sh`) | the checkout, its commits, `main` | recover, record, pull, push, turn, record, push | whole commits, none skipped; it always gets going again |
| Public snapshot (`loop.py` 1175, `public_snapshot.py`) | three JSON projections, `preview.json`, `bootstrap.js`, `state.js` | rebuild, file by file | a mixture is never committed |
| Public reader (`viewer/public-state.js`) | the view and its source, its pinned revision, the refresh and request in flight | refresh, fall back, poll | no older or partial view after a whole one; a trace beside its own archive |

How they interact: `run_turn.sh` runs `loop.py --recover`, then the courier's
pull, then a turn, then the push. It holds no lock itself: runner, archiver and
courier exclude each other by the flock of the turn store (`turn_store.py` 84); the web handlers
and the operator who writes the notice mailbox hold no lock. The courier and the
handlers share Redis; the courier and the loop share the spool and the outbox.
The public record of the experiment is the repository's `main` branch: the script
commits what the loop generated, people push notes and code to the same branch,
and a visitor's browser reads revisions of it. The legislature reads the exam's events out of the conversation; the cleanup
replaces the rules the legislature keeps; the receipts are retired with the run
by the archive.

What is hard: a process may be killed between any two file operations or Redis
commands; a lease may expire under a live courier; the reviewer's handler
decides on three reads that are not atomic; a provider may charge for an answer
that never arrives; a motion can be requested, revised, and overtaken by exams
and cleanups over many turns; the script stops at its first failure, with pages
half written or commits unpushed; a visitor's requests overlap and are answered in
any order. `PROJECT.json` lists each of these hazards at its
line with the property that covers it.

## 2. The modules

| Module | Models | Composes with |
|---|---|---|
| `AtomicTurns` | what the turn store promises: whole turns, whole archives, no files and no crashes | implemented by `TurnStore` |
| `TurnStore` | `turn_store.py`, the order of a turn in `loop.py`, the courier's append, the operator | |
| `Docket` | what the protocol promises: alternation, one motion, the request in force | implemented by `Legislature` |
| `Legislature` | motions, receipts, faults, exams, cleanup cutover | |
| `Collaboration` | handlers, Redis, courier, loop | a turn is one step, which `TurnStore` justifies |
| `Replies` | who gets a turn's one reply, over endless requests | the requests, research and delivery of `Collaboration` |
| `Spending` | budget and receipts under crashes, archives and reconciliation | the fate of `meta` and receipts is that of `TurnStore` |
| `Cleanup` | the automatic cleanup: threshold, requests, replay, quarantine, seeds | a commit is one step, which `TurnStore` justifies; what the cutover does to motions and faults is in `Legislature` |
| `Tweets` | the hourly publisher against a posting service that loses answers | |
| `PublicRecord` | what the public repository promises its readers: whole commits that only go forward | implemented by `Publisher`, read by `PublicReader` |
| `ExamTrace` | one exam's phases and the writer of its public receipts | used by `Publisher` |
| `Publisher` | `run_turn.sh`, publication, Git, others who push, the archive | a turn is saved in one step, which `TurnStore` justifies |
| `PublicReader` | the visitor's page: overlapping refreshes, fallbacks, progress | over a log that grows as `PublicRecord` says |
| `*_proofs` | theorems about each of the eight modules above that have a `Spec` of their own | section 4 |
| `MC*` | values for TLC | |

`PROJECT.json` maps each definition to its lines. Operators commented "Mutant"
are wrong variants of the definition they precede, one plausible bug each; they
take no part in a specification and show that a property can fail.

### TurnStore

A canonical file is a stamp `[run, turn]`: the run and the turn of the state it
was written from. Two files agree exactly when their stamps do, which is all the
store's correctness is about. `seen` is kept apart because the runner saves
`collaboration.json` early, before the turn commits (`loop.py` 1231).

`Enter` takes the lock. `pc` follows its holder: `recover` (finish a staged
archive or turn), `loaded`, `ready`, `turn` (the notice has been read), `write`
(the redo record is staged and files are written one a step, in the order of the
dictionary), `replay` (the same from the record, which is sorted), `move` and
`seed` (an archive). `Crash` drops the holder and its memory at any point and
leaves all files. The operator's `PostNotice` happens at any time.

`ImplementsAtomicTurns` is a refinement with the commit point at the staging of
the redo record. The mailbox holds text rather than messages, so a notice with
the very text just delivered may be removed as if it had been; `AtomicTurns`
says so (`PostAgain`, `Absorb`) instead of hiding it.

Not modelled: unreadable records, missing fsync, a full disk. File replacement
is atomic, as `state_store.py` makes it.

### Legislature

A rule's id is its position in `rules`; the code's ids grow the same way. The
fault ledger, in the code a fold over the whole conversation, advances by one
step per event. Agents are nondeterministic: each action is one motion an agent
can make in the state it is in. Schema validation (blank stripping, minimal
lengths) makes several refusals of `rulebook.py` unreachable; those that remain
are A's motion under an open one and a duplicate proposal (`RefusedMotion`). B
must vote if a motion is open and its validated votes are always accepted. A must
propose a repair when a fault is required of it. The frozen suite makes drift of
its answer key impossible. Runs begin after the cutover to semantic faults.
A cleanup's candidate is one rule; its admission is the subject of `Cleanup`.

`Docket` keeps no receipts: `focus` is simply the turn of the latest request
about the motion on the floor. That the code finds the same request again by
searching its receipts backwards, past settled motions about the same rule, is
what `ImplementsDocket` checks.

### Collaboration

Every Redis command is a step of its own: reservation, the three reads of
`privateRecords`, enqueue (marker and push are one script), claim, ack. The
viewer makes a new idempotency key for every click (`viewer/human.html` 33), so
clicks are distinct. The courier's pull and the loop's turn exclude each other.
A pull that dies leaves a `stale` lease, which expires; so may a `held` one, and
then the ack does nothing. `AgentTurn` imports the spool, resolves one research
request, delivers one reply by priority and may raise up to three requests, one of each
kind (`Heard`); `QuietTurn` is
an exam or an agent that was not understood, whose delivery is undone;
`TurnDies` keeps only the early save of the import.

`Archive` retires the run with its transport in one step (`TurnStore` shows that a
crash cannot tear it) and seeds the next one with every id the local files know;
Redis keeps its queues, reservations and the old run's published state. Each
`StartPull` copies that state into the spool (`recovery`), and `Imported` lets a run
without rows adopt it only if it is of its own generation. `NothingLostOrRevived`
says that queued records survive all this and that the old run's suggestions do not.
The run a reviewer was looking at (`click.run`) is history, for `AnswersItsQuestion`.

Abstractions: the three outcomes of research that come back to the agent are one
("answered"); a delivered suggestion's later outcome is not distinguished from
"delivered"; an id of a question stands for one of its turn and agent, so it is new in
its run and may come again in the next; retries with the same key, sessions, rate
limits and a lost disk are left out.

### Replies

`Collaboration` has finitely many ids, and each names one request, so there every
competition for a turn ends. `Replies` reuses its research, delivery and requests
(`Researched`, `Delivered`, `Raised`) for a run without end: a row that is settled is
forgotten (`Forgotten`), since no turn looks at it again, and its id names a new request,
question or suggestion later. Only the number of those open at a time is bounded. The
way of a record from the handler to the import is one step (`Imports`); no deaths and
no archives.

Research goes before answers, answers before suggestions (`legislature.py` 446-448). With
agents that keep raising lookups, an answer or a suggestion waits for ever (section 5). What
does hold needs no assumption on the agents for
research (`ResearchArrives`), and for the lower kinds only that some turns have nothing
that goes before (`OnlyEarlierKindsDelay`): nothing of their own kind, and nothing that
comes after them, can starve them.

### Spending

`budget` is the session's receipt file, which outlives runs and processes;
`ledger` and `saved` belong to the run. `Dispatch` reserves and marks the session
stopped on disk before the request leaves; `Answered`, `AnsweredError`, `Lose`
and `Rejected` are its outcomes; `Reconcile` is the operator's release of a proven
rejection. `charged`, `overrun`, `heard` and `earned` say what really happened and
are read by properties only. The provider may answer with an id it has used
before. A lost answer inside a cleanup is survived by the cleanup, but the
transport is stopped then and the turn's own calls are refused, so the model ends
the process. Amounts are natural numbers; rounding of floats is not modelled, and
neither is a runner without a session (it has no allowance).

### Cleanup

`disk` is the committed turn and `mem` the one being worked on; a language is a
value with a size (`Tokens`), since nothing else about it steers the cleanup. A
process enters a turn (`Start` or after `Commit`), skips the cleanup or begins an
`Attempt`, and asks one request at a time: `job.stage` says which. `Reuse` takes
an answer from the replay directory; `Buy` pays for one and `Save` writes it, in
two steps, because a death between them is what costs money again. Either answer may
then be refused, since the attempt's spend limit is checked around both
(`HearWithinBudget`, `verified_cleanup.py` 59-68). `AfterC`,
`AfterB` and `AfterExam` are the outcomes of an answer: next request, one repair
per phase, failure, quarantine or application. `Conclude` changes the turn in
memory and `Commit` the disk. A new edition may be deployed at any time
(`run_turn.sh` pulls the code) and is used by the next process; the operator
resets between turns.

That each request contains the answers before it is used: its place in the
sequence names it, for one rulebook and edition. The replay directory is emptied
(`Forget`) when either changes. Exams do not look at `finish_reason`, so an
incomplete answer may pass one; it is not saved, so a redone turn asks again and
may then fail. `Admitted` is therefore about the attempt that is being applied,
and `DecisionStands` about the languages ever applied for one rulebook.

Abstractions: the several calls of one exam are one answer; the attempt's own
spend limit is one of the reasons for `none` and `unfit`; the sizes of the draft
and of the applied book are one measurement; editions are only ever
replaced by new ones, so a roll-back, after which a directory of an earlier edition would be
found again and an edition that was barred might run, is not modelled; a runner without a session, which has no
replay, is left out, and so are the resumed draft of `verified_cleanup.py` and the
operator's bundle tool in `cleanup_rulebook.py`.

### Tweets

An item is a rule event (adopted, rejected, historical) or a note; a key names its
delivery row, the idempotency key of its requests. `rows` and the other file
variables are `tweet-state.json`, written between any two steps; `service` is what
the posting service has of a key, possibly `late` (the request is still in the
network) or `queued`. A run either only records what is there (`Bootstrap`),
finishes what a dead run left (`Finalize`), does nothing (`Quiet`), or reserves one
of the day's slots and then polls, prepares, sends, hears and marks; `Crash` may
come between any two. The rulebook changes meanwhile, and with it the text of a
pending post (`Text` counts the rules in force), which is why a row is found by its
item rather than its text. Days are known only by "is it today".

That the service posts one idempotency key at most once is assumed. Not modelled:
the dry mode without credentials, the text limit, `tweets_sent` and
`blocked_count`, which nothing reads.

### ExamTrace and Publisher

`ExamTrace` is an exam as its public receipts tell it. `at` is where the exam is and
`writer` the writer's last accepted phase; `Report` is `publish_progress`: a receipt
that is refused or cannot be written loses the writer (`"lost"`) and never the exam.
`verdict` stands between "judge started" and the judgment: the judge's two tries and
the evidence rules decide between `JudgedValid` and `JudgedInvalid`. An attempt is
numbered (`tries`), because a turn whose process died is examined again under the
same `run_id`.

`Publisher` follows `run_turn.sh` command by command (`pc`), and inside the three
calls of `publish_turn` file by file (`next`): `recover` (`loop.py --recover`),
`record`, `pull`, `push`, `load` (the rebuilding at the start of `--turns 1`),
`turn`/`exam`, `publish`, `record_turn`, `push_turn`. `saved` is the canonical state
and the durable trace of the turn store, `page` and `shown` are the generated files,
`main` the commits of the remote branch, `ahead` those made here and not yet there,
`base` the length of `main` when it was last fetched. What a commit holds is what
`git add` of the listed paths finds (`Snapshot`). `set -e` is why every failure leads
to `idle`; `Die` is a failure or a kill anywhere, which may leave `bootstrap.js` or
`state.js` torn, the two files that are not replaced atomically. `OthersPush` changes
`notes.json`, which the pages quote, so a pull makes the pages stale until the next
rebuild. The refinement maps a commit to what a reader makes of it (`Seen`): its
trace counts as that of its exam only if the archive in the same commit holds that
very attempt.

Abstractions: an edition stands for the content of a file; the files named
`public-*.json` of one publication are one; a rebase is one step (the script clears
what a killed one leaves) and cannot conflict, since others do not touch the loop's
files; the courier's calls, which cannot fail the script, are in `Collaboration`.

### PublicReader

`Slots` are refreshes that run at the same time; a slot's `stage` is the request it
waits for, and each answer is one step, so answers come late and in any order.
`newest` is the slot whose token equals `sequence`. `view` is `current` with its
source, `pinned` the commit in `revision`; `poll` is the progress request whose
number is `progressSequence`, and `live` whether the revision object it was sent for
is still the view's. A read of a pinned revision gets that commit; a read of raw
`main` or of the deployed site may get any commit there ever was, because both are
cached copies. Any request may fail, which a malformed answer is too.

A snapshot is the commit it comes from; what is rendered, the date beside a turn, the
local mode of development and the playback of a trace are left out. The page's
snapshot at start-up is the `deployed` view `Start` may show. The notes of a pinned view
are those of the commit's `notes.json` if they could be read, else the page's; this is
left open where the view is compared with a preview (`ViewSignals`).

## 3. The runs

| Run | Shows |
|---|---|
| `turn_store` | no torn turn, runs apart, archived originals kept, inputs imported once, recovery ends, refinement of `AtomicTurns` |
| `legislature` | repairs stay with their motion, faults are resolved by exams, law changes by vote or cleanup, refinement of `Docket` |
| `collaboration` | nothing lost, nothing of a retired run revived, a decision stands, a reply is delivered once and not wasted |
| `replies` | research arrives; answers wait only behind research, suggestions only behind replies |
| `collaboration_reordered` | *violation*: an approval that overtakes its suggestion is lost |
| `collaboration_reused` | *violation*: an answer to a retired run's question is given to the new run's question of the same id |
| `spending` | allowance, receipts, no lockout |
| `cleanup` | answers paid once over redone turns, one decision, no book without audit and exams, quarantines hold, seeds kept |
| `tweets` | nothing public twice or confirmed unseen, attempts bounded, notes settle |
| `publisher` | refinement of `PublicRecord`: whole commits, none skipped, traces of archived exams; saved turns become public |
| `publisher_archive` | *violation*: after an archive the script never runs a turn again |
| `reader` | no older or partial view after a whole one, a trace beside its own archive, the newest commit whole with its trace again and again |

Bounds, and why they suffice:

- `turn_store`: two turns with an exam on the second, so a commit with and
  without a trace; two texts, so a notice can be replaced by a different one or
  posted twice; one archive; two crashes, so every interrupted commit or archive
  is interrupted once more inside its recovery. About a million states.
- `legislature`: two atoms in two benchmarks, so one can fail while the other is
  under repair and the cursor wraps; ten turns with an exam every second turn
  (the code's every third) fit fail, repair, adopt, retest and fail again; two
  rules, so a rule is repealed while another one stands, and put up for repeal
  twice.
  The turn bound ends the model, so its cfg does not check deadlock. The others do.
- `collaboration`: a limit of one (the code's is four) makes two moderations a
  backlog; two clicks contradict each other; one death and one expiry give a second
  claim of the same record; an archive at any time between pulls, so a record is
  retired while it is queued, spooled or imported, and the old backup and a late
  duplicate reach the new run. Its only replies are suggestions; that answers and
  research are delivered once and not wasted either is proved (section 4), and `replies`
  has all three. Symmetry only here, where nothing temporal with
  fairness is checked.
- `replies`: a question, two lookups, two suggestions and a decision open at a time. Two
  lookups are what it takes for one of them to be ready at every turn of an agent while
  the other is raised; a question beside them, or one of them escalated, is an answer
  that waits; two suggestions compete with each other.
- `collaboration_reordered`, `collaboration_reused`: two suggestions and an approval;
  one question, one answer and one archive, with no faults.
- `spending`: five attempts, reservations of one and three, a response that fits
  the smaller one and one that exceeds it, so overruns, reconciliations and
  refusals at the limit all happen, and run spending can pass the cap.
- `cleanup`: sizes 8, 10 and 12 with growth of 10% and a ceiling of 10: the
  middle one is due after the small one and the large one after either, a
  cleanup can shrink twice, and the large one is over the ceiling. Four requests
  of C are the code's limit, so both repairs happen. One exam stands for the
  suite (the code's rule is the same for each), every second turn is an exam
  turn. Two editions allow one reset by review. One death redoes one turn, which
  is all that replay is about.
- `tweets`: two rules whose statuses change, one note, two rows that an older
  version left for one item; two attempts (the code's are three), so there is a
  first, a last and a blocked one; one slot a day, so the slots bind; one death.
- `publisher`: an exam every second turn (the code's every third) and four turns, so
  one exam's trace is replaced by another's and each kind of turn follows each; two
  faults, so recovery is itself interrupted; one note pushed by others, before or
  after each fetch; one archive, after which the other properties ask nothing.
  `publisher_archive` has no faults and no notes: the script is alone.
- `reader`: an old and a new commit of main, which may be a turn or only a note, so
  a read can be of the newest, of an older one of the same turn or of an older turn;
  two refreshes at a time (a third would only be another loser); every turn an exam,
  so traces differ from commit to commit. The revision API is never behind
  (`HeadLag = 0`, see section 5).

### Fairness

`TurnStore`: weak fairness of the runner's entry while the lock is free and of
the steps of whoever holds it, as one condition, for the two are never enabled
together. The timer keeps starting `run_turn.sh` ("every 15 minutes", its line 2),
whose first command is `loop.py --recover` (line 27), and a process which is not
killed runs on. Crashes are bounded, so
recovery gets its chance; nothing is assumed of operator, archiver or courier.

`Replies`: weak fairness of a valid turn of each agent; the courier is not there to
disable it, and an agent that was not understood speaks again. Nothing is assumed of what
the agents raise, nor of visitors and reviewer. `Collaboration` has no liveness property:
that what is queued is imported some day rests on Redis expiring the leases of dead
couriers (`collaboration.py` 76) and on the timer.

`Tweets`: weak fairness of the run (`language-x.timer` starts it every hour) and of
the calendar; the service settles what it has queued, and its answer to a poll is
definite infinitely often if it is asked infinitely often. Without the last two,
a post could stay pending for ever, which no client can help.

`Publisher`: weak fairness of the script and its timer together (`run_turn.sh` 2), which
includes that a turn that is started ends; faults and notes of others are bounded, so
that a push is not lost to a race for ever.

`PublicReader`: the page's timers fire (`index.html` 1290-1291) and requests end, well
or badly; if the newest refresh waits for the same answer infinitely often, it gets it
infinitely often, and likewise the progress request. That is an assumption about
networks and about time which the code needs: refreshes that always take more than a
minute are all overtaken, and then nothing is ever shown.

`Legislature`, `Spending` and `Cleanup` have no liveness property: whether the agents ever
agree, or the provider ever answers, is not the program's doing.

## 4. What is proved

For all values of the constants, from the named assumptions of each module
(positive cadence and limits, natural amounts, `None` outside the other sets).
TLC evaluates the assumptions in every run.

`TurnStore_proofs`: `TypeCorrect`, `NoTornTurn` (`FilesAgree`), `NoTornMemory`
(`MemoryWhole`), `ArchivesAreWhole` (`RunsApart`), `InputsImportedOnce`
(`ImportedOnce`), `ArchivesAreKept` (`ArchiveKept`). None of the invariants is
inductive alone. The strengthening says, of every phase, which files may
already differ and why the redo record will bring them back: with a commit
staged, each file that is not the record's is still to be written; with an
archive staged, each file is either in its place or in the archive, seeds come
only after all moves, and the two records are never both there.

`Legislature_proofs`: `TypeCorrect`, `RepairStaysOnFloor` (`RepairOnFloor`),
`FaultsResolvedByExam` (`ResolvedByExam`), `LawChangesByVote` (`LawByVote`). The
invariant is `TypeOK /\ OneMotion(rules) /\ Links /\ Repairs /\ ResolvedByExam`.
At most one motion is open, without which `Floor` means nothing; every link names
an existing rule, so a new rule's id is not linked yet; a fault has status
`REPAIR_PROPOSED` exactly when its linked rule is still proposed, and no two
faults share one. Each action is then a statement about how it changes the set
of open motions.

`Spending_proofs`: `TypeCorrect`, `AllowanceKept` (`WithinLimit`),
`ReceiptsCountedOnce` (`CountedOnce`), `AccountsReconcile` (`StartSucceeds`),
`UncertaintyStops` (`UnknownChargeStops`), `CapHolds` (`CapRespected`). The
invariant is `TypeOK /\ Reservations /\ WithinLimit /\ Receipts`: only the last
attempt can be uncertain and then the session is stopped, its reservation is part
of `used`, and what is charged is bounded by what is used; the ledger holds the
responses heard, and `saved` lies between its base and its total.

Three of these invariants are stated by no run: `MemoryWhole`, `UnknownChargeStops` and
`CapRespected` are proved outright (as is `OlderOnlyByHead` of `PublicReader`), and their hazards are also met by properties that
are run.

`Collaboration_proofs`: `TypeCorrect`, `NoneLostNoneRevived` (`NothingLostOrRevived`),
`OneDelivery` (`DeliveredOnce`), `FirstDecisionStands` (`DecisionStands`),
`OnlyUnderstoodTurns` (`RepliesNotWasted`). The state of a run exists in up to five
copies (loop, outbox, Redis, the pull's backup, the seed), and an import may take over
one of them, so the invariant `TypeOK /\ InvCopies /\ InvOwn /\ InvRecords /\ InvKept`
speaks of all: each is sound in itself (`Sound`: rows are unique, a request whose id is
also a question's was escalated, the delivery record lists the delivered rows);
what a copy of this run has processed came out of the spool or the seed, none of its
suggestions is in the seed, and it has no rows before the state has some; transported
records are decisions their targets admit; and what the courier acknowledges is in
the spool. From the third part follows what an import begins with: the rows of
the state, whichever copy it took (`BaseIs`). A turn is then four lemmas, one for each
function it calls (`ImportedSound`, `ResearchedSound`, `DeliveredSound`, `RaisedSound`),
which say that it leaves a sound state that only adds to the one before (`Later`). The
import is a recursive function over the spool; that it exists, and that
it keeps `Sound`, is shown by induction over a set of numbers (`Induction`, from the
library's `WFMin`).

`Cleanup_proofs`: `TypeCorrect`, `NoSecondPayment` (`PaidOnce`), `OneDecision`
(`DecisionStands`), `AdmittedOnly` (`Admitted`), `SeedsNotLost` (`SeedsKept`),
`QuarantineObeyed` (`QuarantineHolds`). A process holds a place in an attempt, and another
one will redo it from the answers on disk. The invariant therefore says of every place
which answers must be there (`LedJob`, `Behind`), and that they determine C's draft and
decision (`Chosen`): two decisions for one rulebook and edition come from one cache, so they are
one. `Paid` counts a complete answer as on disk, about to be, or lost with its
process; `Bars` says that a quarantine of the deployed edition is on disk and known
to whoever works; `Seeds` that no cleanup is due while any are owed.

`Tweets_proofs`: `TypeCorrect`, `OnePost` (`PublicOnce`), `OnlyConfirmed`
(`ConfirmedIsPublic`). An item may have several rows from an older version. Only one of them
was ever attempted, the service has heard of no other (`OneAttempted`), and a running
process works on that one (`Working`), so an item is public exactly if the service has
done that row's request (`PublicIsDone`). `Day` and `Counted` bound the attempts.

`PublicReader_proofs`: `TypeCorrect`, `ViewOlderOnlyByHead` (`OlderOnlyByHead`),
`ViewNeverOlder` (`NeverOlder`), `TraceBesideItsView` (`TraceOfView`), the last two under
`HeadLag = 0`, that is if the revision API is never behind main (section 5 has what
happens otherwise). The invariant ties the newest refresh,
the pinned revision, the poll that counts and the shown trace together; `Forward`,
the only part that needs the condition, says that the head the newest refresh was told is
not older than the view.

`Publisher_proofs`: `TypeCorrect`.

The three refinements are proved too: `LegislatureImplementsDocket`
(`ImplementsDocket`), `StoreImplementsAtomicTurns` (`ImplementsAtomicTurns`),
`PublisherImplementsPublicRecord` (`ImplementsPublicRecord`). Each maps the initial states, and each
step to a step of the abstract specification or a stutter, from the inductive invariant.

- `Legislature`: the invariant above and `Turns` (the last receipt names the agent
  who speaks next), from which alternation follows.
- `TurnStore`: the invariant above and `Told` (the notice a redo record will
  acknowledge was told in its turn). A commit and an archive happen at the staging of their record;
  writing, replaying and moving files are stutters, because the mapped state
  reads through the record.
- `Publisher`: `InvHistory` (each commit of main is complete; each one ahead of it is, and
  follows the one before; others have added only notes since the fetch), `InvPages` (the pages
  written so far show the loaded turn, and all do before they are recorded),
  `InvTurn` (at most one turn is unrecorded), `InvTrace` (the trace is of an exam in the
  archive, and none is replaced by an older one), `InvRetired` and `InvExam`. Of the
  steps, only the script's push and the notes of others change what readers see; the proof is
  that `ahead` satisfies what `PublicRecord` asks of a push.

Each strengthening was checked with TLC, on the bounds of section 3, before it was
proved. The assumptions are those a reader would expect: `None` is in no other set (in
`Collaboration` and `PublicReader` also not a record), suggestions, clicks and questions have
different ids (the code's have different prefixes), limits are positive
(`MaxCCalls`, `Limit`, `TestEvery`), bounds natural.

Only model-checked: liveness (`RecoveryEnds`, `ResearchArrives`,
`OnlyEarlierKindsDelay`, `NotesSettle`, `TurnsPublished`, `CatchesUp`), which with `ENABLED` is out of the prover's
reach. Every safety property and every refinement that a passing run checks is
also a theorem. `ExamTrace` has no theorem of its own: what `Publisher` needs of its phases is
in `InvExam` and `InvTrace`.

## 5. Where code and documents differ

- A moderation is marked processed even if its target is not there yet, and each
  queue has its own limit; the approval is lost (`collaboration_reordered`), and the
  suggestion stays pending until the reviewer decides once more.
- `README.md` 31 promises the agent "the original question and answer together".
  Questions are named after turn and agent (`legislature.py` 609), and turns start
  again after an archive, while Redis keeps what is queued; the answer to the old
  run's `ask-1-a` settles the new run's `ask-1-a` (`collaboration_reused`). For a day
  the reservation of the old decision also refuses a different answer to the new
  question (`_collaboration.js` 60).
- `loop.py` 1269 says that `--archive` archives and resets. `run_turn.sh` then stops at
  every fire, at line 19, for want of a `conversation.json` (`publisher_archive`). An
  operator who writes `[]` there, or runs one turn by hand, gets it going.

Observed while modelling, without a run:

- `MECHANICS.md` 41 has duplicates of live rules rejected; only `PROPOSE` checks
  (`rulebook.py` 316-319), and a revision of an open proposal (379-401) may take the
  text of a live rule.
- `contracts/http-and-runtime.md` 109 has a 409 change nothing; `human-action.js` 24
  makes the reservation before the check, and a refused decision keeps it for a day.
- `spec.md` 321 (FR-033) says that failures do not consume the budget of successful
  posts; `tweet.py` 305-308 reserves the slot before the attempt and never returns it.
- `spec.md` 309 (FR-021) and 119 promise an answer for "the next eligible turn". An agent
  that raises lookups in its turns gets what they found first, and may never get the
  answer: with the values of `MCReplies.cfg`, `AnswerArrives` fails by itself, and so does
  `SuggestionArrives`. Nothing but research delays answers, which the run shows.
- `docs/MODULES.md` 120 says that the reader never replaces newer turns with older
  ones. `publish` (`public-state.js` 44) refuses an older turn only when the view is
  unpinned. From one pinned view to another it relies on the revision API: with
  `HeadLag = 1` in `MCPublicReader.cfg`, `NeverOlder` fails. (The test "later stale
  pinned head cannot roll it back" begins with an unpinned view; that one, and any other
  way back than a head the API named, `OlderOnlyByHead` excludes for every `HeadLag`.)
- A lost disk is restored from the published backup by the next pull. Should that
  pull fail, the turn after it starts empty and the push after that replaces the
  backup by the empty run (`run_turn.sh` 31-33, `collab_sync.py` 62-74).
- An unpinned copy of the same turn may bring back the notes of an older commit, and
  an unpinned view shows no trace.
- After an archive the turn starts again at zero; a page that shows an unpinned view
  of the old run refuses the new run until it is loaded again.
- `loop.py` 87 calls the cap a hard stop across all runs; an archive retires the
  spending it is compared with, so each archived run starts again from zero.
- `loop.py` 666 says that C is re-armed only after the review of a different
  edition. The edition of a plain failure is not recorded, and the last reviewed
  one stands in for it: a first failure can be reset at its own edition.
- A cleanup's exam takes an answer that the provider cut off, which C's and B's
  requests refuse (`shadow_cleanup.py` 172-190); the replay does not keep it.

## 6. Not modelled, and the plan

Not modelled for good: prompt texts and their redaction, scoring and wording,
HTML and the playback of traces, sanitisation of public text, the stateless
translator endpoints, one-off migration scripts. They are data, or keep no state
another step relies on. Git's own storage is external.

Planned, in this order:

1. `Collaboration`: a lost disk, retries with one idempotency key, the outcome of a
   delivered suggestion.
2. `Cleanup`: an abstract specification of a cutover (what may be applied and
   paid) that it implements, the spend limit of an attempt, and that both agents
   get the seeds in the end.
3. Proofs: that refinement of `Cleanup`; an abstract inbox (submitted, decided, delivered
   or retired) that `Collaboration` implements, of which `DecisionStands` and
   `NothingLostOrRevived` are consequences.
