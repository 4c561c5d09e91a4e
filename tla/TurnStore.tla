----------------------------- MODULE TurnStore -----------------------------
(***************************************************************************)
(* The durable turn store (turn_store.py) under the processes that use it: *)
(* the runner (loop.py), the archiver (loop.py --archive) and the courier  *)
(* (collab_sync.py pull), one flock between them, an operator who writes   *)
(* the notice mailbox whenever he likes, and a crash between any two file  *)
(* operations.                                                             *)
(*                                                                         *)
(* A canonical file is abstracted to the stamp [run, turn] of the state it *)
(* belongs to; collaboration.json also holds the processed input ids,      *)
(* which the runner saves before the turn commits.                         *)
(***************************************************************************)
EXTENDS Naturals, FiniteSets

CONSTANTS
  Texts,      \* notice contents
  Inputs,     \* ids of human inputs
  None,       \* an absent file, record, text or holder
  TestEvery,  \* every TestEvery-th turn is an exam (loop.TEST_EVERY)
  MaxTurn, MaxRun, MaxPosts, MaxCrashes   \* bounds of the model

ASSUME BoundsAssumption ==
  /\ TestEvery \in Nat \ {0}
  /\ MaxTurn \in Nat /\ MaxRun \in Nat /\ MaxPosts \in Nat /\ MaxCrashes \in Nat

TurnFiles == {"conversation", "rulebook", "meta", "collaboration", "conversations"}
Traces    == {"completed", "progress"}
Transport == {"inbox", "outbox", "generation"}
Files     == TurnFiles \cup Traces \cup Transport

Stamp == [run : Nat, turn : Nat]
Redo == [turn : Nat, seen : SUBSET Inputs, trace : Stamp \cup {None},
         notice : Texts \cup {None}]
Retirement == [files : SUBSET Files, seed : SUBSET Inputs, run : 0..MaxRun]
Memory == [files : [TurnFiles -> Stamp], seen : SUBSET Inputs,
           trace : Stamp \cup {None}, notice : Texts \cup {None}]

ASSUME NoneAssumption ==
  None \notin Texts \cup Stamp \cup Redo \cup Retirement \cup Memory
                \cup {"runner", "archiver"}

VARIABLES
  disk,       \* canonical file -> stamp of its content, or None
  seen,       \* processed input ids in collaboration.json
  spool,      \* ids in collaboration-inbox.json
  notice,     \* text in pending-notice.txt, or None
  pending,    \* the redo record turn-commit.local.json, or None
  retiring,   \* the redo record turn-archive.local.json, or None
  archives,   \* run -> file -> archived stamp, or None
  holder,     \* process holding turn-writer.local.lock, or None
  pc,         \* where the lock holder is
  todo,       \* files the lock holder has still to write or move
  mem         \* the state the lock holder works on

\* History, read by properties only.
VARIABLES
  run,        \* number of archives staged so far: the generation's name
  told,       \* notices in committed conversations
  posts,      \* notices ever posted, by text
  imports,    \* how often each input was imported
  crashes

filevars == <<disk, seen, spool, notice, pending, retiring, archives>>
procvars == <<holder, pc, todo, mem>>
history  == <<run, told, posts, imports, crashes>>
vars == <<filevars, procvars, history>>

-----------------------------------------------------------------------------
(* Files *)

Now(t) == [run |-> run, turn |-> t]

\* Commit writes in dictionary order; a replay reads the record back sorted.
CommitOrder ==
  [conversation |-> 1, rulebook |-> 2, meta |-> 3, collaboration |-> 4,
   conversations |-> 5, completed |-> 6, notice |-> 7]
ReplayOrder ==
  [collaboration |-> 1, conversation |-> 2, conversations |-> 3, meta |-> 4,
   notice |-> 5, completed |-> 6, rulebook |-> 7]
\* sorted(_ARCHIVE_FILES) and the order of the four seed writes.
MoveOrder ==
  [generation |-> 1, inbox |-> 2, outbox |-> 3, collaboration |-> 4,
   conversation |-> 5, conversations |-> 6, meta |-> 7, completed |-> 8,
   progress |-> 9, rulebook |-> 10]
SeedOrder == [generation |-> 1, collaboration |-> 2, inbox |-> 3, outbox |-> 4]

First(f, order) == f \in todo /\ \A g \in todo : order[f] <= order[g]

\* Mutant: no default for a file that does not exist.
ViewWithoutDefault(f) == disk[f]

\* What load_json returns for a turn file: its content, or the default.
View(f) == IF disk[f] = None THEN Now(0) ELSE disk[f]

\* The exam trace load() adopts: the durable one, else the public projection.
LoadedTrace == IF disk["completed"] # None THEN disk["completed"] ELSE disk["progress"]

RecordFiles(r) ==
  TurnFiles \cup (IF r.trace # None THEN {"completed"} ELSE {})
            \cup (IF r.notice # None THEN {"notice"} ELSE {})

Init ==
  /\ disk = [f \in Files |-> None]
  /\ seen = {} /\ spool = {} /\ notice = None
  /\ pending = None /\ retiring = None
  /\ archives = [r \in 0..MaxRun |-> [f \in Files |-> None]]
  /\ holder = None /\ pc = "idle" /\ todo = {} /\ mem = None
  /\ run = 0 /\ told = {} /\ posts = [t \in Texts |-> 0]
  /\ imports = [i \in Inputs |-> 0] /\ crashes = 0

-----------------------------------------------------------------------------
(* The operator and the courier *)

\* The operator leaves a notice; no lock protects the mailbox.
PostNotice(t) ==
  /\ Cardinality({p \in Texts \X (1..MaxPosts) : p[2] <= posts[p[1]]}) < MaxPosts
  /\ notice' = t
  /\ posts' = [posts EXCEPT ![t] = @ + 1]
  /\ UNCHANGED <<disk, seen, spool, pending, retiring, archives, procvars,
                 run, told, imports, crashes>>

\* collab_sync.pull appends one record to the spool.  It needs the lock and
\* refuses to touch the spool while an archive is unfinished.
CourierAppend(i) ==
  /\ holder = None /\ retiring = None
  /\ i \notin spool
  /\ spool' = spool \cup {i}
  /\ disk' = [disk EXCEPT !["inbox"] = Now(0)]
  /\ UNCHANGED <<seen, notice, pending, retiring, archives, procvars, history>>

-----------------------------------------------------------------------------
(* Writer sessions *)

\* (MaxRun bounds the archives, so no archiver starts once it is reached.)
Enter(p) ==
  /\ holder = None
  /\ p = "archiver" => run < MaxRun
  /\ holder' = p /\ pc' = "recover"
  /\ UNCHANGED <<filevars, todo, mem, history>>

\* _recover: an unfinished archive first, then an unfinished turn.
ResumeArchive ==
  /\ pc = "recover" /\ retiring # None
  /\ pc' = "move" /\ todo' = retiring.files
  /\ UNCHANGED <<filevars, holder, mem, history>>

ResumeTurn ==
  /\ pc = "recover" /\ retiring = None /\ pending # None
  /\ pc' = "replay" /\ todo' = RecordFiles(pending)
  /\ UNCHANGED <<filevars, holder, mem, history>>

\* load(): nothing is left to recover, so the files are read as they are.
Load ==
  /\ pc = "recover" /\ retiring = None /\ pending = None
  /\ mem' = [files |-> [f \in TurnFiles |-> View(f)], seen |-> seen,
             trace |-> LoadedTrace, notice |-> None]
  /\ pc' = "loaded"
  /\ UNCHANGED <<filevars, holder, todo, history>>

Leave ==
  /\ pc = "ready"
  /\ holder' = None /\ pc' = "idle" /\ mem' = None
  /\ UNCHANGED <<filevars, todo, history>>

\* A killed process: the kernel drops its lock, the disk stays as it is.
Crash ==
  /\ holder # None /\ crashes < MaxCrashes
  /\ holder' = None /\ pc' = "idle" /\ todo' = {} /\ mem' = None
  /\ crashes' = crashes + 1
  /\ UNCHANGED <<filevars, run, told, posts, imports>>

-----------------------------------------------------------------------------
(* The runner's turn *)

\* publish_turn: derived files, rewritten on entry and after each commit.
Publish ==
  /\ pc = "loaded" /\ holder = "runner"
  /\ disk' = [disk EXCEPT !["outbox"] = mem.files["collaboration"],
                          !["progress"] = IF mem.trace = None THEN @ ELSE mem.trace]
  /\ pc' = "ready"
  /\ UNCHANGED <<seen, spool, notice, pending, retiring, archives, holder, todo, mem, history>>

\* The start of a turn: the notice is read (not removed), the spool imported,
\* and collaboration.json saved at once, outside the turn's commit.
BeginTurn ==
  /\ pc = "ready" /\ holder = "runner"
  /\ mem.files["conversation"].turn < MaxTurn
  /\ mem' = [mem EXCEPT !.notice = notice, !.seen = @ \cup spool]
  /\ seen' = mem.seen \cup spool
  /\ disk' = [disk EXCEPT !["collaboration"] = mem.files["collaboration"]]
  /\ imports' = [i \in Inputs |-> IF i \in spool \ mem.seen THEN imports[i] + 1 ELSE imports[i]]
  /\ pc' = "turn"
  /\ UNCHANGED <<spool, notice, pending, retiring, archives, holder, todo, run, told, posts, crashes>>

\* commit(): the redo record is on disk.  An exam turn may have produced a
\* completed trace; otherwise the trace last loaded is carried along.
Stage(examined) ==
  LET t == mem.files["conversation"].turn + 1
      r == [turn |-> t, seen |-> mem.seen, notice |-> mem.notice,
            trace |-> IF examined THEN Now(t) ELSE mem.trace]
  IN /\ pc = "turn" /\ pending = None /\ retiring = None
     /\ examined => t % TestEvery = 0
     /\ pending' = r
     /\ todo' = RecordFiles(r)
     /\ mem' = [mem EXCEPT !.files = [f \in TurnFiles |-> Now(t)], !.trace = r.trace]
     /\ told' = IF r.notice = None THEN told
                ELSE told \cup {[run |-> run, turn |-> t, text |-> r.notice]}
     /\ pc' = "write"
     /\ UNCHANGED <<disk, seen, spool, notice, retiring, archives, holder, run, posts, imports, crashes>>

-----------------------------------------------------------------------------
(* _materialize, for a commit (pc = "write") and for a replay ("replay") *)

Order == IF pc = "write" THEN CommitOrder ELSE ReplayOrder

WriteFile(f) ==
  /\ pc \in {"write", "replay"}
  /\ First(f, Order) /\ f # "notice"
  /\ disk' = [disk EXCEPT ![f] = IF f = "completed" THEN pending.trace ELSE Now(pending.turn)]
  /\ seen' = IF f = "collaboration" THEN pending.seen ELSE seen
  /\ todo' = todo \ {f}
  /\ UNCHANGED <<spool, notice, pending, retiring, archives, holder, pc, mem, history>>

\* Mutant: the mailbox is emptied whatever it holds by now.
AckAnyNotice ==
  /\ pc \in {"write", "replay"}
  /\ First("notice", Order)
  /\ notice' = None
  /\ todo' = todo \ {"notice"}
  /\ UNCHANGED <<disk, seen, spool, pending, retiring, archives, holder, pc, mem, history>>

\* Only the text that was delivered is acknowledged.
AckNotice ==
  /\ pc \in {"write", "replay"}
  /\ First("notice", Order)
  /\ notice' = IF notice = pending.notice THEN None ELSE notice
  /\ todo' = todo \ {"notice"}
  /\ UNCHANGED <<disk, seen, spool, pending, retiring, archives, holder, pc, mem, history>>

\* Mutant: the redo record goes while a file is still to be written.
CloseTurnEarly ==
  /\ pc \in {"write", "replay"} /\ Cardinality(todo) <= 1
  /\ pending' = None /\ todo' = {}
  /\ pc' = IF pc = "write" THEN "loaded" ELSE "recover"
  /\ UNCHANGED <<disk, seen, spool, notice, retiring, archives, holder, mem, history>>

\* Mutant: a replayed record is never removed.
CloseTurnKeepsRecord ==
  /\ pc \in {"write", "replay"} /\ todo = {}
  /\ pending' = IF pc = "write" THEN None ELSE pending
  /\ pc' = IF pc = "write" THEN "loaded" ELSE "recover"
  /\ UNCHANGED <<disk, seen, spool, notice, retiring, archives, holder, todo, mem, history>>

CloseTurn ==
  /\ pc \in {"write", "replay"} /\ todo = {}
  /\ pending' = None
  /\ pc' = IF pc = "write" THEN "loaded" ELSE "recover"
  /\ UNCHANGED <<disk, seen, spool, notice, retiring, archives, holder, todo, mem, history>>

-----------------------------------------------------------------------------
(* The archiver *)

\* Mutant: the public trace is left behind in the state directory.
StageArchiveLeavesTrace ==
  LET r == [files |-> {f \in Files \ {"progress"} : disk[f] # None}, seed |-> seen \cup spool,
            run |-> run]
  IN /\ pc = "loaded" /\ holder = "archiver"
     /\ run < MaxRun
     /\ retiring' = r
     /\ run' = run + 1
     /\ pc' = "move" /\ todo' = r.files
     /\ UNCHANGED <<disk, seen, spool, notice, pending, archives, holder, mem, told, posts, imports, crashes>>

\* Mutant: the new run forgets what the old one processed.
StageArchiveForgetsIds ==
  LET r == [files |-> {f \in Files : disk[f] # None}, seed |-> {}, run |-> run]
  IN /\ pc = "loaded" /\ holder = "archiver"
     /\ run < MaxRun
     /\ retiring' = r
     /\ run' = run + 1
     /\ pc' = "move" /\ todo' = r.files
     /\ UNCHANGED <<disk, seen, spool, notice, pending, archives, holder, mem, told, posts, imports, crashes>>

\* archive(): after load() has recovered everything, the retired ids are
\* collected and the archive record staged; the run is over from here on.
StageArchive ==
  LET r == [files |-> {f \in Files : disk[f] # None}, seed |-> seen \cup spool, run |-> run]
  IN /\ pc = "loaded" /\ holder = "archiver"
     /\ run < MaxRun
     /\ retiring' = r
     /\ run' = run + 1
     /\ pc' = "move" /\ todo' = r.files
     /\ UNCHANGED <<disk, seen, spool, notice, pending, archives, holder, mem, told, posts, imports, crashes>>

\* Mutant: whatever is in the state directory is moved, again if need be.
MoveFileAgain(f) ==
  /\ pc = "move" /\ First(f, MoveOrder)
  /\ IF disk[f] = None
     THEN UNCHANGED <<disk, seen, spool, archives>>
     ELSE /\ archives' = [archives EXCEPT ![retiring.run][f] = disk[f]]
          /\ disk' = [disk EXCEPT ![f] = None]
          /\ seen' = IF f = "collaboration" THEN {} ELSE seen
          /\ spool' = IF f = "inbox" THEN {} ELSE spool
  /\ todo' = todo \ {f}
  /\ UNCHANGED <<notice, pending, retiring, holder, pc, mem, history>>

\* A file an earlier attempt has already moved is never moved again; one that
\* is in neither place would stop recovery ("pending archive source is missing").
MoveFile(f) ==
  /\ pc = "move" /\ First(f, MoveOrder)
  /\ archives[retiring.run][f] # None \/ disk[f] # None
  /\ IF archives[retiring.run][f] # None
     THEN UNCHANGED <<disk, seen, spool, archives>>
     ELSE /\ archives' = [archives EXCEPT ![retiring.run][f] = disk[f]]
          /\ disk' = [disk EXCEPT ![f] = None]
          /\ seen' = IF f = "collaboration" THEN {} ELSE seen
          /\ spool' = IF f = "inbox" THEN {} ELSE spool
  /\ todo' = todo \ {f}
  /\ UNCHANGED <<notice, pending, retiring, holder, pc, mem, history>>

BeginSeed ==
  /\ pc = "move" /\ todo = {}
  /\ pc' = "seed" /\ todo' = DOMAIN SeedOrder
  /\ UNCHANGED <<filevars, holder, mem, history>>

SeedFile(f) ==
  /\ pc = "seed" /\ First(f, SeedOrder)
  /\ disk' = [disk EXCEPT ![f] = Now(0)]
  /\ seen' = IF f = "collaboration" THEN retiring.seed ELSE seen
  /\ spool' = IF f = "inbox" THEN {} ELSE spool
  /\ todo' = todo \ {f}
  /\ UNCHANGED <<notice, pending, retiring, archives, holder, pc, mem, history>>

\* The archiver that staged the archive is done; a session that resumed one
\* (it has loaded nothing yet) goes on recovering.
CloseArchive ==
  /\ pc = "seed" /\ todo = {}
  /\ retiring' = None
  /\ IF mem = None
     THEN pc' = "recover" /\ UNCHANGED <<holder, mem>>
     ELSE pc' = "idle" /\ holder' = None /\ mem' = None
  /\ UNCHANGED <<disk, seen, spool, notice, pending, archives, todo, history>>

-----------------------------------------------------------------------------

\* Steps of the process that holds the lock, until it releases it.
SessionStep ==
  \/ ResumeArchive \/ ResumeTurn \/ Load \/ Publish \/ BeginTurn \/ Leave
  \/ \E examined \in BOOLEAN : Stage(examined)
  \/ \E f \in TurnFiles \cup {"completed"} : WriteFile(f)
  \/ AckNotice \/ CloseTurn
  \/ StageArchive \/ BeginSeed \/ CloseArchive
  \/ \E f \in Files : MoveFile(f)
  \/ \E f \in DOMAIN SeedOrder : SeedFile(f)

Next ==
  \/ \E t \in Texts : PostNotice(t)
  \/ \E i \in Inputs : CourierAppend(i)
  \/ \E p \in {"runner", "archiver"} : Enter(p)
  \/ SessionStep
  \/ Crash

Spec == Init /\ [][Next]_vars

\* The timer starts run_turn.sh every quarter of an hour and its first command
\* is loop.py --recover; a process that is not killed runs on.  (One condition
\* for both: the timer's step is enabled only while no session's is.)
Fairness == WF_vars(Enter("runner") \/ SessionStep)
FairSpec == Spec /\ Fairness

-----------------------------------------------------------------------------
(* Properties *)

PCs == {"idle", "recover", "loaded", "ready", "turn", "write", "replay", "move", "seed"}

\* Every variable holds a value of its kind.
TypeOK ==
  /\ disk \in [Files -> Stamp \cup {None}]
  /\ seen \subseteq Inputs /\ spool \subseteq Inputs
  /\ notice \in Texts \cup {None}
  /\ pending \in Redo \cup {None}
  /\ retiring \in Retirement \cup {None}
  /\ archives \in [0..MaxRun -> [Files -> Stamp \cup {None}]]
  /\ holder \in {"runner", "archiver", None}
  /\ pc \in PCs
  /\ todo \subseteq Files \cup {"notice"}
  /\ mem \in Memory \cup {None}
  /\ run \in 0..MaxRun
  /\ told \subseteq [run : 0..MaxRun, turn : Nat, text : Texts]
  /\ posts \in [Texts -> Nat]
  /\ imports \in [Inputs -> Nat]
  /\ crashes \in 0..MaxCrashes

\* No torn turn: unless a redo record is there to finish the job, the five
\* canonical files hold one and the same turn of the current run, and the exam
\* trace that load() would adopt belongs to this run and is no newer
\* (turn_store.load/commit/_recover).
FilesAgree ==
  pending = None /\ retiring = None =>
    /\ View("conversation").run = run
    /\ \A f \in TurnFiles : View(f) = View("conversation")
    /\ LoadedTrace # None =>
         LoadedTrace.run = run /\ LoadedTrace.turn <= View("conversation").turn

\* What a process works on is always one whole turn, never files of two turns
\* (the state load() returns, and the state carried from commit to commit).
MemoryWhole ==
  mem # None => \A f \in TurnFiles : mem.files[f] = mem.files["conversation"]

\* Archiving takes a run as a whole: a finished archive holds five files of one
\* turn of that run, and no file of a retired run stays in, or comes back to,
\* the state directory (archive/_recover_archive, crash at any rename).
ArchivedFile(r, f) ==
  IF archives[r][f] = None THEN [run |-> r, turn |-> 0] ELSE archives[r][f]
Retired(r) == r < run /\ (retiring # None => retiring.run # r)
RunsApart ==
  /\ \A r \in 0..MaxRun : Retired(r) =>
       /\ ArchivedFile(r, "conversation").run = r
       /\ \A f \in TurnFiles : ArchivedFile(r, f) = ArchivedFile(r, "conversation")
  /\ retiring = None => \A f \in Files : disk[f] # None => disk[f].run = run

\* A human input is imported at most once in all runs: a crash after the early
\* save of collaboration.json, a replayed turn, or a late duplicate after its
\* run was archived does not import it again (import_inbox_spool, archive).
ImportedOnce == \A i \in Inputs : imports[i] <= 1

\* Nothing overwrites an archived original, in particular not the collaboration
\* seed that an interrupted archive has already written.
ArchiveKept ==
  [][\A r \in 0..MaxRun : \A f \in Files :
       archives[r][f] # None => archives'[r][f] = archives[r][f]]_vars

\* Recovery always ends: a staged turn or archive is completed, even if the
\* recovering process is killed as well.
RecoveryEnds ==
  pending # None \/ retiring # None ~> pending = None /\ retiring = None

-----------------------------------------------------------------------------
(* Refinement: the staged record is the moment of commitment. *)

AbsTurn ==
  IF pending # None THEN pending.turn
  ELSE IF retiring # None THEN 0 ELSE View("conversation").turn

LastTurn(r) ==
  IF retiring # None /\ retiring.run = r /\ archives[r]["conversation"] = None
     /\ "conversation" \in retiring.files
  THEN disk["conversation"].turn
  ELSE ArchivedFile(r, "conversation").turn

\* The mailbox holds delivered text that this commit, or a replay, removes.
Acknowledged ==
  /\ pending # None /\ pending.notice = notice
  /\ pc \in {"write", "replay"} => "notice" \in todo

Atomic == INSTANCE AtomicTurns WITH
  NoText  <- None,
  turn    <- AbsTurn,
  seen    <- IF retiring # None THEN retiring.seed ELSE seen,
  notice  <- IF Acknowledged THEN None ELSE notice,
  retired <- {[run |-> r, turn |-> LastTurn(r)] : r \in 0..run-1}

\* The store implements whole turns and whole archives: whatever is interrupted
\* and replayed, callers see each turn, import and archive happen once.
ImplementsAtomicTurns == Atomic!Spec

=============================================================================
