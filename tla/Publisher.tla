----------------------------- MODULE Publisher -----------------------------
(***************************************************************************)
(* How a turn becomes public: run_turn.sh, fired by its timer, runs the    *)
(* loop (loop.py --recover, then one turn), which rebuilds the generated   *)
(* pages one file after the other, and records the worktree with Git       *)
(* around it.  The timer's process may be killed anywhere, pages may fail  *)
(* to be written, the provider, the pull and the push may fail, and people *)
(* push notes and code to the same branch.                                 *)
(*                                                                         *)
(* The turn store is abstracted to what TurnStore shows it implements: a   *)
(* turn is saved in one step.  Git is external: a commit is what Record    *)
(* stages, a rebase keeps the loop's files and takes the others' notes.    *)
(***************************************************************************)
EXTENDS ExamTrace

CONSTANTS
  TestEvery,                              \* every TestEvery-th turn is an exam
  MaxTurn, MaxNotes, MaxRun, MaxFaults    \* bounds; MaxTurn is the spend cap

\* An exam attempt, as the archive and the trace name it; what a page shows;
\* what the turn store holds.
Trace == [turn : 1..MaxTurn, try : Nat]
Edition == [turn : 0..MaxTurn, notes : 0..MaxNotes]
Experiment == [turn : 0..MaxTurn, exams : SUBSET Trace, trace : Trace \cup {None}]

ASSUME PublisherAssumption ==
  /\ TestEvery \in Nat \ {0}
  /\ None \notin Nat \cup Trace \cup Edition \cup Experiment
  /\ MaxTurn \in Nat /\ MaxNotes \in Nat /\ MaxRun \in {0, 1} /\ MaxFaults \in Nat

VARIABLES
  saved,     \* the canonical state: [turn, exams, trace]; None once archived
  page,      \* generated file in the worktree -> edition; None: absent or torn
  shown,     \* state/public-exam-progress.json: a trace, or None
  notes,     \* notes.json in the worktree
  pc,        \* where run_turn.sh is
  next,      \* the next file of Order that publish_turn writes
  ahead,     \* commits made here that are not on main
  base,      \* length of main when it was last fetched
  main,      \* the commits of origin/main
  run,       \* archives so far
  faults

worktree == <<page, shown, notes>>
git  == <<ahead, base, main>>
vars == <<examvars, saved, worktree, pc, next, git, run, faults>>

\* The files of publish_turn in the order they are written; the trace is last.
\* (Not every page quotes the notes; one page that does makes the same commit.)
Order == <<"current", "preview", "bootstrap", "full">>
Pages == {Order[i] : i \in 1..Len(Order)}

Blank == [turn |-> 0, exams |-> {}, trace |-> None]

\* The state load() returns: defaults after an archive; the public trace where
\* no durable one is saved.
Loaded ==
  IF saved = None THEN [Blank EXCEPT !.trace = shown]
  ELSE IF saved.trace = None THEN [saved EXCEPT !.trace = shown]
  ELSE saved
Turn == Loaded.turn + 1

\* What Git sees: conversation.json (its turn and its valid exams), the pages,
\* the trace, and notes.json at revision n.
Snapshot(n) == [turn |-> IF saved = None THEN None ELSE saved.turn,
                exams |-> IF saved = None THEN {} ELSE saved.exams,
                page |-> page, shown |-> shown, notes |-> n]
Tip == IF ahead = <<>> THEN main[base] ELSE ahead[Len(ahead)]
Clean == Snapshot(Tip.notes) = Tip

Init ==
  /\ ExamInit
  /\ saved = Blank /\ shown = None /\ notes = 0
  /\ page = [p \in Pages |-> [turn |-> 0, notes |-> 0]]
  /\ pc = "idle" /\ next = 1
  /\ ahead = <<>> /\ base = 1 /\ main = << Snapshot(0) >>
  /\ run = 0 /\ faults = 0

-----------------------------------------------------------------------------
(* loop.py *)

\* publish_turn begins; pc says what follows it.
Publishing == {"recover", "load", "publish"}
Then(p) == CASE p = "recover" -> "record"
             [] p = "load"    -> "turn"
             [] p = "publish" -> "record_turn"

WritePage ==
  /\ pc \in Publishing /\ next <= Len(Order)
  /\ page' = [page EXCEPT ![Order[next]] = [turn |-> Loaded.turn, notes |-> notes]]
  /\ next' = next + 1
  /\ UNCHANGED <<examvars, saved, shown, notes, pc, git, run, faults>>

\* The trace last; a trace that cannot be written is not an error.
WriteTrace ==
  /\ pc \in Publishing /\ next > Len(Order)
  /\ \/ shown' = Loaded.trace /\ UNCHANGED faults
     \/ UNCHANGED shown /\ faults < MaxFaults /\ faults' = faults + 1
  /\ pc' = Then(pc) /\ next' = 1
  /\ UNCHANGED <<examvars, saved, page, notes, git, run>>

\* store.commit: the turn, its exam and its trace in one step.
Save(s) ==
  /\ saved' = s
  /\ pc' = "publish" /\ next' = 1
  /\ UNCHANGED <<worktree, git, run, faults>>

AgentTurn ==
  /\ pc = "turn" /\ Turn <= MaxTurn /\ Turn % TestEvery # 0
  /\ Save([Loaded EXCEPT !.turn = Turn])
  /\ UNCHANGED examvars

StartExam ==
  /\ pc = "turn" /\ Turn <= MaxTurn /\ Turn % TestEvery = 0
  /\ Begin
  /\ pc' = "exam"
  /\ UNCHANGED <<saved, worktree, next, git, run, faults>>

\* The spend cap: no turn, and no error.
Capped ==
  /\ pc = "turn" /\ Turn > MaxTurn
  /\ pc' = "record_turn"
  /\ UNCHANGED <<examvars, saved, worktree, next, git, run, faults>>

ExamStep ==
  /\ pc = "exam"
  /\ \/ Report(Turn, TRUE) /\ UNCHANGED faults
     \/ Accepts(at) /\ Report(Turn, FALSE) /\ faults < MaxFaults /\ faults' = faults + 1
     \/ (JudgedValid \/ JudgedInvalid(Turn)) /\ UNCHANGED faults
  /\ UNCHANGED <<saved, worktree, pc, next, git, run>>

\* The result joins the archive, with its trace or with the last one there was.
FinishExam ==
  /\ pc = "exam" /\ Finished
  /\ Save([turn  |-> Turn,
           exams |-> Loaded.exams \cup
                       (IF at = "done" THEN {[turn |-> Turn, try |-> tries]} ELSE {}),
           trace |-> IF TraceOf(Turn) = None THEN Loaded.trace ELSE TraceOf(Turn)])
  /\ at' = "idle" /\ writer' = "lost" /\ UNCHANGED <<live, tries>>

\* The exam raises: nothing is saved, and set -e ends the script.
ExamFails ==
  /\ pc = "exam" /\ faults < MaxFaults /\ faults' = faults + 1
  /\ \E q \in Failures : Raise(Turn, q)
  /\ pc' = "idle"
  /\ UNCHANGED <<saved, worktree, next, git, run>>

-----------------------------------------------------------------------------
(* run_turn.sh *)

\* Mutant: the script starts without loop.py --recover.
FireUnrecovered ==
  /\ pc = "idle"
  /\ pc' = "record" /\ next' = 1
  /\ UNCHANGED <<examvars, saved, worktree, git, run, faults>>

Fire ==
  /\ pc = "idle"
  /\ pc' = "recover" /\ next' = 1
  /\ UNCHANGED <<examvars, saved, worktree, git, run, faults>>

\* record_turn: the loop's files are committed if they changed.  The commit is
\* named for the last turn of conversation.json, and without that file the
\* script ends.
RecordTo(after) ==
  /\ IF Clean THEN pc' = after /\ UNCHANGED ahead
     ELSE IF saved = None THEN pc' = "idle" /\ UNCHANGED ahead
     ELSE pc' = after /\ ahead' = Append(ahead, Snapshot(Tip.notes))
  /\ UNCHANGED <<examvars, saved, worktree, next, base, main, run, faults>>

\* Mutant: only the turn is recorded, not what was recovered.
RecordNothing ==
  /\ pc = "record" /\ pc' = "pull"
  /\ UNCHANGED <<examvars, saved, worktree, next, git, run, faults>>
RecordRecovered == pc = "record" /\ RecordTo("pull")
RecordTurn == pc = "record_turn" /\ RecordTo("push_turn")

\* Mutant: the fetched branch is taken to hold the unpushed commits.
PullAsPushed ==
  /\ pc = "pull" /\ Clean
  /\ base' = Len(main) + Len(ahead) /\ pc' = "push"
  /\ UNCHANGED <<examvars, saved, worktree, next, ahead, main, run, faults>>

\* git pull --rebase refuses a checkout with unrecorded changes; a rebase keeps
\* the loop's files.
Pull ==
  /\ pc = "pull"
  /\ IF Clean
     THEN LET n == main[Len(main)].notes IN
          /\ base' = Len(main) /\ notes' = n
          /\ ahead' = [i \in DOMAIN ahead |-> [ahead[i] EXCEPT !.notes = n]]
          /\ pc' = "push"
     ELSE pc' = "idle" /\ UNCHANGED <<base, notes, ahead>>
  /\ UNCHANGED <<examvars, saved, page, shown, next, main, run, faults>>

\* git push takes only what descends from main; a refusal ends the script.
Push(after) ==
  /\ IF ahead # <<>> /\ base # Len(main)
     THEN pc' = "idle" /\ UNCHANGED git
     ELSE /\ main' = main \o ahead /\ base' = base + Len(ahead) /\ ahead' = <<>>
          /\ pc' = after
  /\ UNCHANGED <<examvars, saved, worktree, next, run, faults>>

PushRecovered == pc = "push" /\ Push("load")
PushTurn == pc = "push_turn" /\ Push("idle")

-----------------------------------------------------------------------------
(* Faults and people *)

\* The script dies: killed, or by an error of the turn, a page, the pull or the
\* push.  bootstrap.js and state.js are not replaced atomically.
Die ==
  /\ pc # "idle" /\ faults < MaxFaults
  /\ pc' = "idle" /\ faults' = faults + 1
  /\ at' = "idle" /\ writer' = "lost"
  /\ \/ UNCHANGED page
     \/ /\ pc \in Publishing /\ next \in {3, 4}
        /\ page' = [page EXCEPT ![Order[next]] = None]
  /\ UNCHANGED <<live, tries, saved, shown, notes, next, git, run>>

\* Somebody else pushes notes.json to main.
OthersPush ==
  /\ main[Len(main)].notes < MaxNotes
  /\ main' = Append(main, [main[Len(main)] EXCEPT !.notes = @ + 1])
  /\ UNCHANGED <<examvars, saved, worktree, pc, next, ahead, base, run, faults>>

\* loop.py --archive, while the timer's script is not running.
Archive ==
  /\ pc = "idle" /\ saved # None /\ run < MaxRun
  /\ run' = run + 1
  /\ saved' = None /\ shown' = None /\ live' = None
  /\ UNCHANGED <<writer, at, tries, page, notes, pc, next, git, faults>>

ScriptStep ==
  \/ WritePage \/ WriteTrace \/ AgentTurn \/ StartExam \/ Capped
  \/ ExamStep \/ FinishExam
  \/ Fire \/ RecordRecovered \/ RecordTurn \/ Pull \/ PushRecovered \/ PushTurn

Next == ScriptStep \/ ExamFails \/ Die \/ OthersPush \/ Archive

Spec == Init /\ [][Next]_vars
\* The timer fires for ever and its script is not suspended; faults and the
\* notes of others are bounded.
FairSpec == Spec /\ WF_vars(ScriptStep)

-----------------------------------------------------------------------------
(* Properties *)

Commits == [turn : 0..MaxTurn \cup {None}, exams : SUBSET Trace,
            page : [Pages -> Edition \cup {None}], shown : Trace \cup {None},
            notes : 0..MaxNotes]

\* Types of the script's, the worktree's and Git's state (run_turn.sh, loop.py).
TypeOK ==
  /\ pc \in Publishing \cup {"idle", "record", "pull", "push", "turn", "exam",
                             "record_turn", "push_turn"}
  /\ next \in 1..(Len(Order) + 1)
  /\ saved \in Experiment \cup {None}
  /\ page \in [Pages -> Edition \cup {None}] /\ shown \in Trace \cup {None}
  /\ notes \in 0..MaxNotes
  /\ ahead \in Seq(Commits) /\ main \in Seq(Commits)
  /\ base \in 1..Len(main)
  /\ run \in 0..MaxRun /\ faults \in 0..MaxFaults
  /\ tries \in Nat
  /\ at \in {Phases[i] : i \in 1..Len(Phases)} \cup {"idle", "verdict", "done", "invalid"}
  /\ live = None \/ live.phase \in {Phases[i] : i \in 1..Len(Phases)} \cup Failures

\* A commit as its readers see it.  A trace that is not of the attempt whose
\* result the archive holds is no trace of it.
Seen(c) ==
  [turn  |-> c.turn, notes |-> c.notes, pages |-> c.page,
   trace |-> IF c.shown = None THEN None
             ELSE IF c.shown \in c.exams THEN c.shown.turn ELSE MaxTurn + 1]
PublicLog == [i \in DOMAIN main |-> Seen(main[i])]
Record == INSTANCE PublicRecord WITH log <- PublicLog

\* Whatever dies or fails on the way (run_turn.sh, loop.publish_turn), main
\* grows by whole commits, one for every turn, each with the trace of an exam
\* as its archive holds it.
ImplementsPublicRecord == Record!Spec

\* A saved turn becomes public: after a crash the script recovers, and it never
\* gets stuck on its own unrecorded files (the two record_turn of run_turn.sh).
TurnsPublished ==
  \A t \in 1..MaxTurn :
    (saved # None /\ saved.turn = t) ~> (main[Len(main)].turn >= t \/ run > 0)

\* "archive current state under this name and reset" (loop.py:1269): the timer
\* goes on with the new run.
NewRunGoesOn == (run > 0) ~> (saved # None)
=============================================================================
