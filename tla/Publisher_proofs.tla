-------------------------- MODULE Publisher_proofs --------------------------
(***************************************************************************)
(* Proofs about Publisher for every number of turns, notes, faults and     *)
(* exams: its types, and that whatever dies or fails on the way the public *)
(* repository is the record PublicRecord promises.                         *)
(***************************************************************************)
EXTENDS Publisher, TLAPS

-----------------------------------------------------------------------------
(* The inductive invariant *)

ExamTurns == {t \in 1..MaxTurn : t % TestEvery = 0}

\* Every page of a commit shows its turn in one edition, no newer than its
\* notes; its trace is of an exam of its archive.
Complete(c) ==
  /\ c.turn \in 0..MaxTurn
  /\ \A p \in Pages : c.page[p] = [turn |-> c.turn, notes |-> c.page["full"].notes]
  /\ c.page["full"].notes \in 0..c.notes
  /\ c.shown # None => c.shown \in c.exams
  /\ \A e \in c.exams : e.turn \in ExamTurns /\ e.turn <= c.turn

Succeeds(b, c) ==
  /\ c.turn \in {b.turn, b.turn + 1} /\ b.notes <= c.notes
  /\ b.page["full"].notes <= c.page["full"].notes
  /\ b.shown # None => c.shown # None /\ b.shown.turn <= c.shown.turn

Parent(i) == IF i = 1 THEN main[base] ELSE ahead[i - 1]
LastMain == main[Len(main)]

\* The history that is public, and the commits on top of what was fetched of it:
\* others have added nothing but notes since.
InvHistory ==
  /\ \A i \in DOMAIN main : Complete(main[i])
  /\ \A i \in DOMAIN ahead :
       Complete(ahead[i]) /\ Succeeds(Parent(i), ahead[i]) /\ ahead[i].notes = notes
  /\ main[base].notes = notes
  /\ \E n \in notes..MaxNotes : LastMain = [main[base] EXCEPT !.notes = n]

PagesWritten(k) == \A i \in 1..k : page[Order[i]] = [turn |-> Loaded.turn, notes |-> notes]

\* What publish_turn has written is in the worktree until it is recorded.
InvPages ==
  /\ pc \in Publishing => PagesWritten(next - 1)
  /\ pc \in {"record", "turn", "record_turn"} => PagesWritten(Len(Order))
  /\ pc \notin Publishing \cup {"idle"} => next = 1

\* Without a conversation the script gets no further than its first record_turn.
InvRetired == saved = None => pc \in {"idle", "recover", "record"} /\ shown = None

\* At most one turn is not recorded yet.
InvTurn == saved # None =>
  /\ saved.turn \in {Tip.turn, Tip.turn + 1}
  /\ pc \in {"pull", "push", "load", "turn", "exam", "push_turn"} => saved.turn = Tip.turn

InvExam ==
  /\ pc = "exam" <=> at # "idle"
  /\ pc = "exam" => Turn <= MaxTurn /\ Turn % TestEvery = 0
  /\ writer = "completed" => at \in {"done", "idle"}

\* A trace is of an exam in the archive, and none is replaced by an older one.
InvTrace == saved # None =>
  /\ \A e \in saved.exams : e.turn \in ExamTurns /\ e.turn <= saved.turn
  /\ saved.trace # None => saved.trace \in saved.exams
  /\ shown # None => shown \in saved.exams
  /\ saved.trace # None /\ shown # None => shown.turn <= saved.trace.turn
  /\ Tip.shown # None => shown # None /\ Tip.shown.turn <= shown.turn

Inv == /\ TypeOK /\ InvHistory /\ InvPages /\ InvRetired
       /\ InvTurn /\ InvExam /\ InvTrace

-----------------------------------------------------------------------------
(* The operators *)

LEMMA OrderFacts ==
  /\ Len(Order) = 4
  /\ Pages = {"current", "preview", "bootstrap", "full"}
  /\ \A i \in 1..4 : Order[i] \in Pages
  /\ \A p \in Pages : \E i \in 1..4 : Order[i] = p
  /\ \A i, j \in 1..4 : Order[i] = Order[j] => i = j
<1>1. Len(Order) = 4 /\ Order[1] = "current" /\ Order[2] = "preview"
      /\ Order[3] = "bootstrap" /\ Order[4] = "full"
  BY DEF Order
<1>2. Pages = {Order[i] : i \in 1..4}
  BY <1>1 DEF Pages
<1>3. \A i \in 1..4 : i = 1 \/ i = 2 \/ i = 3 \/ i = 4
  OBVIOUS
<1> QED  BY <1>1, <1>2, <1>3

LEMMA PhaseFacts ==
  /\ Len(Phases) = 10
  /\ \A i \in 1..10 : i < 10 => After(Phases[i]) \in {Phases[j] : j \in 1..10}
  /\ After("completed") = "done" /\ "completed" = Phases[10]
  /\ "exam_started" \in {Phases[j] : j \in 1..10}
  /\ "audit_progress" \in {Phases[j] : j \in 1..10}
  /\ \A i \in 1..10 : Phases[i] \notin {"idle", "verdict", "done", "invalid"} \cup Failures
<1>1. /\ Len(Phases) = 10 /\ Phases[1] = "exam_started" /\ Phases[2] = "benchmark_selected"
      /\ Phases[3] = "language_loaded" /\ Phases[4] = "encoder_started"
      /\ Phases[5] = "encoder_completed" /\ Phases[6] = "decoder_started"
      /\ Phases[7] = "decoder_completed" /\ Phases[8] = "judge_started"
      /\ Phases[9] = "audit_progress" /\ Phases[10] = "completed"
  BY DEF Phases
<1>2. \A i \in 1..10 : i \in {1, 2, 3, 4, 5, 6, 7, 8, 9, 10}
  OBVIOUS
<1>3. \A i, j \in 1..10 : Phases[i] = Phases[j] => i = j
  BY <1>1, <1>2
<1>4. ASSUME NEW i \in 1..10, i < 10
      PROVE  After(Phases[i]) \in {Phases[j] : j \in 1..10}
  <2>1. Phases[i] # "completed"
    BY <1>1, <1>3, <1>4
  <2>2. (CHOOSE j \in 1..Len(Phases) : Phases[j] = Phases[i]) = i
    BY <1>1, <1>3
  <2>3. After(Phases[i]) = Phases[1 + i]
    BY <2>1, <2>2 DEF After
  <2> QED  BY <2>3, <1>4
<1>5. After("completed") = "done"
  BY DEF After
<1>6. \A i \in 1..10 : Phases[i] \notin {"idle", "verdict", "done", "invalid"} \cup Failures
  BY <1>1, <1>2 DEF Failures
<1>7. "exam_started" \in {Phases[j] : j \in 1..10} /\ "audit_progress" \in {Phases[j] : j \in 1..10}
  <2>1. 1 \in 1..10 /\ 9 \in 1..10
    OBVIOUS
  <2> QED  BY <1>1, <2>1
<1> QED  BY <1>1, <1>4, <1>5, <1>6, <1>7

\* None is nothing the publisher stores.
LEMMA NoneApart ==
  /\ None \notin 0..MaxTurn /\ None \notin Trace
  /\ None \notin Edition /\ None \notin Experiment
BY PublisherAssumption

\* What load() returns.
LEMMA LoadedIs ==
  ASSUME TypeOK
  PROVE  /\ Loaded \in Experiment
         /\ saved = None => Loaded.turn = 0 /\ Loaded.exams = {} /\ Loaded.trace = shown
         /\ saved # None =>
              /\ Loaded.turn = saved.turn /\ Loaded.exams = saved.exams
              /\ saved.trace = None => Loaded.trace = shown
              /\ saved.trace # None => Loaded.trace = saved.trace
<1>1. /\ saved \in Experiment \cup {None} /\ shown \in Trace \cup {None} /\ MaxTurn \in Nat
  BY PublisherAssumption DEF TypeOK
<1>2. CASE saved = None
  <2>1. Loaded = [turn |-> 0, exams |-> {}, trace |-> shown]
    BY <1>2 DEF Loaded, Blank
  <2> QED  BY <2>1, <1>1, <1>2 DEF Experiment
<1>3. CASE saved # None
  <2>1. saved = [turn |-> saved.turn, exams |-> saved.exams, trace |-> saved.trace]
        /\ saved.turn \in 0..MaxTurn /\ saved.exams \in SUBSET Trace
        /\ saved.trace \in Trace \cup {None}
    BY <1>1, <1>3 DEF Experiment
  <2>2. Loaded = [turn |-> saved.turn, exams |-> saved.exams,
                  trace |-> IF saved.trace = None THEN shown ELSE saved.trace]
    BY <2>1, <1>3 DEF Loaded
  <2> QED  BY <2>1, <2>2, <1>1, <1>3 DEF Experiment
<1> QED  BY <1>2, <1>3

LEMMA CommitTypes ==
  ASSUME NEW c \in Commits
  PROVE  /\ c = [turn |-> c.turn, exams |-> c.exams, page |-> c.page,
                 shown |-> c.shown, notes |-> c.notes]
         /\ c.turn \in 0..MaxTurn \cup {None} /\ c.exams \subseteq Trace
         /\ c.page \in [Pages -> Edition \cup {None}]
         /\ c.shown \in Trace \cup {None} /\ c.notes \in 0..MaxNotes
BY DEF Commits

\* The last commit made here, or what was fetched.
LEMMA TipIs ==
  ASSUME TypeOK
  PROVE  /\ base \in DOMAIN main /\ Len(main) \in DOMAIN main
         /\ \A i \in DOMAIN main : main[i] \in Commits
         /\ \A i \in DOMAIN ahead : ahead[i] \in Commits
         /\ ahead # <<>> => Len(ahead) \in DOMAIN ahead
         /\ Tip \in Commits
         /\ InvHistory => Complete(Tip) /\ Tip.notes = notes
<1>1. /\ main \in Seq(Commits) /\ ahead \in Seq(Commits) /\ base \in 1..Len(main)
  BY DEF TypeOK
<1>2. base \in DOMAIN main /\ Len(main) \in DOMAIN main
  BY <1>1
<1>3. ahead # <<>> => Len(ahead) \in DOMAIN ahead
  BY <1>1
<1>4. (\A i \in DOMAIN main : main[i] \in Commits) /\ (\A i \in DOMAIN ahead : ahead[i] \in Commits)
  BY <1>1
<1>5. Tip \in Commits
  BY <1>2, <1>3, <1>4 DEF Tip
<1>6. InvHistory => Complete(Tip) /\ Tip.notes = notes
  BY <1>2, <1>3 DEF InvHistory, Tip
<1> QED  BY <1>2, <1>3, <1>4, <1>5, <1>6

-----------------------------------------------------------------------------
(* What a step leaves alone *)

LEMMA HistoryKept ==
  ASSUME InvHistory, UNCHANGED <<git, notes>>
  PROVE  InvHistory' /\ Tip' = Tip
BY DEF InvHistory, LastMain, Parent, git, Tip

LEMMA LoadedKept ==
  ASSUME UNCHANGED <<saved, shown>>
  PROVE  Loaded' = Loaded /\ Turn' = Turn
BY DEF Loaded, Turn

LEMMA PagesKept ==
  ASSUME UNCHANGED <<saved, worktree>>
  PROVE  \A k \in Nat : PagesWritten(k)' <=> PagesWritten(k)
BY LoadedKept DEF PagesWritten, worktree

LEMMA TraceKept ==
  ASSUME Inv, UNCHANGED <<saved, shown, notes, git>>
  PROVE  InvTrace'
BY HistoryKept DEF Inv, InvTrace

LEMMA ExamKept ==
  ASSUME Inv, UNCHANGED <<at, writer>>, pc # "exam", pc' # "exam"
  PROVE  InvExam'
BY DEF Inv, InvExam

-----------------------------------------------------------------------------
(* publish_turn *)

LEMMA WritePageStep == Inv /\ WritePage => Inv'
<1> SUFFICES ASSUME Inv, WritePage PROVE Inv'
  OBVIOUS
<1> DEFINE edition == [turn |-> Loaded.turn, notes |-> notes]
<1>1. /\ pc \in Publishing /\ next \in 1..4 /\ page' = [page EXCEPT ![Order[next]] = edition]
      /\ next' = next + 1 /\ pc' = pc
      /\ UNCHANGED <<examvars, saved, shown, notes, pc, git, run, faults>>
  BY OrderFacts DEF WritePage, Inv, TypeOK
<1>2. TypeOK /\ pc # "exam"
  BY <1>1 DEF Inv, Publishing
<1>3. edition \in Edition
  BY <1>2, LoadedIs DEF Experiment, Edition, TypeOK
<1>4. page' \in [Pages -> Edition \cup {None}]
  BY <1>1, <1>2, <1>3, OrderFacts DEF TypeOK
<1>5. TypeOK'
  BY <1>1, <1>2, <1>4, OrderFacts DEF TypeOK, examvars, git
<1>6. UNCHANGED <<saved, shown, notes, git, at, writer>>
  BY <1>1 DEF examvars
<1>7. InvHistory' /\ Tip' = Tip /\ Loaded' = Loaded
  BY <1>6, HistoryKept, LoadedKept DEF Inv
<1>8. \A i \in 1..next : page'[Order[i]] = edition
  <2>1. PagesWritten(next - 1)
    BY <1>1 DEF Inv, InvPages
  <2>2. page \in [Pages -> Edition \cup {None}] /\ Order[next] \in Pages
    BY <1>1, <1>2, OrderFacts DEF TypeOK
  <2>3. ASSUME NEW i \in 1..next PROVE page'[Order[i]] = edition
    <3>1. CASE i = next
      BY <3>1, <2>2, <1>1
    <3>2. CASE i # next
      <4>1. i \in 1..(next - 1) /\ i \in 1..4 /\ Order[i] \in Pages
        BY <3>2, <1>1, OrderFacts
      <4>2. Order[i] # Order[next]
        BY <4>1, <3>2, <1>1, OrderFacts
      <4>3. page[Order[i]] = edition
        BY <4>1, <2>1 DEF PagesWritten
      <4> QED  BY <4>1, <4>2, <4>3, <2>2, <1>1
    <3> QED  BY <3>1, <3>2
  <2> QED  BY <2>3
<1>9. InvPages'
  <2>1. \A i \in 1..(next' - 1) : page'[Order[i]] = [turn |-> Loaded'.turn, notes |-> notes']
    BY <1>1, <1>7, <1>8 DEF PagesWritten
  <2> QED  BY <2>1, <1>1 DEF InvPages, PagesWritten, Publishing
<1>10. InvRetired' /\ InvTurn'
  BY <1>1, <1>6, <1>7 DEF Inv, InvRetired, InvTurn
<1>11. InvTrace' /\ InvExam'
  BY <1>1, <1>2, <1>6, TraceKept, ExamKept
<1> QED  BY <1>5, <1>7, <1>9, <1>10, <1>11 DEF Inv

LEMMA WriteTraceStep == Inv /\ WriteTrace => Inv'
<1> SUFFICES ASSUME Inv, WriteTrace PROVE Inv'
  OBVIOUS
<1>1. /\ pc \in Publishing /\ next = 5 /\ pc' = Then(pc) /\ next' = 1
      /\ UNCHANGED <<examvars, saved, page, notes, git, run>>
      /\ shown' \in {shown, Loaded.trace} /\ faults' \in 0..MaxFaults
  BY OrderFacts, PublisherAssumption DEF WriteTrace, Inv, TypeOK
<1>2. TypeOK /\ Loaded \in Experiment /\ pc # "exam"
  BY <1>1, LoadedIs DEF Inv, Publishing
<1>3. pc' \in {"record", "turn", "record_turn"} /\ (pc' = "turn" <=> pc = "load")
      /\ (pc' = "record" <=> pc = "recover")
  BY <1>1 DEF Publishing, Then
<1>4. shown' \in Trace \cup {None}
  BY <1>1, <1>2 DEF Experiment, TypeOK
<1>5. TypeOK'
  BY <1>1, <1>2, <1>3, <1>4 DEF TypeOK, examvars, git, Order
<1>6. InvHistory' /\ Tip' = Tip
  BY <1>1, HistoryKept DEF Inv
<1>7. Loaded'.turn = Loaded.turn
  <2>1. saved = None => Loaded.turn = 0 /\ Loaded'.turn = 0
    BY <1>1, <1>2 DEF Loaded, Blank
  <2>2. saved # None => Loaded'.turn = saved.turn
    BY <1>1, <1>2 DEF Loaded, Experiment, TypeOK
  <2>3. saved # None => Loaded.turn = saved.turn
    BY <1>2, LoadedIs
  <2> QED  BY <2>1, <2>2, <2>3
<1>8. InvPages'
  <2>1. PagesWritten(4)
    BY <1>1 DEF Inv, InvPages
  <2>2. \A i \in 1..4 : page'[Order[i]] = [turn |-> Loaded'.turn, notes |-> notes']
    BY <2>1, <1>1, <1>7 DEF PagesWritten
  <2> QED  BY <2>2, <1>1, <1>3, OrderFacts DEF InvPages, PagesWritten, Publishing
<1>9. InvRetired'
  <2>1. saved = None => pc = "recover" /\ shown = None /\ Loaded.trace = shown
    BY <1>1, <1>2, LoadedIs DEF Inv, InvRetired, Publishing
  <2> QED  BY <2>1, <1>1, <1>3 DEF InvRetired
<1>10. InvTurn'
  BY <1>1, <1>3, <1>6 DEF Inv, InvTurn, Publishing
<1>11. InvTrace'
  <2> SUFFICES ASSUME saved # None PROVE InvTrace'
    BY <1>1 DEF InvTrace
  <2>1. CASE shown' = shown
    BY <2>1, <1>1, <1>6 DEF Inv, InvTrace
  <2>2. CASE shown' # shown
    <3>1. saved.trace # None /\ shown' = saved.trace
      BY <2>2, <1>1, <1>2, LoadedIs
    <3>2. saved.trace \in Trace /\ shown \in Trace \cup {None} /\ Tip.shown \in Trace \cup {None}
      BY <3>1, <1>2, TipIs DEF TypeOK, Experiment, Commits
    <3>3. Tip.shown # None => shown'.turn >= Tip.shown.turn
      BY <3>1, <3>2 DEF Inv, InvTrace, Trace
    <3>4. shown'.turn <= saved'.trace.turn
      BY <3>1, <3>2, <1>1 DEF Trace
    <3> QED  BY <3>1, <3>2, <3>3, <3>4, <1>1, <1>6 DEF Inv, InvTrace, Trace
  <2> QED  BY <2>1, <2>2
<1>12. InvExam'
  BY <1>1, <1>2, <1>3, ExamKept DEF examvars
<1> QED  BY <1>5, <1>6, <1>8, <1>9, <1>10, <1>11, <1>12 DEF Inv

-----------------------------------------------------------------------------
(* The turn of the loop *)

LEMMA ExamPhases ==
  ASSUME TypeOK, NEW t, NEW ok, Report(t, ok)
  PROVE  /\ at' \in {Phases[i] : i \in 1..Len(Phases)} \cup {"verdict", "done"}
         /\ live' = live \/ live'.phase \in {Phases[i] : i \in 1..Len(Phases)}
         /\ writer' = "completed" => at' = "done"
         /\ tries' = tries
<1>1. PICK i \in 1..10 : at = Phases[i]
  BY PhaseFacts DEF Report
<1>2. at = "completed" => at' = "done"
  BY <1>1, PhaseFacts DEF Report
<1>3. at # "completed" => i < 10
  BY <1>1, PhaseFacts
<1>4. at' \in {Phases[j] : j \in 1..10} \cup {"verdict", "done"}
  <2>1. CASE at = "judge_started"
    BY <2>1 DEF Report
  <2>2. CASE at = "audit_progress"
    <3>1. "completed" \in {Phases[j] : j \in 1..10}
      BY PhaseFacts
    <3> QED  BY <2>2, <3>1, PhaseFacts DEF Report
  <2>3. CASE at \notin {"judge_started", "audit_progress"}
    BY <2>3, <1>1, <1>2, <1>3, PhaseFacts DEF Report
  <2> QED  BY <2>1, <2>2, <2>3
<1>5. writer' \in {at, "lost"} /\ (live' = live \/ live' = [turn |-> t, try |-> tries, phase |-> at])
  BY DEF Report, Advance
<1> QED  BY <1>1, <1>2, <1>4, <1>5, PhaseFacts DEF Report

\* A turn is saved after the recovery or an exam: the pages follow.
LEMMA SaveStep ==
  ASSUME Inv, NEW s \in Experiment, Save(s),
         saved # None, s.turn = saved.turn + 1, saved.turn = Tip.turn,
         saved.exams \subseteq s.exams,
         \A e \in s.exams : e.turn \in ExamTurns /\ e.turn <= s.turn,
         s.trace # None => s.trace \in s.exams,
         s.trace # None /\ shown # None => shown.turn <= s.trace.turn,
         UNCHANGED <<at, writer>> \/ (at' = "idle" /\ writer' = "lost"),
         pc = "exam" <=> at' # at,
         UNCHANGED <<live, tries>>
  PROVE  Inv'
<1>1. /\ saved' = s /\ pc' = "publish" /\ next' = 1 /\ UNCHANGED <<page, shown, notes, git, run, faults>>
  BY DEF Save, worktree
<1>2. s # None /\ TypeOK
  BY NoneApart DEF Inv
<1>3. TypeOK'
  BY <1>1, <1>2, OrderFacts DEF TypeOK, Publishing, git
<1>4. InvHistory' /\ Tip' = Tip
  BY <1>1, HistoryKept DEF Inv
<1>5. InvPages' /\ InvRetired'
  BY <1>1, <1>2 DEF InvPages, InvRetired, PagesWritten, Publishing
<1>6. InvTurn'
  BY <1>1, <1>4 DEF InvTurn
<1>7. InvExam'
  <2>1. at' = "idle"
    BY DEF Inv, InvExam
  <2> QED  BY <2>1, <1>1 DEF InvExam
<1>8. InvTrace'
  BY <1>1, <1>2, <1>4 DEF Inv, InvTrace
<1> QED  BY <1>3, <1>4, <1>5, <1>6, <1>7, <1>8 DEF Inv

\* In a turn the experiment that is loaded is the saved one.
LEMMA TurnLoads ==
  ASSUME Inv, pc \in {"turn", "exam"}
  PROVE  /\ saved # None /\ saved \in Experiment /\ saved.turn = Tip.turn
         /\ Turn = saved.turn + 1
         /\ Loaded = [turn |-> saved.turn, exams |-> saved.exams, trace |-> Loaded.trace]
         /\ Loaded.trace \in Trace \cup {None}
         /\ Loaded.trace # None => Loaded.trace \in saved.exams
         /\ Loaded.trace # None /\ shown # None => shown.turn <= Loaded.trace.turn
<1>1. saved # None /\ saved.turn = Tip.turn /\ TypeOK
  BY DEF Inv, InvRetired, InvTurn
<1>2. saved \in Experiment /\ shown \in Trace \cup {None}
  BY <1>1 DEF TypeOK
<1>3. Loaded \in Experiment /\ Loaded.turn = saved.turn /\ Loaded.exams = saved.exams
      /\ (saved.trace = None => Loaded.trace = shown)
      /\ (saved.trace # None => Loaded.trace = saved.trace)
  BY <1>1, LoadedIs
<1>4. Loaded = [turn |-> saved.turn, exams |-> saved.exams, trace |-> Loaded.trace]
      /\ Loaded.trace \in Trace \cup {None}
  BY <1>3 DEF Experiment
<1>5. shown # None => shown.turn <= shown.turn
  BY <1>2 DEF Trace
<1> QED  BY <1>1, <1>2, <1>3, <1>4, <1>5 DEF Turn, Inv, InvTrace

LEMMA AgentTurnStep == Inv /\ AgentTurn => Inv'
<1> SUFFICES ASSUME Inv, AgentTurn PROVE Inv'
  OBVIOUS
<1> DEFINE s == [Loaded EXCEPT !.turn = Turn]
<1>1. pc = "turn" /\ Turn <= MaxTurn /\ Save(s) /\ UNCHANGED <<live, writer, at, tries>>
  BY DEF AgentTurn, examvars
<1>2. s = [turn |-> saved.turn + 1, exams |-> saved.exams, trace |-> Loaded.trace]
  BY <1>1, TurnLoads
<1>3. saved.turn \in 0..MaxTurn /\ saved.exams \subseteq Trace
      /\ saved.turn + 1 <= MaxTurn
  BY <1>1, TurnLoads DEF Experiment
<1>4. s \in Experiment
  BY <1>2, <1>3, <1>1, TurnLoads, PublisherAssumption DEF Experiment
<1>5. ASSUME NEW e \in s.exams PROVE e.turn \in ExamTurns /\ e.turn <= s.turn
  <2>1. e.turn \in ExamTurns /\ e.turn <= saved.turn
    BY <1>1, <1>2, <1>5, TurnLoads DEF Inv, InvTrace
  <2> QED  BY <2>1, <1>2, <1>3 DEF ExamTurns
<1>6. s.turn = saved.turn + 1 /\ s.exams = saved.exams /\ s.trace = Loaded.trace
  BY <1>2
<1> HIDE DEF s
<1> QED  BY <1>1, <1>4, <1>5, <1>6, TurnLoads, SaveStep

LEMMA StartExamStep == Inv /\ StartExam => Inv'
<1> SUFFICES ASSUME Inv, StartExam PROVE Inv'
  OBVIOUS
<1>1. /\ pc = "turn" /\ Turn <= MaxTurn /\ Turn % TestEvery = 0 /\ pc' = "exam"
      /\ at' = "exam_started" /\ writer' = "new" /\ tries' = tries + 1 /\ live' = live
      /\ UNCHANGED <<saved, worktree, next, git, run, faults>>
  BY DEF StartExam, Begin
<1>2. UNCHANGED <<saved, shown, page, notes, git>>
  BY <1>1 DEF worktree
<1>3. TypeOK'
  <2>1. "exam_started" \in {Phases[i] : i \in 1..Len(Phases)}
    BY PhaseFacts
  <2> QED  BY <1>1, <1>2, <2>1 DEF Inv, TypeOK, git
<1>4. InvHistory' /\ Tip' = Tip /\ Turn' = Turn
  BY <1>2, HistoryKept, LoadedKept DEF Inv
<1>5. InvPages' /\ InvRetired'
  BY <1>1, <1>2 DEF Inv, InvPages, InvRetired, Publishing
<1>6. InvTurn'
  BY <1>1, <1>2, <1>4 DEF Inv, InvTurn
<1>7. InvExam' /\ InvTrace'
  BY <1>1, <1>2, <1>4, TraceKept DEF InvExam
<1> QED  BY <1>3, <1>4, <1>5, <1>6, <1>7 DEF Inv

LEMMA CappedStep == Inv /\ Capped => Inv'
<1> SUFFICES ASSUME Inv, Capped PROVE Inv'
  OBVIOUS
<1>1. /\ pc = "turn" /\ pc' = "record_turn" /\ next' = next
      /\ UNCHANGED <<saved, shown, page, notes, git, examvars, run, faults>>
      /\ UNCHANGED <<worktree, at, writer>>
  BY DEF Capped, worktree, examvars
<1>2. TypeOK'
  BY <1>1 DEF Inv, TypeOK, git, examvars
<1>3. InvHistory' /\ Tip' = Tip
  BY <1>1, HistoryKept DEF Inv
<1>4. InvPages'
  BY <1>1, PagesKept, OrderFacts DEF Inv, InvPages, Publishing
<1>5. InvRetired' /\ InvTurn'
  BY <1>1, <1>3 DEF Inv, InvRetired, InvTurn
<1>6. InvExam' /\ InvTrace'
  BY <1>1, TraceKept, ExamKept
<1> QED  BY <1>2, <1>3, <1>4, <1>5, <1>6 DEF Inv

LEMMA ExamStepStep == Inv /\ ExamStep => Inv'
<1> SUFFICES ASSUME Inv, ExamStep PROVE Inv'
  OBVIOUS
<1>1. /\ pc = "exam" /\ pc' = "exam" /\ next' = next
      /\ UNCHANGED <<saved, worktree, git, run>>
      /\ UNCHANGED <<saved, shown, page, notes>>
  BY DEF ExamStep, worktree
<1>2. faults' \in 0..MaxFaults
  <2>1. faults' = faults \/ (faults < MaxFaults /\ faults' = faults + 1)
    BY DEF ExamStep
  <2> QED  BY <2>1, PublisherAssumption DEF Inv, TypeOK
<1>3. /\ tries' = tries
      /\ at' \in {Phases[i] : i \in 1..Len(Phases)} \cup {"verdict", "done", "invalid"}
      /\ live' = live \/ live'.phase \in {Phases[i] : i \in 1..Len(Phases)} \cup Failures
      /\ writer' = "completed" => at' = "done"
  <2>1. CASE \E ok \in BOOLEAN : Report(Turn, ok)
    BY <2>1, ExamPhases DEF Inv
  <2>2. CASE JudgedValid
    BY <2>2, PhaseFacts DEF JudgedValid, Inv, InvExam
  <2>3. CASE JudgedInvalid(Turn)
    BY <2>3 DEF JudgedInvalid, Fail, Advance, Inv, InvExam, Failures
  <2> QED  BY <2>1, <2>2, <2>3 DEF ExamStep
<1>4. TypeOK'
  BY <1>1, <1>2, <1>3 DEF Inv, TypeOK, git
<1>5. InvHistory' /\ Tip' = Tip /\ Turn' = Turn
  BY <1>1, HistoryKept, LoadedKept DEF Inv
<1>6. InvPages' /\ InvRetired' /\ InvTurn'
  BY <1>1, <1>5 DEF Inv, InvPages, InvRetired, InvTurn, Publishing
<1>7. InvExam'
  <2>1. at' # "idle"
    BY <1>3, PhaseFacts
  <2> QED  BY <1>1, <1>3, <1>5, <2>1 DEF Inv, InvExam
<1>8. InvTrace'
  BY <1>1, TraceKept
<1> QED  BY <1>4, <1>5, <1>6, <1>7, <1>8 DEF Inv

LEMMA FinishExamStep == Inv /\ FinishExam => Inv'
<1> SUFFICES ASSUME Inv, FinishExam PROVE Inv'
  OBVIOUS
<1> DEFINE new == IF at = "done" THEN {[turn |-> Turn, try |-> tries]} ELSE {}
           s == [turn |-> Turn, exams |-> Loaded.exams \cup new,
                 trace |-> IF TraceOf(Turn) = None THEN Loaded.trace ELSE TraceOf(Turn)]
<1>1. /\ pc = "exam" /\ at \in {"done", "invalid"} /\ Save(s)
      /\ at' = "idle" /\ writer' = "lost" /\ UNCHANGED <<live, tries>>
  BY DEF FinishExam, Finished
<1>2. Turn <= MaxTurn /\ Turn % TestEvery = 0 /\ (writer = "completed" => at = "done")
      /\ tries \in Nat
  BY <1>1 DEF Inv, InvExam, TypeOK
<1>3. /\ saved \in Experiment /\ Turn = saved.turn + 1 /\ Loaded.exams = saved.exams
      /\ saved.turn \in Nat /\ MaxTurn \in Nat
  BY <1>1, TurnLoads, PublisherAssumption DEF Experiment
<1>4. [turn |-> Turn, try |-> tries] \in Trace /\ Turn \in ExamTurns /\ Turn \in 0..MaxTurn
  BY <1>2, <1>3 DEF Trace, ExamTurns
<1>5. new \subseteq Trace /\ saved.exams \subseteq Trace
  BY <1>3, <1>4 DEF Experiment
<1>6. s.turn = Turn /\ s.exams = saved.exams \cup new
      /\ (s.trace = Loaded.trace \/ s.trace = [turn |-> Turn, try |-> tries])
      /\ (s.trace = [turn |-> Turn, try |-> tries] /\ s.trace # Loaded.trace
            => s.trace \in new)
  BY <1>2, <1>3, NoneApart, <1>4 DEF TraceOf
<1>7. s \in Experiment
  BY <1>3, <1>4, <1>5, <1>6, <1>1, TurnLoads DEF Experiment
<1>8. ASSUME NEW e \in s.exams PROVE e.turn \in ExamTurns /\ e.turn <= s.turn
  <2>1. CASE e \in saved.exams
    <3>1. e.turn \in ExamTurns /\ e.turn <= saved.turn
      BY <1>1, <2>1, TurnLoads DEF Inv, InvTrace
    <3> QED  BY <3>1, <1>3, <1>6 DEF ExamTurns
  <2>2. CASE e \in new
    BY <2>2, <1>3, <1>4, <1>6
  <2> QED  BY <1>6, <1>8, <2>1, <2>2
<1>9. s.trace # None => s.trace \in s.exams
  BY <1>1, <1>6, TurnLoads
<1>10. s.trace # None /\ shown # None => shown.turn <= s.trace.turn
  <2>1. shown # None => shown.turn <= saved.turn /\ shown.turn \in ExamTurns
    BY <1>1, TurnLoads DEF Inv, InvTrace
  <2>2. shown # None => shown.turn <= Turn
    BY <2>1, <1>3 DEF ExamTurns
  <2> QED  BY <2>2, <1>1, <1>6, TurnLoads
<1>11. s.turn = saved.turn + 1 /\ saved.exams \subseteq s.exams /\ at' # at
  BY <1>1, <1>3, <1>6
<1> HIDE DEF s
<1> QED  BY <1>1, <1>7, <1>8, <1>9, <1>10, <1>11, TurnLoads, SaveStep

-----------------------------------------------------------------------------
(* The script ends *)

LEMMA ScriptEnds ==
  ASSUME Inv, pc' = "idle", at' = "idle", writer' # "completed" \/ writer' = writer,
         live' = live \/ live'.phase \in Failures, tries' = tries,
         UNCHANGED <<saved, shown, notes, git, run>>,
         next' \in 1..(Len(Order) + 1), page' \in [Pages -> Edition \cup {None}],
         faults' \in 0..MaxFaults
  PROVE  Inv'
<1>1. TypeOK'
  BY DEF Inv, TypeOK, git
<1>2. InvHistory' /\ Tip' = Tip
  BY HistoryKept DEF Inv
<1>3. InvPages' /\ InvRetired' /\ InvTurn' /\ InvExam'
  BY <1>2 DEF Inv, InvPages, InvRetired, InvTurn, InvExam, Publishing
<1>4. InvTrace'
  BY TraceKept
<1> QED  BY <1>1, <1>2, <1>3, <1>4 DEF Inv

LEMMA ExamFailsStep == Inv /\ ExamFails => Inv'
<1> SUFFICES ASSUME Inv, ExamFails PROVE Inv'
  OBVIOUS
<1>1. PICK q \in Failures : Raise(Turn, q)
  BY DEF ExamFails
<1>2. /\ pc' = "idle" /\ at' = "idle" /\ tries' = tries
      /\ (writer' \in Failures \/ writer' = writer)
      /\ (live' = live \/ live'.phase \in Failures)
  BY <1>1 DEF ExamFails, Raise, Fail, Advance
<1>3. UNCHANGED <<saved, shown, page, notes, git, run, next>> /\ faults' \in 0..MaxFaults
  BY PublisherAssumption DEF ExamFails, worktree, Inv, TypeOK
<1> QED  BY <1>2, <1>3, ScriptEnds DEF Inv, TypeOK, Failures

LEMMA DieStep == Inv /\ Die => Inv'
<1> SUFFICES ASSUME Inv, Die PROVE Inv'
  OBVIOUS
<1>1. /\ pc' = "idle" /\ at' = "idle" /\ writer' = "lost" /\ live' = live /\ tries' = tries
      /\ UNCHANGED <<saved, shown, notes, next, git, run>> /\ faults' \in 0..MaxFaults
  BY PublisherAssumption DEF Die, Inv, TypeOK
<1>2. page' \in [Pages -> Edition \cup {None}]
  BY DEF Die, Inv, TypeOK
<1> QED  BY <1>1, <1>2, ScriptEnds DEF Inv, TypeOK

-----------------------------------------------------------------------------
(* run_turn.sh *)

LEMMA FireStep == Inv /\ Fire => Inv'
<1> SUFFICES ASSUME Inv, Fire PROVE Inv'
  OBVIOUS
<1>1. /\ pc = "idle" /\ pc' = "recover" /\ next' = 1
      /\ UNCHANGED <<saved, shown, page, notes, git, examvars, run, faults>>
      /\ UNCHANGED <<at, writer>>
  BY DEF Fire, worktree, examvars
<1>2. TypeOK'
  BY <1>1, OrderFacts DEF Inv, TypeOK, git, examvars, Publishing
<1>3. InvHistory' /\ Tip' = Tip
  BY <1>1, HistoryKept DEF Inv
<1>4. InvPages' /\ InvRetired' /\ InvTurn'
  BY <1>1, <1>3 DEF Inv, InvPages, InvRetired, InvTurn, PagesWritten, Publishing
<1>5. InvExam' /\ InvTrace'
  BY <1>1, TraceKept, ExamKept
<1> QED  BY <1>2, <1>3, <1>4, <1>5 DEF Inv

\* Nothing but the commits made here has changed, and the script goes on or ends.
LEMMA WorktreeKept ==
  ASSUME Inv, pc # "exam", pc' # "exam",
         UNCHANGED <<examvars, saved, page, shown, run, faults>>,
         next' = next, pc \notin Publishing \cup {"idle"},
         pc' \in {"idle", "pull", "push", "load", "push_turn"},
         pc' # "idle" => saved # None /\ saved.turn = Tip'.turn,
         saved # None => /\ Tip'.turn \in {Tip.turn, saved.turn}
                         /\ Tip'.shown # None =>
                              shown # None /\ Tip'.shown.turn <= shown.turn
  PROVE  InvPages' /\ InvRetired' /\ InvTurn' /\ InvExam' /\ InvTrace'
<1>1. InvPages'
  <2>1. next = 1
    BY DEF Inv, InvPages
  <2> QED  BY <2>1 DEF InvPages, PagesWritten, Publishing
<1>2. InvRetired'
  BY DEF Inv, InvRetired
<1>3. InvTurn'
  <2> SUFFICES ASSUME saved # None PROVE InvTurn'
    BY DEF InvTurn
  <2>1. saved.turn \in {Tip'.turn, Tip'.turn + 1}
    BY DEF Inv, InvTurn
  <2> QED  BY <2>1 DEF InvTurn
<1>4. InvExam'
  BY ExamKept DEF examvars
<1>5. InvTrace'
  BY DEF Inv, InvTrace
<1> QED  BY <1>1, <1>2, <1>3, <1>4, <1>5

\* A clean checkout has the last commit's turn, pages and trace.
LEMMA CleanIs ==
  ASSUME Inv, Clean
  PROVE  /\ saved # None /\ saved.turn = Tip.turn /\ saved.exams = Tip.exams
         /\ page = Tip.page /\ shown = Tip.shown
<1>1. Complete(Tip) /\ Tip.turn # None
  BY TipIs, NoneApart DEF Inv, Complete
<1> QED  BY <1>1 DEF Clean, Snapshot

\* What record_turn commits.
LEMMA NewCommit ==
  ASSUME Inv, pc \in {"record", "record_turn"}, saved # None
  PROVE  LET c == Snapshot(Tip.notes) IN
         c \in Commits /\ Complete(c) /\ Succeeds(Tip, c) /\ c.notes = notes
<1> DEFINE c == Snapshot(Tip.notes)
<1>1. TypeOK /\ saved \in Experiment /\ Tip \in Commits /\ Complete(Tip) /\ Tip.notes = notes
  BY TipIs DEF Inv, TypeOK
<1>2. c = [turn |-> saved.turn, exams |-> saved.exams, page |-> page,
           shown |-> shown, notes |-> notes]
  BY <1>1 DEF Snapshot
<1>3. c \in Commits
  BY <1>1, <1>2 DEF Commits, Experiment, TypeOK
<1>4. \A p \in Pages : page[p] = [turn |-> saved.turn, notes |-> notes]
  <2>1. \A i \in 1..4 : page[Order[i]] = [turn |-> saved.turn, notes |-> notes]
    BY <1>1, OrderFacts, LoadedIs DEF Inv, InvPages, PagesWritten
  <2> QED  BY <2>1, OrderFacts
<1>5. page["full"].notes = notes /\ notes \in Nat
  BY <1>1, <1>4, OrderFacts, PublisherAssumption DEF TypeOK
<1>6. Complete(c)
  <2>1. c.turn \in 0..MaxTurn /\ c.page = page /\ c.turn = saved.turn /\ c.notes = notes
    BY <1>1, <1>2 DEF Experiment
  <2>2. c.shown # None => c.shown \in c.exams
    BY <1>2 DEF Inv, InvTrace
  <2>3. \A e \in c.exams : e.turn \in ExamTurns /\ e.turn <= c.turn
    BY <1>2 DEF Inv, InvTrace
  <2> QED  BY <2>1, <2>2, <2>3, <1>4, <1>5 DEF Complete
<1>7. Succeeds(Tip, c)
  <2>1. c.turn \in {Tip.turn, Tip.turn + 1} /\ Tip.notes <= c.notes
    BY <1>1, <1>2, <1>5 DEF Inv, InvTurn
  <2>2. Tip.page["full"].notes <= c.page["full"].notes
    BY <1>1, <1>2, <1>5 DEF Complete
  <2>3. Tip.shown # None => c.shown # None /\ Tip.shown.turn <= c.shown.turn
    BY <1>2 DEF Inv, InvTrace
  <2> QED  BY <2>1, <2>2, <2>3 DEF Succeeds
<1> QED  BY <1>2, <1>3, <1>6, <1>7

LEMMA RecordStep ==
  ASSUME Inv, NEW after \in {"pull", "push_turn"}, RecordTo(after),
         pc \in {"record", "record_turn"}
  PROVE  Inv'
<1> DEFINE c == Snapshot(Tip.notes)
<1>1. /\ UNCHANGED <<examvars, saved, page, shown, notes, next, base, main, run, faults>>
      /\ UNCHANGED <<main, base, notes>>
  BY DEF RecordTo, worktree
<1>2. TypeOK /\ Tip \in Commits /\ (\A i \in DOMAIN ahead : ahead[i] \in Commits)
  BY TipIs DEF Inv
<1>3. CASE UNCHANGED ahead /\ (pc' = "idle" \/ (Clean /\ pc' = after))
  <2>1. UNCHANGED git
    BY <1>1, <1>3 DEF git
  <2>2. InvHistory' /\ Tip' = Tip
    BY <1>1, <2>1, HistoryKept DEF Inv
  <2>3. TypeOK'
    BY <1>1, <1>3 DEF Inv, TypeOK, examvars
  <2>4. pc' # "idle" => saved # None /\ saved.turn = Tip'.turn
    BY <1>3, <2>2, CleanIs
  <2>5. InvPages' /\ InvRetired' /\ InvTurn' /\ InvExam' /\ InvTrace'
    BY <1>1, <1>3, <2>2, <2>4, WorktreeKept DEF Inv, InvTrace, Publishing
  <2> QED  BY <2>2, <2>3, <2>5 DEF Inv
<1>4. CASE saved # None /\ pc' = after /\ ahead' = Append(ahead, c)
  <2>1. c \in Commits /\ Complete(c) /\ Succeeds(Tip, c) /\ c.notes = notes
    BY <1>4, NewCommit
  <2>2. c.turn = saved.turn /\ c.shown = shown
    BY <1>4 DEF Snapshot
  <2> HIDE DEF c
  <2>3. /\ ahead \in Seq(Commits) /\ ahead' \in Seq(Commits) /\ Len(ahead) \in Nat
        /\ DOMAIN ahead' = 1..(Len(ahead) + 1) /\ DOMAIN ahead = 1..Len(ahead)
        /\ ahead'[Len(ahead) + 1] = c /\ Len(ahead') = Len(ahead) + 1
        /\ \A i \in 1..Len(ahead) : ahead'[i] = ahead[i]
    BY <1>2, <1>4, <2>1 DEF TypeOK
  <2>4. Tip' = c
    <3>1. ahead' # <<>>
      BY <2>3
    <3> QED  BY <3>1, <2>3 DEF Tip
  <2>5. TypeOK'
    BY <1>1, <1>4, <2>3 DEF Inv, TypeOK, examvars
  <2>6. ASSUME NEW i \in DOMAIN ahead'
        PROVE  Complete(ahead'[i]) /\ Succeeds(Parent(i)', ahead'[i]) /\ ahead'[i].notes = notes
    <3>1. CASE i \in 1..Len(ahead)
      <4>1. Parent(i)' = Parent(i)
        BY <1>1, <2>3, <3>1 DEF Parent
      <4> QED  BY <4>1, <2>3, <3>1 DEF Inv, InvHistory
    <3>2. CASE i = Len(ahead) + 1
      <4>1. CASE ahead = <<>>
        <5>1. i = 1
          BY <4>1, <3>2
        <5>2. Parent(i)' = Tip
          BY <4>1, <5>1, <1>1 DEF Parent, Tip
        <5> QED  BY <5>2, <2>1, <2>3, <3>2
      <4>2. CASE ahead # <<>>
        <5>1. Len(ahead) \in 1..Len(ahead) /\ i # 1 /\ i - 1 = Len(ahead)
          BY <4>2, <3>2, <2>3
        <5>2. Parent(i)' = Tip
          BY <4>2, <5>1, <2>3 DEF Parent, Tip
        <5> QED  BY <5>2, <2>1, <2>3, <3>2
      <4> QED  BY <4>1, <4>2
    <3> QED  BY <3>1, <3>2, <2>3
  <2>7. InvHistory'
    BY <1>1, <2>6 DEF Inv, InvHistory, LastMain
  <2>8. shown # None => shown.turn <= shown.turn
    BY <1>2 DEF TypeOK, Trace
  <2>9. InvPages' /\ InvRetired' /\ InvTurn' /\ InvExam' /\ InvTrace'
    BY <1>1, <1>4, <2>2, <2>4, <2>8, WorktreeKept DEF Publishing
  <2> QED  BY <2>5, <2>7, <2>9 DEF Inv
<1> QED  BY <1>3, <1>4 DEF RecordTo

\* A rebase, or a push of others, changes nothing of a commit but its notes.
LEMMA NotesAdded ==
  ASSUME NEW c, NEW d, Complete(c), NEW n \in Nat, c.notes \in 0..n,
         d.turn = c.turn, d.exams = c.exams, d.page = c.page, d.shown = c.shown, d.notes = n
  PROVE  Complete(d)
<1>1. d.page["full"].notes \in 0..d.notes
  BY DEF Complete
<1> QED  BY <1>1 DEF Complete

LEMMA PullStep == Inv /\ Pull => Inv'
<1> SUFFICES ASSUME Inv, Pull PROVE Inv'
  OBVIOUS
<1>1. /\ pc = "pull" /\ UNCHANGED <<examvars, saved, page, shown, run, faults>>
      /\ next' = next /\ main' = main
  BY DEF Pull
<1>2. TypeOK
  BY DEF Inv
<1>3. CASE ~Clean
  <2>1. pc' = "idle" /\ UNCHANGED <<git, notes, ahead, base>>
    BY <1>1, <1>3 DEF Pull, git
  <2>2. InvHistory' /\ Tip' = Tip
    BY <2>1, HistoryKept DEF Inv
  <2>3. TypeOK'
    BY <1>1, <1>2, <2>1 DEF TypeOK, examvars
  <2>4. InvPages' /\ InvRetired' /\ InvTurn' /\ InvExam' /\ InvTrace'
    BY <1>1, <2>1, <2>2, WorktreeKept DEF Inv, InvTrace, Publishing
  <2> QED  BY <2>2, <2>3, <2>4 DEF Inv
<1>4. CASE Clean
  <2> DEFINE n == main[Len(main)].notes
  <2>1. /\ base' = Len(main) /\ notes' = n /\ pc' = "push"
        /\ ahead' = [i \in DOMAIN ahead |-> [ahead[i] EXCEPT !.notes = n]]
    BY <1>4 DEF Pull
  <2>2. PICK m \in notes..MaxNotes : LastMain = [main[base] EXCEPT !.notes = m]
    BY DEF Inv, InvHistory
  <2>3. /\ main \in Seq(Commits) /\ base \in 1..Len(main) /\ Len(main) \in DOMAIN main
        /\ main[base] \in Commits /\ main[Len(main)] \in Commits
        /\ notes \in 0..MaxNotes /\ MaxNotes \in Nat
    BY <1>2, TipIs, PublisherAssumption DEF TypeOK
  <2>4. /\ n = m /\ n \in 0..MaxNotes /\ notes <= n
        /\ main[Len(main)].turn = main[base].turn /\ main[Len(main)].page = main[base].page
        /\ main[Len(main)].shown = main[base].shown
    BY <2>2, <2>3 DEF LastMain, Commits
  <2> HIDE DEF n
  <2>5. ASSUME NEW i \in DOMAIN ahead
        PROVE  /\ ahead'[i] \in Commits /\ ahead'[i].turn = ahead[i].turn
               /\ ahead'[i].exams = ahead[i].exams /\ ahead'[i].page = ahead[i].page
               /\ ahead'[i].shown = ahead[i].shown /\ ahead'[i].notes = n
    BY <1>2, <2>1, <2>4, TipIs DEF Commits
  <2>6. DOMAIN ahead' = DOMAIN ahead /\ DOMAIN ahead = 1..Len(ahead) /\ Len(ahead) \in Nat
        /\ ahead' \in Seq(Commits) /\ Len(ahead') = Len(ahead)
    <3>1. ahead \in Seq(Commits)
      BY <1>2 DEF TypeOK
    <3>2. DOMAIN ahead' = 1..Len(ahead) /\ ahead' = [i \in 1..Len(ahead) |-> ahead'[i]]
      BY <2>1, <3>1
    <3>3. \A i \in 1..Len(ahead) : ahead'[i] \in Commits
      BY <2>5, <3>1
    <3>4. ahead' \in [1..Len(ahead) -> Commits] /\ Len(ahead) \in Nat
      BY <3>1, <3>2, <3>3
    <3>5. ahead' \in Seq(Commits)
      BY <3>4
    <3>6. Len(ahead') = Len(ahead)
      BY <3>2, <3>4, <3>5
    <3> QED  BY <3>1, <3>2, <3>5, <3>6
  <2>7. TypeOK'
    BY <1>1, <1>2, <2>1, <2>3, <2>4, <2>6 DEF TypeOK, examvars
  <2>8. Tip'.turn = Tip.turn /\ Tip'.shown = Tip.shown
    <3>1. CASE ahead = <<>>
      <4>1. ahead' = <<>>
        BY <3>1, <2>6
      <4> QED  BY <3>1, <4>1, <1>1, <2>1, <2>4 DEF Tip
    <3>2. CASE ahead # <<>>
      <4>1. ahead' # <<>> /\ Len(ahead) \in DOMAIN ahead
        BY <3>2, <2>6, TipIs, <1>2
      <4> QED  BY <3>2, <4>1, <2>5, <2>6 DEF Tip
    <3> QED  BY <3>1, <3>2
  <2>9. ASSUME NEW i \in DOMAIN ahead'
        PROVE  Complete(ahead'[i]) /\ Succeeds(Parent(i)', ahead'[i]) /\ ahead'[i].notes = notes'
    <3>1. Complete(ahead[i]) /\ Succeeds(Parent(i), ahead[i]) /\ ahead[i].notes = notes
          /\ ahead[i] \in Commits
      BY <2>6, <1>2, TipIs DEF Inv, InvHistory
    <3>2. Complete(ahead'[i])
      BY <2>3, <2>4, <2>5, <2>6, <3>1, NotesAdded
    <3>3. CASE i = 1
      <4>1. Parent(1) = main[base] /\ Parent(1)' = main[Len(main)]
        BY <1>1, <2>1 DEF Parent
      <4>2. Succeeds(main[Len(main)], ahead'[1])
        <5>1. Succeeds(main[base], ahead[1])
          BY <3>1, <3>3, <4>1
        <5>2. ahead'[1].notes = n /\ n \in Nat
          BY <2>4, <2>5, <2>6, <3>3, PublisherAssumption
        <5>3. main[Len(main)].notes = n
          BY DEF n
        <5>4. ahead'[1].turn = ahead[1].turn /\ ahead'[1].page = ahead[1].page
              /\ ahead'[1].shown = ahead[1].shown
          BY <2>5, <2>6, <3>3
        <5> QED  BY <5>1, <5>2, <5>3, <5>4, <2>4 DEF Succeeds
      <4> QED  BY <3>1, <3>2, <3>3, <4>1, <4>2, <2>1, <2>5, <2>6
    <3>4. CASE i # 1
      <4>1. i - 1 \in DOMAIN ahead /\ Parent(i) = ahead[i - 1] /\ Parent(i)' = ahead'[i - 1]
        BY <2>6, <3>4 DEF Parent
      <4> QED  BY <3>1, <3>2, <4>1, <2>1, <2>4, <2>5, <2>6 DEF Succeeds
    <3>5. ahead'[i].notes = notes'
      BY <2>1, <2>5, <2>6
    <3> QED  BY <3>2, <3>3, <3>4, <3>5
  <2>10. InvHistory'
    <3>1. LastMain' = [main'[base'] EXCEPT !.notes = n] /\ main'[base'].notes = notes'
      <4>1. main'[base'] = main[Len(main)] /\ LastMain' = main[Len(main)] /\ notes' = n
        BY <1>1, <2>1 DEF LastMain
      <4>2. main[Len(main)].notes = n
        BY DEF n
      <4>3. main[Len(main)] = [main[Len(main)] EXCEPT !.notes = n]
        BY <2>3, <4>2 DEF Commits
      <4> QED  BY <4>1, <4>2, <4>3
    <3>2. n \in notes'..MaxNotes
      BY <2>1, <2>3, <2>4
    <3>3. \A i \in DOMAIN main' : Complete(main'[i])
      BY <1>1 DEF Inv, InvHistory
    <3> QED  BY <3>1, <3>2, <3>3, <2>9 DEF InvHistory
  <2>11. InvPages' /\ InvRetired' /\ InvTurn' /\ InvExam' /\ InvTrace'
    <3>1. saved # None /\ saved.turn = Tip.turn
      BY <1>4, CleanIs
    <3> QED  BY <3>1, <1>1, <2>1, <2>8, WorktreeKept DEF Inv, InvTrace, Publishing
  <2> QED  BY <2>7, <2>10, <2>11 DEF Inv
<1> QED  BY <1>3, <1>4

LEMMA Concatenated ==
  ASSUME NEW S, NEW s \in Seq(S), NEW t \in Seq(S), NEW u, u = s \o t
  PROVE  /\ u \in Seq(S) /\ Len(u) = Len(s) + Len(t) /\ DOMAIN u = 1..(Len(s) + Len(t))
         /\ \A i \in 1..Len(s) : u[i] = s[i]
         /\ \A i \in (Len(s) + 1)..(Len(s) + Len(t)) : u[i] = t[i - Len(s)]
OBVIOUS

\* Git takes what descends from main, if there is anything to take.
Pushed ==
  /\ ahead = <<>> \/ base = Len(main)
  /\ main' = main \o ahead /\ base' = base + Len(ahead) /\ ahead' = <<>>
  /\ notes' = notes

\* The commits made here become the end of main.
LEMMA PushedHistory ==
  ASSUME TypeOK, InvHistory, Pushed
  PROVE  /\ main' \in Seq(Commits) /\ Len(main') = Len(main) + Len(ahead)
         /\ base' \in 1..Len(main')
         /\ \A i \in 1..Len(main) : main'[i] = main[i]
         /\ \A i \in (Len(main) + 1)..Len(main') :
              main'[i] = ahead[i - Len(main)] /\ main'[i - 1] = Parent(i - Len(main))
         /\ Tip' = Tip /\ InvHistory'
<1>1. /\ main \in Seq(Commits) /\ ahead \in Seq(Commits) /\ base \in 1..Len(main)
      /\ Len(main) \in Nat /\ Len(ahead) \in Nat
      /\ DOMAIN main = 1..Len(main) /\ DOMAIN ahead = 1..Len(ahead)
  BY DEF TypeOK
<1>2. /\ main' \in Seq(Commits) /\ Len(main') = Len(main) + Len(ahead)
      /\ DOMAIN main' = 1..(Len(main) + Len(ahead))
      /\ \A i \in 1..Len(main) : main'[i] = main[i]
      /\ \A i \in (Len(main) + 1)..(Len(main) + Len(ahead)) : main'[i] = ahead[i - Len(main)]
  <2>1. main' = main \o ahead
    BY DEF Pushed
  <2>2. main \in Seq(Commits) /\ ahead \in Seq(Commits)
    BY <1>1
  <2> QED  BY ONLY <2>1, <2>2, Concatenated
<1>3. \A i \in 1..Len(main) : main'[i] = main[i]
  BY <1>2
<1>4. \A i \in (Len(main) + 1)..Len(main') : main'[i] = ahead[i - Len(main)]
  BY <1>2
<1>0. /\ ahead = <<>> \/ base = Len(main)
      /\ base' = base + Len(ahead) /\ ahead' = <<>> /\ notes' = notes
  BY DEF Pushed
<1>9. /\ Len(main) \in Nat /\ Len(ahead) \in Nat /\ Len(main') = Len(main) + Len(ahead)
      /\ ahead = <<>> => Len(ahead) = 0
      /\ ahead # <<>> => Len(ahead) \in Nat \ {0} /\ base = Len(main)
      /\ base \in 1..Len(main) /\ base' = base + Len(ahead)
  <2>1. (ahead # <<>> => Len(ahead) # 0) /\ (ahead = <<>> => Len(ahead) = 0)
    BY <1>1
  <2>2. Len(main') = Len(main) + Len(ahead)
    BY <1>2
  <2>3. Len(main) \in Nat /\ Len(ahead) \in Nat /\ base \in 1..Len(main)
    BY <1>1
  <2> QED  BY <1>0, <2>1, <2>2, <2>3
<1>5. base' \in 1..Len(main')
  BY <1>9
<1>6. ASSUME NEW i \in (Len(main) + 1)..Len(main')
      PROVE  main'[i - 1] = Parent(i - Len(main))
  <2>1. ahead # <<>> /\ base = Len(main)
    BY <1>9, <1>6
  <2>2. CASE i = Len(main) + 1
    BY <2>1, <2>2, <1>1, <1>3 DEF Parent
  <2>3. CASE i # Len(main) + 1
    <3>1. i - 1 \in (Len(main) + 1)..Len(main') /\ i - Len(main) # 1
          /\ (i - 1) - Len(main) = (i - Len(main)) - 1
      BY <1>9, <1>6, <2>3
    <3> QED  BY <3>1, <1>4 DEF Parent
  <2> QED  BY <2>2, <2>3
<1>7. main'[base'] = Tip /\ Tip' = Tip
  <2>1. CASE ahead = <<>>
    BY <2>1, <1>0, <1>1, <1>3 DEF Tip
  <2>2. CASE ahead # <<>>
    <3>1. base' = Len(main') /\ base' \in (Len(main) + 1)..Len(main')
          /\ base' - Len(main) = Len(ahead)
      BY <2>2, <1>9
    <3> QED  BY <2>2, <3>1, <1>0, <1>4 DEF Tip
  <2> QED  BY <2>1, <2>2
<1>8. InvHistory'
  <2>1. ASSUME NEW i \in DOMAIN main' PROVE Complete(main'[i])
    <3>1. CASE i \in 1..Len(main)
      BY <3>1, <1>1, <1>3 DEF InvHistory
    <3>2. CASE i \in (Len(main) + 1)..Len(main')
      <4>1. i - Len(main) \in DOMAIN ahead
        BY <3>2, <1>1, <1>2
      <4> QED  BY <3>2, <4>1, <1>4 DEF InvHistory
    <3> QED  BY <2>1, <3>1, <3>2, <1>1, <1>2
  <2>2. main'[base'].notes = notes'
    BY <1>0, <1>7, TipIs
  <2>3. \E n \in notes'..MaxNotes : LastMain' = [main'[base'] EXCEPT !.notes = n]
    <3>1. CASE ahead = <<>>
      <4>1. LastMain' = LastMain /\ main'[base'] = main[base]
        <5>1. Len(main') = Len(main) /\ base' = base
              /\ Len(main) \in 1..Len(main) /\ base \in 1..Len(main)
          BY <3>1, <1>9
        <5> QED  BY <5>1, <1>3 DEF LastMain
      <4>2. \E n \in notes..MaxNotes : LastMain = [main[base] EXCEPT !.notes = n]
        BY DEF InvHistory
      <4> QED  BY <4>1, <4>2, <1>0
    <3>2. CASE ahead # <<>>
      <4>1. LastMain' = main'[base'] /\ main'[base'] = Tip /\ Tip \in Commits
            /\ Tip.notes = notes
        <5>1. base' = Len(main')
        BY <3>2, <1>9
      <5> QED  BY <5>1, <1>0, <1>7, TipIs DEF LastMain
      <4>2. LastMain' = [main'[base'] EXCEPT !.notes = notes']
        BY <4>1, <1>0 DEF Commits
      <4>3. notes' \in notes'..MaxNotes
        BY <1>0, PublisherAssumption DEF TypeOK
      <4> QED  BY <4>2, <4>3
    <3> QED  BY <3>1, <3>2
  <2>4. DOMAIN ahead' = {}
    BY <1>0
  <2> QED  BY <2>1, <2>2, <2>3, <2>4 DEF InvHistory
<1> QED  BY <1>2, <1>3, <1>4, <1>5, <1>6, <1>7, <1>8

LEMMA PushStep ==
  ASSUME Inv, NEW after \in {"load", "idle"}, Push(after), pc \in {"push", "push_turn"}
  PROVE  Inv'
<1>1. /\ UNCHANGED <<examvars, saved, page, shown, notes, next, run, faults>>
  BY DEF Push, worktree
<1>2. pc # "exam" /\ pc' # "exam" /\ TypeOK /\ InvHistory
  BY DEF Push, Inv
<1>3. saved # None /\ saved.turn = Tip.turn
  BY DEF Inv, InvRetired, InvTurn
<1>4. CASE pc' = "idle" /\ UNCHANGED git
  <2>1. InvHistory' /\ Tip' = Tip
    BY <1>1, <1>2, <1>4, HistoryKept
  <2>2. TypeOK'
    BY <1>1, <1>2, <1>4 DEF TypeOK, examvars, git
  <2>3. InvPages' /\ InvRetired' /\ InvTurn' /\ InvExam' /\ InvTrace'
    BY <1>1, <1>2, <1>3, <1>4, <2>1, WorktreeKept DEF Inv, InvTrace, Publishing
  <2> QED  BY <2>1, <2>2, <2>3 DEF Inv
<1>5. CASE Pushed /\ pc' = after
  <2>0. ahead' = <<>>
    BY <1>5 DEF Pushed
  <2>1. InvHistory' /\ Tip' = Tip /\ main' \in Seq(Commits) /\ base' \in 1..Len(main')
    BY <1>2, <1>5, PushedHistory
  <2>2. TypeOK'
    BY <1>1, <1>2, <1>5, <2>0, <2>1 DEF TypeOK, examvars, Publishing
  <2>3. InvPages' /\ InvRetired' /\ InvTurn' /\ InvExam' /\ InvTrace'
    BY <1>1, <1>2, <1>3, <1>5, <2>1, WorktreeKept DEF Inv, InvTrace, Publishing
  <2> QED  BY <2>1, <2>2, <2>3 DEF Inv
<1> QED  BY <1>1, <1>4, <1>5 DEF Push, Pushed

-----------------------------------------------------------------------------
(* Others *)

\* Notes pushed by others are a commit of their own at the end of main.
LEMMA OthersCommit ==
  ASSUME TypeOK, InvHistory, OthersPush
  PROVE  LET c == [LastMain EXCEPT !.notes = @ + 1] IN
         /\ c \in Commits /\ Complete(c) /\ LastMain \in Commits
         /\ c.notes = LastMain.notes + 1 /\ LastMain.notes \in notes..(MaxNotes - 1)
         /\ c.turn = LastMain.turn /\ c.exams = LastMain.exams
         /\ c.page = LastMain.page /\ c.shown = LastMain.shown
         /\ main' = Append(main, c) /\ main \in Seq(Commits) /\ main' \in Seq(Commits)
         /\ Len(main) \in Nat /\ Len(main') = Len(main) + 1
         /\ \A i \in 1..Len(main) : main'[i] = main[i]
         /\ main'[Len(main) + 1] = c
<1> DEFINE c == [LastMain EXCEPT !.notes = @ + 1]
<1>1. main \in Seq(Commits) /\ LastMain \in Commits /\ Complete(LastMain)
      /\ Len(main) \in Nat /\ main[base] \in Commits /\ notes \in 0..MaxNotes /\ MaxNotes \in Nat
  BY TipIs, PublisherAssumption DEF TypeOK, InvHistory, LastMain
<1>2. LastMain.notes < MaxNotes /\ main' = Append(main, c)
  BY DEF OthersPush, LastMain
<1>3. LastMain.notes \in notes..(MaxNotes - 1)
  <2>1. PICK m \in notes..MaxNotes : LastMain = [main[base] EXCEPT !.notes = m]
    BY DEF InvHistory
  <2>2. LastMain.notes = m
    BY <2>1, <1>1 DEF Commits
  <2> QED  BY <2>2, <1>1, <1>2
<1>4. /\ c.notes = LastMain.notes + 1 /\ c.turn = LastMain.turn /\ c.exams = LastMain.exams
      /\ c.page = LastMain.page /\ c.shown = LastMain.shown
      /\ c = [turn |-> c.turn, exams |-> c.exams, page |-> c.page, shown |-> c.shown,
              notes |-> c.notes]
  <2>1. LastMain = [turn |-> LastMain.turn, exams |-> LastMain.exams, page |-> LastMain.page,
                    shown |-> LastMain.shown, notes |-> LastMain.notes]
    BY <1>1, CommitTypes
  <2>2. c = [turn |-> LastMain.turn, exams |-> LastMain.exams, page |-> LastMain.page,
             shown |-> LastMain.shown, notes |-> LastMain.notes + 1]
    BY <2>1
  <2> QED  BY <2>2
<1> HIDE DEF c
<1>5. c.notes \in 0..MaxNotes
  BY <1>1, <1>3, <1>4
<1>6. c \in Commits
  BY <1>1, <1>4, <1>5 DEF Commits
<1>7. Complete(c)
  <2>1. c.notes \in Nat /\ LastMain.notes \in 0..c.notes
    BY <1>1, <1>3, <1>4
  <2> QED  BY <1>1, <1>4, <2>1, NotesAdded
<1>8. main' \in Seq(Commits) /\ Len(main') = Len(main) + 1
      /\ (\A i \in 1..Len(main) : main'[i] = main[i]) /\ main'[Len(main) + 1] = c
  BY <1>1, <1>2, <1>6
<1>9. c = [LastMain EXCEPT !.notes = @ + 1]
  BY DEF c
<1> QED  BY <1>1, <1>2, <1>3, <1>4, <1>6, <1>7, <1>8, <1>9

LEMMA OthersPushStep == Inv /\ OthersPush => Inv'
<1> SUFFICES ASSUME Inv, OthersPush PROVE Inv'
  OBVIOUS
<1> DEFINE c == [LastMain EXCEPT !.notes = @ + 1]
<1>1. UNCHANGED <<examvars, saved, page, shown, notes, pc, next, ahead, base, run, faults>>
      /\ UNCHANGED <<saved, worktree>> /\ UNCHANGED <<at, writer, live, tries>>
  BY DEF OthersPush, worktree, examvars
<1>2. TypeOK /\ InvHistory
  BY DEF Inv
<1>3. /\ c \in Commits /\ Complete(c) /\ c.notes = LastMain.notes + 1 /\ LastMain \in Commits
      /\ LastMain.notes \in notes..(MaxNotes - 1)
      /\ main' \in Seq(Commits) /\ Len(main) \in Nat /\ Len(main') = Len(main) + 1
      /\ \A i \in 1..Len(main) : main'[i] = main[i]
      /\ main'[Len(main) + 1] = c
  BY <1>2, OthersCommit
<1> HIDE DEF c
<1>4. base \in 1..Len(main) /\ main'[base] = main[base] /\ DOMAIN main' = 1..(Len(main) + 1)
  BY <1>2, <1>3 DEF TypeOK
<1>5. Tip' = Tip /\ Loaded' = Loaded /\ Turn' = Turn
  BY <1>1, <1>4, LoadedKept DEF Tip
<1>6. TypeOK'
  BY <1>1, <1>2, <1>3, <1>4 DEF TypeOK
<1>7. InvHistory'
  <2>1. \A i \in DOMAIN main' : Complete(main'[i])
    <3>1. ASSUME NEW i \in 1..Len(main) PROVE Complete(main[i])
      BY <1>2, <1>3 DEF InvHistory, TypeOK
    <3> QED  BY <3>1, <1>3, <1>4
  <2>2. \A i \in DOMAIN ahead' :
          Complete(ahead'[i]) /\ Succeeds(Parent(i)', ahead'[i]) /\ ahead'[i].notes = notes'
    BY <1>1, <1>2, <1>4 DEF InvHistory, Parent
  <2>3. main'[base'].notes = notes'
    BY <1>1, <1>2, <1>4 DEF InvHistory
  <2>4. \E n \in notes'..MaxNotes : LastMain' = [main'[base'] EXCEPT !.notes = n]
    <3>1. LastMain' = c
      BY <1>3 DEF LastMain
    <3>2. PICK m \in notes..MaxNotes : LastMain = [main[base] EXCEPT !.notes = m]
      BY <1>2 DEF InvHistory
    <3>3. c = [main[base] EXCEPT !.notes = c.notes]
      <4>1. main[base] \in Commits
        BY <1>2, TipIs
      <4>2. c = [LastMain EXCEPT !.notes = c.notes]
        <5>1. c.notes = LastMain.notes + 1
          BY <1>3
        <5> QED  BY <5>1 DEF c
      <4> QED  BY <3>2, <4>1, <4>2 DEF Commits
    <3>4. c.notes \in notes'..MaxNotes
      <4>1. notes \in 0..MaxNotes /\ MaxNotes \in Nat /\ notes' = notes
        BY <1>1, <1>2, PublisherAssumption DEF TypeOK
      <4>2. c.notes = LastMain.notes + 1 /\ LastMain.notes \in notes..(MaxNotes - 1)
        BY <1>3
      <4> QED  BY <4>1, <4>2
    <3> QED  BY <3>1, <3>3, <3>4, <1>1, <1>4
  <2> QED  BY <2>1, <2>2, <2>3, <2>4 DEF InvHistory
<1>8. InvPages'
  <2>1. next - 1 \in Nat /\ Len(Order) \in Nat
    BY <1>2, OrderFacts DEF TypeOK
  <2> QED  BY <1>1, <2>1, PagesKept DEF Inv, InvPages
<1>9. InvRetired' /\ InvTurn' /\ InvExam' /\ InvTrace'
  BY <1>1, <1>5 DEF Inv, InvRetired, InvTurn, InvExam, InvTrace
<1> QED  BY <1>6, <1>7, <1>8, <1>9 DEF Inv

LEMMA ArchiveStep == Inv /\ Archive => Inv'
<1> SUFFICES ASSUME Inv, Archive PROVE Inv'
  OBVIOUS
<1>1. /\ pc = "idle" /\ saved' = None /\ shown' = None /\ live' = None
      /\ UNCHANGED <<writer, at, tries, page, notes, pc, next, git, faults>>
  BY DEF Archive
<1>2. run' \in 0..MaxRun
  BY PublisherAssumption DEF Archive, Inv, TypeOK
<1>3. TypeOK'
  BY <1>1, <1>2 DEF Inv, TypeOK, git
<1>4. InvHistory'
  BY <1>1, HistoryKept DEF Inv
<1>5. InvPages' /\ InvRetired' /\ InvTurn' /\ InvExam' /\ InvTrace'
  BY <1>1, ExamKept DEF Inv, InvPages, InvRetired, InvTurn, InvTrace, Publishing
<1> QED  BY <1>3, <1>4, <1>5 DEF Inv

-----------------------------------------------------------------------------
(* The invariant *)

LEMMA InitInv == Init => Inv
<1> SUFFICES ASSUME Init PROVE Inv
  OBVIOUS
<1> DEFINE zero == [turn |-> 0, notes |-> 0]
           c == [turn |-> 0, exams |-> {}, page |-> page, shown |-> None, notes |-> 0]
<1>1. /\ live = None /\ writer = "lost" /\ at = "idle" /\ tries = 0
      /\ saved = Blank /\ shown = None /\ notes = 0 /\ page = [p \in Pages |-> zero]
      /\ pc = "idle" /\ next = 1 /\ ahead = <<>> /\ base = 1 /\ run = 0 /\ faults = 0
  BY DEF Init, ExamInit
<1>2. Blank \in Experiment /\ Blank # None /\ zero \in Edition /\ MaxTurn \in Nat /\ MaxNotes \in Nat
  <2>1. 0 \in 0..MaxTurn /\ 0 \in 0..MaxNotes
    BY PublisherAssumption
  <2>2. Blank \in Experiment /\ zero \in Edition
    BY <2>1 DEF Blank, Experiment, Edition
  <2> QED  BY <2>2, NoneApart, PublisherAssumption
<1>3. main = << c >>
  <2>1. saved # None /\ saved.turn = 0 /\ saved.exams = {}
    BY <1>1, <1>2 DEF Blank
  <2>2. Snapshot(0) = c
    BY <2>1, <1>1 DEF Snapshot
  <2> QED  BY <2>2 DEF Init
<1>4. page \in [Pages -> Edition \cup {None}]
  BY <1>1, <1>2
<1>5. c \in Commits
  BY <1>2, <1>4 DEF Commits
<1>6. Complete(c)
  <2>1. c.page = page /\ c.turn = 0 /\ c.notes = 0 /\ c.shown = None /\ c.exams = {}
    OBVIOUS
  <2>2. \A p \in Pages : page[p] = zero
    BY <1>1
  <2>3. page["full"].notes = 0
    BY <2>2, OrderFacts
  <2> QED  BY <2>1, <2>2, <2>3, <1>2 DEF Complete
<1>7. c.notes = 0 /\ c.turn = 0 /\ c.shown = None /\ c = [c EXCEPT !.notes = 0]
  OBVIOUS
<1> HIDE DEF c
<1>8. main \in Seq(Commits) /\ Len(main) = 1 /\ main[1] = c /\ DOMAIN main = {1}
  BY <1>3, <1>5
<1>9. TypeOK
  BY <1>1, <1>2, <1>4, <1>8, OrderFacts, PublisherAssumption DEF TypeOK
<1>10. InvHistory
  <2>1. LastMain = [main[base] EXCEPT !.notes = 0] /\ main[base].notes = 0 /\ 0 \in 0..MaxNotes
    BY <1>1, <1>2, <1>7, <1>8 DEF LastMain
  <2>2. DOMAIN ahead = {}
    BY <1>1
  <2> QED  BY <2>1, <2>2, <1>1, <1>6, <1>8 DEF InvHistory
<1>11. Tip = c
  BY <1>1, <1>8 DEF Tip
<1>12. InvPages /\ InvRetired /\ InvExam
  BY <1>1, <1>2 DEF InvPages, InvRetired, InvExam, Publishing
<1>13. InvTurn /\ InvTrace
  BY <1>1, <1>7, <1>11 DEF InvTurn, InvTrace, Blank
<1> QED  BY <1>9, <1>10, <1>12, <1>13 DEF Inv

LEMMA StutterStep == Inv /\ UNCHANGED vars => Inv'
<1> SUFFICES ASSUME Inv, UNCHANGED vars PROVE Inv'
  OBVIOUS
<1>1. UNCHANGED <<live, writer, at, tries, saved, page, shown, notes, pc, next, ahead, base,
                  main, run, faults>>
  BY DEF vars, examvars, worktree, git
<1>2. Tip' = Tip /\ Loaded' = Loaded /\ Turn' = Turn
  BY <1>1, LoadedKept DEF Tip
<1>3. TypeOK'
  BY <1>1 DEF Inv, TypeOK
<1>4. InvHistory'
  BY <1>1 DEF Inv, InvHistory, LastMain, Parent
<1>5. InvPages'
  BY <1>1, <1>2 DEF Inv, InvPages, PagesWritten
<1>6. InvRetired' /\ InvTurn' /\ InvExam' /\ InvTrace'
  BY <1>1, <1>2 DEF Inv, InvRetired, InvTurn, InvExam, InvTrace
<1> QED  BY <1>3, <1>4, <1>5, <1>6 DEF Inv

LEMMA NextInv == Inv /\ [Next]_vars => Inv'
<1> SUFFICES ASSUME Inv, [Next]_vars PROVE Inv'
  OBVIOUS
<1>1. CASE WritePage
  BY <1>1, WritePageStep
<1>2. CASE WriteTrace
  BY <1>2, WriteTraceStep
<1>3. CASE AgentTurn
  BY <1>3, AgentTurnStep
<1>4. CASE StartExam
  BY <1>4, StartExamStep
<1>5. CASE Capped
  BY <1>5, CappedStep
<1>6. CASE ExamStep
  BY <1>6, ExamStepStep
<1>7. CASE FinishExam
  BY <1>7, FinishExamStep
<1>8. CASE Fire
  BY <1>8, FireStep
<1>9. CASE RecordRecovered
  BY <1>9, RecordStep DEF RecordRecovered
<1>10. CASE RecordTurn
  BY <1>10, RecordStep DEF RecordTurn
<1>11. CASE Pull
  BY <1>11, PullStep
<1>12. CASE PushRecovered
  BY <1>12, PushStep DEF PushRecovered
<1>13. CASE PushTurn
  BY <1>13, PushStep DEF PushTurn
<1>14. CASE ExamFails
  BY <1>14, ExamFailsStep
<1>15. CASE Die
  BY <1>15, DieStep
<1>16. CASE OthersPush
  BY <1>16, OthersPushStep
<1>17. CASE Archive
  BY <1>17, ArchiveStep
<1>18. CASE UNCHANGED vars
  BY <1>18, StutterStep
<1> QED
  BY <1>1, <1>2, <1>3, <1>4, <1>5, <1>6, <1>7, <1>8, <1>9, <1>10, <1>11, <1>12, <1>13,
     <1>14, <1>15, <1>16, <1>17, <1>18 DEF Next, ScriptStep

LEMMA Invariance == Spec => []Inv
BY InitInv, NextInv, PTL DEF Spec

-----------------------------------------------------------------------------
(* Types *)

\* The script's, the worktree's and Git's state have their types in every run
\* (run_turn.sh, loop.py).
THEOREM TypeCorrect == Spec => []TypeOK
<1>1. Inv => TypeOK
  BY DEF Inv
<1> QED  BY <1>1, Invariance, PTL

-----------------------------------------------------------------------------
(* Refinement: the history of main is a public record *)

\* What the readers see of a complete commit is whole.
LEMMA SeenWhole ==
  ASSUME NEW c \in Commits, Complete(c)
  PROVE  Seen(c) \in Record!Commit /\ Record!Whole(Seen(c))
<1> DEFINE t == c.turn
           n == c.page["full"].notes
           x == IF c.shown = None THEN None
                ELSE IF c.shown \in c.exams THEN c.shown.turn ELSE MaxTurn + 1
<1>1. /\ t \in 0..MaxTurn /\ c.notes \in 0..MaxNotes /\ n \in 0..c.notes
      /\ c.page \in [Pages -> Edition \cup {None}]
      /\ \A p \in Pages : c.page[p] = [turn |-> t, notes |-> n]
  BY DEF Complete, Commits
<1>2. n \in 0..MaxNotes /\ MaxNotes \in Nat
  BY <1>1, PublisherAssumption
<1>3. Pages = Record!Pages
  BY OrderFacts DEF Record!Pages
<1>4. c.page = [p \in Record!Pages |-> [turn |-> t, notes |-> n]]
  BY <1>1, <1>3
<1>5. x \in Record!Exams \cup {None} /\ (x # None => x <= t)
  BY DEF Complete, ExamTurns, Record!Exams
<1>6. Seen(c) = [turn |-> t, notes |-> c.notes, pages |-> c.page, trace |-> x]
  BY DEF Seen
<1>7. [turn |-> t, notes |-> n] \in Record!Edition
  BY <1>1, <1>2 DEF Record!Edition
<1>8. c.page \in [Record!Pages -> Record!Edition]
  BY <1>4, <1>7
<1>9. "full" \in Record!Pages /\ c.page["full"].notes = n
  BY DEF Record!Pages
<1> HIDE DEF t, n, x
<1>10. Seen(c) \in Record!Commit
  BY <1>1, <1>5, <1>6, <1>8 DEF Record!Commit
<1>11. Seen(c) = Record!WholeCommit(t, n, c.notes, x)
  BY <1>4, <1>6 DEF Record!WholeCommit
<1>12. /\ Seen(c).turn = t /\ Seen(c).notes = c.notes /\ Seen(c).trace = x
       /\ Seen(c).pages["full"].notes = n /\ n <= c.notes
  BY <1>1, <1>6, <1>9
<1> QED  BY <1>5, <1>10, <1>11, <1>12 DEF Record!Whole

LEMMA SeenFollows ==
  ASSUME NEW b \in Commits, NEW c \in Commits, Complete(b), Complete(c), Succeeds(b, c)
  PROVE  Record!Follows(Seen(b), Seen(c))
<1>1. /\ Seen(c).turn \in {Seen(b).turn, Seen(b).turn + 1} /\ Seen(b).notes <= Seen(c).notes
      /\ Seen(b).pages["full"].notes <= Seen(c).pages["full"].notes
  BY DEF Seen, Succeeds
<1>2. ASSUME NEW d, Complete(d)
      PROVE  /\ d.shown = None => Seen(d).trace = None
             /\ d.shown # None => Seen(d).trace = d.shown.turn /\ d.shown.turn # None
  <2>1. d.shown # None => d.shown.turn \in ExamTurns
    BY <1>2 DEF Complete
  <2>2. None \notin ExamTurns
    BY PublisherAssumption DEF ExamTurns
  <2> QED  BY <1>2, <2>1, <2>2 DEF Seen, Complete
<1>3. Seen(b).trace # None => Seen(c).trace # None /\ Seen(b).trace <= Seen(c).trace
  BY <1>2 DEF Succeeds
<1> QED  BY <1>1, <1>3 DEF Record!Follows

\* A commit follows itself with more notes.
LEMMA NotesFollow ==
  ASSUME NEW b \in Commits, NEW c \in Commits, Complete(b), Complete(c),
         c.turn = b.turn, c.page = b.page, c.shown = b.shown, b.notes <= c.notes
  PROVE  Succeeds(b, c)
<1>1. b.page["full"].notes \in Nat
  BY PublisherAssumption DEF Complete, Commits
<1>2. b.shown # None => b.shown.turn \in Nat
  BY DEF Complete, ExamTurns
<1> QED  BY <1>1, <1>2 DEF Succeeds

LEMMA Prefix ==
  ASSUME NEW S, NEW a \in Seq(S), NEW b \in Seq(S), Len(a) < Len(b),
         \A i \in 1..Len(a) : b[i] = a[i]
  PROVE  SubSeq(b, 1, Len(a)) = a
OBVIOUS

\* What the readers see of a history is a sequence of whole commits.
LEMMA LogOf ==
  ASSUME NEW m \in Seq(Commits), \A i \in DOMAIN m : Complete(m[i]),
         NEW l, l = [i \in DOMAIN m |-> Seen(m[i])]
  PROVE  /\ l \in Seq(Record!Commit) /\ Len(l) = Len(m) /\ Len(m) \in Nat
         /\ \A i \in 1..Len(m) : m[i] \in Commits /\ Complete(m[i]) /\ l[i] = Seen(m[i])
<1>1. Len(m) \in Nat /\ DOMAIN m = 1..Len(m)
  OBVIOUS
<1>2. \A i \in 1..Len(m) : m[i] \in Commits /\ Complete(m[i])
  BY <1>1
<1>3. \A i \in 1..Len(m) : Seen(m[i]) \in Record!Commit
  BY <1>2, SeenWhole
<1>4. l = [i \in 1..Len(m) |-> Seen(m[i])]
  BY <1>1
<1>5. l \in [1..Len(m) -> Record!Commit]
  BY <1>3, <1>4
<1>6. l \in Seq(Record!Commit) /\ Len(l) = Len(m)
  BY <1>1, <1>5
<1> QED  BY <1>1, <1>2, <1>4, <1>6

\* A push that leaves what is public and appends successors of it.
LEMMA RecordGrows ==
  ASSUME Inv, Inv', Len(main) < Len(main'),
         \A i \in 1..Len(main) : main'[i] = main[i],
         \A i \in (Len(main) + 1)..Len(main') : Succeeds(main'[i - 1], main'[i])
  PROVE  Record!Push
<1>1. /\ PublicLog \in Seq(Record!Commit) /\ Len(PublicLog) = Len(main)
      /\ Len(main) \in Nat /\ Len(main) \in 1..Len(main)
      /\ \A i \in 1..Len(main) : PublicLog[i] = Seen(main[i])
  <2>1. main \in Seq(Commits) /\ (\A i \in DOMAIN main : Complete(main[i]))
    BY DEF Inv, TypeOK, InvHistory
  <2>2. PublicLog = [i \in DOMAIN main |-> Seen(main[i])]
    BY DEF PublicLog
  <2>3. Len(main) \in 1..Len(main)
    BY DEF Inv, TypeOK
  <2> QED  BY <2>1, <2>2, <2>3, LogOf
<1>2. /\ PublicLog' \in Seq(Record!Commit) /\ Len(PublicLog') = Len(main')
      /\ Len(main') \in Nat
      /\ \A i \in 1..Len(main') : /\ main'[i] \in Commits /\ Complete(main'[i])
                                  /\ PublicLog'[i] = Seen(main'[i])
  <2>1. main' \in Seq(Commits) /\ (\A i \in DOMAIN main' : Complete(main'[i]))
    BY DEF Inv, TypeOK, InvHistory
  <2>2. PublicLog' = [i \in DOMAIN main' |-> Seen(main'[i])]
    BY DEF PublicLog, Seen
  <2> QED  BY <2>1, <2>2, LogOf
<1>3. \A i \in 1..Len(main) : PublicLog'[i] = PublicLog[i]
  BY <1>1, <1>2
<1>4. SubSeq(PublicLog', 1, Len(PublicLog)) = PublicLog
  BY <1>1, <1>2, <1>3, Prefix
<1>5. ASSUME NEW i \in (Len(main) + 1)..Len(main')
      PROVE  /\ PublicLog'[i] \in Record!Commit /\ Record!Whole(PublicLog'[i])
             /\ Record!Follows(PublicLog'[i - 1], PublicLog'[i])
  <2>1. i \in 1..Len(main') /\ i - 1 \in 1..Len(main')
    BY <1>1, <1>2
  <2> QED  BY <2>1, <1>2, SeenWhole, SeenFollows
<1> QED  BY <1>1, <1>2, <1>4, <1>5 DEF Record!Push

\* git push appends the commits made here, each a successor of its parent.
LEMMA PushRefines ==
  ASSUME Inv, Inv', NEW after, Push(after), main' # main
  PROVE  Record!Push
<1>1. TypeOK /\ InvHistory /\ Pushed /\ ahead # <<>>
  <2>1. Pushed
    BY DEF Push, Pushed, git, worktree
  <2>2. ahead = <<>> => main \o ahead = main
    BY DEF Inv, TypeOK
  <2> QED  BY <2>1, <2>2 DEF Inv, Pushed
<1>2. /\ Len(main') = Len(main) + Len(ahead)
      /\ \A i \in 1..Len(main) : main'[i] = main[i]
      /\ \A i \in (Len(main) + 1)..Len(main') :
           main'[i] = ahead[i - Len(main)] /\ main'[i - 1] = Parent(i - Len(main))
  BY <1>1, PushedHistory
<1>3. Len(main) \in Nat /\ Len(ahead) \in Nat \ {0} /\ DOMAIN ahead = 1..Len(ahead)
  BY <1>1 DEF TypeOK
<1>4. ASSUME NEW i \in (Len(main) + 1)..Len(main')
      PROVE  Succeeds(main'[i - 1], main'[i])
  <2>1. i - Len(main) \in DOMAIN ahead
    BY <1>2, <1>3
  <2>2. Succeeds(Parent(i - Len(main)), ahead[i - Len(main)])
    BY <1>1, <2>1 DEF InvHistory
  <2> QED  BY <1>2, <2>2
<1>5. Len(main) < Len(main')
  BY <1>2, <1>3
<1> QED  BY <1>2, <1>4, <1>5, RecordGrows

LEMMA OthersRefine ==
  ASSUME Inv, Inv', OthersPush
  PROVE  Record!Push
<1> DEFINE c == [LastMain EXCEPT !.notes = @ + 1]
<1>1. /\ c \in Commits /\ Complete(c) /\ LastMain \in Commits
      /\ c.notes = LastMain.notes + 1 /\ c.turn = LastMain.turn
      /\ c.page = LastMain.page /\ c.shown = LastMain.shown
      /\ Len(main) \in Nat /\ Len(main') = Len(main) + 1
      /\ \A i \in 1..Len(main) : main'[i] = main[i]
      /\ main'[Len(main) + 1] = c
  BY OthersCommit DEF Inv
<1> HIDE DEF c
<1>2. Complete(LastMain) /\ main'[Len(main)] = LastMain
  <2>1. Len(main) \in DOMAIN main
    BY TipIs DEF Inv
  <2>2. Len(main) \in 1..Len(main)
    BY <2>1 DEF Inv, TypeOK
  <2> QED  BY <2>1, <2>2, <1>1 DEF Inv, InvHistory, LastMain
<1>3. LastMain.notes <= c.notes
  BY <1>1, PublisherAssumption DEF Commits
<1>4. Succeeds(LastMain, c)
  BY <1>1, <1>2, <1>3, NotesFollow
<1>5. ASSUME NEW i \in (Len(main) + 1)..Len(main')
      PROVE  Succeeds(main'[i - 1], main'[i])
  <2>1. i = Len(main) + 1 /\ i - 1 = Len(main)
    BY <1>1
  <2> QED  BY <2>1, <1>1, <1>2, <1>4
<1>6. Len(main) < Len(main')
  BY <1>1
<1> QED  BY <1>1, <1>5, <1>6, RecordGrows

LEMMA InitRefines == Init => Record!Init
<1> SUFFICES ASSUME Init PROVE Record!Init
  OBVIOUS
<1>1. /\ saved = Blank /\ shown = None /\ main = << Snapshot(0) >>
      /\ page = [p \in Pages |-> [turn |-> 0, notes |-> 0]]
  BY DEF Init
<1>2. saved # None /\ saved.turn = 0 /\ saved.exams = {}
  <2>1. 0 \in 0..MaxTurn
    BY PublisherAssumption
  <2>2. Blank \in Experiment
    BY <2>1 DEF Blank, Experiment
  <2> QED  BY <1>1, <2>2, NoneApart DEF Blank
<1>3. Pages = Record!Pages
  BY OrderFacts DEF Record!Pages
<1>4. Seen(Snapshot(0)) = Record!WholeCommit(0, 0, 0, None)
  <2>1. Snapshot(0) = [turn |-> 0, exams |-> {}, page |-> page, shown |-> None, notes |-> 0]
    BY <1>1, <1>2 DEF Snapshot
  <2> QED  BY <2>1, <1>1, <1>3 DEF Seen, Record!WholeCommit
<1>5. DOMAIN main = 1..1 /\ main[1] = Snapshot(0)
  BY <1>1
<1>6. PublicLog = << Seen(Snapshot(0)) >>
  BY <1>5 DEF PublicLog
<1> QED  BY <1>4, <1>6 DEF Record!Init

LEMMA StepRefines == Inv /\ Inv' /\ [Next]_vars => [Record!Push]_PublicLog
<1> SUFFICES ASSUME Inv, Inv', [Next]_vars, main' # main PROVE Record!Push
  BY DEF PublicLog, Seen
<1>1. CASE PushRecovered
  BY <1>1, PushRefines DEF PushRecovered
<1>2. CASE PushTurn
  BY <1>2, PushRefines DEF PushTurn
<1>3. CASE OthersPush
  BY <1>3, OthersRefine
<1>4. CASE UNCHANGED vars
  BY <1>4 DEF vars, git
<1>5. CASE Next /\ ~PushRecovered /\ ~PushTurn /\ ~OthersPush
  BY <1>5 DEF Next, ScriptStep, WritePage, WriteTrace, AgentTurn, StartExam, Capped, ExamStep,
     FinishExam, Fire, RecordRecovered, RecordTurn, RecordTo, Pull, ExamFails, Die, Archive,
     Save, git
<1> QED  BY <1>1, <1>2, <1>3, <1>4, <1>5

\* Whatever dies or fails on the way, main grows by whole commits, one for every
\* turn, each with the trace of an exam as its archive holds it (run_turn.sh,
\* loop.publish_turn).
THEOREM PublisherImplementsPublicRecord == Spec => ImplementsPublicRecord
<1>1. Init => Record!Init
  BY InitRefines
<1>2. Inv /\ Inv' /\ [Next]_vars => [Record!Push]_PublicLog
  BY StepRefines
<1> QED  BY <1>1, <1>2, Invariance, PTL DEF Spec, ImplementsPublicRecord, Record!Spec
=============================================================================
