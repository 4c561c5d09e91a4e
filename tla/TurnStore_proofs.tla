-------------------------- MODULE TurnStore_proofs --------------------------
(***************************************************************************)
(* Proofs about TurnStore for every number of turns, archives, posts and   *)
(* crashes, every set of inputs and every exam cadence.                    *)
(***************************************************************************)
EXTENDS TurnStore, TLAPS

-----------------------------------------------------------------------------
(* Types.  TypeOK alone is not inductive: a step that reads the redo record *)
(* or the loaded state relies on where the lock holder is.                  *)

\* What the position of the lock holder says about records and memory.
Control ==
  /\ holder = None <=> pc = "idle"
  /\ pc \in {"loaded", "ready", "turn"} => mem # None /\ pending = None /\ retiring = None
  /\ pc \in {"write", "replay"} => pending # None /\ todo \subseteq RecordFiles(pending)
  /\ pc \in {"move", "seed"} => retiring # None
  /\ pc = "move" => todo \subseteq retiring.files
  /\ pc = "seed" => todo \subseteq DOMAIN SeedOrder
  /\ pc = "write" => mem # None
  /\ pc \in {"idle", "recover", "replay"} => mem = None
  /\ pending = None \/ retiring = None

TypeInv == TypeOK /\ Control

\* The names of the redo record's files are file names.
LEMMA RecordFilesType ==
  ASSUME NEW r \in Redo
  PROVE  RecordFiles(r) \subseteq Files \cup {"notice"}
BY DEF RecordFiles, Files, TurnFiles, Traces, Transport

LEMMA SeedFiles == DOMAIN SeedOrder \subseteq Files
BY DEF SeedOrder, Files, TurnFiles, Transport

LEMMA ViewType ==
  ASSUME disk \in [Files -> Stamp \cup {None}], run \in 0..MaxRun, NEW f \in Files
  PROVE  View(f) \in Stamp
BY BoundsAssumption DEF View, Now, Stamp

LEMMA LoadedTraceType ==
  ASSUME disk \in [Files -> Stamp \cup {None}]
  PROVE  LoadedTrace \in Stamp \cup {None}
BY DEF LoadedTrace, Files, Traces

LEMMA TypeInit == Init => TypeInv
<1> SUFFICES ASSUME Init PROVE TypeInv
  OBVIOUS
<1>1. run \in 0..MaxRun /\ crashes \in 0..MaxCrashes
  BY BoundsAssumption DEF Init
<1>2. TypeOK
  BY <1>1 DEF Init, TypeOK, PCs, Memory, Redo, Retirement
<1>3. Control
  BY DEF Init, Control
<1> QED
  BY <1>2, <1>3 DEF TypeInv

LEMMA TypeStep == TypeInv /\ [Next]_vars => TypeInv'
<1> SUFFICES ASSUME TypeInv, [Next]_vars PROVE TypeInv'
  OBVIOUS
<1> USE DEF TypeInv, TypeOK, filevars, procvars, history
<1> run \in Nat /\ run \in 0..MaxRun /\ MaxRun \in Nat /\ MaxCrashes \in Nat
  BY BoundsAssumption DEF TypeOK
<1>1. ASSUME NEW t \in Texts, PostNotice(t) PROVE TypeInv'
  BY <1>1 DEF PostNotice, Control
<1>2. ASSUME NEW i \in Inputs, CourierAppend(i) PROVE TypeInv'
  <2>1. Now(0) \in Stamp
    BY DEF Now, Stamp
  <2>2. disk' \in [Files -> Stamp \cup {None}]
    BY <1>2, <2>1 DEF CourierAppend
  <2>3. (spool \cup {i}) \subseteq Inputs
    OBVIOUS
  <2> QED
    BY <1>2, <2>2, <2>3 DEF CourierAppend, Control
<1>3. ASSUME NEW p \in {"runner", "archiver"}, Enter(p) PROVE TypeInv'
  BY <1>3, NoneAssumption DEF Enter, Control, PCs
<1>4. ASSUME ResumeArchive PROVE TypeInv'
  BY <1>4, NoneAssumption DEF ResumeArchive, Control, PCs, Retirement
<1>5. ASSUME ResumeTurn PROVE TypeInv'
  BY <1>5, RecordFilesType DEF ResumeTurn, Control, PCs
<1>6. ASSUME Load PROVE TypeInv'
  <2>1. [f \in TurnFiles |-> View(f)] \in [TurnFiles -> Stamp]
    BY ViewType DEF Files
  <2>2. mem' \in Memory
    BY <1>6, <2>1, LoadedTraceType DEF Load, Memory
  <2>3. mem' # None
    BY <2>2, NoneAssumption
  <2> QED
    BY <1>6, <2>2, <2>3 DEF Load, Control, PCs
<1>7. ASSUME Publish PROVE TypeInv'
  <2>1. mem \in Memory
    BY <1>7 DEF Publish, Control
  <2>2. disk' \in [Files -> Stamp \cup {None}]
    BY <1>7, <2>1 DEF Publish, Memory, Files, TurnFiles, Traces, Transport
  <2> QED
    BY <1>7, <2>2 DEF Publish, Control, PCs
<1>8. ASSUME BeginTurn PROVE TypeInv'
  <2>1. mem \in Memory
    BY <1>8 DEF BeginTurn, Control
  <2>2. mem' \in Memory
    BY <1>8, <2>1 DEF BeginTurn, Memory
  <2>3. mem' # None
    BY <2>2, NoneAssumption
  <2>4. disk' \in [Files -> Stamp \cup {None}]
    BY <1>8, <2>1 DEF BeginTurn, Memory, Files, TurnFiles
  <2>5. imports' \in [Inputs -> Nat]
    BY <1>8 DEF BeginTurn
  <2>6. seen' \subseteq Inputs
    BY <1>8, <2>1 DEF BeginTurn, Memory
  <2> QED
    BY <1>8, <2>2, <2>3, <2>4, <2>5, <2>6 DEF BeginTurn, Control, PCs
<1>9. ASSUME NEW examined \in BOOLEAN, Stage(examined) PROVE TypeInv'
  <2> DEFINE t == mem.files["conversation"].turn + 1
             r == [turn |-> t, seen |-> mem.seen, notice |-> mem.notice,
                   trace |-> IF examined THEN Now(t) ELSE mem.trace]
  <2>1. mem \in Memory
    BY <1>9 DEF Stage, Control
  <2>2. t \in Nat
    BY <2>1 DEF Memory, TurnFiles, Stamp
  <2>3. Now(t) \in Stamp
    BY <2>2 DEF Now, Stamp
  <2>4. r \in Redo /\ r # None
    BY <2>1, <2>2, <2>3, NoneAssumption DEF Redo, Memory
  <2>5. mem' \in Memory
    BY <1>9, <2>1, <2>3, <2>4 DEF Stage, Memory, Redo
  <2>6. mem' # None
    BY <2>5, NoneAssumption
  <2>7. told' \subseteq [run : 0..MaxRun, turn : Nat, text : Texts]
    BY <1>9, <2>2, <2>4 DEF Stage, Redo
  <2>8. pending' = r /\ todo' = RecordFiles(r) /\ pc' = "write"
    BY <1>9 DEF Stage
  <2> QED
    BY <1>9, <2>4, <2>5, <2>6, <2>7, <2>8, RecordFilesType
    DEF Stage, Control, PCs
<1>10. ASSUME NEW f \in TurnFiles \cup {"completed"}, WriteFile(f) PROVE TypeInv'
  <2>1. pending \in Redo
    BY <1>10 DEF WriteFile, Control
  <2>2. f = "completed" => pending.trace \in Stamp \cup {None}
    BY <2>1 DEF Redo
  <2>3. Now(pending.turn) \in Stamp
    BY <2>1 DEF Redo, Now, Stamp
  <2>4. disk' \in [Files -> Stamp \cup {None}] /\ seen' \subseteq Inputs
    BY <1>10, <2>1, <2>2, <2>3 DEF WriteFile, Redo
  <2> QED
    BY <1>10, <2>4 DEF WriteFile, Control, PCs
<1>11. ASSUME AckNotice PROVE TypeInv'
  BY <1>11 DEF AckNotice, Control
<1>12. ASSUME CloseTurn PROVE TypeInv'
  BY <1>12 DEF CloseTurn, Control, PCs
<1>13. ASSUME StageArchive PROVE TypeInv'
  <2>1. retiring' \in Retirement /\ retiring' # None
    BY <1>13, NoneAssumption DEF StageArchive, Retirement
  <2>2. run' \in 0..MaxRun
    BY <1>13 DEF StageArchive
  <2>3. todo' = retiring'.files
    BY <1>13 DEF StageArchive
  <2> QED
    BY <1>13, <2>1, <2>2, <2>3 DEF StageArchive, Control, PCs, Retirement
<1>14. ASSUME NEW f \in Files, MoveFile(f) PROVE TypeInv'
  <2>1. retiring \in Retirement
    BY <1>14 DEF MoveFile, Control
  <2>2. disk' \in [Files -> Stamp \cup {None}] /\ seen' \subseteq Inputs /\ spool' \subseteq Inputs
    BY <1>14 DEF MoveFile
  <2>3. archives' \in [0..MaxRun -> [Files -> Stamp \cup {None}]]
    <3>1. retiring.run \in 0..MaxRun /\ disk[f] \in Stamp \cup {None}
      BY <2>1 DEF Retirement
    <3>2. archives[retiring.run] \in [Files -> Stamp \cup {None}]
      BY <3>1
    <3>3. [archives[retiring.run] EXCEPT ![f] = disk[f]] \in [Files -> Stamp \cup {None}]
      BY <3>1, <3>2
    <3> QED
      BY <1>14, <3>1, <3>3 DEF MoveFile
  <2> QED
    BY <1>14, <2>2, <2>3 DEF MoveFile, Control
<1>15. ASSUME BeginSeed PROVE TypeInv'
  BY <1>15, SeedFiles DEF BeginSeed, Control, PCs
<1>16. ASSUME NEW f \in DOMAIN SeedOrder, SeedFile(f) PROVE TypeInv'
  <2>1. retiring \in Retirement
    BY <1>16 DEF SeedFile, Control
  <2>2. Now(0) \in Stamp
    BY DEF Now, Stamp
  <2>3. disk' \in [Files -> Stamp \cup {None}] /\ seen' \subseteq Inputs /\ spool' \subseteq Inputs
    BY <1>16, <2>1, <2>2 DEF SeedFile, Retirement
  <2> QED
    BY <1>16, <2>3 DEF SeedFile, Control
<1>17. ASSUME CloseArchive PROVE TypeInv'
  BY <1>17 DEF CloseArchive, Control, PCs
<1>18. ASSUME Leave PROVE TypeInv'
  BY <1>18 DEF Leave, Control, PCs
<1>19. ASSUME Crash PROVE TypeInv'
  BY <1>19 DEF Crash, Control, PCs
<1>20. ASSUME UNCHANGED vars PROVE TypeInv'
  BY <1>20 DEF vars, Control, PCs
<1> QED
  BY <1>1, <1>2, <1>3, <1>4, <1>5, <1>6, <1>7, <1>8, <1>9, <1>10, <1>11, <1>12,
     <1>13, <1>14, <1>15, <1>16, <1>17, <1>18, <1>19, <1>20
  DEF Next, SessionStep

\* The store's state is always well typed (TypeOK, all of turn_store.py).
THEOREM TypeCorrect == Spec => []TypeOK
<1>1. Init => TypeInv
  BY TypeInit
<1>2. TypeInv /\ [Next]_vars => TypeInv'
  BY TypeStep
<1>3. TypeInv => TypeOK
  BY DEF TypeInv
<1> QED
  BY <1>1, <1>2, <1>3, PTL DEF Spec

-----------------------------------------------------------------------------
(* Coherence.  FilesAgree and RunsApart speak of the moments when no redo   *)
(* record exists; the inductive invariant says what the files are while one *)
(* does, and what the process that writes them still has to do.             *)

\* The turn the experiment is at once the staged record has been replayed.
TurnAt == IF pending # None THEN pending.turn ELSE View("conversation").turn

OfThisRun(s) == s.run = run /\ s.turn <= TurnAt

\* Between archives no file of another run is in the state directory, and no
\* trace is ahead of its turn.
Current ==
  retiring = None =>
    /\ \A f \in Files : disk[f] # None => disk[f].run = run
    /\ \A f \in Traces : disk[f] # None => disk[f].turn <= TurnAt

\* No record: the five files agree.
Whole == pending = None /\ retiring = None => \A f \in TurnFiles : View(f) = View("conversation")

\* The record of a turn carries the ids on disk and no foreign trace.
Recorded ==
  pending # None => pending.seen = seen /\ (pending.trace # None => OfThisRun(pending.trace))

\* What has been written of the record is what the record says.
Written ==
  pc \in {"write", "replay"} => \A f \in TurnFiles \ todo : disk[f] = Now(pending.turn)

\* A session works on what the files hold, or will hold once it has written them.
Working ==
  /\ pc \in {"loaded", "ready", "turn"} =>
       /\ \A f \in TurnFiles : mem.files[f] = View(f)
       /\ mem.seen = seen
       /\ mem.trace # None => OfThisRun(mem.trace)
  /\ pc = "write" =>
       /\ \A f \in TurnFiles : mem.files[f] = Now(pending.turn)
       /\ mem.seen = pending.seen /\ mem.trace = pending.trace

\* An archive under way: each file is in one of the two places, and what is
\* (or was) there is one whole turn of the retired run.
Gone(f) == archives[retiring.run][f] # None
Retiree(f) == IF f \in retiring.files
              THEN IF Gone(f) THEN archives[retiring.run][f] ELSE disk[f]
              ELSE [run |-> retiring.run, turn |-> 0]
Moving ==
  retiring # None =>
    /\ run = retiring.run + 1
    /\ \A f \in Files : Gone(f) => f \in retiring.files
    /\ \A f \in Files : disk[f] # None =>
         (f \in retiring.files /\ ~Gone(f)) \/ disk[f] = Now(0)
    /\ \A f \in TurnFiles : Retiree(f) = Retiree("conversation")
    /\ Retiree("conversation").run = retiring.run

\* How far the archiver has come.
Phase ==
  /\ pc = "move" => \A f \in retiring.files \ todo : Gone(f)
  /\ pc = "seed" => \A f \in retiring.files : Gone(f)
  /\ pc = "seed" /\ "collaboration" \notin todo => seen = retiring.seed

\* The archives of the past are whole, those of the future empty.
Archived ==
  /\ \A r \in run..MaxRun : \A f \in Files : archives[r][f] = None
  /\ \A r \in 0..MaxRun : Retired(r) =>
       /\ ArchivedFile(r, "conversation").run = r
       /\ \A f \in TurnFiles : ArchivedFile(r, f) = ArchivedFile(r, "conversation")

\* An imported input is remembered where the next importer will look.
Remembered ==
  \A i \in Inputs :
    /\ imports[i] <= 1
    /\ imports[i] = 1 => i \in (IF retiring # None THEN retiring.seed ELSE seen)

\* What holds of the disk whoever works on it, and what a session relies on.
Stored  == Current /\ Whole /\ Recorded /\ Moving /\ Archived
Session == Written /\ Working /\ MemoryWhole /\ Phase

Inv == TypeInv /\ Stored /\ Session /\ Remembered

LEMMA InvInit == Init => Inv
<1> SUFFICES ASSUME Init PROVE Inv
  OBVIOUS
<1>1. Stored
  BY BoundsAssumption
  DEF Init, Stored, Current, Whole, Recorded, Moving, Archived, Retired, View,
      Files, TurnFiles, Traces, Transport
<1>2. Session /\ Remembered
  BY DEF Init, Session, Written, Working, MemoryWhole, Phase, Remembered
<1> QED
  BY <1>1, <1>2, TypeInit DEF Inv

LEMMA StoredFrame ==
  ASSUME Stored, UNCHANGED <<disk, seen, pending, retiring, archives, run>>
  PROVE  Stored'
BY DEF Stored, Current, Whole, Recorded, Moving, Archived, Gone, Retiree, Retired,
       ArchivedFile, OfThisRun, TurnAt, View, Now

LEMMA ArchivedFrame ==
  ASSUME Archived, UNCHANGED <<archives, retiring, run>>
  PROVE  Archived'
BY DEF Archived, Retired, ArchivedFile

LEMMA RememberedFrame ==
  ASSUME Remembered, UNCHANGED <<imports, seen, retiring>>
  PROVE  Remembered'
BY DEF Remembered

LEMMA InvStep == Inv /\ [Next]_vars => Inv'
<1> SUFFICES ASSUME Inv, [Next]_vars PROVE Stored' /\ Session' /\ Remembered'
  BY TypeStep DEF Inv
<1> USE DEF filevars, procvars, history
<1>0. /\ TypeOK /\ Control /\ TypeOK' /\ Control'
      /\ Stored /\ Session /\ Remembered
      /\ run \in Nat
  BY TypeStep, BoundsAssumption DEF Inv, TypeInv, TypeOK
<1>types. /\ \A f \in TurnFiles : View(f) \in Stamp
          /\ TurnAt \in Nat
  <2>1. \A f \in TurnFiles : View(f) \in Stamp
    BY <1>0, ViewType DEF TypeOK, Files
  <2>2. TurnAt \in Nat
    BY <1>0, <2>1 DEF TurnAt, TypeOK, Redo, Stamp, TurnFiles
  <2> QED
    BY <2>1, <2>2
<1>1. ASSUME NEW t \in Texts, PostNotice(t) PROVE Stored' /\ Session' /\ Remembered'
  BY <1>0, <1>1, StoredFrame, RememberedFrame
  DEF PostNotice, Session, Written, Working, MemoryWhole, Phase, Gone, OfThisRun, TurnAt, View, Now
<1>2. ASSUME NEW i \in Inputs, CourierAppend(i) PROVE Stored' /\ Session' /\ Remembered'
  <2>1. /\ disk' = [disk EXCEPT !["inbox"] = Now(0)]
        /\ UNCHANGED <<seen, pending, retiring, archives, run, pc, todo, mem, imports>>
        /\ retiring = None
        /\ \A f \in TurnFiles \cup Traces : disk'[f] = disk[f]
    BY <1>0, <1>2 DEF CourierAppend, TypeOK, TurnFiles, Traces
  <2>2. /\ \A f \in TurnFiles : View(f)' = View(f)
        /\ TurnAt' = TurnAt
    BY <2>1 DEF View, Now, TurnAt, TurnFiles
  <2>3. Current'
    BY <1>0, <2>1, <2>2 DEF Stored, Current, TypeOK, Now, Files
  <2>4. Whole' /\ Recorded' /\ Moving'
    BY <1>0, <2>1, <2>2 DEF Stored, Whole, Recorded, Moving, OfThisRun, TurnFiles
  <2>5. Archived'
    BY <1>0, <2>1, ArchivedFrame DEF Stored
  <2>6. Session'
    BY <1>0, <1>2, <2>1, NoneAssumption DEF CourierAppend, Session, Written, Working, MemoryWhole, Phase, Control
  <2> QED
    BY <1>0, <2>1, <2>3, <2>4, <2>5, <2>6, RememberedFrame DEF Stored
<1>3. ASSUME NEW p \in {"runner", "archiver"}, Enter(p) PROVE Stored' /\ Session' /\ Remembered'
  <2>1. Session'
    BY <1>0, <1>3 DEF Enter, Session, Written, Working, MemoryWhole, Phase
  <2> QED
    BY <1>0, <1>3, <2>1, StoredFrame, RememberedFrame DEF Enter
<1>4. ASSUME ResumeArchive PROVE Stored' /\ Session' /\ Remembered'
  <2>1. Session'
    BY <1>0, <1>4 DEF ResumeArchive, Session, Written, Working, MemoryWhole, Phase
  <2> QED
    BY <1>0, <1>4, <2>1, StoredFrame, RememberedFrame DEF ResumeArchive
<1>5. ASSUME ResumeTurn PROVE Stored' /\ Session' /\ Remembered'
  <2>1. TurnFiles \ todo' = {}
    BY <1>5 DEF ResumeTurn, RecordFiles
  <2>2. Session'
    BY <1>0, <1>5, <2>1 DEF ResumeTurn, Session, Written, Working, MemoryWhole, Phase
  <2> QED
    BY <1>0, <1>5, <2>2, StoredFrame, RememberedFrame DEF ResumeTurn
<1>6. ASSUME Load PROVE Stored' /\ Session' /\ Remembered'
  <2>1. /\ UNCHANGED <<disk, seen, pending, retiring, archives, run, imports>>
        /\ pending = None /\ retiring = None /\ pc' = "loaded"
        /\ mem' = [files |-> [f \in TurnFiles |-> View(f)], seen |-> seen,
                   trace |-> LoadedTrace, notice |-> None]
    BY <1>6 DEF Load
  <2>2. \A f \in TurnFiles : mem'.files[f] = View(f)' /\ View(f) = View("conversation")
    BY <1>0, <2>1 DEF Stored, Whole, View, Now
  <2>3. LoadedTrace # None => LoadedTrace.run = run' /\ LoadedTrace.turn <= TurnAt'
    BY <1>0, <2>1 DEF Stored, Current, LoadedTrace, OfThisRun, TurnAt, View, Now, Files, Traces
  <2>4. Session'
    BY <2>1, <2>2, <2>3 DEF Session, Written, Working, MemoryWhole, Phase, OfThisRun, View, TurnFiles
  <2> QED
    BY <1>0, <2>1, <2>4, StoredFrame, RememberedFrame
<1>7. ASSUME Publish PROVE Stored' /\ Session' /\ Remembered'
  <2>1. /\ disk' = [disk EXCEPT !["outbox"] = mem.files["collaboration"],
                                !["progress"] = IF mem.trace = None THEN @ ELSE mem.trace]
        /\ UNCHANGED <<seen, pending, retiring, archives, run, mem, todo, imports>>
        /\ pc = "loaded" /\ pc' = "ready"
        /\ pending = None /\ retiring = None /\ mem \in Memory
    BY <1>0, <1>7 DEF Publish, Control, TypeOK
  <2>2. \A f \in TurnFiles \cup {"completed"} : disk'[f] = disk[f]
    BY <1>0, <2>1 DEF TypeOK, TurnFiles, Files, Traces
  <2>3. /\ \A f \in TurnFiles : View(f)' = View(f)
        /\ TurnAt' = TurnAt
    BY <2>1, <2>2 DEF View, Now, TurnAt, TurnFiles
  <2>4. mem.files["collaboration"].run = run
    BY <1>0, <2>1 DEF Session, Working, Stored, Current, View, Now, Files, TurnFiles
  <2>5. mem.trace # None => mem.trace.run = run /\ mem.trace.turn <= TurnAt
    BY <1>0, <2>1 DEF Session, Working, OfThisRun
  <2>6. Current'
    BY <1>0, <2>1, <2>3, <2>4, <2>5 DEF Stored, Current, TypeOK, Files, TurnFiles, Traces, Transport
  <2>7. Whole' /\ Recorded' /\ Moving'
    BY <1>0, <2>1, <2>3 DEF Stored, Whole, Recorded, Moving, TurnFiles
  <2>8. Archived'
    BY <1>0, <2>1, ArchivedFrame DEF Stored
  <2>9. Session'
    BY <1>0, <2>1, <2>3 DEF Session, Written, Working, MemoryWhole, Phase, OfThisRun
  <2> QED
    BY <1>0, <2>1, <2>6, <2>7, <2>8, <2>9, RememberedFrame DEF Stored
<1>8. ASSUME BeginTurn PROVE Stored' /\ Session' /\ Remembered'
  <2>1. /\ disk' = [disk EXCEPT !["collaboration"] = mem.files["collaboration"]]
        /\ mem' = [mem EXCEPT !.notice = notice, !.seen = @ \cup spool]
        /\ seen' = mem.seen \cup spool
        /\ imports' = [i \in Inputs |-> IF i \in spool \ mem.seen THEN imports[i] + 1 ELSE imports[i]]
        /\ UNCHANGED <<pending, retiring, archives, run, todo>>
        /\ pc = "ready" /\ pc' = "turn"
        /\ pending = None /\ retiring = None /\ mem \in Memory /\ mem # None
    BY <1>0, <1>8 DEF BeginTurn, Control, TypeOK
  <2>2. mem.seen = seen /\ mem.files["collaboration"] = View("collaboration")
    BY <1>0, <2>1 DEF Session, Working, TurnFiles
  <2>3. /\ \A f \in TurnFiles : View(f)' = View(f)
        /\ TurnAt' = TurnAt
    BY <1>0, <1>types, <2>1, <2>2, NoneAssumption DEF View, Now, TurnAt, TurnFiles, TypeOK, Files
  <2>4. View("collaboration").run = run
    BY <1>0, <2>1 DEF Stored, Current, View, Now, Files, TurnFiles
  <2>5. Current'
    BY <1>0, <2>1, <2>2, <2>3, <2>4 DEF Stored, Current, TypeOK, Files, TurnFiles, Traces
  <2>6. Whole' /\ Recorded' /\ Moving'
    BY <1>0, <2>1, <2>3 DEF Stored, Whole, Recorded, Moving, TurnFiles
  <2>7. Archived'
    BY <1>0, <2>1, ArchivedFrame DEF Stored
  <2>8. mem'.files = mem.files /\ mem'.trace = mem.trace /\ mem'.seen = seen'
    BY <2>1 DEF Memory
  <2>9. Session'
    <3>1. /\ \A f \in TurnFiles : mem.files[f] = View(f)
          /\ mem.trace # None => OfThisRun(mem.trace)
          /\ MemoryWhole
      BY <1>0, <2>1 DEF Session, Working
    <3>2. Working'
      BY <2>1, <2>3, <2>8, <3>1 DEF Working, OfThisRun
    <3> QED
      BY <2>1, <2>8, <3>1, <3>2 DEF Session, Written, MemoryWhole, Phase
  <2>10. Remembered'
    BY <1>0, <2>1, <2>2 DEF Remembered, TypeOK
  <2> QED
    BY <2>5, <2>6, <2>7, <2>9, <2>10 DEF Stored
<1>9. ASSUME NEW examined \in BOOLEAN, Stage(examined) PROVE Stored' /\ Session' /\ Remembered'
  <2> DEFINE t == mem.files["conversation"].turn + 1
             r == [turn |-> t, seen |-> mem.seen, notice |-> mem.notice,
                   trace |-> IF examined THEN Now(t) ELSE mem.trace]
  <2>1. /\ pending' = r /\ todo' = RecordFiles(r)
        /\ mem' = [mem EXCEPT !.files = [f \in TurnFiles |-> Now(t)], !.trace = r.trace]
        /\ UNCHANGED <<disk, seen, retiring, archives, run, imports>>
        /\ pc = "turn" /\ pc' = "write"
        /\ pending = None /\ retiring = None /\ mem \in Memory
    BY <1>0, <1>9 DEF Stage, Control, TypeOK
  <2>2. /\ t \in Nat /\ t = TurnAt + 1
        /\ mem.seen = seen
        /\ r.trace # None => r.trace.run = run /\ r.trace.turn <= t
    <3>1. mem.files["conversation"] = View("conversation") /\ mem.seen = seen
      BY <1>0, <2>1 DEF Session, Working, TurnFiles
    <3>2. t = TurnAt + 1 /\ t \in Nat
      BY <1>types, <2>1, <3>1 DEF TurnAt
    <3>3. mem.trace # None => mem.trace.run = run /\ mem.trace.turn <= TurnAt /\ mem.trace.turn \in Nat
      BY <1>0, <2>1 DEF Session, Working, OfThisRun, Memory, Stamp
    <3> QED
      BY <1>types, <3>1, <3>2, <3>3 DEF Now
  <2>3. pending' # None /\ TurnAt' = t
    BY <1>0, <2>1 DEF TurnAt, Control
  <2>4. Current'
    BY <1>0, <1>types, <2>1, <2>2, <2>3 DEF Stored, Current, TypeOK, Stamp, Files
  <2>5. Whole' /\ Moving'
    BY <2>1, <2>3 DEF Whole, Moving
  <2>6. Recorded'
    BY <2>1, <2>2, <2>3 DEF Recorded, OfThisRun
  <2>7. Archived'
    BY <1>0, <2>1, ArchivedFrame DEF Stored
  <2>8. TurnFiles \subseteq todo'
    BY <2>1 DEF RecordFiles
  <2>9. mem'.files = [f \in TurnFiles |-> Now(t)] /\ mem'.seen = mem.seen /\ mem'.trace = r.trace
    BY <2>1 DEF Memory
  <2>10. \A f \in TurnFiles : mem'.files[f] = Now(pending.turn)'
    BY <2>1, <2>9 DEF Now
  <2>11. Session'
    BY <2>1, <2>8, <2>9, <2>10 DEF Session, Written, Working, MemoryWhole, Phase, TurnFiles
  <2> QED
    BY <1>0, <2>1, <2>4, <2>5, <2>6, <2>7, <2>11, RememberedFrame DEF Stored
<1>10. ASSUME NEW f \in TurnFiles \cup {"completed"}, WriteFile(f)
       PROVE  Stored' /\ Session' /\ Remembered'
  <2>1. /\ disk' = [disk EXCEPT ![f] = IF f = "completed" THEN pending.trace ELSE Now(pending.turn)]
        /\ seen' = IF f = "collaboration" THEN pending.seen ELSE seen
        /\ todo' = todo \ {f} /\ f \in todo
        /\ UNCHANGED <<pending, retiring, archives, run, pc, mem, imports>>
        /\ pc \in {"write", "replay"} /\ todo \subseteq RecordFiles(pending)
        /\ pending # None /\ pending \in Redo /\ retiring = None
    BY <1>0, <1>10 DEF WriteFile, First, Control, TypeOK
  <2>2. seen' = seen /\ TurnAt = pending.turn /\ TurnAt' = TurnAt
    BY <1>0, <2>1 DEF Stored, Recorded, TurnAt
  <2>3. f = "completed" => pending.trace # None /\ OfThisRun(pending.trace)
    BY <1>0, <2>1 DEF RecordFiles, TurnFiles, Stored, Recorded
  <2>4. Current'
    BY <1>0, <1>types, <2>1, <2>2, <2>3 DEF Stored, Current, TypeOK, OfThisRun, Now, Files, Traces, TurnFiles
  <2>5. Whole' /\ Recorded' /\ Moving'
    BY <1>0, <2>1, <2>2 DEF Stored, Whole, Recorded, Moving, OfThisRun
  <2>6. Archived'
    BY <1>0, <2>1, ArchivedFrame DEF Stored
  <2>7. Written'
    BY <1>0, <2>1 DEF Session, Written, TypeOK, Now, Files, TurnFiles
  <2>8. Working' /\ MemoryWhole' /\ Phase'
    BY <1>0, <2>1 DEF Session, Working, MemoryWhole, Phase, Now
  <2> QED
    BY <1>0, <2>1, <2>2, <2>4, <2>5, <2>6, <2>7, <2>8, RememberedFrame DEF Stored, Session
<1>11. ASSUME AckNotice PROVE Stored' /\ Session' /\ Remembered'
  <2>1. /\ todo' = todo \ {"notice"} /\ "notice" \notin TurnFiles
        /\ UNCHANGED <<disk, seen, pending, retiring, archives, run, pc, mem, imports>>
        /\ pc \in {"write", "replay"}
    BY <1>11 DEF AckNotice, TurnFiles
  <2>2. Session'
    BY <1>0, <2>1 DEF Session, Written, Working, MemoryWhole, Phase, Now
  <2> QED
    BY <1>0, <2>1, <2>2, StoredFrame, RememberedFrame
<1>12. ASSUME CloseTurn PROVE Stored' /\ Session' /\ Remembered'
  <2>1. /\ pending' = None /\ todo = {}
        /\ UNCHANGED <<disk, seen, retiring, archives, run, mem, todo, imports>>
        /\ pc \in {"write", "replay"}
        /\ pc' = IF pc = "write" THEN "loaded" ELSE "recover"
        /\ pending # None /\ pending \in Redo /\ retiring = None
    BY <1>0, <1>12 DEF CloseTurn, Control, TypeOK
  <2>2. \A f \in TurnFiles : View(f)' = Now(pending.turn)
    <3>1. \A f \in TurnFiles : disk[f] = Now(pending.turn) /\ Now(pending.turn) # None
      BY <1>0, <2>1, NoneAssumption DEF Session, Written, Now, Stamp, Redo
    <3> QED
      BY <2>1, <3>1 DEF View, Now
  <2>3. TurnAt' = pending.turn /\ TurnAt = pending.turn
    BY <2>1, <2>2 DEF TurnAt, Now, TurnFiles
  <2>4. Current'
    BY <1>0, <2>1, <2>3 DEF Stored, Current
  <2>5. Whole' /\ Recorded' /\ Moving'
    BY <2>1, <2>2 DEF Whole, Recorded, Moving, TurnFiles
  <2>6. Archived'
    BY <1>0, <2>1, ArchivedFrame DEF Stored
  <2>7. Working'
    BY <1>0, <2>1, <2>2, <2>3 DEF Session, Working, Stored, Recorded, OfThisRun
  <2>8. Written' /\ MemoryWhole' /\ Phase'
    BY <1>0, <2>1 DEF Session, Written, MemoryWhole, Phase
  <2> QED
    BY <1>0, <2>1, <2>4, <2>5, <2>6, <2>7, <2>8, RememberedFrame DEF Stored, Session
<1>13. ASSUME StageArchive PROVE Stored' /\ Session' /\ Remembered'
  <2> DEFINE r == [files |-> {f \in Files : disk[f] # None}, seed |-> seen \cup spool, run |-> run]
  <2>1. /\ retiring' = r /\ run' = run + 1 /\ todo' = r.files /\ retiring' # None
        /\ UNCHANGED <<disk, seen, pending, archives, mem, imports>>
        /\ run < MaxRun
        /\ pc = "loaded" /\ pc' = "move" /\ pending = None /\ retiring = None
    BY <1>0, <1>13 DEF StageArchive, Control
  <2>2. \A f \in Files : ~Gone(f)'
    <3>1. retiring'.run = run /\ run \in run..MaxRun
      BY <1>0, <2>1, BoundsAssumption
    <3> QED
      BY <1>0, <2>1, <3>1 DEF Gone, Stored, Archived
  <2>3. \A f \in TurnFiles : Retiree(f)' = View(f)
    BY <2>1, <2>2 DEF Retiree, View, Now, Files
  <2>4. View("conversation").run = run
    BY <1>0, <2>1 DEF Stored, Current, View, Now, Files, TurnFiles
  <2>5. Moving'
    BY <1>0, <2>1, <2>2, <2>3, <2>4 DEF Moving, Stored, Whole, TurnFiles
  <2>6. Archived'
    BY <1>0, <2>1 DEF Stored, Archived, Retired, ArchivedFile
  <2>7. Current' /\ Whole' /\ Recorded'
    BY <2>1 DEF Current, Whole, Recorded
  <2>8. Session'
    BY <1>0, <2>1 DEF Session, Written, Working, MemoryWhole, Phase
  <2>9. Remembered'
    BY <1>0, <2>1 DEF Remembered
  <2> QED
    BY <2>5, <2>6, <2>7, <2>8, <2>9 DEF Stored
<1>14. ASSUME NEW f \in Files, MoveFile(f) PROVE Stored' /\ Session' /\ Remembered'
  <2>1. /\ f \in todo /\ todo' = todo \ {f}
        /\ Gone(f) \/ disk[f] # None
        /\ IF Gone(f)
           THEN UNCHANGED <<disk, seen, archives>>
           ELSE /\ archives' = [archives EXCEPT ![retiring.run][f] = disk[f]]
                /\ disk' = [disk EXCEPT ![f] = None]
        /\ UNCHANGED <<pending, retiring, run, pc, mem, imports>>
        /\ pc = "move" /\ retiring # None /\ retiring \in Retirement /\ pending = None
        /\ todo \subseteq retiring.files
    BY <1>0, <1>14 DEF MoveFile, First, Gone, Control, TypeOK
  <2>2. retiring.run \in 0..MaxRun /\ archives[retiring.run] \in [Files -> Stamp \cup {None}]
    BY <1>0, <2>1 DEF Retirement, TypeOK
  <2>3. /\ Gone(f)'
        /\ \A g \in Files \ {f} : Gone(g)' = Gone(g) /\ disk'[g] = disk[g]
        /\ \A g \in Files : Retiree(g)' = Retiree(g)
    BY <1>0, <2>1, <2>2 DEF Gone, Retiree, TypeOK
  <2>4. Moving'
    BY <1>0, <2>1, <2>3 DEF Stored, Moving, TypeOK, Now, Files, TurnFiles
  <2>5. Current' /\ Whole' /\ Recorded'
    BY <2>1 DEF Current, Whole, Recorded
  <2>6. Archived'
    <3>1. run = retiring.run + 1
      BY <1>0, <2>1 DEF Stored, Moving
    <3>2. \A s \in 0..MaxRun : s # retiring.run => archives'[s] = archives[s]
      BY <1>0, <2>1, <2>2 DEF TypeOK
    <3>3. \A s \in 0..MaxRun : Retired(s)' = Retired(s) /\ (Retired(s) => s # retiring.run)
      BY <2>1 DEF Retired
    <3> QED
      BY <1>0, <2>1, <2>2, <3>1, <3>2, <3>3 DEF Stored, Archived, ArchivedFile
  <2>7. Session'
    BY <1>0, <2>1, <2>3 DEF Session, Written, Working, MemoryWhole, Phase, Retirement
  <2>8. Remembered'
    BY <1>0, <2>1 DEF Remembered
  <2> QED
    BY <2>4, <2>5, <2>6, <2>7, <2>8 DEF Stored
<1>15. ASSUME BeginSeed PROVE Stored' /\ Session' /\ Remembered'
  <2>1. Session'
    BY <1>0, <1>15 DEF BeginSeed, Session, Written, Working, MemoryWhole, Phase, SeedOrder, Gone
  <2> QED
    BY <1>0, <1>15, <2>1, StoredFrame, RememberedFrame DEF BeginSeed
<1>16. ASSUME NEW f \in DOMAIN SeedOrder, SeedFile(f) PROVE Stored' /\ Session' /\ Remembered'
  <2>1. /\ disk' = [disk EXCEPT ![f] = Now(0)]
        /\ seen' = IF f = "collaboration" THEN retiring.seed ELSE seen
        /\ todo' = todo \ {f} /\ f \in Files
        /\ UNCHANGED <<pending, retiring, archives, run, pc, mem, imports>>
        /\ pc = "seed" /\ retiring # None /\ retiring \in Retirement /\ pending = None
    BY <1>0, <1>16, SeedFiles DEF SeedFile, Control, TypeOK
  <2>2. \A g \in Files : Gone(g)' = Gone(g)
    BY <2>1 DEF Gone
  <2>3. \A g \in Files : Retiree(g)' = Retiree(g)
    BY <1>0, <2>1, <2>2 DEF Retiree, Session, Phase, Gone
  <2>4. Moving'
    BY <1>0, <2>1, <2>2, <2>3 DEF Stored, Moving, TypeOK, Now, Files, TurnFiles
  <2>5. Current' /\ Whole' /\ Recorded'
    BY <2>1 DEF Current, Whole, Recorded
  <2>6. Archived'
    BY <1>0, <2>1, ArchivedFrame DEF Stored
  <2>7. Session'
    BY <1>0, <2>1 DEF Session, Written, Working, MemoryWhole, Phase, Gone
  <2>8. Remembered'
    BY <1>0, <2>1 DEF Remembered
  <2> QED
    BY <2>4, <2>5, <2>6, <2>7, <2>8 DEF Stored
<1>17. ASSUME CloseArchive PROVE Stored' /\ Session' /\ Remembered'
  <2>1. /\ retiring' = None /\ todo = {}
        /\ UNCHANGED <<disk, seen, pending, archives, run, todo, imports>>
        /\ pc = "seed" /\ pc' \in {"recover", "idle"} /\ mem' = None
        /\ retiring # None /\ retiring \in Retirement /\ pending = None
    BY <1>0, <1>17 DEF CloseArchive, Control, TypeOK
  <2>2. /\ \A f \in Files : disk[f] # None => disk[f] = Now(0)
        /\ \A f \in retiring.files : Gone(f)
        /\ seen = retiring.seed
    BY <1>0, <2>1 DEF Stored, Moving, Session, Phase
  <2>3. \A f \in TurnFiles : View(f)' = Now(0)
    BY <2>1, <2>2 DEF View, Now, Files
  <2>4. TurnAt' = 0
    BY <2>1, <2>3 DEF TurnAt, Now, TurnFiles
  <2>5. Current' /\ Whole' /\ Recorded' /\ Moving'
    BY <2>1, <2>2, <2>3, <2>4 DEF Current, Whole, Recorded, Moving, Now, Traces, TurnFiles, Files
  <2>6. \A f \in TurnFiles : ArchivedFile(retiring.run, f) = Retiree(f)
    BY <1>0, <2>1, <2>2 DEF ArchivedFile, Retiree, Stored, Moving, Gone, Files
  <2>7. Archived'
    BY <1>0, <2>1, <2>6 DEF Stored, Moving, Archived, Retired, ArchivedFile, TurnFiles
  <2>8. Session'
    BY <2>1 DEF Session, Written, Working, MemoryWhole, Phase
  <2>9. Remembered'
    BY <1>0, <2>1, <2>2 DEF Remembered
  <2> QED
    BY <2>5, <2>7, <2>8, <2>9 DEF Stored
<1>18. ASSUME Leave PROVE Stored' /\ Session' /\ Remembered'
  <2>1. Session'
    BY <1>18 DEF Leave, Session, Written, Working, MemoryWhole, Phase
  <2> QED
    BY <1>0, <1>18, <2>1, StoredFrame, RememberedFrame DEF Leave
<1>19. ASSUME Crash PROVE Stored' /\ Session' /\ Remembered'
  <2>1. Session'
    BY <1>19 DEF Crash, Session, Written, Working, MemoryWhole, Phase
  <2> QED
    BY <1>0, <1>19, <2>1, StoredFrame, RememberedFrame DEF Crash
<1>20. ASSUME UNCHANGED vars PROVE Stored' /\ Session' /\ Remembered'
  <2>1. Session'
    BY <1>0, <1>20 DEF vars, Session, Written, Working, MemoryWhole, Phase, Gone, OfThisRun, TurnAt, View, Now
  <2> QED
    BY <1>0, <1>20, <2>1, StoredFrame, RememberedFrame DEF vars
<1> QED
  BY <1>1, <1>2, <1>3, <1>4, <1>5, <1>6, <1>7, <1>8, <1>9, <1>10, <1>11, <1>12,
     <1>13, <1>14, <1>15, <1>16, <1>17, <1>18, <1>19, <1>20
  DEF Next, SessionStep

LEMMA Invariance == Spec => []Inv
BY InvInit, InvStep, PTL DEF Spec

\* No caller ever finds a torn turn: whatever was interrupted, once no redo
\* record is left the five files hold the same turn of the current run
\* (turn_store.commit, _recover, load).
THEOREM NoTornTurn == Spec => []FilesAgree
<1>1. Inv => FilesAgree
  BY DEF Inv, Stored, Current, Whole, FilesAgree, TurnAt, LoadedTrace, View, Now,
         Files, TurnFiles, Traces
<1> QED
  BY <1>1, Invariance, PTL

\* A process never works on files of two different turns (turn_store.load).
THEOREM NoTornMemory == Spec => []MemoryWhole
<1>1. Inv => MemoryWhole
  BY DEF Inv, Session
<1> QED
  BY <1>1, Invariance, PTL

\* A finished archive is one whole turn of its run, and the state directory
\* keeps nothing of it (turn_store.archive, _recover_archive).
THEOREM ArchivesAreWhole == Spec => []RunsApart
<1>1. Inv => RunsApart
  BY DEF Inv, Stored, Current, Archived, RunsApart
<1> QED
  BY <1>1, Invariance, PTL

\* No human input is imported twice, in one run or in two (import_inbox_spool,
\* turn_store.archive).
THEOREM InputsImportedOnce == Spec => []ImportedOnce
<1>1. Inv => ImportedOnce
  BY DEF Inv, Remembered, ImportedOnce
<1> QED
  BY <1>1, Invariance, PTL

\* An archived original is never overwritten (_recover_archive).
THEOREM ArchivesAreKept == Spec => ArchiveKept
<1>1. Inv /\ [Next]_vars =>
        \A r \in 0..MaxRun : \A f \in Files : archives[r][f] # None => archives'[r][f] = archives[r][f]
  <2> SUFFICES ASSUME Inv, [Next]_vars, NEW r \in 0..MaxRun, NEW f \in Files,
                      archives[r][f] # None
               PROVE  archives'[r][f] = archives[r][f]
    OBVIOUS
  <2>1. CASE UNCHANGED archives
    BY <2>1
  <2>2. ASSUME NEW g \in Files, MoveFile(g) PROVE archives'[r][f] = archives[r][f]
    <3>1. archives \in [0..MaxRun -> [Files -> Stamp \cup {None}]] /\ retiring \in Retirement
      BY <2>2 DEF Inv, TypeInv, TypeOK, Control, MoveFile
    <3>2. retiring.run \in 0..MaxRun
      BY <3>1 DEF Retirement
    <3>3. CASE archives' = archives
      BY <3>3
    <3>4. CASE archives' = [archives EXCEPT ![retiring.run][g] = disk[g]] /\ archives[retiring.run][g] = None
      BY <3>1, <3>2, <3>4
    <3> QED
      BY <2>2, <3>3, <3>4 DEF MoveFile
  <2> QED
    BY <2>1, <2>2 DEF Next, SessionStep, vars, filevars, PostNotice, CourierAppend, Enter,
       ResumeArchive, ResumeTurn, Load, Publish, BeginTurn, Stage, WriteFile, AckNotice,
       CloseTurn, StageArchive, BeginSeed, SeedFile, CloseArchive, Leave, Crash
<1> QED
  BY <1>1, Invariance, PTL DEF Spec, ArchiveKept

-----------------------------------------------------------------------------
(* The store implements whole turns and whole archives.  A turn happens at  *)
(* Stage and an archive at StageArchive; everything after that, and every   *)
(* replay of it, must leave what the callers see as it is.                  *)

\* What the callers see, by the names of AtomicTurns.
AbsSeen == IF retiring # None THEN retiring.seed ELSE seen
AbsNotice == IF Acknowledged THEN None ELSE notice
AbsRetired == {[run |-> r, turn |-> LastTurn(r)] : r \in 0..run-1}

\* The notice a record will acknowledge has been told in its turn.
Told ==
  pending # None /\ pending.notice # None =>
    [run |-> run, turn |-> pending.turn, text |-> pending.notice] \in told

Same ==
  /\ UNCHANGED <<run, posts, told>>
  /\ AbsTurn' = AbsTurn /\ AbsSeen' = AbsSeen
  /\ AbsNotice' = AbsNotice /\ AbsRetired' = AbsRetired

LEMMA Stutters == Same => UNCHANGED Atomic!avars
BY DEF Same, Atomic!avars, AbsSeen, AbsNotice, AbsRetired

\* A step that neither moves a file nor touches a record.
LEMMA SeenFrame ==
  ASSUME UNCHANGED <<disk, seen, pending, retiring, archives, run>>
  PROVE  AbsTurn' = AbsTurn /\ AbsSeen' = AbsSeen /\ AbsRetired' = AbsRetired
BY DEF AbsTurn, AbsSeen, AbsRetired, LastTurn, ArchivedFile, View, Now

LEMMA RetiredFrame ==
  ASSUME run' = run, \A r \in 0..run-1 : LastTurn(r)' = LastTurn(r)
  PROVE  AbsRetired' = AbsRetired
BY DEF AbsRetired

\* Between archives the past is what the archives say.
LEMMA RetiredIdle ==
  ASSUME retiring = None, retiring' = None, archives' = archives, run' = run
  PROVE  AbsRetired' = AbsRetired
BY DEF AbsRetired, LastTurn, ArchivedFile

\* Without a record nothing is acknowledged ahead of its removal.
LEMMA NoticeIdle == ASSUME pending = None PROVE ~Acknowledged
BY DEF Acknowledged

LEMMA ToldFrame ==
  ASSUME Told, UNCHANGED <<pending, run>>, told \subseteq told'
  PROVE  Told'
BY DEF Told

LEMMA AtomicPost ==
  ASSUME Inv, Told, NEW t \in Texts, PostNotice(t)
  PROVE  (Atomic!Post(t) \/ Atomic!PostAgain(t)) /\ Told'
<1>1. /\ notice' = t /\ posts' = [posts EXCEPT ![t] = @ + 1] /\ t # None
      /\ UNCHANGED <<disk, seen, pending, retiring, archives, run, told, pc, todo>>
  BY NoneAssumption DEF PostNotice, procvars
<1>2. Told'
  BY <1>1, ToldFrame
<1>3. AbsTurn' = AbsTurn /\ AbsSeen' = AbsSeen /\ AbsRetired' = AbsRetired
  BY <1>1, SeenFrame
<1>4. CASE Acknowledged'
  <2>1. pending # None /\ pending.notice = t
    BY <1>1, <1>4 DEF Acknowledged
  <2>2. AbsTurn = pending.turn
    BY <2>1 DEF AbsTurn
  <2>3. Atomic!ToldLast(t)
    BY <1>1, <2>1, <2>2 DEF Told, Atomic!ToldLast
  <2> QED
    BY <1>1, <1>2, <1>3, <1>4, <2>3 DEF Atomic!PostAgain, AbsSeen, AbsRetired
<1>5. CASE ~Acknowledged'
  BY <1>1, <1>2, <1>3, <1>5 DEF Atomic!Post, AbsSeen, AbsRetired
<1> QED
  BY <1>4, <1>5

\* Sessions that come and go, and what they read.
LEMMA AtomicQuiet ==
  ASSUME Inv, Told,
         \/ \E p \in {"runner", "archiver"} : Enter(p)
         \/ ResumeArchive \/ ResumeTurn \/ Load \/ Leave \/ BeginSeed
  PROVE  Same /\ Told'
<1>1. UNCHANGED <<disk, seen, notice, pending, retiring, archives, run, posts, told>>
  BY DEF Enter, ResumeArchive, ResumeTurn, Load, Leave, BeginSeed, filevars, history
<1>2. Told'
  BY <1>1, ToldFrame
<1>3. AbsTurn' = AbsTurn /\ AbsSeen' = AbsSeen /\ AbsRetired' = AbsRetired
  BY <1>1, SeenFrame
<1>4. AbsNotice' = AbsNotice
  <2>0. Control
    BY DEF Inv, TypeInv
  <2>1. CASE pending = None
    BY <1>1, <2>1 DEF AbsNotice, Acknowledged
  <2>2. CASE pending # None
    <3>1. pc \in {"idle", "recover"}
      BY <2>0, <2>2 DEF Control, Enter, ResumeArchive, ResumeTurn, Load, Leave, BeginSeed
    <3>2. \/ pc' = "recover"
          \/ pc' = "replay" /\ todo' = RecordFiles(pending)
      BY <2>0, <2>2, <3>1 DEF Control, Enter, ResumeArchive, ResumeTurn, Load, Leave, BeginSeed
    <3>3. pending.notice # None => "notice" \in RecordFiles(pending)
      BY DEF RecordFiles
    <3>4. CASE pending.notice # notice
      BY <1>1, <3>4 DEF AbsNotice, Acknowledged
    <3>5. CASE pending.notice = notice /\ notice = None
      BY <1>1, <3>5 DEF AbsNotice
    <3>6. CASE pending.notice = notice /\ notice # None
      BY <1>1, <2>2, <3>1, <3>2, <3>3, <3>6 DEF AbsNotice, Acknowledged
    <3> QED
      BY <3>4, <3>5, <3>6
  <2> QED
    BY <2>1, <2>2
<1> QED
  BY <1>1, <1>2, <1>3, <1>4 DEF Same

\* The derived files and the spool are nothing a caller sees.
LEMMA AtomicAside ==
  ASSUME Inv, Told, Publish \/ \E i \in Inputs : CourierAppend(i)
  PROVE  Same /\ Told'
<1>0. TypeOK /\ Control
  BY DEF Inv, TypeInv
<1>1. /\ UNCHANGED <<seen, notice, pending, retiring, archives, run, posts, told>>
      /\ retiring = None
      /\ (pc' = pc /\ todo' = todo) \/ pending = None
  BY <1>0 DEF Control, Publish, CourierAppend, history, procvars
<1>2. disk'["conversation"] = disk["conversation"]
  BY <1>0 DEF Publish, CourierAppend, TypeOK, Files, TurnFiles
<1>3. AbsTurn' = AbsTurn
  BY <1>1, <1>2 DEF AbsTurn, View, Now
<1>4. AbsSeen' = AbsSeen /\ AbsNotice' = AbsNotice
  BY <1>1 DEF AbsSeen, AbsNotice, Acknowledged
<1>5. AbsRetired' = AbsRetired
  BY <1>1, RetiredIdle
<1> QED
  BY <1>1, <1>3, <1>4, <1>5, ToldFrame DEF Same

\* The early save of collaboration.json makes the spool's new ids known.
LEMMA AtomicImport ==
  ASSUME Inv, Told, BeginTurn
  PROVE  (Same \/ \E ids \in SUBSET Inputs : Atomic!Import(ids)) /\ Told'
<1>0. TypeOK /\ Control /\ Session
  BY DEF Inv, TypeInv
<1>1. /\ UNCHANGED <<notice, pending, retiring, archives, run, posts, told>>
      /\ seen' = mem.seen \cup spool /\ mem.seen = seen
      /\ disk' = [disk EXCEPT !["collaboration"] = mem.files["collaboration"]]
      /\ retiring = None /\ pending = None
  BY <1>0 DEF Control, BeginTurn, Session, Working
<1>2. disk'["conversation"] = disk["conversation"]
  BY <1>0, <1>1 DEF TypeOK, Files, TurnFiles
<1>3. /\ AbsTurn' = AbsTurn /\ AbsRetired' = AbsRetired /\ AbsNotice' = AbsNotice
      /\ AbsSeen = seen /\ AbsSeen' = seen \cup spool
  <2>1. AbsTurn' = AbsTurn
    BY <1>1, <1>2 DEF AbsTurn, View, Now
  <2>2. AbsRetired' = AbsRetired
    BY <1>1, RetiredIdle
  <2>3. AbsNotice' = AbsNotice
    BY <1>1 DEF AbsNotice, Acknowledged
  <2>4. AbsSeen = seen /\ AbsSeen' = seen \cup spool
    BY <1>1 DEF AbsSeen
  <2> QED
    BY <2>1, <2>2, <2>3, <2>4
<1>4. Told'
  BY <1>1, ToldFrame
<1> DEFINE ids == spool \ seen
<1>5. CASE ids = {}
  <2>1. AbsSeen' = AbsSeen
    BY <1>3, <1>5
  <2> QED
    BY <1>1, <1>3, <1>4, <2>1 DEF Same
<1>6. CASE ids # {}
  <2>1. ids \in SUBSET Inputs /\ ids \cap AbsSeen = {} /\ AbsSeen' = AbsSeen \cup ids
    BY <1>0, <1>3 DEF TypeOK
  <2> HIDE DEF ids
  <2>2. Atomic!Import(ids)
    BY <1>1, <1>3, <1>6, <2>1 DEF Atomic!Import, AbsSeen, AbsNotice, AbsRetired
  <2> QED
    BY <1>4, <2>1, <2>2
<1> QED
  BY <1>5, <1>6

\* The turn happens when its record is staged.
LEMMA AtomicStage ==
  ASSUME Inv, Told, NEW examined \in BOOLEAN, Stage(examined)
  PROVE  (Atomic!QuietTurn \/ \E t \in Texts : Atomic!NoticeTurn(t)) /\ Told'
<1> DEFINE t == mem.files["conversation"].turn + 1
           r == [turn |-> t, seen |-> mem.seen, notice |-> mem.notice,
                 trace |-> IF examined THEN Now(t) ELSE mem.trace]
<1>0. TypeOK /\ Control /\ Session
  BY DEF Inv, TypeInv
<1>1. /\ pending' = r /\ todo' = RecordFiles(r) /\ pc' = "write"
      /\ told' = IF r.notice = None THEN told
                 ELSE told \cup {[run |-> run, turn |-> t, text |-> r.notice]}
      /\ UNCHANGED <<disk, seen, notice, retiring, archives, run, posts>>
      /\ pending = None /\ retiring = None /\ pc = "turn" /\ mem \in Memory
  BY <1>0 DEF Stage, Control, TypeOK
<1>2. t = AbsTurn + 1
  BY <1>0, <1>1 DEF Session, Working, AbsTurn, TurnFiles
<1>3. pending' # None
  <2>1. Control' /\ pc' = "write"
    BY <1>1, TypeStep DEF Inv, TypeInv, Next, SessionStep
  <2> QED
    BY <2>1 DEF Control
<1>4. r.turn = t /\ r.notice = mem.notice /\ mem.notice \in Texts \cup {None}
  BY <1>1 DEF Memory
<1> HIDE DEF t, r
<1>5. AbsTurn' = AbsTurn + 1 /\ AbsSeen' = AbsSeen /\ AbsRetired' = AbsRetired
  <2>1. AbsTurn' = t
    BY <1>1, <1>3, <1>4 DEF AbsTurn
  <2>2. AbsSeen' = AbsSeen /\ AbsRetired' = AbsRetired
    BY <1>1, RetiredIdle DEF AbsSeen
  <2> QED
    BY <1>2, <2>1, <2>2
<1>6. AbsNotice = notice
  BY <1>1, NoticeIdle DEF AbsNotice
<1>7. CASE r.notice = None
  <2>1. AbsNotice' = notice
    BY <1>1, <1>7 DEF AbsNotice, Acknowledged
  <2>2. Told'
    BY <1>1, <1>7 DEF Told
  <2> QED
    BY <1>1, <1>5, <1>6, <1>7, <2>1, <2>2
    DEF Atomic!QuietTurn, AbsSeen, AbsNotice, AbsRetired
<1>8. CASE r.notice # None
  <2>1. "notice" \in todo'
    BY <1>1, <1>8 DEF RecordFiles
  <2>2. AbsNotice' = IF AbsNotice = r.notice THEN None ELSE AbsNotice
    BY <1>1, <1>3, <1>6, <2>1 DEF AbsNotice, Acknowledged
  <2>3. told' = told \cup {[run |-> run, turn |-> AbsTurn + 1, text |-> r.notice]}
    BY <1>1, <1>2, <1>8
  <2>4. Told'
    BY <1>1, <1>4, <1>8 DEF Told
  <2>5. r.notice \in Texts
    BY <1>4, <1>8
  <2>6. Atomic!NoticeTurn(r.notice)
    BY <1>1, <1>5, <2>2, <2>3 DEF Atomic!NoticeTurn, AbsSeen, AbsNotice, AbsRetired
  <2> QED
    BY <2>4, <2>5, <2>6
<1> QED
  BY <1>7, <1>8

\* Writing the files of a record that is on disk changes nothing.
LEMMA AtomicWrite ==
  ASSUME Inv, Told, \E f \in TurnFiles \cup {"completed"} : WriteFile(f)
  PROVE  Same /\ Told'
<1>0. TypeOK /\ Control /\ Stored
  BY DEF Inv, TypeInv
<1>1. PICK f \in TurnFiles \cup {"completed"} : WriteFile(f)
  OBVIOUS
<1>2. /\ UNCHANGED <<notice, pending, retiring, archives, run, posts, told, pc>>
      /\ todo' = todo \ {f} /\ f # "notice" /\ pending # None /\ retiring = None
      /\ seen' = seen
  BY <1>0, <1>1 DEF WriteFile, Control, Stored, Recorded, history
<1>3. AbsTurn' = AbsTurn /\ AbsSeen' = AbsSeen
  BY <1>2 DEF AbsTurn, AbsSeen
<1>4. AbsNotice' = AbsNotice
  BY <1>2 DEF AbsNotice, Acknowledged
<1> QED
  BY <1>2, <1>3, <1>4, RetiredIdle, ToldFrame DEF Same

\* The mailbox is emptied of the text that was already seen as gone.
LEMMA AtomicAck ==
  ASSUME Inv, Told, AckNotice
  PROVE  Same /\ Told'
<1>0. TypeOK /\ Control
  BY DEF Inv, TypeInv
<1>1. /\ UNCHANGED <<disk, seen, pending, retiring, archives, run, posts, told, pc>>
      /\ notice' = IF notice = pending.notice THEN None ELSE notice
      /\ "notice" \in todo /\ "notice" \notin todo' /\ pc \in {"write", "replay"}
      /\ pending # None
  BY <1>0 DEF AckNotice, First, Control, history
<1>2. AbsNotice = notice'
  BY <1>1 DEF AbsNotice, Acknowledged
<1>3. AbsNotice' = notice'
  BY <1>1 DEF AbsNotice, Acknowledged
<1> QED
  BY <1>1, <1>2, <1>3, SeenFrame, ToldFrame DEF Same

\* The record goes when the files say what it said.
LEMMA AtomicClose ==
  ASSUME Inv, Told, CloseTurn
  PROVE  Same /\ Told'
<1>0. TypeOK /\ Control /\ Session
  BY DEF Inv, TypeInv
<1>1. /\ UNCHANGED <<disk, seen, notice, retiring, archives, run, posts, told>>
      /\ pending' = None /\ todo = {} /\ pc \in {"write", "replay"}
      /\ pending # None /\ pending \in Redo /\ retiring = None
  BY <1>0 DEF CloseTurn, Control, TypeOK, history
<1>2. disk["conversation"] = Now(pending.turn) /\ Now(pending.turn) # None
  BY <1>0, <1>1, NoneAssumption DEF Session, Written, TurnFiles, Now, Stamp, Redo, TypeOK
<1>3. AbsTurn' = AbsTurn
  BY <1>1, <1>2 DEF AbsTurn, View, Now
<1>4. ~Acknowledged /\ ~Acknowledged'
  BY <1>1 DEF Acknowledged
<1>5. AbsNotice' = AbsNotice /\ AbsSeen' = AbsSeen
  BY <1>1, <1>4 DEF AbsNotice, AbsSeen
<1> QED
  BY <1>1, <1>3, <1>5, RetiredIdle DEF Same, Told

\* The archive happens when its record is staged.
LEMMA AtomicArchive ==
  ASSUME Inv, Told, StageArchive
  PROVE  (\E ids \in SUBSET Inputs : Atomic!Archive(ids)) /\ Told'
<1> DEFINE r == [files |-> {f \in Files : disk[f] # None}, seed |-> seen \cup spool, run |-> run]
<1>0. TypeOK /\ Control /\ Stored /\ run \in Nat
  BY BoundsAssumption DEF Inv, TypeInv, TypeOK
<1>1. /\ retiring' = r /\ run' = run + 1 /\ run < MaxRun
      /\ UNCHANGED <<disk, seen, notice, pending, archives, posts, told>>
      /\ pending = None /\ retiring = None
  BY <1>0 DEF StageArchive, Control
<1>2. retiring' # None
  <2>1. Control' /\ pc' = "move"
    BY TypeStep DEF StageArchive, Inv, TypeInv, Next, SessionStep
  <2> QED
    BY <2>1 DEF Control
<1>3. AbsTurn' = 0 /\ AbsSeen' = AbsSeen \cup spool /\ AbsNotice' = AbsNotice
  BY <1>1, <1>2 DEF AbsTurn, AbsSeen, AbsNotice, Acknowledged
<1>4. archives[run]["conversation"] = None
  <2>1. run \in run..MaxRun /\ "conversation" \in Files
    BY <1>0, <1>1, BoundsAssumption DEF Files, TurnFiles
  <2> QED
    BY <1>0, <2>1 DEF Stored, Archived
<1>5. PICK d : d = run
  OBVIOUS
<1>6. LastTurn(d)' = AbsTurn
  <2>1. retiring'.run = d /\ ("conversation" \in retiring'.files <=> disk["conversation"] # None)
    BY <1>1, <1>5 DEF Files, TurnFiles
  <2>2. CASE disk["conversation"] # None
    BY <1>1, <1>2, <1>4, <1>5, <2>1, <2>2 DEF LastTurn, AbsTurn, View
  <2>3. CASE disk["conversation"] = None
    BY <1>1, <1>2, <1>4, <1>5, <2>1, <2>3 DEF LastTurn, ArchivedFile, AbsTurn, View, Now
  <2> QED
    BY <2>2, <2>3
<1>7. \A q \in 0..d-1 : LastTurn(q)' = LastTurn(q)
  <2>1. \A q \in 0..d-1 : retiring'.run # q
    BY <1>0, <1>1, <1>5
  <2> QED
    BY <1>1, <2>1 DEF LastTurn, ArchivedFile
<1>8. AbsRetired' = AbsRetired \cup {[run |-> run, turn |-> AbsTurn]}
  <2>1. 0..run'-1 = (0..d-1) \cup {d}
    BY <1>0, <1>1, <1>5
  <2>2. AbsRetired' = {[run |-> q, turn |-> LastTurn(q)'] : q \in (0..d-1) \cup {d}}
    BY <2>1 DEF AbsRetired
  <2>3. AbsRetired = {[run |-> q, turn |-> LastTurn(q)] : q \in 0..d-1}
    BY <1>5 DEF AbsRetired
  <2> QED
    BY <1>5, <1>6, <1>7, <2>2, <2>3
<1>9. PICK ids \in SUBSET Inputs : ids = spool
  BY <1>0 DEF TypeOK
<1>10. Atomic!Archive(ids)
  BY <1>1, <1>3, <1>8, <1>9 DEF Atomic!Archive, AbsSeen, AbsNotice, AbsRetired
<1>11. Told'
  BY <1>1 DEF Told
<1> QED
  BY <1>9, <1>10, <1>11

\* The run was over when the archive was staged: moving and seeding its files
\* changes nothing any more.
LEMMA AtomicMove ==
  ASSUME Inv, Inv', Told,
         (\E f \in Files : MoveFile(f)) \/ \E f \in DOMAIN SeedOrder : SeedFile(f)
  PROVE  Same /\ Told'
<1>0. TypeOK /\ Control /\ Stored /\ Session
  BY DEF Inv, TypeInv
<1>1. /\ UNCHANGED <<notice, pending, retiring, run, posts, told>>
      /\ pending = None /\ retiring # None /\ retiring \in Retirement
  BY <1>0 DEF MoveFile, SeedFile, Control, TypeOK, history
<1>2. AbsTurn' = AbsTurn /\ AbsSeen' = AbsSeen /\ AbsNotice' = AbsNotice
  BY <1>1 DEF AbsTurn, AbsSeen, AbsNotice, Acknowledged
<1>3. /\ Retiree("conversation")' = Retiree("conversation")
      /\ \A r \in 0..MaxRun : r # retiring.run => archives'[r] = archives[r]
  <2>1. retiring.run \in 0..MaxRun /\ archives[retiring.run] \in [Files -> Stamp \cup {None}]
    BY <1>0, <1>1 DEF Retirement, TypeOK
  <2>2. "conversation" \in Files
    BY DEF Files, TurnFiles
  <2>3. ASSUME NEW f \in Files, MoveFile(f)
        PROVE  /\ Retiree("conversation")' = Retiree("conversation")
               /\ \A r \in 0..MaxRun : r # retiring.run => archives'[r] = archives[r]
    <3>1. CASE Gone(f)
      BY <2>3, <3>1 DEF MoveFile, Gone, Retiree
    <3>2. CASE ~Gone(f)
      <4>1. /\ archives' = [archives EXCEPT ![retiring.run][f] = disk[f]]
            /\ disk' = [disk EXCEPT ![f] = None] /\ disk[f] # None
            /\ retiring' = retiring
        BY <2>3, <3>2 DEF MoveFile, Gone
      <4> QED
        BY <1>0, <2>1, <2>2, <3>2, <4>1 DEF Gone, Retiree, TypeOK
    <3> QED
      BY <3>1, <3>2
  <2>4. ASSUME NEW f \in DOMAIN SeedOrder, SeedFile(f)
        PROVE  /\ Retiree("conversation")' = Retiree("conversation")
               /\ archives' = archives
    <3>1. archives' = archives /\ retiring' = retiring /\ pc = "seed"
      BY <2>4 DEF SeedFile
    <3> QED
      BY <1>0, <3>1 DEF Retiree, Gone, Session, Phase
  <2> QED
    BY <2>3, <2>4
<1>4. \A r \in 0..run-1 : LastTurn(r)' = LastTurn(r)
  <2> SUFFICES ASSUME NEW r \in 0..run-1 PROVE LastTurn(r)' = LastTurn(r)
    OBVIOUS
  <2>1. r \in 0..MaxRun
    BY <1>0, BoundsAssumption DEF TypeOK
  <2>2. CASE r = retiring.run
    <3>1. /\ Gone("conversation") => "conversation" \in retiring.files
          /\ Gone("conversation")' => "conversation" \in retiring'.files
      BY <1>1 DEF Inv, Stored, Moving, Files, TurnFiles
    <3>2. LastTurn(r) = Retiree("conversation").turn
      BY <1>1, <2>2, <3>1 DEF LastTurn, Retiree, Gone, ArchivedFile
    <3>3. LastTurn(r)' = Retiree("conversation")'.turn
      BY <1>1, <2>2, <3>1 DEF LastTurn, Retiree, Gone, ArchivedFile
    <3> QED
      BY <1>3, <3>2, <3>3
  <2>3. CASE r # retiring.run
    BY <1>1, <1>3, <2>1, <2>3 DEF LastTurn, ArchivedFile
  <2> QED
    BY <2>2, <2>3
<1> QED
  BY <1>1, <1>2, <1>4, RetiredFrame, ToldFrame DEF Same

\* The last record goes, and the new run is at its beginning.
LEMMA AtomicEnd ==
  ASSUME Inv, Told, CloseArchive
  PROVE  Same /\ Told'
<1>0. TypeOK /\ Control /\ Stored /\ Session
  BY DEF Inv, TypeInv
<1>1. /\ UNCHANGED <<disk, seen, notice, pending, archives, run, posts, told>>
      /\ retiring' = None /\ pc = "seed" /\ todo = {}
      /\ pending = None /\ retiring # None
  BY <1>0 DEF CloseArchive, Control, history
<1>2. /\ seen = retiring.seed
      /\ \A f \in Files : disk[f] # None => disk[f] = Now(0)
      /\ \A f \in retiring.files : Gone(f)
      /\ \A f \in Files : Gone(f) => f \in retiring.files
  BY <1>0, <1>1 DEF Stored, Moving, Session, Phase
<1>3. "conversation" \in Files
  BY DEF Files, TurnFiles
<1>4. AbsTurn = 0 /\ AbsTurn' = 0
  BY <1>1, <1>2, <1>3 DEF AbsTurn, View, Now
<1>5. AbsSeen' = AbsSeen /\ AbsNotice' = AbsNotice
  BY <1>1, <1>2 DEF AbsSeen, AbsNotice, Acknowledged
<1>6. \A r \in 0..run-1 : LastTurn(r)' = LastTurn(r)
  BY <1>1, <1>2, <1>3 DEF LastTurn, ArchivedFile, Gone
<1> QED
  BY <1>1, <1>4, <1>5, <1>6, RetiredFrame, ToldFrame DEF Same

\* A crash forgets that the notice was acknowledged: the very text, posted
\* again since, may be taken for the one that was told.
LEMMA AtomicCrash ==
  ASSUME Inv, Told, Crash
  PROVE  (Same \/ Atomic!Absorb) /\ Told'
<1>1. /\ UNCHANGED <<disk, seen, notice, pending, retiring, archives, run, posts, told>>
      /\ pc' = "idle"
  BY DEF Crash, filevars
<1>2. Told'
  BY <1>1, ToldFrame
<1>3. AbsTurn' = AbsTurn /\ AbsSeen' = AbsSeen /\ AbsRetired' = AbsRetired
  BY <1>1, SeenFrame
<1>4. CASE AbsNotice' = AbsNotice
  BY <1>1, <1>2, <1>3, <1>4 DEF Same
<1>5. CASE AbsNotice' # AbsNotice
  <2>1. AbsNotice = notice /\ AbsNotice' = None /\ notice # None
    BY <1>1, <1>5 DEF AbsNotice, Acknowledged
  <2>2. pending # None /\ pending.notice = notice
    BY <1>1, <2>1 DEF AbsNotice, Acknowledged
  <2>3. Atomic!ToldLast(AbsNotice)
    BY <2>1, <2>2 DEF Told, Atomic!ToldLast, AbsTurn
  <2> QED
    BY <1>1, <1>2, <1>3, <2>1, <2>3 DEF Atomic!Absorb, AbsSeen, AbsNotice, AbsRetired
<1> QED
  BY <1>4, <1>5

LEMMA AtomicStep ==
  ASSUME Inv, Inv', Told, [Next]_vars
  PROVE  [Atomic!Next]_(Atomic!avars) /\ Told'
<1>1. CASE UNCHANGED vars
  <2>1. UNCHANGED <<filevars, procvars, history>>
    BY <1>1 DEF vars
  <2>2. AbsTurn' = AbsTurn /\ AbsSeen' = AbsSeen /\ AbsRetired' = AbsRetired
    BY <2>1, SeenFrame DEF filevars, history
  <2>3. AbsNotice' = AbsNotice
    BY <2>1 DEF AbsNotice, Acknowledged, filevars, procvars
  <2>4. Same /\ Told'
    BY <2>1, <2>2, <2>3, ToldFrame DEF Same, filevars, history
  <2> QED
    BY <2>4, Stutters
<1>2. ASSUME NEW t \in Texts, PostNotice(t) PROVE Atomic!Next /\ Told'
  BY <1>2, AtomicPost DEF Atomic!Next
<1>3. ASSUME \/ \E i \in Inputs : CourierAppend(i)
             \/ \E p \in {"runner", "archiver"} : Enter(p)
             \/ ResumeArchive \/ ResumeTurn \/ Load \/ Leave \/ BeginSeed \/ Publish
             \/ \E f \in TurnFiles \cup {"completed"} : WriteFile(f)
             \/ AckNotice \/ CloseTurn \/ CloseArchive
             \/ \E f \in Files : MoveFile(f)
             \/ \E f \in DOMAIN SeedOrder : SeedFile(f)
      PROVE  UNCHANGED Atomic!avars /\ Told'
  BY <1>3, AtomicQuiet, AtomicAside, AtomicWrite, AtomicAck, AtomicClose, AtomicEnd,
     AtomicMove, Stutters
<1>4. ASSUME BeginTurn PROVE [Atomic!Next]_(Atomic!avars) /\ Told'
  BY <1>4, AtomicImport, Stutters DEF Atomic!Next
<1>5. ASSUME NEW examined \in BOOLEAN, Stage(examined) PROVE Atomic!Next /\ Told'
  BY <1>5, AtomicStage DEF Atomic!Next
<1>6. ASSUME StageArchive PROVE Atomic!Next /\ Told'
  BY <1>6, AtomicArchive DEF Atomic!Next
<1>7. ASSUME Crash PROVE [Atomic!Next]_(Atomic!avars) /\ Told'
  BY <1>7, AtomicCrash, Stutters DEF Atomic!Next
<1> QED
  BY <1>1, <1>2, <1>3, <1>4, <1>5, <1>6, <1>7 DEF Next, SessionStep

LEMMA AtomicInit == ASSUME Init PROVE Atomic!Init /\ Told
<1>1. /\ run = 0 /\ pending = None /\ retiring = None /\ seen = {} /\ notice = None
      /\ told = {} /\ posts = [t \in Texts |-> 0] /\ disk["conversation"] = None
  BY DEF Init, Files, TurnFiles
<1>2. AbsTurn = 0
  BY <1>1 DEF AbsTurn, View, Now
<1>3. AbsRetired = {}
  BY <1>1 DEF AbsRetired
<1>4. AbsSeen = {} /\ AbsNotice = None
  BY <1>1 DEF AbsSeen, AbsNotice
<1> QED
  BY <1>1, <1>2, <1>3, <1>4 DEF Atomic!Init, Told, AbsSeen, AbsNotice, AbsRetired

\* Whatever is interrupted and replayed, callers see each turn, import and
\* archive happen once and whole (turn_store.commit, _recover, archive).
THEOREM StoreImplementsAtomicTurns == Spec => ImplementsAtomicTurns
<1>1. Init => Atomic!Init /\ Told
  BY AtomicInit
<1>2. Inv /\ Inv' /\ Told /\ [Next]_vars => [Atomic!Next]_(Atomic!avars) /\ Told'
  BY AtomicStep
<1> QED
  BY <1>1, <1>2, Invariance, PTL DEF Spec, ImplementsAtomicTurns, Atomic!Spec
=============================================================================
