---------------------------- MODULE Cleanup_proofs ----------------------------
(***************************************************************************)
(* Proofs about Cleanup for every set of languages, every number of calls, *)
(* exams, editions and crashes, and every growth and reduction.            *)
(***************************************************************************)
EXTENDS Cleanup, FiniteSetTheorems, TLAPS

-----------------------------------------------------------------------------
(* The inductive invariant: what a process has, and what it is owed *)

Phases ==
  /\ mem = None <=> pc = "down"
  /\ job # None <=> pc \in {"ask", "save"}
  /\ got # None <=> pc = "save"

\* Seeds that are owed are those of the language in force, and A has not moved
\* since; so there is no cleanup before they are delivered.
Owing(t) ==
  /\ t.owed # {} => Tokens[t.law] = t.clean.baseline
  /\ t.motion # None => "A" \notin t.owed

Seeds ==
  /\ Owing(disk)
  /\ mem # None => Owing(mem)
  /\ job # None => mem.owed = {} /\ mem.motion = None

\* A quarantine of the deployed edition is on disk for as long as it lasts, and
\* whoever works on a quarantined turn knows.
Quarantined(t) == t.clean.status = "quarantined"
Bars ==
  /\ running <= edition /\ disk.clean.at <= edition /\ (mem # None => mem.clean.at <= edition)
  /\ \A e \in barred : e <= edition
  /\ edition \in barred => Quarantined(disk) /\ disk.clean.at = edition
  /\ mem # None => /\ Quarantined(disk) => Quarantined(mem) /\ mem.clean.at = disk.clean.at
                   /\ running \in barred => Quarantined(mem)
  /\ job # None => mem.clean.status \notin {"none", "quarantined", "failed_c"}

-----------------------------------------------------------------------------
(* The inductive invariant: the answers on disk and where they lead *)

\* Only complete answers are saved, a book with its language; an answer that is
\* being saved is the first one to its request.
Saved ==
  /\ \A k \in Keys : cache[k] # None =>
       cache[k].is \in Complete /\ (cache[k].is = "book" => cache[k].lang \in Langs)
  /\ pc = "save" => /\ job.stage \notin Verdicts /\ cache[Request] = None
                    /\ got.is \in Complete /\ (got.is = "book" => got.lang \in Langs)

\* A complete answer that was paid for is on disk, about to be, or lost.
Paid ==
  \A k \in Keys : spent[k] <= unsaved + (IF cache[k] # None \/ (pc = "save" /\ Request = k) THEN 1 ELSE 0)

Said(n, is) == n \in 1..MaxCCalls /\ cache[<<"C", n>>] # None /\ cache[<<"C", n>>].is = is

\* C's draft is its first answer, or its second after a repair; its decision the
\* next one, or the one after that.
DraftAt(d) == d = 1 \/ (d = 2 /\ Said(1, "fixable"))
FinalAt(f, d) == f = d + 1 \/ (f = d + 2 /\ Said(d + 1, "fixable"))
Deciding(f, d) == DraftAt(d) /\ Said(d, "book") /\ FinalAt(f, d)
Chosen(l) ==
  \E f, d \in 1..MaxCCalls : Deciding(f, d) /\ Said(f, "book") /\ l = cache[<<"C", f>>].lang

\* Where the attempt is, the answers on disk have led it.
LedJob ==
  job # None =>
    /\ job.stage \in {"draft", "review"} => DraftAt(job.round) /\ "final" \notin job.fixed
    /\ job.stage = "draft" /\ "draft" \notin job.fixed => job.round = 1
    /\ job.stage = "review" => Said(job.round, "book")
    /\ job.stage = "final" =>
         \E d \in 1..MaxCCalls : /\ Deciding(job.round, d)
                                 /\ "final" \notin job.fixed => job.round = d + 1
    /\ job.stage \in {"exam", "applied"} => Chosen(job.lang)
Led == LedJob /\ \A l \in decided : Chosen(l)

Audited == cache[<<"B", 1>>] # None /\ cache[<<"B", 1>>].is = "audit"
Passed(n) == cache[<<"exam", n>>] # None => cache[<<"exam", n>>].is = "pass"

\* What the stages of an attempt have behind them.
Behind ==
  job # None =>
    /\ job.stage \in {"final", "exam", "applied"} => Audited
    /\ job.stage \in {"exam", "applied"} => job.lang \in Langs /\ SmallEnough(job.lang)
    /\ job.stage = "exam" => job.exam > 0 /\ (~job.bad => \A n \in 1..NExams : n < job.exam => Passed(n))
    /\ job.stage = "applied" => \A n \in 1..NExams : Passed(n)

Inv == TypeOK /\ Phases /\ Seeds /\ Bars /\ Saved /\ Paid /\ Led /\ Behind

-----------------------------------------------------------------------------
(* Facts about the constants and the operators *)

LEMMA NoneApart == None \notin Langs /\ None \notin Turn /\ None \notin Job /\ None \notin Answer
BY SizesAssumption

LEMMA TokensType == \A l \in Langs : Tokens[l] \in Nat /\ Tokens[l] > 0
BY SizesAssumption

\* A language that has not grown is below the threshold.
LEMMA NotGrown ==
  ASSUME mem \in Turn, mem.clean.baseline = Tokens[mem.law]
  PROVE  ~(Tokens[mem.law] >= Threshold)
<1> DEFINE b == Tokens[mem.law]
<1>1. b \in Nat /\ b > 0 /\ Growth \in Nat /\ Growth > 0
  BY TokensType, SizesAssumption DEF Turn
<1>2. ASSUME NEW x \in Nat, NEW g \in Nat, x > 0, g > 0 PROVE (x * (100 + g) + 99) \div 100 > x
  <2>1. x * (100 + g) = 100 * x + x * g
    BY <1>2
  <2>2. x * g \in Nat /\ x * g >= 1
    BY <1>2
  <2>3. x * (100 + g) + 99 >= 100 * (x + 1)
    BY <1>2, <2>1, <2>2
  <2>4. (x * (100 + g) + 99) \in Nat
    BY <1>2, <2>1, <2>2
  <2> QED
    BY <1>2, <2>3, <2>4
<1>3. Threshold = (b * (100 + Growth) + 99) \div 100
  BY DEF Threshold
<1>4. Threshold > b
  BY <1>1, <1>2, <1>3
<1>5. Threshold \in Int
  <2>1. b * (100 + Growth) + 99 \in Nat
    BY <1>1
  <2> QED
    BY <1>3, <2>1
<1> QED
  BY <1>1, <1>4, <1>5

LEMMA CleanType ==
  ASSUME NEW t \in Turn
  PROVE  /\ t.clean \in Clean /\ t.law \in Langs /\ t.owed \subseteq {"A", "B"}
         /\ t.clean.at \in Nat /\ t.clean.at \in {0} \cup Editions
         /\ t.clean.baseline \in Nat /\ t.motion \in Langs \cup {None}
<1>1. {0} \cup Editions \subseteq Nat
  BY SizesAssumption DEF Editions
<1>2. /\ t.clean \in Clean /\ t.law \in Langs /\ t.owed \in SUBSET {"A", "B"}
      /\ t.motion \in Langs \cup {None}
  BY DEF Turn
<1>3. t.clean.at \in {0} \cup Editions /\ t.clean.baseline \in Nat
  BY <1>2 DEF Clean
<1>4. t.clean.at \in Nat
  BY <1>1, <1>3, Zenon
<1>5. t.owed \subseteq {"A", "B"}
  BY <1>2
<1> QED
  BY <1>2, <1>3, <1>4, <1>5

LEMMA RequestKey == TypeOK /\ job # None /\ (job.stage = "exam" => job.exam > 0) => Request \in Keys
<1> SUFFICES ASSUME TypeOK, job # None, job.stage = "exam" => job.exam > 0 PROVE Request \in Keys
  OBVIOUS
<1>1. job \in Job
  BY DEF TypeOK
<1>2. CASE job.stage = "exam"
  <2>1. job.exam \in 1..NExams
    BY <1>1, <1>2, SizesAssumption DEF Job
  <2> QED
    BY <1>2, <2>1 DEF Request, Keys
<1>3. CASE job.stage = "review"
  BY <1>3 DEF Request, Keys
<1>4. CASE job.stage \notin {"review", "exam"}
  BY <1>1, <1>4 DEF Request, Keys, Job
<1> QED
  BY <1>2, <1>3, <1>4

\* A reduced language is a shorter one.
LEMMA Shorter ==
  ASSUME mem \in Turn, NEW l \in Langs, SmallEnough(l)
  PROVE  Tokens[l] < Tokens[mem.law] /\ Tokens[l] <= MaxTokens
<1> DEFINE x == Tokens[l]
           y == Tokens[mem.law]
<1>1. x \in Nat /\ y \in Nat /\ y > 0 /\ MinCut \in Nat /\ MinCut > 0
  BY TokensType, SizesAssumption DEF Turn
<1>2. 100 * x <= (100 - MinCut) * y /\ x <= MaxTokens
  BY DEF SmallEnough
<1>3. (100 - MinCut) * y = 100 * y - MinCut * y /\ MinCut * y >= 1 /\ MinCut * y \in Nat
  BY <1>1
<1> QED
  BY <1>1, <1>2, <1>3

\* The answers lead one way only.
LEMMA OneWay == ASSUME NEW l, NEW m, Chosen(l), Chosen(m) PROVE l = m
<1>1. PICK f, d \in 1..MaxCCalls : Deciding(f, d) /\ Said(f, "book") /\ l = cache[<<"C", f>>].lang
  BY DEF Chosen
<1>2. PICK g, e \in 1..MaxCCalls : Deciding(g, e) /\ Said(g, "book") /\ m = cache[<<"C", g>>].lang
  BY DEF Chosen
<1>3. d = e
  BY <1>1, <1>2 DEF Deciding, DraftAt, Said
<1>4. f = g
  BY <1>1, <1>2, <1>3 DEF Deciding, FinalAt, Said
<1> QED
  BY <1>1, <1>2, <1>4

LEMMA InitInv == Init => Inv
<1> SUFFICES ASSUME Init PROVE Inv
  OBVIOUS
<1>1. PICK l \in Langs, status \in {"none", "failed_c"} :
        disk = [law |-> l, motion |-> None, last |-> "B", turn |-> 0, owed |-> {},
                clean |-> [status |-> status, baseline |-> IF status = "none" THEN 0 ELSE Tokens[l],
                           tried |-> None, at |-> 0, reviewed |-> 0]]
  BY DEF Init
<1>2. disk \in Turn
  <2>1. 0 \in 0..TestEvery-1
    BY SizesAssumption
  <2>2. disk.clean \in Clean
    BY <1>1, TokensType DEF Clean
  <2> QED
    BY <1>1, <2>1, <2>2 DEF Turn
<1>3. 1 \in Editions /\ 0 \in 0..MaxCrashes
  BY SizesAssumption DEF Editions
<1>4. TypeOK
  BY <1>2, <1>3 DEF Init, TypeOK
<1> QED
  BY <1>1, <1>4
  DEF Init, Inv, Phases, Seeds, Owing, Bars, Quarantined, Saved, Paid, Led, LedJob, Behind

-----------------------------------------------------------------------------
(* The answers on disk, when a process ends or begins its next turn *)

LEMMA ReplayKept ==
  ASSUME Inv, UNCHANGED <<cache, spent, decided>>, job' = None, pc' # "save",
         unsaved' = IF pc = "save" THEN unsaved + 1 ELSE unsaved
  PROVE  Saved' /\ Paid' /\ Led' /\ Behind'
<1>1. Saved' /\ Behind'
  BY DEF Inv, Saved, Behind
<1>2. Led'
  BY DEF Inv, Led, LedJob, Chosen, Deciding, DraftAt, FinalAt, Said
<1>3. ASSUME NEW k \in Keys PROVE spent'[k] <= unsaved' + (IF cache'[k] # None THEN 1 ELSE 0)
  <2>1. spent[k] <= unsaved + (IF cache[k] # None \/ (pc = "save" /\ Request = k) THEN 1 ELSE 0)
    BY DEF Inv, Paid
  <2>2. spent[k] \in Nat /\ unsaved \in Nat
    BY DEF Inv, TypeOK
  <2> QED
    BY <2>1, <2>2
<1> QED
  BY <1>1, <1>2, <1>3 DEF Paid

LEMMA ReplayForgotten ==
  ASSUME Forget, job' = None, pc' # "save"
  PROVE  /\ Saved' /\ Paid' /\ Led' /\ Behind'
         /\ cache' \in [Keys -> Answer \cup {None}] /\ spent' \in [Keys -> Nat]
         /\ unsaved' \in Nat /\ decided' \subseteq Langs
BY DEF Forget, Saved, Paid, Led, LedJob, Behind

-----------------------------------------------------------------------------
(* Each step *)

LEMMA StartStep == ASSUME Inv, Start PROVE Inv'
<1>1. /\ TypeOK /\ Phases /\ Seeds /\ Bars
      /\ pc = "down" /\ pc' = "begin" /\ mem' = disk /\ running' = edition /\ cacheOf' = edition
      /\ UNCHANGED <<disk, job, got, edition, barred, crashes>>
  BY DEF Inv, Start
<1>2. disk \in Turn /\ disk # None /\ job = None /\ got = None
  BY <1>1, NoneApart DEF TypeOK, Phases
<1>3. /\ Saved' /\ Paid' /\ Led' /\ Behind'
      /\ cache' \in [Keys -> Answer \cup {None}] /\ spent' \in [Keys -> Nat]
      /\ unsaved' \in Nat /\ decided' \subseteq Langs
  <2>1. CASE Keep
    BY <1>1, <1>2, <2>1, ReplayKept DEF Keep, TypeOK
  <2>2. CASE Forget
    BY <1>1, <1>2, <2>2, ReplayForgotten
  <2> QED
    BY <2>1, <2>2 DEF Start
<1>4. TypeOK'
  BY <1>1, <1>2, <1>3 DEF TypeOK
<1>5. Phases' /\ Seeds'
  BY <1>1, <1>2 DEF Phases, Seeds, Owing
<1>6. Bars'
  <2>1. edition \in Nat
    BY <1>1, SizesAssumption DEF TypeOK, Editions
  <2> QED
    BY <1>1, <1>2, <2>1 DEF Bars, Quarantined
<1> QED
  BY <1>3, <1>4, <1>5, <1>6 DEF Inv

LEMMA CrashStep == ASSUME Inv, Crash PROVE Inv'
<1>1. /\ pc' = "down" /\ mem' = None /\ job' = None /\ got' = None
      /\ unsaved' = IF pc = "save" THEN unsaved + 1 ELSE unsaved
      /\ UNCHANGED <<disk, running, edition, cache, cacheOf, spent, decided, barred>>
  BY DEF Crash, replay
<1>2. Saved' /\ Paid' /\ Led' /\ Behind'
  BY <1>1, ReplayKept
<1>3. crashes' \in 0..MaxCrashes
  BY SizesAssumption DEF Inv, TypeOK, Crash
<1>4. TypeOK' /\ Phases' /\ Seeds' /\ Bars'
  BY <1>1, <1>3 DEF Inv, TypeOK, Phases, Seeds, Owing, Bars, Quarantined
<1> QED
  BY <1>2, <1>4 DEF Inv

LEMMA DeployStep == ASSUME Inv, Deploy PROVE Inv'
<1>1. /\ edition' = edition + 1 /\ edition < NEditions
      /\ UNCHANGED <<disk, mem, running, pc, job, got, cache, cacheOf, spent, unsaved, decided, barred, crashes>>
  BY DEF Deploy, replay, history
<1>2. edition \in Nat /\ edition' \in Editions /\ running \in Nat /\ barred \subseteq Nat
  BY <1>1, SizesAssumption DEF Inv, TypeOK, Editions
<1>3. disk.clean.at \in Nat /\ (mem # None => mem.clean.at \in Nat)
  BY CleanType DEF Inv, TypeOK
<1>4. TypeOK' /\ Phases' /\ Seeds'
  BY <1>1, <1>2 DEF Inv, TypeOK, Phases, Seeds, Owing
<1>5. Bars'
  <2>1. /\ running <= edition /\ disk.clean.at <= edition /\ (mem # None => mem.clean.at <= edition)
        /\ \A e \in barred : e <= edition
    BY DEF Inv, Bars
  <2>2. /\ running' <= edition' /\ disk'.clean.at <= edition' /\ (mem' # None => mem'.clean.at <= edition')
        /\ \A e \in barred' : e <= edition' /\ e # edition'
    BY <1>1, <1>2, <1>3, <2>1
  <2> QED
    BY <1>1, <2>2 DEF Inv, Bars, Quarantined
<1>6. Saved' /\ Paid'
  <2>1. Request' = Request
    BY <1>1 DEF Request
  <2> QED
    BY <1>1, <2>1 DEF Inv, Saved, Paid
<1>7. Led'
  <2>1. \A f, d : Deciding(f, d)' <=> Deciding(f, d)
    BY <1>1 DEF Deciding, DraftAt, FinalAt, Said
  <2>2. \A l : Chosen(l)' <=> Chosen(l)
    BY <1>1, <2>1 DEF Chosen, Said
  <2> QED
    BY <1>1, <2>1, <2>2 DEF Inv, Led, LedJob, DraftAt, Said
<1>8. Behind'
  BY <1>1 DEF Inv, Behind, Audited, Passed, SmallEnough
<1> QED
  BY <1>4, <1>5, <1>6, <1>7, <1>8 DEF Inv

LEMMA ResetStep == ASSUME Inv, Reset PROVE Inv'
<1> DEFINE clean == [disk.clean EXCEPT !.status = "armed", !.tried = None, !.at = 0, !.reviewed = edition]
<1>1. /\ pc = "down" /\ disk' = [disk EXCEPT !.clean = clean]
      /\ UNCHANGED <<mem, running, pc, job, got, edition, cache, cacheOf, spent, unsaved, decided, barred, crashes>>
      /\ mem = None /\ job = None
  BY DEF Reset, replay, history, Inv, Phases
<1>2. disk \in Turn /\ disk.clean \in Clean /\ clean \in Clean /\ clean.status = "armed" /\ clean.at = 0
      /\ clean.baseline = disk.clean.baseline
  BY CleanType DEF Inv, TypeOK, Clean
<1>3. /\ disk' \in Turn /\ disk'.clean = clean
      /\ disk'.owed = disk.owed /\ disk'.law = disk.law /\ disk'.motion = disk.motion
  BY <1>1, <1>2 DEF Turn
<1>4. edition \notin barred
  BY DEF Reset, Inv, Bars, Quarantined
<1>5. TypeOK' /\ Phases' /\ Seeds'
  BY <1>1, <1>2, <1>3 DEF Inv, TypeOK, Phases, Seeds, Owing
<1>6. Bars'
  <2>1. edition \in Nat
    BY SizesAssumption DEF Inv, TypeOK, Editions
  <2> QED
    <3>1. /\ running <= edition /\ \A e \in barred : e <= edition
      BY DEF Inv, Bars
    <3>2. disk'.clean.at <= edition /\ mem' = None /\ job' = None
      <4>1. disk'.clean.at = 0
        BY <1>2, <1>3
      <4> QED
        BY <1>1, <2>1, <4>1
    <3> QED
      BY <1>1, <1>4, <3>1, <3>2 DEF Bars
<1>7. Saved' /\ Paid' /\ Led' /\ Behind'
  BY <1>1, ReplayKept
<1> QED
  BY <1>5, <1>6, <1>7 DEF Inv

\* What a running process works on.
LEMMA Working ==
  ASSUME Inv, pc # "down"
  PROVE  /\ mem \in Turn /\ mem # None /\ mem.clean \in Clean /\ mem.law \in Langs
         /\ mem.owed \in SUBSET {"A", "B"} /\ running \in Nat /\ running \in Editions /\ edition \in Nat
BY CleanType, SizesAssumption DEF Inv, TypeOK, Phases, Turn, Editions

LEMMA SkipStep == ASSUME Inv, Skip PROVE Inv'
<1> DEFINE clean == IF mem.clean.status = "none"
                    THEN [mem.clean EXCEPT !.status = "armed", !.baseline = Tokens[mem.law]]
                    ELSE Upgraded
<1>1. /\ pc = "begin" /\ pc' = "act" /\ mem' = [mem EXCEPT !.clean = clean]
      /\ UNCHANGED <<disk, running, job, got, edition, cache, cacheOf, spent, unsaved, decided, barred, crashes>>
      /\ job = None /\ got = None
  BY DEF Skip, replay, history, Inv, Phases
<1>2. mem \in Turn /\ mem # None /\ mem.clean \in Clean /\ mem.law \in Langs
  BY <1>1, Working
<1>3. /\ clean \in Clean /\ clean.at = mem.clean.at
      /\ Quarantined(mem) => clean.status = "quarantined"
      /\ clean.baseline = Tokens[mem.law] \/ clean.baseline = mem.clean.baseline
  BY <1>2, TokensType DEF Clean, Upgraded, Quarantined
<1> HIDE DEF clean
<1>4. /\ mem' \in Turn /\ mem' # None /\ mem'.clean = clean
      /\ mem'.owed = mem.owed /\ mem'.law = mem.law /\ mem'.motion = mem.motion
  BY <1>1, <1>2, <1>3, NoneApart DEF Turn
<1>5. TypeOK' /\ Phases'
  BY <1>1, <1>2, <1>4 DEF Inv, TypeOK, Phases
<1>6. Seeds'
  BY <1>1, <1>2, <1>3, <1>4 DEF Inv, Seeds, Owing
<1>7. Bars'
  BY <1>1, <1>2, <1>3, <1>4 DEF Inv, Bars, Quarantined
<1>8. Saved' /\ Paid' /\ Led' /\ Behind'
  BY <1>1, ReplayKept
<1> QED
  BY <1>5, <1>6, <1>7, <1>8 DEF Inv

LEMMA AttemptStep == ASSUME Inv, Attempt PROVE Inv'
<1> DEFINE clean == [mem.clean EXCEPT !.tried = mem.law]
           draft == [stage |-> "draft", round |-> 1, fixed |-> {}, lang |-> None, exam |-> 0, bad |-> FALSE]
<1>1. /\ pc = "begin" /\ Due /\ pc' = "ask" /\ mem' = [mem EXCEPT !.clean = clean] /\ job' = draft
      /\ UNCHANGED <<disk, running, got, edition, cache, cacheOf, spent, unsaved, decided, barred, crashes>>
      /\ job = None /\ got = None
  BY DEF Attempt, replay, history, Inv, Phases
<1>2. mem \in Turn /\ mem # None /\ mem.clean \in Clean /\ mem.law \in Langs
  BY <1>1, Working
<1>3. clean \in Clean /\ clean.at = mem.clean.at /\ clean.status = mem.clean.status
      /\ clean.baseline = mem.clean.baseline
  BY <1>2 DEF Clean
<1> HIDE DEF clean
<1>4. /\ mem' \in Turn /\ mem' # None /\ mem'.clean = clean
      /\ mem'.owed = mem.owed /\ mem'.law = mem.law /\ mem'.motion = mem.motion
  BY <1>1, <1>2, <1>3, NoneApart DEF Turn
<1>5. mem.owed = {} /\ mem.motion = None
  BY <1>1, <1>2, NotGrown DEF Due, Inv, Seeds, Owing
<1>6. mem.clean.status \notin {"none", "quarantined", "failed_c"}
  BY <1>1, <1>2 DEF Due, Upgraded, Clean
<1>7. draft \in Job /\ draft # None
  <2>1. 1 \in 1..MaxCCalls /\ 0 \in 0..NExams
    BY SizesAssumption
  <2>2. draft \in Job
    BY <2>1 DEF Job
  <2> QED
    BY <2>2, NoneApart
<1>8. TypeOK' /\ Phases'
  BY <1>1, <1>2, <1>4, <1>7 DEF Inv, TypeOK, Phases
<1>9. Seeds' /\ Bars'
  BY <1>1, <1>2, <1>3, <1>4, <1>5, <1>6 DEF Inv, Seeds, Owing, Bars, Quarantined
<1>10. Saved' /\ Paid' /\ Behind'
  BY <1>1 DEF Inv, Saved, Paid, Behind
<1>11. Led'
  <2>1. \A l : Chosen(l)' <=> Chosen(l)
    BY <1>1 DEF Chosen, Deciding, DraftAt, FinalAt, Said
  <2> QED
    BY <1>1, <2>1 DEF Inv, Led, LedJob, DraftAt
<1> QED
  BY <1>8, <1>9, <1>10, <1>11 DEF Inv

LEMMA ConcludeStep == ASSUME Inv, Conclude PROVE Inv'
<1>1. /\ pc = "ask" /\ pc' = "act" /\ job.stage \in Verdicts /\ job' = None
      /\ UNCHANGED <<disk, running, got, edition, cache, cacheOf, spent, unsaved, barred, crashes>>
      /\ job # None /\ got = None
  BY DEF Conclude, replay, Inv, Phases
<1>2. mem \in Turn /\ mem # None /\ mem.clean \in Clean /\ running \in Editions /\ running \in Nat
  BY <1>1, Working
<1>3. mem.clean.status # "quarantined" /\ mem.owed = {} /\ mem.motion = None /\ running <= edition
  BY <1>1 DEF Inv, Bars, Seeds
<1>4. /\ mem' \in Turn /\ mem' # None /\ Owing(mem') /\ mem'.clean.at <= edition
      /\ decided' \subseteq Langs /\ \A l \in decided' : Chosen(l)
  <2>1. CASE job.stage = "failed"
    <3> DEFINE clean == [mem.clean EXCEPT !.status = "failed"]
    <3>1. mem' = [mem EXCEPT !.clean = clean] /\ UNCHANGED decided
      BY <2>1 DEF Conclude
    <3>2. clean \in Clean /\ clean.at = mem.clean.at
      BY <1>2 DEF Clean
    <3> HIDE DEF clean
    <3>3. mem' \in Turn /\ mem'.clean = clean /\ mem'.owed = {} /\ mem'.motion = None
      BY <1>2, <1>3, <3>1, <3>2 DEF Turn
    <3>4. decided' \subseteq Langs /\ \A l \in decided' : Chosen(l)
      BY <3>1 DEF Inv, TypeOK, Led, LedJob
    <3> QED
      BY <1>2, <3>2, <3>3, <3>4, NoneApart DEF Owing, Inv, Bars
  <2>2. CASE job.stage = "quarantined"
    <3> DEFINE clean == [mem.clean EXCEPT !.status = "quarantined", !.at = running]
    <3>1. mem' = [mem EXCEPT !.clean = clean] /\ UNCHANGED decided
      BY <2>2 DEF Conclude
    <3>2. clean \in Clean /\ clean.at = running
      BY <1>2 DEF Clean
    <3> HIDE DEF clean
    <3>3. mem' \in Turn /\ mem'.clean = clean /\ mem'.owed = {} /\ mem'.motion = None
      BY <1>2, <1>3, <3>1, <3>2 DEF Turn
    <3>4. decided' \subseteq Langs /\ \A l \in decided' : Chosen(l)
      BY <3>1 DEF Inv, TypeOK, Led, LedJob
    <3> QED
      BY <1>3, <3>2, <3>3, <3>4, NoneApart DEF Owing
  <2>3. CASE job.stage = "applied"
    <3> DEFINE clean == [mem.clean EXCEPT !.status = "applied", !.baseline = Tokens[job.lang]]
    <3>1. /\ mem' = [mem EXCEPT !.law = job.lang, !.owed = {"A", "B"}, !.clean = clean]
          /\ decided' = decided \cup {job.lang}
      BY <2>3 DEF Conclude
    <3>2. job.lang \in Langs /\ Chosen(job.lang)
      BY <1>1, <2>3 DEF Inv, Behind, Led, LedJob
    <3>3. clean \in Clean /\ clean.at = mem.clean.at /\ clean.baseline = Tokens[job.lang]
      BY <1>2, <3>2, TokensType DEF Clean
    <3> HIDE DEF clean
    <3>4. mem' \in Turn /\ mem'.clean = clean /\ mem'.law = job.lang /\ mem'.motion = None
      BY <1>2, <1>3, <3>1, <3>2, <3>3 DEF Turn
    <3>5. decided' \subseteq Langs /\ \A l \in decided' : Chosen(l)
      BY <3>1, <3>2 DEF Inv, TypeOK, Led, LedJob
    <3> QED
      BY <1>2, <3>3, <3>4, <3>5, NoneApart DEF Owing, Inv, Bars
  <2> QED
    BY <1>1, <2>1, <2>2, <2>3 DEF Verdicts
<1>5. TypeOK' /\ Phases'
  BY <1>1, <1>2, <1>4 DEF Inv, TypeOK, Phases
<1>6. Seeds'
  BY <1>1, <1>4 DEF Inv, Seeds, Owing
<1>7. Bars'
  BY <1>1, <1>2, <1>3, <1>4 DEF Inv, Bars, Quarantined
<1>8. Saved' /\ Paid' /\ Behind'
  BY <1>1 DEF Inv, Saved, Paid, Behind
<1>9. Led'
  <2>1. \A l : Chosen(l)' <=> Chosen(l)
    BY <1>1 DEF Chosen, Deciding, DraftAt, FinalAt, Said
  <2> QED
    BY <1>1, <1>4, <2>1 DEF Led, LedJob
<1> QED
  BY <1>5, <1>6, <1>7, <1>8, <1>9 DEF Inv

\* The rest of a turn leaves the cleanup alone.
LEMMA ActsStep ==
  ASSUME Inv, NEW next \in Turn, Acts(next), Owing(next), next.clean = mem.clean
  PROVE  Inv'
<1>1. /\ pc = "act" /\ pc' = "commit" /\ mem' = [next EXCEPT !.turn = (@ + 1) % TestEvery]
      /\ UNCHANGED <<disk, running, job, got, edition, cache, cacheOf, spent, unsaved, decided, barred, crashes>>
      /\ job = None /\ got = None /\ mem # None
  BY DEF Acts, replay, history, Inv, Phases
<1>2. (next.turn + 1) % TestEvery \in 0..TestEvery-1
  <2>1. next.turn \in Nat
    BY SizesAssumption DEF Turn
  <2> QED
    BY <2>1, SizesAssumption
<1>3. /\ mem' \in Turn /\ mem'.clean = mem.clean /\ mem' # None
      /\ mem'.law = next.law /\ mem'.owed = next.owed /\ mem'.motion = next.motion
  BY <1>1, <1>2, NoneApart DEF Turn
<1>4. TypeOK' /\ Phases'
  BY <1>1, <1>3 DEF Inv, TypeOK, Phases
<1>5. Seeds'
  BY <1>1, <1>3 DEF Inv, Seeds, Owing
<1>6. Bars'
  BY <1>1, <1>3 DEF Inv, Bars, Quarantined
<1>7. Saved' /\ Paid' /\ Led' /\ Behind'
  BY <1>1, ReplayKept
<1> QED
  BY <1>4, <1>5, <1>6, <1>7 DEF Inv

LEMMA TurnStep == ASSUME Inv, OtherTurn \/ \E agent \in {"A", "B"} : ValidTurn(agent) PROVE Inv'
<1>1. pc = "act"
  BY DEF OtherTurn, ValidTurn, Acts
<1>2. mem \in Turn /\ mem # None /\ Owing(mem)
  BY <1>1, Working DEF Inv, Seeds
<1>3. CASE OtherTurn
  BY <1>2, <1>3, ActsStep DEF OtherTurn
<1>4. ASSUME NEW agent \in {"A", "B"}, ValidTurn(agent) PROVE Inv'
  <2>1. /\ Delivered \in Turn /\ Delivered.clean = mem.clean /\ Delivered.law = mem.law
        /\ Delivered.motion = mem.motion /\ Delivered.owed = mem.owed \ {agent}
    BY <1>2, <1>4 DEF ValidTurn, Delivered, Agent, Turn
  <2>2. CASE Acts(Delivered)
    BY <1>2, <2>1, <2>2, ActsStep DEF Owing
  <2>3. ASSUME agent = "A", NEW l \in Langs, Acts([Delivered EXCEPT !.motion = l]) PROVE Inv'
    <3> DEFINE next == [Delivered EXCEPT !.motion = l]
    <3>1. /\ next \in Turn /\ next.clean = mem.clean /\ next.law = mem.law
          /\ next.owed = mem.owed \ {"A"}
      BY <2>1, <2>3 DEF Turn
    <3>2. Owing(next)
      BY <1>2, <3>1 DEF Owing
    <3> QED
      BY <2>3, <3>1, <3>2, ActsStep
  <2>4. ASSUME agent = "B", mem.motion # None, Acts([Delivered EXCEPT !.law = mem.motion, !.motion = None])
        PROVE  Inv'
    <3> DEFINE next == [Delivered EXCEPT !.law = mem.motion, !.motion = None]
    <3>1. next \in Turn /\ next.clean = mem.clean /\ next.owed = mem.owed \ {"B"} /\ next.motion = None
      BY <1>2, <2>1, <2>4 DEF Turn
    <3>2. next.owed = {}
      BY <1>2, <2>4, <3>1 DEF Owing, Turn
    <3>3. Owing(next)
      BY <3>1, <3>2 DEF Owing
    <3> QED
      BY <2>4, <3>1, <3>3, ActsStep
  <2>5. ASSUME agent = "B", Acts([Delivered EXCEPT !.motion = None]) PROVE Inv'
    <3> DEFINE next == [Delivered EXCEPT !.motion = None]
    <3>1. /\ next \in Turn /\ next.clean = mem.clean /\ next.law = mem.law
          /\ next.owed = mem.owed \ {"B"} /\ next.motion = None
      BY <2>1, <2>5 DEF Turn
    <3>2. Owing(next)
      BY <1>2, <3>1 DEF Owing
    <3> QED
      BY <2>5, <3>1, <3>2, ActsStep
  <2> QED
    BY <1>4, <2>2, <2>3, <2>4, <2>5 DEF ValidTurn
<1> QED
  BY <1>3, <1>4

LEMMA CommitStep == ASSUME Inv, Commit PROVE Inv'
<1>1. /\ pc = "commit" /\ disk' = mem /\ job = None /\ got = None
      /\ UNCHANGED <<running, job, got, edition, cacheOf, crashes>>
      /\ (pc' = "begin" /\ mem' = mem) \/ (pc' = "down" /\ mem' = None)
  BY DEF Commit, Inv, Phases
<1>2. mem \in Turn /\ mem # None /\ mem.clean \in Clean /\ running \in Editions
  BY <1>1, Working
<1>3. barred' \subseteq Editions /\ (barred' = barred \/ (Quarantined(mem) /\ barred' = barred \cup {mem.clean.at}))
  BY <1>2, CleanType DEF Commit, Quarantined, Inv, TypeOK
<1>4. /\ Saved' /\ Paid' /\ Led' /\ Behind'
      /\ cache' \in [Keys -> Answer \cup {None}] /\ spent' \in [Keys -> Nat]
      /\ unsaved' \in Nat /\ decided' \subseteq Langs
  <2>1. CASE Keep
    BY <1>1, <2>1, ReplayKept DEF Keep, Inv, TypeOK
  <2>2. CASE Forget
    BY <1>1, <2>2, ReplayForgotten
  <2> QED
    BY <2>1, <2>2 DEF Commit
<1>5. TypeOK'
  BY <1>1, <1>2, <1>3, <1>4 DEF Inv, TypeOK
<1>6. Phases' /\ Seeds'
  BY <1>1, <1>2 DEF Inv, Phases, Seeds, Owing
<1>7. Bars'
  BY <1>1, <1>2, <1>3 DEF Inv, Bars, Quarantined
<1> QED
  BY <1>4, <1>5, <1>6, <1>7 DEF Inv

-----------------------------------------------------------------------------
(* An answer, from the disk or from a provider *)

\* Whatever is added to the answers on disk, they still lead where they led.
LEMMA StillLed ==
  ASSUME \A k \in Keys : cache[k] # None => cache'[k] = cache[k]
  PROVE  /\ \A n, is : Said(n, is) => Said(n, is)'
         /\ \A d : DraftAt(d) => DraftAt(d)'
         /\ \A f, d : Deciding(f, d) => Deciding(f, d)'
         /\ \A l : Chosen(l) => Chosen(l)'
<1>1. ASSUME NEW n, NEW is, Said(n, is) PROVE Said(n, is)' /\ cache'[<<"C", n>>] = cache[<<"C", n>>]
  <2>1. <<"C", n>> \in Keys
    BY <1>1 DEF Said, Keys
  <2> QED
    BY <1>1, <2>1 DEF Said
<1>2. \A d : DraftAt(d) => DraftAt(d)'
  BY <1>1 DEF DraftAt
<1>3. \A f, d : Deciding(f, d) => Deciding(f, d)'
  BY <1>1, <1>2 DEF Deciding, FinalAt
<1>4. ASSUME NEW l, Chosen(l) PROVE Chosen(l)'
  <2>1. PICK f, d \in 1..MaxCCalls : Deciding(f, d) /\ Said(f, "book") /\ l = cache[<<"C", f>>].lang
    BY <1>4 DEF Chosen
  <2>2. Deciding(f, d)' /\ Said(f, "book")' /\ l = cache'[<<"C", f>>].lang
    BY <1>1, <1>3, <2>1
  <2> QED
    BY <2>2 DEF Chosen
<1> QED
  BY <1>1, <1>2, <1>3, <1>4

\* What an answer moves on: nothing but the attempt and the answers on disk.
Hearing(a) ==
  /\ TypeOK /\ job # None /\ mem # None /\ job.stage \notin Verdicts /\ LedJob /\ Behind
  /\ a \in Answer /\ (a.is = "book" => a.lang \in Langs)
  /\ cache' \in [Keys -> Answer \cup {None}]
  /\ a.is # "none" => cache'[Request] = (IF a.is \in Complete THEN a ELSE None)
  /\ cache'[Request] # None =>
       cache'[Request].is \in Complete /\ (cache'[Request].is = "book" => cache'[Request].lang \in Langs)
  /\ \A k \in Keys : k # Request \/ cache[k] # None => cache'[k] = cache[k]
  /\ mem' = mem

LEMMA HeardKept ==
  ASSUME NEW a, Hearing(a)
  PROVE  /\ Request \in Keys /\ job \in Job /\ (Audited => Audited')
         /\ \A k \in Keys : cache[k] # None => cache'[k] = cache[k]
         /\ \A l : SmallEnough(l)' <=> SmallEnough(l)
<1>1. Request \in Keys
  BY RequestKey DEF Hearing, Behind
<1>2. <<"B", 1>> \in Keys
  BY DEF Keys
<1> QED
  BY <1>1, <1>2 DEF Hearing, TypeOK, Audited, SmallEnough

LEMMA DraftHeard ==
  ASSUME NEW a, Hearing(a), job.stage = "draft", job' = AfterC(a)
  PROVE  job' \in Job /\ LedJob' /\ Behind'
<1>1. PICK d \in 1..MaxCCalls : d = job.round
  BY HeardKept DEF Hearing, Job
<1>2. /\ job \in Job /\ Request = <<"C", d>> /\ a \in Answer /\ d \in Nat /\ MaxCCalls \in Nat
      /\ DraftAt(d) /\ "final" \notin job.fixed
      /\ "draft" \notin job.fixed => d = 1
  BY <1>1, HeardKept, SizesAssumption DEF Hearing, Request, LedJob
<1>3. DraftAt(d)'
  BY <1>2, HeardKept, StillLed
<1>4. a.is \in Complete => Said(d, a.is)'
  BY <1>1, <1>2, SizesAssumption, NoneApart DEF Hearing, Said, Complete
<1>5. CASE a.is = "book" /\ SmallEnough(a.lang)
  <2>1. job' = [job EXCEPT !.stage = "review"]
    BY <1>5 DEF AfterC
  <2>2. job' \in Job /\ job'.stage = "review" /\ job'.round = d /\ job'.fixed = job.fixed
    BY <1>1, <1>2, <2>1 DEF Job
  <2>3. Said(d, "book")'
    BY <1>4, <1>5 DEF Complete
  <2> QED
    BY <1>2, <1>3, <2>2, <2>3 DEF LedJob, Behind
<1>6. CASE a.is = "fixable" /\ "draft" \notin job.fixed /\ d < MaxCCalls
  <2>1. job' = [job EXCEPT !.fixed = @ \cup {"draft"}, !.round = @ + 1]
    BY <1>1, <1>6 DEF AfterC
  <2>2. job' \in Job /\ job'.stage = "draft" /\ job'.round = 2 /\ job'.fixed = job.fixed \cup {"draft"}
    <3>1. job.round = 1 /\ 1 + 1 = 2 /\ 2 \in 1..MaxCCalls
      BY <1>1, <1>2, <1>6
    <3>2. job.fixed \cup {"draft"} \in SUBSET {"draft", "final"}
      BY <1>2 DEF Job
    <3> QED
      BY <1>2, <2>1, <3>1, <3>2 DEF Job
  <2>3. Said(1, "fixable")'
    BY <1>2, <1>4, <1>6 DEF Complete
  <2>4. DraftAt(job.round)'
    BY <2>2, <2>3 DEF DraftAt
  <2> QED
    BY <1>2, <2>2, <2>4 DEF LedJob, Behind
<1>7. CASE ~(a.is = "book" /\ SmallEnough(a.lang)) /\ ~(a.is = "fixable" /\ "draft" \notin job.fixed /\ d < MaxCCalls)
  <2>1. job' = End("quarantined") \/ job' = End("failed")
    BY <1>1, <1>7 DEF AfterC
  <2>2. job' \in Job /\ job'.stage \in {"quarantined", "failed"}
    BY <1>2, <2>1 DEF End, Job
  <2> QED
    BY <2>2 DEF LedJob, Behind
<1> QED
  BY <1>5, <1>6, <1>7

LEMMA ReviewHeard ==
  ASSUME NEW a, Hearing(a), job.stage = "review", job' = AfterB(a)
  PROVE  job' \in Job /\ LedJob' /\ Behind'
<1>1. PICK d \in 1..MaxCCalls : d = job.round
  BY HeardKept DEF Hearing, Job
<1>2. /\ job \in Job /\ Request = <<"B", 1>> /\ a \in Answer /\ d \in Nat /\ MaxCCalls \in Nat
      /\ DraftAt(d) /\ Said(d, "book") /\ "final" \notin job.fixed
  BY <1>1, HeardKept, SizesAssumption DEF Hearing, Request, LedJob
<1>3. DraftAt(d)' /\ Said(d, "book")'
  BY <1>2, HeardKept, StillLed
<1>4. CASE a.is = "audit" /\ d < MaxCCalls
  <2>1. job' = [job EXCEPT !.stage = "final", !.round = @ + 1]
    BY <1>1, <1>4 DEF AfterB
  <2>2. job' \in Job /\ job'.stage = "final" /\ job'.round = d + 1 /\ job'.fixed = job.fixed
    <3>1. d + 1 \in 1..MaxCCalls
      BY <1>2, <1>4
    <3> QED
      BY <1>1, <1>2, <2>1, <3>1 DEF Job
  <2>3. Deciding(job.round, d)'
    BY <1>3, <2>2 DEF Deciding, FinalAt
  <2>4. Audited'
    BY <1>2, <1>4, NoneApart DEF Hearing, Audited, Complete
  <2> QED
    BY <2>2, <2>3, <2>4 DEF LedJob, Behind
<1>5. CASE ~(a.is = "audit" /\ d < MaxCCalls)
  <2>1. job' = End("quarantined") \/ job' = End("failed")
    BY <1>1, <1>5 DEF AfterB
  <2>2. job' \in Job /\ job'.stage \in {"quarantined", "failed"}
    BY <1>2, <2>1 DEF End, Job
  <2> QED
    BY <2>2 DEF LedJob, Behind
<1> QED
  BY <1>4, <1>5

LEMMA FinalHeard ==
  ASSUME NEW a, Hearing(a), job.stage = "final", job' = AfterC(a)
  PROVE  job' \in Job /\ LedJob' /\ Behind'
<1>1. PICK f \in 1..MaxCCalls : f = job.round
  BY HeardKept DEF Hearing, Job
<1>2. /\ job \in Job /\ Request = <<"C", f>> /\ a \in Answer /\ f \in Nat /\ MaxCCalls \in Nat
      /\ Audited'
  BY <1>1, HeardKept, SizesAssumption DEF Hearing, Request, Behind
<1>3. PICK d \in 1..MaxCCalls : Deciding(f, d) /\ ("final" \notin job.fixed => f = d + 1)
  BY <1>1 DEF Hearing, LedJob
<1>4. Deciding(f, d)'
  BY <1>3, HeardKept, StillLed
<1>5. a.is \in Complete => Said(f, a.is)' /\ cache'[<<"C", f>>] = a
  BY <1>1, <1>2, SizesAssumption, NoneApart DEF Hearing, Said, Complete
<1>6. CASE a.is = "book" /\ SmallEnough(a.lang)
  <2>1. job' = [job EXCEPT !.stage = "exam", !.lang = a.lang, !.exam = 1]
    BY <1>6 DEF AfterC, Hearing
  <2>2. job' \in Job /\ job'.stage = "exam" /\ job'.exam = 1 /\ job'.lang = a.lang /\ a.lang \in Langs
    <3>1. 1 \in 0..NExams /\ a.lang \in Langs
      BY <1>6, SizesAssumption DEF Hearing
    <3> QED
      BY <1>2, <2>1, <3>1 DEF Job
  <2>3. Said(f, "book")' /\ cache'[<<"C", f>>] = a
    BY <1>5, <1>6 DEF Complete
  <2>4. Chosen(job.lang)'
    BY <1>4, <2>2, <2>3 DEF Chosen
  <2>5. SmallEnough(job.lang)'
    BY <1>6, <2>2 DEF SmallEnough, Hearing
  <2>6. \A n \in 1..NExams : ~(n < 1)
    BY SizesAssumption
  <2> QED
    BY <1>2, <2>2, <2>4, <2>5, <2>6 DEF LedJob, Behind
<1>7. CASE a.is = "fixable" /\ "final" \notin job.fixed /\ f < MaxCCalls
  <2>1. job' = [job EXCEPT !.fixed = @ \cup {"final"}, !.round = @ + 1]
    BY <1>1, <1>7 DEF AfterC, Hearing
  <2>2. job' \in Job /\ job'.stage = "final" /\ job'.round = f + 1 /\ job'.fixed = job.fixed \cup {"final"}
    <3>1. f + 1 \in 1..MaxCCalls
      BY <1>2, <1>7
    <3> QED
      BY <1>1, <1>2, <2>1, <3>1 DEF Job, Hearing
  <2>3. Said(d + 1, "fixable")' /\ f + 1 = d + 2
    BY <1>3, <1>5, <1>7 DEF Complete
  <2>4. Deciding(job.round, d)'
    BY <1>4, <2>2, <2>3 DEF Deciding, FinalAt
  <2> QED
    BY <1>2, <2>2, <2>4 DEF LedJob, Behind
<1>8. CASE ~(a.is = "book" /\ SmallEnough(a.lang)) /\ ~(a.is = "fixable" /\ "final" \notin job.fixed /\ f < MaxCCalls)
  <2>1. job' = End("quarantined") \/ job' = End("failed")
    BY <1>1, <1>8 DEF AfterC
  <2>2. job' \in Job /\ job'.stage \in {"quarantined", "failed"}
    BY <1>2, <2>1 DEF End, Job
  <2> QED
    BY <2>2 DEF LedJob, Behind
<1> QED
  BY <1>6, <1>7, <1>8

LEMMA ExamHeard ==
  ASSUME NEW a, Hearing(a), job.stage = "exam", job' = AfterExam(a)
  PROVE  job' \in Job /\ LedJob' /\ Behind'
<1>1. PICK n, l : n \in 1..NExams /\ n = job.exam /\ l = job.lang
  <2>1. job.exam \in 0..NExams /\ job.exam > 0
    BY HeardKept DEF Hearing, Job, Behind
  <2>2. job.exam \in 1..NExams
    BY <2>1, SizesAssumption
  <2> QED
    BY <2>2
<1>2. /\ job \in Job /\ Request = <<"exam", n>> /\ n \in Nat /\ NExams \in Nat
      /\ l \in Langs /\ SmallEnough(l) /\ Chosen(l) /\ Audited'
      /\ ~job.bad => \A m \in 1..NExams : m < n => Passed(m)
  BY <1>1, HeardKept, SizesAssumption DEF Hearing, Request, LedJob, Behind
<1>3. Chosen(l)' /\ SmallEnough(l)'
  BY <1>2, HeardKept, StillLed
<1> DEFINE bad == job.bad \/ a.is \notin {"pass", "cut"}
<1>4. ASSUME ~bad, NEW m \in 1..NExams, m <= n PROVE Passed(m)'
  <2>1. <<"exam", m>> \in Keys
    BY DEF Keys
  <2>2. CASE m = n
    BY <1>2, <1>4, <2>2 DEF Hearing, Passed, Complete
  <2>3. CASE m # n
    <3>1. Passed(m) /\ <<"exam", m>> # Request
      BY <1>2, <1>4, <2>3
    <3>2. cache'[<<"exam", m>>] = cache[<<"exam", m>>]
      BY <2>1, <3>1 DEF Hearing
    <3> QED
      BY <3>1, <3>2 DEF Passed
  <2> QED
    BY <2>2, <2>3
<1>5. bad \in BOOLEAN
  OBVIOUS
<1> HIDE DEF bad
<1>6. CASE a.is # "none" /\ n < NExams
  <2>1. job' = [job EXCEPT !.exam = @ + 1, !.bad = bad]
    BY <1>1, <1>6 DEF AfterExam, bad
  <2>2. /\ job' \in Job /\ job'.stage = "exam" /\ job'.exam = n + 1 /\ job'.lang = l
        /\ job'.bad = bad
    <3>1. n + 1 \in 0..NExams
      BY <1>2, <1>6
    <3> QED
      BY <1>1, <1>2, <1>5, <2>1, <3>1 DEF Job, Hearing
  <2>3. ~bad => \A m \in 1..NExams : m < n + 1 => Passed(m)'
    BY <1>2, <1>4
  <2> QED
    BY <1>2, <1>3, <2>2, <2>3 DEF LedJob, Behind
<1>7. CASE a.is # "none" /\ ~(n < NExams) /\ ~bad
  <2>1. job' = End("applied")
    BY <1>1, <1>7 DEF AfterExam, bad
  <2>2. job' \in Job /\ job'.stage = "applied" /\ job'.lang = l
    BY <1>1, <1>2, <2>1 DEF End, Job
  <2>3. \A m \in 1..NExams : Passed(m)'
    BY <1>2, <1>4, <1>7
  <2> QED
    BY <1>2, <1>3, <2>2, <2>3 DEF LedJob, Behind
<1>8. CASE a.is = "none" \/ (~(n < NExams) /\ bad)
  <2>1. job' = End("failed")
    BY <1>1, <1>8 DEF AfterExam, bad
  <2>2. job' \in Job /\ job'.stage = "failed"
    BY <1>2, <2>1 DEF End, Job
  <2> QED
    BY <2>2 DEF LedJob, Behind
<1> QED
  BY <1>6, <1>7, <1>8

\* Hear, with the answers on disk and the account as the caller leaves them.
LEMMA Heard ==
  ASSUME Inv, NEW a, Hearing(a), Hear(a), got' = None, spent' \in [Keys -> Nat],
         \A k \in Keys : spent'[k] <= unsaved + (IF cache'[k] # None THEN 1 ELSE 0)
  PROVE  Inv'
<1>1. /\ pc' = "ask" /\ UNCHANGED <<disk, mem, running, edition, cacheOf, unsaved, decided, barred, crashes>>
      /\ job # None /\ mem # None /\ pc # "down"
  BY DEF Hear, Hearing, Inv, Phases
<1>2. job' \in Job /\ LedJob' /\ Behind'
  <2>1. CASE job.stage = "review"
    BY <2>1, ReviewHeard DEF Hear
  <2>2. CASE job.stage = "exam"
    BY <2>2, ExamHeard DEF Hear
  <2>3. CASE job.stage \in {"draft", "final"}
    <3>1. job' = AfterC(a)
      BY <2>3 DEF Hear
    <3> QED
      BY <2>3, <3>1, DraftHeard, FinalHeard
  <2>4. job.stage \in {"review", "exam", "draft", "final"}
    BY <1>1 DEF Hearing, TypeOK, Job, Verdicts
  <2> QED
    BY <2>1, <2>2, <2>3, <2>4
<1>3. job' # None
  BY <1>2, NoneApart
<1>4. TypeOK'
  BY <1>1, <1>2 DEF Inv, TypeOK, Hearing
<1>5. Phases' /\ Seeds' /\ Bars'
  BY <1>1, <1>3 DEF Inv, Phases, Seeds, Owing, Bars, Quarantined
<1>6. Saved'
  <2>1. ASSUME NEW k \in Keys, cache'[k] # None
        PROVE  cache'[k].is \in Complete /\ (cache'[k].is = "book" => cache'[k].lang \in Langs)
    <3>1. CASE k = Request
      BY <2>1, <3>1 DEF Hearing
    <3>2. CASE k # Request
      BY <2>1, <3>2 DEF Hearing, Inv, Saved
    <3> QED
      BY <3>1, <3>2
  <2> QED
    BY <1>1, <2>1 DEF Saved
<1>7. Paid'
  BY <1>1 DEF Paid
<1>8. Led'
  BY <1>1, <1>2, HeardKept, StillLed DEF Inv, Led
<1> QED
  BY <1>2, <1>4, <1>5, <1>6, <1>7, <1>8 DEF Inv

\* Whatever the budget lets through of an answer that is on disk.
LEMMA WithinBudget ==
  ASSUME Inv, NEW a, Hearing(a), a.is \in Complete, HearWithinBudget(a),
         got' = None, spent' \in [Keys -> Nat],
         \A k \in Keys : spent'[k] <= unsaved + (IF cache'[k] # None THEN 1 ELSE 0)
  PROVE  Inv'
<1>1. NoAnswer \in Answer /\ NoAnswer.is = "none"
  BY DEF NoAnswer, Answer
<1>2. Hearing(NoAnswer)
  BY <1>1 DEF Hearing
<1> QED
  BY <1>2, Heard DEF HearWithinBudget

LEMMA ReuseStep == ASSUME Inv, Reuse PROVE Inv'
<1> DEFINE a == cache[Request]
<1>1. /\ pc = "ask" /\ job.stage \notin Verdicts /\ a # None /\ HearWithinBudget(a)
      /\ UNCHANGED <<got, cache, spent, mem>>
      /\ job # None /\ mem # None /\ got = None
  BY DEF Reuse, HearWithinBudget, Hear, Inv, Phases
<1>2. Request \in Keys
  BY <1>1, RequestKey DEF Inv, Behind
<1>3. a \in Answer /\ a.is \in Complete /\ (a.is = "book" => a.lang \in Langs)
  BY <1>1, <1>2 DEF Inv, TypeOK, Saved
<1>4. cache'[Request] = a
  BY <1>1
<1>5. Hearing(a)
  BY <1>1, <1>2, <1>3, <1>4 DEF Hearing, Inv, TypeOK, Led
<1>6. \A k \in Keys : spent'[k] <= unsaved + (IF cache'[k] # None THEN 1 ELSE 0)
  BY <1>1 DEF Inv, Paid
<1>7. spent' \in [Keys -> Nat] /\ got' = None
  BY <1>1 DEF Inv, TypeOK
<1> HIDE DEF a
<1> QED
  BY <1>1, <1>3, <1>5, <1>6, <1>7, WithinBudget

LEMMA SaveStep == ASSUME Inv, Save PROVE Inv'
<1>1. /\ pc = "save" /\ cache' = [cache EXCEPT ![Request] = got] /\ HearWithinBudget(got)
      /\ got' = None /\ UNCHANGED <<spent, mem>>
      /\ job # None /\ mem # None /\ got # None
  BY DEF Save, HearWithinBudget, Hear, Inv, Phases
<1>2. Request \in Keys
  BY <1>1, RequestKey DEF Inv, Behind
<1>3. /\ got \in Answer /\ got.is \in Complete /\ (got.is = "book" => got.lang \in Langs)
      /\ job.stage \notin Verdicts /\ cache[Request] = None
  BY <1>1 DEF Inv, TypeOK, Saved
<1>4. /\ cache' \in [Keys -> Answer \cup {None}] /\ cache'[Request] = got
      /\ \A k \in Keys : k # Request => cache'[k] = cache[k]
  BY <1>1, <1>2, <1>3 DEF Inv, TypeOK
<1>5. Hearing(got)
  BY <1>1, <1>3, <1>4 DEF Hearing, Inv, Led
<1>6. \A k \in Keys : spent'[k] <= unsaved + (IF cache'[k] # None THEN 1 ELSE 0)
  BY <1>1, <1>4 DEF Inv, Paid
<1>7. spent' \in [Keys -> Nat]
  BY <1>1 DEF Inv, TypeOK
<1> QED
  BY <1>1, <1>3, <1>5, <1>6, <1>7, WithinBudget

LEMMA BuyStep == ASSUME Inv, NEW a, Buy(a) PROVE Inv'
<1>1. /\ pc = "ask" /\ job.stage \notin Verdicts /\ cache[Request] = None /\ a \in Answers
      /\ job # None /\ mem # None /\ got = None
  BY DEF Buy, Inv, Phases
<1>2. Request \in Keys
  BY <1>1, RequestKey DEF Inv, Behind
<1>3. a \in Answer /\ (a.is = "book" => a.lang \in Langs)
  BY <1>1 DEF Answers, Answer, Complete
<1>4. CASE a.is \notin Complete
  <2>1. Hear(a) /\ UNCHANGED <<got, cache, spent>>
    BY <1>4 DEF Buy
  <2>2. Hearing(a)
    BY <1>1, <1>2, <1>3, <1>4, <2>1 DEF Hearing, Inv, TypeOK, Led, Hear
  <2>3. \A k \in Keys : spent'[k] <= unsaved + (IF cache'[k] # None THEN 1 ELSE 0)
    BY <1>1, <2>1 DEF Inv, Paid
  <2>4. spent' \in [Keys -> Nat] /\ got' = None
    BY <1>1, <2>1 DEF Inv, TypeOK
  <2> QED
    BY <2>1, <2>2, <2>3, <2>4, Heard
<1>5. CASE a.is \in Complete
  <2>1. /\ spent' = [spent EXCEPT ![Request] = @ + 1] /\ got' = a /\ pc' = "save"
        /\ UNCHANGED <<disk, mem, running, job, edition, cache, cacheOf, unsaved, decided, barred, crashes>>
    BY <1>5 DEF Buy, replay
  <2>2. Request' = Request
    BY <2>1 DEF Request
  <2>3. got' # None
    BY <1>3, <2>1, NoneApart
  <2>4. spent' \in [Keys -> Nat] /\ spent'[Request] = spent[Request] + 1
        /\ \A k \in Keys : k # Request => spent'[k] = spent[k]
    BY <1>2, <2>1 DEF Inv, TypeOK
  <2>5. TypeOK' /\ Phases' /\ Seeds' /\ Bars'
    BY <1>1, <1>3, <2>1, <2>3, <2>4 DEF Inv, TypeOK, Phases, Seeds, Owing, Bars, Quarantined
  <2>6. Saved'
    BY <1>1, <1>3, <1>5, <2>1, <2>2 DEF Inv, Saved
  <2>7. Paid'
    <3>1. ASSUME NEW k \in Keys
          PROVE  spent'[k] <= unsaved + (IF cache[k] # None \/ Request = k THEN 1 ELSE 0)
      <4>1. spent[k] <= unsaved + (IF cache[k] # None THEN 1 ELSE 0) /\ spent[k] \in Nat /\ unsaved \in Nat
        BY <1>1 DEF Inv, Paid, TypeOK
      <4> QED
        BY <1>1, <2>4, <4>1
    <3> QED
      BY <2>1, <2>2, <3>1 DEF Paid
  <2>8. Led'
    <3>1. \A f, d : Deciding(f, d)' <=> Deciding(f, d)
      BY <2>1 DEF Deciding, DraftAt, FinalAt, Said
    <3>2. \A l : Chosen(l)' <=> Chosen(l)
      BY <2>1, <3>1 DEF Chosen, Said
    <3> QED
      BY <2>1, <3>1, <3>2 DEF Inv, Led, LedJob, DraftAt, Said
  <2>9. Behind'
    BY <2>1 DEF Inv, Behind, Audited, Passed, SmallEnough
  <2> QED
    BY <2>5, <2>6, <2>7, <2>8, <2>9 DEF Inv
<1> QED
  BY <1>4, <1>5

LEMMA NextInv == Inv /\ [Next]_vars => Inv'
<1> SUFFICES ASSUME Inv, [Next]_vars PROVE Inv'
  OBVIOUS
<1>1. CASE Runs
  BY <1>1, StartStep, SkipStep, AttemptStep, ReuseStep, SaveStep, ConcludeStep, BuyStep, TurnStep, CommitStep
  DEF Runs
<1>2. CASE UNCHANGED vars
  <2>1. /\ UNCHANGED <<disk, mem, running, pc, job, got, edition, cache, cacheOf>>
        /\ UNCHANGED <<spent, unsaved, decided, barred, crashes>>
    BY <1>2 DEF vars, replay, history
  <2>2. TypeOK' /\ Phases' /\ Seeds' /\ Bars'
    BY <2>1 DEF Inv, TypeOK, Phases, Seeds, Owing, Bars, Quarantined
  <2>3. Request' = Request
    BY <2>1 DEF Request
  <2>4. Saved' /\ Paid' /\ Behind'
    BY <2>1, <2>3 DEF Inv, Saved, Paid, Behind, Audited, Passed, SmallEnough
  <2>5. Led'
    <3>1. \A f, d : Deciding(f, d)' <=> Deciding(f, d)
      BY <2>1 DEF Deciding, DraftAt, FinalAt, Said
    <3>2. \A l : Chosen(l)' <=> Chosen(l)
      BY <2>1, <3>1 DEF Chosen, Said
    <3> QED
      BY <2>1, <3>1, <3>2 DEF Inv, Led, LedJob, DraftAt, Said
  <2> QED
    BY <2>2, <2>4, <2>5 DEF Inv
<1> QED
  BY <1>1, <1>2, CrashStep, DeployStep, ResetStep DEF Next

LEMMA Invariance == Spec => []Inv
BY InitInv, NextInv, PTL DEF Spec

-----------------------------------------------------------------------------

\* The cleanup's state keeps its types.
THEOREM TypeCorrect == Spec => []TypeOK
<1>1. Inv => TypeOK
  BY DEF Inv
<1> QED
  BY <1>1, Invariance, PTL

\* A complete answer is paid for once, and once more for every process that died
\* before it was on disk (CleanupReplay in cleanup_replay.py).
THEOREM NoSecondPayment == Spec => []PaidOnce
<1>1. Inv => PaidOnce
  <2> SUFFICES ASSUME Inv, NEW k \in Keys PROVE spent[k] <= 1 + unsaved
    BY DEF PaidOnce
  <2>1. spent[k] \in Nat /\ unsaved \in Nat
    BY DEF Inv, TypeOK
  <2>2. spent[k] <= unsaved + (IF cache[k] # None \/ (pc = "save" /\ Request = k) THEN 1 ELSE 0)
    BY DEF Inv, Paid
  <2> QED
    BY <2>1, <2>2
<1> QED
  BY <1>1, Invariance, PTL

\* A turn that is redone never applies another language than before, for the
\* answers on disk lead one way only (run_shadow_cleanup over CleanupReplay).
THEOREM OneDecision == Spec => []DecisionStands
<1>1. Inv => DecisionStands
  <2> SUFFICES ASSUME Inv PROVE Cardinality(decided) <= 1
    BY DEF DecisionStands
  <2>1. CASE decided = {}
    BY <2>1, FS_EmptySet
  <2>2. ASSUME NEW l \in decided PROVE Cardinality(decided) <= 1
    <3>1. decided = {l}
      BY OneWay DEF Inv, Led
    <3>2. Cardinality({l}) = 1
      BY FS_Singleton
    <3> QED
      BY <3>1, <3>2
  <2> QED
    BY <2>1, <2>2
<1> QED
  BY <1>1, Invariance, PTL

\* What is about to be applied was decided with B's audit at hand, is shorter,
\* and failed no exam on record (run_verified_cleanup).
THEOREM AdmittedOnly == Spec => []Admitted
<1>1. Inv => Admitted
  <2> SUFFICES ASSUME Inv, job # None, job.stage = "applied"
               PROVE  /\ Audited /\ \A n \in 1..NExams : Passed(n)
                      /\ Tokens[job.lang] < Tokens[mem.law] /\ Tokens[job.lang] <= MaxTokens
    BY DEF Admitted, Audited, Passed
  <2>1. Audited /\ (\A n \in 1..NExams : Passed(n)) /\ job.lang \in Langs /\ SmallEnough(job.lang)
    BY DEF Inv, Behind
  <2>2. mem \in Turn
    BY DEF Inv, Phases, TypeOK
  <2> QED
    BY <2>1, <2>2, Shorter
<1> QED
  BY <1>1, Invariance, PTL

\* Seeds are owed anew only when none are (pending_creative_seeds in loop.py).
THEOREM SeedsNotLost == Spec => SeedsKept
<1>1. ASSUME Inv, [Next]_vars, mem # None, mem' # None, ~(mem'.owed \subseteq mem.owed)
      PROVE  mem.owed = {}
  <2>1. mem \in Turn /\ mem.owed \in SUBSET {"A", "B"} /\ pc # "down"
    BY <1>1 DEF Inv, TypeOK, Phases, Turn
  <2>2. CASE UNCHANGED mem
    BY <1>1, <2>2
  <2>3. CASE Skip
    BY <1>1, <2>1, <2>3 DEF Skip, Turn
  <2>4. CASE Attempt
    BY <1>1, <2>1, <2>4 DEF Attempt, Turn
  <2>5. CASE Conclude
    <3>1. job # None
      BY <1>1, <2>5 DEF Conclude, Inv, Phases
    <3> QED
      BY <1>1, <3>1 DEF Inv, Seeds
  <2>6. ASSUME NEW agent \in {"A", "B"}, ValidTurn(agent) PROVE mem'.owed \subseteq mem.owed
    <3>1. Delivered \in Turn /\ Delivered.owed = mem.owed \ {agent}
      BY <2>1, <2>6 DEF ValidTurn, Delivered, Agent, Turn
    <3>2. mem'.owed = Delivered.owed
      BY <3>1, <2>6 DEF ValidTurn, Acts, Turn
    <3> QED
      BY <3>1, <3>2
  <2>7. CASE OtherTurn
    BY <1>1, <2>1, <2>7 DEF OtherTurn, Acts, Turn
  <2>8. CASE Start \/ Crash \/ Commit
    BY <1>1, <2>1, <2>8 DEF Start, Crash, Commit
  <2>9. CASE Reuse \/ Save \/ (\E a : Buy(a)) \/ Deploy \/ Reset \/ UNCHANGED vars
    BY <2>9, <2>2 DEF Reuse, Save, HearWithinBudget, Buy, Hear, Deploy, Reset, vars
  <2> QED
    BY <1>1, <2>3, <2>4, <2>5, <2>6, <2>7, <2>8, <2>9 DEF Next, Runs
<1> QED
  BY <1>1, Invariance, PTL DEF Spec, SeedsKept

\* No answer is paid for by an edition whose quarantine was committed
\* (maybe_run_automatic_cleanup and the operator's reset in loop.py).
THEOREM QuarantineObeyed == Spec => QuarantineHolds
<1>1. ASSUME Inv, [Next]_vars, pc' = "save" PROVE running \notin barred
  <2>1. pc \in {"ask", "save"}
    <3>1. CASE \E a : Buy(a)
      BY <3>1 DEF Buy
    <3>2. CASE Deploy \/ UNCHANGED vars
      BY <1>1, <3>2 DEF Deploy, vars
    <3>3. CASE Reset
      BY <1>1, <3>3 DEF Reset
    <3>4. CASE \/ Start \/ Skip \/ Attempt \/ Reuse \/ Save \/ Conclude \/ OtherTurn \/ Commit \/ Crash
               \/ \E agent \in {"A", "B"} : ValidTurn(agent)
      BY <1>1, <3>4
      DEF Start, Skip, Attempt, Reuse, Save, HearWithinBudget, Hear, Conclude, OtherTurn, ValidTurn, Acts, Commit, Crash
    <3> QED
      BY <1>1, <3>1, <3>2, <3>3, <3>4 DEF Next, Runs
  <2>2. job # None /\ mem # None
    BY <1>1, <2>1 DEF Inv, Phases
  <2> QED
    BY <1>1, <2>2 DEF Inv, Bars, Quarantined
<1> QED
  BY <1>1, Invariance, PTL DEF Spec, QuarantineHolds
=============================================================================
