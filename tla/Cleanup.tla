------------------------------- MODULE Cleanup -------------------------------
(***************************************************************************)
(* The automatic cleanup (maybe_run_automatic_cleanup in loop.py): when    *)
(* the language has grown, agent C drafts a shorter one, B comments, C     *)
(* decides (shadow_cleanup.py), and the exams admit it                     *)
(* (verified_cleanup.py).  It runs at the start of a turn and is committed *)
(* with it; a process that dies redoes the turn and takes the complete     *)
(* answers it has paid for from disk (cleanup_replay.py).                  *)
(*                                                                         *)
(* A language is what its adopted rules say; that each request follows     *)
(* from the answers before it makes its place a name for it.  A commit is  *)
(* one step, which TurnStore justifies.                                    *)
(***************************************************************************)
EXTENDS Naturals, FiniteSets

CONSTANTS
  Langs, Tokens,      \* languages and their kernel_tokens
  None,
  Growth,             \* AUTOMATIC_CLEANUP_GROWTH_PERCENT
  MinCut,             \* the least reduction, percent (verified_cleanup.py 82)
  MaxTokens,          \* CleanupPolicy.max_language_tokens
  MaxCCalls,          \* MAX_C_CALLS
  NExams,             \* benchmarks in the registered suite
  TestEvery,          \* loop.TEST_EVERY
  NEditions, MaxCrashes   \* bounds of the model

Editions == 1..NEditions
Keys == {<<"C", n>> : n \in 1..MaxCCalls} \cup {<<"B", 1>>} \cup {<<"exam", n>> : n \in 1..NExams}

\* meta.automatic_cleanup; "failed_c" is a failure of agent C that an older
\* version recorded as plainly failed.
Clean == [status : {"none", "armed", "failed", "failed_c", "quarantined", "applied"},
          baseline : Nat, tried : Langs \cup {None},
          at : {0} \cup Editions, reviewed : {0} \cup Editions]
Turn == [law : Langs, motion : Langs \cup {None}, last : {"A", "B"},
         turn : 0..TestEvery-1, clean : Clean, owed : SUBSET {"A", "B"}]

\* What a request may bring.  "cut" and "broken" are answers whose finish_reason
\* is not "stop", "none" is no answer or no money left for the request.  Of
\* C's, "fixable" breaks a reference rule that it may mend once, "malformed" is
\* no object of the schema, "unfit" fails another check.
Complete == {"book", "fixable", "malformed", "unfit", "audit", "invalid", "pass", "fail"}
Answer == [is : Complete \cup {"cut", "broken", "none"}, lang : Langs \cup {None}]
Job == [stage : {"draft", "review", "final", "exam", "failed", "quarantined", "applied"},
        round : 1..MaxCCalls, fixed : SUBSET {"draft", "final"}, lang : Langs \cup {None},
        exam : 0..NExams, bad : BOOLEAN]

ASSUME SizesAssumption ==
  /\ Tokens \in [Langs -> Nat \ {0}] /\ None \notin Langs \cup Turn \cup Job \cup Answer
  /\ Growth \in Nat \ {0} /\ MinCut \in Nat \ {0} /\ MaxTokens \in Nat
  /\ MaxCCalls \in Nat \ {0} /\ NExams \in Nat \ {0} /\ TestEvery \in Nat \ {0}
  /\ NEditions \in Nat \ {0} /\ MaxCrashes \in Nat

VARIABLES
  disk,      \* the committed turn
  mem,       \* the turn the running process works on, or None
  running,   \* the edition of the code it runs
  pc,        \* "down", "begin", "ask", "save", "act" or "commit"
  job,       \* the attempt in progress, or None
  got,       \* an answer that is not on disk yet, or None
  edition,   \* AUTOMATIC_CLEANUP_EDITION as deployed
  cache,     \* the replay directory of the committed rulebook and of cacheOf
  cacheOf

\* History, read by properties only; spent, unsaved and decided are about the
\* same rulebook and edition as cache.
VARIABLES
  spent,     \* request -> complete answers paid for
  unsaved,   \* of those, answers lost with their process
  decided,   \* languages applied
  barred,    \* editions whose quarantine was committed
  crashes

replay == <<cache, cacheOf>>
history == <<spent, unsaved, decided, barred, crashes>>
vars == <<disk, mem, running, pc, job, got, edition, replay, history>>

Init ==
  /\ \E l \in Langs, status \in {"none", "failed_c"} :
       disk = [law |-> l, motion |-> None, last |-> "B", turn |-> 0, owed |-> {},
               clean |-> [status |-> status, baseline |-> IF status = "none" THEN 0 ELSE Tokens[l],
                          tried |-> None, at |-> 0, reviewed |-> 0]]
  /\ mem = None /\ running = 1 /\ pc = "down" /\ job = None /\ got = None
  /\ edition = 1 /\ cache = [k \in Keys |-> None] /\ cacheOf = 1
  /\ spent = [k \in Keys |-> 0] /\ unsaved = 0 /\ decided = {} /\ barred = {} /\ crashes = 0

\* The answers on disk are of another rulebook or edition than the one to come.
Forget ==
  /\ cache' = [k \in Keys |-> None] /\ spent' = [k \in Keys |-> 0]
  /\ unsaved' = 0 /\ decided' = {}
Keep == UNCHANGED <<cache, spent, unsaved, decided>>

-----------------------------------------------------------------------------
(* Processes, deployments and the operator *)

Start ==
  /\ pc = "down"
  /\ pc' = "begin" /\ mem' = disk /\ running' = edition /\ cacheOf' = edition
  /\ IF cacheOf = edition THEN Keep ELSE Forget
  /\ UNCHANGED <<disk, job, got, edition, barred, crashes>>

\* It is killed, or an error of the accounting or of the provider ends it.
Crash ==
  /\ pc # "down" /\ crashes < MaxCrashes
  /\ pc' = "down" /\ mem' = None /\ job' = None /\ got' = None
  /\ unsaved' = IF pc = "save" THEN unsaved + 1 ELSE unsaved
  /\ crashes' = crashes + 1
  /\ UNCHANGED <<disk, running, edition, replay, spent, decided, barred>>

\* A new edition of the cleanup.  A roll-back to an earlier one is left out.
Deploy ==
  /\ edition < NEditions
  /\ edition' = edition + 1
  /\ UNCHANGED <<disk, mem, running, pc, job, got, replay, history>>

\* Mutant: the operator's review is taken as given.
ResetUnreviewed ==
  /\ pc = "down"
  /\ disk.clean.status \in {"quarantined", "failed", "failed_c"}
  /\ disk' = [disk EXCEPT !.clean = [@ EXCEPT !.status = "armed", !.tried = None,
                                              !.at = 0, !.reviewed = edition]]
  /\ UNCHANGED <<mem, running, pc, job, got, edition, replay, history>>

\* reset_automatic_cleanup_quarantine, between turns.  The edition a plain
\* failure happened under is not recorded: it is held against the last review.
Reset ==
  /\ pc = "down"
  /\ \/ disk.clean.status = "quarantined" /\ edition # disk.clean.at
     \/ disk.clean.status \in {"failed", "failed_c"} /\ edition # disk.clean.reviewed
  /\ disk' = [disk EXCEPT !.clean = [@ EXCEPT !.status = "armed", !.tried = None,
                                              !.at = 0, !.reviewed = edition]]
  /\ UNCHANGED <<mem, running, pc, job, got, edition, replay, history>>

-----------------------------------------------------------------------------
(* The start of a turn *)

\* _upgrade_automatic_cleanup_state
Upgraded == IF mem.clean.status = "failed_c"
            THEN [mem.clean EXCEPT !.status = "quarantined"] ELSE mem.clean

Threshold == (mem.clean.baseline * (100 + Growth) + 99) \div 100

\* Mutant: an open motion does not hold the cleanup up.
DueUnderMotion ==
  /\ Upgraded.status \notin {"none", "quarantined"}
  /\ Tokens[mem.law] >= Threshold
  /\ mem.clean.tried # mem.law

Due ==
  /\ Upgraded.status \notin {"none", "quarantined"}
  /\ Tokens[mem.law] >= Threshold
  /\ mem.motion = None
  /\ mem.clean.tried # mem.law

\* No cleanup this turn; the first turn of all sets the baseline.
Skip ==
  /\ pc = "begin" /\ ~Due
  /\ mem' = [mem EXCEPT !.clean =
       IF @.status = "none" THEN [@ EXCEPT !.status = "armed", !.baseline = Tokens[mem.law]]
                            ELSE Upgraded]
  /\ pc' = "act"
  /\ UNCHANGED <<disk, running, job, got, edition, replay, history>>

Attempt ==
  /\ pc = "begin" /\ Due
  /\ mem' = [mem EXCEPT !.clean.tried = mem.law]
  /\ job' = [stage |-> "draft", round |-> 1, fixed |-> {}, lang |-> None, exam |-> 0, bad |-> FALSE]
  /\ pc' = "ask"
  /\ UNCHANGED <<disk, running, got, edition, replay, history>>

-----------------------------------------------------------------------------
(* The requests of an attempt *)

Verdicts == {"failed", "quarantined", "applied"}

Request == CASE job.stage = "review" -> <<"B", 1>>
             [] job.stage = "exam" -> <<"exam", job.exam>>
             [] OTHER -> <<"C", job.round>>

\* What a provider can answer: a book is one that compiles.
Answers ==
  LET kinds == CASE job.stage = "review" -> {"audit", "invalid", "unfit"}
                 [] job.stage = "exam" -> {"pass", "fail"}
                 [] OTHER -> {"fixable", "malformed", "unfit"}
  IN [is : kinds \cup {"cut", "broken", "none"}, lang : {None}]
     \cup (IF job.stage \in {"draft", "final"} THEN [is : {"book"}, lang : Langs] ELSE {})

\* The reduction asked for (the applied book is measured once more).
SmallEnough(l) ==
  /\ 100 * Tokens[l] <= (100 - MinCut) * Tokens[mem.law]
  /\ Tokens[l] <= MaxTokens

End(verdict) == [job EXCEPT !.stage = verdict]

\* Mutant: every reference error may be mended.
AfterCAgain(a) ==
  CASE a.is = "book" /\ SmallEnough(a.lang) ->
         IF job.stage = "draft" THEN [job EXCEPT !.stage = "review"]
         ELSE [job EXCEPT !.stage = "exam", !.lang = a.lang, !.exam = 1]
    [] a.is = "fixable" -> [job EXCEPT !.round = @ + 1]
    [] a.is \in {"malformed", "cut"} -> End("quarantined")
    [] OTHER -> End("failed")

\* run_shadow_cleanup, an answer of C: one repair each for draft and decision.
AfterC(a) ==
  CASE a.is = "book" /\ SmallEnough(a.lang) ->
         IF job.stage = "draft" THEN [job EXCEPT !.stage = "review"]
         ELSE [job EXCEPT !.stage = "exam", !.lang = a.lang, !.exam = 1]
    [] a.is = "fixable" /\ job.stage \notin job.fixed /\ job.round < MaxCCalls ->
         [job EXCEPT !.fixed = @ \cup {job.stage}, !.round = @ + 1]
    [] a.is \in {"malformed", "cut"} -> End("quarantined")
    [] OTHER -> End("failed")

\* Mutant: without B's advice C decides alone.
AfterBOpen(a) ==
  IF job.round < MaxCCalls THEN [job EXCEPT !.stage = "final", !.round = @ + 1] ELSE End("failed")

\* B's advice goes back to C whatever it says, but there must be one.
AfterB(a) ==
  CASE a.is = "audit" /\ job.round < MaxCCalls -> [job EXCEPT !.stage = "final", !.round = @ + 1]
    [] a.is \in {"invalid", "cut", "none"} -> End("quarantined")
    [] OTHER -> End("failed")

\* run_verified_cleanup: the whole suite is run, and every exam must be passed.
\* An exam does not ask whether its answers are complete: here "cut" stands for
\* an incomplete one that passes all the same, "broken" for one that does not.
AfterExam(a) ==
  IF a.is = "none" THEN End("failed")
  ELSE LET bad == job.bad \/ a.is \notin {"pass", "cut"}
       IN IF job.exam < NExams THEN [job EXCEPT !.exam = @ + 1, !.bad = bad]
          ELSE End(IF bad THEN "failed" ELSE "applied")

Hear(a) ==
  /\ job' = CASE job.stage = "review" -> AfterB(a)
              [] job.stage = "exam" -> AfterExam(a)
              [] OTHER -> AfterC(a)
  /\ pc' = "ask"
  /\ UNCHANGED <<disk, mem, running, edition, cacheOf, unsaved, decided, barred, crashes>>

\* check_budget looks before a request and behind its answer, the saved ones
\* too: money that has run out leaves the attempt without that answer.
NoAnswer == [is |-> "none", lang |-> None]
HearWithinBudget(a) == Hear(a) \/ Hear(NoAnswer)

\* CleanupReplay.call: an answer that is on disk.
Reuse ==
  /\ pc = "ask" /\ job.stage \notin Verdicts /\ cache[Request] # None
  /\ HearWithinBudget(cache[Request])
  /\ UNCHANGED <<got, cache, spent>>

\* A complete answer is saved before it is used, another one is only used.
Buy(a) ==
  /\ pc = "ask" /\ job.stage \notin Verdicts /\ cache[Request] = None
  /\ a \in Answers
  /\ IF a.is \in Complete
     THEN /\ spent' = [spent EXCEPT ![Request] = @ + 1]
          /\ got' = a /\ pc' = "save"
          /\ UNCHANGED <<disk, mem, running, job, edition, replay, unsaved, decided, barred, crashes>>
     ELSE Hear(a) /\ UNCHANGED <<got, cache, spent>>

\* Mutant: a second request of C is taken for the first.
SaveFirst ==
  /\ pc = "save"
  /\ cache' = [cache EXCEPT ![<<Request[1], 1>>] = got]
  /\ HearWithinBudget(got)
  /\ got' = None
  /\ UNCHANGED spent

\* Mutant: the answer is used but not written down.
SaveNothing ==
  /\ pc = "save"
  /\ HearWithinBudget(got)
  /\ got' = None
  /\ UNCHANGED <<cache, spent>>

Save ==
  /\ pc = "save"
  /\ cache' = [cache EXCEPT ![Request] = got]
  /\ HearWithinBudget(got)
  /\ got' = None
  /\ UNCHANGED spent

\* The outcome of the attempt.
Conclude ==
  /\ pc = "ask" /\ job.stage \in Verdicts
  /\ mem' = CASE job.stage = "failed" -> [mem EXCEPT !.clean.status = "failed"]
              [] job.stage = "quarantined" ->
                   [mem EXCEPT !.clean.status = "quarantined", !.clean.at = running]
              [] job.stage = "applied" ->
                   [mem EXCEPT !.law = job.lang, !.owed = {"A", "B"},
                               !.clean.status = "applied", !.clean.baseline = Tokens[job.lang]]
  /\ decided' = IF job.stage = "applied" THEN decided \cup {job.lang} ELSE decided
  /\ job' = None /\ pc' = "act"
  /\ UNCHANGED <<disk, running, got, edition, replay, spent, unsaved, barred, crashes>>

-----------------------------------------------------------------------------
(* The rest of the turn *)

Agent == IF mem.last = "A" THEN "B" ELSE "A"
IsExam == (mem.turn + 1) % TestEvery = 0

\* A turn of this kind, with this effect on the law and on what is owed.
Acts(next) ==
  /\ pc = "act" /\ mem' = [next EXCEPT !.turn = (@ + 1) % TestEvery]
  /\ pc' = "commit"
  /\ UNCHANGED <<disk, running, job, got, edition, replay, history>>

\* Only a valid turn delivers the seeds.
Delivered == [mem EXCEPT !.last = Agent, !.owed = @ \ {Agent}]

\* A proposes or revises, B decides or asks for a revision, or nobody moves.
ValidTurn(agent) ==
  /\ pc = "act" /\ ~IsExam /\ Agent = agent
  /\ \/ Acts(Delivered)
     \/ /\ agent = "A"
        /\ \E l \in Langs \ {mem.law, mem.motion} : Acts([Delivered EXCEPT !.motion = l])
     \/ /\ agent = "B" /\ mem.motion # None
        /\ \/ Acts([Delivered EXCEPT !.law = mem.motion, !.motion = None])
           \/ Acts([Delivered EXCEPT !.motion = None])

\* An exam, or a reply that does not fit the schema.
OtherTurn == Acts(mem)

\* The process goes on to its next turn, or has run all it was started for.
Commit ==
  /\ pc = "commit"
  /\ disk' = mem
  /\ \/ pc' = "begin" /\ UNCHANGED mem
     \/ pc' = "down" /\ mem' = None
  /\ IF mem.law = disk.law /\ mem.motion = disk.motion THEN Keep ELSE Forget
  /\ barred' = IF mem.clean.status = "quarantined" /\ mem.clean.at # 0
               THEN barred \cup {mem.clean.at} ELSE barred
  /\ UNCHANGED <<running, job, got, edition, cacheOf, crashes>>

-----------------------------------------------------------------------------

Runs ==
  \/ Start \/ Skip \/ Attempt
  \/ Reuse \/ Save \/ Conclude
  \/ \E l \in Langs \cup {None}, is \in Complete \cup {"cut", "broken", "none"} :
       Buy([is |-> is, lang |-> l])
  \/ \E agent \in {"A", "B"} : ValidTurn(agent)
  \/ OtherTurn \/ Commit

Next == Runs \/ Crash \/ Deploy \/ Reset

Spec == Init /\ [][Next]_vars

-----------------------------------------------------------------------------
(* Properties *)

\* Every variable holds a value of its kind.
TypeOK ==
  /\ disk \in Turn /\ mem \in Turn \cup {None} /\ running \in Editions
  /\ pc \in {"down", "begin", "ask", "save", "act", "commit"}
  /\ job \in Job \cup {None} /\ got \in Answer \cup {None}
  /\ edition \in Editions /\ cache \in [Keys -> Answer \cup {None}] /\ cacheOf \in Editions
  /\ spent \in [Keys -> Nat] /\ unsaved \in Nat /\ decided \subseteq Langs
  /\ barred \subseteq Editions /\ crashes \in 0..MaxCrashes

\* The seeds of one cleanup are never overwritten by those of the next: before
\* the language can have grown again, both agents had a valid turn
\* (pending_creative_seeds in loop.py and legislature.py).
SeedsKept ==
  [][mem # None /\ mem' # None /\ ~(mem'.owed \subseteq mem.owed) => mem.owed = {}]_vars

\* A complete answer is paid for once, although turns are redone by other
\* processes, and again after a reset; only one that died with its process
\* before it was on disk is paid for again (CleanupReplay).
PaidOnce == \A k \in Keys : spent[k] <= 1 + unsaved

\* For one rulebook and edition a turn that is redone never applies a different
\* language than before.
DecisionStands == Cardinality(decided) <= 1

\* What is about to be applied was decided by C with B's valid audit at hand, is
\* shorter, and failed no exam on record, whichever process asked for which part.
Admitted ==
  job # None /\ job.stage = "applied" =>
    /\ cache[<<"B", 1>>] # None /\ cache[<<"B", 1>>].is = "audit"
    /\ \A n \in 1..NExams : cache[<<"exam", n>>] # None => cache[<<"exam", n>>].is = "pass"
    /\ Tokens[job.lang] < Tokens[mem.law] /\ Tokens[job.lang] <= MaxTokens

\* Once a quarantine is committed, its edition never pays for another attempt
\* (MECHANICS.md: "without buying another attempt").
QuarantineHolds == [][pc' = "save" => running \notin barred]_vars
=============================================================================
