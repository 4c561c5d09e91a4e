----------------------------- MODULE Legislature -----------------------------
(***************************************************************************)
(* The legislature (legislature.py, rulebook.py, legislative_protocol.py)  *)
(* with the exams that feed it (exam_evidence.py) and the cleanup that     *)
(* replaces its language (loop.py): who may move what, what happens to the *)
(* one open motion, which request about it the agents are shown, and how a *)
(* failed exam atom becomes a fault, a repair, and a resolved fault.       *)
(*                                                                         *)
(* A rule's id is its position in rules.  The semantic fault ledger is     *)
(* derived in the code by a fold over the conversation's events; here each *)
(* event advances it by one step of that fold.                             *)
(***************************************************************************)
EXTENDS Naturals, Sequences, FiniteSets

CONSTANTS
  Texts,       \* rule texts, up to case and surrounding blanks
  None,        \* no open motion, no linked rule
  NAtoms,      \* critical benchmark atoms, numbered in identity order
  NBench,      \* benchmarks in the suite
  BenchOf,     \* atom -> its benchmark's position in the suite
  TestEvery,   \* every TestEvery-th turn is an exam (loop.TEST_EVERY)
  MaxTurn, MaxRules   \* bounds of the model

Atoms == 1..NAtoms

ASSUME SuiteAssumption ==
  /\ NAtoms \in Nat /\ NBench \in Nat \ {0}
  /\ BenchOf \in [Atoms -> 0..NBench-1]
ASSUME BoundsAssumption ==
  TestEvery \in Nat \ {0} /\ MaxTurn \in Nat /\ MaxRules \in Nat \ {0}

VARIABLES
  turn,       \* the last completed turn
  lastAgent,  \* meta.last_agent: "A", "B" or None
  rules,      \* rulebook.rules: sequence of [status, text, proposed, repeal]
  receipts,   \* the post-state receipts in the conversation
  ledger,     \* atom -> [status, first, last, link]
  cursor,     \* meta.benchmark_suite.next_index
  cleaned     \* the turn of the last cleanup

\* History, read by properties only.
VARIABLE verdict   \* atom -> outcome of its last valid exam

vars == <<turn, lastAgent, rules, receipts, ledger, cursor, cleaned, verdict>>

Statuses == {"proposed", "adopted", "rejected", "repealed", "historical"}
Rule == [status : Statuses, text : Texts, proposed : Nat, repeal : Nat]
Motion == [kind : {"add", "repeal"}, target : Nat]
Receipt == [turn : Nat, actor : {"A", "B", "harness"},
            verb : {"NONE", "PROPOSE", "REPEAL", "REVISE", "ADOPT", "REJECT", "REQUEST"},
            target : Nat, result : {"accepted", "rejected", "structural_failure", "cutover"},
            open : Motion \cup {None}, next : {"A", "B"}]
Fault == [status : {"NONE", "UNRESOLVED", "REPAIR_PROPOSED", "PENDING_RETEST", "RESOLVED"},
          first : Nat, last : Nat, link : Nat]

ASSUME NoneAssumption == None \notin Motion \cup {"A", "B"}

-----------------------------------------------------------------------------
(* What the code derives from its state *)

\* next_legislative_actor
Actor == IF lastAgent = "A" THEN "B" ELSE "A"

\* _open_motions: additions still proposed and repeals still pending.
OpenMotions ==
  {[kind |-> "add", target |-> r] : r \in {q \in DOMAIN rules : rules[q].status = "proposed"}}
  \cup {[kind |-> "repeal", target |-> r] : r \in {q \in DOMAIN rules : rules[q].repeal # 0}}

\* current_open_motion; the code raises if there is more than one.
Floor == IF OpenMotions = {} THEN None ELSE CHOOSE m \in OpenMotions : TRUE

Adopted == {r \in DOMAIN rules : rules[r].status = "adopted"}

\* Mutant: an older repeal of the same rule does not end the search.
FeedbackWithoutBoundary ==
  LET asked == {n \in DOMAIN receipts : /\ receipts[n].verb = "REQUEST"
                                        /\ receipts[n].open = Floor}
  IN IF Floor = None \/ asked = {} THEN 0
     ELSE receipts[CHOOSE n \in asked : \A m \in asked : m <= n].turn

\* derive_active_legislative_feedback: the receipts are read backwards for a
\* request about the open motion, as far as the receipt that opened it.
Feedback ==
  LET asked == {n \in DOMAIN receipts :
                  /\ receipts[n].actor = "B" /\ receipts[n].verb = "REQUEST"
                  /\ receipts[n].result = "accepted" /\ receipts[n].open = Floor}
      opened == {n \in DOMAIN receipts :
                  /\ receipts[n].result = "accepted" /\ receipts[n].open = Floor
                  /\ receipts[n].verb = IF Floor.kind = "add" THEN "PROPOSE" ELSE "REPEAL"}
      found == {n \in asked : \A m \in asked : m <= n}
  IN IF Floor = None \/ asked = {} THEN 0
     ELSE LET n == CHOOSE n \in found : TRUE
          IN IF \E m \in opened : m > n THEN 0 ELSE receipts[n].turn

\* select_semantic_fault_for_turn, for A on an empty floor: the unresolved
\* fault that failed first.  A must then propose a repair for it.
Waiting == {f \in Atoms : ledger[f].status = "UNRESOLVED"}
Required ==
  IF Actor = "A" /\ Floor = None /\ Waiting # {}
  THEN CHOOSE f \in Waiting : \A g \in Waiting :
         \/ ledger[f].first < ledger[g].first
         \/ ledger[f].first = ledger[g].first /\ f <= g
  ELSE 0

\* _linked_fault_for_motion
Linked(r) == {f \in Atoms : ledger[f].status = "REPAIR_PROPOSED" /\ ledger[f].link = r}

Init ==
  /\ turn = 0 /\ lastAgent = None
  /\ \E texts \in {<<>>} \cup {<<x>> : x \in Texts} :   \* the law at the cutover
       rules = [r \in DOMAIN texts |->
                  [status |-> "adopted", text |-> texts[r], proposed |-> 0, repeal |-> 0]]
  /\ receipts = <<[turn |-> 0, actor |-> "harness", verb |-> "NONE", target |-> 0,
                   result |-> "cutover", open |-> None, next |-> "A"]>>
  /\ ledger = [f \in Atoms |-> [status |-> "NONE", first |-> 0, last |-> 0, link |-> 0]]
  /\ cursor = 0 /\ cleaned = 0
  /\ verdict = [f \in Atoms |-> "NONE"]

-----------------------------------------------------------------------------
(* One agent turn (take_turn) *)

IsExam(t) == t % TestEvery = 0

AgentTurn(agent) ==
  /\ turn < MaxTurn /\ ~IsExam(turn + 1)
  /\ Actor = agent
  /\ turn' = turn + 1
  /\ UNCHANGED <<cursor, cleaned, verdict>>

\* The post-state receipt of the turn, and the agent it passes the floor to.
Record(agent, verb, target, result) ==
  /\ receipts' = Append(receipts,
       [turn |-> turn + 1, actor |-> agent, verb |-> verb, target |-> target,
        result |-> result, open |-> Floor', next |-> IF agent = "B" THEN "A" ELSE "B"])
  /\ lastAgent' = agent

\* None of the replies fits the schema: the same actor speaks next.
StructuralFailure(agent) ==
  /\ AgentTurn(agent)
  /\ receipts' = Append(receipts,
       [turn |-> turn + 1, actor |-> agent, verb |-> "NONE", target |-> 0,
        result |-> "structural_failure", open |-> Floor, next |-> agent])
  /\ UNCHANGED <<lastAgent, rules, ledger>>

\* The schema lets an agent stay silent unless B has a motion to audit or A a
\* fault to answer.
NoMotion(agent) ==
  /\ AgentTurn(agent)
  /\ agent = "B" => Floor = None
  /\ Required = 0
  /\ UNCHANGED <<rules, ledger>>
  /\ Record(agent, "NONE", 0, "accepted")

\* A's prose looks like a nested motion, or repeats a live rule: the rulebook
\* refuses it, the turn is over.
RefusedMotion(verb) ==
  /\ AgentTurn("A")
  /\ verb \in (IF Required # 0 THEN {"PROPOSE"}
               ELSE IF Floor = None
                    THEN {"PROPOSE"} \cup (IF Adopted = {} THEN {} ELSE {"REPEAL"})
                    ELSE IF Floor.kind = "add" THEN {"REVISE"} ELSE {})
  /\ UNCHANGED <<rules, ledger>>
  /\ Record("A", verb, 0, "rejected")

Live(x) == \E r \in DOMAIN rules : rules[r].text = x /\ rules[r].status \in {"adopted", "proposed"}

\* A new rule is put on the floor, as the repair of the required fault if any.
\* (MaxRules bounds the rulebook.)
Propose(x) ==
  /\ AgentTurn("A") /\ Floor = None
  /\ ~Live(x) /\ Len(rules) < MaxRules
  /\ rules' = Append(rules, [status |-> "proposed", text |-> x, proposed |-> turn + 1, repeal |-> 0])
  /\ ledger' = [f \in Atoms |->
       IF f = Required
       THEN [ledger[f] EXCEPT !.status = "REPAIR_PROPOSED", !.link = Len(rules) + 1]
       ELSE ledger[f]]
  /\ Record("A", "PROPOSE", Len(rules) + 1, "accepted")

Repeal(r) ==
  /\ AgentTurn("A") /\ Floor = None /\ Required = 0
  /\ r \in Adopted
  /\ rules' = [rules EXCEPT ![r].repeal = turn + 1]
  /\ Record("A", "REPEAL", r, "accepted")
  /\ UNCHANGED ledger

\* Mutant: revising a pending repeal rewrites the rule instead of the reason.
ReviseText(x) ==
  /\ AgentTurn("A") /\ Floor # None
  /\ rules' = [rules EXCEPT ![Floor.target].text = x, ![Floor.target].proposed = turn + 1]
  /\ Record("A", "REVISE", Floor.target, "accepted")
  /\ UNCHANGED ledger

\* Of a proposal the text is replaced, of a repeal the rationale.  Unlike
\* PROPOSE, REVISE does not look for a live rule with the same text.
Revise(x) ==
  /\ AgentTurn("A") /\ Floor # None
  /\ rules' = IF Floor.kind = "repeal"
              THEN [rules EXCEPT ![Floor.target].repeal = turn + 1]
              ELSE [rules EXCEPT ![Floor.target].text = x, ![Floor.target].proposed = turn + 1]
  /\ Record("A", "REVISE", Floor.target, "accepted")
  /\ UNCHANGED ledger

Settled(status) == [f \in Atoms |->
  IF f \in Linked(Floor.target) THEN [ledger[f] EXCEPT !.status = status] ELSE ledger[f]]

Adopt ==
  /\ AgentTurn("B") /\ Floor # None
  /\ rules' = IF Floor.kind = "repeal"
              THEN [rules EXCEPT ![Floor.target].repeal = 0, ![Floor.target].status = "repealed"]
              ELSE [rules EXCEPT ![Floor.target].status = "adopted"]
  /\ ledger' = IF Floor.kind = "add" THEN Settled("PENDING_RETEST") ELSE ledger
  /\ Record("B", "ADOPT", Floor.target, "accepted")

Reject ==
  /\ AgentTurn("B") /\ Floor # None
  /\ rules' = IF Floor.kind = "repeal"
              THEN [rules EXCEPT ![Floor.target].repeal = 0]
              ELSE [rules EXCEPT ![Floor.target].status = "rejected"]
  /\ ledger' = IF Floor.kind = "add" THEN Settled("UNRESOLVED") ELSE ledger
  /\ Record("B", "REJECT", Floor.target, "accepted")

Request ==
  /\ AgentTurn("B") /\ Floor # None
  /\ UNCHANGED <<rules, ledger>>
  /\ Record("B", "REQUEST", Floor.target, "accepted")

-----------------------------------------------------------------------------
(* Exams and cleanups *)

\* Mutant: a fault failing again forgets the repair under discussion.
AfterExamForgetsRepair(f, failed) ==
  IF BenchOf[f] # cursor THEN ledger[f]
  ELSE IF f \in failed
       THEN IF ledger[f].status = "NONE"
            THEN [status |-> "UNRESOLVED", first |-> turn + 1, last |-> turn + 1, link |-> 0]
            ELSE [ledger[f] EXCEPT !.last = turn + 1, !.status = "UNRESOLVED"]
       ELSE IF ledger[f].status \in {"UNRESOLVED", "PENDING_RETEST"} /\ turn + 1 > ledger[f].last
            THEN [ledger[f] EXCEPT !.status = "RESOLVED"]
            ELSE ledger[f]

\* Mutant: a resolved fault that fails again is not reopened.
AfterExamNoReopen(f, failed) ==
  IF BenchOf[f] # cursor THEN ledger[f]
  ELSE IF f \in failed
       THEN IF ledger[f].status = "NONE"
            THEN [status |-> "UNRESOLVED", first |-> turn + 1, last |-> turn + 1, link |-> 0]
            ELSE [ledger[f] EXCEPT !.last = turn + 1]
       ELSE IF ledger[f].status \in {"UNRESOLVED", "PENDING_RETEST"} /\ turn + 1 > ledger[f].last
            THEN [ledger[f] EXCEPT !.status = "RESOLVED"]
            ELSE ledger[f]

\* _apply_exam_to_fault_ledger: a failed atom opens or reopens its fault, but
\* does not disturb a repair on the floor; one that survived resolves it.
AfterExam(f, failed) ==
  IF BenchOf[f] # cursor THEN ledger[f]
  ELSE IF f \in failed
       THEN IF ledger[f].status = "NONE"
            THEN [status |-> "UNRESOLVED", first |-> turn + 1, last |-> turn + 1, link |-> 0]
            ELSE [ledger[f] EXCEPT !.last = turn + 1,
                                   !.status = IF @ = "REPAIR_PROPOSED" THEN @ ELSE "UNRESOLVED"]
       ELSE IF ledger[f].status \in {"UNRESOLVED", "PENDING_RETEST"} /\ turn + 1 > ledger[f].last
            THEN [ledger[f] EXCEPT !.status = "RESOLVED"]
            ELSE ledger[f]

\* Mutant: the cursor runs past the suite.
NextBenchUnwrapped == cursor + 1

NextBench == (cursor + 1) % NBench

\* A judge result that does not validate twice is evidence about nothing, but
\* the cursor moves on all the same.
Exam(valid, failed) ==
  /\ turn < MaxTurn /\ IsExam(turn + 1)
  /\ failed \subseteq {f \in Atoms : BenchOf[f] = cursor} /\ (valid \/ failed = {})
  /\ turn' = turn + 1
  /\ ledger' = IF valid THEN [f \in Atoms |-> AfterExam(f, failed)] ELSE ledger
  /\ verdict' = IF valid
                THEN [f \in Atoms |-> IF BenchOf[f] # cursor THEN verdict[f]
                                      ELSE IF f \in failed THEN "FAILED" ELSE "SURVIVED"]
                ELSE verdict
  /\ cursor' = NextBench
  /\ UNCHANGED <<lastAgent, rules, receipts, cleaned>>

\* maybe_run_automatic_cleanup, when it applies a candidate (of one rule here):
\* at the start of any turn, never under an open motion.
Cleanup(x) ==
  /\ turn < MaxTurn /\ cleaned # turn + 1
  /\ Floor = None
  /\ Adopted # {} /\ Len(rules) < MaxRules
  /\ rules' = Append([r \in DOMAIN rules |->
                IF rules[r].status \in {"adopted", "proposed"}
                THEN [rules[r] EXCEPT !.status = "historical", !.repeal = 0] ELSE rules[r]],
              [status |-> "adopted", text |-> x, proposed |-> 0, repeal |-> 0])
  /\ receipts' = Append(receipts,
       [turn |-> turn + 1, actor |-> "harness", verb |-> "NONE", target |-> 0,
        result |-> "cutover", open |-> Floor', next |-> Actor])
  /\ cleaned' = turn + 1
  /\ UNCHANGED <<turn, lastAgent, ledger, cursor, verdict>>

-----------------------------------------------------------------------------

Next ==
  \/ \E agent \in {"A", "B"} : StructuralFailure(agent) \/ NoMotion(agent)
  \/ \E verb \in {"PROPOSE", "REPEAL", "REVISE"} : RefusedMotion(verb)
  \/ \E x \in Texts : Propose(x) \/ Revise(x) \/ Cleanup(x)
  \/ \E r \in 1..MaxRules : Repeal(r)
  \/ Adopt \/ Reject \/ Request
  \/ \E valid \in BOOLEAN, failed \in SUBSET Atoms : Exam(valid, failed)

Spec == Init /\ [][Next]_vars

-----------------------------------------------------------------------------
(* Properties *)

\* Every variable holds a value of its kind.
TypeOK ==
  /\ turn \in 0..MaxTurn
  /\ lastAgent \in {"A", "B", None}
  /\ rules \in Seq(Rule) /\ Len(rules) <= MaxRules
  /\ receipts \in Seq(Receipt)
  /\ ledger \in [Atoms -> Fault]
  /\ cursor \in 0..NBench-1
  /\ cleaned \in 0..MaxTurn
  /\ verdict \in [Atoms -> {"NONE", "FAILED", "SURVIVED"}]

\* A fault has a repair under discussion exactly while the motion it is linked
\* to is the open one, and no motion repairs two faults: through requests,
\* revisions, fresh failures of the same atom and cleanups no association is
\* lost or left behind (_apply_legislature_to_fault_ledger).
RepairOnFloor ==
  /\ \A f \in Atoms : ledger[f].status = "REPAIR_PROPOSED" <=>
       Floor = [kind |-> "add", target |-> ledger[f].link]
  /\ \A f, g \in Atoms :
       ledger[f].status = "REPAIR_PROPOSED" /\ ledger[g].status = "REPAIR_PROPOSED" => f = g

\* A fault is resolved only while its last valid exam says so, and a fault
\* that failed last is waiting for a repair, under repair, or awaiting the
\* retest of one that was adopted (_apply_exam_to_fault_ledger).
ResolvedByExam ==
  \A f \in Atoms :
    /\ ledger[f].status = "RESOLVED" => verdict[f] = "SURVIVED"
    /\ verdict[f] = "FAILED" =>
         ledger[f].status \in {"UNRESOLVED", "REPAIR_PROPOSED", "PENDING_RETEST"}

\* The language changes only by the auditor's vote on a motion that was open,
\* or by a cleanup between motions (the authority matrix of rulebook.py, and
\* build_applied_rulebook).
Law == {<<r, rules[r].text>> : r \in Adopted}
LawByVote ==
  [][Law' # Law => \/ Actor = "B" /\ Floor # None /\ Floor' = None
                   \/ cleaned' # cleaned /\ Floor = None]_vars

\* Cleanup, exams, failures and refused motions included, the stored rules and
\* receipts implement the docket: one motion at a time, alternating agents, and
\* the request read back from the receipts is the one in force.  The speaker
\* is the one the last receipt named (post_state_receipt.next_actor).
Abstract == INSTANCE Docket WITH
  Rules   <- 1..MaxRules,
  Nothing <- None,
  speaker <- receipts[Len(receipts)].next,
  floor   <- Floor,
  focus   <- Feedback
ImplementsDocket == Abstract!Spec
=============================================================================
