------------------------- MODULE Legislature_proofs -------------------------
(***************************************************************************)
(* Proofs about Legislature for every set of texts, every suite of critical*)
(* atoms, every exam cadence and any number of turns and rules.            *)
(***************************************************************************)
EXTENDS Legislature, WellFoundedInduction, TLAPS

-----------------------------------------------------------------------------
(* The floor of a rulebook.  Rulebooks are a parameter here, so that the   *)
(* same facts serve the rules before a step and after it.                  *)

Adding(rs, q) == q \in DOMAIN rs /\ rs[q].status = "proposed"
Repealing(rs, q) == q \in DOMAIN rs /\ rs[q].repeal # 0

OpenIn(rs) == {[kind |-> "add", target |-> r] : r \in {q \in DOMAIN rs : rs[q].status = "proposed"}}
       \cup {[kind |-> "repeal", target |-> r] : r \in {q \in DOMAIN rs : rs[q].repeal # 0}}
FloorIn(rs) == IF OpenIn(rs) = {} THEN None ELSE CHOOSE m \in OpenIn(rs) : TRUE

\* At most one motion is open.
OneMotion(rs) ==
  /\ \A q, r \in DOMAIN rs :
       (Adding(rs, q) \/ Repealing(rs, q)) /\ (Adding(rs, r) \/ Repealing(rs, r)) => q = r
  /\ \A q \in DOMAIN rs : ~(Adding(rs, q) /\ Repealing(rs, q))

LEMMA FloorNow == Floor = FloorIn(rules) /\ Floor' = FloorIn(rules')
BY DEF Floor, OpenMotions, FloorIn, OpenIn

\* An open motion is an addition or a repeal of an existing rule.
LEMMA FloorOpen ==
  ASSUME NEW rs \in Seq(Rule)
  PROVE  \/ /\ FloorIn(rs) = None
            /\ \A q \in DOMAIN rs : ~Adding(rs, q) /\ ~Repealing(rs, q)
         \/ \E q \in DOMAIN rs : Adding(rs, q) /\ FloorIn(rs) = [kind |-> "add", target |-> q]
         \/ \E q \in DOMAIN rs : Repealing(rs, q) /\ FloorIn(rs) = [kind |-> "repeal", target |-> q]
<1>1. CASE OpenIn(rs) = {}
  <2>1. \A q \in DOMAIN rs : ~Adding(rs, q) /\ ~Repealing(rs, q)
    BY <1>1 DEF OpenIn, Adding, Repealing
  <2> QED
    BY <1>1, <2>1 DEF FloorIn
<1>2. CASE OpenIn(rs) # {}
  <2>1. FloorIn(rs) \in OpenIn(rs)
    BY <1>2 DEF FloorIn
  <2> QED
    BY <2>1 DEF OpenIn, Adding, Repealing
<1> QED
  BY <1>1, <1>2

LEMMA MotionNotNone ==
  ASSUME NEW rs \in Seq(Rule), NEW q \in DOMAIN rs
  PROVE  /\ [kind |-> "add", target |-> q] # None
         /\ [kind |-> "repeal", target |-> q] # None
BY NoneAssumption DEF Motion

\* With no motion open the floor is empty, and the other way round.
LEMMA FloorEmpty ==
  ASSUME NEW rs \in Seq(Rule)
  PROVE  FloorIn(rs) = None <=> \A q \in DOMAIN rs : ~Adding(rs, q) /\ ~Repealing(rs, q)
<1>1. ASSUME FloorIn(rs) = None PROVE \A q \in DOMAIN rs : ~Adding(rs, q) /\ ~Repealing(rs, q)
  BY <1>1, FloorOpen, MotionNotNone
<1>2. ASSUME \A q \in DOMAIN rs : ~Adding(rs, q) /\ ~Repealing(rs, q) PROVE FloorIn(rs) = None
  BY <1>2, FloorOpen
<1> QED
  BY <1>1, <1>2

\* The only open motion is the floor.
LEMMA FloorAdd ==
  ASSUME NEW rs \in Seq(Rule), OneMotion(rs), NEW q \in DOMAIN rs
  PROVE  FloorIn(rs) = [kind |-> "add", target |-> q] <=> Adding(rs, q)
<1>1. ASSUME Adding(rs, q) PROVE FloorIn(rs) = [kind |-> "add", target |-> q]
  BY <1>1, FloorOpen DEF OneMotion
<1>2. ASSUME FloorIn(rs) = [kind |-> "add", target |-> q] PROVE Adding(rs, q)
  <2>1. FloorIn(rs).kind = "add" /\ FloorIn(rs).target = q /\ FloorIn(rs) # None
    BY <1>2, MotionNotNone
  <2> QED
    BY <2>1, FloorOpen
<1> QED
  BY <1>1, <1>2

\* The floor of the rules after a motion: the one that was made.
LEMMA FloorIs ==
  ASSUME NEW rs \in Seq(Rule), OneMotion(rs), NEW q \in DOMAIN rs
  PROVE  /\ Adding(rs, q) => FloorIn(rs) = [kind |-> "add", target |-> q]
         /\ Repealing(rs, q) => FloorIn(rs) = [kind |-> "repeal", target |-> q]
BY FloorOpen DEF OneMotion

-----------------------------------------------------------------------------
(* The inductive invariant *)

\* Every fault's link names no rule that does not exist yet.
Links == \A f \in Atoms : ledger[f].link \in 0..Len(rules)

\* RepairOnFloor without the floor: a fault has a repair under discussion
\* exactly while the rule it is linked to is proposed.
Repairs ==
  /\ \A f \in Atoms : ledger[f].status = "REPAIR_PROPOSED" <=> Adding(rules, ledger[f].link)
  /\ \A f, g \in Atoms :
       ledger[f].status = "REPAIR_PROPOSED" /\ ledger[g].status = "REPAIR_PROPOSED" => f = g

Inv == TypeOK /\ OneMotion(rules) /\ Links /\ Repairs /\ ResolvedByExam

LEMMA RepairsOnFloor == Inv => RepairOnFloor
<1> SUFFICES ASSUME Inv PROVE RepairOnFloor
  OBVIOUS
<1>1. ASSUME NEW f \in Atoms
      PROVE  ledger[f].status = "REPAIR_PROPOSED" <=> Floor = [kind |-> "add", target |-> ledger[f].link]
  <2>1. rules \in Seq(Rule) /\ OneMotion(rules)
    BY DEF Inv, TypeOK
  <2>2. CASE ledger[f].link \in DOMAIN rules
    BY <2>1, <2>2, FloorAdd, FloorNow DEF Inv, Repairs
  <2>3. CASE ledger[f].link \notin DOMAIN rules
    <3>1. ledger[f].status # "REPAIR_PROPOSED"
      BY <2>3 DEF Inv, Repairs, Adding
    <3>2. ledger[f].link \in Nat
      BY DEF Inv, TypeOK, Fault
    <3>3. [kind |-> "add", target |-> ledger[f].link] # None
      BY <3>2, NoneAssumption DEF Motion
    <3>4. Floor # [kind |-> "add", target |-> ledger[f].link]
      <4>1. SUFFICES ASSUME FloorIn(rules) = [kind |-> "add", target |-> ledger[f].link] PROVE FALSE
        BY FloorNow
      <4>2. FloorIn(rules).target = ledger[f].link /\ FloorIn(rules) # None
        BY <4>1, <3>3
      <4> QED
        BY <4>2, <2>1, <2>3, FloorOpen
    <3> QED
      BY <3>1, <3>4
  <2> QED
    BY <2>2, <2>3
<1> QED
  BY <1>1 DEF Inv, Repairs, RepairOnFloor

LEMMA FloorType ==
  ASSUME NEW rs \in Seq(Rule)
  PROVE  FloorIn(rs) \in Motion \cup {None}
<1>1. DOMAIN rs \subseteq Nat
  OBVIOUS
<1> QED
  BY <1>1, FloorOpen DEF Motion

\* The open motion's rule exists, and only it is under discussion.
LEMMA OnTheFloor ==
  ASSUME NEW rs \in Seq(Rule), OneMotion(rs), FloorIn(rs) # None
  PROVE  LET m == FloorIn(rs)
         IN  /\ m.target \in DOMAIN rs /\ m.target \in 1..Len(rs)
             /\ m.kind \in {"add", "repeal"}
             /\ m.kind = "add" => Adding(rs, m.target) /\ ~Repealing(rs, m.target)
             /\ m.kind = "repeal" => Repealing(rs, m.target) /\ ~Adding(rs, m.target)
             /\ \A q \in DOMAIN rs \ {m.target} : ~Adding(rs, q) /\ ~Repealing(rs, q)
<1>1. PICK q \in DOMAIN rs :
        \/ Adding(rs, q) /\ FloorIn(rs) = [kind |-> "add", target |-> q]
        \/ Repealing(rs, q) /\ FloorIn(rs) = [kind |-> "repeal", target |-> q]
  BY FloorOpen
<1>2. FloorIn(rs).target = q /\ q \in 1..Len(rs)
  BY <1>1
<1> QED
  BY <1>1, <1>2 DEF OneMotion

\* The receipt of a turn is well formed.
LEMMA RecordType ==
  ASSUME TypeOK, rules' \in Seq(Rule), NEW agent \in {"A", "B"}, NEW target \in Nat,
         NEW verb \in {"NONE", "PROPOSE", "REPEAL", "REVISE", "ADOPT", "REJECT", "REQUEST"},
         NEW result \in {"accepted", "rejected", "structural_failure", "cutover"},
         Record(agent, verb, target, result)
  PROVE  receipts' \in Seq(Receipt) /\ lastAgent' \in {"A", "B", None}
<1>1. Floor' \in Motion \cup {None}
  BY FloorType, FloorNow
<1>2. turn + 1 \in Nat
  BY BoundsAssumption DEF TypeOK
<1> QED
  BY <1>1, <1>2 DEF Record, Receipt, TypeOK

\* An agent's turn advances the count and nothing of the exams.
LEMMA AgentTurnType ==
  ASSUME TypeOK, NEW agent, AgentTurn(agent)
  PROVE  /\ turn' = turn + 1 /\ turn \in Nat /\ turn' \in 0..MaxTurn
         /\ cursor' \in 0..NBench-1 /\ cleaned' \in 0..MaxTurn
         /\ verdict' = verdict /\ verdict' \in [Atoms -> {"NONE", "FAILED", "SURVIVED"}]
BY BoundsAssumption DEF TypeOK, AgentTurn

\* A turn that moves no rule and no fault keeps the invariant.
LEMMA NothingMoved ==
  ASSUME Inv, UNCHANGED <<rules, ledger, verdict>>, TypeOK'
  PROVE  Inv'
BY DEF Inv, Links, Repairs, ResolvedByExam

\* Once no motion is open, no fault may have a repair under discussion.
LEMMA Cleared ==
  ASSUME Inv, rules' \in Seq(Rule), Len(rules') >= Len(rules),
         \A q \in DOMAIN rules' : ~Adding(rules', q) /\ ~Repealing(rules', q),
         \A f \in Atoms : /\ ledger'[f].status # "REPAIR_PROPOSED"
                          /\ ledger'[f].link = ledger[f].link
  PROVE  OneMotion(rules') /\ Links' /\ Repairs'
<1>1. Len(rules) \in Nat /\ Len(rules') \in Nat
  BY DEF Inv, TypeOK
<1>2. OneMotion(rules')
  BY DEF OneMotion
<1>3. Links'
  BY <1>1 DEF Inv, Links
<1>4. Repairs'
  BY DEF Repairs, Adding
<1> QED
  BY <1>2, <1>3, <1>4

-----------------------------------------------------------------------------
(* One lemma per group of actions *)

LEMMA InitInv == Init => Inv
<1> SUFFICES ASSUME Init PROVE Inv
  OBVIOUS
<1>1. PICK texts \in {<<>>} \cup {<<x>> : x \in Texts} :
        rules = [r \in DOMAIN texts |->
                  [status |-> "adopted", text |-> texts[r], proposed |-> 0, repeal |-> 0]]
  BY DEF Init
<1>2. \E n \in {0, 1} : DOMAIN texts = 1..n /\ \A r \in 1..n : texts[r] \in Texts
  <2>1. CASE texts = <<>>
    BY <2>1
  <2>2. CASE texts \in {<<x>> : x \in Texts}
    BY <2>2
  <2> QED
    BY <1>1, <2>1, <2>2
<1>3. /\ rules \in Seq(Rule) /\ Len(rules) <= MaxRules /\ Len(rules) \in Nat
      /\ \A q \in DOMAIN rules : rules[q].status = "adopted" /\ rules[q].repeal = 0
  <2>1. PICK n \in {0, 1} : DOMAIN texts = 1..n /\ \A r \in 1..n : texts[r] \in Texts
    BY <1>2
  <2>2. DOMAIN rules = 1..n /\ \A r \in 1..n : rules[r] \in Rule /\ rules[r].status = "adopted" /\ rules[r].repeal = 0
    BY <1>1, <2>1 DEF Rule, Statuses
  <2>3. rules = [r \in 1..n |-> rules[r]]
    BY <1>1, <2>2
  <2>4. rules \in Seq(Rule) /\ Len(rules) = n
    BY <2>1, <2>2, <2>3
  <2> QED
    BY <2>1, <2>2, <2>4, BoundsAssumption
<1>4. receipts \in Seq(Receipt)
  BY DEF Init, Receipt
<1>5. TypeOK
  <2>1. ledger \in [Atoms -> Fault]
    BY DEF Init, Fault
  <2>2. cursor \in 0..NBench-1 /\ turn \in 0..MaxTurn /\ cleaned \in 0..MaxTurn
    BY BoundsAssumption, SuiteAssumption DEF Init
  <2> QED
    BY <1>3, <1>4, <2>1, <2>2 DEF Init, TypeOK
<1>6. OneMotion(rules) /\ Links /\ Repairs /\ ResolvedByExam
  BY <1>3 DEF Init, OneMotion, Adding, Repealing, Links, Repairs, ResolvedByExam
<1> QED
  BY <1>5, <1>6 DEF Inv

LEMMA QuietStep ==
  ASSUME Inv,
         \/ \E agent \in {"A", "B"} : StructuralFailure(agent) \/ NoMotion(agent)
         \/ \E verb \in {"PROPOSE", "REPEAL", "REVISE"} : RefusedMotion(verb)
         \/ Request
  PROVE  Inv'
<1>1. UNCHANGED <<rules, ledger, verdict>>
  BY DEF StructuralFailure, NoMotion, RefusedMotion, Request, AgentTurn
<1>2. TypeOK'
  <2> USE DEF Inv
  <2>1. ASSUME NEW agent \in {"A", "B"}, StructuralFailure(agent) PROVE TypeOK'
    <3>1. Floor \in Motion \cup {None} /\ turn + 1 \in Nat
      BY FloorType, FloorNow, BoundsAssumption DEF TypeOK
    <3>2. receipts' \in Seq(Receipt)
      BY <2>1, <3>1 DEF StructuralFailure, TypeOK, Receipt
    <3> QED
      BY <2>1, <3>2, AgentTurnType DEF StructuralFailure, TypeOK
  <2>2. ASSUME NEW agent \in {"A", "B"}, NoMotion(agent) PROVE TypeOK'
    BY <2>2, AgentTurnType, RecordType DEF NoMotion, TypeOK
  <2>3. ASSUME NEW verb \in {"PROPOSE", "REPEAL", "REVISE"}, RefusedMotion(verb) PROVE TypeOK'
    BY <2>3, AgentTurnType, RecordType DEF RefusedMotion, TypeOK
  <2>4. ASSUME Request PROVE TypeOK'
    <3>1. Floor.target \in Nat
      BY <2>4, OnTheFloor, FloorNow DEF Request, TypeOK
    <3> QED
      BY <2>4, <3>1, AgentTurnType, RecordType DEF Request, TypeOK
  <2> QED
    BY <2>1, <2>2, <2>3, <2>4
<1> QED
  BY <1>1, <1>2, NothingMoved

LEMMA ProposeStep ==
  ASSUME Inv, NEW x \in Texts, Propose(x)
  PROVE  /\ Inv'
         /\ Floor' = [kind |-> "add", target |-> Len(rules) + 1]
         /\ Len(rules) + 1 \in 1..MaxRules
<1> DEFINE new == [status |-> "proposed", text |-> x, proposed |-> turn + 1, repeal |-> 0]
           n == Len(rules) + 1
<1>1. /\ rules \in Seq(Rule) /\ Len(rules) \in Nat /\ turn \in Nat /\ ledger \in [Atoms -> Fault]
      /\ OneMotion(rules)
  BY BoundsAssumption DEF Inv, TypeOK
<1>2. rules' = Append(rules, new) /\ new \in Rule
  <2>1. rules' = Append(rules, new)
    BY DEF Propose
  <2>2. new \in Rule
    BY <1>1 DEF Rule, Statuses
  <2> QED
    BY <2>1, <2>2
<1>3. /\ rules' \in Seq(Rule) /\ Len(rules') = n /\ DOMAIN rules' = 1..n /\ rules'[n] = new
      /\ \A q \in 1..Len(rules) : rules'[q] = rules[q] /\ q \in DOMAIN rules
  BY <1>1, <1>2
<1>4. \A q \in DOMAIN rules : ~Adding(rules, q) /\ ~Repealing(rules, q)
  BY <1>1, FloorEmpty, FloorNow DEF Propose
<1>5. \A q \in DOMAIN rules' : /\ Adding(rules', q) <=> q = n
                               /\ ~Repealing(rules', q)
  BY <1>1, <1>3, <1>4 DEF Adding, Repealing
<1>6. OneMotion(rules')
  BY <1>5 DEF OneMotion
<1>7. \A f \in Atoms : ledger[f].status # "REPAIR_PROPOSED" /\ ledger[f].link \in 0..Len(rules)
  BY <1>4 DEF Inv, Repairs, Links, Adding
<1>8. \A f \in Atoms : ledger'[f] = IF f = Required
         THEN [ledger[f] EXCEPT !.status = "REPAIR_PROPOSED", !.link = n] ELSE ledger[f]
  BY DEF Propose
<1>9. \A f \in Atoms : /\ ledger'[f] \in Fault
                       /\ f = Required => ledger'[f].status = "REPAIR_PROPOSED" /\ ledger'[f].link = n
                       /\ f # Required => ledger'[f] = ledger[f]
  <2> SUFFICES ASSUME NEW f \in Atoms
               PROVE  /\ ledger'[f] \in Fault
                      /\ f = Required => ledger'[f].status = "REPAIR_PROPOSED" /\ ledger'[f].link = n
                      /\ f # Required => ledger'[f] = ledger[f]
    OBVIOUS
  <2>1. ledger[f] \in Fault /\ n \in Nat
    BY <1>1
  <2> QED
    BY <1>8, <2>1 DEF Fault
<1>10. Links' /\ Repairs'
  <2>1. Links'
    BY <1>1, <1>3, <1>7, <1>9 DEF Links
  <2>2. ASSUME NEW f \in Atoms
        PROVE  ledger'[f].status = "REPAIR_PROPOSED" <=> Adding(rules', ledger'[f].link)
    BY <1>1, <1>3, <1>5, <1>7, <1>9 DEF Adding
  <2>3. \A f, g \in Atoms :
          ledger'[f].status = "REPAIR_PROPOSED" /\ ledger'[g].status = "REPAIR_PROPOSED" => f = g
    BY <1>7, <1>9
  <2> QED
    BY <2>1, <2>2, <2>3 DEF Repairs
<1>11. TypeOK'
  <2>1. ledger' \in [Atoms -> Fault]
    BY <1>9 DEF Propose
  <2>2. Len(rules') <= MaxRules
    <3>1. Len(rules) < MaxRules
      BY DEF Propose
    <3> QED
      BY <1>1, <1>3, <3>1, BoundsAssumption
  <2>3. receipts' \in Seq(Receipt) /\ lastAgent' \in {"A", "B", None}
    <3>1. Record("A", "PROPOSE", n, "accepted")
      BY DEF Propose
    <3>2. n \in Nat
      BY <1>1
    <3> QED
      BY <1>3, <3>1, <3>2, RecordType DEF Inv
  <2> QED
    BY <1>3, <2>1, <2>2, <2>3, AgentTurnType DEF Propose, Inv, TypeOK
<1>12. ResolvedByExam'
  BY <1>9, AgentTurnType DEF Propose, Inv, ResolvedByExam
<1>13. Floor' = [kind |-> "add", target |-> n]
  BY <1>1, <1>3, <1>5, <1>6, FloorIs, FloorNow
<1>14. n \in 1..MaxRules
  BY <1>1, <1>3, <1>11, BoundsAssumption DEF TypeOK
<1> QED
  BY <1>6, <1>10, <1>11, <1>12, <1>13, <1>14 DEF Inv

\* What an action changes of a rule, and what it leaves: the three forms of
\* assignment that the rulebook's verbs make.
LEMMA RepealChanged ==
  ASSUME NEW u \in Rule, NEW n \in Nat
  PROVE  LET v == [u EXCEPT !.repeal = n]
         IN  v \in Rule /\ v.repeal = n /\ v.status = u.status
BY DEF Rule

LEMMA TextChanged ==
  ASSUME NEW u \in Rule, NEW n \in Nat, NEW x \in Texts
  PROVE  LET v == [u EXCEPT !.text = x, !.proposed = n]
         IN  v \in Rule /\ v.repeal = u.repeal /\ v.status = u.status
BY DEF Rule

LEMMA StatusChanged ==
  ASSUME NEW u \in Rule, NEW st \in Statuses
  PROVE  LET v == [u EXCEPT !.status = st]
         IN  v \in Rule /\ v.repeal = u.repeal /\ v.status = st
BY DEF Rule

\* Replacing one rule leaves the others alone.
LEMMA RuleReplaced ==
  ASSUME NEW rs \in Seq(Rule), NEW t \in DOMAIN rs, NEW u \in Rule
  PROVE  LET new == [rs EXCEPT ![t] = u]
         IN  /\ new \in Seq(Rule) /\ Len(new) = Len(rs) /\ DOMAIN new = DOMAIN rs
             /\ new[t] = u /\ \A q \in DOMAIN rs \ {t} : new[q] = rs[q]
OBVIOUS

\* A motion about rule r, or a new reason or text for the open one.
LEMMA RepealStep ==
  ASSUME Inv, NEW r, Repeal(r)
  PROVE  Inv' /\ Floor' = [kind |-> "repeal", target |-> r]
<1>1. /\ rules \in Seq(Rule) /\ Len(rules) \in Nat /\ turn \in Nat
      /\ r \in DOMAIN rules /\ r \in Nat /\ rules[r] \in Rule
  BY BoundsAssumption DEF Inv, TypeOK, Repeal, Adopted
<1>2. rules' = [rules EXCEPT ![r] = [@ EXCEPT !.repeal = turn + 1]]
  BY DEF Repeal
<1>3. /\ [rules[r] EXCEPT !.repeal = turn + 1] \in Rule
      /\ [rules[r] EXCEPT !.repeal = turn + 1].status = rules[r].status
      /\ [rules[r] EXCEPT !.repeal = turn + 1].repeal = turn + 1
  <2>1. turn + 1 \in Nat
    BY <1>1
  <2> QED
    BY <1>1, <2>1, RepealChanged
<1>4. /\ rules' \in Seq(Rule) /\ Len(rules') = Len(rules) /\ DOMAIN rules' = DOMAIN rules
      /\ \A q \in DOMAIN rules : rules'[q].status = rules[q].status
      /\ \A q \in DOMAIN rules \ {r} : rules'[q] = rules[q]
  BY <1>1, <1>2, <1>3, RuleReplaced
<1>5. \A q \in DOMAIN rules : ~Adding(rules, q) /\ ~Repealing(rules, q)
  BY <1>1, FloorEmpty, FloorNow DEF Repeal
<1>6. \A q \in DOMAIN rules' : ~Adding(rules', q) /\ (q # r => ~Repealing(rules', q))
  BY <1>4, <1>5 DEF Adding, Repealing
<1>7. OneMotion(rules')
  BY <1>6 DEF OneMotion
<1>8. Links' /\ Repairs'
  BY <1>4, <1>5, <1>6 DEF Repeal, Inv, Links, Repairs, Adding
<1>9. TypeOK'
  <2>1. Record("A", "REPEAL", r, "accepted")
    BY DEF Repeal
  <2>2. receipts' \in Seq(Receipt) /\ lastAgent' \in {"A", "B", None}
    BY <1>1, <1>4, <2>1, RecordType DEF Inv
  <2> QED
    BY <1>4, <2>2, AgentTurnType DEF Repeal, Inv, TypeOK
<1>10. ResolvedByExam'
  BY AgentTurnType DEF Repeal, Inv, ResolvedByExam
<1>11. Floor' = [kind |-> "repeal", target |-> r]
  <2>1. rules'[r].repeal = turn + 1 /\ turn + 1 # 0
    <3> DEFINE u == [rules[r] EXCEPT !.repeal = turn + 1]
    <3>1. u \in Rule /\ u.repeal = turn + 1 /\ rules' = [rules EXCEPT ![r] = u]
      BY <1>1, <1>2, <1>3
    <3>2. turn + 1 # 0
      BY <1>1
    <3> HIDE DEF u
    <3> QED
      BY <1>1, <3>1, <3>2, RuleReplaced
  <2>2. Repealing(rules', r)
    BY <1>1, <1>4, <2>1 DEF Repealing
  <2> QED
    BY <1>1, <1>4, <1>7, <2>2, FloorIs, FloorNow
<1> QED
  BY <1>7, <1>8, <1>9, <1>10, <1>11 DEF Inv

LEMMA ReviseStep ==
  ASSUME Inv, NEW x \in Texts, Revise(x)
  PROVE  Inv' /\ Floor' = Floor
<1> DEFINE t == Floor.target
<1>1. /\ rules \in Seq(Rule) /\ OneMotion(rules) /\ turn \in Nat
      /\ t \in DOMAIN rules /\ t \in Nat /\ rules[t] \in Rule
      /\ Floor.kind = "repeal" => Repealing(rules, t)
  <2>1. rules \in Seq(Rule) /\ OneMotion(rules) /\ turn \in Nat
    BY BoundsAssumption DEF Inv, TypeOK
  <2> QED
    BY <2>1, OnTheFloor, FloorNow DEF Revise
<1> DEFINE new == IF Floor.kind = "repeal" THEN [rules[t] EXCEPT !.repeal = turn + 1]
                  ELSE [rules[t] EXCEPT !.text = x, !.proposed = turn + 1]
<1>2. /\ new \in Rule /\ rules' = [rules EXCEPT ![t] = new]
      /\ new.status = rules[t].status
      /\ (new.repeal # 0) <=> (rules[t].repeal # 0)
  <2>1. turn + 1 \in Nat /\ turn + 1 # 0
    BY <1>1
  <2>2. rules' = [rules EXCEPT ![t] = new]
    BY <1>1 DEF Revise
  <2>3. CASE Floor.kind = "repeal"
    <3>1. new = [rules[t] EXCEPT !.repeal = turn + 1]
      BY <2>3
    <3> HIDE DEF new
    <3>2. new \in Rule /\ new.repeal = turn + 1 /\ new.status = rules[t].status
      BY <1>1, <2>1, <3>1, RepealChanged
    <3>3. rules[t].repeal # 0
      BY <1>1, <2>3 DEF Repealing
    <3> QED
      BY <2>1, <2>2, <3>2, <3>3
  <2>4. CASE Floor.kind # "repeal"
    <3>1. new = [rules[t] EXCEPT !.text = x, !.proposed = turn + 1]
      BY <2>4
    <3> HIDE DEF new
    <3>2. new \in Rule /\ new.repeal = rules[t].repeal /\ new.status = rules[t].status
      BY <1>1, <2>1, <3>1, TextChanged
    <3> QED
      BY <2>2, <3>2
  <2> QED
    BY <2>3, <2>4
<1> HIDE DEF new
<1>3. /\ rules' \in Seq(Rule) /\ Len(rules') = Len(rules) /\ DOMAIN rules' = DOMAIN rules
      /\ \A q \in DOMAIN rules : rules'[q].status = rules[q].status
      /\ \A q \in DOMAIN rules : (rules'[q].repeal # 0) <=> (rules[q].repeal # 0)
  <2>1. /\ rules' \in Seq(Rule) /\ Len(rules') = Len(rules) /\ DOMAIN rules' = DOMAIN rules
        /\ rules'[t] = new /\ \A q \in DOMAIN rules \ {t} : rules'[q] = rules[q]
    BY <1>1, <1>2, RuleReplaced
  <2>2. ASSUME NEW q \in DOMAIN rules
        PROVE  rules'[q].status = rules[q].status /\ ((rules'[q].repeal # 0) <=> (rules[q].repeal # 0))
    BY <1>2, <2>1
  <2> QED
    BY <2>1, <2>2
<1>4. \A q : (Adding(rules', q) <=> Adding(rules, q)) /\ (Repealing(rules', q) <=> Repealing(rules, q))
  BY <1>3 DEF Adding, Repealing
<1>5. OneMotion(rules')
  BY <1>1, <1>3, <1>4 DEF OneMotion
<1>6. Links' /\ Repairs'
  BY <1>3, <1>4 DEF Revise, Inv, Links, Repairs
<1>7. TypeOK'
  <2>1. Record("A", "REVISE", t, "accepted")
    BY DEF Revise
  <2>2. receipts' \in Seq(Receipt) /\ lastAgent' \in {"A", "B", None}
    BY <1>1, <1>3, <2>1, RecordType DEF Inv
  <2> QED
    BY <1>3, <2>2, AgentTurnType DEF Revise, Inv, TypeOK
<1>8. ResolvedByExam'
  BY AgentTurnType DEF Revise, Inv, ResolvedByExam
<1>9. Floor' = Floor
  <2>1. FloorIn(rules) # None
    BY FloorNow DEF Revise
  <2>2. CASE Adding(rules, t) /\ FloorIn(rules) = [kind |-> "add", target |-> t]
    BY <1>1, <1>3, <1>4, <1>5, <2>2, FloorIs, FloorNow
  <2>3. CASE Repealing(rules, t) /\ FloorIn(rules) = [kind |-> "repeal", target |-> t]
    BY <1>1, <1>3, <1>4, <1>5, <2>3, FloorIs, FloorNow
  <2> QED
    BY <1>1, <2>1, <2>2, <2>3, FloorOpen, FloorNow
<1> QED
  BY <1>5, <1>6, <1>7, <1>8, <1>9 DEF Inv

\* A vote closes the motion: its rule is no longer under discussion, and no
\* fault has a repair under discussion.
LEMMA VoteCloses ==
  ASSUME Inv, Floor # None, NEW new \in Rule, new.status # "proposed", new.repeal = 0,
         NEW st \in {"PENDING_RETEST", "UNRESOLVED"},
         rules' = [rules EXCEPT ![Floor.target] = new],
         ledger' = IF Floor.kind = "add" THEN Settled(st) ELSE ledger,
         verdict' = verdict
  PROVE  /\ rules' \in Seq(Rule) /\ Len(rules') = Len(rules) /\ ledger' \in [Atoms -> Fault]
         /\ \A q \in DOMAIN rules' : ~Adding(rules', q) /\ ~Repealing(rules', q)
         /\ OneMotion(rules') /\ Links' /\ Repairs' /\ ResolvedByExam'
<1> DEFINE t == Floor.target
<1>1. rules \in Seq(Rule) /\ Len(rules) \in Nat /\ OneMotion(rules) /\ ledger \in [Atoms -> Fault]
  BY DEF Inv, TypeOK
<1>2. /\ t \in DOMAIN rules /\ Floor.kind \in {"add", "repeal"}
      /\ Floor.kind = "repeal" => ~Adding(rules, t)
      /\ \A q \in DOMAIN rules \ {t} : ~Adding(rules, q) /\ ~Repealing(rules, q)
  BY <1>1, OnTheFloor, FloorNow
<1>3. /\ rules' \in Seq(Rule) /\ Len(rules') = Len(rules) /\ DOMAIN rules' = DOMAIN rules
      /\ rules'[t] = new /\ \A q \in DOMAIN rules \ {t} : rules'[q] = rules[q]
  BY <1>1, <1>2, RuleReplaced
<1>4. \A q \in DOMAIN rules' : ~Adding(rules', q) /\ ~Repealing(rules', q)
  <2> SUFFICES ASSUME NEW q \in DOMAIN rules PROVE ~Adding(rules', q) /\ ~Repealing(rules', q)
    BY <1>3
  <2>1. CASE q = t
    BY <1>3, <2>1 DEF Adding, Repealing
  <2>2. CASE q # t
    BY <1>2, <1>3, <2>2 DEF Adding, Repealing
  <2> QED
    BY <2>1, <2>2
<1>5. \A f \in Atoms : ledger[f].status = "REPAIR_PROPOSED" => Floor.kind = "add" /\ f \in Linked(t)
  BY <1>2 DEF Inv, Repairs, Linked, Adding
<1>6. ASSUME NEW f \in Atoms
      PROVE  /\ ledger'[f] \in Fault /\ ledger'[f].link = ledger[f].link
             /\ ledger'[f].status # "REPAIR_PROPOSED"
             /\ \/ ledger'[f] = ledger[f]
                \/ ledger'[f].status \in {"PENDING_RETEST", "UNRESOLVED"}
  <2>1. ledger[f] \in Fault
    BY <1>1
  <2>2. CASE Floor.kind = "add" /\ f \in Linked(t)
    <3>1. ledger'[f] = [ledger[f] EXCEPT !.status = st]
      BY <2>2 DEF Settled
    <3> QED
      BY <2>1, <3>1 DEF Fault
  <2>3. CASE ~(Floor.kind = "add" /\ f \in Linked(t))
    <3>1. ledger'[f] = ledger[f]
      BY <2>3 DEF Settled
    <3> QED
      BY <1>5, <2>1, <2>3, <3>1
  <2> QED
    BY <2>2, <2>3
<1>7. ledger' \in [Atoms -> Fault]
  <2>1. CASE Floor.kind = "add"
    BY <1>6, <2>1 DEF Settled
  <2>2. CASE Floor.kind # "add"
    BY <1>1, <2>2
  <2> QED
    BY <2>1, <2>2
<1>8. OneMotion(rules') /\ Links' /\ Repairs'
  <2>1. Len(rules') >= Len(rules)
    BY <1>1, <1>3
  <2> QED
    BY <1>3, <1>4, <1>6, <2>1, Cleared
<1>9. ResolvedByExam'
  <2>1. \A f \in Atoms : /\ ledger[f].status = "RESOLVED" => verdict[f] = "SURVIVED"
                         /\ verdict[f] = "FAILED" =>
                              ledger[f].status \in {"UNRESOLVED", "REPAIR_PROPOSED", "PENDING_RETEST"}
    BY DEF Inv, ResolvedByExam
  <2> QED
    BY <1>6, <2>1 DEF ResolvedByExam
<1> QED
  BY <1>3, <1>4, <1>7, <1>8, <1>9

LEMMA AdoptStep == ASSUME Inv, Adopt PROVE Inv' /\ Floor' = None
<1> DEFINE t == Floor.target
           new == IF Floor.kind = "repeal" THEN [rules[t] EXCEPT !.repeal = 0, !.status = "repealed"]
                  ELSE [rules[t] EXCEPT !.status = "adopted"]
<1>1. /\ rules \in Seq(Rule) /\ OneMotion(rules) /\ Floor # None
      /\ t \in DOMAIN rules /\ t \in Nat /\ rules[t] \in Rule
      /\ Floor.kind # "repeal" => ~Repealing(rules, t)
  <2>1. rules \in Seq(Rule) /\ OneMotion(rules) /\ Floor # None
    BY DEF Inv, TypeOK, Adopt
  <2> QED
    BY <2>1, OnTheFloor, FloorNow
<1>2. rules' = [rules EXCEPT ![t] = new]
  BY <1>1 DEF Adopt
<1>3. new \in Rule /\ new.status # "proposed" /\ new.repeal = 0
  <2>1. CASE Floor.kind = "repeal"
    <3>1. new = [[rules[t] EXCEPT !.repeal = 0] EXCEPT !.status = "repealed"]
      BY <2>1
    <3>2. "repealed" \in Statuses /\ 0 \in Nat
      BY DEF Statuses
    <3>3. [rules[t] EXCEPT !.repeal = 0] \in Rule /\ [rules[t] EXCEPT !.repeal = 0].repeal = 0
      BY <1>1, <3>2, RepealChanged
    <3> HIDE DEF new
    <3> QED
      BY <3>1, <3>2, <3>3, StatusChanged
  <2>2. CASE Floor.kind # "repeal"
    <3>1. new = [rules[t] EXCEPT !.status = "adopted"]
      BY <2>2
    <3>2. "adopted" \in Statuses /\ rules[t].repeal = 0
      BY <1>1, <2>2 DEF Statuses, Repealing
    <3> HIDE DEF new
    <3> QED
      BY <1>1, <3>1, <3>2, StatusChanged
  <2> QED
    BY <2>1, <2>2
<1>4. /\ rules' \in Seq(Rule) /\ Len(rules') = Len(rules) /\ ledger' \in [Atoms -> Fault]
      /\ \A q \in DOMAIN rules' : ~Adding(rules', q) /\ ~Repealing(rules', q)
      /\ OneMotion(rules') /\ Links' /\ Repairs' /\ ResolvedByExam'
  <2> HIDE DEF new
  <2>1. ledger' = (IF Floor.kind = "add" THEN Settled("PENDING_RETEST") ELSE ledger) /\ verdict' = verdict
    BY DEF Adopt, AgentTurn
  <2> QED
    BY <1>1, <1>2, <1>3, <2>1, VoteCloses
<1>5. TypeOK'
  <2>1. Record("B", "ADOPT", t, "accepted")
    BY DEF Adopt
  <2>2. receipts' \in Seq(Receipt) /\ lastAgent' \in {"A", "B", None}
    BY <1>1, <1>4, <2>1, RecordType DEF Inv
  <2> QED
    BY <1>4, <2>2, AgentTurnType DEF Adopt, Inv, TypeOK
<1> QED
  BY <1>4, <1>5, FloorEmpty, FloorNow DEF Inv

LEMMA RejectStep == ASSUME Inv, Reject PROVE Inv' /\ Floor' = None
<1> DEFINE t == Floor.target
           new == IF Floor.kind = "repeal" THEN [rules[t] EXCEPT !.repeal = 0]
                  ELSE [rules[t] EXCEPT !.status = "rejected"]
<1>1. /\ rules \in Seq(Rule) /\ OneMotion(rules) /\ Floor # None
      /\ t \in DOMAIN rules /\ t \in Nat /\ rules[t] \in Rule
      /\ Floor.kind # "repeal" => ~Repealing(rules, t)
      /\ Floor.kind = "repeal" => ~Adding(rules, t)
  <2>1. rules \in Seq(Rule) /\ OneMotion(rules) /\ Floor # None
    BY DEF Inv, TypeOK, Reject
  <2> QED
    BY <2>1, OnTheFloor, FloorNow
<1>2. rules' = [rules EXCEPT ![t] = new]
  BY <1>1 DEF Reject
<1>3. new \in Rule /\ new.status # "proposed" /\ new.repeal = 0
  <2>1. CASE Floor.kind = "repeal"
    <3>1. new = [rules[t] EXCEPT !.repeal = 0]
      BY <2>1
    <3>2. rules[t].status # "proposed" /\ 0 \in Nat
      BY <1>1, <2>1 DEF Adding
    <3> HIDE DEF new
    <3> QED
      BY <1>1, <3>1, <3>2, RepealChanged
  <2>2. CASE Floor.kind # "repeal"
    <3>1. new = [rules[t] EXCEPT !.status = "rejected"]
      BY <2>2
    <3>2. "rejected" \in Statuses /\ rules[t].repeal = 0
      BY <1>1, <2>2 DEF Statuses, Repealing
    <3> HIDE DEF new
    <3> QED
      BY <1>1, <3>1, <3>2, StatusChanged
  <2> QED
    BY <2>1, <2>2
<1>4. /\ rules' \in Seq(Rule) /\ Len(rules') = Len(rules) /\ ledger' \in [Atoms -> Fault]
      /\ \A q \in DOMAIN rules' : ~Adding(rules', q) /\ ~Repealing(rules', q)
      /\ OneMotion(rules') /\ Links' /\ Repairs' /\ ResolvedByExam'
  <2> HIDE DEF new
  <2>1. ledger' = (IF Floor.kind = "add" THEN Settled("UNRESOLVED") ELSE ledger) /\ verdict' = verdict
    BY DEF Reject, AgentTurn
  <2> QED
    BY <1>1, <1>2, <1>3, <2>1, VoteCloses
<1>5. TypeOK'
  <2>1. Record("B", "REJECT", t, "accepted")
    BY DEF Reject
  <2>2. receipts' \in Seq(Receipt) /\ lastAgent' \in {"A", "B", None}
    BY <1>1, <1>4, <2>1, RecordType DEF Inv
  <2> QED
    BY <1>4, <2>2, AgentTurnType DEF Reject, Inv, TypeOK
<1> QED
  BY <1>4, <1>5, FloorEmpty, FloorNow DEF Inv

\* What one exam does to one fault: it neither opens nor closes the discussion
\* of a repair, and leaves the link alone unless the fault is new.
LEMMA ExamOfFault ==
  ASSUME Inv, NEW f \in Atoms, NEW failed \in SUBSET Atoms
  PROVE  LET g == AfterExam(f, failed)
         IN  /\ g \in Fault /\ g.link \in {ledger[f].link, 0}
             /\ g.status = "REPAIR_PROPOSED" <=> ledger[f].status = "REPAIR_PROPOSED"
             /\ ledger[f].status = "REPAIR_PROPOSED" => g.link = ledger[f].link
             /\ BenchOf[f] # cursor => g = ledger[f]
             /\ BenchOf[f] = cursor /\ f \in failed =>
                  g.status \in {"UNRESOLVED", "REPAIR_PROPOSED", "PENDING_RETEST"}
             /\ BenchOf[f] = cursor /\ f \notin failed /\ g.status # "RESOLVED" => g = ledger[f]
<1>1. ledger[f] \in Fault /\ turn + 1 \in Nat
  BY BoundsAssumption DEF Inv, TypeOK
<1>2. CASE BenchOf[f] # cursor
  BY <1>1, <1>2 DEF AfterExam
<1>3. CASE BenchOf[f] = cursor /\ f \in failed /\ ledger[f].status = "NONE"
  <2>1. AfterExam(f, failed) =
          [status |-> "UNRESOLVED", first |-> turn + 1, last |-> turn + 1, link |-> 0]
    BY <1>3 DEF AfterExam
  <2> QED
    BY <1>1, <1>3, <2>1 DEF Fault
<1>4. CASE BenchOf[f] = cursor /\ f \in failed /\ ledger[f].status # "NONE"
  <2> DEFINE st == IF ledger[f].status = "REPAIR_PROPOSED" THEN "REPAIR_PROPOSED" ELSE "UNRESOLVED"
  <2>1. AfterExam(f, failed) = [ledger[f] EXCEPT !.last = turn + 1, !.status = st]
    BY <1>1, <1>4 DEF AfterExam, Fault
  <2>2. st \in {"REPAIR_PROPOSED", "UNRESOLVED"} /\ (st = "REPAIR_PROPOSED" <=> ledger[f].status = "REPAIR_PROPOSED")
    OBVIOUS
  <2> HIDE DEF st
  <2> QED
    BY <1>1, <1>4, <2>1, <2>2 DEF Fault
<1>5. CASE BenchOf[f] = cursor /\ f \notin failed
  <2>1. CASE ledger[f].status \in {"UNRESOLVED", "PENDING_RETEST"} /\ turn + 1 > ledger[f].last
    <3>1. AfterExam(f, failed) = [ledger[f] EXCEPT !.status = "RESOLVED"]
      BY <1>5, <2>1 DEF AfterExam
    <3> QED
      BY <1>1, <1>5, <2>1, <3>1 DEF Fault
  <2>2. CASE ~(ledger[f].status \in {"UNRESOLVED", "PENDING_RETEST"} /\ turn + 1 > ledger[f].last)
    <3>1. AfterExam(f, failed) = ledger[f]
      BY <1>5, <2>2 DEF AfterExam
    <3> QED
      BY <1>1, <1>5, <3>1
  <2> QED
    BY <2>1, <2>2
<1> QED
  BY <1>2, <1>3, <1>4, <1>5

LEMMA ExamStep ==
  ASSUME Inv, NEW valid \in BOOLEAN, NEW failed \in SUBSET Atoms, Exam(valid, failed)
  PROVE  Inv'
<1>1. /\ rules \in Seq(Rule) /\ Len(rules) \in Nat /\ rules' = rules /\ ledger \in [Atoms -> Fault]
      /\ verdict \in [Atoms -> {"NONE", "FAILED", "SURVIVED"}]
  BY DEF Inv, TypeOK, Exam
<1>2. cursor' \in 0..NBench-1 /\ turn' \in 0..MaxTurn
  <2>1. cursor' = (cursor + 1) % NBench /\ cursor \in Nat /\ NBench \in Nat \ {0}
    BY SuiteAssumption DEF Exam, NextBench, Inv, TypeOK
  <2>2. cursor' \in 0..NBench-1
    BY <2>1
  <2>3. turn' \in 0..MaxTurn
    BY BoundsAssumption DEF Exam, Inv, TypeOK
  <2> QED
    BY <2>2, <2>3
<1>3. CASE ~valid
  <2>1. ledger' = ledger /\ verdict' = verdict
    BY <1>3 DEF Exam
  <2>2. TypeOK'
    BY <1>1, <1>2, <2>1 DEF Exam, Inv, TypeOK
  <2> QED
    BY <1>1, <2>1, <2>2, NothingMoved
<1>4. CASE valid
  <2>1. /\ ledger' = [f \in Atoms |-> AfterExam(f, failed)]
        /\ verdict' = [f \in Atoms |-> IF BenchOf[f] # cursor THEN verdict[f]
                                       ELSE IF f \in failed THEN "FAILED" ELSE "SURVIVED"]
    BY <1>4 DEF Exam
  <2>2. ledger' \in [Atoms -> Fault] /\ verdict' \in [Atoms -> {"NONE", "FAILED", "SURVIVED"}]
    BY <1>1, <2>1, ExamOfFault
  <2>3. TypeOK'
    BY <1>1, <1>2, <2>2 DEF Exam, Inv, TypeOK
  <2>4. \A f \in Atoms : /\ ledger'[f].link \in {ledger[f].link, 0}
                         /\ ledger'[f].status = "REPAIR_PROPOSED" <=> ledger[f].status = "REPAIR_PROPOSED"
                         /\ ledger[f].status = "REPAIR_PROPOSED" => ledger'[f].link = ledger[f].link
    BY <2>1, ExamOfFault
  <2>5. OneMotion(rules') /\ Links'
    BY <1>1, <2>4 DEF Inv, Links
  <2>6. Repairs'
    <3>1. ASSUME NEW f \in Atoms
          PROVE  ledger'[f].status = "REPAIR_PROPOSED" <=> Adding(rules', ledger'[f].link)
      <4>1. CASE ledger[f].status = "REPAIR_PROPOSED"
        BY <1>1, <2>4, <4>1 DEF Inv, Repairs
      <4>2. CASE ledger[f].status # "REPAIR_PROPOSED"
        <5>1. ~Adding(rules, ledger[f].link)
          BY <4>2 DEF Inv, Repairs
        <5>2. ~Adding(rules, 0)
          BY <1>1 DEF Adding
        <5> QED
          BY <1>1, <2>4, <4>2, <5>1, <5>2
      <4> QED
        BY <4>1, <4>2
    <3> QED
      BY <2>4, <3>1 DEF Inv, Repairs
  <2>7. ResolvedByExam'
    <3> SUFFICES ASSUME NEW f \in Atoms
                 PROVE  /\ ledger'[f].status = "RESOLVED" => verdict'[f] = "SURVIVED"
                        /\ verdict'[f] = "FAILED" =>
                             ledger'[f].status \in {"UNRESOLVED", "REPAIR_PROPOSED", "PENDING_RETEST"}
      BY DEF ResolvedByExam
    <3>1. /\ ledger[f].status = "RESOLVED" => verdict[f] = "SURVIVED"
          /\ verdict[f] = "FAILED" =>
               ledger[f].status \in {"UNRESOLVED", "REPAIR_PROPOSED", "PENDING_RETEST"}
      BY DEF Inv, ResolvedByExam
    <3>2. /\ BenchOf[f] # cursor => ledger'[f] = ledger[f]
          /\ BenchOf[f] = cursor /\ f \in failed =>
               ledger'[f].status \in {"UNRESOLVED", "REPAIR_PROPOSED", "PENDING_RETEST"}
      BY <2>1, ExamOfFault
    <3>3. verdict'[f] = IF BenchOf[f] # cursor THEN verdict[f]
                        ELSE IF f \in failed THEN "FAILED" ELSE "SURVIVED"
      BY <2>1
    <3> QED
      BY <3>1, <3>2, <3>3
  <2> QED
    BY <2>3, <2>5, <2>6, <2>7 DEF Inv
<1> QED
  BY <1>3, <1>4

LEMMA CleanupStep ==
  ASSUME Inv, NEW x \in Texts, Cleanup(x)
  PROVE  Inv' /\ Floor' = None
<1> DEFINE old == [r \in DOMAIN rules |->
                IF rules[r].status \in {"adopted", "proposed"}
                THEN [rules[r] EXCEPT !.status = "historical", !.repeal = 0] ELSE rules[r]]
           new == [status |-> "adopted", text |-> x, proposed |-> 0, repeal |-> 0]
           n == Len(rules) + 1
           cutover == [turn |-> turn + 1, actor |-> "harness", verb |-> "NONE", target |-> 0,
                       result |-> "cutover", open |-> Floor', next |-> Actor]
<1>0. /\ turn < MaxTurn /\ Floor = None /\ Len(rules) < MaxRules
      /\ rules' = Append(old, new) /\ receipts' = Append(receipts, cutover)
      /\ cleaned' = turn + 1 /\ turn' = turn /\ ledger' = ledger /\ verdict' = verdict
      /\ lastAgent' = lastAgent /\ cursor' = cursor
  BY DEF Cleanup
<1>1. /\ rules \in Seq(Rule) /\ Len(rules) \in Nat /\ turn \in Nat
      /\ MaxTurn \in Nat /\ MaxRules \in Nat
      /\ receipts \in Seq(Receipt) /\ ledger \in [Atoms -> Fault]
  BY BoundsAssumption DEF Inv, TypeOK
<1> HIDE DEF cutover
<1>2. \A q \in DOMAIN rules : ~Adding(rules, q) /\ ~Repealing(rules, q)
  BY <1>0, <1>1, FloorEmpty, FloorNow
<1>3. ASSUME NEW q \in DOMAIN rules
      PROVE  old[q] \in Rule /\ old[q].status # "proposed" /\ old[q].repeal = 0
  <2>1. rules[q] \in Rule /\ rules[q].status # "proposed" /\ rules[q].repeal = 0
    BY <1>1, <1>2 DEF Adding, Repealing
  <2>2. CASE rules[q].status \in {"adopted", "proposed"}
    <3>1. old[q] = [rules[q] EXCEPT !.status = "historical", !.repeal = 0]
      BY <2>2
    <3> HIDE DEF old
    <3> QED
      BY <2>1, <3>1 DEF Rule, Statuses
  <2>3. CASE rules[q].status \notin {"adopted", "proposed"}
    BY <2>1, <2>3
  <2> QED
    BY <2>2, <2>3
<1>4. old \in Seq(Rule) /\ Len(old) = Len(rules) /\ DOMAIN old = DOMAIN rules
  <2>1. DOMAIN rules = 1..Len(rules) /\ old = [q \in 1..Len(rules) |-> old[q]]
    BY <1>1
  <2> HIDE DEF old
  <2> QED
    BY <1>1, <1>3, <2>1
<1>5. new \in Rule /\ new.status # "proposed" /\ new.repeal = 0
  BY DEF Rule, Statuses
<1> HIDE DEF old, new
<1>7. /\ rules' \in Seq(Rule) /\ Len(rules') = n /\ DOMAIN rules' = 1..n /\ rules'[n] = new
      /\ \A q \in DOMAIN rules : rules'[q] = old[q]
  BY <1>0, <1>1, <1>4, <1>5
<1>8. \A q \in DOMAIN rules' : ~Adding(rules', q) /\ ~Repealing(rules', q)
  <2> SUFFICES ASSUME NEW q \in 1..n PROVE ~Adding(rules', q) /\ ~Repealing(rules', q)
    BY <1>7
  <2>1. CASE q = n
    BY <1>5, <1>7, <2>1 DEF Adding, Repealing
  <2>2. CASE q # n
    <3>1. q \in DOMAIN rules
      BY <1>1, <2>2
    <3> QED
      BY <1>3, <1>7, <3>1 DEF Adding, Repealing
  <2> QED
    BY <2>1, <2>2
<1>9. \A f \in Atoms : ledger'[f].status # "REPAIR_PROPOSED" /\ ledger'[f].link = ledger[f].link
  BY <1>0, <1>2 DEF Inv, Repairs, Adding
<1>10. OneMotion(rules') /\ Links' /\ Repairs'
  <2>1. Len(rules') >= Len(rules)
    BY <1>1, <1>7
  <2> QED
    BY <1>7, <1>8, <1>9, <2>1, Cleared
<1>11. TypeOK'
  <2>1. Floor' = None
    BY <1>7, <1>8, FloorEmpty, FloorNow
  <2>2. receipts' \in Seq(Receipt)
    <3>1. Actor \in {"A", "B"}
      BY DEF Actor
    <3>2. cutover \in Receipt
      BY <1>1, <2>1, <3>1 DEF cutover, Receipt
    <3> QED
      BY <1>0, <1>1, <3>2
  <2>3. cleaned' \in 0..MaxTurn
    BY <1>0, <1>1
  <2>4. Len(rules') <= MaxRules
    BY <1>0, <1>1, <1>7
  <2> QED
    BY <1>0, <1>7, <2>2, <2>3, <2>4 DEF Inv, TypeOK
<1>12. ResolvedByExam'
  BY <1>0 DEF Inv, ResolvedByExam
<1>13. Floor' = None
  BY <1>7, <1>8, FloorEmpty, FloorNow
<1> QED
  BY <1>10, <1>11, <1>12, <1>13 DEF Inv

LEMMA NextInv == Inv /\ [Next]_vars => Inv'
<1> SUFFICES ASSUME Inv, [Next]_vars PROVE Inv'
  OBVIOUS
<1>1. CASE UNCHANGED vars
  <2>1. TypeOK'
    BY <1>1 DEF Inv, vars, TypeOK
  <2> QED
    BY <1>1, <2>1, NothingMoved DEF vars
<1>2. CASE Next
  BY <1>2, QuietStep, ProposeStep, RepealStep, ReviseStep, AdoptStep, RejectStep,
     ExamStep, CleanupStep DEF Next
<1> QED
  BY <1>1, <1>2

LEMMA Invariance == Spec => []Inv
<1>1. Init => Inv
  BY InitInv
<1>2. Inv /\ [Next]_vars => Inv'
  BY NextInv
<1> QED
  BY <1>1, <1>2, PTL DEF Spec

-----------------------------------------------------------------------------
(* The theorems *)

\* Every variable of the legislature keeps its type: in particular the exam
\* cursor stays in the suite and the rulebook's ids are its positions.
THEOREM TypeCorrect == Spec => []TypeOK
<1>1. Inv => TypeOK
  BY DEF Inv
<1> QED
  BY <1>1, Invariance, PTL

\* A fault is under repair exactly while the motion linked to it is the open
\* one (_apply_legislature_to_fault_ledger).
THEOREM RepairStaysOnFloor == Spec => []RepairOnFloor
BY RepairsOnFloor, Invariance, PTL

\* A fault is resolved by an exam and by nothing else, and a failed atom is
\* always on its way to a repair (_apply_exam_to_fault_ledger).
THEOREM FaultsResolvedByExam == Spec => []ResolvedByExam
<1>1. Inv => ResolvedByExam
  BY DEF Inv
<1> QED
  BY <1>1, Invariance, PTL

\* The adopted rules and their texts decide the law.
LEMMA LawKept ==
  ASSUME \A q : (q \in Adopted') <=> (q \in Adopted),
         \A q \in Adopted : rules'[q].text = rules[q].text
  PROVE  Law' = Law
BY DEF Law

\* A step that rewrites one rule which is adopted neither before nor after, or
\* keeps its status and text, keeps the law.
LEMMA LawKeptByRewrite ==
  ASSUME NEW t \in DOMAIN rules, NEW u \in Rule, rules \in Seq(Rule),
         rules' = [rules EXCEPT ![t] = u],
         \/ u.status # "adopted" /\ rules[t].status # "adopted"
         \/ u.status = rules[t].status /\ u.text = rules[t].text
  PROVE  Law' = Law
<1>1. /\ DOMAIN rules' = DOMAIN rules /\ rules'[t] = u
      /\ \A q \in DOMAIN rules \ {t} : rules'[q] = rules[q]
  BY RuleReplaced
<1>2. \A q : (q \in Adopted') <=> (q \in Adopted)
  BY <1>1 DEF Adopted
<1>3. \A q \in Adopted : rules'[q].text = rules[q].text
  BY <1>1 DEF Adopted
<1> QED
  BY <1>2, <1>3, LawKept

LEMMA LawByProposal ==
  ASSUME Inv, NEW x \in Texts, Propose(x)
  PROVE  Law' = Law
<1> DEFINE new == [status |-> "proposed", text |-> x, proposed |-> turn + 1, repeal |-> 0]
<1>1. rules \in Seq(Rule) /\ Len(rules) \in Nat /\ turn + 1 \in Nat
  BY BoundsAssumption DEF Inv, TypeOK
<1>2. new \in Rule /\ rules' = Append(rules, new)
  <2>1. rules' = Append(rules, new)
    BY DEF Propose
  <2>2. new \in Rule
    BY <1>1 DEF Rule, Statuses
  <2> QED
    BY <2>1, <2>2
<1>3. /\ DOMAIN rules' = DOMAIN rules \cup {Len(rules) + 1} /\ rules'[Len(rules) + 1] = new
      /\ Len(rules) + 1 \notin DOMAIN rules
      /\ \A q \in DOMAIN rules : rules'[q] = rules[q]
  BY <1>1, <1>2
<1>4. new.status # "adopted"
  OBVIOUS
<1> HIDE DEF new
<1>5. \A q : (q \in Adopted') <=> (q \in Adopted)
  BY <1>3, <1>4 DEF Adopted
<1>6. \A q \in Adopted : rules'[q].text = rules[q].text
  BY <1>3 DEF Adopted
<1> QED
  BY <1>5, <1>6, LawKept

\* A motion about the law, or the rejection of one, is not the law.
LEMMA LawByMotion ==
  ASSUME Inv, (\E r \in 1..MaxRules : Repeal(r)) \/ (\E x \in Texts : Revise(x)) \/ Reject
  PROVE  Law' = Law
<1>1. rules \in Seq(Rule) /\ OneMotion(rules) /\ turn + 1 \in Nat /\ 0 \in Nat
  BY BoundsAssumption DEF Inv, TypeOK
<1>2. ASSUME NEW n \in Nat, NEW r \in DOMAIN rules, rules' = [rules EXCEPT ![r] = [rules[r] EXCEPT !.repeal = n]]
      PROVE  Law' = Law
  <2> DEFINE u == [rules[r] EXCEPT !.repeal = n]
  <2>1. rules[r] \in Rule
    BY <1>1
  <2>2. u \in Rule /\ u.status = rules[r].status /\ u.text = rules[r].text
    BY <2>1 DEF Rule
  <2>3. rules' = [rules EXCEPT ![r] = u]
    BY <1>2
  <2> HIDE DEF u
  <2> QED
    BY <1>1, <2>2, <2>3, LawKeptByRewrite
<1>3. ASSUME NEW r \in 1..MaxRules, Repeal(r) PROVE Law' = Law
  <2>1. r \in DOMAIN rules /\ rules' = [rules EXCEPT ![r] = [rules[r] EXCEPT !.repeal = turn + 1]]
    BY <1>3 DEF Repeal, Adopted
  <2> QED
    BY <1>1, <1>2, <2>1
<1>4. ASSUME Floor # None
      PROVE  /\ Floor.target \in DOMAIN rules /\ Floor.kind \in {"add", "repeal"}
             /\ Floor.kind = "add" => rules[Floor.target].status # "adopted"
  BY <1>1, <1>4, OnTheFloor, FloorNow DEF Adding
<1>5. ASSUME NEW x \in Texts, Revise(x) PROVE Law' = Law
  <2>1. Floor # None
    BY <1>5 DEF Revise
  <2>2. CASE Floor.kind = "repeal"
    <3>1. rules' = [rules EXCEPT ![Floor.target] = [rules[Floor.target] EXCEPT !.repeal = turn + 1]]
      BY <1>4, <1>5, <2>1, <2>2 DEF Revise
    <3> QED
      BY <1>1, <1>2, <1>4, <2>1, <3>1
  <2>3. CASE Floor.kind = "add"
    <3> DEFINE t == Floor.target
               u == [rules[t] EXCEPT !.text = x, !.proposed = turn + 1]
    <3>1. rules' = [rules EXCEPT ![t] = u]
      BY <1>4, <1>5, <2>1, <2>3 DEF Revise
    <3>2. t \in DOMAIN rules /\ rules[t] \in Rule /\ rules[t].status # "adopted"
      BY <1>1, <1>4, <2>1, <2>3
    <3>3. u \in Rule /\ u.status # "adopted"
      BY <1>1, <3>2 DEF Rule
    <3> HIDE DEF t, u
    <3> QED
      BY <1>1, <3>1, <3>2, <3>3, LawKeptByRewrite
  <2> QED
    BY <1>4, <2>1, <2>2, <2>3
<1>6. ASSUME Reject PROVE Law' = Law
  <2>1. Floor # None
    BY <1>6 DEF Reject
  <2>2. CASE Floor.kind = "repeal"
    <3>1. rules' = [rules EXCEPT ![Floor.target] = [rules[Floor.target] EXCEPT !.repeal = 0]]
      BY <1>4, <1>6, <2>1, <2>2 DEF Reject
    <3> QED
      BY <1>1, <1>2, <1>4, <2>1, <3>1
  <2>3. CASE Floor.kind = "add"
    <3> DEFINE t == Floor.target
               u == [rules[t] EXCEPT !.status = "rejected"]
    <3>1. rules' = [rules EXCEPT ![t] = u]
      BY <1>4, <1>6, <2>1, <2>3 DEF Reject
    <3>2. t \in DOMAIN rules /\ rules[t] \in Rule /\ rules[t].status # "adopted"
      BY <1>1, <1>4, <2>1, <2>3
    <3>3. u \in Rule /\ u.status # "adopted"
      BY <3>2 DEF Rule, Statuses
    <3> HIDE DEF t, u
    <3> QED
      BY <1>1, <3>1, <3>2, <3>3, LawKeptByRewrite
  <2> QED
    BY <1>4, <2>1, <2>2, <2>3
<1> QED
  BY <1>3, <1>5, <1>6

LEMMA LawStep ==
  ASSUME Inv, [Next]_vars
  PROVE  [Law' # Law => \/ Actor = "B" /\ Floor # None /\ Floor' = None
                        \/ cleaned' # cleaned /\ Floor = None]_vars
<1>1. ASSUME rules' = rules PROVE Law' = Law
  BY <1>1 DEF Law, Adopted
<1>2. CASE UNCHANGED vars
  BY <1>2
<1>3. ASSUME \/ \E agent \in {"A", "B"} : StructuralFailure(agent) \/ NoMotion(agent)
             \/ \E verb \in {"PROPOSE", "REPEAL", "REVISE"} : RefusedMotion(verb)
             \/ Request
             \/ \E valid \in BOOLEAN, failed \in SUBSET Atoms : Exam(valid, failed)
      PROVE  Law' = Law
  <2>1. rules' = rules
    BY <1>3 DEF StructuralFailure, NoMotion, RefusedMotion, Request, Exam
  <2> QED
    BY <1>1, <2>1
<1>4. ASSUME Adopt PROVE Actor = "B" /\ Floor # None /\ Floor' = None
  BY <1>4, AdoptStep DEF Adopt, AgentTurn
<1>5. ASSUME NEW x \in Texts, Cleanup(x) PROVE cleaned' # cleaned /\ Floor = None
  BY <1>5 DEF Cleanup
<1> QED
  BY <1>2, <1>3, <1>4, <1>5, LawByProposal, LawByMotion DEF Next

\* The language changes by the auditor's vote on an open motion or by a cleanup
\* on an empty floor (rulebook.py's authority matrix, build_applied_rulebook).
THEOREM LawChangesByVote == Spec => LawByVote
<1>1. Inv /\ [Next]_vars =>
        [Law' # Law => \/ Actor = "B" /\ Floor # None /\ Floor' = None
                       \/ cleaned' # cleaned /\ Floor = None]_vars
  BY LawStep
<1> QED
  BY <1>1, Invariance, PTL DEF Spec, LawByVote

-----------------------------------------------------------------------------
(* The legislature implements the docket.  The request in force is read    *)
(* back from the receipts, so what one more receipt does to that reading   *)
(* comes first, for any sequence of receipts and any motion.               *)

Asks(e, m) == e.actor = "B" /\ e.verb = "REQUEST" /\ e.result = "accepted" /\ e.open = m
Opens(e, m) == /\ e.result = "accepted" /\ e.open = m
               /\ e.verb = IF m.kind = "add" THEN "PROPOSE" ELSE "REPEAL"

AskedIn(rc, m) == {n \in DOMAIN rc : Asks(rc[n], m)}
OpenedIn(rc, m) == {n \in DOMAIN rc : Opens(rc[n], m)}
FoundIn(rc, m) == {n \in AskedIn(rc, m) : \A k \in AskedIn(rc, m) : k <= n}
LastIn(rc, m) == CHOOSE n \in FoundIn(rc, m) : TRUE
FeedbackIn(rc, m) ==
  IF m = None \/ AskedIn(rc, m) = {} THEN 0
  ELSE IF \E k \in OpenedIn(rc, m) : k > LastIn(rc, m) THEN 0 ELSE rc[LastIn(rc, m)].turn

LEMMA FeedbackNow ==
  Feedback = FeedbackIn(receipts, Floor) /\ Feedback' = FeedbackIn(receipts', Floor')
BY DEF Feedback, FeedbackIn, LastIn, FoundIn, AskedIn, OpenedIn, Asks, Opens

Before == {ss \in Nat \X Nat : ss[1] < ss[2]}

LEMMA BeforeWellFounded == IsWellFoundedOn(Before, Nat)
BY NatLessThanWellFounded DEF OpToRel, Before

\* A nonempty set of positions has a last one.
LEMMA LastPosition ==
  ASSUME NEW k \in Nat, NEW S \in SUBSET (1..k), S # {}
  PROVE  \E n \in S : \A m \in S : m <= n
<1> DEFINE T == {k - n : n \in S}
<1>0. \A n \in S : n \in 1..k
  OBVIOUS
<1>1. T \subseteq Nat /\ T # {}
  <2>1. \A n \in S : k - n \in Nat
    BY <1>0
  <2>2. \A x \in T : x \in Nat
    BY <2>1
  <2>3. PICK n \in S : TRUE
    OBVIOUS
  <2>4. k - n \in T
    BY <2>3
  <2> QED
    BY <2>2, <2>4
<1>2. PICK x \in T : \A y \in T : <<y, x>> \notin Before
  BY <1>1, WFMin, BeforeWellFounded
<1>3. PICK n \in S : x = k - n
  BY <1>2
<1>4. ASSUME NEW m \in S PROVE m <= n
  <2>1. k - m \in T /\ k - m \in Nat /\ k - n \in Nat /\ m \in Int /\ n \in Int
    OBVIOUS
  <2>2. ~ (k - m < k - n)
    BY <1>2, <1>3, <2>1 DEF Before
  <2> QED
    BY <2>1, <2>2
<1> QED
  BY <1>4

\* The reading stops at the last request about the motion.
LEMMA FeedbackRead ==
  ASSUME NEW rc \in Seq(Receipt), NEW m, m # None,
         NEW n \in AskedIn(rc, m), \A k \in AskedIn(rc, m) : k <= n
  PROVE  FeedbackIn(rc, m) = IF \E k \in OpenedIn(rc, m) : k > n THEN 0 ELSE rc[n].turn
<1>1. AskedIn(rc, m) \subseteq Nat
  BY DEF AskedIn
<1>2. FoundIn(rc, m) = {n}
  BY <1>1 DEF FoundIn
<1>3. LastIn(rc, m) = n
  BY <1>2 DEF LastIn
<1> QED
  BY <1>3 DEF FeedbackIn

\* One more receipt.
LEMMA OneMore ==
  ASSUME NEW rc \in Seq(Receipt), NEW e \in Receipt, NEW m
  PROVE  LET new == Append(rc, e)
             last == Len(rc) + 1
         IN  /\ new \in Seq(Receipt) /\ new[last] = e /\ last \in Nat
             /\ \A n \in DOMAIN rc : new[n] = rc[n] /\ n < last /\ n \in Nat
             /\ Asks(e, m) => AskedIn(new, m) = AskedIn(rc, m) \cup {last}
             /\ ~Asks(e, m) => AskedIn(new, m) = AskedIn(rc, m)
             /\ Opens(e, m) => OpenedIn(new, m) = OpenedIn(rc, m) \cup {last}
             /\ ~Opens(e, m) => OpenedIn(new, m) = OpenedIn(rc, m)
             /\ AskedIn(rc, m) \subseteq DOMAIN rc /\ OpenedIn(rc, m) \subseteq DOMAIN rc
<1> DEFINE new == Append(rc, e)
           last == Len(rc) + 1
<1>1. /\ new \in Seq(Receipt) /\ DOMAIN new = DOMAIN rc \cup {last} /\ new[last] = e /\ last \in Nat
      /\ \A n \in DOMAIN rc : new[n] = rc[n] /\ n < last /\ n \in Nat
  OBVIOUS
<1> HIDE DEF new
<1>2. /\ Asks(e, m) => AskedIn(new, m) = AskedIn(rc, m) \cup {last}
      /\ ~Asks(e, m) => AskedIn(new, m) = AskedIn(rc, m)
  BY <1>1 DEF AskedIn
<1>3. /\ Opens(e, m) => OpenedIn(new, m) = OpenedIn(rc, m) \cup {last}
      /\ ~Opens(e, m) => OpenedIn(new, m) = OpenedIn(rc, m)
  BY <1>1 DEF OpenedIn
<1>4. AskedIn(rc, m) \subseteq DOMAIN rc /\ OpenedIn(rc, m) \subseteq DOMAIN rc
  BY DEF AskedIn, OpenedIn
<1> QED
  BY <1>1, <1>2, <1>3, <1>4 DEF new

\* A request is what is read next.
LEMMA FeedbackAsked ==
  ASSUME NEW rc \in Seq(Receipt), NEW e \in Receipt, NEW m, m # None, Asks(e, m)
  PROVE  FeedbackIn(Append(rc, e), m) = e.turn
<1> DEFINE new == Append(rc, e)
           last == Len(rc) + 1
<1>1. /\ new \in Seq(Receipt) /\ new[last] = e /\ last \in Nat
      /\ last \in AskedIn(new, m)
      /\ \A k \in AskedIn(new, m) : k <= last
      /\ ~ \E k \in OpenedIn(new, m) : k > last
  <2>1. ~Opens(e, m)
    BY DEF Asks, Opens
  <2> QED
    BY <2>1, OneMore
<1> HIDE DEF new
<1>2. FeedbackIn(new, m) = new[last].turn
  BY <1>1, FeedbackRead
<1> QED
  BY <1>1, <1>2 DEF new

\* Whatever was asked about a motion before it was opened again is not read.
LEMMA FeedbackOpened ==
  ASSUME NEW rc \in Seq(Receipt), NEW e \in Receipt, NEW m, m # None, Opens(e, m)
  PROVE  FeedbackIn(Append(rc, e), m) = 0
<1> DEFINE new == Append(rc, e)
           last == Len(rc) + 1
<1>1. ~Asks(e, m)
  BY DEF Asks, Opens
<1>2. /\ new \in Seq(Receipt) /\ last \in Nat
      /\ AskedIn(new, m) \subseteq 1..Len(rc) /\ last \in OpenedIn(new, m)
      /\ Len(rc) \in Nat
  BY <1>1, OneMore
<1> HIDE DEF new
<1>3. CASE AskedIn(new, m) = {}
  BY <1>3 DEF FeedbackIn, new
<1>4. CASE AskedIn(new, m) # {}
  <2>1. PICK n \in AskedIn(new, m) : \A k \in AskedIn(new, m) : k <= n
    BY <1>2, <1>4, LastPosition
  <2>2. last > n
    BY <1>2
  <2> QED
    BY <1>2, <2>1, <2>2, FeedbackRead DEF new
<1> QED
  BY <1>3, <1>4

\* Any other receipt leaves the reading alone.
LEMMA FeedbackKept ==
  ASSUME NEW rc \in Seq(Receipt), NEW e \in Receipt, NEW m, ~Asks(e, m), ~Opens(e, m)
  PROVE  FeedbackIn(Append(rc, e), m) = FeedbackIn(rc, m)
<1> DEFINE new == Append(rc, e)
<1>1. /\ new \in Seq(Receipt) /\ \A n \in DOMAIN rc : new[n] = rc[n]
      /\ AskedIn(new, m) = AskedIn(rc, m) /\ OpenedIn(new, m) = OpenedIn(rc, m)
      /\ AskedIn(rc, m) \subseteq DOMAIN rc /\ DOMAIN rc = 1..Len(rc) /\ Len(rc) \in Nat
  BY OneMore
<1> HIDE DEF new
<1>2. CASE m = None \/ AskedIn(rc, m) = {}
  BY <1>1, <1>2 DEF FeedbackIn, new
<1>3. CASE m # None /\ AskedIn(rc, m) # {}
  <2>1. PICK n \in AskedIn(rc, m) : \A k \in AskedIn(rc, m) : k <= n
    BY <1>1, <1>3, LastPosition
  <2>2. FeedbackIn(rc, m) = IF \E k \in OpenedIn(rc, m) : k > n THEN 0 ELSE rc[n].turn
    BY <1>3, <2>1, FeedbackRead
  <2>3. FeedbackIn(new, m) = IF \E k \in OpenedIn(new, m) : k > n THEN 0 ELSE new[n].turn
    BY <1>1, <1>3, <2>1, FeedbackRead
  <2> QED
    BY <1>1, <2>1, <2>2, <2>3 DEF new
<1> QED
  BY <1>2, <1>3

\* Who speaks next is what the last receipt says.
Speaker == receipts[Len(receipts)].next
Turns == receipts # <<>> /\ Speaker = Actor

Entry(agent, verb, target, result, open, next) ==
  [turn |-> turn + 1, actor |-> agent, verb |-> verb, target |-> target,
   result |-> result, open |-> open, next |-> next]

\* A receipt names the next speaker, and its turn, for the reader to come.
LEMMA Written ==
  ASSUME Inv, Inv', NEW e, receipts' = Append(receipts, e)
  PROVE  /\ e \in Receipt /\ receipts \in Seq(Receipt)
         /\ receipts' # <<>> /\ Speaker' = e.next
<1>1. receipts \in Seq(Receipt) /\ receipts' \in Seq(Receipt)
  BY DEF Inv, TypeOK
<1>2. Len(receipts') = Len(receipts) + 1 /\ receipts'[Len(receipts')] = e /\ Len(receipts) \in Nat
  BY <1>1
<1>3. e \in Receipt
  BY <1>1, <1>2
<1> QED
  BY <1>1, <1>2, <1>3 DEF Speaker

LEMMA Recorded ==
  ASSUME Inv, Inv', Turns, NEW agent \in {"A", "B"}, Actor = agent,
         NEW verb, NEW target, NEW result, Record(agent, verb, target, result)
  PROVE  LET next == IF agent = "B" THEN "A" ELSE "B"
             e == Entry(agent, verb, target, result, Floor', next)
         IN  /\ receipts' = Append(receipts, e) /\ e \in Receipt /\ receipts \in Seq(Receipt)
             /\ e.actor = agent /\ e.verb = verb /\ e.result = result /\ e.open = Floor'
             /\ e.turn = turn + 1
             /\ Speaker = agent /\ Speaker' = next /\ Turns'
<1> DEFINE next == IF agent = "B" THEN "A" ELSE "B"
           e == Entry(agent, verb, target, result, Floor', next)
<1>1. receipts' = Append(receipts, e) /\ lastAgent' = agent
  BY DEF Record, Entry
<1>2. /\ e.actor = agent /\ e.verb = verb /\ e.result = result /\ e.open = Floor'
      /\ e.turn = turn + 1 /\ e.next = next
  BY DEF Entry
<1> HIDE DEF e
<1>3. e \in Receipt /\ receipts \in Seq(Receipt) /\ receipts' # <<>> /\ Speaker' = next
  BY <1>1, <1>2, Written
<1>4. Actor' = next
  BY <1>1 DEF Actor
<1> QED
  BY <1>1, <1>2, <1>3, <1>4 DEF Turns, e

\* Without a motion nothing is asked.
LEMMA NoFeedback == ASSUME NEW rc PROVE FeedbackIn(rc, None) = 0
BY DEF FeedbackIn

\* A turn that leaves the motion where it was, and asks for nothing.
LEMMA PassStep ==
  ASSUME Inv, Inv', Turns, NEW agent \in {"A", "B"}, AgentTurn(agent),
         NEW verb, NEW target, NEW result, Record(agent, verb, target, result),
         agent = "B" => Floor = None,
         verb \in {"NONE", "REVISE"} \/ result = "rejected",
         Floor' = Floor
  PROVE  Abstract!Pass /\ Turns'
<1>1. Actor = agent /\ turn' = turn + 1
  BY DEF AgentTurn
<1> DEFINE next == IF agent = "B" THEN "A" ELSE "B"
           e == Entry(agent, verb, target, result, Floor', next)
<1>2. /\ receipts' = Append(receipts, e) /\ e \in Receipt /\ receipts \in Seq(Receipt)
      /\ e.verb = verb /\ e.result = result
      /\ Speaker = agent /\ Speaker' = next /\ Turns'
  BY <1>1, Recorded
<1> HIDE DEF e
<1>3. ~Asks(e, Floor) /\ ~Opens(e, Floor)
  BY <1>2 DEF Asks, Opens
<1>4. Feedback' = Feedback
  BY <1>2, <1>3, FeedbackKept, FeedbackNow
<1>5. Speaker' = Abstract!Other(Speaker)
  BY <1>2 DEF Abstract!Other
<1> QED
  BY <1>1, <1>2, <1>4, <1>5 DEF Abstract!Pass, Speaker

\* A motion put on an empty floor.
LEMMA TableStep ==
  ASSUME Inv, Inv', Turns, AgentTurn("A"), Floor = None,
         NEW kind \in {"add", "repeal"}, NEW r \in 1..MaxRules,
         Floor' = [kind |-> kind, target |-> r],
         Record("A", IF kind = "add" THEN "PROPOSE" ELSE "REPEAL", r, "accepted")
  PROVE  (\E m \in Abstract!Motions : Abstract!Table(m)) /\ Turns'
<1> DEFINE m == [kind |-> kind, target |-> r]
           verb == IF kind = "add" THEN "PROPOSE" ELSE "REPEAL"
           e == Entry("A", verb, r, "accepted", Floor', "B")
<1>1. Actor = "A" /\ turn' = turn + 1
  BY DEF AgentTurn
<1>2. m \in Abstract!Motions /\ m.kind = kind
  BY DEF Abstract!Motions
<1>3. m # None
  <2>1. m \in Motion
    BY DEF Motion
  <2> QED
    BY <2>1, NoneAssumption
<1>4. /\ receipts' = Append(receipts, e) /\ e \in Receipt /\ receipts \in Seq(Receipt)
      /\ e.verb = verb /\ e.result = "accepted" /\ e.open = Floor'
      /\ Speaker = "A" /\ Speaker' = "B" /\ Turns'
  BY <1>1, Recorded
<1>5. Floor' = m
  OBVIOUS
<1> HIDE DEF e, m
<1>6. Opens(e, m)
  BY <1>2, <1>4, <1>5 DEF Opens
<1>7. Feedback' = 0
  BY <1>3, <1>4, <1>5, <1>6, FeedbackOpened, FeedbackNow
<1>8. Abstract!Table(m)
  BY <1>1, <1>4, <1>5, <1>7 DEF Abstract!Table, Speaker
<1> QED
  BY <1>2, <1>4, <1>8

LEMMA SettleStep ==
  ASSUME Inv, Inv', Turns, AgentTurn("B"), Floor # None, Floor' = None,
         NEW verb, NEW target, Record("B", verb, target, "accepted")
  PROVE  Abstract!Settle /\ Turns'
<1>1. Actor = "B" /\ turn' = turn + 1
  BY DEF AgentTurn
<1>2. Speaker = "B" /\ Speaker' = "A" /\ Turns'
  BY <1>1, Recorded
<1>3. Feedback' = 0
  BY NoFeedback, FeedbackNow
<1> QED
  BY <1>1, <1>2, <1>3 DEF Abstract!Settle, Speaker

LEMMA RequestStep ==
  ASSUME Inv, Inv', Turns, Request
  PROVE  Abstract!Request /\ Turns'
<1> DEFINE e == Entry("B", "REQUEST", Floor.target, "accepted", Floor', "A")
<1>1. /\ Actor = "B" /\ turn' = turn + 1 /\ Floor # None /\ rules' = rules
      /\ Record("B", "REQUEST", Floor.target, "accepted")
  BY DEF Request, AgentTurn
<1>2. Floor' = Floor
  BY <1>1, FloorNow
<1>3. /\ receipts' = Append(receipts, e) /\ e \in Receipt /\ receipts \in Seq(Receipt)
      /\ e.actor = "B" /\ e.verb = "REQUEST" /\ e.result = "accepted" /\ e.open = Floor'
      /\ e.turn = turn + 1
      /\ Speaker = "B" /\ Speaker' = "A" /\ Turns'
  BY <1>1, Recorded
<1> HIDE DEF e
<1>4. Asks(e, Floor)
  BY <1>2, <1>3 DEF Asks
<1>5. Feedback' = turn + 1
  BY <1>1, <1>2, <1>3, <1>4, FeedbackAsked, FeedbackNow
<1> QED
  BY <1>1, <1>2, <1>3, <1>5 DEF Abstract!Request, Speaker

\* An agent that could not be understood speaks again; an exam is no turn of
\* either agent; and a cleanup, on an empty floor, is invisible.
LEMMA FailureStep ==
  ASSUME Inv, Inv', Turns, NEW agent \in {"A", "B"}, StructuralFailure(agent)
  PROVE  Abstract!Idle /\ Turns'
<1> DEFINE e == Entry(agent, "NONE", 0, "structural_failure", Floor, agent)
<1>1. /\ Actor = agent /\ turn' = turn + 1 /\ rules' = rules /\ lastAgent' = lastAgent
      /\ receipts' = Append(receipts, e) /\ e.verb = "NONE" /\ e.next = agent
  BY DEF StructuralFailure, AgentTurn, Entry
<1> HIDE DEF e
<1>2. Floor' = Floor /\ Actor' = Actor
  BY <1>1, FloorNow DEF Actor
<1>3. e \in Receipt /\ receipts \in Seq(Receipt) /\ receipts' # <<>> /\ Speaker' = agent
  BY <1>1, Written
<1>4. Feedback' = Feedback
  <2>1. ~Asks(e, Floor) /\ ~Opens(e, Floor)
    BY <1>1 DEF Asks, Opens
  <2> QED
    BY <1>1, <1>2, <1>3, <2>1, FeedbackKept, FeedbackNow
<1> QED
  BY <1>1, <1>2, <1>3, <1>4 DEF Abstract!Idle, Turns, Speaker

LEMMA ExamIdles ==
  ASSUME Inv, Turns, NEW valid \in BOOLEAN, NEW failed \in SUBSET Atoms, Exam(valid, failed)
  PROVE  Abstract!Idle /\ Turns'
<1>1. turn' = turn + 1 /\ rules' = rules /\ receipts' = receipts /\ lastAgent' = lastAgent
  BY DEF Exam
<1>2. Floor' = Floor /\ Feedback' = Feedback
  BY <1>1, FloorNow, FeedbackNow
<1> QED
  BY <1>1, <1>2 DEF Abstract!Idle, Turns, Speaker, Actor

LEMMA CleanupStutters ==
  ASSUME Inv, Inv', Turns, NEW x \in Texts, Cleanup(x)
  PROVE  UNCHANGED <<Speaker, Floor, Feedback, turn>> /\ Turns'
<1> DEFINE e == Entry("harness", "NONE", 0, "cutover", Floor', Actor)
<1>1. /\ Floor = None /\ turn' = turn /\ lastAgent' = lastAgent
      /\ receipts' = Append(receipts, e) /\ e.next = Actor
  BY DEF Cleanup, Entry
<1> HIDE DEF e
<1>2. Floor' = None
  BY CleanupStep
<1>3. receipts' # <<>> /\ Speaker' = Actor
  BY <1>1, Written
<1>4. Actor' = Actor
  BY <1>1 DEF Actor
<1>5. Feedback = 0 /\ Feedback' = 0
  BY <1>1, <1>2, NoFeedback, FeedbackNow
<1> QED
  BY <1>1, <1>2, <1>3, <1>4, <1>5 DEF Turns

LEMMA DocketStep ==
  ASSUME Inv, Inv', Turns, [Next]_vars
  PROVE  [Abstract!Next]_(Abstract!dvars) /\ Turns'
<1>1. CASE UNCHANGED vars
  <2>1. Floor' = Floor /\ Feedback' = Feedback /\ Turns' /\ Speaker' = Speaker
    BY <1>1, FloorNow, FeedbackNow DEF vars, Turns, Speaker, Actor
  <2> QED
    BY <1>1, <2>1 DEF vars, Abstract!dvars, Speaker
<1>2. ASSUME NEW agent \in {"A", "B"}, StructuralFailure(agent)
      PROVE  Abstract!Idle /\ Turns'
  BY <1>2, FailureStep
<1>3. ASSUME NEW agent \in {"A", "B"}, NoMotion(agent)
      PROVE  Abstract!Pass /\ Turns'
  <2>1. /\ AgentTurn(agent) /\ (agent = "B" => Floor = None) /\ rules' = rules
        /\ Record(agent, "NONE", 0, "accepted")
    BY <1>3 DEF NoMotion
  <2>2. Floor' = Floor
    BY <2>1, FloorNow
  <2> QED
    BY <2>1, <2>2, PassStep
<1>4. ASSUME NEW verb \in {"PROPOSE", "REPEAL", "REVISE"}, RefusedMotion(verb)
      PROVE  Abstract!Pass /\ Turns'
  <2>1. AgentTurn("A") /\ rules' = rules /\ Record("A", verb, 0, "rejected")
    BY <1>4 DEF RefusedMotion
  <2>2. Floor' = Floor
    BY <2>1, FloorNow
  <2> QED
    BY <2>1, <2>2, PassStep
<1>5. ASSUME NEW x \in Texts, Propose(x)
      PROVE  (\E m \in Abstract!Motions : Abstract!Table(m)) /\ Turns'
  <2>1. AgentTurn("A") /\ Floor = None /\ Record("A", "PROPOSE", Len(rules) + 1, "accepted")
    BY <1>5 DEF Propose
  <2>2. /\ Floor' = [kind |-> "add", target |-> Len(rules) + 1]
        /\ Len(rules) + 1 \in 1..MaxRules
    BY <1>5, ProposeStep
  <2> QED
    BY <2>1, <2>2, TableStep
<1>6. ASSUME NEW r \in 1..MaxRules, Repeal(r)
      PROVE  (\E m \in Abstract!Motions : Abstract!Table(m)) /\ Turns'
  <2>1. AgentTurn("A") /\ Floor = None /\ Record("A", "REPEAL", r, "accepted")
    BY <1>6 DEF Repeal
  <2>2. Floor' = [kind |-> "repeal", target |-> r]
    BY <1>6, RepealStep
  <2> QED
    BY <2>1, <2>2, TableStep
<1>7. ASSUME NEW x \in Texts, Revise(x)
      PROVE  Abstract!Pass /\ Turns'
  <2>1. AgentTurn("A") /\ Record("A", "REVISE", Floor.target, "accepted")
    BY <1>7 DEF Revise
  <2>2. Floor' = Floor
    BY <1>7, ReviseStep
  <2> QED
    BY <2>1, <2>2, PassStep
<1>8. ASSUME NEW x \in Texts, Cleanup(x)
      PROVE  UNCHANGED Abstract!dvars /\ Turns'
  BY <1>8, CleanupStutters DEF Abstract!dvars, Speaker
<1>9. ASSUME Adopt PROVE Abstract!Settle /\ Turns'
  <2>1. AgentTurn("B") /\ Floor # None /\ Record("B", "ADOPT", Floor.target, "accepted")
    BY <1>9 DEF Adopt
  <2> QED
    BY <1>9, <2>1, AdoptStep, SettleStep
<1>10. ASSUME Reject PROVE Abstract!Settle /\ Turns'
  <2>1. AgentTurn("B") /\ Floor # None /\ Record("B", "REJECT", Floor.target, "accepted")
    BY <1>10 DEF Reject
  <2> QED
    BY <1>10, <2>1, RejectStep, SettleStep
<1>11. ASSUME Request PROVE Abstract!Request /\ Turns'
  BY <1>11, RequestStep
<1>12. ASSUME NEW valid \in BOOLEAN, NEW failed \in SUBSET Atoms, Exam(valid, failed)
       PROVE  Abstract!Idle /\ Turns'
  BY <1>12, ExamIdles
<1> QED
  BY <1>1, <1>2, <1>3, <1>4, <1>5, <1>6, <1>7, <1>8, <1>9, <1>10, <1>11, <1>12
     DEF Next, Abstract!Next

LEMMA DocketInit == ASSUME Init PROVE Abstract!Init /\ Turns
<1>1. Inv
  BY InitInv
<1>2. /\ Len(receipts) = 1 /\ receipts # <<>> /\ Speaker = "A" /\ turn = 0
      /\ receipts[1].verb = "NONE" /\ lastAgent = None /\ receipts \in Seq(Receipt)
  BY <1>1 DEF Init, Speaker, Inv, TypeOK
<1>3. \A r \in DOMAIN rules : ~Adding(rules, r) /\ ~Repealing(rules, r)
  BY DEF Init, Adding, Repealing
<1>4. Floor = None
  BY <1>1, <1>3, FloorEmpty, FloorNow DEF Inv, TypeOK
<1>5. Actor = "A"
  BY <1>2, NoneAssumption DEF Actor
<1>6. Feedback = 0
  BY <1>4, NoFeedback, FeedbackNow
<1> QED
  BY <1>2, <1>4, <1>5, <1>6 DEF Abstract!Init, Turns, Speaker

\* The stored rules and receipts implement the docket: one motion at a time,
\* alternating agents, and the request read back from the receipts is the one
\* in force (derive_active_legislative_feedback, post_state_receipt).
THEOREM LegislatureImplementsDocket == Spec => ImplementsDocket
<1>1. Init => Abstract!Init /\ Turns
  BY DocketInit
<1>2. Inv /\ Inv' /\ Turns /\ [Next]_vars => [Abstract!Next]_(Abstract!dvars) /\ Turns'
  BY DocketStep
<1> QED
  BY <1>1, <1>2, Invariance, PTL DEF Spec, ImplementsDocket, Abstract!Spec
=============================================================================
