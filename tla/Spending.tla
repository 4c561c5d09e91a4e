------------------------------ MODULE Spending ------------------------------
(***************************************************************************)
(* Paying the provider: the reserving transport of a live session          *)
(* (local_cleanup.ReservedTransport, runtime_session.py), which outlives   *)
(* runs and processes, and the cost receipts of the run (loop.py), by      *)
(* which the runner enforces its cap.  A process may die at any point, and *)
(* a request may be charged without ever being answered.                   *)
(*                                                                         *)
(* Both files are replaced atomically; meta.json is saved by the commit of *)
(* a turn and retired, with the receipts, by an archive (see TurnStore).   *)
(***************************************************************************)
EXTENDS Integers, Sequences

CONSTANTS
  Ids,        \* response ids
  Price,      \* id -> the cost its response reports
  Reserves,   \* amounts a request may have to reserve
  Charges,    \* what a request without a usable answer may cost all the same
  Limit,      \* the session's allowance (limit_usd)
  Cap,        \* the runner's cap (SPEND_CAP)
  None,       \* no receipt ledger yet
  MaxAttempts, MaxPast   \* bounds of the model

ASSUME AmountsAssumption ==
  /\ Price \in [Ids -> Nat]
  /\ Reserves \subseteq Nat /\ Charges \subseteq Nat
  /\ Limit \in Nat /\ Cap \in Nat
ASSUME BoundsAssumption == MaxAttempts \in Nat /\ MaxPast \in Nat

VARIABLES
  budget,   \* the transport's receipt file: [used, stopped, attempts]
  ledger,   \* cost-receipts.local.json: [base, ids, sum of their costs], or None
  saved,    \* the exact cost in meta.json
  exact,    \* the exact cost in the running process's meta, 0 if none runs
  pc,       \* "down", "idle" between turns, "turn", "sent", or "got" an answer
  answer    \* the response id just received, with pc = "got"

\* History, read by properties only.
VARIABLES
  charged,  \* what the provider has charged to the session
  overrun,  \* how much of it exceeded a request's reservation
  heard,    \* responses recorded in this run
  earned,   \* what they cost, and what the run had cost before its ledger
  past      \* the same for the runs archived so far

accounts == <<budget, ledger, saved>>
history  == <<charged, overrun, heard, earned, past>>
vars == <<accounts, exact, pc, answer, history>>

Attempt == [reserve : Nat, status : {"uncertain", "received", "reconciled"}, proof : BOOLEAN]
Ledger == [base : Nat, ids : SUBSET Ids, sum : Nat]
ASSUME NoneAssumption == None \notin Ledger \cup Ids

Sent == Len(budget.attempts)
Reserved == budget.attempts[Sent].reserve
Total == ledger.base + ledger.sum

\* A run may have cost something before its first receipt ledger.
Init ==
  /\ budget = [used |-> 0, stopped |-> FALSE, attempts |-> <<>>]
  /\ ledger = None /\ saved \in {0, 1} /\ exact = 0
  /\ pc = "down" /\ answer = None
  /\ charged = 0 /\ overrun = 0 /\ heard = {} /\ earned = saved /\ past = 0

-----------------------------------------------------------------------------
(* The runner *)

\* Mutant: the receipts are not read back into meta.
StartFromMeta ==
  /\ pc = "down"
  /\ IF ledger = None
     THEN ledger' = [base |-> saved, ids |-> {}, sum |-> 0]
     ELSE saved \in ledger.base..Total /\ UNCHANGED ledger
  /\ exact' = saved
  /\ pc' = "idle"
  /\ UNCHANGED <<budget, saved, answer, history>>

\* configure_cost_receipt_ledger: receipts that meta lacks are counted; a meta
\* outside the ledger's range stops the process.
Start ==
  /\ pc = "down"
  /\ IF ledger = None
     THEN /\ ledger' = [base |-> saved, ids |-> {}, sum |-> 0]
          /\ exact' = saved
     ELSE /\ saved \in ledger.base..Total
          /\ exact' = Total
          /\ UNCHANGED ledger
  /\ pc' = "idle"
  /\ UNCHANGED <<budget, saved, answer, history>>

\* The session and the cap are checked between turns.
BeginTurn ==
  /\ pc = "idle"
  /\ ~budget.stopped /\ budget.used < Limit
  /\ exact < Cap
  /\ pc' = "turn"
  /\ UNCHANGED <<accounts, exact, answer, history>>

Commit ==
  /\ pc = "turn"
  /\ saved' = exact
  /\ pc' = "idle"
  /\ UNCHANGED <<budget, ledger, exact, answer, history>>

\* The process ends: its turns are done, a check refuses, or it is killed.
Stop ==
  /\ pc \in {"idle", "turn", "got"}
  /\ pc' = "down" /\ exact' = 0 /\ answer' = None
  /\ UNCHANGED <<accounts, history>>

\* Mutant: the receipts are not among the files an archive takes.
ArchiveKeepsLedger ==
  /\ pc = "down" /\ past < MaxPast
  /\ saved' = 0
  /\ heard' = {} /\ earned' = 0 /\ past' = past + earned
  /\ UNCHANGED <<budget, ledger, exact, pc, answer, charged, overrun>>

\* archive: the next run starts without meta and without receipts.  (MaxPast
\* bounds what archived runs may have cost.)
Archive ==
  /\ pc = "down" /\ past < MaxPast
  /\ ledger' = None /\ saved' = 0
  /\ heard' = {} /\ earned' = 0 /\ past' = past + earned
  /\ UNCHANGED <<budget, exact, pc, answer, charged, overrun>>

-----------------------------------------------------------------------------
(* One provider request *)

\* The reservation, and that the run is stopped, are on disk before dispatch.
Dispatch(r) ==
  /\ pc = "turn" /\ Sent < MaxAttempts
  /\ ~budget.stopped /\ budget.used + r <= Limit
  /\ budget' = [used |-> budget.used + r, stopped |-> TRUE,
                attempts |-> Append(budget.attempts,
                                    [reserve |-> r, status |-> "uncertain", proof |-> FALSE])]
  /\ pc' = "sent"
  /\ UNCHANGED <<ledger, saved, exact, answer, history>>

Bill(c) ==
  /\ charged' = charged + c
  /\ overrun' = IF c > Reserved THEN overrun + c - Reserved ELSE overrun
  /\ UNCHANGED <<heard, earned, past>>

\* No answer with a cost, or no process to take it: the reservation stays.  (A
\* cleanup survives the error, but then the turn's own requests are refused.)
Lose(c) ==
  /\ pc = "sent"
  /\ Bill(c)
  /\ pc' = "down" /\ exact' = 0
  /\ UNCHANGED <<accounts, answer>>

\* The context was too long: refused before generation, free, and on file.
Rejected ==
  /\ pc = "sent"
  /\ budget' = [budget EXCEPT !.attempts[Sent].proof = TRUE]
  /\ pc' = "down" /\ exact' = 0
  /\ UNCHANGED <<ledger, saved, answer, history>>

\* Mutant: a rejection that has been reconciled can be reconciled again.
ReconcileAgain ==
  /\ pc = "down"
  /\ Sent > 0 /\ budget.attempts[Sent].proof
  /\ budget' = [budget EXCEPT !.used = @ - Reserved, !.stopped = FALSE,
                              !.attempts[Sent].status = "reconciled"]
  /\ UNCHANGED <<ledger, saved, exact, pc, answer, history>>

\* Mutant: a request that was never answered is released too.
ReconcileUnproven ==
  /\ pc = "down"
  /\ Sent > 0 /\ budget.stopped /\ budget.attempts[Sent].status = "uncertain"
  /\ budget' = [budget EXCEPT !.used = @ - Reserved, !.stopped = FALSE,
                              !.attempts[Sent].status = "reconciled"]
  /\ UNCHANGED <<ledger, saved, exact, pc, answer, history>>

\* reconcile_context_rejection, on an operator's word, between sessions.
Reconcile ==
  /\ pc = "down"
  /\ Sent > 0 /\ budget.stopped
  /\ budget.attempts[Sent].status = "uncertain" /\ budget.attempts[Sent].proof
  /\ \A n \in 1..Sent-1 : budget.attempts[n].status # "uncertain"
  /\ budget' = [budget EXCEPT !.used = @ - Reserved, !.stopped = FALSE,
                              !.attempts[Sent].status = "reconciled"]
  /\ UNCHANGED <<ledger, saved, exact, pc, answer, history>>

\* The cost replaces the reservation; more than was reserved stops the session.
Settle(cost) ==
  budget' = [budget EXCEPT !.used = @ + cost - Reserved,
                           !.stopped = cost > Reserved,
                           !.attempts[Sent].status = "received"]

\* An answer.  One whose id the provider has used before is not charged again.
Answered(id) ==
  /\ pc = "sent"
  /\ Settle(Price[id])
  /\ Bill(IF id \in heard THEN 0 ELSE Price[id])
  /\ IF Price[id] > Reserved
     THEN pc' = "down" /\ exact' = 0 /\ answer' = None
     ELSE pc' = "got" /\ answer' = id /\ UNCHANGED exact
  /\ UNCHANGED <<ledger, saved>>

\* A provider error that reports a cost: call() tries again, with no receipt.
AnsweredError(c) ==
  /\ pc = "sent"
  /\ Settle(c)
  /\ Bill(c)
  /\ IF c > Reserved THEN pc' = "down" /\ exact' = 0
                     ELSE pc' = "turn" /\ UNCHANGED exact
  /\ UNCHANGED <<ledger, saved, answer>>

\* Mutant: a response id that is in the ledger is counted again.
RecordTwice ==
  /\ pc = "got"
  /\ ledger' = [ledger EXCEPT !.ids = @ \cup {answer}, !.sum = @ + Price[answer]]
  /\ exact' = ledger'.base + ledger'.sum
  /\ heard' = heard \cup {answer}
  /\ earned' = IF answer \in heard THEN earned ELSE earned + Price[answer]
  /\ pc' = "turn" /\ answer' = None
  /\ UNCHANGED <<budget, saved, charged, overrun, past>>

\* record_provider_cost: the receipt is on disk before meta counts it.
Record ==
  /\ pc = "got"
  /\ ledger' = IF answer \in ledger.ids THEN ledger
               ELSE [ledger EXCEPT !.ids = @ \cup {answer}, !.sum = @ + Price[answer]]
  /\ exact' = ledger'.base + ledger'.sum
  /\ heard' = heard \cup {answer}
  /\ earned' = IF answer \in heard THEN earned ELSE earned + Price[answer]
  /\ pc' = "turn" /\ answer' = None
  /\ UNCHANGED <<budget, saved, charged, overrun, past>>

-----------------------------------------------------------------------------

Next ==
  \/ Start \/ BeginTurn \/ Commit \/ Stop \/ Archive
  \/ \E r \in Reserves : Dispatch(r)
  \/ \E c \in Charges : Lose(c) \/ AnsweredError(c)
  \/ \E id \in Ids : Answered(id)
  \/ Record \/ Rejected \/ Reconcile

Spec == Init /\ [][Next]_vars

-----------------------------------------------------------------------------
(* Properties *)

\* Every variable holds a value of its kind; no account is ever negative.
TypeOK ==
  /\ budget \in [used : Nat, stopped : BOOLEAN, attempts : Seq(Attempt)]
  /\ ledger \in Ledger \cup {None}
  /\ saved \in Nat /\ exact \in Nat
  /\ pc \in {"down", "idle", "turn", "sent", "got"}
  /\ answer \in Ids \cup {None}
  /\ charged \in Nat /\ overrun \in Nat
  /\ heard \subseteq Ids /\ earned \in Nat /\ past \in Nat

\* Whatever is lost, killed, retried, reconciled or archived, the provider's
\* charges to a session stay within its allowance, save what a request costs
\* beyond its own reservation; and that ends the session (__call__).
WithinLimit ==
  /\ charged <= Limit + overrun
  /\ overrun > 0 => budget.stopped

\* While a charge is unknown nothing more is spent, by this process or a later
\* one: each new request finds all earlier ones answered or proved free.
UnknownChargeStops ==
  [][Len(budget'.attempts) > Sent =>
       \A n \in 1..Sent : budget.attempts[n].status # "uncertain"]_vars

\* Between requests a running process counts each response recorded in its run
\* exactly once, across the processes that died before it (_record_cost_receipt,
\* configure_cost_receipt_ledger).
CountedOnce == pc \in {"idle", "turn"} => exact = earned

\* The accounts never disagree so that a later process refuses to start
\* ("cost receipt ledger conflicts with persisted exact cost").
StartSucceeds == ledger # None => saved \in ledger.base..Total

\* No turn begins once the responses recorded in its run have reached the cap.
CapRespected == [][pc = "idle" /\ pc' = "turn" => earned < Cap]_vars
=============================================================================
