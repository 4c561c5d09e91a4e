-------------------------- MODULE Spending_proofs --------------------------
(***************************************************************************)
(* Proofs about Spending for every allowance and cap, every price, every   *)
(* set of reservations and charges, and any number of requests, processes  *)
(* and archives.                                                           *)
(***************************************************************************)
EXTENDS Spending, TLAPS

-----------------------------------------------------------------------------
(* The inductive invariant *)

\* The last attempt's charge is unknown.
Pending == Sent > 0 /\ budget.attempts[Sent].status = "uncertain"

\* Nothing of its reservation has been charged: it is under way, or refused.
Uncharged == Pending /\ (pc = "sent" \/ budget.attempts[Sent].proof)

\* At most the last attempt is uncertain, and it stops the session; while the
\* session is open, or nothing of the last reservation is charged, what is
\* used covers what was charged.
Reservations ==
  /\ \A n \in 1..Sent-1 : budget.attempts[n].status # "uncertain"
  /\ Pending => budget.stopped
  /\ pc = "sent" => Pending /\ ~budget.attempts[Sent].proof
  /\ ~budget.stopped => charged <= budget.used /\ budget.used <= Limit /\ overrun = 0
  /\ Uncharged => charged + Reserved <= budget.used /\ budget.used <= Limit /\ overrun = 0

\* The ledger's total is what was earned, and meta lies between its base and it.
Receipts ==
  /\ ledger = None => saved = earned /\ heard = {} /\ pc = "down"
  /\ ledger # None => earned = Total /\ ledger.ids = heard /\ saved \in ledger.base..Total
  /\ pc # "down" => exact = earned
  /\ pc = "got" => answer \in Ids

Inv == TypeOK /\ Reservations /\ WithinLimit /\ Receipts

-----------------------------------------------------------------------------
(* The list of attempts *)

\* Changing the last attempt leaves the others alone.
LEMMA LastChanged ==
  ASSUME NEW s \in Seq(Attempt), Len(s) > 0, NEW a \in Attempt
  PROVE  LET t == [s EXCEPT ![Len(s)] = a]
         IN  /\ t \in Seq(Attempt) /\ Len(t) = Len(s) /\ t[Len(s)] = a
             /\ \A n \in 1..Len(s)-1 : t[n] = s[n]
OBVIOUS

\* A request adds one attempt at the end.
LEMMA OneMore ==
  ASSUME NEW s \in Seq(Attempt), NEW a \in Attempt
  PROVE  LET t == Append(s, a)
         IN  /\ t \in Seq(Attempt) /\ Len(t) = Len(s) + 1 /\ t[Len(t)] = a
             /\ \A n \in 1..Len(s) : t[n] = s[n]
OBVIOUS

\* While an attempt is pending, it and the account are what they should be.
LEMMA LastAttempt ==
  ASSUME Inv, Pending
  PROVE  /\ budget.attempts \in Seq(Attempt) /\ Sent \in Nat /\ Sent > 0
         /\ budget.attempts[Sent] \in Attempt /\ budget.used \in Nat /\ Reserved \in Nat
<1>1. budget.attempts \in Seq(Attempt) /\ budget.used \in Nat
  BY DEF Inv, TypeOK
<1>2. Sent \in Nat /\ Sent > 0
  BY <1>1 DEF Pending, Sent
<1>3. budget.attempts[Sent] \in Attempt
  BY <1>1, <1>2 DEF Sent
<1> QED
  BY <1>1, <1>2, <1>3 DEF Reserved, Attempt

\* A step that changes neither the transport's file nor the provider's bill,
\* and neither begins nor ends a request, keeps the reservations in order.
LEMMA NoRequest ==
  ASSUME Inv, UNCHANGED <<budget, charged, overrun>>, pc # "sent", pc' # "sent"
  PROVE  Reservations' /\ WithinLimit'
BY DEF Inv, Reservations, WithinLimit, Pending, Uncharged, Sent, Reserved

\* A step of a request leaves the receipts alone.
LEMMA NoReceipt ==
  ASSUME Inv, UNCHANGED <<ledger, saved, heard, earned>>, ledger # None,
         pc' # "down" => exact' = exact /\ pc # "down",
         pc' = "got" => answer' \in Ids
  PROVE  Receipts'
BY DEF Inv, Receipts, Total

\* What Settle leaves behind: the last attempt is received and paid.
LEMMA Settled ==
  ASSUME Inv, pc = "sent", NEW cost \in Nat, NEW c \in Nat, c <= cost,
         Settle(cost), Bill(c), pc' # "sent"
  PROVE  /\ budget' \in [used : Nat, stopped : BOOLEAN, attempts : Seq(Attempt)]
         /\ charged' \in Nat /\ overrun' \in Nat
         /\ Reservations' /\ WithinLimit'
<1> DEFINE paid == [budget.attempts[Sent] EXCEPT !.status = "received"]
           used == budget.used + cost - Reserved
           marked == [budget.attempts EXCEPT ![Sent] = paid]
<1>1. /\ budget.attempts \in Seq(Attempt) /\ Sent \in Nat /\ Sent > 0
      /\ budget.attempts[Sent] \in Attempt /\ budget.used \in Nat /\ Reserved \in Nat
  BY LastAttempt DEF Inv, Reservations, Pending
<1>2. /\ charged + Reserved <= budget.used /\ budget.used <= Limit /\ overrun = 0
      /\ charged \in Nat
  BY DEF Inv, TypeOK, Reservations, Uncharged
<1>3. paid \in Attempt /\ paid.status = "received"
  BY <1>1 DEF Attempt
<1>4. budget' = [used |-> used, stopped |-> cost > Reserved, attempts |-> marked]
  BY <1>1 DEF Settle, Inv, TypeOK
<1>5. /\ marked \in Seq(Attempt) /\ Len(marked) = Sent /\ marked[Sent] = paid
      /\ \A n \in 1..Sent-1 : marked[n] = budget.attempts[n]
  BY <1>1, <1>3, LastChanged DEF Sent
<1>6. /\ used \in Nat /\ Limit \in Nat
      /\ charged' = charged + c
      /\ overrun' = IF c > Reserved THEN c - Reserved ELSE 0
  BY <1>1, <1>2, AmountsAssumption DEF Bill
<1>7. charged' \in Nat /\ overrun' \in Nat
  BY <1>1, <1>2, <1>6
<1> HIDE DEF marked, paid
<1>8. /\ budget'.used = used /\ budget'.stopped = (cost > Reserved) /\ budget'.attempts = marked
  BY <1>4
<1>9. charged' <= Limit + overrun'
  <2>1. CASE c > Reserved
    BY <2>1, <1>1, <1>2, <1>6
  <2>2. CASE c <= Reserved
    BY <2>2, <1>1, <1>2, <1>6
  <2> QED
    BY <2>1, <2>2, <1>1
<1>10. CASE cost <= Reserved
  <2>1. charged' <= budget'.used /\ budget'.used <= Limit /\ overrun' = 0
    BY <1>10, <1>1, <1>2, <1>6, <1>8
  <2> QED
    BY <1>3, <1>4, <1>5, <1>7, <1>8, <1>9, <2>1, <1>6
       DEF Inv, Reservations, WithinLimit, Uncharged, Pending, Sent
<1>11. CASE cost > Reserved
  <2>1. budget'.stopped
    BY <1>8, <1>11
  <2> QED
    BY <1>3, <1>4, <1>5, <1>7, <1>8, <1>9, <2>1, <1>6
       DEF Inv, Reservations, WithinLimit, Uncharged, Pending, Sent
<1> QED
  BY <1>10, <1>11, <1>1

-----------------------------------------------------------------------------

LEMMA InitInv == Init => Inv
BY AmountsAssumption
   DEF Init, Inv, TypeOK, Reservations, Receipts, WithinLimit, Pending, Uncharged, Sent, Reserved

LEMMA NextInv == Inv /\ [Next]_vars => Inv'
<1> SUFFICES ASSUME Inv, [Next]_vars PROVE Inv'
  OBVIOUS
<1> USE DEF accounts, history
<1>1. CASE Start
  <2>1. TypeOK'
    BY <1>1 DEF Start, Inv, TypeOK, Ledger, Total
  <2>2. Reservations' /\ WithinLimit'
    BY <1>1, NoRequest DEF Start
  <2>3. Receipts'
    <3>1. CASE ledger = None
      <4>1. /\ ledger' = [base |-> saved, ids |-> {}, sum |-> 0] /\ saved \in Nat
            /\ exact' = earned /\ saved = earned /\ heard' = {}
            /\ UNCHANGED <<saved, earned>> /\ pc' = "idle"
        BY <1>1, <3>1 DEF Start, Inv, TypeOK, Receipts
      <4> QED
        BY <4>1, NoneAssumption DEF Receipts, Total, Ledger
    <3>2. CASE ledger # None
      BY <1>1, <3>2 DEF Start, Inv, Receipts, Total
    <3> QED
      BY <3>1, <3>2
  <2> QED
    BY <2>1, <2>2, <2>3 DEF Inv
<1>2. CASE BeginTurn
  <2>1. TypeOK' /\ Receipts'
    BY <1>2 DEF BeginTurn, Inv, TypeOK, Receipts, Total
  <2>2. Reservations' /\ WithinLimit'
    BY <1>2, NoRequest DEF BeginTurn
  <2> QED
    BY <2>1, <2>2 DEF Inv
<1>3. CASE Commit
  <2>1. TypeOK'
    BY <1>3 DEF Commit, Inv, TypeOK
  <2>2. Receipts'
    BY <1>3, NoneAssumption DEF Commit, Inv, TypeOK, Receipts, Total, Ledger
  <2>3. Reservations' /\ WithinLimit'
    BY <1>3, NoRequest DEF Commit
  <2> QED
    BY <2>1, <2>2, <2>3 DEF Inv
<1>4. CASE Stop
  <2>1. TypeOK' /\ Receipts'
    BY <1>4 DEF Stop, Inv, TypeOK, Receipts, Total
  <2>2. Reservations' /\ WithinLimit'
    BY <1>4, NoRequest DEF Stop
  <2> QED
    BY <2>1, <2>2 DEF Inv
<1>5. CASE Archive
  <2>1. TypeOK' /\ Receipts'
    BY <1>5 DEF Archive, Inv, TypeOK, Receipts
  <2>2. Reservations' /\ WithinLimit'
    BY <1>5, NoRequest DEF Archive
  <2> QED
    BY <2>1, <2>2 DEF Inv
<1>6. ASSUME NEW r \in Reserves, Dispatch(r) PROVE Inv'
  <2> DEFINE new == [reserve |-> r, status |-> "uncertain", proof |-> FALSE]
  <2>1. /\ r \in Nat /\ new \in Attempt
        /\ budget.attempts \in Seq(Attempt) /\ budget.used \in Nat /\ Sent \in Nat
    BY <1>6, AmountsAssumption DEF Attempt, Inv, TypeOK, Sent
  <2>2. /\ budget'.used = budget.used + r /\ budget'.stopped = TRUE
        /\ budget'.attempts = Append(budget.attempts, new)
    BY <1>6 DEF Dispatch
  <2>3. /\ budget'.attempts \in Seq(Attempt) /\ Sent' = Sent + 1
        /\ budget'.attempts[Sent'] = new
        /\ \A n \in 1..Sent : budget'.attempts[n] = budget.attempts[n]
    BY <2>1, <2>2, OneMore DEF Sent
  <2>4. Reserved' = r /\ Pending' /\ ~budget'.attempts[Sent'].proof
    BY <2>1, <2>3 DEF Reserved, Pending
  <2>5. \A n \in 1..Sent : budget.attempts[n].status # "uncertain"
    BY <1>6, <2>1 DEF Dispatch, Inv, Reservations, Pending
  <2>6. charged <= budget.used /\ budget.used + r <= Limit /\ overrun = 0 /\ charged \in Nat
    BY <1>6 DEF Dispatch, Inv, Reservations, TypeOK
  <2>7. TypeOK'
    BY <1>6, <2>1, <2>2, <2>3 DEF Dispatch, Inv, TypeOK
  <2>8. Reservations'
    <3>1. \A n \in 1..Sent'-1 : budget'.attempts[n].status # "uncertain"
      BY <2>1, <2>3, <2>5
    <3>2. charged' + Reserved' <= budget'.used /\ budget'.used <= Limit /\ overrun' = 0
      BY <1>6, <2>1, <2>2, <2>4, <2>6 DEF Dispatch
    <3> QED
      BY <2>2, <2>4, <3>1, <3>2 DEF Reservations
  <2>9. WithinLimit'
    BY <1>6, <2>1, <2>2, <2>6, AmountsAssumption DEF Dispatch, WithinLimit
  <2>10. Receipts'
    BY <1>6, NoReceipt DEF Dispatch, Inv, Receipts
  <2> QED
    BY <2>7, <2>8, <2>9, <2>10 DEF Inv
<1>7. ASSUME NEW c \in Charges, Lose(c) PROVE Inv'
  <2>1. /\ c \in Nat /\ charged \in Nat /\ overrun = 0 /\ budget.used \in Nat
        /\ charged + Reserved <= budget.used /\ budget.used <= Limit /\ Reserved \in Nat
        /\ budget.stopped /\ ~budget.attempts[Sent].proof
    <3>1. Pending /\ c \in Nat
      BY <1>7, AmountsAssumption DEF Lose, Inv, Reservations
    <3> QED
      BY <1>7, <3>1, LastAttempt DEF Lose, Inv, TypeOK, Reservations, Uncharged
  <2>2. charged' = charged + c /\ overrun' = (IF c > Reserved THEN c - Reserved ELSE 0)
    BY <1>7, <2>1 DEF Lose, Bill
  <2>3. TypeOK'
    BY <1>7, <2>1, <2>2 DEF Lose, Bill, Inv, TypeOK
  <2>4. WithinLimit'
    BY <1>7, <2>1, <2>2, AmountsAssumption DEF Lose, WithinLimit
  <2>5. Reservations'
    BY <1>7, <2>1 DEF Lose, Inv, Reservations, Pending, Uncharged, Sent, Reserved
  <2>6. Receipts'
    BY <1>7, NoReceipt DEF Lose, Bill, Inv, Receipts
  <2> QED
    BY <2>3, <2>4, <2>5, <2>6 DEF Inv
<1>8. ASSUME NEW c \in Charges, AnsweredError(c) PROVE Inv'
  <2>1. c \in Nat /\ c <= c
    BY AmountsAssumption
  <2>2. pc' # "sent" /\ pc = "sent" /\ Settle(c) /\ Bill(c)
    BY <1>8 DEF AnsweredError
  <2>3. /\ budget' \in [used : Nat, stopped : BOOLEAN, attempts : Seq(Attempt)]
        /\ charged' \in Nat /\ overrun' \in Nat
        /\ Reservations' /\ WithinLimit'
    BY <2>1, <2>2, Settled
  <2>4. TypeOK'
    BY <1>8, <2>3 DEF AnsweredError, Bill, Inv, TypeOK
  <2>5. Receipts'
    BY <1>8, NoReceipt DEF AnsweredError, Bill, Inv, Receipts
  <2> QED
    BY <2>3, <2>4, <2>5 DEF Inv
<1>9. ASSUME NEW id \in Ids, Answered(id) PROVE Inv'
  <2> DEFINE c == IF id \in heard THEN 0 ELSE Price[id]
  <2>1. Price[id] \in Nat /\ c \in Nat /\ c <= Price[id]
    BY AmountsAssumption
  <2>2. pc' # "sent" /\ pc = "sent" /\ Settle(Price[id]) /\ Bill(c)
    BY <1>9 DEF Answered
  <2> HIDE DEF c
  <2>3. /\ budget' \in [used : Nat, stopped : BOOLEAN, attempts : Seq(Attempt)]
        /\ charged' \in Nat /\ overrun' \in Nat
        /\ Reservations' /\ WithinLimit'
    BY <2>1, <2>2, Settled
  <2>4. TypeOK'
    BY <1>9, <2>3 DEF Answered, Bill, Inv, TypeOK
  <2>5. Receipts'
    BY <1>9, NoReceipt DEF Answered, Bill, Inv, Receipts
  <2> QED
    BY <2>3, <2>4, <2>5 DEF Inv
<1>10. CASE Record
  <2>1. /\ ledger # None /\ ledger \in Ledger /\ answer \in Ids /\ Price[answer] \in Nat
        /\ ledger.ids = heard /\ earned = ledger.base + ledger.sum
        /\ saved \in ledger.base..ledger.base+ledger.sum
    BY <1>10, AmountsAssumption DEF Record, Inv, TypeOK, Receipts, Total
  <2>2. /\ ledger.base \in Nat /\ ledger.sum \in Nat /\ ledger.ids \subseteq Ids /\ saved \in Nat
    BY <2>1 DEF Ledger, Inv, TypeOK
  <2>3. /\ ledger' \in Ledger /\ ledger'.ids = heard' /\ ledger'.base = ledger.base
        /\ ledger'.sum \in Nat /\ ledger'.sum >= ledger.sum
        /\ earned' = ledger'.base + ledger'.sum
    <3>1. CASE answer \in ledger.ids
      <4>1. ledger' = ledger /\ heard' = heard /\ earned' = earned
        BY <1>10, <3>1, <2>1 DEF Record
      <4> QED
        BY <4>1, <2>1, <2>2
    <3>2. CASE answer \notin ledger.ids
      <4>1. /\ ledger' = [base |-> ledger.base, ids |-> ledger.ids \cup {answer},
                          sum |-> ledger.sum + Price[answer]]
            /\ heard' = heard \cup {answer} /\ earned' = earned + Price[answer]
        BY <1>10, <3>2, <2>1 DEF Record, Ledger
      <4> QED
        BY <4>1, <2>1, <2>2 DEF Ledger
    <3> QED
      BY <3>1, <3>2
  <2>4. TypeOK' /\ Receipts'
    <3>1. /\ exact' = earned' /\ saved' = saved /\ pc' = "turn" /\ earned' \in Nat
          /\ ledger' # None /\ heard' \subseteq Ids
      <4>1. exact' = ledger'.base + ledger'.sum /\ saved' = saved /\ pc' = "turn"
        BY <1>10 DEF Record
      <4>2. heard' \subseteq Ids
        BY <1>10, <2>1, <2>2 DEF Record
      <4> QED
        BY <4>1, <4>2, <2>2, <2>3, NoneAssumption
    <3>2. saved' \in ledger'.base .. ledger'.base + ledger'.sum
      BY <2>1, <2>2, <2>3, <3>1
    <3>3. TypeOK'
      BY <1>10, <2>3, <3>1 DEF Record, Inv, TypeOK
    <3> QED
      BY <2>3, <3>1, <3>2, <3>3 DEF Receipts, Total
  <2>5. Reservations' /\ WithinLimit'
    BY <1>10, NoRequest DEF Record
  <2> QED
    BY <2>4, <2>5 DEF Inv
<1>11. CASE Rejected
  <2> DEFINE proven == [budget.attempts[Sent] EXCEPT !.proof = TRUE]
  <2>1. /\ budget.attempts \in Seq(Attempt) /\ Sent \in Nat /\ Sent > 0
        /\ budget.attempts[Sent] \in Attempt /\ Pending /\ budget.stopped
    BY <1>11 DEF Rejected, Inv, TypeOK, Reservations, Pending, Sent
  <2>2. /\ proven \in Attempt /\ proven.status = "uncertain" /\ proven.reserve = Reserved
    BY <2>1 DEF Attempt, Pending, Reserved
  <2>3. /\ budget'.used = budget.used /\ budget'.stopped = budget.stopped
        /\ budget'.attempts = [budget.attempts EXCEPT ![Sent] = proven]
        /\ budget' = [used |-> budget'.used, stopped |-> budget'.stopped, attempts |-> budget'.attempts]
    BY <1>11, <2>1 DEF Rejected, Inv, TypeOK
  <2>4. /\ budget'.attempts \in Seq(Attempt) /\ Sent' = Sent
        /\ budget'.attempts[Sent] = proven
        /\ \A n \in 1..Sent-1 : budget'.attempts[n] = budget.attempts[n]
    BY <2>1, <2>2, <2>3, LastChanged DEF Sent
  <2>5. Reserved' = Reserved
    BY <2>2, <2>4 DEF Reserved
  <2>6. TypeOK'
    BY <1>11, <2>3, <2>4 DEF Rejected, Inv, TypeOK
  <2>7. Reservations' /\ WithinLimit'
    BY <1>11, <2>1, <2>2, <2>3, <2>4, <2>5
       DEF Rejected, Inv, Reservations, WithinLimit, Uncharged, Pending
  <2>8. Receipts'
    BY <1>11, NoReceipt DEF Rejected, Inv, Receipts
  <2> QED
    BY <2>6, <2>7, <2>8 DEF Inv
<1>12. CASE Reconcile
  <2> DEFINE released == [budget.attempts[Sent] EXCEPT !.status = "reconciled"]
  <2>1. /\ budget.attempts \in Seq(Attempt) /\ Sent \in Nat /\ Sent > 0
        /\ budget.attempts[Sent] \in Attempt /\ budget.used \in Nat /\ Reserved \in Nat
        /\ charged + Reserved <= budget.used /\ budget.used <= Limit /\ overrun = 0
        /\ charged \in Nat
    <3>1. Pending
      BY <1>12 DEF Reconcile, Pending
    <3> QED
      BY <1>12, <3>1, LastAttempt DEF Reconcile, Inv, TypeOK, Reservations, Uncharged
  <2>2. released \in Attempt /\ released.status = "reconciled"
    BY <2>1 DEF Attempt
  <2>3. /\ budget'.used = budget.used - Reserved /\ budget'.stopped = FALSE
        /\ budget'.attempts = [budget.attempts EXCEPT ![Sent] = released]
        /\ budget' = [used |-> budget'.used, stopped |-> budget'.stopped, attempts |-> budget'.attempts]
    BY <1>12, <2>1 DEF Reconcile, Inv, TypeOK
  <2>4. /\ budget'.attempts \in Seq(Attempt) /\ Sent' = Sent
        /\ budget'.attempts[Sent] = released
        /\ \A n \in 1..Sent-1 : budget'.attempts[n] = budget.attempts[n]
    BY <2>1, <2>2, <2>3, LastChanged DEF Sent
  <2>5. budget'.used \in Nat /\ charged <= budget'.used /\ budget'.used <= Limit
    BY <2>1, <2>3, AmountsAssumption
  <2>6. TypeOK'
    BY <1>12, <2>3, <2>4, <2>5 DEF Reconcile, Inv, TypeOK
  <2>7. Reservations'
    BY <1>12, <2>1, <2>2, <2>3, <2>4, <2>5 DEF Reconcile, Reservations, Uncharged, Pending
  <2>8. WithinLimit'
    BY <1>12, <2>1, <2>5 DEF Reconcile, Inv, WithinLimit
  <2>9. Receipts'
    BY <1>12 DEF Reconcile, Inv, Receipts, Total
  <2> QED
    BY <2>6, <2>7, <2>8, <2>9 DEF Inv
<1>13. CASE UNCHANGED vars
  BY <1>13 DEF vars, Inv, TypeOK, Reservations, WithinLimit, Receipts, Pending, Uncharged, Sent, Reserved, Total
<1> QED
  BY <1>1, <1>2, <1>3, <1>4, <1>5, <1>6, <1>7, <1>8, <1>9, <1>10, <1>11, <1>12, <1>13 DEF Next

LEMMA Invariance == Spec => []Inv
BY InitInv, NextInv, PTL DEF Spec

-----------------------------------------------------------------------------

\* All accounts keep their types, and none becomes negative.
THEOREM TypeCorrect == Spec => []TypeOK
<1>1. Inv => TypeOK
  BY DEF Inv
<1> QED
  BY <1>1, Invariance, PTL

\* The provider's charges stay within the session's allowance, up to what one
\* last request costs beyond its reservation (ReservedTransport.__call__).
THEOREM AllowanceKept == Spec => []WithinLimit
<1>1. Inv => WithinLimit
  BY DEF Inv
<1> QED
  BY <1>1, Invariance, PTL

\* A running process counts each recorded response exactly once
\* (_record_cost_receipt, configure_cost_receipt_ledger).
THEOREM ReceiptsCountedOnce == Spec => []CountedOnce
<1>1. Inv => CountedOnce
  BY DEF Inv, Receipts, CountedOnce
<1> QED
  BY <1>1, Invariance, PTL

\* No crash leaves accounts that a later process refuses to start from
\* (configure_cost_receipt_ledger).
THEOREM AccountsReconcile == Spec => []StartSucceeds
<1>1. Inv => StartSucceeds
  BY DEF Inv, Receipts, StartSucceeds
<1> QED
  BY <1>1, Invariance, PTL

\* Nothing is dispatched while an earlier charge is unknown (__call__,
\* reconcile_context_rejection).
THEOREM UncertaintyStops == Spec => UnknownChargeStops
<1>1. Inv /\ [Next]_vars =>
        (Len(budget'.attempts) > Sent => \A n \in 1..Sent : budget.attempts[n].status # "uncertain")
  <2> SUFFICES ASSUME Inv, [Next]_vars, Len(budget'.attempts) > Sent
               PROVE  \A n \in 1..Sent : budget.attempts[n].status # "uncertain"
    OBVIOUS
  <2>1. Sent \in Nat /\ budget.attempts \in Seq(Attempt)
    BY DEF Inv, TypeOK, Sent
  <2>2. ASSUME NEW r \in Reserves, Dispatch(r)
        PROVE  \A n \in 1..Sent : budget.attempts[n].status # "uncertain"
    BY <2>1, <2>2 DEF Dispatch, Inv, Reservations, Pending
  <2>3. CASE Len(budget'.attempts) = Sent
    BY <2>1, <2>3
  <2>4. \/ \E r \in Reserves : Dispatch(r)
        \/ Len(budget'.attempts) = Sent
    <3>1. CASE budget' = budget
      BY <3>1 DEF Sent
    <3>2. ASSUME NEW cost, pc = "sent", Settle(cost) PROVE Len(budget'.attempts) = Sent
      BY <2>1, <3>2 DEF Settle, Sent, Inv, TypeOK
    <3>3. ASSUME Rejected \/ Reconcile PROVE Len(budget'.attempts) = Sent
      <4>1. \E a : budget'.attempts = [budget.attempts EXCEPT ![Sent] = a]
        <5>1. CASE Rejected
          <6>1. budget'.attempts = [budget.attempts EXCEPT ![Sent] = [@ EXCEPT !.proof = TRUE]]
            BY <5>1 DEF Rejected, Inv, TypeOK
          <6> QED
            BY <6>1
        <5>2. CASE Reconcile
          <6>1. budget'.attempts = [budget.attempts EXCEPT ![Sent] = [@ EXCEPT !.status = "reconciled"]]
            BY <5>2 DEF Reconcile, Inv, TypeOK
          <6> QED
            BY <6>1
        <5> QED
          BY <3>3, <5>1, <5>2
      <4>2. budget'.attempts \in Seq(Attempt)
        BY <3>3, NextInv DEF Inv, TypeOK
      <4> QED
        BY <2>1, <4>1, <4>2 DEF Sent
    <3>4. ASSUME NEW c \in Charges, AnsweredError(c) PROVE Len(budget'.attempts) = Sent
      <4>1. pc = "sent" /\ Settle(c)
        BY <3>4 DEF AnsweredError
      <4> QED
        BY <3>2, <4>1
    <3>6. ASSUME NEW id \in Ids, Answered(id) PROVE Len(budget'.attempts) = Sent
      <4>1. pc = "sent" /\ Settle(Price[id])
        BY <3>6 DEF Answered
      <4> QED
        BY <3>2, <4>1
    <3>5. \/ budget' = budget
          \/ \E r \in Reserves : Dispatch(r)
          \/ \E c \in Charges : AnsweredError(c)
          \/ \E id \in Ids : Answered(id)
          \/ Rejected \/ Reconcile
      BY DEF Next, vars, accounts, history, Start, BeginTurn, Commit, Stop, Archive, Lose, Record
    <3> QED
      BY <3>1, <3>3, <3>4, <3>5, <3>6
  <2> QED
    BY <2>2, <2>3, <2>4
<1> QED
  BY <1>1, Invariance, PTL DEF Spec, UnknownChargeStops

\* No turn begins once its run has cost the cap (_run_turns).
THEOREM CapHolds == Spec => CapRespected
<1>1. Inv /\ [Next]_vars => (pc = "idle" /\ pc' = "turn" => earned < Cap)
  BY DEF Inv, Receipts, Next, vars, Start, BeginTurn, Commit, Stop, Archive, Dispatch, Lose,
         AnsweredError, Answered, Record, Rejected, Reconcile
<1> QED
  BY <1>1, Invariance, PTL DEF Spec, CapRespected
=============================================================================
