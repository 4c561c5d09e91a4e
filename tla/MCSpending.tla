----------------------------- MODULE MCSpending -----------------------------
EXTENDS Spending

\* One response that fits the smaller reservation, one that exceeds it.
MCPrice == [id \in Ids |-> IF id = "cheap" THEN 1 ELSE 2]
=============================================================================
