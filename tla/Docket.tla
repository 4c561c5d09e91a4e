------------------------------- MODULE Docket -------------------------------
(***************************************************************************)
(* What the legislative protocol promises, whatever it stores: the two     *)
(* agents alternate, one motion at a time is on the floor, and the only    *)
(* request an agent is ever shown is the auditor's latest one about the    *)
(* motion now on the floor.  Legislature implements this module.           *)
(***************************************************************************)
EXTENDS Naturals

CONSTANTS
  Rules,     \* rule ids
  Nothing    \* no motion on the floor

VARIABLES
  speaker,   \* the agent whose turn is next, "A" or "B"
  floor,     \* the open motion [kind, target], or Nothing
  focus,     \* the turn of the request in force for it, 0 if none
  turn

dvars == <<speaker, floor, focus, turn>>

Motions == [kind : {"add", "repeal"}, target : Rules]
Other(agent) == IF agent = "A" THEN "B" ELSE "A"

Init == speaker = "A" /\ floor = Nothing /\ focus = 0 /\ turn = 0

\* The inventor puts a motion on an empty floor.
Table(m) ==
  /\ speaker = "A" /\ floor = Nothing
  /\ floor' = m /\ focus' = 0
  /\ speaker' = "B" /\ turn' = turn + 1

\* The auditor asks for work on it; the request replaces an earlier one.
Request ==
  /\ speaker = "B" /\ floor # Nothing
  /\ focus' = turn + 1
  /\ speaker' = "A" /\ turn' = turn + 1
  /\ UNCHANGED floor

\* The auditor adopts or rejects it.
Settle ==
  /\ speaker = "B" /\ floor # Nothing
  /\ floor' = Nothing /\ focus' = 0
  /\ speaker' = "A" /\ turn' = turn + 1

\* A revision, a refused motion or none: what is on the floor stays, with its
\* request.  Only on an empty floor may the auditor pass.
Pass ==
  /\ speaker = "B" => floor = Nothing
  /\ speaker' = Other(speaker) /\ turn' = turn + 1
  /\ UNCHANGED <<floor, focus>>

\* An exam, or an agent that could not be understood.
Idle == turn' = turn + 1 /\ UNCHANGED <<speaker, floor, focus>>

Next == (\E m \in Motions : Table(m)) \/ Request \/ Settle \/ Pass \/ Idle

Spec == Init /\ [][Next]_dvars
=============================================================================
