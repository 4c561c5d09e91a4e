---------------------------- MODULE PublicRecord ----------------------------
(***************************************************************************)
(* What the public repository promises those who read it: a history of     *)
(* commits that only grows, each one a whole: every page of it shows the   *)
(* turn of its conversation, in one edition, and its exam trace is of an   *)
(* exam that is in its archive.  Nothing in it ever goes back, and no turn *)
(* is skipped.                                                             *)
(* Publisher implements this module; PublicReader reads such a record.     *)
(***************************************************************************)
EXTENDS Naturals, Sequences

CONSTANTS
  None,       \* no trace
  MaxTurn,    \* bound: turns of the experiment
  MaxNotes,   \* bound: revisions of notes.json, which the pages quote
  TestEvery   \* every TestEvery-th turn is an exam

ASSUME RecordAssumption ==
  MaxTurn \in Nat /\ MaxNotes \in Nat /\ TestEvery \in Nat \ {0} /\ None \notin Nat

VARIABLE log  \* the commits of main, oldest first

\* The generated files other than the trace; "current" stands for
\* public-collaboration.json, public-runtime.json and public-language.json.
Pages == {"current", "preview", "bootstrap", "full"}

\* What a page shows: the experiment after a turn, and the human notes.
Edition == [turn : 0..MaxTurn, notes : 0..MaxNotes]

Exams == {t \in 1..MaxTurn : t % TestEvery = 0}

Commit == [turn  : 0..MaxTurn,              \* the last turn of conversation.json
           notes : 0..MaxNotes,             \* notes.json
           pages : [Pages -> Edition],
           trace : Exams \cup {None}]       \* the exam public-exam-progress.json traces

\* A commit in which all pages show edition n of turn t, and the trace exam x.
WholeCommit(t, n, m, x) ==
  [turn |-> t, notes |-> m, pages |-> [p \in Pages |-> [turn |-> t, notes |-> n]], trace |-> x]

Whole(c) ==
  /\ c = WholeCommit(c.turn, c.pages["full"].notes, c.notes, c.trace)
  /\ c.pages["full"].notes <= c.notes
  /\ c.trace # None => c.trace <= c.turn

\* c may come after b.
Follows(b, c) ==
  /\ c.turn \in {b.turn, b.turn + 1} /\ b.notes <= c.notes
  /\ b.pages["full"].notes <= c.pages["full"].notes
  /\ b.trace # None => c.trace # None /\ b.trace <= c.trace

Init == log = << WholeCommit(0, 0, 0, None) >>

\* A push brings one commit or several; nothing is ever rewritten.
Push ==
  /\ Len(log) < Len(log')
  /\ SubSeq(log', 1, Len(log)) = log
  /\ \A i \in (Len(log) + 1)..Len(log') :
       log'[i] \in Commit /\ Whole(log'[i]) /\ Follows(log'[i - 1], log'[i])

Spec == Init /\ [][Push]_log
=============================================================================
