---------------------------- MODULE AtomicTurns ----------------------------
(***************************************************************************)
(* What the turn store promises its callers: a turn is one indivisible     *)
(* step that advances the whole experiment and acknowledges exactly the    *)
(* operator notice it delivered; archiving is one indivisible step that    *)
(* retires a whole run and starts an empty one.  There are no files, no    *)
(* redo records and no crashes here.  TurnStore implements this module.    *)
(***************************************************************************)
EXTENDS Naturals

CONSTANTS
  Texts,     \* contents an operator may leave in the notice mailbox
  Inputs,    \* ids of human inputs the courier may bring
  NoText     \* an empty notice mailbox

VARIABLES
  run,       \* the current run (the generation named by the last archive)
  turn,      \* the last completed turn of the current run
  seen,      \* inputs that can never be imported again
  notice,    \* the notice waiting for delivery
  posts,     \* how often the operator has posted each text
  told,      \* notices delivered: [run, turn, text]
  retired    \* archived runs: [run, turn], the turn each one ended at

avars == <<run, turn, seen, notice, posts, told, retired>>

Init ==
  /\ run = 0 /\ turn = 0
  /\ seen = {} /\ told = {} /\ retired = {}
  /\ notice = NoText /\ posts = [t \in Texts |-> 0]

\* The operator writes (or overwrites) the notice mailbox.
Post(t) ==
  /\ notice' = t
  /\ posts' = [posts EXCEPT ![t] = @ + 1]
  /\ UNCHANGED <<run, turn, seen, told, retired>>

\* The mailbox holds text, not messages: the very text the last turn delivered,
\* posted once more, may be taken for the delivered one, at once or later.
ToldLast(t) == [run |-> run, turn |-> turn, text |-> t] \in told
PostAgain(t) ==
  /\ ToldLast(t)
  /\ notice' = NoText
  /\ posts' = [posts EXCEPT ![t] = @ + 1]
  /\ UNCHANGED <<run, turn, seen, told, retired>>
Absorb ==
  /\ notice # NoText /\ ToldLast(notice)
  /\ notice' = NoText
  /\ UNCHANGED <<run, turn, seen, posts, told, retired>>

\* Inputs become part of the experiment, each for the first time.
Import(ids) ==
  /\ ids # {} /\ ids \cap seen = {}
  /\ seen' = seen \cup ids
  /\ UNCHANGED <<run, turn, notice, posts, told, retired>>

\* A turn without a notice.
QuietTurn ==
  /\ turn' = turn + 1
  /\ UNCHANGED <<run, seen, notice, posts, told, retired>>

\* A turn that delivers a notice.  If the operator has meanwhile replaced it
\* by different text, the replacement keeps waiting.
NoticeTurn(t) ==
  /\ turn' = turn + 1
  /\ told' = told \cup {[run |-> run, turn |-> turn + 1, text |-> t]}
  /\ notice' = IF notice = t THEN NoText ELSE notice
  /\ UNCHANGED <<run, seen, posts, retired>>

\* A run is retired with everything it saw or was about to see.
Archive(ids) ==
  /\ retired' = retired \cup {[run |-> run, turn |-> turn]}
  /\ run' = run + 1 /\ turn' = 0
  /\ seen' = seen \cup ids
  /\ UNCHANGED <<notice, posts, told>>

Next ==
  \/ \E t \in Texts : Post(t) \/ PostAgain(t) \/ NoticeTurn(t)
  \/ \E ids \in SUBSET Inputs : Import(ids) \/ Archive(ids)
  \/ Absorb \/ QuietTurn

Spec == Init /\ [][Next]_avars
=============================================================================
