------------------------------ MODULE Replies ------------------------------
(***************************************************************************)
(* Who gets a reply in a run that goes on for ever.  Each turn resolves    *)
(* one request (process_one_research), delivers at most one reply,         *)
(* research before answers before suggestions (take_turn in                *)
(* legislature.py), and may raise new requests; visitors and the reviewer  *)
(* go on too.  So the competition for a turn need never end.               *)
(*                                                                         *)
(* Collaboration has finitely many requests and suggestions.  Here a row   *)
(* that is settled is forgotten, for no turn looks at it again, and its id *)
(* names a new one later: so a few ids make an endless stream, and the     *)
(* bound is on how many are open at a time.  Of the lane from a visitor to *)
(* the spool only the import is left (Collaboration has what may happen on *)
(* the way); there are no crashes and no archives.                         *)
(***************************************************************************)
EXTENDS Collaboration

Agents == {"A", "B"}

\* c without the rows that nothing looks at again and the records of what was
\* processed and delivered.
Open(rows) == SelectSeq(rows, LAMBDA row : row.status \notin {"delivered", "dismissed", "escalated_to_iso"})
Forgotten(c) ==
  [c EXCEPT !.suggestions = Open(@), !.asks = Open(@), !.research = Open(@),
            !.processed = {}, !.deliveries = <<>>]

\* A record of the spool is imported.  (It is the first thing a turn does, and
\* nothing else looks at the state before.)
Imports(r) ==
  /\ state' = Forgotten(ImportOne(state, r))
  /\ outbox' = state'
  /\ UNCHANGED <<redis, spool, recovery, generation, actor, courier, click, crashes, expiries>>

Suggested(s) ==
  s \notin Ids(state.suggestions) /\ Imports([id |-> s, target |-> None, verdict |-> None])

Decided(k, t, v) ==
  /\ "pending_review" = StatusIn(state.suggestions, t) \/ "awaiting_iso" = StatusIn(state.asks, t)
  /\ Imports([id |-> k, target |-> t, verdict |-> v])

\* A valid turn of the agent, for whom there was no reply of these kinds.
HeardWithout(agent, kinds) ==
  /\ \E c \in Researched(state) :
       /\ \A kind \in kinds : Eligible(c[kind], "answered", agent) = {}
       /\ \E d \in Heard(c, agent) : state' = Forgotten(d)
  /\ Spoken(agent)

HeardTurn(agent) == HeardWithout(agent, {})

\* An exam, or a turn in which the agent was not understood.
UnheardTurn ==
  /\ \E c \in Researched(state) : state' = Forgotten(c)
  /\ outbox' = state'
  /\ UNCHANGED <<redis, spool, recovery, generation, actor, courier, click, crashes, expiries>>

Endless ==
  \/ \E s \in Suggestions : Suggested(s)
  \/ \E k \in Clicks, t \in Targets : \E v \in Verdicts(t) : Decided(k, t, v)
  \/ \E agent \in Agents : HeardTurn(agent)
  \/ UnheardTurn

\* run_turn.sh, on its timer, runs turn after turn, and now and then either
\* agent gets a valid one.
EndlessSpec ==
  Init /\ [][Endless]_vars /\ \A agent \in Agents : WF_vars(HeardTurn(agent))

-----------------------------------------------------------------------------
(* Properties *)

\* A lookup is answered or put to the human, and what was found is delivered,
\* however many others are raised meanwhile: the oldest is always taken first
\* (process_one_research, deliver_one).
ResearchArrives ==
  \A r \in Lookups : r \in Ids(state.research) ~> r \notin Ids(state.research)

\* "An answered ASK MUST deliver the original question and verbatim answer
\* together on the next eligible turn" (spec.md, FR-021), or at least on some
\* later one (take_turn).  By itself this does not hold: agents that raise
\* lookups again and again get what was found first, for ever.
AnswerArrives ==
  \A q \in AskIds : StatusIn(state.asks, q) = "answered" ~> q \notin Ids(state.asks)

\* An approved suggestion is delivered (take_turn); by itself this does not
\* hold either.
SuggestionArrives ==
  \A s \in Suggestions : StatusIn(state.suggestions, s) = "approved" ~> s \notin Ids(state.suggestions)

\* A reply may wait for ever, but only behind replies of an earlier kind
\* (take_turn's order of kinds, deliver_one's order within a kind).  If either
\* agent again and again has a turn with no research to deliver, every answer is
\* delivered, whatever questions and suggestions come; if again and again some
\* agent has a turn with no reply of its own, every approved suggestion is, for
\* either agent may have it.
OnlyEarlierKindsDelay ==
  /\ (\A agent \in Agents : []<><<HeardWithout(agent, {"research"})>>_vars) => AnswerArrives
  /\ []<><<\E agent \in Agents : HeardWithout(agent, {"research", "asks"})>>_vars => SuggestionArrives
=============================================================================
