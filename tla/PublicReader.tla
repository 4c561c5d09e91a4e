---------------------------- MODULE PublicReader ----------------------------
(***************************************************************************)
(* The page's reader (viewer/public-state.js, driven by viewer/index.html):*)
(* a refresh every minute and a progress request every 2.5 seconds, each a *)
(* chain of requests that overlap, fail, or are answered late, while main  *)
(* grows as PublicRecord promises.                                         *)
(*                                                                         *)
(* A snapshot is abstracted to the commit it comes from.  A read of a      *)
(* pinned revision gets that commit; a read of raw main or of the deployed *)
(* site gets some commit of main, for both are cached copies.  Malformed   *)
(* answers are failures.  The local mode of development is left out.       *)
(***************************************************************************)
EXTENDS PublicRecord

CONSTANTS
  Slots,        \* refreshes that may run at the same time
  MaxCommits,   \* bound: commits of main
  HeadLag       \* commits by which the revision API may be behind main

Sources == {"canonical", "unpinned", "deployed"}
View == [at : Nat, source : Sources, complete : BOOLEAN]
Poll == [at : Nat, live : BOOLEAN]

ASSUME ReaderAssumption ==
  /\ MaxCommits \in Nat \ {0} /\ HeadLag \in Nat
  /\ None \notin Slots \cup View \cup Poll

VARIABLES
  view,      \* current: [at, source, complete] (the commit shown), or None
  pinned,    \* revision: the commit the view is pinned to, or None
  refresh,   \* Slots -> [stage, head, seen]
  newest,    \* the slot whose token is `sequence`, while it runs; or None
  poll,      \* the latest progress request, if in flight: [at, live]; or None
  trace      \* the progress shown: [status, at]

shown == <<view, pinned>>
vars == <<log, shown, refresh, newest, poll, trace>>

Stages == {"idle", "head", "history", "preview", "full", "raw preview", "raw full",
           "deployed preview", "deployed full"}
Idle == [stage |-> "idle", head |-> 0, seen |-> 0]

TurnOf(k) == log[k].turn
Signal(k) == log[k].pages["full"]

Complete == view # None /\ view.complete
\* Mutant: any complete view is taken for the head's.
CompleteAnywhere(h) == Complete
\* completeRevision
CompleteAt(h) == Complete /\ pinned = h

ReaderInit ==
  /\ Init
  /\ view = None /\ pinned = None
  /\ refresh = [s \in Slots |-> Idle] /\ newest = None
  /\ poll = None /\ trace = [status |-> "none", at |-> 0]

-----------------------------------------------------------------------------
(* publish and refreshProgress *)

\* Mutant: an overtaken refresh may still publish.
AcceptsOvertaken(s, k) ==
  ~(view # None /\ view.source = "unpinned" /\ TurnOf(k) < TurnOf(view.at))

\* publish(): only the newest refresh, and an unpinned view only for a turn
\* that is not older.
Accepts(s, k) ==
  /\ newest = s
  /\ ~(view # None /\ view.source = "unpinned" /\ TurnOf(k) < TurnOf(view.at))

\* An accepted snapshot.
Show(s, k, source, complete) ==
  /\ view' = [at |-> k, source |-> source, complete |-> complete]
  /\ pinned' = IF source = "canonical" THEN k ELSE None

\* The revision is another object from now on: the progress request in flight,
\* if any, is orphaned.
Orphaned == IF poll = None THEN poll ELSE [poll EXCEPT !.live = FALSE]

\* refreshProgress() for revision r; an earlier request's answer is ignored.
RefreshProgress(r) ==
  IF r = None THEN poll' = None /\ trace' = [status |-> "unavailable", at |-> 0]
  ELSE poll' = [at |-> r, live |-> TRUE] /\ UNCHANGED trace

GoTo(s, stage) == refresh' = [refresh EXCEPT ![s].stage = stage]
\* Mutant: a refresh that has ended keeps its token.
EndQuietly(s) == refresh' = [refresh EXCEPT ![s] = Idle] /\ UNCHANGED newest
End(s) == /\ refresh' = [refresh EXCEPT ![s] = Idle]
          /\ newest' = IF newest = s THEN None ELSE newest

\* The end of refresh's catch block.
EndFallback(s, r) ==
  /\ End(s)
  /\ IF newest = s THEN RefreshProgress(r) ELSE UNCHANGED <<poll, trace>>

\* Whatever failed before, an incomplete view falls back to the deployed site.
FallBack(s) ==
  IF Complete
  THEN EndFallback(s, pinned) /\ UNCHANGED shown
  ELSE GoTo(s, "deployed preview") /\ UNCHANGED <<shown, newest, poll, trace>>

At(s, stage) == refresh[s].stage = stage /\ UNCHANGED log

-----------------------------------------------------------------------------
(* refresh() *)

\* The first one shows the snapshot that came with the page, if there was one.
Start(s) ==
  /\ At(s, "idle")
  /\ refresh' = [refresh EXCEPT ![s] = [Idle EXCEPT !.stage = "head"]]
  /\ newest' = s
  /\ \/ UNCHANGED shown
     \/ view = None /\ \E k \in 1..Len(log) : Show(s, k, "deployed", FALSE)
  /\ UNCHANGED <<poll, trace>>

HeadAnswers(s) ==
  /\ At(s, "head")
  /\ \E h \in 1..Len(log) :
       /\ Len(log) - h <= HeadLag
       /\ IF CompleteAt(h)
          THEN End(s) /\ RefreshProgress(pinned) /\ UNCHANGED shown
          ELSE /\ refresh' = [refresh EXCEPT ![s].stage = "history", ![s].head = h]
               /\ UNCHANGED <<shown, newest, poll, trace>>
HeadFails(s) ==
  /\ At(s, "head") /\ GoTo(s, "raw preview")
  /\ UNCHANGED <<shown, newest, poll, trace>>

\* The commit's date, and its notes if they can be read.
HistoryAnswers(s) ==
  /\ At(s, "history")
  /\ GoTo(s, IF Complete THEN "full" ELSE "preview")
  /\ UNCHANGED <<shown, newest, poll, trace>>

PreviewEnds(s) ==
  /\ At(s, "preview")
  /\ \/ GoTo(s, "full") /\ UNCHANGED <<shown, poll>>
     \/ LET k == refresh[s].head IN
        IF Accepts(s, k)
        THEN /\ Show(s, k, "canonical", FALSE) /\ poll' = Orphaned
             /\ GoTo(s, "full")
        ELSE GoTo(s, "full") /\ UNCHANGED <<shown, poll>>
  /\ UNCHANGED <<newest, trace>>

FullAnswers(s) ==
  /\ At(s, "full")
  /\ LET k == refresh[s].head IN
     IF Accepts(s, k)
     THEN Show(s, k, "canonical", TRUE) /\ End(s) /\ RefreshProgress(k)
     ELSE End(s) /\ UNCHANGED <<shown, poll, trace>>

\* Once the head is known, a failure leads to the deployed site only.
PinnedFails(s) ==
  /\ refresh[s].stage \in {"history", "full"} /\ UNCHANGED log
  /\ FallBack(s)

-----------------------------------------------------------------------------
(* The fallbacks *)

\* What the view may be showing: its page, and over it, if it is pinned and they
\* could be read, the notes of its commit.
ViewSignals ==
  {Signal(view.at)} \cup
  (IF view.source = "canonical" THEN {[Signal(view.at) EXCEPT !.notes = log[view.at].notes]} ELSE {})

\* The preview of raw main tells whether its archive is worth reading.
RawPreviewAnswers(s) ==
  /\ At(s, "raw preview")
  /\ \E k \in 1..Len(log) :
       \/ /\ Complete /\ (TurnOf(k) < TurnOf(view.at) \/ Signal(k) \in ViewSignals)
          /\ FallBack(s)
       \/ /\ Complete => TurnOf(k) >= TurnOf(view.at) /\ ViewSignals # {Signal(k)}
          /\ refresh' = [refresh EXCEPT ![s].stage = "raw full", ![s].seen = k]
          /\ UNCHANGED <<shown, newest, poll, trace>>

\* Raw main's archive must not be older than its preview or the view, nor
\* differ from the preview of the same turn.
Usable(k, seen) ==
  /\ TurnOf(k) >= TurnOf(seen)
  /\ view = None \/ TurnOf(k) >= TurnOf(view.at)
  /\ TurnOf(k) = TurnOf(seen) => Signal(k) = Signal(seen)

RawFullAnswers(s) ==
  /\ At(s, "raw full")
  /\ \E k \in 1..Len(log) :
       IF Usable(k, refresh[s].seen) /\ Accepts(s, k)
       THEN Show(s, k, "unpinned", TRUE) /\ EndFallback(s, None)
       ELSE FallBack(s)

RawFails(s) ==
  /\ refresh[s].stage \in {"raw preview", "raw full"} /\ UNCHANGED log
  /\ FallBack(s)

DeployedPreviewEnds(s) ==
  /\ At(s, "deployed preview") /\ GoTo(s, "deployed full")
  /\ \/ UNCHANGED <<shown, poll>>
     \/ \E k \in 1..Len(log) :
          view = None /\ Accepts(s, k) /\ Show(s, k, "deployed", FALSE) /\ poll' = Orphaned
  /\ UNCHANGED <<newest, trace>>

DeployedFullEnds(s) ==
  /\ At(s, "deployed full")
  /\ \/ EndFallback(s, pinned) /\ UNCHANGED shown
     \/ \E k \in 1..Len(log) :
          /\ ~Complete /\ Accepts(s, k)
          /\ Show(s, k, "deployed", TRUE) /\ EndFallback(s, None)

-----------------------------------------------------------------------------
(* Progress requests and main *)

\* The page's own timer.
Tick ==
  /\ RefreshProgress(pinned)
  /\ UNCHANGED <<log, shown, refresh, newest>>

\* Mutant: an answer counts whatever the view has become.
ProgressEndsAnyway(answered) ==
  /\ poll # None /\ poll' = None
  /\ trace' = [status |-> IF ~answered THEN "unavailable"
                          ELSE IF log[poll.at].trace = None THEN "missing" ELSE "ok",
               at |-> poll.at]
  /\ UNCHANGED <<log, shown, refresh, newest>>

\* An answer counts for the view's revision only.
ProgressEnds(answered) ==
  /\ poll # None /\ poll' = None
  /\ trace' = IF poll.live
              THEN [status |-> IF ~answered THEN "unavailable"
                               ELSE IF log[poll.at].trace = None THEN "missing" ELSE "ok",
                    at |-> poll.at]
              ELSE trace
  /\ UNCHANGED <<log, shown, refresh, newest>>

\* Main grows; its notes.json may be ahead of the pages that quote it.
PushCommit ==
  /\ Len(log) < MaxCommits
  /\ \E t \in 0..MaxTurn, n, m \in 0..MaxNotes, x \in Exams \cup {None} :
       LET c == WholeCommit(t, n, m, x) IN
       Whole(c) /\ Follows(log[Len(log)], c) /\ log' = Append(log, c)
  /\ UNCHANGED <<shown, refresh, newest, poll, trace>>

RefreshStep(s) ==
  \/ HeadAnswers(s) \/ HeadFails(s) \/ HistoryAnswers(s) \/ PreviewEnds(s)
  \/ FullAnswers(s) \/ PinnedFails(s) \/ RawPreviewAnswers(s) \/ RawFullAnswers(s)
  \/ RawFails(s) \/ DeployedPreviewEnds(s) \/ DeployedFullEnds(s)

Next ==
  \/ \E s \in Slots : Start(s) \/ RefreshStep(s)
  \/ \E answered \in BOOLEAN : ProgressEnds(answered)
  \/ Tick \/ PushCommit

Reading == ReaderInit /\ [][Next]_vars

-----------------------------------------------------------------------------
(* Properties *)

\* Types of the reader's state (createReader in viewer/public-state.js).
TypeOK ==
  /\ \A i \in DOMAIN log : log[i] \in Commit
  /\ Len(log) \in 1..MaxCommits
  /\ view = None \/ (view \in View /\ view.at \in 1..Len(log))
  /\ pinned = None \/ pinned \in 1..Len(log)
  /\ \A s \in Slots : /\ refresh[s].stage \in Stages
                      /\ refresh[s].head \in 0..Len(log) /\ refresh[s].seen \in 0..Len(log)
  /\ newest = None \/ (newest \in Slots /\ refresh[newest].stage # "idle")
  /\ poll = None \/ (poll \in Poll /\ poll.at \in 1..Len(log))

\* "never replaces newer turns with older ones" and "an already complete
\* last-good view survives" (docs/MODULES.md, publish in public-state.js): a
\* complete view is followed only by complete views of the same turn or later.
NeverOlder ==
  [][Complete => view'.complete /\ log'[view'.at].turn >= TurnOf(view.at)]_vars

\* Only a pinned revision that the API named can take a complete view back to an
\* older turn, and only one that was not read from raw main: the archive of the
\* fallback and the site's never do, and an unpinned view is never taken back,
\* however late anything is answered and however far the API is behind main
\* (publish, unpinnedFallback and fallback in public-state.js).
OlderOnlyByHead ==
  [][Complete => /\ view'.complete
                 /\ \/ log'[view'.at].turn >= TurnOf(view.at)
                    \/ view.source # "unpinned" /\ view'.source = "canonical"]_vars

\* "Progress is read only from the displayed revision" (public-state.js:37):
\* whatever is answered late, an answer is shown only beside the revision it was
\* read from; a trace is never newer than the archive beside it; and it is that
\* of another revision only while a refresh or a request is still under way.
TraceOfView ==
  /\ [](trace.status \in {"ok", "missing"} =>
          /\ log[trace.at].trace # None => log[trace.at].trace <= TurnOf(view.at)
          /\ trace.at = pinned \/ newest # None \/ (poll # None /\ poll.live))
  /\ [][trace' # trace /\ trace'.status \in {"ok", "missing"} => trace'.at = pinned]_vars

\* Requests end; those of the newest refresh, and of the latest progress
\* request, succeed again and again, faster than the page's timers.
FairReading ==
  /\ Reading
  /\ WF_vars(\E s \in Slots : Start(s)) /\ WF_vars(Tick)
  /\ SF_vars(\E s \in Slots : newest = s /\ HeadAnswers(s))
  /\ SF_vars(\E s \in Slots : newest = s /\ HistoryAnswers(s))
  /\ SF_vars(\E s \in Slots : newest = s /\ PreviewEnds(s))
  /\ SF_vars(\E s \in Slots : newest = s /\ FullAnswers(s))
  /\ \A s \in Slots : WF_vars(RefreshStep(s))
  /\ SF_vars(poll # None /\ poll.live /\ ProgressEnds(TRUE))

\* A visitor who keeps the page open sees the newest commit whole, and its
\* trace, again and again.
CatchesUp ==
  []<>(Complete /\ pinned = Len(log) /\ trace.at = pinned /\ trace.status # "unavailable")
=============================================================================
