------------------------- MODULE PublicReader_proofs -------------------------
(***************************************************************************)
(* Proofs about PublicReader for every number of overlapping refreshes,    *)
(* commits, turns and notes.                                               *)
(***************************************************************************)
EXTENDS PublicReader, TLAPS

-----------------------------------------------------------------------------
(* The inductive invariant *)

\* Every variable is of its kind.  (TypeOK names the fields of the records; a
\* step that replaces one of them needs the records themselves.)
Types ==
  /\ log \in Seq(Commit) /\ Len(log) \in 1..MaxCommits
  /\ view = None \/ view \in [at : 1..Len(log), source : Sources, complete : BOOLEAN]
  /\ pinned \in 1..Len(log) \cup {None}
  /\ refresh \in [Slots -> [stage : Stages, head : 0..Len(log), seen : 0..Len(log)]]
  /\ newest \in Slots \cup {None}
  /\ poll = None \/ poll \in [at : 1..Len(log), live : BOOLEAN]
  /\ trace \in [status : {"none", "ok", "missing", "unavailable"}, at : 0..Len(log)]

Knowing == {"history", "preview", "full"}

\* The newest refresh is under way, and one that knows its commit has one.
Running ==
  /\ newest # None => refresh[newest].stage # "idle"
  /\ \A s \in Slots : refresh[s].stage \in Knowing => refresh[s].head > 0
  /\ \A s \in Slots : refresh[s].stage = "raw full" => refresh[s].seen > 0

\* A complete view is not previewed again.
Previewing == newest # None /\ refresh[newest].stage = "preview" => ~Complete

\* The view of a pinned revision is that revision.
PinnedView == pinned # None => view # None /\ view.at = pinned /\ view.source = "canonical"

\* A progress request that still counts asks about the pinned revision.
Asked == poll # None /\ poll.live => poll.at = pinned

\* An answer belongs to a pinned view, if not to this one then not for long.
Answer == trace.status \in {"ok", "missing"}
Answered ==
  Answer => /\ trace.at > 0 /\ pinned # None
            /\ trace.at = pinned \/ newest # None \/ (poll # None /\ poll.live)

\* Main is as PublicRecord promises.
Grown == \A i \in 1..Len(log) : Whole(log[i]) /\ TurnOf(i) <= TurnOf(Len(log))

\* The head that the newest refresh was told is not older than the view, nor
\* the view than the answer, if the revision API is never behind main.
Forward ==
  /\ newest # None /\ refresh[newest].stage \in Knowing /\ view # None =>
       TurnOf(view.at) <= TurnOf(refresh[newest].head)
  /\ Answer => TurnOf(trace.at) <= TurnOf(view.at)

Inv ==
  /\ Types /\ Running /\ Previewing /\ PinnedView /\ Asked /\ Answered /\ Grown
  /\ HeadLag = 0 => Forward

\* What every step but a push relies on and leaves as it is.
LEMMA MainFrame == Grown /\ UNCHANGED log => Grown'
BY DEF Grown, TurnOf

LEMMA TurnType == ASSUME Types, NEW k \in 1..Len(log) PROVE TurnOf(k) \in Nat
<1>1. log[k] \in Commit
  BY DEF Types
<1> QED
  BY <1>1, RecordAssumption DEF Commit, TurnOf

LEMMA InitInv == ReaderInit => Inv
<1> SUFFICES ASSUME ReaderInit PROVE Inv
  OBVIOUS
<1> DEFINE first == WholeCommit(0, 0, 0, None)
<1>1. /\ log = << first >> /\ first \in Commit
      /\ Len(log) = 1 /\ log[1] = first
  BY RecordAssumption DEF ReaderInit, Init, WholeCommit, Commit, Pages, Edition
<1>2. first.pages["full"].notes = 0 /\ first.turn = 0 /\ first.trace = None /\ first.notes = 0
  BY DEF WholeCommit, Pages
<1>3. Grown
  BY <1>1, <1>2 DEF Grown, Whole, TurnOf
<1>4. Types
  BY <1>1, ReaderAssumption DEF ReaderInit, Types, Idle, Stages
<1> QED
  BY <1>3, <1>4 DEF ReaderInit, Inv, Running, Idle, Knowing, Previewing, PinnedView, Asked,
     Answer, Answered, Forward

-----------------------------------------------------------------------------
(* The kinds of step a refresh takes *)

Request == [stage : Stages, head : 0..Len(log), seen : 0..Len(log)]

LEMMA RequestType ==
  ASSUME Types, NEW s \in Slots
  PROVE  /\ refresh[s] \in Request /\ Idle \in Request
         /\ \A r \in Request : [refresh EXCEPT ![s] = r] \in [Slots -> Request]
<1>1. refresh \in [Slots -> Request]
  BY DEF Types, Request
<1>2. 0 \in 0..Len(log)
  <2>1. Len(log) \in 1..MaxCommits /\ MaxCommits \in Nat
    BY ReaderAssumption DEF Types
  <2> QED
    BY <2>1
<1>3. Idle \in Request
  BY <1>2 DEF Request, Idle, Stages
<1> QED
  BY <1>1, <1>3

LEMMA PollType ==
  ASSUME Types, NEW r \in 1..Len(log)
  PROVE  /\ [at |-> r, live |-> TRUE] \in [at : 1..Len(log), live : BOOLEAN]
         /\ [at |-> r, live |-> TRUE] # None /\ r # None
<1>1. r \in Nat
  BY ReaderAssumption DEF Types
<1>2. [at |-> r, live |-> TRUE] \in Poll
  BY <1>1 DEF Poll
<1>3. None \notin Poll /\ None \notin Nat
  BY ReaderAssumption, RecordAssumption
<1> QED
  BY <1>1, <1>2, <1>3

\* It goes on to its next request.
LEMMA GoesOn ==
  ASSUME Inv, NEW s \in Slots, NEW r \in Request,
         refresh' = [refresh EXCEPT ![s] = r], UNCHANGED <<log, shown, newest, poll, trace>>,
         r.stage # "idle",
         r.stage \in Knowing => r.head > 0,
         r.stage = "raw full" => r.seen > 0,
         newest = s /\ r.stage = "preview" => ~Complete,
         HeadLag = 0 /\ newest = s /\ r.stage \in Knowing /\ view # None =>
           TurnOf(view.at) <= TurnOf(r.head)
  PROVE  Inv'
<1>1. Types'
  BY DEF Inv, Types, Request, shown
<1>2. Running' /\ Previewing' /\ PinnedView' /\ Asked' /\ Answered'
  BY DEF Inv, Types, Running, Previewing, Complete, PinnedView, Asked, Answered, Answer, shown
<1>3. Forward' \/ HeadLag # 0
  BY DEF Inv, Types, Forward, Answer, TurnOf, shown
<1> QED
  BY <1>1, <1>2, <1>3, MainFrame DEF Inv

LEMMA GoesTo ==
  ASSUME Inv, NEW s \in Slots, NEW stage \in Stages \ {"idle", "raw full"},
         GoTo(s, stage), UNCHANGED <<log, shown, newest, poll, trace>>,
         stage \in Knowing => refresh[s].stage \in Knowing,
         newest = s /\ stage = "preview" => ~Complete
  PROVE  Inv'
<1> DEFINE r == [refresh[s] EXCEPT !.stage = stage]
<1>1. r \in Request /\ r.stage = stage /\ r.head = refresh[s].head
  BY RequestType DEF Inv, Request
<1>2. refresh' = [refresh EXCEPT ![s] = r]
  BY DEF GoTo
<1>3. stage \in Knowing => r.head > 0
  BY <1>1 DEF Inv, Running
<1>4. HeadLag = 0 /\ newest = s /\ stage \in Knowing /\ view # None => TurnOf(view.at) <= TurnOf(r.head)
  <2>1. SUFFICES ASSUME HeadLag = 0, newest = s, stage \in Knowing, view # None
                 PROVE  TurnOf(view.at) <= TurnOf(refresh[s].head)
    BY <1>1
  <2>2. newest # None
    BY <2>1, ReaderAssumption
  <2> QED
    BY <2>1, <2>2 DEF Inv, Forward
<1> HIDE DEF r
<1> QED
  BY <1>1, <1>2, <1>3, <1>4, GoesOn

\* It ends, and so its token; the view stays and progress is asked for it.
LEMMA EndsWithView ==
  ASSUME Inv, NEW s \in Slots, End(s), UNCHANGED <<log, shown>>,
         \/ RefreshProgress(pinned)
         \/ (newest # s \/ ~Answer) /\ UNCHANGED <<poll, trace>>
  PROVE  Inv'
<1>1. /\ Types /\ Running /\ Previewing /\ PinnedView /\ Asked /\ Answered /\ Grown
      /\ UNCHANGED <<log, view, pinned>>
  BY DEF Inv, shown
<1>2. /\ refresh' = [refresh EXCEPT ![s] = Idle] /\ refresh' \in [Slots -> Request]
      /\ newest' = (IF newest = s THEN None ELSE newest)
  BY <1>1, RequestType DEF End
<1>3. \/ UNCHANGED <<poll, trace>> /\ (newest # s \/ ~Answer)
      \/ pinned = None /\ poll' = None /\ trace' = [status |-> "unavailable", at |-> 0]
      \/ pinned # None /\ poll' = [at |-> pinned, live |-> TRUE] /\ UNCHANGED trace
  BY DEF RefreshProgress
<1>4. Types'
  <2>1. newest' \in Slots \cup {None}
    BY <1>1, <1>2 DEF Types
  <2>2. poll' = None \/ poll' \in [at : 1..Len(log), live : BOOLEAN]
    BY <1>1, <1>3, PollType DEF Types
  <2>3. trace' \in [status : {"none", "ok", "missing", "unavailable"}, at : 0..Len(log)]
    BY <1>1, <1>3, ReaderAssumption DEF Types
  <2> QED
    BY <1>1, <1>2, <2>1, <2>2, <2>3 DEF Types, Request
<1>5. Running' /\ Previewing'
  BY <1>1, <1>2 DEF Types, Running, Knowing, Previewing, Complete, Idle
<1>6. PinnedView' /\ Asked' /\ Answered'
  BY <1>1, <1>2, <1>3, PollType DEF Types, PinnedView, Asked, Answered, Answer
<1>7. Forward' \/ HeadLag # 0
  BY <1>1, <1>2, <1>3 DEF Inv, Types, Forward, Answer, TurnOf
<1> QED
  BY <1>1, <1>4, <1>5, <1>6, <1>7, MainFrame DEF Inv

\* It ends with a view that is pinned to no revision, and no progress.
LEMMA EndsUnpinned ==
  ASSUME Inv, NEW s \in Slots, NEW k \in 1..Len(log), NEW source \in {"unpinned", "deployed"},
         Accepts(s, k), Show(s, k, source, TRUE), EndFallback(s, None), UNCHANGED log
  PROVE  Inv'
<1>1. Types /\ Running /\ Grown
  BY DEF Inv
<1>2. /\ refresh' = [refresh EXCEPT ![s] = Idle] /\ refresh' \in [Slots -> Request]
      /\ newest = s /\ newest' = None
      /\ view' = [at |-> k, source |-> source, complete |-> TRUE] /\ pinned' = None
      /\ poll' = None /\ trace' = [status |-> "unavailable", at |-> 0]
  BY <1>1, RequestType DEF EndFallback, End, Accepts, Show, RefreshProgress
<1>3. Types'
  BY <1>1, <1>2 DEF Types, Request, Sources
<1>4. Running' /\ Previewing' /\ PinnedView' /\ Asked' /\ Answered' /\ Forward'
  BY <1>1, <1>2 DEF Types, Running, Knowing, Idle, Previewing, PinnedView, Asked, Answered, Answer, Forward
<1> QED
  BY <1>1, <1>3, <1>4, MainFrame DEF Inv

LEMMA FallsBack ==
  ASSUME Inv, NEW s \in Slots, FallBack(s), UNCHANGED log
  PROVE  Inv'
<1>1. CASE Complete
  BY <1>1, EndsWithView DEF FallBack, EndFallback
<1>2. CASE ~Complete
  BY <1>2, GoesTo DEF FallBack, Stages, Knowing
<1> QED
  BY <1>1, <1>2

-----------------------------------------------------------------------------
(* Each step *)

LEMMA StartStep == ASSUME Inv, NEW s \in Slots, Start(s) PROVE Inv'
<1>1. /\ Types /\ Running /\ Asked /\ Answered /\ PinnedView /\ Grown
      /\ UNCHANGED <<log, poll, trace, pinned>>
      /\ refresh' = [refresh EXCEPT ![s] = [Idle EXCEPT !.stage = "head"]] /\ newest' = s
  BY DEF Inv, Start, At, Show, shown, PinnedView
<1>2. \/ UNCHANGED view
      \/ /\ view = None
         /\ \E k \in 1..Len(log) : view' = [at |-> k, source |-> "deployed", complete |-> FALSE]
  BY DEF Start, Show, shown
<1>3. [Idle EXCEPT !.stage = "head"] \in Request /\ refresh' \in [Slots -> Request]
  BY <1>1, RequestType DEF Request, Idle, Stages
<1>4. view' = None \/ view' \in [at : 1..Len(log), source : Sources, complete : BOOLEAN]
  <2>1. CASE UNCHANGED view
    BY <1>1, <2>1 DEF Types
  <2>2. ASSUME NEW k \in 1..Len(log), view' = [at |-> k, source |-> "deployed", complete |-> FALSE]
        PROVE  view' \in [at : 1..Len(log), source : Sources, complete : BOOLEAN]
    BY <2>2 DEF Sources
  <2> QED
    BY <1>2, <2>1, <2>2
<1>5. Types'
  BY <1>1, <1>3, <1>4 DEF Types, Request
<1>6. Running' /\ Previewing'
  BY <1>1 DEF Types, Running, Knowing, Idle, Previewing
<1>7. PinnedView' /\ Asked' /\ Answered'
  BY <1>1, <1>2, ReaderAssumption DEF Types, PinnedView, Asked, Answered, Answer
<1>8. Forward' \/ HeadLag # 0
  BY <1>1, <1>2 DEF Inv, Types, Knowing, Idle, PinnedView, Answered, Answer, Forward, TurnOf
<1> QED
  BY <1>1, <1>5, <1>6, <1>7, <1>8, MainFrame DEF Inv

LEMMA HeadStep ==
  ASSUME Inv, NEW s \in Slots, HeadAnswers(s) \/ HeadFails(s) \/ HistoryAnswers(s)
  PROVE  Inv'
<1> USE DEF At
<1>1. CASE HeadAnswers(s)
  <2>1. PICK h \in 1..Len(log) :
          /\ Len(log) - h <= HeadLag
          /\ IF CompleteAt(h)
             THEN End(s) /\ RefreshProgress(pinned) /\ UNCHANGED shown
             ELSE /\ refresh' = [refresh EXCEPT ![s].stage = "history", ![s].head = h]
                  /\ UNCHANGED <<shown, newest, poll, trace>>
    BY <1>1 DEF HeadAnswers
  <2>2. CASE CompleteAt(h)
    BY <1>1, <2>1, <2>2, EndsWithView DEF HeadAnswers
  <2>3. CASE ~CompleteAt(h)
    <3> DEFINE r == [refresh[s] EXCEPT !.stage = "history", !.head = h]
    <3>1. r \in Request /\ r.stage = "history" /\ r.head = h /\ h > 0
      <4>1. refresh[s] \in Request /\ h \in 0..Len(log) /\ h > 0
        BY RequestType, ReaderAssumption DEF Inv, Types
      <4> QED
        BY <4>1 DEF Request, Stages
    <3>2. refresh' = [refresh EXCEPT ![s] = r] /\ UNCHANGED <<log, shown, newest, poll, trace>>
      BY <1>1, <2>1, <2>3 DEF HeadAnswers
    <3>3. HeadLag = 0 /\ view # None => TurnOf(view.at) <= TurnOf(h)
      <4>1. SUFFICES ASSUME HeadLag = 0, view # None PROVE TurnOf(view.at) <= TurnOf(h)
        OBVIOUS
      <4>2. h = Len(log) /\ view.at \in 1..Len(log)
        BY <2>1, <4>1 DEF Inv, Types
      <4> QED
        BY <4>2 DEF Inv, Grown
    <3> HIDE DEF r
    <3> QED
      BY <3>1, <3>2, <3>3, GoesOn
  <2> QED
    BY <2>2, <2>3
<1>2. CASE HeadFails(s)
  BY <1>2, GoesTo DEF HeadFails, Stages, Knowing
<1>3. CASE HistoryAnswers(s)
  BY <1>3, GoesTo DEF HistoryAnswers, Stages, Knowing
<1> QED
  BY <1>1, <1>2, <1>3

\* The newest refresh may show its head: it is a commit, and no older than what
\* is shown.
LEMMA HeadTrusted ==
  ASSUME Inv, NEW s \in Slots, newest = s, refresh[s].stage \in Knowing
  PROVE  LET k == refresh[s].head
         IN  /\ k \in 1..Len(log) /\ k # None
             /\ HeadLag = 0 => /\ view # None => TurnOf(view.at) <= TurnOf(k)
                               /\ Answer => TurnOf(trace.at) <= TurnOf(k)
<1> DEFINE k == refresh[s].head
<1>1. newest # None /\ k > 0 /\ k \in 0..Len(log) /\ Len(log) \in Nat
  <2>1. newest # None /\ k > 0 /\ Types
    BY ReaderAssumption DEF Inv, Running
  <2>2. k \in 0..Len(log) /\ Len(log) \in Nat
    BY <2>1, ReaderAssumption DEF Types
  <2> QED
    BY <2>1, <2>2
<1>2. k \in Nat /\ k \in 1..Len(log) /\ k # None
  BY <1>1, RecordAssumption
<1>3. HeadLag = 0 /\ view # None => TurnOf(view.at) <= TurnOf(k)
  BY <1>1 DEF Inv, Forward
<1>4. ASSUME HeadLag = 0, Answer PROVE TurnOf(trace.at) <= TurnOf(k)
  <2>1. /\ view # None /\ view.at \in 1..Len(log) /\ trace.at \in 1..Len(log)
        /\ TurnOf(trace.at) <= TurnOf(view.at)
    BY <1>4, <1>1 DEF Inv, Types, Forward, Answered, PinnedView
  <2>2. TurnOf(trace.at) \in Nat /\ TurnOf(view.at) \in Nat /\ TurnOf(k) \in Nat
    BY <1>2, <2>1, TurnType DEF Inv
  <2> QED
    BY <1>3, <1>4, <2>1, <2>2
<1> QED
  BY <1>2, <1>3, <1>4

LEMMA ViewType ==
  ASSUME Types, NEW k \in 1..Len(log), NEW source \in Sources, NEW complete \in BOOLEAN
  PROVE  LET v == [at |-> k, source |-> source, complete |-> complete]
         IN  v \in [at : 1..Len(log), source : Sources, complete : BOOLEAN] /\ v # None
<1>1. k \in Nat
  BY ReaderAssumption DEF Types
<1>2. [at |-> k, source |-> source, complete |-> complete] \in View /\ None \notin View
  BY <1>1, ReaderAssumption DEF View
<1> QED
  BY <1>2

LEMMA PreviewStep == ASSUME Inv, NEW s \in Slots, PreviewEnds(s) PROVE Inv'
<1>1. refresh[s].stage = "preview" /\ GoTo(s, "full") /\ UNCHANGED <<log, newest, trace>>
  BY DEF PreviewEnds, At, GoTo
<1>2. CASE UNCHANGED <<shown, poll>>
  BY <1>1, <1>2, GoesTo DEF Stages, Knowing
<1>3. CASE Accepts(s, refresh[s].head) /\ Show(s, refresh[s].head, "canonical", FALSE) /\ poll' = Orphaned
  <2> DEFINE k == refresh[s].head
             v == [at |-> k, source |-> "canonical", complete |-> FALSE]
  <2>1. /\ Types /\ Running /\ Answered /\ Grown
        /\ newest = s
    BY <1>3 DEF Inv, Accepts
  <2>2. /\ k \in 1..Len(log) /\ k # None
        /\ HeadLag = 0 => (Answer => TurnOf(trace.at) <= TurnOf(k))
    BY <1>1, <2>1, HeadTrusted DEF Knowing
  <2>3. v \in [at : 1..Len(log), source : Sources, complete : BOOLEAN] /\ v # None
    BY <2>1, <2>2, ViewType DEF Sources
  <2>4. view' = v /\ pinned' = k
    BY <1>3 DEF Show
  <2>5. \/ poll' = None
        \/ poll' \in [at : 1..Len(log), live : BOOLEAN] /\ poll'.live = FALSE
    BY <1>3, <2>1 DEF Types, Orphaned
  <2>6. /\ refresh' \in [Slots -> Request] /\ refresh'[s].stage = "full" /\ refresh'[s].head = k
        /\ \A t \in Slots \ {s} : refresh'[t] = refresh[t]
    <3>1. [refresh[s] EXCEPT !.stage = "full"] \in Request
      BY <2>1, RequestType DEF Request, Stages
    <3> QED
      BY <1>1, <2>1, <3>1 DEF GoTo, Types, Request
  <2>7. Types'
    BY <1>1, <2>1, <2>2, <2>3, <2>4, <2>5, <2>6 DEF Types, Request
  <2>8. Running' /\ Previewing'
    BY <1>1, <2>1, <2>2, <2>6 DEF Running, Knowing, Previewing
  <2>9. PinnedView' /\ Asked' /\ Answered'
    BY <1>1, <2>1, <2>2, <2>3, <2>4, <2>5, ReaderAssumption DEF PinnedView, Asked, Answered, Answer
  <2>10. Forward' \/ HeadLag # 0
    BY <1>1, <2>1, <2>2, <2>4, <2>6, TurnType DEF Forward, Answer, TurnOf
  <2> QED
    BY <1>1, <2>1, <2>7, <2>8, <2>9, <2>10, MainFrame DEF Inv
<1> QED
  BY <1>2, <1>3 DEF PreviewEnds

LEMMA FullStep == ASSUME Inv, NEW s \in Slots, FullAnswers(s) PROVE Inv'
<1> DEFINE k == refresh[s].head
<1>1. refresh[s].stage = "full" /\ End(s) /\ UNCHANGED log
  BY DEF FullAnswers, At
<1>2. CASE ~Accepts(s, k)
  <2>1. UNCHANGED <<shown, poll, trace>>
    BY <1>2 DEF FullAnswers
  <2>2. newest # s \/ ~Answer
    BY <1>2 DEF Accepts, Inv, Answered, PinnedView
  <2> QED
    BY <1>1, <2>1, <2>2, EndsWithView
<1>3. CASE Accepts(s, k)
  <2> DEFINE v == [at |-> k, source |-> "canonical", complete |-> TRUE]
  <2>1. /\ Types /\ Running /\ Answered /\ Grown
        /\ newest = s
    BY <1>3 DEF Inv, Accepts
  <2>2. /\ k \in 1..Len(log) /\ k # None
        /\ HeadLag = 0 => (Answer => TurnOf(trace.at) <= TurnOf(k))
    BY <1>1, <2>1, HeadTrusted DEF Knowing
  <2>3. v \in [at : 1..Len(log), source : Sources, complete : BOOLEAN] /\ v # None
    BY <2>1, <2>2, ViewType DEF Sources
  <2>4. /\ view' = v /\ pinned' = k /\ poll' = [at |-> k, live |-> TRUE]
        /\ UNCHANGED <<log, trace>> /\ newest' = None
        /\ refresh' = [refresh EXCEPT ![s] = Idle] /\ refresh' \in [Slots -> Request]
    BY <1>1, <1>3, <2>1, <2>2, RequestType DEF FullAnswers, Show, RefreshProgress, End
  <2>5. poll' \in [at : 1..Len(log), live : BOOLEAN] /\ poll' # None
    BY <2>1, <2>2, <2>4, PollType
  <2>6. Types'
    BY <2>1, <2>2, <2>3, <2>4, <2>5 DEF Types, Request
  <2>7. Running' /\ Previewing' /\ PinnedView' /\ Asked' /\ Answered'
    BY <2>1, <2>2, <2>3, <2>4, <2>5
    DEF Types, Running, Knowing, Idle, Previewing, PinnedView, Asked, Answered, Answer
  <2>8. Forward' \/ HeadLag # 0
    BY <2>2, <2>4 DEF Forward, Answer, TurnOf
  <2> QED
    BY <2>1, <2>4, <2>6, <2>7, <2>8, MainFrame DEF Inv
<1> QED
  BY <1>2, <1>3

LEMMA FallbackStep ==
  ASSUME Inv, NEW s \in Slots,
         PinnedFails(s) \/ RawPreviewAnswers(s) \/ RawFails(s)
           \/ RawFullAnswers(s) \/ DeployedPreviewEnds(s) \/ DeployedFullEnds(s)
  PROVE  Inv'
<1>1. CASE PinnedFails(s) \/ RawFails(s)
  BY <1>1, FallsBack DEF PinnedFails, RawFails
<1>2. CASE RawPreviewAnswers(s)
  <2>1. PICK k \in 1..Len(log) :
          FallBack(s) \/ /\ refresh' = [refresh EXCEPT ![s].stage = "raw full", ![s].seen = k]
                         /\ UNCHANGED <<shown, newest, poll, trace>>
    BY <1>2 DEF RawPreviewAnswers
  <2>2. CASE FallBack(s)
    BY <1>2, <2>2, FallsBack DEF RawPreviewAnswers, At
  <2>3. CASE /\ refresh' = [refresh EXCEPT ![s].stage = "raw full", ![s].seen = k]
             /\ UNCHANGED <<shown, newest, poll, trace>>
    <3> DEFINE r == [refresh[s] EXCEPT !.stage = "raw full", !.seen = k]
    <3>1. refresh[s] \in Request /\ k \in 0..Len(log) /\ k > 0
      BY RequestType, ReaderAssumption DEF Inv, Types
    <3>2. r \in Request /\ r.stage = "raw full" /\ r.seen = k
      BY <3>1 DEF Request, Stages
    <3>3. refresh' = [refresh EXCEPT ![s] = r]
      BY <2>3
    <3> HIDE DEF r
    <3> QED
      BY <1>2, <2>3, <3>1, <3>2, <3>3, GoesOn DEF RawPreviewAnswers, At, Knowing
  <2> QED
    BY <2>1, <2>2, <2>3
<1>3. CASE RawFullAnswers(s)
  BY <1>3, EndsUnpinned, FallsBack DEF RawFullAnswers, At
<1>4. CASE DeployedPreviewEnds(s)
  <2>1. /\ refresh[s].stage = "deployed preview" /\ GoTo(s, "deployed full")
        /\ UNCHANGED <<log, newest, trace>>
    BY <1>4 DEF DeployedPreviewEnds, At, GoTo
  <2>2. CASE UNCHANGED <<shown, poll>>
    BY <2>1, <2>2, GoesTo DEF Stages, Knowing
  <2>3. ASSUME NEW k \in 1..Len(log), view = None, Accepts(s, k),
               Show(s, k, "deployed", FALSE), poll' = Orphaned
        PROVE  Inv'
    <3> DEFINE v == [at |-> k, source |-> "deployed", complete |-> FALSE]
    <3>1. /\ Types /\ Running /\ Grown
          /\ pinned = None /\ ~Answer
      BY <2>3 DEF Inv, PinnedView, Answered
    <3>2. v \in [at : 1..Len(log), source : Sources, complete : BOOLEAN] /\ v # None
      BY <3>1, ViewType DEF Sources
    <3>3. view' = v /\ pinned' = None
      BY <2>3 DEF Show
    <3>4. \/ poll' = None
          \/ poll' \in [at : 1..Len(log), live : BOOLEAN] /\ poll'.live = FALSE
      BY <2>3, <3>1 DEF Types, Orphaned
    <3>5. /\ refresh' \in [Slots -> Request] /\ refresh'[s].stage = "deployed full"
          /\ \A t \in Slots \ {s} : refresh'[t] = refresh[t]
      <4>1. [refresh[s] EXCEPT !.stage = "deployed full"] \in Request
        BY <3>1, RequestType DEF Request, Stages
      <4> QED
        BY <2>1, <3>1, <4>1 DEF GoTo, Types, Request
    <3>6. Types'
      BY <2>1, <3>1, <3>2, <3>3, <3>4, <3>5 DEF Types, Request
    <3>7. Running' /\ Previewing' /\ PinnedView' /\ Asked' /\ Answered' /\ Forward'
      BY <2>1, <2>3, <3>1, <3>3, <3>4, <3>5
      DEF Running, Knowing, Previewing, PinnedView, Asked, Answered, Answer, Forward, Accepts
    <3> QED
      BY <2>1, <3>1, <3>6, <3>7, MainFrame DEF Inv
  <2> QED
    BY <1>4, <2>2, <2>3 DEF DeployedPreviewEnds
<1>5. CASE DeployedFullEnds(s)
  <2>1. CASE EndFallback(s, pinned) /\ UNCHANGED shown
    BY <1>5, <2>1, EndsWithView DEF DeployedFullEnds, At, EndFallback
  <2>2. CASE \E k \in 1..Len(log) :
               Accepts(s, k) /\ Show(s, k, "deployed", TRUE) /\ EndFallback(s, None)
    BY <1>5, <2>2, EndsUnpinned DEF DeployedFullEnds, At
  <2> QED
    BY <1>5, <2>1, <2>2 DEF DeployedFullEnds
<1> QED
  BY <1>1, <1>2, <1>3, <1>4, <1>5

LEMMA ProgressStep ==
  ASSUME Inv, Tick \/ \E answered \in BOOLEAN : ProgressEnds(answered)
  PROVE  Inv'
<1>1. /\ Types /\ Running /\ Previewing /\ PinnedView /\ Asked /\ Answered /\ Grown
      /\ UNCHANGED <<log, view, pinned, refresh, newest>>
  BY DEF Inv, Tick, ProgressEnds, shown
<1>2. \/ UNCHANGED trace /\ poll' = None /\ (poll = None \/ ~poll.live)
      \/ UNCHANGED trace /\ pinned # None /\ poll' = [at |-> pinned, live |-> TRUE]
      \/ trace' = [status |-> "unavailable", at |-> 0] /\ poll' = None
      \/ /\ poll' = None /\ poll # None /\ poll.live
         /\ \E status \in {"ok", "missing", "unavailable"} :
              trace' = [status |-> status, at |-> poll.at]
  BY DEF Tick, RefreshProgress, ProgressEnds
<1>3. poll' = None \/ (poll' \in [at : 1..Len(log), live : BOOLEAN] /\ poll' # None)
  BY <1>1, <1>2, PollType DEF Types
<1>4. trace' \in [status : {"none", "ok", "missing", "unavailable"}, at : 0..Len(log)]
  <2>1. 0 \in 0..Len(log) /\ \A i \in 1..Len(log) : i \in 0..Len(log)
    BY <1>1, ReaderAssumption DEF Types
  <2>2. poll # None => poll.at \in 1..Len(log)
    BY <1>1 DEF Types
  <2> QED
    BY <1>1, <1>2, <2>1, <2>2 DEF Types
<1>5. Types'
  BY <1>1, <1>3, <1>4 DEF Types
<1>6. Running' /\ Previewing' /\ PinnedView'
  BY <1>1 DEF Running, Previewing, Complete, PinnedView
<1>7. Asked' /\ Answered'
  <2>1. poll # None /\ poll.live => poll.at = pinned /\ poll.at > 0 /\ pinned # None
    <3>1. poll # None => poll.at \in Nat /\ poll.at > 0
      BY <1>1, ReaderAssumption DEF Types
    <3> QED
      BY <1>1, <3>1, RecordAssumption DEF Asked
  <2>2. Asked'
    BY <1>1, <1>2 DEF Asked
  <2>3. CASE trace' = trace /\ poll' = None /\ (poll = None \/ ~poll.live)
    BY <1>1, <2>2, <2>3 DEF Answered, Answer
  <2>4. CASE trace' = trace /\ pinned # None /\ poll' = [at |-> pinned, live |-> TRUE]
    <3>1. poll' # None /\ poll'.live
      BY <1>1, <2>4, PollType DEF Types
    <3> QED
      BY <1>1, <2>2, <2>4, <3>1 DEF Answered, Answer
  <2>5. CASE trace'.status = "unavailable"
    BY <2>2, <2>5 DEF Answered, Answer
  <2>6. CASE poll # None /\ poll.live /\ \E status \in {"ok", "missing", "unavailable"} :
                                          trace' = [status |-> status, at |-> poll.at]
    BY <1>1, <2>1, <2>2, <2>6 DEF Answered, Answer
  <2> QED
    BY <1>2, <2>3, <2>4, <2>5, <2>6
<1>8. Forward' \/ HeadLag # 0
  <2>1. ASSUME poll # None, poll.live PROVE view # None /\ view.at = poll.at /\ TurnOf(poll.at) \in Nat
    <3>1. poll.at \in 1..Len(log)
      BY <1>1, <2>1 DEF Types
    <3> QED
      BY <1>1, <2>1, <3>1, TurnType, RecordAssumption DEF Asked, PinnedView
  <2> QED
    BY <1>1, <1>2, <2>1 DEF Inv, Forward, Answer, TurnOf
<1> QED
  BY <1>1, <1>5, <1>6, <1>7, <1>8, MainFrame DEF Inv

LEMMA PushStep == ASSUME Inv, PushCommit PROVE Inv'
<1>1. /\ Types /\ Grown /\ UNCHANGED <<view, pinned, refresh, newest, poll, trace>>
      /\ Len(log) \in Nat \ {0} /\ Len(log) < MaxCommits
  BY ReaderAssumption DEF Inv, Types, PushCommit, shown
<1>2. PICK t \in 0..MaxTurn, n, m \in 0..MaxNotes, x \in Exams \cup {None} :
        LET c == WholeCommit(t, n, m, x) IN
        Whole(c) /\ Follows(log[Len(log)], c) /\ log' = Append(log, c)
  BY DEF PushCommit
<1> DEFINE c == WholeCommit(t, n, m, x)
<1>3. c \in Commit /\ c.turn = t
  BY DEF WholeCommit, Commit, Edition
<1>4. /\ log' \in Seq(Commit) /\ Len(log') = Len(log) + 1 /\ log'[Len(log')] = c
      /\ \A i \in 1..Len(log) : log'[i] = log[i]
  BY <1>1, <1>2, <1>3 DEF Types
<1>5. Types'
  <2>1. \A i \in 0..Len(log) : i \in 0..Len(log')
    BY <1>1, <1>4
  <2>2. \A i \in 1..Len(log) : i \in 1..Len(log')
    BY <1>1, <1>4
  <2>3. Len(log') \in 1..MaxCommits
    BY <1>1, <1>4, ReaderAssumption
  <2>4. view' = None \/ view' \in [at : 1..Len(log'), source : Sources, complete : BOOLEAN]
    BY <1>1, <2>2 DEF Types
  <2>5. poll' = None \/ poll' \in [at : 1..Len(log'), live : BOOLEAN]
    BY <1>1, <2>2 DEF Types
  <2>6. refresh' \in [Slots -> [stage : Stages, head : 0..Len(log'), seen : 0..Len(log')]]
    BY <1>1, <2>1 DEF Types
  <2>7. trace' \in [status : {"none", "ok", "missing", "unavailable"}, at : 0..Len(log')]
    BY <1>1, <2>1 DEF Types
  <2> QED
    BY <1>1, <1>4, <2>2, <2>3, <2>4, <2>5, <2>6, <2>7 DEF Types
<1>6. Running' /\ Previewing' /\ PinnedView' /\ Asked' /\ Answered'
  BY <1>1 DEF Inv, Running, Previewing, Complete, PinnedView, Asked, Answered, Answer
<1>7. Grown'
  <2>1. Whole(c) /\ TurnOf(Len(log)) <= c.turn
    <3>1. TurnOf(Len(log)) \in Nat
      BY <1>1, TurnType
    <3>2. Whole(c) /\ c.turn \in {log[Len(log)].turn, log[Len(log)].turn + 1}
      BY <1>2 DEF Follows
    <3> QED
      BY <3>1, <3>2 DEF TurnOf
  <2>2. ASSUME NEW i \in 1..Len(log)
        PROVE  Whole(log[i]) /\ TurnOf(i) \in Nat /\ TurnOf(i) <= c.turn
    <3>1. Whole(log[i]) /\ TurnOf(i) <= TurnOf(Len(log))
      BY <1>1 DEF Grown
    <3>2. TurnOf(i) \in Nat /\ TurnOf(Len(log)) \in Nat
      BY <1>1, TurnType
    <3> QED
      BY <2>1, <3>1, <3>2, <1>3
  <2>3. ASSUME NEW i \in 1..Len(log') PROVE Whole(log'[i]) /\ log'[i].turn <= log'[Len(log')].turn
    <3>1. CASE i \in 1..Len(log)
      BY <1>4, <2>2, <3>1 DEF TurnOf
    <3>2. CASE i = Len(log')
      BY <1>3, <1>4, <2>1, <3>2
    <3> QED
      BY <1>1, <1>4, <3>1, <3>2
  <2> QED
    BY <2>3 DEF Grown, TurnOf
<1>8. Forward' \/ HeadLag # 0
  <2>1. HeadLag = 0 => Forward
    BY DEF Inv
  <2>2. view # None => view.at \in 1..Len(log)
    BY <1>1 DEF Types
  <2>3. Answer => trace.at \in 1..Len(log) /\ view # None
    BY <1>1 DEF Inv, Answered, Types, PinnedView
  <2>4. newest # None /\ refresh[newest].stage \in Knowing => refresh[newest].head \in 1..Len(log)
    <3>1. newest # None /\ refresh[newest].stage \in Knowing =>
            refresh[newest].head \in 0..Len(log) /\ refresh[newest].head > 0
      BY <1>1 DEF Inv, Running, Types
    <3> QED
      BY <1>1, <3>1
  <2> QED
    BY <1>1, <1>4, <2>1, <2>2, <2>3, <2>4 DEF Forward, Answer, TurnOf
<1> QED
  BY <1>5, <1>6, <1>7, <1>8 DEF Inv

LEMMA NextInv == Inv /\ [Next]_vars => Inv'
<1> SUFFICES ASSUME Inv, [Next]_vars PROVE Inv'
  OBVIOUS
<1>1. ASSUME NEW s \in Slots, RefreshStep(s) PROVE Inv'
  BY <1>1, HeadStep, PreviewStep, FullStep, FallbackStep DEF RefreshStep
<1>2. CASE UNCHANGED vars
  BY <1>2 DEF vars, shown, Inv, Types, Running, Previewing, Complete, PinnedView, Asked, Answered,
     Answer, Grown, Forward, TurnOf
<1> QED
  BY <1>1, <1>2, StartStep, ProgressStep, PushStep DEF Next

LEMMA Invariance == Reading => []Inv
BY InitInv, NextInv, PTL DEF Reading

-----------------------------------------------------------------------------
(* What a step may do to main, to the view and to the progress shown *)

LEMMA LogKept ==
  ASSUME Inv, [Next]_vars, NEW k \in 1..Len(log)
  PROVE  log'[k] = log[k]
<1>1. CASE PushCommit
  <2>1. \E c : log' = Append(log, c)
    BY <1>1 DEF PushCommit
  <2> QED
    BY <2>1 DEF Inv, Types
<1>2. CASE UNCHANGED log
  BY <1>2
<1> QED
  BY <1>1, <1>2 DEF Next, RefreshStep, Start, HeadAnswers, HeadFails, HistoryAnswers, PreviewEnds,
     FullAnswers, PinnedFails, RawPreviewAnswers, RawFullAnswers, RawFails, DeployedPreviewEnds,
     DeployedFullEnds, ProgressEnds, Tick, At, vars

\* Once there is a view, only the newest refresh replaces it: by its head, by a
\* snapshot of raw main that is not older, or, if it was incomplete, by the site's.
Shows(k, source, complete) == view' = [at |-> k, source |-> source, complete |-> complete]

LEMMA ViewChanges ==
  ASSUME Inv, [Next]_vars, view # None, view' # view
  PROVE  /\ UNCHANGED log
         /\ \/ \E s \in Slots : /\ newest = s /\ refresh[s].stage = "preview"
                                /\ Shows(refresh[s].head, "canonical", FALSE)
            \/ \E s \in Slots : /\ newest = s /\ refresh[s].stage = "full"
                                /\ Shows(refresh[s].head, "canonical", TRUE)
                                /\ view.source = "unpinned" => ~(TurnOf(refresh[s].head) < TurnOf(view.at))
            \/ \E k \in 1..Len(log) : TurnOf(k) >= TurnOf(view.at) /\ Shows(k, "unpinned", TRUE)
            \/ ~Complete /\ \E k \in 1..Len(log) : Shows(k, "deployed", TRUE)
<1> USE DEF At, Show, Shows, shown
<1>1. ASSUME NEW s \in Slots, FallBack(s) PROVE UNCHANGED view
  BY <1>1 DEF FallBack
<1>2. ASSUME NEW s \in Slots, PreviewEnds(s)
      PROVE  UNCHANGED log /\ newest = s /\ refresh[s].stage = "preview" /\ Shows(refresh[s].head, "canonical", FALSE)
  BY <1>2 DEF PreviewEnds, Accepts
<1>3. ASSUME NEW s \in Slots, FullAnswers(s)
      PROVE  /\ UNCHANGED log /\ newest = s /\ refresh[s].stage = "full"
             /\ Shows(refresh[s].head, "canonical", TRUE)
             /\ view.source = "unpinned" => ~(TurnOf(refresh[s].head) < TurnOf(view.at))
  BY <1>3 DEF FullAnswers, Accepts
<1>4. ASSUME NEW s \in Slots, RawFullAnswers(s)
      PROVE  UNCHANGED log /\ \E k \in 1..Len(log) : TurnOf(k) >= TurnOf(view.at) /\ Shows(k, "unpinned", TRUE)
  BY <1>1, <1>4 DEF RawFullAnswers, Usable
<1>5. ASSUME NEW s \in Slots, DeployedFullEnds(s)
      PROVE  UNCHANGED log /\ ~Complete /\ \E k \in 1..Len(log) : Shows(k, "deployed", TRUE)
  BY <1>5 DEF DeployedFullEnds
<1>6. ASSUME NEW s \in Slots,
             \/ Start(s) \/ HeadAnswers(s) \/ HeadFails(s) \/ HistoryAnswers(s) \/ PinnedFails(s)
             \/ RawPreviewAnswers(s) \/ RawFails(s) \/ DeployedPreviewEnds(s)
      PROVE  FALSE
  BY <1>1, <1>6 DEF Start, HeadAnswers, HeadFails, HistoryAnswers, PinnedFails, RawPreviewAnswers,
     RawFails, DeployedPreviewEnds
<1>7. CASE Tick \/ PushCommit \/ (\E answered \in BOOLEAN : ProgressEnds(answered)) \/ UNCHANGED vars
  BY <1>7 DEF Tick, PushCommit, ProgressEnds, vars
<1> QED
  BY <1>2, <1>3, <1>4, <1>5, <1>6, <1>7 DEF Next, RefreshStep

\* What is shown of the progress is an answer to the latest request that counts,
\* or word that there is none.
LEMMA TraceChanges ==
  ASSUME [Next]_vars, trace' # trace
  PROVE  \/ trace'.status = "unavailable"
         \/ poll # None /\ poll.live /\ trace'.at = poll.at /\ UNCHANGED pinned
<1>1. ASSUME NEW r, RefreshProgress(r) PROVE trace'.status = "unavailable"
  BY <1>1 DEF RefreshProgress
<1>2. ASSUME NEW s \in Slots, NEW r, EndFallback(s, r) PROVE trace'.status = "unavailable"
  BY <1>1, <1>2 DEF EndFallback
<1>3. ASSUME NEW s \in Slots, FallBack(s) PROVE trace'.status = "unavailable"
  BY <1>2, <1>3 DEF FallBack
<1>4. ASSUME NEW s \in Slots, Start(s) \/ RefreshStep(s) PROVE trace'.status = "unavailable"
  BY <1>1, <1>2, <1>3, <1>4
  DEF RefreshStep, Start, HeadAnswers, HeadFails, HistoryAnswers, PreviewEnds, FullAnswers, PinnedFails,
      RawPreviewAnswers, RawFullAnswers, RawFails, DeployedPreviewEnds, DeployedFullEnds
<1>5. ASSUME NEW answered \in BOOLEAN, ProgressEnds(answered)
      PROVE  poll # None /\ poll.live /\ trace'.at = poll.at /\ UNCHANGED pinned
  BY <1>5 DEF ProgressEnds, shown
<1>6. CASE Tick \/ PushCommit \/ UNCHANGED vars
  BY <1>1, <1>6 DEF Tick, PushCommit, vars
<1> QED
  BY <1>4, <1>5, <1>6 DEF Next

-----------------------------------------------------------------------------

\* The reader's state keeps its types (createReader in viewer/public-state.js).
THEOREM TypeCorrect == Reading => []TypeOK
<1>1. Inv => TypeOK
  <2> SUFFICES ASSUME Inv PROVE TypeOK
    OBVIOUS
  <2>1. Types /\ Running /\ Len(log) \in Nat
    BY ReaderAssumption DEF Inv, Types
  <2>2. view = None \/ (view \in View /\ view.at \in 1..Len(log))
    BY <2>1 DEF Types, View
  <2>3. poll = None \/ (poll \in Poll /\ poll.at \in 1..Len(log))
    BY <2>1 DEF Types, Poll
  <2>4. pinned = None \/ pinned \in 1..Len(log)
    BY <2>1 DEF Types
  <2>5. \A s \in Slots : /\ refresh[s].stage \in Stages
                         /\ refresh[s].head \in 0..Len(log) /\ refresh[s].seen \in 0..Len(log)
    BY <2>1 DEF Types
  <2>6. newest = None \/ (newest \in Slots /\ refresh[newest].stage # "idle")
    BY <2>1 DEF Types, Running
  <2>7. \A i \in DOMAIN log : log[i] \in Commit
    BY <2>1 DEF Types
  <2> QED
    BY <2>1, <2>2, <2>3, <2>4, <2>5, <2>6, <2>7 DEF Types, TypeOK
<1> QED
  BY <1>1, Invariance, PTL

\* Where the revision API is never behind main, a complete view is followed only
\* by complete views of its turn or a later one, however refreshes overlap
\* (publish in viewer/public-state.js).  Where it is, the page does go back: a
\* pinned view has no guard of its own.
THEOREM ViewNeverOlder == HeadLag = 0 => (Reading => NeverOlder)
<1> SUFFICES ASSUME HeadLag = 0 PROVE Reading => NeverOlder
  OBVIOUS
<1>1. ASSUME Inv, [Next]_vars, Complete
      PROVE  view'.complete /\ log'[view'.at].turn >= TurnOf(view.at)
  <2>1. Types /\ view # None /\ view.complete /\ view.at \in 1..Len(log) /\ TurnOf(view.at) \in Nat
    BY <1>1, TurnType DEF Inv, Types, Complete
  <2>2. CASE UNCHANGED view
    BY <1>1, <2>1, <2>2, LogKept DEF TurnOf
  <2>3. ASSUME NEW s \in Slots, newest = s, refresh[s].stage = "preview" PROVE FALSE
    BY <1>1, <2>3, ReaderAssumption DEF Inv, Previewing
  <2>4. ASSUME NEW s \in Slots, newest = s, refresh[s].stage = "full"
        PROVE  TurnOf(view.at) <= TurnOf(refresh[s].head) /\ TurnOf(refresh[s].head) \in Nat
    BY <1>1, <2>1, <2>4, HeadTrusted, TurnType DEF Knowing
  <2>5. CASE view' # view
    <3> DEFINE Later == view'.complete /\ log'[view'.at].turn >= TurnOf(view.at)
    <3>1. UNCHANGED log
      BY <1>1, <2>1, <2>5, ViewChanges
    <3>2. ASSUME NEW s \in Slots, newest = s, refresh[s].stage = "full",
                 Shows(refresh[s].head, "canonical", TRUE)
          PROVE  Later
      <4>1. TurnOf(view.at) <= TurnOf(refresh[s].head) /\ TurnOf(refresh[s].head) \in Nat
        BY <2>4, <3>2
      <4> QED
        BY <2>1, <3>1, <3>2, <4>1 DEF Shows, TurnOf
    <3>3. ASSUME NEW k \in 1..Len(log), TurnOf(k) >= TurnOf(view.at), Shows(k, "unpinned", TRUE)
          PROVE  Later
      BY <3>1, <3>3 DEF Shows, TurnOf
    <3> QED
      BY <1>1, <2>1, <2>3, <2>5, <3>2, <3>3, ViewChanges
  <2> QED
    BY <2>2, <2>5
<1> QED
  BY <1>1, Invariance, PTL DEF Reading, NeverOlder

\* However far the revision API is behind main, only a pinned revision that it
\* named takes a complete view back, and never an unpinned one (publish,
\* unpinnedFallback and fallback in viewer/public-state.js).
THEOREM ViewOlderOnlyByHead == Reading => OlderOnlyByHead
<1>1. ASSUME Inv, [Next]_vars, Complete
      PROVE  /\ view'.complete
             /\ \/ log'[view'.at].turn >= TurnOf(view.at)
                \/ view.source # "unpinned" /\ view'.source = "canonical"
  <2>1. Types /\ view # None /\ view.complete /\ view.at \in 1..Len(log) /\ TurnOf(view.at) \in Nat
    BY <1>1, TurnType DEF Inv, Types, Complete
  <2>2. CASE UNCHANGED view
    BY <1>1, <2>1, <2>2, LogKept DEF TurnOf
  <2>3. ASSUME NEW s \in Slots, newest = s, refresh[s].stage = "preview" PROVE FALSE
    BY <1>1, <2>3, ReaderAssumption DEF Inv, Previewing
  <2>4. CASE view' # view
    <3>1. UNCHANGED log
      BY <1>1, <2>1, <2>4, ViewChanges
    <3>2. ASSUME NEW s \in Slots, newest = s, refresh[s].stage = "full",
                 Shows(refresh[s].head, "canonical", TRUE),
                 view.source = "unpinned" => ~(TurnOf(refresh[s].head) < TurnOf(view.at))
          PROVE  /\ view'.complete /\ view'.source = "canonical"
                 /\ view.source = "unpinned" => log'[view'.at].turn >= TurnOf(view.at)
      <4>1. TurnOf(refresh[s].head) \in Nat
        BY <1>1, <2>1, <3>2, HeadTrusted, TurnType DEF Knowing
      <4> QED
        BY <2>1, <3>1, <3>2, <4>1 DEF Shows, TurnOf
    <3>3. ASSUME NEW k \in 1..Len(log), TurnOf(k) >= TurnOf(view.at), Shows(k, "unpinned", TRUE)
          PROVE  view'.complete /\ log'[view'.at].turn >= TurnOf(view.at)
      BY <3>1, <3>3 DEF Shows, TurnOf
    <3> QED
      BY <1>1, <2>1, <2>3, <2>4, <3>2, <3>3, ViewChanges
  <2> QED
    BY <2>2, <2>4
<1> QED
  BY <1>1, Invariance, PTL DEF Reading, OlderOnlyByHead

\* A progress answer is shown beside the revision it was read from, and is no
\* newer than the archive beside it (refreshProgress in viewer/public-state.js).
THEOREM TraceBesideItsView == HeadLag = 0 => (Reading => TraceOfView)
<1> SUFFICES ASSUME HeadLag = 0 PROVE Reading => TraceOfView
  OBVIOUS
<1>1. ASSUME Inv, trace.status \in {"ok", "missing"}
      PROVE  /\ log[trace.at].trace # None => log[trace.at].trace <= TurnOf(view.at)
             /\ trace.at = pinned \/ newest # None \/ (poll # None /\ poll.live)
  <2> DEFINE x == log[trace.at].trace
  <2>1. Types /\ Grown /\ trace.at \in 1..Len(log) /\ view # None /\ view.at \in 1..Len(log)
    BY <1>1 DEF Inv, Types, Answer, Answered, PinnedView
  <2>2. TurnOf(trace.at) <= TurnOf(view.at) /\ TurnOf(trace.at) \in Nat /\ TurnOf(view.at) \in Nat
    BY <1>1, <2>1, TurnType DEF Inv, Forward, Answer
  <2>3. x # None => x \in Nat /\ x <= TurnOf(trace.at)
    <3>1. log[trace.at] \in Commit /\ Whole(log[trace.at])
      BY <2>1 DEF Types, Grown
    <3> QED
      BY <3>1 DEF Commit, Exams, Whole, TurnOf
  <2> QED
    BY <1>1, <2>2, <2>3 DEF Inv, Answer, Answered
<1>2. ASSUME Inv, [Next]_vars, trace' # trace, trace'.status \in {"ok", "missing"}
      PROVE  trace'.at = pinned
  BY <1>2, TraceChanges DEF Inv, Asked
<1> QED
  BY <1>1, <1>2, Invariance, PTL DEF Reading, TraceOfView
=============================================================================
