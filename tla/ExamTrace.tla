----------------------------- MODULE ExamTrace -----------------------------
(***************************************************************************)
(* One canonical exam (exam_evidence.run_exam) and the writer of its safe  *)
(* receipts (public_exam_progress.py).  The receipts go to a local file,   *)
(* public-exam-progress.local.json, phase by phase; the writer is          *)
(* fail-open: a receipt that cannot be written ends the trace, never the   *)
(* exam.  Encoded text, decoded text, verdicts and counts are abstracted;  *)
(* an attempt is a number.                                                 *)
(***************************************************************************)
EXTENDS Naturals, Sequences

CONSTANT None   \* no receipts, no trace

VARIABLES
  live,     \* the local receipts: [turn, try, phase], or None
  writer,   \* the writer's last snapshot; "new" before the first; "lost"
  at,       \* the exam's next phase, or "idle"
  tries     \* exams begun so far: names the attempts

examvars == <<live, writer, at, tries>>

Phases == <<"exam_started", "benchmark_selected", "language_loaded",
            "encoder_started", "encoder_completed",
            "decoder_started", "decoder_completed",
            "judge_started", "audit_progress", "completed">>
Failures == {"interrupted", "failed"}
Terminal == {"completed"} \cup Failures

After(phase) == IF phase = "completed" THEN "done"
                ELSE Phases[1 + CHOOSE i \in 1..Len(Phases) : Phases[i] = phase]

\* validate_snapshot: may phase q follow phase p of the same exam?
Admissible(p, q) ==
  /\ p \notin Terminal
  /\ \/ q \in Failures
     \/ q = "audit_progress" /\ p = "audit_progress"
     \/ q = After(p)

\* PublicExamProgressWriter.advance takes phase q.
Accepts(q) ==
  IF writer = "new" THEN q = "exam_started"
  ELSE writer # "lost" /\ Admissible(writer, q)

ExamInit == live = None /\ writer = "lost" /\ at = "idle" /\ tries = 0

\* An exam begins, with a new writer: its first receipt replaces whatever an
\* abandoned attempt left in the local file (replace_active).
Begin ==
  /\ at = "idle"
  /\ at' = "exam_started" /\ writer' = "new" /\ tries' = tries + 1
  /\ UNCHANGED live

\* advance(q) in the exam of turn t: a snapshot is validated and written.
Advance(t, q) ==
  /\ Accepts(q)
  /\ live' = [turn |-> t, try |-> tries, phase |-> q] /\ writer' = q

\* publish_progress: the exam reaches its next phase.  Unless the receipt is
\* refused or its writing fails (ok = FALSE), it is public; else the trace ends.
Report(t, ok) ==
  /\ at \in {Phases[i] : i \in 1..Len(Phases)}
  /\ IF ok /\ Accepts(at) THEN Advance(t, at)
     ELSE writer' = "lost" /\ UNCHANGED live
  /\ at' \in CASE at = "judge_started"  -> {"verdict"}
               [] at = "audit_progress" -> {"audit_progress", "completed"}
               [] OTHER                 -> {After(at)}
  /\ UNCHANGED tries

\* progress.fail, whose own failure is ignored.
Fail(t, q) == Advance(t, q) \/ UNCHANGED <<live, writer>>

\* The judge, asked twice at most, gives a judgment that passes the validator...
JudgedValid ==
  /\ at = "verdict" /\ at' = "audit_progress"
  /\ UNCHANGED <<live, writer, tries>>

\* ...or none: the exam ends with an invalid result and a failed trace.
JudgedInvalid(t) ==
  /\ at = "verdict" /\ at' = "invalid"
  /\ Fail(t, "failed")
  /\ UNCHANGED tries

\* A provider fails (also when tokens are counted) or returns an unusable text,
\* or the operator interrupts: the receipts say so, the exam is abandoned.
Raise(t, q) ==
  /\ at # "idle"
  /\ q = "failed" => at \in {"encoder_completed", "decoder_completed",
                              "judge_started", "verdict"}
  /\ Fail(t, q)
  /\ at' = "idle" /\ UNCHANGED tries

\* The finished exam's result: a trace only if its last receipt is "completed".
Finished == at \in {"done", "invalid"}
TraceOf(t) == IF writer = "completed" THEN [turn |-> t, try |-> tries] ELSE None
=============================================================================
