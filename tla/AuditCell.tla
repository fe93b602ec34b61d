------------------------------ MODULE AuditCell ------------------------------
(***************************************************************************)
(* The audit cell of one tool call: what its handler notes of the guard's  *)
(* decisions, merged worst-first into the one record of the call.          *)
(*                                                                         *)
(* A rule is named by the bug whose assessment it decided.  The cell's     *)
(* account of Bugzilla's answers (upstream, bugzilla_code) is left out.    *)
(***************************************************************************)
EXTENDS Naturals

\* Verdict, and verdict_rank.
Verdicts == {"Served", "ServedFiltered", "Refused", "Denied"}

Rank(verdict) ==
  CASE verdict = "Served" -> 0
    [] verdict = "ServedFiltered" -> 1
    [] verdict = "Refused" -> 2
    [] verdict = "Denied" -> 3

\* CellState::default(): nothing noted.  A field that may be absent is a set
\* of at most one element.
NothingNoted ==
  [verdict |-> {}, rule |-> {}, ids |-> {}, extra |-> 0, fields |-> {}, scan |-> {}]

\* The verdict decides the call: it is the first, or graver than those before.
Decides(cell, verdict) == \A standing \in cell.verdict : Rank(verdict) > Rank(standing)

\* AuditCell::merge: the rule follows the deciding verdict, and among equals
\* the first that is named.
Merge(cell, verdict, rule) ==
  IF Decides(cell, verdict) THEN [cell EXCEPT !.verdict = {verdict}, !.rule = rule]
  ELSE IF cell.verdict = {verdict} /\ cell.rule = {} THEN [cell EXCEPT !.rule = rule]
  ELSE cell

\* merge_inner with keep_rule
MergeKeepingRule(cell, verdict) ==
  IF Decides(cell, verdict) THEN [cell EXCEPT !.verdict = {verdict}] ELSE cell

NoteVerdict(cell, verdict) == Merge(cell, verdict, {})
NoteVerdictRule(cell, verdict, bug) == Merge(cell, verdict, {bug})

\* note_suppressed; its call sites leave it out when there is nothing to hide.
NoteSuppressed(cell, bugs) ==
  IF bugs = {} THEN cell
  ELSE [NoteVerdict(cell, "ServedFiltered") EXCEPT !.ids = @ \cup bugs]

NoteSuppressedCount(cell, n) ==
  IF n = 0 THEN cell ELSE [NoteVerdict(cell, "ServedFiltered") EXCEPT !.extra = @ + n]

NoteScan(cell, scanned, dropped) ==
  [IF dropped > 0 THEN NoteVerdict(cell, "ServedFiltered") ELSE cell
     EXCEPT !.scan = {[scanned |-> scanned, dropped |-> dropped]}]

NoteRedacted(cell, field) ==
  [NoteVerdict(cell, "ServedFiltered") EXCEPT !.fields = @ \cup {field}]

\* (mutant) the client's own window is merged like a redaction.
NoteClientWindowMerged(cell, field) == NoteRedacted(cell, field)

\* note_redacted_client_window
NoteClientWindow(cell, field) ==
  [MergeKeepingRule(cell, "ServedFiltered") EXCEPT !.fields = @ \cup {field}]
=============================================================================
