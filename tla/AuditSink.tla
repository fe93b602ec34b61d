----------------------------- MODULE AuditSink -----------------------------
(***************************************************************************)
(* The audit sink of audit.rs and the OTLP exporter of otel.rs behind it,  *)
(* at the granularity at which their threads can observe each other.       *)
(*                                                                         *)
(* Three kinds of actor share the state:                                   *)
(*   - a call persisting its record (AuditSink::record), under one mutex;  *)
(*   - the exporter's drain task (ExportTask::run), which takes no lock;   *)
(*   - the fail-mode gate (AuditSink::failing), which takes no lock either *)
(*     and reads three atomics one after the other.                        *)
(*                                                                         *)
(* A step is one access to something another actor reads: `dropped` is     *)
(* private to the lock holder, so it moves together with the atomic access *)
(* next to it.  The record's bytes, the rotation and the torn-line repair  *)
(* are the subject of module AuditFile; here a file write is one outcome.  *)
(***************************************************************************)
EXTENDS Naturals, Sequences, SequencesExt

CONSTANTS
  Calls,          \* tasks that persist one record each
  NoCall,         \* "nobody holds the sink's lock"
  HasFile,        \* the JSONL file is a configured destination
  HasExport,      \* the OTLP collector is a configured destination
  QueueCapacity,  \* bound of the audit queue (2048 in the code)
  MaxBatch        \* bound of one export batch (512 in the code)

ASSUME NoCallAssumption == NoCall \notin Calls
ASSUME SinksAssumption ==
  /\ HasFile \in BOOLEAN /\ HasExport \in BOOLEAN
  /\ HasFile \/ HasExport           \* require_export_for_fileless
ASSUME BoundsAssumption ==
  QueueCapacity \in Nat \ {0} /\ MaxBatch \in Nat \ {0}

VARIABLES
  holder,     \* who is inside the critical section of `record`
  pc,         \* the holder's next step
  call,       \* what each call's `record` has returned
  seq,        \* SinkState::seq
  dropped,    \* SinkState::dropped
  flag,       \* AuditSink::failing_flag, the lock-free mirror of dropped > 0
  lost,       \* Pipeline::lost
  healthy,    \* Pipeline::healthy
  queue,      \* the audit channel
  open,       \* the channel still takes records
  batch,      \* ExportTask::run's audit_batch
  posting,    \* the batch inside post_batch
  xpc,        \* the drain task's next step
  tail,       \* the drain task has closed the channels and empties them
  cancelled,  \* Pipeline::shutdown has been called
  gate,       \* the gate's next read, or its answer
  \* History variables: they are never read by an action's guard.
  droppedIds, \* calls whose loss `dropped` counts
  lostIds,    \* calls whose loss `lost` counts
  inFile,     \* calls whose record the file holds
  taken,      \* calls whose record the collector took
  tooLarge,   \* calls that were in, or reported by, a batch answered 413
  reported,   \* calls whose loss a gap record at a destination reports
  watch,      \* losses pending since the gate's current evaluation began
  exposed     \* that evaluation met a holder's AbsorbWindow or ClearWindow

sinkVars == <<holder, pc, call, seq, dropped, flag>>
pipeVars == <<lost, healthy, queue, open>>
taskVars == <<batch, posting, xpc, tail, cancelled>>
gateVars == <<gate, watch, exposed>>
ghostVars == <<droppedIds, lostIds, inFile, taken, tooLarge, reported>>
vars == <<sinkVars, pipeVars, taskVars, gateVars, ghostVars>>

\* A queued record: the record of one call, or an audit_gap and the calls
\* whose loss it reports.  `n` is the count a gap record carries.
Entry == [kind : {"call", "gap"}, seq : Nat, n : Nat, ids : SUBSET Calls]

IdsOf(s) == UNION {e.ids : e \in ToSet(s)}
IdsOfKind(s, k) == UNION {e.ids : e \in {x \in ToSet(s) : x.kind = k}}
InFlight == posting \o batch \o queue

Init ==
  /\ holder = NoCall /\ pc = "free"
  /\ call = [c \in Calls |-> "idle"]
  /\ seq = 0 /\ dropped = 0 /\ flag = FALSE
  /\ lost = 0 /\ healthy = TRUE
  /\ queue = <<>> /\ open = TRUE
  /\ batch = <<>> /\ posting = <<>>
  /\ xpc = (IF HasExport THEN "recv" ELSE "done")   \* Pipeline::start
  /\ tail = FALSE /\ cancelled = FALSE
  /\ gate = "fail" /\ watch = {} /\ exposed = FALSE
  /\ droppedIds = {} /\ lostIds = {} /\ inFile = {}
  /\ taken = {} /\ tooLarge = {} /\ reported = {}

-----------------------------------------------------------------------------
(* AuditSink::record, under the state lock.                                *)

\* Take the lock and peek at the exporter's losses: the mirror is raised
\* before they are drained.
Begin(c) ==
  /\ holder = NoCall /\ call[c] = "idle"
  /\ holder' = c
  /\ call' = [call EXCEPT ![c] = "recording"]
  /\ flag' = (flag \/ (HasExport /\ lost > 0))
  /\ pc' = IF HasExport THEN "take" ELSE "gap"
  /\ UNCHANGED <<seq, dropped, pipeVars, taskVars, gateVars, ghostVars>>

\* take_lost: swap the exporter's counter to zero and fold it in.
TakeLost ==
  /\ pc = "take"
  /\ dropped' = dropped + lost
  /\ droppedIds' = droppedIds \union lostIds
  /\ lost' = 0 /\ lostIds' = {}
  /\ pc' = IF lost > 0 THEN "mirror" ELSE "gap"
  /\ UNCHANGED <<holder, call, seq, flag, healthy, queue, open, taskVars,
                 gateVars, inFile, taken, tooLarge, reported>>

\* Raise the mirror for what take_lost returned.
MirrorLost ==
  /\ pc = "mirror"
  /\ flag' = TRUE
  /\ pc' = "gap"
  /\ UNCHANGED <<holder, call, seq, dropped, pipeVars, taskVars, gateVars,
                 ghostVars>>

\* What write_event's file half may come to: the line is written; nothing
\* (or a torn prefix) is written; or the whole line is written and its
\* sync fails, which the code counts as a failure all the same.
FileOutcomes ==
  IF HasFile THEN {"written", "failed", "unsynced"} ELSE {"written"}
LineInFile(outcome) == HasFile /\ outcome # "failed"

CanAccept == open /\ Len(queue) < QueueCapacity

\* The export half of write_event: try_send.  It is reached only when the
\* file half succeeded.
Offer(e, outcome) ==
  queue' = IF outcome = "written" /\ HasExport /\ CanAccept
           THEN Append(queue, e) ELSE queue

\* `seq` is spent once the file has the line, whatever the export says.
SpendSeq(outcome) == seq' = IF outcome = "written" THEN seq + 1 ELSE seq

\* (mutant) a refused hand-off is not an error.
WriteOkRefused(outcome) == outcome = "written"
WriteOk(outcome) == outcome = "written" /\ (HasExport => CanAccept)

\* Where write_event leaves the holder: a record that made it goes on to
\* `next`, one the channel refused has the latch still to close.
AfterWrite(outcome, next) ==
  pc' = IF WriteOk(outcome) THEN next
        ELSE IF outcome = "written" THEN "refuse" ELSE "fail"

\* The audit_gap record that precedes the caller's own: written, and offered
\* to the drain task, which may post it before the holder's next step.
WriteGap ==
  /\ pc = "gap"
  /\ IF dropped = 0
     THEN pc' = "own" /\ UNCHANGED <<seq, queue, reported>>
     ELSE \E outcome \in FileOutcomes :
            /\ SpendSeq(outcome)
            /\ Offer([kind |-> "gap", seq |-> seq + 1, n |-> dropped,
                      ids |-> droppedIds], outcome)
            /\ reported' = IF LineInFile(outcome)
                           THEN reported \union droppedIds ELSE reported
            /\ AfterWrite(outcome, "clear")
  /\ UNCHANGED <<holder, call, dropped, flag, lost, healthy, open, taskVars,
                 gateVars, droppedIds, lostIds, inFile, taken, tooLarge>>

\* The gap record is out and has been lost again before the holder takes
\* the mirror down for the losses it reported.
ClearWindow == pc = "clear" /\ droppedIds \intersect lostIds # {}

\* What the gap reported is off the sink's own books, and the mirror down.
ClearGap ==
  /\ pc = "clear"
  /\ dropped' = 0 /\ droppedIds' = {} /\ flag' = FALSE
  /\ pc' = "own"
  /\ watch' = watch \intersect lostIds
  /\ exposed' = (exposed \/ (ClearWindow /\ gate \in {"flag", "health"}))
  /\ UNCHANGED <<holder, call, seq, pipeVars, taskVars, gate, lostIds, inFile,
                 taken, tooLarge, reported>>

\* The caller's own record; the lock is released with the answer.
WriteOwn ==
  /\ pc = "own"
  /\ \E outcome \in FileOutcomes :
       /\ SpendSeq(outcome)
       /\ Offer([kind |-> "call", seq |-> seq + 1, n |-> 0,
                 ids |-> {holder}], outcome)
       /\ inFile' = IF LineInFile(outcome)
                    THEN inFile \union {holder} ELSE inFile
       /\ AfterWrite(outcome, "free")
       /\ IF WriteOk(outcome)
          THEN call' = [call EXCEPT ![holder] = "ok"] /\ holder' = NoCall
          ELSE UNCHANGED <<call, holder>>
  /\ UNCHANGED <<dropped, flag, lost, healthy, open, taskVars, gateVars,
                 droppedIds, lostIds, taken, tooLarge, reported>>

\* Pipeline::accept, the channel full or closed: the latch closes.
Refused ==
  /\ pc = "refuse"
  /\ healthy' = FALSE /\ pc' = "fail"
  /\ UNCHANGED <<holder, call, seq, dropped, flag, lost, queue, open, taskVars,
                 gateVars, ghostVars>>

FailFrame ==
  /\ pc = "fail"
  /\ dropped' = dropped + 1
  /\ droppedIds' = droppedIds \union {holder}
  /\ call' = [call EXCEPT ![holder] = "err"]
  /\ holder' = NoCall /\ pc' = "free"
  /\ UNCHANGED <<seq, pipeVars, taskVars, gateVars, lostIds, inFile, taken,
                 tooLarge, reported>>

\* (mutant) the loss is counted and the mirror forgotten.
FailUnmirrored == FailFrame /\ UNCHANGED flag

\* A lost record, the caller's own or the one its gap record could not
\* precede: raise the mirror, count it, return the error.
Fail == FailFrame /\ flag' = TRUE

-----------------------------------------------------------------------------
(* ExportTask::run.  The size of a record is not modelled, so the byte     *)
(* bound may close a batch after any record.                               *)

\* Receive one record into the batch; the biased select looks at the
\* shutdown token first.
Receive ==
  /\ xpc = "recv" /\ (cancelled => tail)
  /\ queue # <<>> /\ Len(batch) < MaxBatch
  /\ batch' = Append(batch, Head(queue))
  /\ queue' = Tail(queue)
  /\ UNCHANGED <<sinkVars, lost, healthy, open, posting, xpc, tail, cancelled,
                 gateVars, ghostVars>>

\* Close the window: on the deadline, a full batch, the byte bound, the
\* shutdown token, or an empty queue while draining the tail.  The select
\* prefers a queued record to the deadline, so an empty window closes over
\* a waiting record only for the shutdown token.
StartPost ==
  /\ xpc = "recv"
  /\ (batch = <<>> /\ (cancelled => tail)) => queue = <<>>
  /\ posting' = batch /\ batch' = <<>>
  /\ xpc' = IF batch = <<>> THEN "diag" ELSE "post"
  /\ UNCHANGED <<sinkVars, pipeVars, tail, cancelled, gateVars, ghostVars>>

\* (mutant) the wrong end of the batch is held back.
SplitBatchFirst ==
  /\ xpc = "recv" /\ (cancelled => tail)
  /\ Len(batch) >= 2
  /\ posting' = Tail(batch) /\ batch' = <<Head(batch)>>
  /\ xpc' = "post"
  /\ UNCHANGED <<sinkVars, pipeVars, tail, cancelled, gateVars, ghostVars>>

\* The last record overflowed the byte bound: it is popped, the others are
\* posted, and it is put back for the next post.
SplitBatch ==
  /\ xpc = "recv" /\ (cancelled => tail)
  /\ Len(batch) >= 2
  /\ posting' = Front(batch) /\ batch' = <<Last(batch)>>
  /\ xpc' = "post"
  /\ UNCHANGED <<sinkVars, pipeVars, tail, cancelled, gateVars, ghostVars>>

\* Where the task goes once a post is over: a split's remainder is posted
\* next, unless the tail is being drained, which goes on receiving.
AfterPost ==
  IF tail THEN xpc' = "recv" /\ posting' = <<>> /\ UNCHANGED batch
  ELSE /\ posting' = batch /\ batch' = <<>>
       /\ xpc' = IF batch = <<>> THEN "diag" ELSE "post"

CollectorTook ==
  /\ taken' = taken \union IdsOfKind(posting, "call")
  /\ reported' = reported \union IdsOfKind(posting, "gap")

\* flush_audit, the collector answered 2xx.
PostDelivered ==
  /\ xpc = "post"
  /\ CollectorTook
  /\ healthy' = TRUE
  /\ AfterPost
  /\ UNCHANGED <<sinkVars, lost, queue, open, tail, cancelled, gateVars,
                 droppedIds, lostIds, inFile, tooLarge>>

\* flush_audit, the collector answered 413: counted as delivered.
PostTooLarge ==
  /\ xpc = "post"
  /\ tooLarge' = tooLarge \union IdsOf(posting)
  /\ healthy' = TRUE
  /\ AfterPost
  /\ UNCHANGED <<sinkVars, lost, queue, open, tail, cancelled, gateVars,
                 droppedIds, lostIds, inFile, taken, reported>>

\* flush_audit, the request failed or was refused.  An error also covers a
\* request the collector took and whose answer never arrived.
PostFailed ==
  /\ xpc = "post"
  /\ lost' = lost + Len(posting)
  /\ lostIds' = lostIds \union IdsOf(posting)
  /\ \/ CollectorTook
     \/ UNCHANGED <<taken, reported>>
  /\ posting' = <<>>
  /\ xpc' = "mark"
  /\ UNCHANGED <<sinkVars, healthy, queue, open, batch, tail, cancelled,
                 gateVars, droppedIds, inFile, tooLarge>>

\* note_delivery(false), the second half of a failed flush_audit.
MarkUnhealthy ==
  /\ xpc = "mark"
  /\ healthy' = FALSE
  /\ AfterPost
  /\ UNCHANGED <<sinkVars, lost, queue, open, tail, cancelled, gateVars,
                 ghostVars>>

\* (mutant) the task ends on the shutdown token without emptying the tail.
FlushDiagNoTail ==
  /\ xpc = "diag"
  /\ healthy' \in {healthy, FALSE}
  /\ open' = (open /\ ~cancelled)
  /\ tail' = cancelled
  /\ xpc' = IF cancelled THEN "done" ELSE "recv"
  /\ UNCHANGED <<sinkVars, lost, queue, batch, posting, cancelled, gateVars,
                 ghostVars>>

\* flush_diag: a failed diagnostics batch closes the latch, a delivered or
\* an empty one leaves it alone.  Then the next window opens, or the
\* channels are closed and their tail drained, or the task is done.
FlushDiag ==
  /\ xpc = "diag"
  /\ healthy' \in {healthy, FALSE}
  /\ open' = (open /\ ~cancelled)
  /\ tail' = cancelled
  /\ xpc' = IF tail THEN "done" ELSE "recv"
  /\ UNCHANGED <<sinkVars, lost, queue, batch, posting, cancelled, gateVars,
                 ghostVars>>

\* Pipeline::shutdown.
Shutdown ==
  /\ HasExport /\ ~cancelled
  /\ cancelled' = TRUE
  /\ UNCHANGED <<sinkVars, pipeVars, batch, posting, xpc, tail, gateVars,
                 ghostVars>>

ExportStep ==
  \/ Receive \/ StartPost \/ SplitBatch
  \/ PostDelivered \/ PostTooLarge \/ PostFailed \/ MarkUnhealthy
  \/ FlushDiag

-----------------------------------------------------------------------------
(* AuditSink::failing: peek at the losses, then the mirror, then delivery. *)

\* A record loss the accounting knows of and no gap record has reported.
Pending == lostIds \union droppedIds

\* The holder has peeked at a zero `lost` and its mirror for what the
\* exporter counted since is still to come.
AbsorbWindow == pc \in {"take", "mirror"} /\ ~flag

Refuse == gate' = "fail" /\ watch' = {} /\ exposed' = FALSE
ReadNext(g) == gate' = g /\ UNCHANGED <<watch, exposed>>

\* (mutant) the gate trusts the mirror and the latch alone.
GatePeekSkipped ==
  /\ gate \in {"pass", "fail"}
  /\ gate' = "flag" /\ watch' = Pending /\ exposed' = AbsorbWindow
  /\ UNCHANGED <<sinkVars, pipeVars, taskVars, ghostVars>>

GatePeek ==
  /\ gate \in {"pass", "fail"}
  /\ IF HasExport /\ lost > 0
     THEN Refuse
     ELSE gate' = "flag" /\ watch' = Pending /\ exposed' = AbsorbWindow
  /\ UNCHANGED <<sinkVars, pipeVars, taskVars, ghostVars>>

GateReadFlag ==
  /\ gate = "flag"
  /\ IF flag THEN Refuse ELSE ReadNext(IF HasExport THEN "health" ELSE "pass")
  /\ UNCHANGED <<sinkVars, pipeVars, taskVars, ghostVars>>

GateReadHealth ==
  /\ gate = "health"
  /\ IF ~healthy THEN Refuse ELSE ReadNext("pass")
  /\ UNCHANGED <<sinkVars, pipeVars, taskVars, ghostVars>>

-----------------------------------------------------------------------------
RecordStep ==
  \/ \E c \in Calls : Begin(c)
  \/ TakeLost \/ MirrorLost
  \/ WriteGap \/ ClearGap \/ WriteOwn \/ Refused \/ Fail

GateStep == GatePeek \/ GateReadFlag \/ GateReadHealth

Next ==
  \/ RecordStep
  \/ ExportStep
  \/ Shutdown
  \/ GateStep

Spec == Init /\ [][Next]_vars

\* The drain task is polled by the runtime for as long as the process
\* lives, a request ends by EXPORT_TIMEOUT and a window by BATCH_INTERVAL;
\* nothing obliges a call, the gate or a shutdown to come.
FairSpec == Spec /\ WF_vars(ExportStep)
-----------------------------------------------------------------------------
\* The sink, the pipeline and the drain task keep their types, and the audit
\* queue and the batch their bounds (QUEUE_CAPACITY, MAX_BATCH).
TypeOK ==
  /\ holder \in Calls \union {NoCall}
  /\ pc \in {"free", "take", "mirror", "gap", "clear", "own", "refuse", "fail"}
  /\ call \in [Calls -> {"idle", "recording", "ok", "err"}]
  /\ seq \in Nat /\ dropped \in Nat /\ lost \in Nat
  /\ flag \in BOOLEAN /\ healthy \in BOOLEAN /\ open \in BOOLEAN
  /\ queue \in Seq(Entry) /\ batch \in Seq(Entry) /\ posting \in Seq(Entry)
  /\ Len(queue) <= QueueCapacity /\ Len(batch) <= MaxBatch
  /\ xpc \in {"recv", "post", "mark", "diag", "done"}
  /\ tail \in BOOLEAN /\ cancelled \in BOOLEAN
  /\ gate \in {"pass", "fail", "flag", "health"} /\ exposed \in BOOLEAN
  /\ {droppedIds, lostIds, inFile, taken, tooLarge, reported, watch}
       \subseteq SUBSET Calls

\* Between two records the mirror the gate reads and the count the next
\* audit_gap reports agree: a stale TRUE would refuse work after the loss
\* was reported, a stale FALSE would let work through before it is.
MirrorMatchesCount == pc = "free" => (flag <=> dropped > 0)

\* A gate that met neither of the holder's two windows - begun inside an
\* AbsorbWindow, or under way when the mirror came down in a ClearWindow -
\* never answers "healthy" while one and the same loss was on the books from
\* its first read to its last: outside them, peek, mirror, delivery is an
\* order no drain can slip through.
GateSeesSettledLoss == (gate = "pass" /\ ~exposed) => watch = {}

\* Every configured destination holds the record, or will be offered it.
Held(c) ==
  /\ HasFile => c \in inFile
  /\ HasExport => c \in taken \union tooLarge \union IdsOfKind(InFlight, "call")

\* Some count that a later audit_gap reports includes the loss of c, a gap
\* record that includes it is on its way, or one has arrived.
Accounted(c) ==
  c \in Pending \union IdsOfKind(InFlight, "gap") \union reported \union tooLarge

\* No record is lost silently: once `record` has returned, the record is
\* held or its loss accounted for, and a loss on the books is a count above
\* zero, so the next record writes the gap.
NoSilentLoss ==
  /\ \A c \in Calls : call[c] \in {"ok", "err"} => Held(c) \/ Accounted(c)
  /\ (lostIds # {}) <=> (lost > 0)
  /\ (droppedIds # {}) <=> (dropped > 0)

\* "The file never lacks a record the collector has" (audit.rs:22).
FileLeadsCollector ==
  HasFile => taken \union IdsOfKind(InFlight, "call") \subseteq inFile

\* What is on its way to the collector is in `seq` order, across the batch
\* splits and the re-queued last record.
ExportInSeqOrder ==
  \A i, j \in 1..Len(InFlight) : i < j => InFlight[i].seq < InFlight[j].seq

\* Custody ends: an accepted record does not stay in the queue or the batch
\* for ever, through outages and through the shutdown that closes the
\* channel while calls are still being recorded.
AcceptedSettles ==
  \A c \in Calls :
    (c \in IdsOfKind(InFlight, "call")) ~> (c \notin IdsOfKind(InFlight, "call"))

\* The collector trails the file, record by record.
CollectorTrailsFile == FileLeadsCollector /\ ExportInSeqOrder
=============================================================================
