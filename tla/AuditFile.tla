----------------------------- MODULE AuditFile -----------------------------
(***************************************************************************)
(* The JSONL file half of the audit sink: write_event's line, its torn     *)
(* line repair, the size accounting, the numbered shift rotation, and the  *)
(* restart of a process on what its predecessor left.                      *)
(*                                                                         *)
(* Every step happens under the sink's mutex, so there is one writer; what *)
(* makes the file hard is that any system call may fail and the process    *)
(* may die between any two of them.  A name and a file are therefore kept  *)
(* apart: `dir` maps the live name (0) and the rotated names (1..Keep) to  *)
(* files, and the sink's open handle `fd` follows a file through renames,  *)
(* even out of the directory.                                              *)
(***************************************************************************)
EXTENDS Naturals, Sequences, SequencesExt

CONSTANTS
  Files,        \* file identities (inodes); one that no name reaches is reused
  NoFile,
  Keep,         \* rotate_keep
  RotateMax,    \* rotate_max_bytes; 0 turns rotation off
  Fsync,        \* the fsync knob
  Sizes,        \* lengths of a serialized record with its newline
  MaxAttempts,  \* bound on calls of `record`
  MaxRuns       \* bound on process lives

ASSUME KeepAssumption == Keep \in Nat \ {0}      \* AuditConfig::validate
ASSUME FilesAssumption == NoFile \notin Files
ASSUME SizesAssumption ==
  RotateMax \in Nat /\ Fsync \in BOOLEAN /\ Sizes \subseteq Nat \ {0}
ASSUME BoundsAssumption == MaxAttempts \in Nat /\ MaxRuns \in Nat

VARIABLES
  dir, data,    \* the directory, and the contents of every file
  fd,           \* SinkState::file
  size, seq, torn, dropped,    \* SinkState, fields of the same names
  pc,           \* the writer's next system call
  what, len,    \* the line in hand: a gap or the caller's own, and its length
  n,            \* rotate's loop variable: the slot renamed onto next
  run, attempts,
  \* History variables.
  rotFails,     \* rotations that failed since one last opened a new file
  debris        \* torn lines written since a record last succeeded

disk == <<dir, data>>
state == <<fd, size, seq, torn, dropped>>
vars == <<disk, state, pc, what, len, n, run, attempts, rotFails, debris>>

Slots == 0..Keep
Linked == {dir[i] : i \in Slots} \ {NoFile}

\* A file is a sequence of tokens: whole records, fragments and newlines.
Token == [t : {"nl", "frag", "rec"}, run : Nat, seq : Nat, len : Nat]
Newline == [t |-> "nl", run |-> 0, seq |-> 0, len |-> 1]
Fragment == [t |-> "frag", run |-> run, seq |-> 0, len |-> 1]
Record == [t |-> "rec", run |-> run, seq |-> seq + 1, len |-> len - 1]

\* (mutant) the repair newline is forgotten.
LineUnhealed == <<Record, Newline>>

\* The bytes of one write_all: the repair newline, the record, its newline.
Line == IF torn THEN <<Newline, Record, Newline>> ELSE <<Record, Newline>>

\* The length of a file, or of a line.
Bytes(s) ==
  LET upto[i \in 0..Len(s)] == IF i = 0 THEN 0 ELSE upto[i-1] + s[i].len
  IN upto[Len(s)]

\* What a write_all that fails may have put in the file: nothing, the repair
\* newline, part of the record, or all of it without its newline.
Partial ==
  LET before == IF torn THEN <<Newline>> ELSE <<>>
  IN {<<>>, before, Append(before, Fragment), Append(before, Record)}

Init ==
  /\ dir = [i \in Slots |-> NoFile]
  /\ data = [f \in Files |-> <<>>]
  /\ fd = NoFile /\ size = 0 /\ seq = 0 /\ torn = FALSE /\ dropped = 0
  /\ pc = "down" /\ what = "own" /\ len = 0 /\ n = 0
  /\ run = 0 /\ attempts = 0 /\ rotFails = 0 /\ debris = 0

-----------------------------------------------------------------------------
\* open_live_file: the live name's file, created empty if the name is free.
OpenLive ==
  IF dir[0] # NoFile THEN fd' = dir[0] /\ UNCHANGED disk
  ELSE \E f \in Files \ (Linked \union {fd}) :
         /\ fd' = f
         /\ dir' = [dir EXCEPT ![0] = f]
         /\ data' = [data EXCEPT ![f] = <<>>]

\* `record` returns: there is no line in hand any more.
Return == pc' = "idle" /\ what' = "own" /\ len' = 0 /\ n' = 0

\* AuditSink::open: the size comes from the file, everything else is fresh.
Open ==
  /\ pc = "down" /\ run < MaxRuns
  /\ OpenLive
  /\ size' = Bytes(data'[fd'])
  /\ seq' = 0 /\ torn' = FALSE /\ dropped' = 0
  /\ Return
  /\ run' = run + 1
  /\ rotFails' = 0 /\ debris' = 0
  /\ UNCHANGED attempts

\* `record` is called, or goes on after the gap record: stamp the line and
\* see whether it would push the file past the limit.
Stamp ==
  /\ pc \in {"idle", "next"}
  /\ pc = "idle" => attempts < MaxAttempts
  /\ attempts' = IF pc = "idle" THEN attempts + 1 ELSE attempts
  /\ what' = IF pc = "idle" /\ dropped > 0 THEN "gap" ELSE "own"
  /\ \E l \in Sizes :
       /\ len' = l
       /\ pc' = IF /\ RotateMax > 0 /\ size > 0
                   /\ size + l + (IF torn THEN 1 ELSE 0) > RotateMax
                THEN "remove" ELSE "write"
  /\ UNCHANGED <<disk, state, n, run, rotFails, debris>>

\* The record is lost: count it; the caller's own record goes with its gap.
Lose == Return /\ dropped' = dropped + 1

-----------------------------------------------------------------------------
(* AuditSink::rotate, one system call at a time.                           *)

\* Delete the oldest kept slot.
RemoveOldest ==
  /\ pc = "remove"
  /\ dir' = [dir EXCEPT ![Keep] = NoFile]
  /\ n' = Keep /\ pc' = "shift"
  /\ UNCHANGED <<data, state, what, len, run, attempts, rotFails, debris>>

\* (mutant) the shift links the old name instead of moving it.
ShiftCopies ==
  /\ pc = "shift"
  /\ dir' = IF dir[n-1] = NoFile THEN dir ELSE [dir EXCEPT ![n] = dir[n-1]]
  /\ n' = n - 1
  /\ pc' = IF n = 1 THEN "reopen" ELSE "shift"
  /\ UNCHANGED <<data, state, what, len, run, attempts, rotFails, debris>>

\* Rename slot n-1 onto slot n; slot 0 is the live file.  A name that is
\* not there has nothing to shift.
Shift ==
  /\ pc = "shift"
  /\ dir' = IF dir[n-1] = NoFile THEN dir
            ELSE [dir EXCEPT ![n] = dir[n-1], ![n-1] = NoFile]
  /\ n' = n - 1
  /\ pc' = IF n = 1 THEN "reopen" ELSE "shift"
  /\ UNCHANGED <<data, state, what, len, run, attempts, rotFails, debris>>

\* (mutant) the new live file is made, and the old handle kept.
ReopenOldHandle ==
  /\ pc = "reopen"
  /\ \E f \in Files \ (Linked \union {fd}) :
       dir' = [dir EXCEPT ![0] = f] /\ data' = [data EXCEPT ![f] = <<>>]
  /\ size' = 0 /\ rotFails' = 0
  /\ pc' = "syncdir"
  /\ UNCHANGED <<fd, seq, torn, dropped, what, len, n, run, attempts, debris>>

\* Recreate the live file.
Reopen ==
  /\ pc = "reopen"
  /\ OpenLive
  /\ size' = 0 /\ rotFails' = 0
  /\ pc' = "syncdir"
  /\ UNCHANGED <<seq, torn, dropped, what, len, n, run, attempts, debris>>

\* fsync the directory.
SyncDir ==
  /\ pc = "syncdir"
  /\ pc' = "write"
  /\ UNCHANGED <<disk, state, what, len, n, run, attempts, rotFails, debris>>

\* Any of the calls above may fail, leaving the ones before it done.
RotateFails ==
  /\ pc \in {"remove", "shift", "reopen", "syncdir"}
  /\ Lose
  /\ rotFails' = IF pc = "syncdir" THEN 0 ELSE rotFails + 1
  /\ UNCHANGED <<disk, fd, size, seq, torn, run, attempts, debris>>

-----------------------------------------------------------------------------
(* The write itself.                                                       *)

Extend(s) == data' = [data EXCEPT ![fd] = @ \o s]

WriteOk ==
  /\ pc = "write"
  /\ Extend(Line)
  /\ size' = size + Bytes(Line)
  /\ torn' = FALSE /\ seq' = seq + 1
  /\ dropped' = IF what = "gap" THEN 0 ELSE dropped
  /\ IF what = "gap" THEN pc' = "next" /\ UNCHANGED <<what, len, n>> ELSE Return
  /\ debris' = 0
  /\ UNCHANGED <<dir, fd, run, attempts, rotFails>>

\* (mutant) a failed write spends its number.
WriteFailsSpends ==
  /\ pc = "write"
  /\ \E s \in Partial : Extend(s) /\ debris' = debris
  /\ torn' = TRUE /\ seq' = seq + 1
  /\ Lose
  /\ UNCHANGED <<dir, fd, size, run, attempts, rotFails>>

\* write_all fails after some bytes, or sync_data after all of them.
WriteFails ==
  /\ pc = "write"
  /\ \E s \in Partial \union (IF Fsync THEN {Line} ELSE {}) :
       /\ Extend(s)
       /\ debris' = IF Fragment \in ToSet(s) THEN debris + 1 ELSE debris
  /\ torn' = TRUE
  /\ Lose
  /\ UNCHANGED <<dir, fd, size, seq, run, attempts, rotFails>>

\* The process dies: between two calls, or inside a write_all.
Crash ==
  /\ pc # "down"
  /\ \/ UNCHANGED data
     \/ pc = "write" /\ \E s \in Partial : Extend(s)
  /\ pc' = "down" /\ fd' = NoFile
  /\ size' = 0 /\ seq' = 0 /\ torn' = FALSE /\ dropped' = 0
  /\ what' = "own" /\ len' = 0 /\ n' = 0
  /\ UNCHANGED <<dir, run, attempts, rotFails, debris>>

Next ==
  \/ Open \/ Stamp
  \/ RemoveOldest \/ Shift \/ Reopen \/ SyncDir \/ RotateFails
  \/ WriteOk \/ WriteFails \/ Crash

Spec == Init /\ [][Next]_vars

-----------------------------------------------------------------------------
\* The directory, the files and SinkState keep their types.
TypeOK ==
  /\ dir \in [Slots -> Files \union {NoFile}]
  /\ fd \in Files \union {NoFile}
  /\ data \in [Files -> Seq(Token)]
  /\ {size, seq, dropped, len, run, attempts, rotFails, debris} \subseteq Nat
  /\ torn \in BOOLEAN /\ what \in {"gap", "own"} /\ n \in Slots
  /\ pc \in {"down", "idle", "next", "remove", "shift", "reopen", "syncdir",
             "write"}

\* No file is under two names: a rename moves, it does not copy.
OneNamePerFile ==
  \A i, j \in Slots : dir[i] = dir[j] /\ dir[i] # NoFile => i = j

\* The places in the files that have a name, slot and token, the records among
\* them, and the order an operator reads them in: from the oldest kept slot to
\* the live file.
Places == UNION {{i} \X DOMAIN data[dir[i]] : i \in {j \in Slots : dir[j] # NoFile}}
At(p) == data[dir[p[1]]][p[2]]
History == {p \in Places : At(p).t = "rec"}
Before(p, q) == p[1] > q[1] \/ (p[1] = q[1] /\ p[2] < q[2])

\* The record b may be the next one after a: it follows it in number, repeats
\* its number after a failed write, or starts a later process's numbering.
Follows(a, b) ==
  \/ a.run = b.run /\ b.seq \in {a.seq, a.seq + 1}
  \/ a.run < b.run /\ b.seq = 1

\* "File order equals `seq` order ... the seqs on disk are contiguous"
\* (audit.rs:487), across failed rotations, crashes inside one and restarts:
\* every record may follow the one the operator reads before it.
HistoryContiguous ==
  \A p, q \in History :
    Before(p, q) /\ (\A r \in History : ~(Before(p, r) /\ Before(r, q)))
      => Follows(At(p), At(q))

\* A record that follows something else on its line.
Glued(f, k) == k > 1 /\ data[f][k].t = "rec" /\ data[f][k-1].t # "nl"

\* The repair newline keeps every record on a line of its own, however the
\* writes before it failed; only the first record of a process may meet the
\* debris of the process before it.
RecordsParse ==
  \A f \in Linked : \A k \in 1..Len(data[f]) :
    Glued(f, k) => data[f][k].seq = 1 /\ data[f][k].run > 1

\* A record acknowledged is a record somebody can read: the file it went to
\* still has a name, unless more rotations in a row have failed than there
\* are slots to push that file through.
AckedRecordsHaveAName ==
  [][seq' > seq /\ rotFails <= Keep => fd' \in Linked']_vars

\* The size rotation goes by is never more than the file holds, through a
\* rotation that failed half way and a restart on an old file: an overstated
\* size would rotate a file that still has room, and push history out.
SizeNotOverstated == pc # "down" => size <= Bytes(data[fd])

\* The files on disk and what the sink believes of them: no file has two
\* names, the size the sink keeps never runs ahead of the file, and every
\* variable holds what its comment says.
FileInv == TypeOK /\ OneNamePerFile /\ SizeNotOverstated
=============================================================================
