---------------------------- MODULE CallRecord ----------------------------
(***************************************************************************)
(* One tool call and its one audit record: call_tool of server.rs, the     *)
(* abandonment slot it shares with its drop guard and with the shutdown    *)
(* flush, the blocking-pool write, and the two ways the process ends.      *)
(*                                                                         *)
(* A call's future runs between await points; at an await it may be        *)
(* dropped, and its session's end or the runtime's end do drop it.  The    *)
(* write of the record runs on the blocking pool and outlives the future   *)
(* that waits for it.  The flush runs beside them all, after a signal.     *)
(*                                                                         *)
(* The audit sink appears as it does to these callers: `record` succeeds   *)
(* or fails, and `failing` is what the gate last made of it (AuditSink).   *)
(***************************************************************************)
EXTENDS Naturals, Sequences, SequencesExt

CONSTANTS
  Calls,
  NoCall,     \* "the flush has no call in hand"
  FailMode,   \* "open", "closed_writes_denials" or "closed_all"
  HasExport,  \* a collector is configured, so delivery can fail by itself
  Tools       \* the kinds of call a client makes

ASSUME NoCallAssumption == NoCall \notin Calls
ASSUME FailModeAssumption ==
  FailMode \in {"open", "closed_writes_denials", "closed_all"}
ASSUME HasExportAssumption == HasExport \in BOOLEAN
\* "outOfContract" mixes lifecycles; "unrouted" is a name the router or the
\* caller's scope does not reach; the rest are tools, by WRITE_TOOLS.
ASSUME ToolsAssumption ==
  Tools \subseteq {"outOfContract", "unrouted", "read", "write"}

VARIABLES
  pc,        \* where each call's future is
  tool,      \* what it asks for
  slot,      \* AbandonedSlot::state
  job,       \* its write on the blocking pool
  result,    \* what the handler, or the refusal, would answer
  withheld,  \* the guard's verdict is Denied, Refused or ServedFiltered
  reply,     \* what the client was answered
  failing,   \* AuditSink::failing
  registry,  \* AbandonedRegistry::slots, in registration order
  process,   \* how far the process is
  todo,      \* flush: the rest of its snapshot
  cur,       \* flush: the slot in hand
  fpc,       \* flush: its next step
  \* History variables.
  attempts,  \* calls of AuditSink::record made for each call
  kept,      \* calls whose record the sink kept
  snapshot,  \* the calls the flush set out to settle
  counted    \* the calls its return value counts as failures

callVars == <<pc, tool, slot, job, result, withheld, reply>>
flushVars == <<todo, cur, fpc, snapshot, counted>>
sinkVars == <<failing, attempts, kept>>
vars == <<callVars, sinkVars, registry, process, flushVars>>

Alive == process # "exited"
\* The runtime still polls tasks; once it drops them, a poll under way goes
\* on to its next await.
Polling == process \notin {"dropping", "exited"}

Init ==
  /\ pc = [c \in Calls |-> "idle"]
  /\ tool = [c \in Calls |-> "none"]
  /\ slot = [c \in Calls |-> "none"]
  /\ job = [c \in Calls |-> "none"]
  /\ result = [c \in Calls |-> "none"]
  /\ withheld = [c \in Calls |-> FALSE]
  /\ reply = [c \in Calls |-> "none"]
  /\ failing = FALSE /\ registry = <<>> /\ process = "serving"
  /\ todo = <<>> /\ cur = NoCall /\ fpc = "off"
  /\ attempts = [c \in Calls |-> 0]
  /\ kept = {} /\ snapshot = {} /\ counted = {}

-----------------------------------------------------------------------------
\* AuditSink::record for the call c, seen from outside: a kept record clears
\* the failure it reports, a lost one raises it; the collector's own health
\* may leave `failing` raised although the record was accepted.
Record(c, ok) ==
  /\ attempts' = [attempts EXCEPT ![c] = @ + 1]
  /\ kept' = IF ok THEN kept \union {c} ELSE kept
  /\ failing' \in IF ~ok THEN {TRUE} ELSE IF HasExport THEN BOOLEAN ELSE {FALSE}

\* The exporter loses a batch, or delivers one again.
ExporterReports ==
  /\ HasExport /\ Alive
  /\ failing' = ~failing
  /\ UNCHANGED <<callVars, attempts, kept, registry, process, flushVars>>

\* gate_applies.
GateApplies(t) ==
  \/ FailMode = "closed_all"
  \/ FailMode = "closed_writes_denials" /\ t = "write"

\* The serve loop spawns the request's task.
Spawn(c) ==
  /\ process = "serving" /\ pc[c] = "idle"
  /\ pc' = [pc EXCEPT ![c] = "spawned"]
  /\ \E t \in Tools : tool' = [tool EXCEPT ![c] = t]
  /\ UNCHANGED <<slot, job, result, withheld, reply, sinkVars, registry,
                 process, flushVars>>

\* record_event hands the write to the blocking pool and awaits it.
QueueWrite(c) == job' = [job EXCEPT ![c] = "queued"]

\* A refusal that is recorded as best it can and answered either way.
RefuseRecorded(c, r) ==
  /\ QueueWrite(c)
  /\ result' = [result EXCEPT ![c] = r]
  /\ pc' = [pc EXCEPT ![c] = "refusing"]

\* (mutant) the gate meets every name.
GateClosesUnrouted(c) == GateApplies(tool[c]) /\ failing

\* Only a name the router would have dispatched, within the caller's scope,
\* meets the gate.
GateCloses(c) ==
  tool[c] \in {"read", "write"} /\ GateApplies(tool[c]) /\ failing

\* call_tool up to the fail-mode gate.
Gate(c) ==
  /\ Polling /\ pc[c] = "spawned"
  /\ \/ tool[c] = "outOfContract" /\ RefuseRecorded(c, "error")
     \/ GateCloses(c) /\ RefuseRecorded(c, "refusal")
     \/ /\ tool[c] # "outOfContract" /\ ~GateCloses(c)
        /\ pc' = [pc EXCEPT ![c] = "register"]
        /\ UNCHANGED <<job, result>>
  /\ UNCHANGED <<tool, slot, withheld, reply, sinkVars, registry, process,
                 flushVars>>

\* Build the slot and the drop guard, and register the slot.
Register(c) ==
  /\ Alive /\ pc[c] = "register"
  /\ slot' = [slot EXCEPT ![c] = "armed"]
  /\ registry' = Append(registry, c)
  /\ pc' = [pc EXCEPT ![c] = "dispatch"]
  /\ UNCHANGED <<tool, job, result, withheld, reply, sinkVars, process,
                 flushVars>>

\* The dispatch await ends: a result with the guard's verdict in the cell,
\* or a protocol error (a recovered panic is one).
HandlerEnds(c) ==
  /\ Polling /\ pc[c] = "dispatch"
  /\ \E r \in {"result", "error"}, w \in BOOLEAN :
       /\ tool[c] = "unrouted" => r = "error" /\ ~w
       /\ result' = [result EXCEPT ![c] = r]
       /\ withheld' = [withheld EXCEPT ![c] = w]
  /\ pc' = [pc EXCEPT ![c] = "claim"]
  /\ UNCHANGED <<tool, slot, job, reply, sinkVars, registry, process, flushVars>>

Reply(c, r) ==
  /\ reply' = [reply EXCEPT ![c] = r]
  /\ pc' = [pc EXCEPT ![c] = "returned"]

\* claim_for_persist, and the write it allows; a flush that claimed first
\* leaves the result to be returned at once.
ClaimForPersist(c) ==
  /\ Alive /\ pc[c] = "claim"
  /\ \/ /\ slot[c] = "armed"
        /\ slot' = [slot EXCEPT ![c] = "writing"]
        /\ QueueWrite(c)
        /\ pc' = [pc EXCEPT ![c] = "persist"]
        /\ UNCHANGED reply
     \/ /\ slot[c] # "armed"
        /\ Reply(c, result[c])
        /\ UNCHANGED <<slot, job>>
  /\ UNCHANGED <<tool, result, withheld, sinkVars, registry, process, flushVars>>

\* The blocking pool runs the write, whether or not anybody still waits.
RunWrite(c) ==
  /\ Alive /\ job[c] = "queued"
  /\ \E ok \in BOOLEAN :
       /\ Record(c, ok)
       /\ job' = [job EXCEPT ![c] = IF ok THEN "kept" ELSE "lost"]
  /\ UNCHANGED <<pc, tool, slot, result, withheld, reply, registry, process,
                 flushVars>>

\* (mutant) the fail mode is open.
AnswerUnrecordedOpen(c) == result[c]

\* What a call whose record was lost may still be answered.
AnswerUnrecorded(c) ==
  IF \/ result[c] = "error" \/ FailMode = "open"
     \/ FailMode = "closed_writes_denials" /\ tool[c] # "write" /\ ~withheld[c]
  THEN result[c] ELSE "refusal"

\* The write's await ends: mark_done, then the fail-mode arms.
Answer(c) ==
  /\ Polling /\ pc[c] = "persist" /\ job[c] \in {"kept", "lost"}
  /\ slot' = [slot EXCEPT ![c] = "done"]
  /\ Reply(c, IF job[c] = "kept" THEN result[c] ELSE AnswerUnrecorded(c))
  /\ UNCHANGED <<tool, job, result, withheld, sinkVars, registry, process,
                 flushVars>>

AnswerRefusal(c) ==
  /\ Polling /\ pc[c] = "refusing" /\ job[c] \in {"kept", "lost"}
  /\ Reply(c, result[c])
  /\ UNCHANGED <<tool, slot, job, result, withheld, sinkVars, registry,
                 process, flushVars>>

-----------------------------------------------------------------------------
\* (mutant) no drop guard.
DropUnguarded(c) ==
  /\ Alive /\ pc[c] \in {"spawned", "refusing", "dispatch", "persist"}
  /\ pc' = [pc EXCEPT ![c] = "dropped"]
  /\ UNCHANGED <<tool, slot, job, result, withheld, reply, sinkVars, registry,
                 process, flushVars>>

\* (mutant) the guard claims a slot that is being written.
DropSteals(c) ==
  /\ Alive /\ pc[c] \in {"spawned", "refusing", "dispatch", "persist"}
  /\ IF slot[c] \in {"armed", "writing"}
     THEN /\ slot' = [slot EXCEPT ![c] = "flushed"]
          /\ pc' = [pc EXCEPT ![c] = "drain"]
     ELSE /\ pc' = [pc EXCEPT ![c] = "dropped"]
          /\ UNCHANGED slot
  /\ UNCHANGED <<tool, job, result, withheld, reply, sinkVars, registry,
                 process, flushVars>>

\* The future is dropped at one of its awaits, or before its first poll.
\* AbandonedGuard::drop claims what is still armed and leaves the rest alone.
Drop(c) ==
  /\ Alive /\ pc[c] \in {"spawned", "refusing", "dispatch", "persist"}
  /\ IF slot[c] = "armed"
     THEN /\ slot' = [slot EXCEPT ![c] = "flushed"]
          /\ pc' = [pc EXCEPT ![c] = "drain"]
     ELSE /\ pc' = [pc EXCEPT ![c] = "dropped"]
          /\ UNCHANGED slot
  /\ UNCHANGED <<tool, job, result, withheld, reply, sinkVars, registry,
                 process, flushVars>>

\* drain_cell under the drop guard.
DrainDropped(c) ==
  /\ Alive /\ pc[c] = "drain"
  /\ \E ok \in BOOLEAN : Record(c, ok)
  /\ pc' = [pc EXCEPT ![c] = "dropped"]
  /\ UNCHANGED <<tool, slot, job, result, withheld, reply, registry, process,
                 flushVars>>

-----------------------------------------------------------------------------
(* The signal arm of main: cancel, AbandonedRegistry::flush, the           *)
(* exporter's shutdown, process::exit.                                     *)

Signal ==
  /\ process = "serving"
  /\ process' = "flushing"
  /\ todo' = registry /\ snapshot' = ToSet(registry) /\ fpc' = "next"
  /\ UNCHANGED <<callVars, sinkVars, registry, cur, counted>>

\* The weak entry still upgrades: the future, or its drop guard, holds it.
SlotLives(c) == pc[c] \notin {"returned", "dropped"}

\* Take the next entry: claim it if it is armed, wait if it is writing.
FlushNext ==
  /\ Alive /\ fpc = "next" /\ todo # <<>>
  /\ LET c == Head(todo) IN
       /\ todo' = Tail(todo)
       /\ IF SlotLives(c) /\ slot[c] = "armed"
          THEN /\ slot' = [slot EXCEPT ![c] = "flushed"]
               /\ cur' = c /\ fpc' = "drain"
          ELSE /\ UNCHANGED slot
               /\ IF SlotLives(c) /\ slot[c] = "writing"
                  THEN cur' = c /\ fpc' = "wait"
                  ELSE UNCHANGED <<cur, fpc>>
  /\ UNCHANGED <<pc, tool, job, result, withheld, reply, sinkVars, registry,
                 process, snapshot, counted>>

Settled == cur' = NoCall /\ fpc' = "next"

\* drain_cell under the flush.
FlushDrain ==
  /\ Alive /\ fpc = "drain"
  /\ \E ok \in BOOLEAN :
       /\ Record(cur, ok)
       /\ counted' = IF ok THEN counted ELSE counted \union {cur}
  /\ Settled
  /\ UNCHANGED <<callVars, registry, process, todo, snapshot>>

\* The poll loop: done, or past FLUSH_DEADLINE and counted.
FlushSeesDone ==
  /\ Alive /\ fpc = "wait" /\ slot[cur] = "done"
  /\ Settled
  /\ UNCHANGED <<callVars, sinkVars, registry, process, todo, snapshot, counted>>

\* (mutant) an expired wait is not counted.
FlushExpiresUncounted ==
  /\ Alive /\ fpc = "wait"
  /\ Settled
  /\ UNCHANGED <<callVars, sinkVars, registry, process, todo, snapshot, counted>>

FlushExpires ==
  /\ Alive /\ fpc = "wait"
  /\ counted' = counted \union {cur}
  /\ Settled
  /\ UNCHANGED <<callVars, sinkVars, registry, process, todo, snapshot>>

FlushEnds ==
  /\ fpc = "next" /\ todo = <<>>
  /\ fpc' = "over" /\ process' = "shutdown"
  /\ UNCHANGED <<callVars, sinkVars, registry, todo, cur, snapshot, counted>>

\* process::exit: no drop runs and nothing is waited for.
ProcessExit ==
  /\ process = "shutdown"
  /\ process' = "exited"
  /\ UNCHANGED <<callVars, sinkVars, registry, flushVars>>

-----------------------------------------------------------------------------
(* The other arm, and http: serving ends, main shuts the exporter down and *)
(* returns, and the runtime's drop takes every task with it.               *)

ServingEnds ==
  /\ process = "serving"
  /\ process' = "closing"
  /\ UNCHANGED <<callVars, sinkVars, registry, flushVars>>

MainReturns ==
  /\ process = "closing"
  /\ process' = "dropping"
  /\ UNCHANGED <<callVars, sinkVars, registry, flushVars>>

\* The runtime's blocking pool lets a running closure finish and discards
\* one that it had not started.
DiscardWrite(c) ==
  /\ process = "dropping" /\ job[c] = "queued"
  /\ job' = [job EXCEPT ![c] = "discarded"]
  /\ UNCHANGED <<pc, tool, slot, result, withheld, reply, sinkVars, registry,
                 process, flushVars>>

RuntimeDropped ==
  /\ process = "dropping"
  /\ \A c \in Calls : /\ pc[c] \in {"idle", "returned", "dropped"}
                      /\ job[c] # "queued"
  /\ process' = "exited"
  /\ UNCHANGED <<callVars, sinkVars, registry, flushVars>>

-----------------------------------------------------------------------------
\* What a call does by itself once its task exists.
CallStep(c) ==
  \/ Gate(c) \/ Register(c) \/ HandlerEnds(c) \/ ClaimForPersist(c)
  \/ Answer(c) \/ AnswerRefusal(c)
  \/ DrainDropped(c)

FlushStep ==
  FlushNext \/ FlushDrain \/ FlushSeesDone \/ FlushExpires \/ FlushEnds

EndStep ==
  ProcessExit \/ MainReturns \/ RuntimeDropped

Next ==
  \/ \E c \in Calls :
       Spawn(c) \/ CallStep(c) \/ RunWrite(c) \/ Drop(c) \/ DiscardWrite(c)
  \/ ExporterReports
  \/ Signal \/ ServingEnds
  \/ FlushStep \/ EndStep

Spec == Init /\ [][Next]_vars

\* The runtime polls a woken task and the pool runs a queued write; a
\* handler's upstream requests carry the client's timeout, the flush's wait
\* has FLUSH_DEADLINE, and the exporter's shutdown is bounded.  The runtime
\* being dropped drops every task.  No call, signal or hangup is obliged to
\* come.
FairSpec ==
  /\ Spec
  /\ \A c \in Calls :
       /\ WF_vars(CallStep(c)) /\ WF_vars(RunWrite(c))
       /\ WF_vars(process = "dropping" /\ Drop(c))
  /\ WF_vars(FlushStep) /\ WF_vars(EndStep)
-----------------------------------------------------------------------------
\* The calls, their slots, the flush and the process are in states they know.
TypeOK ==
  /\ pc \in [Calls -> {"idle", "spawned", "refusing", "register", "dispatch",
                       "claim", "persist", "drain", "returned", "dropped"}]
  /\ tool \in [Calls -> Tools \union {"none"}]
  /\ slot \in [Calls -> {"none", "armed", "writing", "done", "flushed"}]
  /\ job \in [Calls -> {"none", "queued", "kept", "lost", "discarded"}]
  /\ result \in [Calls -> {"none", "result", "error", "refusal"}]
  /\ withheld \in [Calls -> BOOLEAN]
  /\ reply \in [Calls -> {"none", "result", "error", "refusal"}]
  /\ failing \in BOOLEAN
  /\ registry \in Seq(Calls) /\ todo \in Seq(Calls)
  /\ process \in {"serving", "flushing", "shutdown", "closing", "dropping",
                  "exited"}
  /\ fpc \in {"off", "next", "drain", "wait", "over"}
  /\ cur \in Calls \union {NoCall}
  /\ fpc \in {"drain", "wait"} => cur \in Calls
  /\ attempts \in [Calls -> Nat]
  /\ {kept, snapshot, counted} \subseteq SUBSET Calls

\* A call is owed a record from the moment call_tool has begun to run.
Owed == {c \in Calls : \/ pc[c] = "register"
                       \/ slot[c] # "none" \/ job[c] # "none"}

\* Exactly one writer claims a call's record, however its own persist, the
\* drop of its future, the flush and the runtime's end interleave: the code
\* implements the ledger, in which a record is written once at most.
Ledger == INSTANCE CallLedger WITH owed <- Owed, over <- ~Alive
ImplementsLedger == Ledger!LedgerSpec

\* While the process lives, a record owed and not yet attempted has somebody
\* who will attempt it: no hand-over between the call, its drop guard, the
\* flush and the blocking pool leaves it with nobody.
HasOwner(c) ==
  \/ pc[c] = "register" \/ pc[c] = "drain"
  \/ slot[c] = "armed" /\ pc[c] \in {"dispatch", "claim"}
  \/ job[c] = "queued"
  \/ fpc = "drain" /\ cur = c
NoOrphan ==
  process \notin {"dropping", "exited"} =>
    \A c \in Owed : attempts[c] > 0 \/ HasOwner(c)

\* What the flush's return value says: each call it set out to settle was
\* attempted or is counted, but for one whose future is dropped at the same
\* time and whose write is then in other hands.
FlushAccounts ==
  fpc = "over" =>
    \A c \in snapshot :
      \/ attempts[c] > 0 \/ c \in counted
      \/ pc[c] = "drain"
      \/ pc[c] = "dropped" /\ job[c] = "queued"

\* A client never holds an answer that its fail mode withholds when the
\* record is lost, unless the shutdown flush took the record over.
FailModeHolds ==
  \A c \in Calls :
    /\ reply[c] = "result"
    /\ \/ FailMode = "closed_all"
       \/ FailMode = "closed_writes_denials" /\ (tool[c] = "write" \/ withheld[c])
    => c \in kept \/ slot[c] = "flushed"

\* Sink health is not readable off a name the caller cannot reach: such a
\* call is a protocol error under every fail mode and every outage.
OutageHidesNoTool ==
  \A c \in Calls : tool[c] = "unrouted" => reply[c] \in {"none", "error"}

\* Every record owed is attempted while the process lives on.
OwedIsAttempted ==
  \A c \in Calls : (c \in Owed) ~> (attempts[c] > 0 \/ ~Alive \/ process = "dropping")

\* A signal or a hangup ends the process, whatever calls are in flight.
ProcessEnds == (process \in {"flushing", "closing"}) ~> ~Alive

\* Nothing is left owed while the process lives on, and the process ends.
Progress == OwedIsAttempted /\ ProcessEnds
=============================================================================
