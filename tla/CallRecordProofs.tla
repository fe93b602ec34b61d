-------------------------- MODULE CallRecordProofs --------------------------
(***************************************************************************)
(* Theorems of CallRecord, for any set of calls and every fail mode: one   *)
(* record per call at most (the ledger is implemented), no record owed     *)
(* without an owner while the process serves, and the fail mode's promise  *)
(* to the client.                                                          *)
(***************************************************************************)
EXTENDS CallRecord, TLAPS

CallStepAny(c) ==
  Spawn(c) \/ CallStep(c) \/ RunWrite(c) \/ Drop(c) \/ DiscardWrite(c)

\* `record` changes only the history variables of one call and `failing`.
LEMMA RecordType ==
  ASSUME TypeOK, NEW c \in Calls, NEW ok \in BOOLEAN, Record(c, ok)
  PROVE  /\ attempts' \in [Calls -> Nat] /\ kept' \in SUBSET Calls
         /\ failing' \in BOOLEAN
         /\ attempts'[c] = attempts[c] + 1
         /\ \A d \in Calls : d # c => attempts'[d] = attempts[d]
<1>1. attempts \in [Calls -> Nat] /\ kept \in SUBSET Calls
  BY DEF TypeOK
<1>2. attempts' = [attempts EXCEPT ![c] = attempts[c] + 1]
  BY DEF Record
<1>3. kept' \in SUBSET Calls
  BY <1>1 DEF Record
<1>4. failing' \in BOOLEAN
  BY DEF Record
<1> QED BY <1>1, <1>2, <1>3, <1>4

LEMMA TypeInit == Init => TypeOK
<1> SUFFICES ASSUME Init PROVE TypeOK
  OBVIOUS
<1>1. registry \in Seq(Calls) /\ todo \in Seq(Calls)
  BY DEF Init
<1> QED BY <1>1 DEF Init, TypeOK

LEMMA TypeCall ==
  ASSUME TypeOK, NEW c \in Calls, CallStepAny(c)
  PROVE  TypeOK'
<1> USE ToolsAssumption DEF TypeOK, callVars, flushVars, sinkVars
<1>1. CASE Spawn(c)
  BY <1>1 DEF Spawn
<1>2. CASE Gate(c)
  BY <1>2, ZenonT(30) DEF Gate, RefuseRecorded, QueueWrite
<1>3. CASE Register(c)
  BY <1>3 DEF Register
<1>4. CASE HandlerEnds(c)
  BY <1>4 DEF HandlerEnds
<1>5. CASE ClaimForPersist(c)
  BY <1>5, ZenonT(30) DEF ClaimForPersist, QueueWrite, Reply
<1>6. CASE Answer(c)
  BY <1>6 DEF Answer, AnswerUnrecorded, Reply
<1>7. CASE AnswerRefusal(c)
  BY <1>7 DEF AnswerRefusal, Reply
<1>8. CASE DrainDropped(c)
  BY <1>8, RecordType DEF DrainDropped
<1>9. CASE RunWrite(c)
  BY <1>9, RecordType DEF RunWrite
<1>10. CASE Drop(c)
  BY <1>10, ZenonT(30) DEF Drop
<1>11. CASE DiscardWrite(c)
  BY <1>11 DEF DiscardWrite
<1> QED BY <1>1, <1>2, <1>3, <1>4, <1>5, <1>6, <1>7, <1>8, <1>9, <1>10, <1>11
        DEF CallStepAny, CallStep

LEMMA TypeOthers ==
  ASSUME TypeOK,
         ExporterReports \/ Signal \/ ServingEnds \/ FlushStep \/ EndStep
  PROVE  TypeOK'
<1> USE DEF TypeOK, callVars, flushVars, sinkVars
<1>1. CASE ExporterReports
  BY <1>1 DEF ExporterReports
<1>2. CASE Signal
  <2>1. ToSet(registry) \subseteq Calls
    BY DEF ToSet
  <2> QED BY <1>2, <2>1 DEF Signal
<1>3. CASE ServingEnds
  BY <1>3 DEF ServingEnds
<1>4. CASE FlushNext
  <2>1. Head(todo) \in Calls /\ Tail(todo) \in Seq(Calls)
    BY <1>4 DEF FlushNext
  <2> QED BY <1>4, <2>1 DEF FlushNext
<1>5. CASE FlushDrain
  <2>1. cur \in Calls
    BY <1>5 DEF FlushDrain
  <2> QED BY <1>5, <2>1, RecordType DEF FlushDrain, Settled
<1>6. CASE FlushSeesDone
  BY <1>6 DEF FlushSeesDone, Settled
<1>7. CASE FlushExpires
  BY <1>7 DEF FlushExpires, Settled
<1>8. CASE FlushEnds
  BY <1>8 DEF FlushEnds
<1>9. CASE ProcessExit
  BY <1>9 DEF ProcessExit
<1>10. CASE MainReturns
  BY <1>10 DEF MainReturns
<1>11. CASE RuntimeDropped
  BY <1>11 DEF RuntimeDropped
<1> QED BY <1>1, <1>2, <1>3, <1>4, <1>5, <1>6, <1>7, <1>8, <1>9, <1>10, <1>11
        DEF FlushStep, EndStep

LEMMA TypeStep == TypeOK /\ [Next]_vars => TypeOK'
<1>1. CASE UNCHANGED vars
  BY <1>1 DEF TypeOK, vars, callVars, flushVars, sinkVars
<1>2. CASE Next
  BY <1>2, TypeCall, TypeOthers DEF Next, CallStepAny
<1> QED BY <1>1, <1>2

\* The model's states are what their declarations say, along every step.
THEOREM TypeCorrect == Spec => []TypeOK
BY TypeInit, TypeStep, PTL DEF Spec

-----------------------------------------------------------------------------
(* One writer per record.  SlotInv says, for one call, which of the four   *)
(* possible writers may still be at work; Slots is the inductive invariant.*)

FlushDrains(c) == fpc = "drain" /\ cur = c

SlotInv(c) ==
  /\ attempts[c] \in {0, 1}
  /\ job[c] = "queued" => attempts[c] = 0
  /\ job[c] # "none" => slot[c] # "armed"
  /\ job[c] = "none" /\ slot[c] \in {"none", "armed"} => attempts[c] = 0
  /\ pc[c] = "drain" \/ FlushDrains(c) =>
       attempts[c] = 0 /\ job[c] = "none" /\ slot[c] = "flushed"
  /\ ~(pc[c] = "drain" /\ FlushDrains(c))
  /\ pc[c] \in {"idle", "spawned", "register"} =>
       slot[c] = "none" /\ job[c] = "none"

\* The flush is at work only between the signal and the exit it leads to.
FlushPhase == fpc \in {"next", "drain", "wait"} => process = "flushing"

Slots == TypeOK /\ FlushPhase /\ \A c \in Calls : SlotInv(c)

LEMMA SlotsInit == Init => Slots
BY TypeInit DEF Init, Slots, SlotInv, FlushDrains, FlushPhase

LEMMA SlotsCall ==
  ASSUME Slots, NEW c \in Calls, CallStepAny(c)
  PROVE  Slots'
<1>0. TypeOK'
  BY TypeCall DEF Slots
<1>a. FlushPhase'
  BY DEF Slots, FlushPhase, CallStepAny, CallStep, Spawn, Gate, Register,
         HandlerEnds, ClaimForPersist, Answer, AnswerRefusal, DrainDropped,
         RunWrite, Drop, DiscardWrite, flushVars
<1> SUFFICES ASSUME NEW d \in Calls PROVE SlotInv(d)'
  BY <1>0, <1>a DEF Slots
<1> USE DEF Slots, TypeOK, SlotInv, FlushDrains, callVars, flushVars, sinkVars
<1>1. CASE Spawn(c)
  BY <1>1 DEF Spawn
<1>2. CASE Gate(c)
  BY <1>2 DEF Gate, RefuseRecorded, QueueWrite
<1>3. CASE Register(c)
  BY <1>3 DEF Register
<1>4. CASE HandlerEnds(c)
  BY <1>4 DEF HandlerEnds
<1>5. CASE ClaimForPersist(c)
  BY <1>5 DEF ClaimForPersist, QueueWrite, Reply
<1>6. CASE Answer(c)
  BY <1>6 DEF Answer, Reply
<1>7. CASE AnswerRefusal(c)
  BY <1>7 DEF AnswerRefusal, Reply
<1>8. CASE DrainDropped(c)
  BY <1>8, RecordType DEF DrainDropped
<1>9. CASE RunWrite(c)
  BY <1>9, RecordType DEF RunWrite
<1>10. CASE Drop(c)
  BY <1>10, SMTT(30) DEF Drop
<1>11. CASE DiscardWrite(c)
  BY <1>11 DEF DiscardWrite
<1> QED BY <1>1, <1>2, <1>3, <1>4, <1>5, <1>6, <1>7, <1>8, <1>9, <1>10, <1>11
        DEF CallStepAny, CallStep

LEMMA SlotsOthers ==
  ASSUME Slots,
         ExporterReports \/ Signal \/ ServingEnds \/ FlushStep \/ EndStep
  PROVE  Slots'
<1>0. TypeOK'
  BY TypeOthers DEF Slots
<1>a. FlushPhase'
  BY DEF Slots, FlushPhase, FlushStep, EndStep, ExporterReports, Signal,
         ServingEnds, FlushNext, FlushDrain, FlushSeesDone, FlushExpires,
         FlushEnds, ProcessExit, MainReturns, RuntimeDropped, Settled,
         flushVars
<1> SUFFICES ASSUME NEW d \in Calls PROVE SlotInv(d)'
  BY <1>0, <1>a DEF Slots
<1> USE DEF Slots, TypeOK, SlotInv, FlushDrains, callVars, flushVars, sinkVars
<1>1. CASE ExporterReports
  BY <1>1 DEF ExporterReports
<1>2. CASE Signal
  BY <1>2 DEF Signal
<1>3. CASE ServingEnds
  BY <1>3 DEF ServingEnds
<1>4. CASE FlushNext
  <2>1. Head(todo) \in Calls
    BY <1>4 DEF FlushNext
  <2> QED BY <1>4, <2>1 DEF FlushNext
<1>5. CASE FlushDrain
  <2>1. cur \in Calls
    BY <1>5 DEF FlushDrain
  <2>2. /\ attempts'[cur] = attempts[cur] + 1
        /\ \A e \in Calls : e # cur => attempts'[e] = attempts[e]
    BY <1>5, <2>1, RecordType DEF FlushDrain
  <2> QED BY <1>5, <2>1, <2>2 DEF FlushDrain, Settled
<1>6. CASE FlushSeesDone
  BY <1>6 DEF FlushSeesDone, Settled
<1>7. CASE FlushExpires
  BY <1>7 DEF FlushExpires, Settled
<1>8. CASE FlushEnds
  BY <1>8 DEF FlushEnds
<1>9. CASE ProcessExit
  BY <1>9 DEF ProcessExit
<1>10. CASE MainReturns
  BY <1>10 DEF MainReturns
<1>11. CASE RuntimeDropped
  BY <1>11 DEF RuntimeDropped
<1> QED BY <1>1, <1>2, <1>3, <1>4, <1>5, <1>6, <1>7, <1>8, <1>9, <1>10, <1>11
        DEF FlushStep, EndStep

LEMMA SlotsStep == Slots /\ [Next]_vars => Slots'
<1>1. CASE UNCHANGED vars
  BY <1>1, TypeStep DEF Slots, SlotInv, FlushDrains, FlushPhase, vars,
                        callVars, flushVars, sinkVars
<1>2. CASE Next
  BY <1>2, SlotsCall, SlotsOthers DEF Next, CallStepAny
<1> QED BY <1>1, <1>2

LEMMA SlotsInvariant == Spec => []Slots
BY SlotsInit, SlotsStep, PTL DEF Spec

-----------------------------------------------------------------------------
(* The ledger: every step begins a debt, writes one record, ends the       *)
(* process, or is invisible to it.                                         *)

LedgerSame == Owed' = Owed /\ attempts' = attempts /\ Alive' = Alive

LedgerWrite(c) ==
  /\ Alive /\ c \in Owed /\ attempts[c] = 0
  /\ attempts' = [attempts EXCEPT ![c] = 1]
  /\ Owed' = Owed /\ Alive' = Alive

LEMMA LedgerMaps ==
  /\ LedgerSame => [Ledger!LedgerNext]_Ledger!ledgerVars
  /\ \A c \in Calls : LedgerWrite(c) => Ledger!LedgerNext
BY DEF LedgerSame, LedgerWrite, Ledger!LedgerNext, Ledger!Write,
       Ledger!ledgerVars

LEMMA LedgerInitMaps == Init => Ledger!LedgerInit
BY DEF Init, Ledger!LedgerInit, Owed, Alive

LEMMA LedgerCall ==
  ASSUME Slots, NEW c \in Calls, CallStepAny(c)
  PROVE  [Ledger!LedgerNext]_Ledger!ledgerVars
<1> USE DEF Slots, TypeOK, SlotInv, Owed, callVars, flushVars, sinkVars
<1>1. CASE Spawn(c)
  <2>1. LedgerSame
    BY <1>1 DEF Spawn, LedgerSame, Alive
  <2> QED BY <2>1, LedgerMaps
<1>2. CASE Gate(c)
  <2>1. Owed' = Owed \union {c} /\ c \notin Owed /\ c \in Calls
    BY <1>2 DEF Gate, RefuseRecorded, QueueWrite
  <2>2. Alive /\ Alive' /\ attempts' = attempts
    BY <1>2 DEF Gate, Polling, Alive
  <2> QED BY <2>1, <2>2 DEF Ledger!LedgerNext, Ledger!Owe
<1>3. CASE Register(c)
  <2>1. LedgerSame
    BY <1>3 DEF Register, LedgerSame, Alive
  <2> QED BY <2>1, LedgerMaps
<1>4. CASE HandlerEnds(c)
  <2>1. LedgerSame
    BY <1>4 DEF HandlerEnds, LedgerSame, Alive
  <2> QED BY <2>1, LedgerMaps
<1>5. CASE ClaimForPersist(c)
  <2>1. LedgerSame
    BY <1>5 DEF ClaimForPersist, QueueWrite, Reply, LedgerSame, Alive
  <2> QED BY <2>1, LedgerMaps
<1>6. CASE Answer(c)
  <2>1. LedgerSame
    BY <1>6 DEF Answer, Reply, LedgerSame, Alive
  <2> QED BY <2>1, LedgerMaps
<1>7. CASE AnswerRefusal(c)
  <2>1. LedgerSame
    BY <1>7 DEF AnswerRefusal, Reply, LedgerSame, Alive
  <2> QED BY <2>1, LedgerMaps
<1>8. CASE DrainDropped(c)
  <2>1. c \in Owed /\ attempts[c] = 0 /\ Alive
    BY <1>8 DEF DrainDropped
  <2>2. attempts' = [attempts EXCEPT ![c] = 1]
    BY <1>8, <2>1 DEF DrainDropped, Record
  <2>3. Owed' = Owed /\ Alive' = Alive
    BY <1>8 DEF DrainDropped, Alive
  <2> QED BY <2>1, <2>2, <2>3, LedgerMaps DEF LedgerWrite
<1>9. CASE RunWrite(c)
  <2>1. c \in Owed /\ attempts[c] = 0 /\ Alive
    BY <1>9 DEF RunWrite
  <2>2. attempts' = [attempts EXCEPT ![c] = 1]
    BY <1>9, <2>1 DEF RunWrite, Record
  <2>3. Owed' = Owed /\ Alive' = Alive
    BY <1>9 DEF RunWrite, Alive
  <2> QED BY <2>1, <2>2, <2>3, LedgerMaps DEF LedgerWrite
<1>10. CASE Drop(c)
  <2>1. LedgerSame
    BY <1>10 DEF Drop, LedgerSame, Alive
  <2> QED BY <2>1, LedgerMaps
<1>11. CASE DiscardWrite(c)
  <2>1. LedgerSame
    BY <1>11 DEF DiscardWrite, LedgerSame, Alive
  <2> QED BY <2>1, LedgerMaps
<1> QED BY <1>1, <1>2, <1>3, <1>4, <1>5, <1>6, <1>7, <1>8, <1>9, <1>10, <1>11
        DEF CallStepAny, CallStep

LEMMA LedgerOthers ==
  ASSUME Slots, Slots',
         ExporterReports \/ Signal \/ ServingEnds \/ FlushStep \/ EndStep
  PROVE  [Ledger!LedgerNext]_Ledger!ledgerVars
<1> USE DEF Slots, TypeOK, SlotInv, Owed, callVars, flushVars, sinkVars
<1>1. CASE ExporterReports
  <2>1. LedgerSame
    BY <1>1 DEF ExporterReports, LedgerSame, Alive
  <2> QED BY <2>1, LedgerMaps
<1>2. CASE Signal
  <2>1. LedgerSame
    BY <1>2 DEF Signal, LedgerSame, Alive
  <2> QED BY <2>1, LedgerMaps
<1>3. CASE ServingEnds
  <2>1. LedgerSame
    BY <1>3 DEF ServingEnds, LedgerSame, Alive
  <2> QED BY <2>1, LedgerMaps
<1>4. CASE FlushNext
  <2>1. Head(todo) \in Calls
    BY <1>4 DEF FlushNext
  <2>2. LedgerSame
    BY <1>4, <2>1 DEF FlushNext, LedgerSame, Alive
  <2> QED BY <2>2, LedgerMaps
<1>5. CASE FlushDrain
  <2>1. cur \in Calls
    BY <1>5 DEF FlushDrain
  <2>2. cur \in Owed /\ attempts[cur] = 0 /\ Alive
    BY <1>5, <2>1 DEF FlushDrain, FlushDrains
  <2>3. attempts' = [attempts EXCEPT ![cur] = 1]
    BY <1>5, <2>2 DEF FlushDrain, Record
  <2>4. Owed' = Owed /\ Alive' = Alive
    BY <1>5 DEF FlushDrain, Alive
  <2> QED BY <2>1, <2>2, <2>3, <2>4, LedgerMaps DEF LedgerWrite
<1>6. CASE FlushSeesDone
  <2>1. LedgerSame
    BY <1>6 DEF FlushSeesDone, LedgerSame, Alive
  <2> QED BY <2>1, LedgerMaps
<1>7. CASE FlushExpires
  <2>1. LedgerSame
    BY <1>7 DEF FlushExpires, LedgerSame, Alive
  <2> QED BY <2>1, LedgerMaps
<1>8. CASE FlushEnds \/ MainReturns
  <2>1. LedgerSame
    BY <1>8 DEF FlushEnds, MainReturns, FlushPhase, LedgerSame, Alive
  <2> QED BY <2>1, LedgerMaps
<1>9. CASE ProcessExit \/ RuntimeDropped
  <2>1. Alive /\ ~Alive' /\ Owed' = Owed /\ attempts' = attempts
    BY <1>9 DEF ProcessExit, RuntimeDropped, Alive
  <2> QED BY <2>1 DEF Ledger!LedgerNext, Ledger!End
<1> QED BY <1>1, <1>2, <1>3, <1>4, <1>5, <1>6, <1>7, <1>8, <1>9
        DEF FlushStep, EndStep

LEMMA LedgerStep ==
  Slots /\ [Next]_vars => [Ledger!LedgerNext]_Ledger!ledgerVars
<1>1. CASE UNCHANGED vars
  <2>1. LedgerSame
    BY <1>1 DEF LedgerSame, Owed, Alive, vars, callVars, flushVars, sinkVars
  <2> QED BY <2>1, LedgerMaps
<1>2. CASE Slots /\ Next
  BY <1>2, SlotsStep, LedgerCall, LedgerOthers DEF Next, CallStepAny
<1> QED BY <1>1, <1>2

\* One record per call at most, whichever of the call, its drop guard, the
\* flush and the blocking pool comes first: the code implements the ledger.
THEOREM LedgerImplemented == Spec => ImplementsLedger
<1>1. Init => Ledger!LedgerInit
  BY LedgerInitMaps
<1>2. Slots /\ [Next]_vars => [Ledger!LedgerNext]_Ledger!ledgerVars
  BY LedgerStep
<1> QED BY <1>1, <1>2, SlotsInvariant, PTL
        DEF Spec, ImplementsLedger, Ledger!LedgerSpec

-----------------------------------------------------------------------------
(* Every record owed has an owner: nothing beyond Slots is needed.         *)

Owned(c) ==
  process \notin {"dropping", "exited"} /\ c \in Owed =>
    attempts[c] > 0 \/ HasOwner(c)

AllOwned == \A c \in Calls : Owned(c)

LEMMA OwnerCall ==
  ASSUME Slots, AllOwned, NEW c \in Calls, CallStepAny(c)
  PROVE  AllOwned'
<1> SUFFICES ASSUME NEW d \in Calls PROVE Owned(d)'
  BY DEF AllOwned
<1> USE DEF AllOwned, Owned, HasOwner, Owed, Slots, FlushPhase, TypeOK, SlotInv, FlushDrains, callVars, flushVars,
           sinkVars
<1>1. CASE Spawn(c)
  BY <1>1 DEF Spawn
<1>2. CASE Gate(c)
  <2>1. /\ UNCHANGED <<slot, attempts, process, fpc, cur>>
        /\ pc[c] = "spawned" /\ \E s \in {"refusing", "register"} :
                                 pc' = [pc EXCEPT ![c] = s]
        /\ \/ job' = [job EXCEPT ![c] = "queued"]
           \/ job' = job /\ pc' = [pc EXCEPT ![c] = "register"]
    BY <1>2 DEF Gate, RefuseRecorded, QueueWrite
  <2>2. CASE d = c
    BY <2>1, <2>2
  <2>3. CASE d # c
    <3>1. pc'[d] = pc[d] /\ job'[d] = job[d]
      BY <2>1, <2>3
    <3> QED BY <2>1, <3>1
  <2> QED BY <2>2, <2>3
<1>3. CASE Register(c)
  BY <1>3 DEF Register
<1>4. CASE HandlerEnds(c)
  BY <1>4 DEF HandlerEnds
<1>5. CASE ClaimForPersist(c)
  <2>1. CASE slot[c] = "armed"
    <3>1. /\ job' = [job EXCEPT ![c] = "queued"]
          /\ slot' = [slot EXCEPT ![c] = "writing"]
          /\ pc' = [pc EXCEPT ![c] = "persist"]
          /\ UNCHANGED <<attempts, process, fpc, cur>>
      BY <1>5, <2>1 DEF ClaimForPersist, QueueWrite
    <3>2. CASE d = c
      BY <3>1, <3>2
    <3>3. CASE d # c
      <4>1. pc'[d] = pc[d] /\ job'[d] = job[d] /\ slot'[d] = slot[d]
        BY <3>1, <3>3
      <4> QED BY <3>1, <4>1
    <3> QED BY <3>2, <3>3
  <2>2. CASE slot[c] # "armed"
    <3>1. /\ UNCHANGED <<slot, job, attempts, process, fpc, cur>>
          /\ pc' = [pc EXCEPT ![c] = "returned"] /\ pc[c] = "claim"
      BY <1>5, <2>2 DEF ClaimForPersist, Reply
    <3> QED BY <2>2, <3>1
  <2> QED BY <2>1, <2>2
<1>6. CASE Answer(c)
  BY <1>6 DEF Answer, Reply
<1>7. CASE AnswerRefusal(c)
  BY <1>7 DEF AnswerRefusal, Reply
<1>8. CASE DrainDropped(c)
  BY <1>8, RecordType DEF DrainDropped
<1>9. CASE RunWrite(c)
  BY <1>9, RecordType DEF RunWrite
<1>10. CASE Drop(c)
  BY <1>10 DEF Drop
<1>11. CASE DiscardWrite(c)
  BY <1>11 DEF DiscardWrite
<1> QED BY <1>1, <1>2, <1>3, <1>4, <1>5, <1>6, <1>7, <1>8, <1>9, <1>10, <1>11
        DEF CallStepAny, CallStep

LEMMA OwnerOthers ==
  ASSUME Slots, AllOwned,
         ExporterReports \/ Signal \/ ServingEnds \/ FlushStep \/ EndStep
  PROVE  AllOwned'
<1> SUFFICES ASSUME NEW d \in Calls PROVE Owned(d)'
  BY DEF AllOwned
<1> USE DEF AllOwned, Owned, HasOwner, Owed, Slots, FlushPhase, TypeOK, SlotInv, FlushDrains, callVars, flushVars,
           sinkVars
<1>1. CASE ExporterReports
  BY <1>1 DEF ExporterReports
<1>2. CASE Signal
  BY <1>2 DEF Signal
<1>3. CASE ServingEnds
  BY <1>3 DEF ServingEnds
<1>4. CASE FlushNext
  <2>1. Head(todo) \in Calls
    BY <1>4 DEF FlushNext
  <2> QED BY <1>4, <2>1 DEF FlushNext
<1>5. CASE FlushDrain
  <2>1. cur \in Calls
    BY <1>5 DEF FlushDrain
  <2>2. /\ attempts'[cur] = attempts[cur] + 1
        /\ \A e \in Calls : e # cur => attempts'[e] = attempts[e]
    BY <1>5, <2>1, RecordType DEF FlushDrain
  <2> QED BY <1>5, <2>1, <2>2 DEF FlushDrain, Settled
<1>6. CASE FlushSeesDone
  BY <1>6 DEF FlushSeesDone, Settled
<1>7. CASE FlushExpires
  BY <1>7 DEF FlushExpires, Settled
<1>8. CASE FlushEnds
  BY <1>8 DEF FlushEnds
<1>9. CASE ProcessExit
  BY <1>9 DEF ProcessExit
<1>10. CASE MainReturns
  BY <1>10 DEF MainReturns
<1>11. CASE RuntimeDropped
  BY <1>11 DEF RuntimeDropped
<1> QED BY <1>1, <1>2, <1>3, <1>4, <1>5, <1>6, <1>7, <1>8, <1>9, <1>10, <1>11
        DEF FlushStep, EndStep

\* No hand-over leaves a record that is owed with nobody to attempt it.
THEOREM NothingOrphaned == Spec => []NoOrphan
<1>1. Init => AllOwned
  BY DEF Init, AllOwned, Owned, Owed
<1>2. Slots /\ AllOwned /\ [Next]_vars => AllOwned'
  <2>1. CASE UNCHANGED vars
    BY <2>1 DEF AllOwned, Owned, HasOwner, Owed, vars, callVars, flushVars,
                sinkVars
  <2>2. CASE Slots /\ AllOwned /\ Next
    BY <2>2, OwnerCall, OwnerOthers DEF Next, CallStepAny
  <2> QED BY <2>1, <2>2
<1>3. AllOwned => NoOrphan
  BY DEF AllOwned, Owned, NoOrphan, Owed
<1> QED BY <1>1, <1>2, <1>3, SlotsInvariant, PTL DEF Spec

-----------------------------------------------------------------------------
(* The fail mode.  A reply of "result" is given in two places, and the     *)
(* invariant carries to each of them what it needs.                        *)

AnswerInv(c) ==
  /\ reply[c] # "none" => pc[c] = "returned"
  /\ job[c] = "kept" => c \in kept
  /\ pc[c] \in {"dispatch", "claim"} => slot[c] \in {"armed", "flushed"}
  /\ pc[c] = "refusing" => result[c] \in {"error", "refusal"}
  /\ /\ reply[c] = "result"
     /\ \/ FailMode = "closed_all"
        \/ FailMode = "closed_writes_denials" /\ (tool[c] = "write" \/ withheld[c])
     => c \in kept \/ slot[c] = "flushed"

Answers == \A c \in Calls : AnswerInv(c)

LEMMA AnswersCall ==
  ASSUME Slots, Answers, NEW c \in Calls, CallStepAny(c)
  PROVE  Answers'
<1> SUFFICES ASSUME NEW d \in Calls PROVE AnswerInv(d)'
  BY DEF Answers
<1> USE DEF Answers, AnswerInv, Slots, FlushPhase, TypeOK, SlotInv, FlushDrains, callVars, flushVars,
           sinkVars
<1>1. CASE Spawn(c)
  BY <1>1 DEF Spawn
<1>2. CASE Gate(c)
  BY <1>2 DEF Gate, RefuseRecorded, QueueWrite
<1>3. CASE Register(c)
  BY <1>3 DEF Register
<1>4. CASE HandlerEnds(c)
  BY <1>4 DEF HandlerEnds
<1>5. CASE ClaimForPersist(c)
  BY <1>5 DEF ClaimForPersist, QueueWrite, Reply
<1>6. CASE Answer(c)
  BY <1>6 DEF Answer, Reply, AnswerUnrecorded
<1>7. CASE AnswerRefusal(c)
  BY <1>7 DEF AnswerRefusal, Reply
<1>8. CASE DrainDropped(c)
  BY <1>8, RecordType DEF DrainDropped, Record
<1>9. CASE RunWrite(c)
  BY <1>9, RecordType DEF RunWrite, Record
<1>10. CASE Drop(c)
  BY <1>10 DEF Drop
<1>11. CASE DiscardWrite(c)
  BY <1>11 DEF DiscardWrite
<1> QED BY <1>1, <1>2, <1>3, <1>4, <1>5, <1>6, <1>7, <1>8, <1>9, <1>10, <1>11
        DEF CallStepAny, CallStep

LEMMA AnswersOthers ==
  ASSUME Slots, Answers,
         ExporterReports \/ Signal \/ ServingEnds \/ FlushStep \/ EndStep
  PROVE  Answers'
<1> SUFFICES ASSUME NEW d \in Calls PROVE AnswerInv(d)'
  BY DEF Answers
<1> USE DEF Answers, AnswerInv, Slots, FlushPhase, TypeOK, SlotInv, FlushDrains, callVars, flushVars,
           sinkVars
<1>1. CASE ExporterReports
  BY <1>1 DEF ExporterReports
<1>2. CASE Signal
  BY <1>2 DEF Signal
<1>3. CASE ServingEnds
  BY <1>3 DEF ServingEnds
<1>4. CASE FlushNext
  <2>1. Head(todo) \in Calls
    BY <1>4 DEF FlushNext
  <2> QED BY <1>4, <2>1 DEF FlushNext
<1>5. CASE FlushDrain
  <2>1. cur \in Calls
    BY <1>5 DEF FlushDrain
  <2>2. /\ attempts'[cur] = attempts[cur] + 1
        /\ \A e \in Calls : e # cur => attempts'[e] = attempts[e]
    BY <1>5, <2>1, RecordType DEF FlushDrain
  <2> QED BY <1>5, <2>1, <2>2 DEF FlushDrain, Settled, Record
<1>6. CASE FlushSeesDone
  BY <1>6 DEF FlushSeesDone, Settled
<1>7. CASE FlushExpires
  BY <1>7 DEF FlushExpires, Settled
<1>8. CASE FlushEnds
  BY <1>8 DEF FlushEnds
<1>9. CASE ProcessExit
  BY <1>9 DEF ProcessExit
<1>10. CASE MainReturns
  BY <1>10 DEF MainReturns
<1>11. CASE RuntimeDropped
  BY <1>11 DEF RuntimeDropped
<1> QED BY <1>1, <1>2, <1>3, <1>4, <1>5, <1>6, <1>7, <1>8, <1>9, <1>10, <1>11
        DEF FlushStep, EndStep

\* No client holds an answer its fail mode withholds for a lost record.
THEOREM FailModeCorrect == Spec => []FailModeHolds
<1>1. Init => Answers
  BY DEF Init, Answers, AnswerInv
<1>2. Slots /\ Answers /\ [Next]_vars => Answers'
  <2>1. CASE UNCHANGED vars
    BY <2>1 DEF Answers, AnswerInv, vars, callVars, flushVars, sinkVars
  <2>2. CASE Slots /\ Answers /\ Next
    BY <2>2, AnswersCall, AnswersOthers DEF Next, CallStepAny
  <2> QED BY <2>1, <2>2
<1>3. Answers => FailModeHolds
  BY DEF Answers, AnswerInv, FailModeHolds
<1> QED BY <1>1, <1>2, <1>3, SlotsInvariant, PTL DEF Spec

-----------------------------------------------------------------------------
(* A name the caller cannot reach: its only result is an error, and what   *)
(* becomes of its record changes nothing about that.                       *)

HiddenInv(c) ==
  /\ pc[c] \in {"idle", "spawned", "register", "dispatch"} =>
       result[c] = "none" /\ reply[c] = "none"
  /\ tool[c] = "unrouted" =>
       /\ result[c] \in {"none", "error"} /\ reply[c] \in {"none", "error"}
       /\ pc[c] \in {"claim", "persist", "refusing"} => result[c] = "error"

Hidden == \A c \in Calls : HiddenInv(c)

LEMMA HiddenCall ==
  ASSUME TypeOK, Hidden, NEW c \in Calls, CallStepAny(c)
  PROVE  Hidden'
<1> SUFFICES ASSUME NEW d \in Calls PROVE HiddenInv(d)'
  BY DEF Hidden
<1> USE DEF Hidden, HiddenInv, TypeOK, callVars, flushVars, sinkVars
<1>1. CASE Spawn(c)
  BY <1>1 DEF Spawn
<1>2. CASE Gate(c)
  BY <1>2 DEF Gate, GateCloses, RefuseRecorded, QueueWrite
<1>3. CASE Register(c)
  BY <1>3 DEF Register
<1>4. CASE HandlerEnds(c)
  BY <1>4 DEF HandlerEnds
<1>5. CASE ClaimForPersist(c)
  BY <1>5 DEF ClaimForPersist, QueueWrite, Reply
<1>6. CASE Answer(c)
  BY <1>6 DEF Answer, Reply, AnswerUnrecorded
<1>7. CASE AnswerRefusal(c)
  BY <1>7 DEF AnswerRefusal, Reply
<1>8. CASE DrainDropped(c)
  BY <1>8 DEF DrainDropped
<1>9. CASE RunWrite(c)
  BY <1>9 DEF RunWrite
<1>10. CASE Drop(c)
  BY <1>10 DEF Drop
<1>11. CASE DiscardWrite(c)
  BY <1>11 DEF DiscardWrite
<1> QED BY <1>1, <1>2, <1>3, <1>4, <1>5, <1>6, <1>7, <1>8, <1>9, <1>10, <1>11
        DEF CallStepAny, CallStep

LEMMA HiddenOthers ==
  ASSUME Hidden,
         ExporterReports \/ Signal \/ ServingEnds \/ FlushStep \/ EndStep
  PROVE  Hidden'
<1>1. UNCHANGED <<pc, tool, result, reply>>
  BY DEF ExporterReports, Signal, ServingEnds, FlushStep, EndStep, FlushNext, FlushDrain,
         FlushSeesDone, FlushExpires, FlushEnds, ProcessExit, MainReturns, RuntimeDropped,
         callVars
<1> QED BY <1>1 DEF Hidden, HiddenInv

\* No outage and no fail mode tells a client that a name it cannot reach is a
\* tool.
THEOREM HiddenCorrect == Spec => []OutageHidesNoTool
<1>1. Init => Hidden
  BY DEF Init, Hidden, HiddenInv
<1>2. TypeOK /\ Hidden /\ [Next]_vars => Hidden'
  <2>1. CASE UNCHANGED vars
    BY <2>1 DEF Hidden, HiddenInv, vars, callVars
  <2>2. CASE TypeOK /\ Hidden /\ Next
    BY <2>2, HiddenCall, HiddenOthers DEF Next, CallStepAny
  <2> QED BY <2>1, <2>2
<1>3. Hidden => OutageHidesNoTool
  BY DEF Hidden, HiddenInv, OutageHidesNoTool
<1> QED BY <1>1, <1>2, <1>3, TypeCorrect, PTL DEF Spec

-----------------------------------------------------------------------------
(* What the flush accounts for.  From the signal on, each call of its      *)
(* snapshot is still to come, in hand, or settled; and what it passes over *)
(* in the registry is settled because of how the slot got where it is.     *)

SettledCall(c) ==
  \/ attempts[c] > 0 \/ c \in counted
  \/ pc[c] = "drain"
  \/ pc[c] = "dropped" /\ job[c] = "queued"

InHand(c) == cur = c /\ fpc \in {"drain", "wait"}

\* How a slot got where it is.
SlotStory(c) ==
  /\ job[c] \in {"kept", "lost"} \/ slot[c] = "done" => attempts[c] > 0
  /\ slot[c] = "flushed" => attempts[c] > 0 \/ pc[c] = "drain" \/ FlushDrains(c)
  /\ slot[c] = "writing" => pc[c] \in {"persist", "dropped"} /\ job[c] # "none"
  /\ slot[c] = "armed" => pc[c] \in {"dispatch", "claim"}
  /\ pc[c] = "persist" => slot[c] = "writing"
  /\ job[c] = "discarded" => fpc = "off" /\ process \in {"dropping", "exited"}

FlushStory(c) ==
  /\ c \in ToSet(registry) => slot[c] # "none"
  /\ fpc # "off" /\ c \in snapshot =>
       slot[c] # "none" /\ (c \in ToSet(todo) \/ InHand(c) \/ SettledCall(c))

Accounts ==
  /\ fpc # "off" => process \in {"flushing", "shutdown", "exited"}
  /\ fpc = "over" => todo = <<>>
  /\ \A c \in Calls : SlotStory(c) /\ FlushStory(c)

LEMMA SetOfAppend ==
  ASSUME NEW S, NEW s \in Seq(S), NEW x \in S
  PROVE  ToSet(Append(s, x)) = ToSet(s) \cup {x}
<1>1. /\ DOMAIN Append(s, x) = 1 .. Len(s) + 1 /\ DOMAIN s = 1 .. Len(s) /\ Len(s) \in Nat
      /\ Append(s, x)[Len(s) + 1] = x /\ \A i \in DOMAIN s : Append(s, x)[i] = s[i]
  OBVIOUS
<1> HIDE DEF ToSet
<1>2. \A i \in DOMAIN Append(s, x) : i \in DOMAIN s \/ i = Len(s) + 1 BY <1>1
<1>3. DOMAIN s \subseteq DOMAIN Append(s, x) /\ Len(s) + 1 \in DOMAIN Append(s, x) BY <1>1
<1> QED BY <1>1, <1>2, <1>3 DEF ToSet

LEMMA SetOfTail ==
  ASSUME NEW S, NEW s \in Seq(S), s # <<>>, NEW x \in ToSet(s)
  PROVE  x = Head(s) \/ x \in ToSet(Tail(s))
<1>1. PICK i \in DOMAIN s : s[i] = x BY DEF ToSet
<1>2. CASE i = 1 BY <1>1, <1>2
<1>3. CASE i # 1
  <2>1. i - 1 \in DOMAIN Tail(s) /\ Tail(s)[i - 1] = s[i] BY <1>1, <1>3
  <2> QED BY <1>1, <2>1 DEF ToSet
<1> QED BY <1>2, <1>3

LEMMA StoryCall ==
  ASSUME Slots, Accounts, NEW c \in Calls, CallStepAny(c)
  PROVE  \A d \in Calls : SlotStory(d)'
<1> SUFFICES ASSUME NEW d \in Calls PROVE SlotStory(d)'
  OBVIOUS
<1>0. SlotStory(c) /\ SlotStory(d) /\ SlotInv(c) /\ SlotInv(d) /\ TypeOK
      /\ (fpc # "off" => process \in {"flushing", "shutdown", "exited"})
  BY DEF Accounts, Slots
<1> USE <1>0 DEF SlotStory, TypeOK, SlotInv, FlushDrains, callVars, flushVars, sinkVars
<1>1. CASE Spawn(c)
  BY <1>1 DEF Spawn
<1>2. CASE Gate(c)
  BY <1>2 DEF Gate, RefuseRecorded, QueueWrite
<1>3. CASE Register(c)
  BY <1>3 DEF Register
<1>4. CASE HandlerEnds(c)
  BY <1>4 DEF HandlerEnds
<1>5. CASE ClaimForPersist(c)
  BY <1>5 DEF ClaimForPersist, QueueWrite, Reply
<1>6. CASE Answer(c)
  BY <1>6 DEF Answer, Reply
<1>7. CASE AnswerRefusal(c)
  BY <1>7 DEF AnswerRefusal, Reply
<1>8. CASE DrainDropped(c)
  BY <1>8, RecordType DEF DrainDropped
<1>9. CASE RunWrite(c)
  BY <1>9, RecordType DEF RunWrite
<1>10. CASE Drop(c)
  BY <1>10 DEF Drop
<1>11. CASE DiscardWrite(c)
  BY <1>11 DEF DiscardWrite
<1> QED BY <1>1, <1>2, <1>3, <1>4, <1>5, <1>6, <1>7, <1>8, <1>9, <1>10, <1>11
        DEF CallStepAny, CallStep

LEMMA AccountsCall ==
  ASSUME Slots, Accounts, NEW c \in Calls, CallStepAny(c)
  PROVE  Accounts'
<1>1. \A d \in Calls : SlotStory(d)' BY StoryCall
<1>2. /\ UNCHANGED <<fpc, process, cur, todo, snapshot, counted>>
      /\ \A d \in Calls : d # c => /\ pc'[d] = pc[d] /\ job'[d] = job[d] /\ slot'[d] = slot[d]
                                   /\ attempts'[d] = attempts[d]
      /\ attempts'[c] >= attempts[c] /\ attempts[c] \in Nat /\ attempts'[c] \in Nat
  <2> USE RecordType DEF Slots, TypeOK, callVars, flushVars, sinkVars
  <2>1. CASE Spawn(c) BY <2>1 DEF Spawn
  <2>2. CASE Gate(c) BY <2>2 DEF Gate, RefuseRecorded, QueueWrite
  <2>3. CASE Register(c) BY <2>3 DEF Register
  <2>4. CASE HandlerEnds(c) BY <2>4 DEF HandlerEnds
  <2>5. CASE ClaimForPersist(c) BY <2>5 DEF ClaimForPersist, QueueWrite, Reply
  <2>6. CASE Answer(c) BY <2>6 DEF Answer, Reply
  <2>7. CASE AnswerRefusal(c) BY <2>7 DEF AnswerRefusal, Reply
  <2>8. CASE DrainDropped(c) BY <2>8 DEF DrainDropped
  <2>9. CASE RunWrite(c) BY <2>9 DEF RunWrite
  <2>10. CASE Drop(c) BY <2>10 DEF Drop
  <2>11. CASE DiscardWrite(c) BY <2>11 DEF DiscardWrite
  <2> QED BY <2>1, <2>2, <2>3, <2>4, <2>5, <2>6, <2>7, <2>8, <2>9, <2>10, <2>11
          DEF CallStepAny, CallStep
<1>3. \/ registry' = registry /\ (slot[c] # "none" => slot'[c] # "none")
      \/ registry' = Append(registry, c) /\ slot'[c] # "none"
  BY DEF CallStepAny, CallStep, Spawn, Gate, Register, HandlerEnds, ClaimForPersist, Answer,
         AnswerRefusal, DrainDropped, RunWrite, Drop, DiscardWrite, Slots, TypeOK, callVars
<1>4. \A d \in ToSet(registry') : d \in ToSet(registry) \/ (d = c /\ slot'[c] # "none")
  <2>1. registry \in Seq(Calls) BY DEF Slots, TypeOK
  <2>2. ToSet(Append(registry, c)) = ToSet(registry) \cup {c} BY <2>1, SetOfAppend
  <2> QED BY <1>3, <2>2
<1>5. ASSUME fpc # "off", SettledCall(c) PROVE SettledCall(c)'
  <2>1. CASE attempts[c] > 0 \/ c \in counted
    <3>1. attempts'[c] > 0 \/ c \in counted' BY <1>2, <2>1
    <3> QED BY <3>1 DEF SettledCall
  <2>2. CASE pc[c] = "drain"
    BY <2>2, RecordType
       DEF SettledCall, CallStepAny, CallStep, Spawn, Gate, Register, HandlerEnds,
           ClaimForPersist, Answer, AnswerRefusal, DrainDropped, RunWrite, Drop, DiscardWrite,
           Slots, TypeOK
  <2>3. CASE pc[c] = "dropped" /\ job[c] = "queued"
    <3>1. RunWrite(c)
      BY <1>5, <2>3
         DEF Accounts, CallStepAny, CallStep, Spawn, Gate, Register, HandlerEnds,
             ClaimForPersist, Answer, AnswerRefusal, DrainDropped, Drop, DiscardWrite
    <3> QED BY <3>1, RecordType DEF RunWrite, Slots, TypeOK, SettledCall
  <2> QED BY <1>5, <2>1, <2>2, <2>3 DEF SettledCall
<1>6. ASSUME NEW d \in Calls PROVE FlushStory(d)'
  <2>1. FlushStory(d) BY DEF Accounts
  <2>2. slot[d] # "none" => slot'[d] # "none" BY <1>2, <1>3
  <2>3. fpc # "off" /\ SettledCall(d) => SettledCall(d)'
    BY <1>2, <1>5 DEF SettledCall
  <2>4. InHand(d)' <=> InHand(d) BY <1>2 DEF InHand
  <2>5. d \in ToSet(registry)' => slot'[d] # "none" BY <1>4, <2>1, <2>2 DEF FlushStory
  <2> QED BY <1>2, <2>1, <2>2, <2>3, <2>4, <2>5 DEF FlushStory
<1> QED BY <1>1, <1>2, <1>6 DEF Accounts

LEMMA StoryOthers ==
  ASSUME Slots, Accounts,
         ExporterReports \/ Signal \/ ServingEnds \/ FlushStep \/ EndStep
  PROVE  \A d \in Calls : SlotStory(d)'
<1> SUFFICES ASSUME NEW d \in Calls PROVE SlotStory(d)'
  OBVIOUS
<1>0. SlotStory(d) /\ SlotInv(d) /\ TypeOK /\ FlushPhase
      /\ (fpc # "off" => process \in {"flushing", "shutdown", "exited"})
  BY DEF Accounts, Slots
<1> USE <1>0 DEF SlotStory, TypeOK, SlotInv, FlushDrains, FlushPhase, callVars, flushVars, sinkVars
<1>1. CASE ExporterReports
  BY <1>1 DEF ExporterReports
<1>2. CASE Signal
  BY <1>2 DEF Signal
<1>3. CASE ServingEnds
  BY <1>3 DEF ServingEnds
<1>4. CASE FlushNext
  <2>1. Head(todo) \in Calls
    BY <1>4 DEF FlushNext
  <2> QED BY <1>4, <2>1 DEF FlushNext
<1>5. CASE FlushDrain
  <2>1. cur \in Calls
    BY <1>5 DEF FlushDrain
  <2>2. /\ attempts'[cur] = attempts[cur] + 1
        /\ \A e \in Calls : e # cur => attempts'[e] = attempts[e]
    BY <1>5, <2>1, RecordType DEF FlushDrain
  <2> QED BY <1>5, <2>1, <2>2 DEF FlushDrain, Settled
<1>6. CASE FlushSeesDone
  BY <1>6 DEF FlushSeesDone, Settled
<1>7. CASE FlushExpires
  BY <1>7 DEF FlushExpires, Settled
<1>8. CASE FlushEnds
  BY <1>8 DEF FlushEnds
<1>9. CASE ProcessExit
  BY <1>9 DEF ProcessExit
<1>10. CASE MainReturns
  BY <1>10 DEF MainReturns
<1>11. CASE RuntimeDropped
  BY <1>11 DEF RuntimeDropped
<1> QED BY <1>1, <1>2, <1>3, <1>4, <1>5, <1>6, <1>7, <1>8, <1>9, <1>10, <1>11
        DEF FlushStep, EndStep

LEMMA AccountsOthers ==
  ASSUME Slots, Accounts,
         ExporterReports \/ Signal \/ ServingEnds \/ FlushStep \/ EndStep
  PROVE  Accounts'
<1>a. /\ fpc' # "off" => process' \in {"flushing", "shutdown", "exited"}
      /\ fpc' = "over" => todo' = <<>>
  BY DEF Accounts, FlushStep, EndStep, ExporterReports, Signal, ServingEnds, FlushNext, FlushDrain,
         FlushSeesDone, FlushExpires, FlushEnds, ProcessExit, MainReturns, RuntimeDropped, Settled,
         flushVars
<1> SUFFICES ASSUME NEW d \in Calls PROVE FlushStory(d)'
  BY <1>a, StoryOthers DEF Accounts
<1>0. SlotStory(d) /\ FlushStory(d) /\ SlotInv(d) /\ TypeOK /\ FlushPhase
      /\ (fpc # "off" => process \in {"flushing", "shutdown", "exited"})
  BY DEF Accounts, Slots
<1> USE <1>0 DEF FlushPhase, callVars, flushVars, sinkVars
<1>1. CASE ExporterReports
  BY <1>1 DEF ExporterReports, FlushStory, SettledCall, InHand
<1>2. CASE Signal
  BY <1>2 DEF Signal, FlushStory, SettledCall, InHand
<1>3. CASE ServingEnds
  BY <1>3 DEF ServingEnds, FlushStory, SettledCall, InHand
<1>4. CASE FlushNext
  <2> DEFINE c == Head(todo)
  <2>1. c \in Calls /\ todo \in Seq(Calls) /\ todo # <<>> BY <1>4 DEF FlushNext, TypeOK
  <2>2. d \in ToSet(todo) => d = c \/ d \in ToSet(Tail(todo)) BY <2>1, SetOfTail
  <2>3. /\ UNCHANGED <<pc, job, attempts, registry, process, snapshot, counted>>
        /\ todo' = Tail(todo) /\ fpc = "next" /\ fpc' \in {"next", "drain", "wait"}
        /\ slot[d] # "none" => slot'[d] # "none"
    BY <1>4, <2>1 DEF FlushNext, TypeOK
  <2>4. d = c /\ slot[d] # "none" => InHand(d)' \/ SettledCall(d)'
    <3> HAVE d = c /\ slot[d] # "none"
    <3>1. CASE SlotLives(c) /\ slot[c] \in {"armed", "writing"}
      BY <1>4, <3>1 DEF FlushNext, InHand
    <3>2. CASE SlotLives(c) /\ slot[c] \notin {"armed", "writing"}
      <4>1. slot[d] \in {"done", "flushed"} BY <3>2 DEF TypeOK
      <4> QED BY <2>3, <4>1 DEF SlotStory, SettledCall, FlushDrains
    <3>3. CASE ~SlotLives(c)
      <4>1. pc[d] \in {"returned", "dropped"} BY <3>3 DEF SlotLives
      <4>2. slot[d] \in {"done", "flushed", "writing"} BY <4>1 DEF TypeOK, SlotStory
      <4>3. attempts[d] > 0 \/ (pc[d] = "dropped" /\ job[d] = "queued")
        BY <2>3, <4>1, <4>2 DEF SlotStory, FlushDrains, TypeOK
      <4> QED BY <2>3, <4>3 DEF SettledCall
    <3> QED BY <3>1, <3>2, <3>3
  <2>5. SettledCall(d) => SettledCall(d)' BY <2>3 DEF SettledCall
  <2>6. ~InHand(d) BY <2>3 DEF InHand
  <2> HIDE DEF c
  <2> QED BY <2>2, <2>3, <2>4, <2>5, <2>6 DEF FlushStory
<1>5. CASE FlushDrain
  <2>1. cur \in Calls /\ fpc = "drain" /\ fpc' = "next" BY <1>5 DEF FlushDrain, TypeOK, Settled
  <2>2. PICK ok \in BOOLEAN : Record(cur, ok) /\ counted' = (IF ok THEN counted ELSE counted \union {cur})
    BY <1>5 DEF FlushDrain
  <2>3. /\ attempts'[cur] = attempts[cur] + 1 /\ attempts[cur] \in Nat
        /\ \A e \in Calls : e # cur => attempts'[e] = attempts[e]
    BY <2>1, <2>2, RecordType DEF TypeOK
  <2>4. UNCHANGED <<pc, job, slot, registry, process, todo, snapshot>> BY <1>5 DEF FlushDrain
  <2>5. SettledCall(d) \/ InHand(d) => SettledCall(d)'
    <3>1. CASE d = cur BY <2>3, <3>1 DEF SettledCall
    <3>2. CASE d # cur BY <2>2, <2>3, <2>4, <3>2 DEF SettledCall, InHand
    <3> QED BY <3>1, <3>2
  <2> QED BY <2>1, <2>4, <2>5 DEF FlushStory
<1>6. CASE FlushSeesDone
  <2>1. /\ UNCHANGED <<pc, job, slot, registry, process, todo, snapshot, attempts, counted>>
        /\ fpc = "wait" /\ fpc' = "next" /\ slot[cur] = "done"
    BY <1>6 DEF FlushSeesDone, Settled
  <2>2. SettledCall(d) \/ InHand(d) => SettledCall(d)' BY <2>1 DEF SettledCall, InHand, SlotStory
  <2> QED BY <2>1, <2>2 DEF FlushStory
<1>7. CASE FlushExpires
  <2>1. /\ UNCHANGED <<pc, job, slot, registry, process, todo, snapshot, attempts>>
        /\ fpc = "wait" /\ fpc' = "next" /\ counted' = counted \union {cur}
    BY <1>7 DEF FlushExpires, Settled
  <2>2. SettledCall(d) \/ InHand(d) => SettledCall(d)' BY <2>1 DEF SettledCall, InHand
  <2> QED BY <2>1, <2>2 DEF FlushStory
<1>8. CASE FlushEnds
  BY <1>8 DEF FlushEnds, FlushStory, SettledCall, InHand
<1>9. CASE ProcessExit
  BY <1>9 DEF ProcessExit, FlushStory, SettledCall, InHand
<1>10. CASE MainReturns
  BY <1>10 DEF MainReturns, FlushStory, SettledCall, InHand
<1>11. CASE RuntimeDropped
  BY <1>11 DEF RuntimeDropped, FlushStory, SettledCall, InHand
<1> QED BY <1>1, <1>2, <1>3, <1>4, <1>5, <1>6, <1>7, <1>8, <1>9, <1>10, <1>11
        DEF FlushStep, EndStep

\* Each call the flush set out to settle was attempted, is counted as a
\* failure, or is in its own drop guard's hands, for any number of calls.
THEOREM FlushCorrect == Spec => []FlushAccounts
<1>1. Init => Accounts
  BY DEF Init, Accounts, SlotStory, FlushStory, ToSet
<1>2. Slots /\ Accounts /\ [Next]_vars => Accounts'
  <2>1. CASE UNCHANGED vars
    BY <2>1 DEF Accounts, SlotStory, FlushStory, SettledCall, InHand, FlushDrains, vars, callVars,
                sinkVars, flushVars
  <2>2. CASE Slots /\ Accounts /\ Next
    BY <2>2, AccountsCall, AccountsOthers DEF Next, CallStepAny
  <2> QED BY <2>1, <2>2
<1>3. Slots /\ Accounts => FlushAccounts
  <2> SUFFICES ASSUME Slots, Accounts, fpc = "over", NEW c \in snapshot
               PROVE  SettledCall(c)
    BY DEF FlushAccounts, SettledCall
  <2>1. c \in Calls BY DEF Slots, TypeOK
  <2>2. FlushStory(c) BY <2>1 DEF Accounts
  <2>3. ToSet(todo) = {} BY DEF Accounts, ToSet
  <2> QED BY <2>2, <2>3 DEF FlushStory, InHand
<1> QED BY <1>1, <1>2, <1>3, SlotsInvariant, PTL DEF Spec
=============================================================================
