-------------------------- MODULE AuditSinkProofs --------------------------
(***************************************************************************)
(* Proofs about AuditSink for every set of calls, every queue and batch    *)
(* bound and every choice of destinations.                                 *)
(***************************************************************************)
EXTENDS AuditSink, SequenceTheorems, TLAPS

-----------------------------------------------------------------------------
(* What the sequence operations of the queue, the batch and the posting    *)
(* do to the set of their elements.                                        *)

\* Queueing adds the new record and nothing else (mpsc try_send).
LEMMA AppendElements ==
  ASSUME NEW S, NEW s \in Seq(S), NEW e \in S
  PROVE  /\ Append(s, e) \in Seq(S)
         /\ Len(Append(s, e)) = Len(s) + 1
         /\ ToSet(Append(s, e)) = ToSet(s) \union {e}
<1>1. /\ Append(s, e) \in Seq(S) /\ Len(Append(s, e)) = Len(s) + 1
      /\ Append(s, e)[Len(s) + 1] = e
      /\ \A i \in 1..Len(s) : Append(s, e)[i] = s[i]
  OBVIOUS
<1>2. ToSet(s) \union {e} \subseteq ToSet(Append(s, e))
  BY <1>1 DEF ToSet
<1>3. ToSet(Append(s, e)) \subseteq ToSet(s) \union {e}
  BY <1>1 DEF ToSet
<1> QED BY <1>1, <1>2, <1>3

\* Receiving removes the head and nothing else (mpsc recv).
LEMMA HeadTailElements ==
  ASSUME NEW S, NEW s \in Seq(S), s # <<>>
  PROVE  /\ Head(s) \in S /\ Tail(s) \in Seq(S)
         /\ Len(Tail(s)) = Len(s) - 1
         /\ ToSet(s) = {Head(s)} \union ToSet(Tail(s))
<1>1. ToSet(s) \subseteq {Head(s)} \union ToSet(Tail(s))
  <2> SUFFICES ASSUME NEW i \in 1..Len(s), s[i] # Head(s)
               PROVE  s[i] \in ToSet(Tail(s))
    BY DEF ToSet
  <2>1. /\ i - 1 \in DOMAIN Tail(s)
        /\ Tail(s)[i-1] = s[i]
    OBVIOUS
  <2>2. Tail(s)[i-1] \in ToSet(Tail(s))
    BY <2>1, Zenon DEF ToSet
  <2> QED BY <2>1, <2>2
<1>2. {Head(s)} \union ToSet(Tail(s)) \subseteq ToSet(s)
  BY DEF ToSet
<1> QED BY <1>1, <1>2

\* A byte split keeps every record: the front is posted, the last kept.
LEMMA FrontLastElements ==
  ASSUME NEW S, NEW s \in Seq(S), Len(s) >= 2
  PROVE  /\ Front(s) \in Seq(S) /\ Front(s) # <<>>
         /\ Last(s) \in S
         /\ ToSet(s) = ToSet(Front(s)) \union {Last(s)}
<1>1. /\ Front(s) \in Seq(S) /\ Len(Front(s)) = Len(s) - 1
      /\ \A i \in 1..(Len(s)-1) : Front(s)[i] = s[i]
  BY DEF Front
<1>2. ToSet(s) \subseteq ToSet(Front(s)) \union {Last(s)}
  <2> SUFFICES ASSUME NEW i \in 1..Len(s), i # Len(s)
               PROVE  s[i] \in ToSet(Front(s))
    BY DEF ToSet, Last
  <2> QED BY <1>1 DEF ToSet
<1>3. ToSet(Front(s)) \union {Last(s)} \subseteq ToSet(s)
  BY <1>1 DEF ToSet, Last
<1> QED BY <1>1, <1>2, <1>3 DEF Last

\* Two sequences one after the other have the elements of both.
LEMMA ConcatElements ==
  ASSUME NEW S, NEW s \in Seq(S), NEW t \in Seq(S)
  PROVE  /\ s \o t \in Seq(S)
         /\ ToSet(s \o t) = ToSet(s) \union ToSet(t)
<1>1. ToSet(s \o t) \subseteq ToSet(s) \union ToSet(t)
  BY DEF ToSet
<1>2. ToSet(s) \subseteq ToSet(s \o t)
  BY DEF ToSet
<1>3. ToSet(t) \subseteq ToSet(s \o t)
  <2> SUFFICES ASSUME NEW i \in 1..Len(t) PROVE t[i] \in ToSet(s \o t)
    BY DEF ToSet
  <2>1. i + Len(s) \in 1..Len(s \o t) /\ (s \o t)[i + Len(s)] = t[i]
    OBVIOUS
  <2> QED BY <2>1 DEF ToSet
<1> QED BY <1>1, <1>2, <1>3

-----------------------------------------------------------------------------
(* The records on their way, in order: posting, then batch, then queue.    *)

\* A queue is its oldest record and the rest.
LEMMA HeadAndTail ==
  ASSUME NEW S, NEW q \in Seq(S), q # <<>>
  PROVE  <<Head(q)>> \o Tail(q) = q
<1>1. Head(q) \in S /\ Tail(q) \in Seq(S) /\ <<Head(q)>> \in Seq(S)
  BY HeadTailProperties
<1>2. /\ <<Head(q)>> \o Tail(q) \in Seq(S)
      /\ Len(<<Head(q)>> \o Tail(q)) = Len(q)
      /\ \A i \in 1..Len(q) : q[i] = (<<Head(q)>> \o Tail(q))[i]
  BY <1>1, HeadTailProperties
<1> QED BY <1>2, SeqEqual

\* Receiving moves the oldest queued record to the end of the batch and
\* leaves the order of the whole as it is.
LEMMA ReceiveKeepsOrder ==
  ASSUME NEW S, NEW p \in Seq(S), NEW b \in Seq(S), NEW h \in S, NEW t \in Seq(S)
  PROVE  (p \o Append(b, h)) \o t = (p \o b) \o (<<h>> \o t)
<1> DEFINE l == <<h>>
           pb == p \o b
<1>1. pb \in Seq(S) /\ l \in Seq(S)
  BY ConcatProperties
<1>2. Append(b, h) = b \o l
  BY AppendIsConcat
<1> HIDE DEF l
<1>3. p \o (b \o l) = pb \o l
  BY <1>1, ConcatAssociative, SMTT(30)
<1> HIDE DEF pb
<1>4. (pb \o l) \o t = pb \o (l \o t)
  BY <1>1, ConcatAssociative, SMTT(30)
<1> QED BY <1>2, <1>3, <1>4 DEF l, pb

\* Opening and splitting a post leaves the order as it is, when nothing is
\* being posted yet.
LEMMA PostKeepsOrder ==
  ASSUME NEW S, NEW b \in Seq(S), NEW q \in Seq(S)
  PROVE  /\ (b \o <<>>) \o q = (<<>> \o b) \o q
         /\ (<<>> \o b) \o q = b \o q
         /\ Len(b) >= 2 => (Front(b) \o <<Last(b)>>) \o q = (<<>> \o b) \o q
<1>1. b \o <<>> = b /\ <<>> \o b = b
  BY ConcatEmptySeq
<1>2. ASSUME Len(b) >= 2 PROVE Front(b) \o <<Last(b)>> = b
  <2> DEFINE f == Front(b)
             l == <<Last(b)>>
  <2>1. /\ f \in Seq(S) /\ Len(f) = Len(b) - 1
        /\ \A i \in 1..(Len(b)-1) : f[i] = b[i]
    BY <1>2 DEF Front
  <2>2. l \in Seq(S) /\ Len(l) = 1 /\ l[1] = b[Len(b)]
    BY <1>2 DEF Last
  <2>3. Len(b) \in Nat
    OBVIOUS
  <2> HIDE DEF f, l
  <2>0. /\ f \o l \in Seq(S) /\ Len(f \o l) = Len(f) + Len(l)
        /\ \A i \in 1..Len(f) + Len(l) :
             (f \o l)[i] = IF i <= Len(f) THEN f[i] ELSE l[i - Len(f)]
    BY <2>1, <2>2, ConcatProperties, Zenon
  <2>4. /\ f \o l \in Seq(S) /\ Len(f \o l) = Len(b)
        /\ \A i \in 1..Len(b) :
             (f \o l)[i] = IF i <= Len(f) THEN f[i] ELSE l[i - Len(f)]
    <3>1. Len(f) + Len(l) = Len(b)
      BY <2>1, <2>2, <2>3
    <3> QED BY <2>0, <3>1, Zenon
  <2>5. \A i \in 1..Len(b) : (f \o l)[i] = b[i]
    BY <1>2, <2>1, <2>2, <2>3, <2>4
  <2>6. f \o l = b
    BY <2>4, <2>5, SeqEqual
  <2> QED BY <2>6 DEF f, l
<1> QED BY <1>1, <1>2

\* The posted records come first, so that what remains is a suffix.
LEMMA PostedComeFirst ==
  ASSUME NEW S, NEW p \in Seq(S), NEW b \in Seq(S), NEW q \in Seq(S)
  PROVE  (p \o b) \o q = p \o (b \o q) /\ b \o q \in Seq(S)
BY ConcatAssociative, ConcatProperties

\* A record accepted by the channel comes last.
LEMMA OfferedComesLast ==
  ASSUME NEW S, NEW p \in Seq(S), NEW b \in Seq(S), NEW q \in Seq(S), NEW e \in S
  PROVE  (p \o b) \o Append(q, e) = Append((p \o b) \o q, e)
<1> DEFINE l == <<e>>
<1>1. p \o b \in Seq(S) /\ (p \o b) \o q \in Seq(S) /\ l \in Seq(S)
  BY ConcatProperties
<1>2. /\ Append(q, e) = q \o l
      /\ Append((p \o b) \o q, e) = ((p \o b) \o q) \o l
  BY <1>1, AppendIsConcat
<1> HIDE DEF l
<1>3. ((p \o b) \o q) \o l = (p \o b) \o (q \o l)
  <2> DEFINE pb == p \o b
  <2>1. pb \in Seq(S)
    BY <1>1
  <2> HIDE DEF pb
  <2>2. (pb \o q) \o l = pb \o (q \o l)
    BY <1>1, <2>1, ConcatAssociative, SMTT(30)
  <2> QED BY <2>2 DEF pb
<1> QED BY <1>2, <1>3

-----------------------------------------------------------------------------
(* The types, and who is inside the critical section.                      *)

USE NoCallAssumption, SinksAssumption, BoundsAssumption

LockInv == (pc = "free") <=> (holder = NoCall)

TypeInv == TypeOK /\ LockInv

\* An entry built by write_event is an entry of the queue's type.
LEMMA EntryType ==
  ASSUME TypeOK, NEW k \in {"call", "gap"}, NEW n \in Nat, NEW I \in SUBSET Calls
  PROVE  [kind |-> k, seq |-> seq + 1, n |-> n, ids |-> I] \in Entry
BY DEF TypeOK, Entry

\* The ids of well-typed entries are calls.
LEMMA IdsType ==
  ASSUME NEW s \in Seq(Entry), NEW k
  PROVE  IdsOf(s) \subseteq Calls /\ IdsOfKind(s, k) \subseteq Calls
<1>1. \A e \in ToSet(s) : e \in Entry
  BY DEF ToSet
<1>2. \A e \in ToSet(s) : e.ids \subseteq Calls
  BY <1>1 DEF Entry
<1> QED BY <1>2 DEF IdsOf, IdsOfKind

\* What the export half of write_event leaves behind.
LEMMA OfferType ==
  ASSUME TypeOK, NEW e \in Entry, NEW o, Offer(e, o)
  PROVE  queue' \in Seq(Entry) /\ Len(queue') <= QueueCapacity
<1>1. Append(queue, e) \in Seq(Entry) /\ Len(Append(queue, e)) = Len(queue) + 1
  BY AppendElements DEF TypeOK
<1>2. CASE o = "written" /\ HasExport /\ CanAccept
  BY <1>1, <1>2, BoundsAssumption DEF Offer, TypeOK, CanAccept
<1>3. CASE ~(o = "written" /\ HasExport /\ CanAccept)
  BY <1>3 DEF Offer, TypeOK
<1> QED BY <1>2, <1>3

LEMMA TypeInit == Init => TypeInv
<1> SUFFICES ASSUME Init PROVE TypeInv
  OBVIOUS
<1>1. <<>> \in Seq(Entry) /\ Len(<<>>) = 0
  OBVIOUS
<1>2. [c \in Calls |-> "idle"] \in [Calls -> {"idle", "recording", "ok", "err"}]
  OBVIOUS
<1>3. xpc \in {"recv", "post", "mark", "diag", "done"}
  BY DEF Init
<1>4. /\ queue \in Seq(Entry) /\ batch \in Seq(Entry) /\ posting \in Seq(Entry)
      /\ Len(queue) <= QueueCapacity /\ Len(batch) <= MaxBatch
  BY <1>1, BoundsAssumption DEF Init
<1>5. {droppedIds, lostIds, inFile, taken, tooLarge, reported, watch}
        \subseteq SUBSET Calls
  BY DEF Init
<1> QED BY <1>2, <1>3, <1>4, <1>5 DEF Init, TypeInv, TypeOK, LockInv

\* Every step of `record` keeps the types.
LEMMA TypeRecord ==
  ASSUME TypeInv, RecordStep
  PROVE  TypeInv'
<1> USE DEF TypeInv, LockInv
<1>0. pc # "free" => holder \in Calls
  BY DEF TypeOK
<1>1. ASSUME NEW c \in Calls, Begin(c) PROVE TypeInv'
  BY <1>1 DEF Begin, TypeOK, pipeVars, taskVars, gateVars, ghostVars
<1>2. CASE TakeLost
  BY <1>2 DEF TakeLost, TypeOK, taskVars, gateVars
<1>3. CASE MirrorLost
  BY <1>3 DEF MirrorLost, TypeOK, pipeVars, taskVars, gateVars, ghostVars
<1>4. CASE WriteGap
  <2>0. holder \in Calls
    BY <1>0, <1>4 DEF WriteGap
  <2>1. CASE dropped = 0
    BY <1>4, <2>0, <2>1 DEF WriteGap, TypeOK, taskVars, gateVars
  <2>2. CASE dropped # 0
    <3> PICK o \in FileOutcomes :
          /\ SpendSeq(o)
          /\ Offer([kind |-> "gap", seq |-> seq + 1, n |-> dropped,
                    ids |-> droppedIds], o)
          /\ reported' = IF LineInFile(o)
                         THEN reported \union droppedIds ELSE reported
          /\ AfterWrite(o, "clear")
      BY <1>4, <2>2 DEF WriteGap
    <3>1. queue' \in Seq(Entry) /\ Len(queue') <= QueueCapacity
      <4>1. [kind |-> "gap", seq |-> seq + 1, n |-> dropped,
             ids |-> droppedIds] \in Entry
        BY EntryType DEF TypeOK
      <4> QED BY <4>1, OfferType
    <3>2. seq' \in Nat
      BY DEF SpendSeq, TypeOK
    <3>3. pc' \in {"clear", "refuse", "fail"}
      BY DEF AfterWrite
    <3>4. /\ reported' \in SUBSET Calls
          /\ UNCHANGED <<holder, call, dropped, flag, lost, healthy, open,
                         taskVars, gateVars, droppedIds, lostIds, inFile, taken,
                         tooLarge>>
      BY <1>4 DEF WriteGap, TypeOK
    <3> QED BY <2>0, <3>1, <3>2, <3>3, <3>4, NoCallAssumption
           DEF TypeOK, taskVars, gateVars
  <2> QED BY <2>1, <2>2
<1>5. CASE ClearGap
  <2>1. watch' \in SUBSET Calls /\ exposed' \in BOOLEAN
    BY <1>5 DEF ClearGap, TypeOK
  <2> QED BY <1>0, <1>5, <2>1, ZenonT(30) DEF ClearGap, TypeOK, pipeVars, taskVars
<1>6. CASE WriteOwn
  <2> PICK o \in FileOutcomes :
       /\ SpendSeq(o)
       /\ Offer([kind |-> "call", seq |-> seq + 1, n |-> 0,
                 ids |-> {holder}], o)
       /\ inFile' = IF LineInFile(o) THEN inFile \union {holder} ELSE inFile
       /\ AfterWrite(o, "free")
       /\ IF WriteOk(o)
          THEN call' = [call EXCEPT ![holder] = "ok"] /\ holder' = NoCall
          ELSE UNCHANGED <<call, holder>>
    BY <1>6 DEF WriteOwn
  <2>0. holder \in Calls
    BY <1>0, <1>6 DEF WriteOwn
  <2>1. queue' \in Seq(Entry) /\ Len(queue') <= QueueCapacity
    <3>1. [kind |-> "call", seq |-> seq + 1, n |-> 0, ids |-> {holder}] \in Entry
      BY <2>0, EntryType
    <3> QED BY <3>1, OfferType
  <2>2. seq' \in Nat
    BY DEF SpendSeq, TypeOK
  <2>3. /\ call' \in [Calls -> {"idle", "recording", "ok", "err"}]
        /\ holder' \in Calls \union {NoCall}
        /\ pc' \in {"free", "refuse", "fail"} /\ (pc' = "free" <=> holder' = NoCall)
    <3>1. CASE WriteOk(o)
      BY <2>0, <3>1 DEF TypeOK, AfterWrite
    <3>2. CASE ~WriteOk(o)
      BY <2>0, <3>2, NoCallAssumption DEF TypeOK, AfterWrite
    <3> QED BY <3>1, <3>2
  <2>4. /\ inFile' \in SUBSET Calls
        /\ UNCHANGED <<dropped, flag, lost, healthy, open, taskVars, gateVars,
                       droppedIds, lostIds, taken, tooLarge, reported>>
    BY <1>6, <2>0 DEF WriteOwn, TypeOK
  <2> QED BY <2>1, <2>2, <2>3, <2>4 DEF TypeOK, taskVars, gateVars
<1>7. CASE Refused
  BY <1>0, <1>7 DEF Refused, TypeOK, taskVars, gateVars, ghostVars
<1>8. CASE Fail
  BY <1>0, <1>8 DEF Fail, FailFrame, TypeOK, pipeVars, taskVars, gateVars
<1> QED BY <1>1, <1>2, <1>3, <1>4, <1>5, <1>6, <1>7, <1>8 DEF RecordStep

\* Every step of the drain task keeps the types.
LEMMA TypeExport ==
  ASSUME TypeInv, ExportStep
  PROVE  TypeInv'
<1> USE DEF TypeInv, LockInv
<1>a. /\ queue \in Seq(Entry) /\ batch \in Seq(Entry) /\ posting \in Seq(Entry)
      /\ Len(queue) \in Nat /\ Len(batch) \in Nat /\ Len(posting) \in Nat
      /\ <<>> \in Seq(Entry) /\ Len(<<>>) = 0
  BY DEF TypeOK
<1>b. AfterPost => /\ posting' \in Seq(Entry) /\ batch' \in Seq(Entry)
                   /\ Len(batch') <= MaxBatch
                   /\ xpc' \in {"recv", "post", "diag"}
  <2>1. CASE tail
    BY <1>a, <2>1 DEF AfterPost, TypeOK
  <2>2. CASE ~tail
    BY <1>a, <2>2, BoundsAssumption DEF AfterPost
  <2> QED BY <2>1, <2>2
<1>c. CollectorTook => taken' \in SUBSET Calls /\ reported' \in SUBSET Calls
  BY <1>a, IdsType DEF CollectorTook, TypeOK
<1>1. CASE Receive
  <2>1. /\ Head(queue) \in Entry
        /\ Tail(queue) \in Seq(Entry) /\ Len(Tail(queue)) = Len(queue) - 1
    BY <1>1, <1>a, HeadTailElements DEF Receive
  <2>2. /\ batch' \in Seq(Entry) /\ Len(batch') = Len(batch) + 1
    BY <1>1, <1>a, <2>1, AppendElements DEF Receive
  <2> QED BY <1>1, <1>a, <2>1, <2>2, BoundsAssumption
         DEF Receive, TypeOK, sinkVars, gateVars, ghostVars
<1>2. CASE StartPost
  BY <1>2, <1>a, BoundsAssumption
  DEF StartPost, TypeOK, sinkVars, pipeVars, gateVars, ghostVars
<1>3. CASE SplitBatch
  <2>1. /\ Front(batch) \in Seq(Entry) /\ Last(batch) \in Entry
    BY <1>3, <1>a, FrontLastElements DEF SplitBatch
  <2>2. <<Last(batch)>> \in Seq(Entry) /\ Len(<<Last(batch)>>) = 1
    BY <2>1
  <2> QED BY <1>3, <1>a, <2>1, <2>2, BoundsAssumption
         DEF SplitBatch, TypeOK, sinkVars, pipeVars, gateVars, ghostVars
<1>4. CASE PostDelivered
  BY <1>4, <1>b, <1>c DEF PostDelivered, TypeOK, sinkVars, gateVars
<1>5. CASE PostTooLarge
  <2>1. tooLarge' \in SUBSET Calls
    BY <1>5, <1>a, IdsType DEF PostTooLarge, TypeOK
  <2> QED BY <1>5, <1>b, <2>1 DEF PostTooLarge, TypeOK, sinkVars, gateVars
<1>6. CASE PostFailed
  <2>1. /\ lost' \in Nat /\ lostIds' \in SUBSET Calls
        /\ taken' \in SUBSET Calls /\ reported' \in SUBSET Calls
    <3>1. IdsOf(posting) \subseteq Calls
      BY <1>a, IdsType
    <3>2. CASE CollectorTook
      BY <1>6, <1>a, <1>c, <3>1, <3>2 DEF PostFailed, TypeOK
    <3>3. CASE UNCHANGED <<taken, reported>>
      BY <1>6, <1>a, <3>1, <3>3 DEF PostFailed, TypeOK
    <3> QED BY <1>6, <3>2, <3>3 DEF PostFailed
  <2> QED BY <1>6, <1>a, <2>1 DEF PostFailed, TypeOK, sinkVars, gateVars
<1>7. CASE MarkUnhealthy
  <2>1. /\ posting' \in Seq(Entry) /\ batch' \in Seq(Entry) /\ Len(batch') <= MaxBatch
        /\ xpc' \in {"recv", "post", "diag"} /\ healthy' = FALSE
    BY <1>7, <1>b DEF MarkUnhealthy
  <2>2. UNCHANGED <<sinkVars, lost, queue, open, tail, cancelled, gateVars, ghostVars>>
    BY <1>7 DEF MarkUnhealthy
  <2>3. TypeOK'
    BY <2>1, <2>2, ZenonT(60) DEF TypeOK, sinkVars, gateVars, ghostVars
  <2>4. LockInv'
    BY <2>2 DEF sinkVars
  <2> QED BY <2>3, <2>4
<1>8. CASE FlushDiag
  BY <1>8, ZenonT(30) DEF FlushDiag, TypeOK, sinkVars, gateVars, ghostVars
<1> QED BY <1>1, <1>2, <1>3, <1>4, <1>5, <1>6, <1>7, <1>8 DEF ExportStep

\* The gate and the shutdown change no typed state but their own.
LEMMA TypeOthers ==
  ASSUME TypeInv, GateStep \/ Shutdown \/ UNCHANGED vars
  PROVE  TypeInv'
<1> USE DEF TypeInv, LockInv
<1>1. CASE GateStep
  <2>1. /\ gate' \in {"pass", "fail", "flag", "health"}
        /\ exposed' \in BOOLEAN /\ watch' \in SUBSET Calls
    <3>1. AbsorbWindow \in BOOLEAN /\ Pending \in SUBSET Calls
      BY DEF AbsorbWindow, Pending, TypeOK
    <3>2. CASE GatePeek
      BY <3>1, <3>2 DEF GatePeek, Refuse
    <3>3. CASE GateReadFlag
      BY <3>3 DEF GateReadFlag, Refuse, ReadNext, TypeOK
    <3>4. CASE GateReadHealth
      BY <3>4 DEF GateReadHealth, Refuse, ReadNext, TypeOK
    <3> QED BY <1>1, <3>2, <3>3, <3>4 DEF GateStep
  <2>2. UNCHANGED <<sinkVars, pipeVars, taskVars, ghostVars>>
    BY <1>1 DEF GateStep, GatePeek, GateReadFlag, GateReadHealth
  <2> QED BY <2>1, <2>2 DEF TypeOK, sinkVars, pipeVars, taskVars, ghostVars
<1>2. CASE Shutdown
  BY <1>2 DEF Shutdown, TypeOK, sinkVars, pipeVars, gateVars, ghostVars
<1>3. CASE UNCHANGED vars
  BY <1>3 DEF vars, TypeOK, sinkVars, pipeVars, taskVars, gateVars, ghostVars
<1> QED BY <1>1, <1>2, <1>3

\* The sink, the pipeline, the drain task and the gate keep their types,
\* the queue and the batch their bounds, in every run.
THEOREM TypeCorrect == Spec => []TypeOK
<1>1. Init => TypeInv
  BY TypeInit
<1>2. TypeInv /\ [Next]_vars => TypeInv'
  BY TypeRecord, TypeExport, TypeOthers DEF Next
<1>3. TypeInv => TypeOK
  BY DEF TypeInv
<1> QED BY <1>1, <1>2, <1>3, PTL DEF Spec

-----------------------------------------------------------------------------
(* The mirror, the counts and what the gate has read.                      *)

\* A count on the books for every loss on the books; nothing is posted
\* that is empty, so a failed post always adds to `lost`.
CountInv ==
  /\ ~HasExport => xpc = "done" /\ lostIds = {}
  /\ xpc = "post" => posting # <<>>
  /\ lostIds # {} => lost > 0
  /\ droppedIds # {} => dropped > 0

\* While the holder absorbs losses the mirror may already be up for losses
\* it is about to drain, or not yet for those it has drained; at any other
\* time it is up exactly when there is something to report.
MirrorInv ==
  /\ pc = "take" => (dropped > 0 => flag) /\ (flag => dropped > 0 \/ lost > 0)
  /\ pc = "mirror" => dropped > 0
  /\ pc \notin {"take", "mirror"} => (flag <=> dropped > 0)
  /\ pc = "clear" => dropped > 0

\* What a gate that met neither window may rely on: its losses sit in
\* `dropped` with the mirror up, until a gap record has reported them.
GateInv ==
  ~exposed =>
    /\ gate \in {"flag", "health", "pass"} =>
         watch \subseteq droppedIds /\ (watch # {} => flag)
    /\ gate \in {"health", "pass"} => watch = {}

GInv == TypeInv /\ CountInv /\ MirrorInv /\ GateInv

LEMMA GInit == Init => GInv
<1>1. Init => CountInv /\ MirrorInv /\ GateInv
  BY DEF Init, CountInv, MirrorInv, GateInv
<1> QED BY <1>1, TypeInit DEF GInv

\* Every step of `record` keeps the mirror and the gate's reads.
LEMMA GRecord ==
  ASSUME GInv, RecordStep
  PROVE  CountInv' /\ MirrorInv' /\ GateInv'
<1>0. /\ lost \in Nat /\ dropped \in Nat /\ flag \in BOOLEAN
      /\ pc \in {"free", "take", "mirror", "gap", "clear", "own", "refuse", "fail"}
      /\ (pc = "free") <=> (holder = NoCall)
      /\ droppedIds \in SUBSET Calls /\ watch \in SUBSET Calls
  BY DEF GInv, TypeInv, TypeOK, LockInv
<1> USE DEF GInv
<1>1. ASSUME NEW c \in Calls, Begin(c) PROVE CountInv' /\ MirrorInv' /\ GateInv'
  <2>1. pc = "free" /\ (flag <=> dropped > 0)
    BY <1>0, <1>1 DEF Begin, MirrorInv
  <2>2. UNCHANGED <<dropped, pipeVars, taskVars, gateVars, ghostVars>>
    BY <1>1 DEF Begin
  <2>3. CountInv'
    BY <2>2 DEF CountInv, pipeVars, taskVars, ghostVars
  <2>4. MirrorInv'
    BY <1>0, <1>1, <2>1, <2>2 DEF Begin, MirrorInv, pipeVars
  <2>5. GateInv'
    BY <1>1, <2>2 DEF Begin, GateInv, gateVars, ghostVars
  <2> QED BY <2>3, <2>4, <2>5
<1>2. CASE TakeLost
  <2>1. /\ dropped' = dropped + lost /\ droppedIds' = droppedIds \union lostIds
        /\ lost' = 0 /\ lostIds' = {} /\ pc = "take"
        /\ pc' = IF lost > 0 THEN "mirror" ELSE "gap"
        /\ UNCHANGED <<flag, xpc, posting, gate, watch, exposed>>
    BY <1>2 DEF TakeLost, taskVars, gateVars
  <2>2. CountInv'
    BY <1>0, <2>1 DEF CountInv
  <2>3. MirrorInv'
    BY <1>0, <2>1 DEF MirrorInv
  <2>4. GateInv'
    BY <2>1 DEF GateInv
  <2> QED BY <2>2, <2>3, <2>4
<1>3. CASE MirrorLost
  BY <1>0, <1>3 DEF MirrorLost, CountInv, MirrorInv, GateInv, pipeVars,
                     taskVars, gateVars, ghostVars
<1>4. CASE WriteGap
  <2>1. /\ pc = "gap" /\ (flag <=> dropped > 0)
        /\ pc' \in {"own", "clear", "refuse", "fail"}
        /\ pc' = "clear" => dropped > 0
        /\ UNCHANGED <<dropped, flag, droppedIds, lost, lostIds, xpc, posting,
                       gate, watch, exposed>>
    BY <1>0, <1>4 DEF WriteGap, AfterWrite, MirrorInv, taskVars, gateVars
  <2> QED BY <1>0, <2>1 DEF CountInv, MirrorInv, GateInv
<1>5. CASE ClearGap
  <2>1. /\ pc = "clear" /\ pc' = "own" /\ flag' = FALSE
        /\ dropped' = 0 /\ droppedIds' = {}
        /\ watch' = watch \intersect lostIds
        /\ exposed' = (exposed \/ (ClearWindow /\ gate \in {"flag", "health"}))
        /\ UNCHANGED <<lost, lostIds, xpc, posting, gate>>
    BY <1>5 DEF ClearGap, pipeVars, taskVars
  <2>2. CountInv' /\ MirrorInv'
    BY <2>1 DEF CountInv, MirrorInv
  <2>3. ASSUME ~exposed', gate' \in {"flag", "health", "pass"} PROVE watch' = {}
    <3>1. ~exposed /\ watch \subseteq droppedIds
      BY <2>1, <2>3 DEF GateInv
    <3>2. CASE gate = "pass"
      BY <2>1, <3>1, <3>2 DEF GateInv
    <3>3. CASE gate \in {"flag", "health"}
      BY <2>1, <2>3, <3>1, <3>3 DEF ClearWindow
    <3> QED BY <2>1, <2>3, <3>2, <3>3
  <2>4. GateInv'
    BY <2>3 DEF GateInv
  <2> QED BY <2>2, <2>4
<1>6. CASE WriteOwn
  <2>1. /\ pc = "own" /\ (flag <=> dropped > 0)
        /\ pc' \in {"free", "refuse", "fail"}
        /\ UNCHANGED <<dropped, flag, droppedIds, lost, lostIds, xpc, posting,
                       gate, watch, exposed>>
    BY <1>6 DEF WriteOwn, AfterWrite, MirrorInv, taskVars, gateVars
  <2> QED BY <1>0, <2>1 DEF CountInv, MirrorInv, GateInv
<1>7. CASE Refused
  <2>1. /\ pc = "refuse" /\ pc' = "fail" /\ (flag <=> dropped > 0)
        /\ UNCHANGED <<dropped, flag, droppedIds, lost, lostIds, xpc, posting,
                       gate, watch, exposed>>
    BY <1>7 DEF Refused, MirrorInv, taskVars, gateVars, ghostVars
  <2> QED BY <1>0, <2>1 DEF CountInv, MirrorInv, GateInv
<1>8. CASE Fail
  <2>1. /\ pc = "fail" /\ pc' = "free" /\ flag' = TRUE /\ dropped' = dropped + 1
        /\ droppedIds' = droppedIds \union {holder}
        /\ UNCHANGED <<lost, lostIds, xpc, posting, gate, watch, exposed>>
    BY <1>8 DEF Fail, FailFrame, pipeVars, taskVars, gateVars
  <2> QED BY <1>0, <2>1 DEF CountInv, MirrorInv, GateInv
<1> QED BY <1>1, <1>2, <1>3, <1>4, <1>5, <1>6, <1>7, <1>8 DEF RecordStep

\* The drain task raises `lost` and never lowers it, and touches neither
\* the mirror nor what the holder has folded in.
LEMMA GExport ==
  ASSUME GInv, ExportStep
  PROVE  CountInv' /\ MirrorInv' /\ GateInv'
<1> USE DEF GInv
<1>0. /\ lost \in Nat /\ posting \in Seq(Entry) /\ batch \in Seq(Entry)
  BY DEF TypeInv, TypeOK
<1>1. xpc # "done"
  BY DEF ExportStep, Receive, StartPost, SplitBatch, PostDelivered,
         PostTooLarge, PostFailed, MarkUnhealthy, FlushDiag
<1>2. UNCHANGED <<sinkVars, gateVars, droppedIds>>
  BY DEF ExportStep, Receive, StartPost, SplitBatch, PostDelivered,
         PostTooLarge, PostFailed, MarkUnhealthy, FlushDiag, ghostVars
<1>3. \/ UNCHANGED <<lost, lostIds>>
      \/ xpc = "post" /\ lost' = lost + Len(posting)
  BY DEF ExportStep, Receive, StartPost, SplitBatch, PostDelivered,
         PostTooLarge, PostFailed, MarkUnhealthy, FlushDiag, ghostVars,
         pipeVars
<1>4. lost' \in Nat /\ lost' >= lost /\ (lostIds' # {} => lost' > 0)
  <2>1. CASE UNCHANGED <<lost, lostIds>>
    BY <1>0, <2>1 DEF CountInv
  <2>2. CASE xpc = "post" /\ lost' = lost + Len(posting)
    <3>1. Len(posting) > 0 /\ Len(posting) \in Nat
      BY <1>0, <2>2 DEF CountInv
    <3> QED BY <1>0, <2>2, <3>1
  <2> QED BY <1>3, <2>1, <2>2
<1>5. xpc' = "post" => posting' # <<>>
  <2>1. AfterPost => (xpc' = "post" => posting' # <<>>)
    BY DEF AfterPost
  <2>2. CASE SplitBatch
    BY <1>0, <2>2, FrontLastElements DEF SplitBatch
  <2> QED BY <2>1, <2>2 DEF ExportStep, Receive, StartPost, PostDelivered,
             PostTooLarge, PostFailed, MarkUnhealthy, FlushDiag
<1>6. CountInv'
  BY <1>1, <1>2, <1>4, <1>5 DEF CountInv, sinkVars
<1>7. MirrorInv'
  BY <1>0, <1>2, <1>4 DEF MirrorInv, sinkVars
<1>8. GateInv'
  BY <1>2 DEF GateInv, sinkVars, gateVars
<1> QED BY <1>6, <1>7, <1>8

\* The gate reads the exporter's count first and the mirror second.
LEMMA GOthers ==
  ASSUME GInv, GateStep \/ Shutdown \/ UNCHANGED vars
  PROVE  CountInv' /\ MirrorInv' /\ GateInv'
<1> USE DEF GInv
<1>0. /\ lost \in Nat /\ dropped \in Nat /\ flag \in BOOLEAN
      /\ pc \in {"free", "take", "mirror", "gap", "clear", "own", "refuse", "fail"}
      /\ exposed \in BOOLEAN /\ exposed' \in BOOLEAN
  BY TypeOthers DEF TypeInv, TypeOK
<1>1. UNCHANGED <<sinkVars, pipeVars, ghostVars, posting, xpc>>
  BY DEF GateStep, Shutdown, vars, GatePeek, GateReadFlag, GateReadHealth, taskVars
<1>2. CountInv' /\ MirrorInv'
  BY <1>1 DEF CountInv, MirrorInv, sinkVars, pipeVars, ghostVars
<1> SUFFICES GateInv'
  BY <1>2
<1>3. CASE GatePeek
  <2>1. CASE HasExport /\ lost > 0
    BY <1>0, <1>3, <2>1 DEF GatePeek, Refuse, GateInv
  <2>2. CASE ~(HasExport /\ lost > 0)
    <3>1. gate' = "flag" /\ watch' = Pending /\ (exposed' <=> AbsorbWindow)
      BY <1>3, <2>2 DEF GatePeek
    <3>2. lostIds = {}
      BY <1>0, <2>2 DEF CountInv
    <3>3. watch' = droppedIds
      BY <3>1, <3>2 DEF Pending
    <3>4. ~exposed' /\ droppedIds # {} => flag
      BY <1>0, <3>1 DEF CountInv, MirrorInv, AbsorbWindow
    <3> QED BY <1>0, <1>1, <3>1, <3>3, <3>4 DEF GateInv, sinkVars, ghostVars
  <2> QED BY <2>1, <2>2
<1>4. CASE GateReadFlag
  BY <1>0, <1>1, <1>4 DEF GateReadFlag, Refuse, ReadNext, GateInv, sinkVars, ghostVars
<1>5. CASE GateReadHealth
  BY <1>0, <1>1, <1>5 DEF GateReadHealth, Refuse, ReadNext, GateInv, sinkVars, ghostVars
<1>6. CASE Shutdown \/ UNCHANGED vars
  BY <1>0, <1>1, <1>6 DEF Shutdown, vars, gateVars, GateInv, sinkVars, ghostVars
<1> QED BY <1>3, <1>4, <1>5, <1>6 DEF GateStep

LEMMA GInvariant == Spec => []GInv
<1>1. GInv /\ [Next]_vars => GInv'
  BY GRecord, GExport, GOthers, TypeRecord, TypeExport, TypeOthers DEF GInv, Next
<1> QED BY <1>1, GInit, PTL DEF Spec

\* Between two records the mirror the gate reads agrees with the count the
\* next audit_gap reports, for any number of calls and any interleaving with
\* the drain task.
THEOREM MirrorCorrect == Spec => []MirrorMatchesCount
<1>1. GInv => MirrorMatchesCount
  BY DEF GInv, MirrorInv, MirrorMatchesCount
<1> QED BY <1>1, GInvariant, PTL

\* AuditSink::failing, read without the lock, never answers "healthy" over a
\* loss that was pending from its first read to its last, unless it began
\* in an AbsorbWindow (MCAuditSink's GateSeesEveryLoss exhibits one) or the
\* mirror came down under it in a ClearWindow.
THEOREM GateCorrect == Spec => []GateSeesSettledLoss
<1>1. GInv => GateSeesSettledLoss
  BY DEF GInv, GateInv, GateSeesSettledLoss
<1> QED BY <1>1, GInvariant, PTL

-----------------------------------------------------------------------------
(* The records on their way to the collector: what a step of the drain     *)
(* task or of `record` does to them as one sequence.                       *)

LEMMA IdsConcat ==
  ASSUME NEW s \in Seq(Entry), NEW t \in Seq(Entry), NEW k
  PROVE  IdsOfKind(s \o t, k) = IdsOfKind(s, k) \union IdsOfKind(t, k)
<1>1. ToSet(s \o t) = ToSet(s) \union ToSet(t)
  BY ConcatElements
<1> QED BY <1>1 DEF IdsOfKind

LEMMA IdsAppend ==
  ASSUME NEW s \in Seq(Entry), NEW e \in Entry, NEW k
  PROVE  IdsOfKind(Append(s, e), k) =
           IdsOfKind(s, k) \union (IF e.kind = k THEN e.ids ELSE {})
<1>1. ToSet(Append(s, e)) = ToSet(s) \union {e}
  BY AppendElements
<1> QED BY <1>1 DEF IdsOfKind

\* An entry is a call's record or a gap record.
LEMMA IdsBothKinds ==
  ASSUME NEW s \in Seq(Entry)
  PROVE  IdsOf(s) = IdsOfKind(s, "call") \union IdsOfKind(s, "gap")
<1>0. \A e \in ToSet(s) : e \in Entry
  BY DEF ToSet
<1>1. \A e \in ToSet(s) : e.kind \in {"call", "gap"}
  BY <1>0 DEF Entry
<1> QED BY <1>1 DEF IdsOf, IdsOfKind

\* Nothing is posted between two posts.
PostingInv == xpc # "post" => posting = <<>>

LEMMA FlightType ==
  ASSUME TypeOK
  PROVE  /\ posting \in Seq(Entry) /\ batch \in Seq(Entry) /\ queue \in Seq(Entry)
         /\ InFlight \in Seq(Entry) /\ <<>> \in Seq(Entry)
<1>1. posting \in Seq(Entry) /\ batch \in Seq(Entry) /\ queue \in Seq(Entry)
  BY DEF TypeOK
<1>2. posting \o batch \in Seq(Entry)
  BY <1>1, ConcatElements
<1>3. (posting \o batch) \o queue \in Seq(Entry)
  BY <1>1, <1>2, ConcatElements
<1> QED BY <1>1, <1>3 DEF InFlight

\* The drain task only ever takes away the posting, from the front: no
\* batch, split or put-back record loses its place.
LEMMA FlightExport ==
  ASSUME TypeOK, PostingInv, ExportStep
  PROVE  /\ PostingInv'
         /\ \/ InFlight' = InFlight /\ xpc # "post"
            \/ InFlight = posting \o InFlight' /\ xpc = "post"
<1>0. /\ posting \in Seq(Entry) /\ batch \in Seq(Entry) /\ queue \in Seq(Entry)
      /\ InFlight = (posting \o batch) \o queue
      /\ InFlight' = (posting' \o batch') \o queue'
  BY FlightType DEF InFlight
<1>1. InFlight = posting \o (batch \o queue)
  BY <1>0, PostedComeFirst, SMTT(30)
<1>2. /\ (batch \o <<>>) \o queue = batch \o queue
      /\ (<<>> \o batch) \o queue = batch \o queue
      /\ Len(batch) >= 2 =>
           (Front(batch) \o <<Last(batch)>>) \o queue = batch \o queue
  BY <1>0, PostKeepsOrder, SMTT(30)
<1>3. ASSUME AfterPost, UNCHANGED queue
      PROVE  PostingInv' /\ InFlight' = batch \o queue
  <2>1. CASE tail
    BY <1>0, <1>2, <1>3, <2>1 DEF AfterPost, PostingInv
  <2>2. CASE ~tail
    BY <1>0, <1>2, <1>3, <2>2 DEF AfterPost, PostingInv
  <2> QED BY <2>1, <2>2
<1>4. CASE Receive
  <2>1. /\ queue # <<>> /\ xpc = "recv" /\ UNCHANGED <<posting, xpc>>
        /\ batch' = Append(batch, Head(queue)) /\ queue' = Tail(queue)
    BY <1>4 DEF Receive
  <2> DEFINE h == Head(queue)
             t == Tail(queue)
  <2>2. h \in Entry /\ t \in Seq(Entry) /\ <<h>> \o t = queue
    BY <1>0, <2>1, HeadTailElements, HeadAndTail
  <2>3. batch' = Append(batch, h) /\ queue' = t
    BY <2>1
  <2> HIDE DEF h, t
  <2>4. (posting \o Append(batch, h)) \o t = (posting \o batch) \o (<<h>> \o t)
    <3>1. posting \in Seq(Entry) /\ batch \in Seq(Entry)
      BY <1>0
    <3>2. h \in Entry /\ t \in Seq(Entry)
      BY <2>2
    <3> QED BY <3>1, <3>2, ReceiveKeepsOrder
  <2> QED BY <1>0, <2>1, <2>2, <2>3, <2>4 DEF PostingInv
<1>5. CASE StartPost
  <2>1. /\ xpc = "recv" /\ posting = <<>> /\ UNCHANGED queue
        /\ posting' = batch /\ batch' = <<>>
        /\ xpc' = IF batch = <<>> THEN "diag" ELSE "post"
    BY <1>5 DEF StartPost, PostingInv, pipeVars
  <2> QED BY <1>0, <1>2, <2>1 DEF PostingInv
<1>6. CASE SplitBatch
  <2>1. /\ xpc = "recv" /\ posting = <<>> /\ UNCHANGED queue
        /\ Len(batch) >= 2 /\ xpc' = "post"
        /\ posting' = Front(batch) /\ batch' = <<Last(batch)>>
    BY <1>6 DEF SplitBatch, PostingInv, pipeVars
  <2> QED BY <1>0, <1>2, <2>1 DEF PostingInv
<1>7. CASE PostDelivered \/ PostTooLarge
  <2>1. xpc = "post" /\ AfterPost /\ UNCHANGED queue
    BY <1>7 DEF PostDelivered, PostTooLarge
  <2> QED BY <1>1, <1>3, <2>1
<1>8. CASE PostFailed
  <2>1. /\ xpc = "post" /\ xpc' = "mark" /\ posting' = <<>>
        /\ UNCHANGED <<queue, batch>>
    BY <1>8 DEF PostFailed
  <2> QED BY <1>0, <1>1, <1>2, <2>1 DEF PostingInv
<1>9. CASE MarkUnhealthy
  <2>1. xpc = "mark" /\ posting = <<>> /\ AfterPost /\ UNCHANGED queue
    BY <1>9 DEF MarkUnhealthy, PostingInv
  <2> QED BY <1>0, <1>2, <1>3, <2>1
<1>10. CASE FlushDiag
  <2>1. /\ xpc = "diag" /\ xpc' # "post" /\ UNCHANGED <<queue, batch, posting>>
    BY <1>10 DEF FlushDiag
  <2> QED BY <1>0, <2>1 DEF PostingInv
<1> QED BY <1>4, <1>5, <1>6, <1>7, <1>8, <1>9, <1>10 DEF ExportStep

\* The export half of write_event adds its record at the end, or nothing.
LEMMA FlightOffer ==
  ASSUME TypeOK, NEW e \in Entry, NEW o, Offer(e, o), UNCHANGED <<posting, batch>>
  PROVE  InFlight' = IF o = "written" /\ HasExport /\ CanAccept
                     THEN Append(InFlight, e) ELSE InFlight
<1>0. /\ posting \in Seq(Entry) /\ batch \in Seq(Entry) /\ queue \in Seq(Entry)
      /\ InFlight = (posting \o batch) \o queue
      /\ InFlight' = (posting \o batch) \o queue'
  BY FlightType DEF InFlight
<1>1. (posting \o batch) \o Append(queue, e) = Append((posting \o batch) \o queue, e)
  BY <1>0, OfferedComesLast, SMTT(30)
<1>2. CASE o = "written" /\ HasExport /\ CanAccept
  BY <1>0, <1>1, <1>2 DEF Offer
<1>3. CASE ~(o = "written" /\ HasExport /\ CanAccept)
  BY <1>0, <1>3 DEF Offer
<1> QED BY <1>2, <1>3

-----------------------------------------------------------------------------
(* The order of export.                                                    *)

\* The sequence numbers of s rise and end at n.
Rising(s, n) ==
  /\ \A i \in 1..Len(s) : s[i].seq <= n
  /\ \A i, j \in 1..Len(s) : i < j => s[i].seq < s[j].seq

LEMMA RisingSuffix ==
  ASSUME NEW p \in Seq(Entry), NEW t \in Seq(Entry), NEW n \in Nat, Rising(p \o t, n)
  PROVE  Rising(t, n)
<1> DEFINE u == p \o t
<1>1. /\ Len(p) \in Nat /\ Len(t) \in Nat /\ Len(u) = Len(p) + Len(t)
      /\ \A i \in 1..Len(p) + Len(t) :
           u[i] = IF i <= Len(p) THEN p[i] ELSE t[i - Len(p)]
  BY ConcatProperties
<1>2. Rising(u, n)
  OBVIOUS
<1> HIDE DEF u
<1>3. \A i \in 1..Len(t) : i + Len(p) \in 1..Len(u) /\ u[i + Len(p)] = t[i]
  BY <1>1
<1>4. ASSUME NEW i \in 1..Len(t) PROVE t[i].seq <= n
  BY <1>2, <1>3 DEF Rising
<1>5. ASSUME NEW i \in 1..Len(t), NEW j \in 1..Len(t), i < j
      PROVE  t[i].seq < t[j].seq
  <2>1. i + Len(p) < j + Len(p)
    BY <1>1, <1>5
  <2> QED BY <1>2, <1>3, <2>1 DEF Rising
<1> QED BY <1>4, <1>5 DEF Rising

LEMMA RisingAppend ==
  ASSUME NEW s \in Seq(Entry), NEW e \in Entry, NEW n \in Nat,
         Rising(s, n), e.seq = n + 1
  PROVE  Rising(Append(s, e), n + 1)
<1> DEFINE u == Append(s, e)
<1>1. /\ Len(s) \in Nat /\ Len(u) = Len(s) + 1 /\ u[Len(s) + 1] = e
      /\ \A i \in 1..Len(s) : u[i] = s[i]
  BY AppendProperties
<1> HIDE DEF u
<1>a. \A i \in 1..Len(s) : s[i] \in Entry
  BY ElementOfSeq
<1>2. \A i \in 1..Len(s) : s[i].seq \in Nat /\ s[i].seq <= n
  BY <1>a DEF Rising, Entry
<1>3. ASSUME NEW i \in 1..Len(u) PROVE u[i].seq <= n + 1
  BY <1>1, <1>2
<1>4. ASSUME NEW i \in 1..Len(u), NEW j \in 1..Len(u), i < j
      PROVE  u[i].seq < u[j].seq
  <2>1. i \in 1..Len(s) /\ u[i] = s[i]
    BY <1>1, <1>4
  <2>2. CASE j \in 1..Len(s)
    BY <1>1, <1>4, <2>1, <2>2 DEF Rising
  <2>3. CASE j = Len(s) + 1
    BY <1>1, <1>2, <2>1, <2>3
  <2> QED BY <1>1, <2>2, <2>3
<1>5. Rising(u, n + 1)
  BY <1>3, <1>4 DEF Rising
<1> QED BY <1>5 DEF u

LEMMA RisingMore ==
  ASSUME NEW s \in Seq(Entry), NEW n \in Nat, Rising(s, n)
  PROVE  Rising(s, n + 1)
<1>0. \A i \in 1..Len(s) : s[i] \in Entry
  BY ElementOfSeq
<1>1. \A i \in 1..Len(s) : s[i].seq \in Nat
  BY <1>0 DEF Entry
<1> QED BY <1>1 DEF Rising

-----------------------------------------------------------------------------
(* What became of each record.                                             *)

\* Every record on its way names a call.
NamedInv == \A e \in ToSet(InFlight) : e.ids # {}

\* A count above zero is the count of some loss.
BooksInv == (lost > 0 => lostIds # {}) /\ (dropped > 0 => droppedIds # {})

\* The losses a gap record told of, while the sink's own books still have
\* them: the record is on its way, has arrived, or is itself a loss of lostIds.
ToldInv ==
  pc = "clear" => droppedIds \subseteq lostIds \union reported \union tooLarge
                                      \union IdsOfKind(InFlight, "gap")

\* NoSilentLoss, one call.
Settled(c) == call[c] \in {"ok", "err"} => Held(c) \/ Accounted(c)

FateInv ==
  /\ PostingInv
  /\ Rising(InFlight, seq)
  /\ NamedInv
  /\ BooksInv
  /\ ToldInv
  /\ \A c \in Calls : Settled(c)
  /\ FileLeadsCollector

SInv == GInv /\ FateInv

LEMMA FateInit == Init => FateInv
<1> SUFFICES ASSUME Init PROVE FateInv
  OBVIOUS
<1>1. posting = <<>> /\ batch = <<>> /\ queue = <<>> /\ seq = 0
  BY DEF Init
<1>2. InFlight = <<>>
  BY <1>1 DEF InFlight
<1>3. Len(InFlight) = 0 /\ ToSet(InFlight) = {}
  BY <1>2 DEF ToSet
<1>4. Rising(InFlight, seq) /\ NamedInv
  BY <1>3 DEF Rising, NamedInv
<1>5. IdsOfKind(InFlight, "call") = {}
  BY <1>3 DEF IdsOfKind
<1>6. FileLeadsCollector
  BY <1>5 DEF Init, FileLeadsCollector
<1>7. BooksInv /\ ToldInv /\ PostingInv /\ \A c \in Calls : Settled(c)
  BY DEF Init, BooksInv, ToldInv, PostingInv, Settled
<1> QED BY <1>4, <1>6, <1>7 DEF FateInv

\* A write_event that returns, on the records on their way: what it hands
\* over is numbered above them all, and the file has it first.
LEMMA FateOffer ==
  ASSUME SInv, NEW k \in {"call", "gap"}, NEW n \in Nat, NEW I \in SUBSET Calls,
         NEW o \in FileOutcomes, I # {}, SpendSeq(o),
         Offer([kind |-> k, seq |-> seq + 1, n |-> n, ids |-> I], o),
         UNCHANGED <<posting, batch, xpc>>
  PROVE  /\ PostingInv' /\ Rising(InFlight, seq)' /\ NamedInv'
         /\ LET on == o = "written" /\ HasExport /\ CanAccept
            IN  \A j \in {"call", "gap"} :
                  IdsOfKind(InFlight, j)' =
                    IdsOfKind(InFlight, j) \union (IF on /\ k = j THEN I ELSE {})
<1> DEFINE e == [kind |-> k, seq |-> seq + 1, n |-> n, ids |-> I]
           on == o = "written" /\ HasExport /\ CanAccept
<1>0. TypeOK /\ PostingInv /\ Rising(InFlight, seq) /\ NamedInv /\ seq \in Nat
  BY DEF SInv, GInv, TypeInv, TypeOK, FateInv
<1>1. /\ e \in Entry /\ e.kind = k /\ e.seq = seq + 1 /\ e.ids = I
  BY <1>0, EntryType
<1>2. Offer(e, o)
  OBVIOUS
<1> HIDE DEF e
<1>3. InFlight \in Seq(Entry)
  BY <1>0, FlightType
<1>4. InFlight' = IF on THEN Append(InFlight, e) ELSE InFlight
  BY <1>0, <1>1, <1>2, FlightOffer
<1>5. PostingInv'
  BY <1>0 DEF PostingInv
<1>6. CASE on
  <2>1. InFlight' = Append(InFlight, e) /\ seq' = seq + 1
    BY <1>4, <1>6 DEF SpendSeq
  <2>2. Rising(Append(InFlight, e), seq + 1)
    BY <1>0, <1>1, <1>3, RisingAppend
  <2>3. ToSet(Append(InFlight, e)) = ToSet(InFlight) \union {e}
    BY <1>1, <1>3, AppendElements
  <2>4. \A j : IdsOfKind(Append(InFlight, e), j) =
                 IdsOfKind(InFlight, j) \union (IF e.kind = j THEN e.ids ELSE {})
    BY <1>1, <1>3, IdsAppend
  <2>5. \A x \in ToSet(Append(InFlight, e)) : x.ids # {}
    BY <1>0, <1>1, <2>3 DEF NamedInv
  <2>6. NamedInv' /\ Rising(InFlight, seq)'
    BY <2>1, <2>2, <2>5 DEF NamedInv
  <2> QED BY <1>1, <1>5, <1>6, <2>1, <2>4, <2>6
<1>7. CASE ~on
  <2>1. InFlight' = InFlight /\ seq' \in {seq, seq + 1}
    BY <1>4, <1>7 DEF SpendSeq
  <2>2. Rising(InFlight, seq) /\ Rising(InFlight, seq + 1)
    BY <1>0, <1>3, RisingMore
  <2>3. NamedInv' /\ Rising(InFlight, seq)'
    BY <1>0, <2>1, <2>2 DEF NamedInv
  <2> QED BY <1>5, <1>7, <2>1, <2>3
<1> QED BY <1>6, <1>7

\* Where the pipeline and the file are as they were, so is every fate but
\* that of the losses that moved from the exporter to the sink.
LEMMA FateStands ==
  ASSUME SInv, UNCHANGED <<queue, batch, posting, xpc, seq, inFile, taken,
                           tooLarge, reported>>,
         Pending \subseteq Pending', BooksInv', ToldInv',
         \A c \in Calls : call'[c] \in {"ok", "err"} => call[c] = call'[c]
  PROVE  FateInv'
<1>1. InFlight' = InFlight
  BY DEF InFlight
<1>2. PostingInv' /\ Rising(InFlight, seq)' /\ NamedInv' /\ FileLeadsCollector'
  BY <1>1 DEF SInv, FateInv, PostingInv, NamedInv, FileLeadsCollector
<1>3. ASSUME NEW c \in Calls PROVE Settled(c)'
  <2>1. Settled(c)
    BY DEF SInv, FateInv
  <2>2. Held(c) => Held(c)'
    BY <1>1 DEF Held
  <2>3. Accounted(c) => Accounted(c)'
    BY <1>1 DEF Accounted
  <2> QED BY <2>1, <2>2, <2>3 DEF Settled
<1> QED BY <1>2, <1>3 DEF FateInv

\* Every step of `record` settles what it returns.
LEMMA FateRecord ==
  ASSUME SInv, RecordStep
  PROVE  FateInv'
<1>0. /\ lost \in Nat /\ dropped \in Nat /\ seq \in Nat
      /\ lostIds \in SUBSET Calls /\ droppedIds \in SUBSET Calls
      /\ call \in [Calls -> {"idle", "recording", "ok", "err"}]
      /\ (pc # "free" => holder \in Calls)
      /\ CountInv /\ BooksInv /\ ToldInv /\ FileLeadsCollector
      /\ PostingInv /\ Rising(InFlight, seq) /\ NamedInv
      /\ \A c \in Calls : Settled(c)
  BY DEF SInv, GInv, TypeInv, TypeOK, LockInv, FateInv
<1>1. ASSUME NEW c \in Calls, Begin(c) PROVE FateInv'
  <2>1. /\ UNCHANGED <<seq, dropped, pipeVars, taskVars, ghostVars>>
        /\ call' = [call EXCEPT ![c] = "recording"] /\ pc' # "clear"
    BY <1>1 DEF Begin
  <2>2. Pending' = Pending /\ BooksInv' /\ ToldInv'
    BY <1>0, <2>1 DEF Pending, BooksInv, ToldInv, pipeVars, ghostVars
  <2>3. \A d \in Calls : call'[d] \in {"ok", "err"} => call[d] = call'[d]
    BY <1>0, <2>1
  <2> QED BY <2>1, <2>2, <2>3, FateStands DEF pipeVars, taskVars, ghostVars
<1>2. CASE TakeLost
  <2>1. /\ dropped' = dropped + lost /\ lost' = 0 /\ pc' # "clear"
        /\ droppedIds' = droppedIds \union lostIds /\ lostIds' = {}
        /\ UNCHANGED <<call, queue, batch, posting, xpc, seq, inFile, taken,
                       tooLarge, reported>>
    BY <1>2 DEF TakeLost, taskVars
  <2>2. Pending \subseteq Pending'
    BY <2>1 DEF Pending
  <2>3. BooksInv' /\ ToldInv'
    BY <1>0, <2>1 DEF BooksInv, ToldInv
  <2> QED BY <2>1, <2>2, <2>3, FateStands
<1>3. CASE MirrorLost
  <2>1. UNCHANGED <<call, seq, dropped, pipeVars, taskVars, ghostVars>> /\ pc' # "clear"
    BY <1>3 DEF MirrorLost
  <2>2. Pending' = Pending /\ BooksInv' /\ ToldInv'
    BY <1>0, <2>1 DEF Pending, BooksInv, ToldInv, pipeVars, ghostVars
  <2> QED BY <2>1, <2>2, FateStands DEF pipeVars, taskVars, ghostVars
<1>4. CASE WriteGap
  <2>0. /\ UNCHANGED <<call, dropped, lost, batch, posting, xpc, droppedIds, lostIds,
                       inFile, taken, tooLarge>>
        /\ Pending' = Pending /\ BooksInv'
    BY <1>0, <1>4 DEF WriteGap, taskVars, Pending, BooksInv
  <2>1. CASE dropped = 0
    <3>1. UNCHANGED <<queue, seq, reported>> /\ pc' # "clear"
      BY <1>4, <2>1 DEF WriteGap
    <3>2. ToldInv'
      BY <3>1 DEF ToldInv
    <3> QED BY <2>0, <3>1, <3>2, FateStands
  <2>2. CASE dropped # 0
    <3> PICK o \in FileOutcomes :
          /\ SpendSeq(o)
          /\ Offer([kind |-> "gap", seq |-> seq + 1, n |-> dropped,
                    ids |-> droppedIds], o)
          /\ reported' = IF LineInFile(o)
                         THEN reported \union droppedIds ELSE reported
          /\ AfterWrite(o, "clear")
      BY <1>4, <2>2 DEF WriteGap
    <3> DEFINE on == o = "written" /\ HasExport /\ CanAccept
    <3>1. droppedIds # {}
      BY <1>0, <2>2 DEF BooksInv
    <3>2. /\ PostingInv' /\ Rising(InFlight, seq)' /\ NamedInv'
          /\ IdsOfKind(InFlight, "call")' = IdsOfKind(InFlight, "call")
          /\ IdsOfKind(InFlight, "gap")' =
               IdsOfKind(InFlight, "gap") \union (IF on THEN droppedIds ELSE {})
      BY <1>0, <2>0, <3>1, FateOffer
    <3>3. FileLeadsCollector'
      BY <1>0, <2>0, <3>2 DEF FileLeadsCollector
    <3>4. \A c \in Calls : Held(c)' <=> Held(c)
      BY <2>0, <3>2 DEF Held
    <3>5. ToldInv'
      <4>1. pc' = "clear" => on \/ droppedIds \subseteq reported'
        BY DEF AfterWrite, WriteOk, LineInFile
      <4> QED BY <2>0, <3>2, <4>1 DEF ToldInv
    <3>6. \A c \in Calls : Accounted(c) => Accounted(c)'
      BY <2>0, <3>2 DEF Accounted
    <3> QED BY <1>0, <2>0, <3>2, <3>3, <3>4, <3>5, <3>6 DEF FateInv, Settled
  <2> QED BY <2>1, <2>2
<1>5. CASE ClearGap
  <2>1. /\ pc = "clear" /\ pc' = "own" /\ dropped' = 0 /\ droppedIds' = {}
        /\ UNCHANGED <<call, seq, lost, queue, batch, posting, xpc, lostIds, inFile,
                       taken, tooLarge, reported>>
    BY <1>5 DEF ClearGap, pipeVars, taskVars
  <2>2. InFlight' = InFlight
    BY <2>1 DEF InFlight
  <2>3. BooksInv' /\ ToldInv'
    BY <1>0, <2>1 DEF BooksInv, ToldInv
  <2>4. \A c \in Calls : Held(c)' <=> Held(c)
    BY <2>1, <2>2 DEF Held
  <2>5. \A c \in Calls : Accounted(c) => Accounted(c)'
    BY <1>0, <2>1, <2>2 DEF ToldInv, Accounted, Pending
  <2>6. PostingInv' /\ Rising(InFlight, seq)' /\ NamedInv' /\ FileLeadsCollector'
    BY <1>0, <2>1, <2>2 DEF PostingInv, NamedInv, FileLeadsCollector
  <2> QED BY <1>0, <2>1, <2>3, <2>4, <2>5, <2>6 DEF FateInv, Settled
<1>6. CASE WriteOwn
  <2> PICK o \in FileOutcomes :
       /\ SpendSeq(o)
       /\ Offer([kind |-> "call", seq |-> seq + 1, n |-> 0,
                 ids |-> {holder}], o)
       /\ inFile' = IF LineInFile(o) THEN inFile \union {holder} ELSE inFile
       /\ AfterWrite(o, "free")
       /\ IF WriteOk(o)
          THEN call' = [call EXCEPT ![holder] = "ok"] /\ holder' = NoCall
          ELSE UNCHANGED <<call, holder>>
    BY <1>6 DEF WriteOwn
  <2> DEFINE on == o = "written" /\ HasExport /\ CanAccept
  <2>0. /\ holder \in Calls
        /\ UNCHANGED <<posting, batch, xpc, dropped, droppedIds, lost, lostIds,
                       taken, tooLarge, reported>>
    BY <1>0, <1>6 DEF WriteOwn, taskVars
  <2>1. {holder} \in SUBSET Calls /\ {holder} # {}
    BY <2>0
  <2>2. /\ PostingInv' /\ Rising(InFlight, seq)' /\ NamedInv'
        /\ IdsOfKind(InFlight, "gap")' = IdsOfKind(InFlight, "gap")
        /\ IdsOfKind(InFlight, "call")' =
             IdsOfKind(InFlight, "call") \union (IF on THEN {holder} ELSE {})
    BY <2>0, <2>1, FateOffer
  <2>3. on /\ HasFile => holder \in inFile'
    BY DEF LineInFile
  <2>4. inFile \subseteq inFile'
    OBVIOUS
  <2>5. FileLeadsCollector'
    BY <1>0, <2>0, <2>2, <2>3, <2>4 DEF FileLeadsCollector
  <2>6. \A c \in Calls : Held(c) => Held(c)'
    BY <2>0, <2>2, <2>4 DEF Held
  <2>7. pc' # "clear"
    BY DEF AfterWrite
  <2>8. BooksInv' /\ ToldInv'
    BY <1>0, <2>0, <2>7 DEF BooksInv, ToldInv
  <2>9. \A c \in Calls : Accounted(c) => Accounted(c)'
    BY <2>0, <2>2 DEF Accounted, Pending
  <2>10. ASSUME NEW c \in Calls PROVE Settled(c)'
    <3>1. CASE c = holder /\ WriteOk(o)
      <4>1. o = "written" /\ (HasExport => on)
        BY <3>1 DEF WriteOk
      <4>2. HasFile => c \in inFile'
        BY <3>1, <4>1 DEF LineInFile
      <4>3. HasExport => c \in IdsOfKind(InFlight, "call")'
        BY <2>2, <3>1, <4>1
      <4> QED BY <4>2, <4>3 DEF Settled, Held
    <3>2. CASE ~(c = holder /\ WriteOk(o))
      <4>1. call'[c] = call[c]
        BY <1>0, <2>0, <3>2
      <4> QED BY <1>0, <2>6, <2>9, <4>1 DEF Settled
    <3> QED BY <3>1, <3>2
  <2> QED BY <2>2, <2>5, <2>8, <2>10 DEF FateInv
<1>7. CASE Refused
  <2>1. /\ UNCHANGED <<call, seq, dropped, lost, queue, taskVars, ghostVars>>
        /\ pc' # "clear"
    BY <1>7 DEF Refused
  <2>2. Pending' = Pending /\ BooksInv' /\ ToldInv'
    BY <1>0, <2>1 DEF Pending, BooksInv, ToldInv, ghostVars
  <2> QED BY <2>1, <2>2, FateStands DEF taskVars, ghostVars
<1>8. CASE Fail
  <2>1. /\ holder \in Calls /\ pc' # "clear"
        /\ dropped' = dropped + 1 /\ droppedIds' = droppedIds \union {holder}
        /\ call' = [call EXCEPT ![holder] = "err"]
        /\ UNCHANGED <<seq, lost, queue, batch, posting, xpc, lostIds, inFile,
                       taken, tooLarge, reported>>
    BY <1>0, <1>8 DEF Fail, FailFrame, pipeVars, taskVars
  <2>2. InFlight' = InFlight
    BY <2>1 DEF InFlight
  <2>3. BooksInv' /\ ToldInv'
    BY <1>0, <2>1 DEF BooksInv, ToldInv
  <2>4. \A c \in Calls : Held(c)' <=> Held(c)
    BY <2>1, <2>2 DEF Held
  <2>5. \A c \in Calls : Accounted(c) \/ c = holder => Accounted(c)'
    BY <2>1, <2>2 DEF Accounted, Pending
  <2>6. \A c \in Calls : c # holder => call'[c] = call[c]
    BY <1>0, <2>1
  <2>7. PostingInv' /\ Rising(InFlight, seq)' /\ NamedInv' /\ FileLeadsCollector'
    BY <1>0, <2>1, <2>2 DEF PostingInv, NamedInv, FileLeadsCollector
  <2> QED BY <1>0, <2>3, <2>4, <2>5, <2>6, <2>7 DEF FateInv, Settled
<1> QED BY <1>1, <1>2, <1>3, <1>4, <1>5, <1>6, <1>7, <1>8 DEF RecordStep

\* A posting that leaves the pipeline was taken, refused as too large, or is
\* a loss on the books.
LEMMA FateExport ==
  ASSUME SInv, ExportStep
  PROVE  FateInv'
<1>0. /\ TypeOK /\ PostingInv /\ Rising(InFlight, seq) /\ NamedInv
      /\ BooksInv /\ ToldInv
      /\ FileLeadsCollector /\ \A c \in Calls : Settled(c)
      /\ seq \in Nat /\ lost \in Nat /\ HasExport
  BY DEF SInv, GInv, TypeInv, TypeOK, FateInv, CountInv, ExportStep, Receive,
         StartPost, SplitBatch, PostDelivered, PostTooLarge, PostFailed,
         MarkUnhealthy, FlushDiag
<1>1. /\ PostingInv'
      /\ \/ InFlight' = InFlight /\ xpc # "post"
         \/ InFlight = posting \o InFlight' /\ xpc = "post"
  BY <1>0, FlightExport
<1>2. UNCHANGED <<call, seq, pc, dropped, droppedIds, inFile>>
  BY DEF ExportStep, Receive, StartPost, SplitBatch, PostDelivered,
         PostTooLarge, PostFailed, MarkUnhealthy, FlushDiag, sinkVars, ghostVars
<1>3. CASE InFlight' = InFlight /\ xpc # "post"
  <2>1. UNCHANGED <<lost, lostIds, taken, tooLarge, reported>>
    BY <1>3 DEF ExportStep, Receive, StartPost, SplitBatch, PostDelivered,
         PostTooLarge, PostFailed, MarkUnhealthy, FlushDiag, pipeVars, ghostVars
  <2>2. /\ Rising(InFlight, seq)' /\ NamedInv' /\ FileLeadsCollector'
        /\ BooksInv' /\ ToldInv'
    BY <1>0, <1>2, <1>3, <2>1 DEF NamedInv, FileLeadsCollector, BooksInv, ToldInv
  <2>3. \A c \in Calls : Settled(c)'
    BY <1>0, <1>2, <1>3, <2>1 DEF Settled, Held, Accounted, Pending
  <2> QED BY <1>1, <2>2, <2>3 DEF FateInv
<1>4. CASE InFlight = posting \o InFlight' /\ xpc = "post"
  <2>0. posting \in Seq(Entry) /\ InFlight' \in Seq(Entry)
    <3>1. TypeOK'
      BY TypeExport DEF SInv, GInv, TypeInv
    <3>2. InFlight' \in Seq(Entry)
      <4>1. /\ posting' \in Seq(Entry) /\ batch' \in Seq(Entry)
            /\ queue' \in Seq(Entry)
        BY <3>1 DEF TypeOK
      <4>2. posting' \o batch' \in Seq(Entry)
        BY <4>1, ConcatElements
      <4>3. (posting' \o batch') \o queue' \in Seq(Entry)
        BY <4>1, <4>2, ConcatElements
      <4> QED BY <4>3 DEF InFlight
    <3> QED BY <1>0, <3>2 DEF TypeOK
  <2> DEFINE rest == InFlight'
  <2>1. rest \in Seq(Entry) /\ InFlight = posting \o rest
    BY <1>4, <2>0
  <2>2. /\ IdsOfKind(InFlight, "call")' = IdsOfKind(rest, "call")
        /\ IdsOfKind(InFlight, "gap")' = IdsOfKind(rest, "gap")
        /\ NamedInv' <=> \A e \in ToSet(rest) : e.ids # {}
        /\ Rising(InFlight, seq)' <=> Rising(rest, seq)
    BY <1>2 DEF NamedInv
  <2> HIDE DEF rest
  <2>3. /\ IdsOfKind(InFlight, "call") =
             IdsOfKind(posting, "call") \union IdsOfKind(rest, "call")
        /\ IdsOfKind(InFlight, "gap") =
             IdsOfKind(posting, "gap") \union IdsOfKind(rest, "gap")
        /\ IdsOf(posting) = IdsOfKind(posting, "call") \union IdsOfKind(posting, "gap")
    BY <2>0, <2>1, IdsConcat, IdsBothKinds
  <2>4. ToSet(InFlight) = ToSet(posting) \union ToSet(rest)
    BY <2>0, <2>1, ConcatElements
  <2>5. NamedInv'
    BY <1>0, <2>2, <2>4 DEF NamedInv
  <2>6. Rising(InFlight, seq)'
    BY <1>0, <2>0, <2>1, <2>2, RisingSuffix
  <2>7. /\ taken' \subseteq taken \union IdsOfKind(posting, "call")
        /\ taken \subseteq taken' /\ tooLarge \subseteq tooLarge'
        /\ reported \subseteq reported' /\ lostIds \subseteq lostIds'
        /\ \/ /\ IdsOfKind(posting, "call") \subseteq taken'
              /\ IdsOfKind(posting, "gap") \subseteq reported'
           \/ IdsOf(posting) \subseteq tooLarge'
           \/ IdsOf(posting) \subseteq lostIds'
    BY <1>4 DEF ExportStep, Receive, StartPost, SplitBatch, PostDelivered,
         PostTooLarge, PostFailed, MarkUnhealthy, FlushDiag, CollectorTook
  <2>8. BooksInv'
    <3>1. CASE UNCHANGED <<lost, lostIds>>
      BY <1>0, <1>2, <3>1 DEF BooksInv
    <3>2. CASE PostFailed
      <4>1. posting # <<>> /\ IdsOf(posting) \subseteq lostIds'
        BY <1>4, <3>2 DEF PostFailed, SInv, GInv, CountInv
      <4>2. Head(posting) \in ToSet(posting)
        BY <2>0, <4>1, HeadTailElements
      <4>3. Head(posting).ids # {} /\ Head(posting).ids \subseteq IdsOf(posting)
        BY <1>0, <2>4, <4>2 DEF NamedInv, IdsOf
      <4> QED BY <1>0, <1>2, <4>1, <4>3 DEF BooksInv
    <3> QED BY <1>4, <3>1, <3>2 DEF ExportStep, Receive, StartPost, SplitBatch,
               PostDelivered, PostTooLarge, MarkUnhealthy, FlushDiag
  <2>9. FileLeadsCollector'
    BY <1>0, <1>2, <2>2, <2>3, <2>7 DEF FileLeadsCollector
  <2>10. ASSUME NEW c \in Calls PROVE Settled(c)'
    <3>1. Settled(c) /\ call' = call /\ inFile' = inFile /\ droppedIds' = droppedIds
      BY <1>0, <1>2
    <3>2. Held(c) => Held(c)' \/ Accounted(c)'
      BY <1>0, <2>2, <2>3, <2>7, <3>1 DEF Held, Accounted, Pending
    <3>3. Accounted(c) => Accounted(c)'
      BY <2>2, <2>3, <2>7, <3>1 DEF Accounted, Pending
    <3> QED BY <3>1, <3>2, <3>3 DEF Settled
  <2>11. ToldInv'
    BY <1>0, <1>2, <2>2, <2>3, <2>7 DEF ToldInv
  <2> QED BY <1>1, <2>5, <2>6, <2>8, <2>9, <2>10, <2>11 DEF FateInv
<1> QED BY <1>1, <1>3, <1>4

\* The gate and the shutdown touch no record.
LEMMA FateOthers ==
  ASSUME SInv, GateStep \/ Shutdown \/ UNCHANGED vars
  PROVE  FateInv'
<1>1. UNCHANGED <<sinkVars, pipeVars, ghostVars, batch, posting, xpc>>
  BY DEF GateStep, Shutdown, vars, GatePeek, GateReadFlag, GateReadHealth, taskVars
<1>2. Pending' = Pending /\ BooksInv' /\ ToldInv'
  BY <1>1 DEF SInv, FateInv, BooksInv, ToldInv, Pending, InFlight, sinkVars,
              pipeVars, ghostVars
<1> QED BY <1>1, <1>2, FateStands DEF sinkVars, pipeVars, ghostVars

LEMMA SInvariant == Spec => []SInv
<1>1. Init => SInv
  BY GInit, FateInit DEF SInv
<1>2. SInv /\ [Next]_vars => SInv'
  BY FateRecord, FateExport, FateOthers, GRecord, GExport, GOthers, TypeRecord,
     TypeExport, TypeOthers DEF SInv, GInv, Next
<1> QED BY <1>1, <1>2, PTL DEF Spec

\* AuditSink::record and the exporter lose nothing in silence, for any
\* number of calls, any queue and batch bound, and any pair of destinations:
\* a record is at each of them or on its way there, or its loss is counted,
\* reported or in a gap record on its way.
THEOREM LossCorrect == Spec => []NoSilentLoss
<1>1. SInv => NoSilentLoss
  BY DEF SInv, GInv, TypeInv, TypeOK, FateInv, CountInv, BooksInv, Settled,
         NoSilentLoss
<1> QED BY <1>1, SInvariant, PTL

\* The collector never has a call's record that the file lacks, and records
\* leave the queue, the batch and its splits in the order of their numbers.
THEOREM CollectorCorrect == Spec => []CollectorTrailsFile
<1>1. SInv => CollectorTrailsFile
  BY DEF SInv, FateInv, Rising, CollectorTrailsFile, ExportInSeqOrder
<1> QED BY <1>1, SInvariant, PTL
=============================================================================
